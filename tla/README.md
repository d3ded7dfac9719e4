# Verification of go-bricks-openapi

`go-bricks-openapi` reads the source of a go-bricks service, without running or
type-checking it, and writes an OpenAPI document. Two things make that hard to
get right. The analyzer follows *syntax* where Go follows *execution*, so every
shortcut is a claim about all executions of the analysed program. And the
document is cut out of one registry by several passes, each of which has to
agree with the others about what is there.

These modules model that: the analysis of route prefixes, the discovery of
modules and routes, the resolution of a field's type and the method sets that
decide how it is encoded, the fields a struct documents, anonymous structs, the
registration of component types, validation tags as schema keywords, the
assembly of the document, and the command that puts it on disk. Everything named
here lives in `internal/` of the repository unless a path says otherwise.

Run a model with `tlc -config X.cfg M`, check the proofs with `tlapm M.tla`.

## The system

| Component | Code | State it keeps | Operations | What is hard about it |
|---|---|---|---|---|
| Project discovery | `analyzer.go` 244-563 | modules, seen directories, near misses, files walked | walk a directory, read a file, extract a module | what a directory *is* is known only at the end; a file is parsed several times, by several paths |
| Route walk, helpers, delegates | `analyzer.go` 687-1558 | the walks in progress, their shared key set, routes so far | visit a call, recurse, return | cycles among helpers; names that several packages share; a prefix handed from caller to callee |
| Registrar prefixes | `registrar.go`, `scope.go` | a stack of frames, pending writes, captured names | advance, assign, look up, leave a scope | branches, loops and closures run in orders the text does not show |
| Comment directives | `directive.go` | groups by file and line, attached flags | index, attach, report | attachment is recorded by a walk that may reach a file before or after it is indexed |
| Component registration | `analyzer.go` 3402-3742, `resolution.go`, `anonymous.go` | type registry, names by identity, names taken, depth latch | register a payload or a type, stamp a reference | cycles, chains past the limit, packages with one name, a name taken while a reference to it waits |
| Type resolution | `resolution.go`, `builtins.go`, `generic.go`, `payload.go` | names being resolved, references met, the first fallback | resolve an expression, merge the copies of a name, note a fallback | build constraints are not evaluated, so a name may mean several types; methods change what a type is written as |
| Embedding and binding | `embed.go`, `binding.go`, `analyzer.go` 4225-4440 | structs being extracted, warnings by field | promote, drop dominated fields, warn once | fields that hide one another at many depths; one field reached by several routes |
| Method sets | `marshaler.go` | memo, cut counter, open types | walk a type, promote, recall | a result computed inside a cycle depends on the path to it |
| Anonymous structs | `anonymous.go` | open literals, classes of literals on a cycle, extraction count | open, close, merge classes | literals that reach one another in every order |
| Response inference | `constructors.go` | none | statuses from the constructors a handler calls | a pure pass over one body |
| Document assembly | `generator/openapi.go` | emitted routes, operationIds, paths, schemas | reduce, name, attach, gate, merge | several passes over one set must agree |
| Constraints | `generator/constraints.go`, `analyzer.go` 4696-4738 | none | validation tags to schema keywords | several rules share a keyword, and a rule means another thing on another type |
| `generate` | `commands/generate.go` | the output file, warning count, exit | gates, write, remove | calls that fail and processes that are killed between two of them |
| `doctor`, `validate`, `version` | `commands/`, `specvalidate/` | none | print a report, call a library | no state of their own |

Discovery calls the route walk for each module; the walk drives one registrar
tracker for each body and hands prefixes to the walks it opens; each route it
builds registers its request and response types. The generator reads the
resulting project once; the command runs both, counts what they warned about,
and decides whether the document may be on disk. The program is one goroutine:
the concurrency in the models is that of the analysed program (closures called
at any time), of the file system (calls that fail), and of the operating system
(kills), plus the orders Go leaves open (map iteration).

What makes each correct, informally: discovery sees every registration that is
reachable, once, and says what it dropped; a route carries the path its
registrar has whenever it runs; a component's name belongs to one declaration
and every `$ref` reaches the declaration it was made for; a struct documents the
fields `encoding/json` writes, each as it is written; a schema admits what the
validator accepts; the passes over the emitted routes agree; what is at the
output path agrees with the exit status.

## The modules

| Module | What it models | Theorems |
|---|---|---|
| `RegistrarTracker` | the walk of one function body: frames, pending writes, captured names, the outcome of each registration | `RegistrarTrackerProofs` |
| `RegistrarSoundness` | the same body run as Go runs it, composed with the tracker | |
| `RouteDiscovery` | discovery, helper and delegate recursion, directives | `RouteDiscoveryProofs` |
| `MethodSets` | the walk that decides whether `encoding/json` writes a struct through a method of its own, with its memo | `MethodSetsProofs` |
| `TypeResolution` | what one field's type resolves to, over build-tagged copies | |
| `StructFields` | which fields of a struct are documented, and the warnings they raise | |
| `LiteralExpansion` | what the expansion of anonymous structs promises | |
| `LiteralCycles` | how it is done: open literals, classes of a cycle, limits; implements `LiteralExpansion` | `LiteralCyclesProofs` |
| `Constraints` | the rules of a tag as keywords of a property and its items | `ConstraintsProofs` |
| `TypeRegistration` | registration of components by depth-first search | `TypeRegistrationProofs` |
| `SpecEmission` | `Generate`: routes, ids, paths, component gates | `SpecEmissionProofs` |
| `FreshNames` | the numbering loop that both of the last two use for colliding names | in the proofs of both |
| `GenerateCommand` | `generate`, run after run over one disk | `GenerateCommandProofs` |

The `MC*` modules give constants to these for TLC and hold nothing else.

A definition marked "for the mutation runs" is the next one as a plausible bug
would have it: `PROJECT.json` lists, for each property of a passing run, a
definition whose replacement by such a variant makes TLC find the property
violated.

### RegistrarTracker and RegistrarSoundness

A body is its syntax tree numbered in source order, so a position is a number.
`cursor` and `pc` say where `walkScoped` stands and which part of its callback
(`advance`, `applyDue`, then `visitCall` or `recordBindings`) is next; `frames`
is `registrarTracker.top` with its parents; `pending` holds the writes waiting
for the end of their statement. Lexical scopes (`scope.go`) are operators of
the tree rather than state, as a scope never changes once it is pushed.

`RegistrarSoundness` is the specification the tracker is measured against: once
the walk is over, the body is executed, with branches and lap counts chosen
freely, variables as cells that closures share, a cell for each lap of a `for`,
and every closure callable between any two statements, later and more than
once. `RoutesHoldTheirPrefix` then compares what the registrar holds with what
the walk emitted. It is Go's semantics and not code of the repository.

Not modelled: `goto` (the README says it is not handled), `return` and `break`,
which only remove executions; the constants the same scopes hold. A value the
analyzer cannot follow and takes to be prefix-less by its documented policy
(README "Known limitations") *is* prefix-less in the execution. The targets of
one assignment are distinct names.

### RouteDiscovery

A project is data: files in the order `filepath.Walk` reaches them, comment
groups, and functions whose bodies are sequences of registrations and calls.
`ReadFile`, `SkipFile` and `OpenModule` are the outcomes of
`moduleDiscoverer.walk` for one file; `WalkCopy` takes the next file of
`extractRoutesFromPackage`'s map, in any order, as a map range does;
`CloseModule` and `Report` are the rest of `walk` and of `discoverModules`. The
stack of `routeWalker`s is `stack`, their shared key set is `open`. Each call
in a body is passed over (`PassCall`), cut (`CutCycle`), refused with or
without a warning (`RefuseCall`) or followed (`FollowCall`). A file is indexed
for directives at every place that parses it.

Inside one body a registrar is the `Group` calls between it and the parameter
(`Reg`): how that is found out is `RegistrarTracker`'s matter, whose constant
`Seed` is what `Seeded` computes here. `recognised` and the field `real` of
frames and routes are read by properties only. Not modelled: how the handler of
a registration is analysed (which may parse, and index, further packages), raw
`Add` registrations apart from others, second and later directives of a group.

### MethodSets

The recursion of `methodSetOf` with its call stack in the open: a frame of
`stack` is one call that has passed the memo, `got` the sets its callees have
returned so far, and `Callees` the calls `rhsMethodSet` and `promotedMethods`
make, in order. Each call ends in one of four ways: a type of another module is
read from the table (`ReadKnown`), an open type is cut (`Cut`), a remembered set
is recalled (`Recall`), anything else is walked (`Walk`, then `Return`, which
remembers the set if no cut came between). `Ask` is a question of
`structMarshalerLeaf`; several share one memo, as the fields of a project do.
`Promote` says in one step what `promote` builds entry by entry.

`Selected` is the reference: Go's selector rules over the paths of embeddings,
with no walk, no open types and no memo. `Owner` stands for what `display`
prints, the type and whether it is shown bare, which is why the memo's key
holds the home package. Methods' signatures are reduced to exact or not.
`TypesAssumption` is what the Go compiler sees to: only a struct has fields, and
two of its embeds have different names. It also says that a method's receiver
names its type and not an alias of it: `visitMarshalerMethods` compares the
receiver's name as written, so a method whose receiver is an alias is out of
the model.

Not modelled: types declared in several build-tagged files, methods declared on
one in another file than the type (the code reads the whole package, so the
table does too), questions in underlying mode, anonymous structs
(`promotedMethods` called from `anonymous.go`), and `marshalerSet`, the plain
scan for types that are no structs.

### TypeResolution

A type is written as a shape: a builtin, a container, a name of its own package
or a qualified one. `ResolveShape`, `ResolveLocal`, `ResolveDecls`,
`ResolveUnderlying` and `ResolveQualified` are the functions of `resolution.go`
of those names, recursive as they are; what they share through `resolveState`
(the stack of open names, the references, the first fallback) is threaded
through them. `ResolveField` resolves one field in one step.

The reference is Go: `Denotes` follows a name to its literal type in one build,
where a name has one declaration, `MethodsOf` says whether `encoding/json` or
the binder finds a method, and `Holds` whether a documented shape is what is
then written. `EncodedAsDocumented` compares the two.

Not modelled: finding the file and the import a name is looked up in, spellings
that stand for a well-known type of a drop-in module, the base of a generic
instantiation (`generic.go`; an instantiation is a leaf here), the screening of
payloads (`payload.go`), and the comparison of build-tagged copies that hold
anonymous structs. The methods a struct promotes are `MethodSets`', so a struct
here has its own methods as data.

### StructFields

A project's types hold their fields in order; an embed names a type by number.
`stack` is `extractRankedFields` in the open: a frame is one struct being
extracted, `out` what its fields gave so far. An embed is skipped (`SkipEmbed`),
becomes a property (`NestEmbed`), is dropped (`PromoteNothing`, `DropEmbed`), or
is promoted (`PromoteStruct`, `PromoteTooDeep`, `Return`); which one is
`ClassifyEmbed`. `Take` begins with a struct that a route or a reference leads
to. `log` holds `fieldWarned`, `uintptrWarned` and `fieldWarnings`.

`Encoded` is `encoding/json`'s rule over all depths at once, `Bound` the
parameters a request can bind, `Due` the warning a field should raise; none of
them walks. What a field's type resolved to is data (`TypeResolution` computes
it). Not modelled: the warning about a reference whose struct was not
registered, the warnings of the fields of anonymous structs, parenthesised
types.

### LiteralExpansion and LiteralCycles

An anonymous struct may embed the struct it is written in, so the graph of
literals has cycles. `LiteralExpansion` says what resolving a field may do with
a literal, however cycles are kept track of: expand it if it is not open, cut it
only at a limit or where a cycle leads back to an open one. `LiteralCycles` is
`resolveStruct`, `extractLiteral`, `closesLiteralCycle` and `closeLiteral` with
the recursion as `openLiterals` and the union-find forest as the map `cycleRoot`
from a literal to its root. `ImplementsExpansion` is the refinement, with
`open <- openLiterals`. `AnalyzeAgain` is a second `AnalyzeProject` of one
analyzer.

Not modelled: the comparison of literals in build-tagged files, and the
registration of the references in a literal (`TypeRegistration` counts the
levels they cost).

### Constraints

`ReadRule` files one rule of the tag with the field or, after a dive, its
elements. `SetType`, `ConstrainField` and `ConstrainItems` are
`bareFieldProperty` and `applyValidationConstraints`; `ConstraintsFor` applies
the keys of a map in sorted order (`SetAfter` is the set after each turn of its
loop, `Ruled` one turn), `StringRule`, `NumberRule` and `Cardinal` choose the
keyword, `MergeNumeric`, `KeepLarger` and `KeepSmaller` merge bounds. `Meets` is
what the validator checks, with the strings of each content rule given by the
constant `Fits`, and `Admits` what the schema admits. A field's values are those
of the constants `Text`, `Numbers` and `Sizes`; numbers count in halves.
`BoundsExact` speaks of rules that have a keyword on the type and could be met
(`Exact`): a negative length is clamped to 0 or dropped on purpose. `omitempty` is no rule
of the model. Not modelled: splitting a tag into rules and a value into words,
layouts of `datetime`, rounding to `float64`.

### TypeRegistration

A declaration is a number; its directory, package clause, name, the struct it
ends at, and the references of its fields in order are data, what
`resolution.go` makes of the syntax. `RegisterStruct` pushes a struct before its fields
are followed; `Return` makes the stamp when the recursion below it is over,
as in `registerResolutionRefs`. `level` counts the anonymous structs between a
field and its reference, each of which costs one level of depth.

### SpecEmission

A slot is a method and path, numbered in the order keys sort. One action per
iteration of `emittedRoutes`, `assignOperationIDs` and `buildPaths`, one for the
components. The gates (`Referenced`, `Generated`, `StandardFor`) are translated
pass by pass, and what an operation really refers to (`OperationRefs`) is
translated separately from the builders: `RefsResolve` is the statement that
the two agree. Not modelled: info, servers, security schemes and tenants,
descriptions, the inside of schemas, the fallback registry for projects without
types. `Analyzed` and `WellFormed` say what the analyzer hands over.

### GenerateCommand

One action per call outside the process; `os.WriteFile` is two (truncate,
fill); `Kill` may come between any two. `disk` persists over runs, `before` is
what the run found. `usable` folds into one flag the option checks that end the
run before anything is read.

## The runs

| Run | Question | Result |
|---|---|---|
| `registrar_tracker` | Do the frames follow the syntax tree and the writes land in open frames? Is a registrar that only straight-line code writes pinned to Go's value? | holds |
| `registrar_soundness` | Can a registrar, at run time, hold another prefix than the route was emitted with? | holds, without `var` declarations that lack a value |
| `registrar_unset` | The same with those | violated |
| `route_discovery` | Is every reachable registration seen, with the right prefix, whatever cycles, name clashes, build-tagged copies and unreadable files there are? Are detached directives and near misses exactly the real ones? Does discovery end? | holds |
| `method_sets` | Is every method set, answered or remembered, what Go's selector rules give, and every leaf what `encoding/json` does? | holds, without defined types over a struct on a cycle |
| `type_resolution` | Is a field that raises no warning documented as `encoding/json` writes it in every build? Does the one warning of any other tell where its resolution stopped? | holds |
| `struct_fields` | Are the fields documented for a struct those `encoding/json` writes, its parameters those go-bricks binds, each once? Does every field raise the one warning due, whoever reaches it first? | holds |
| `literal_cycles` | Is a cycle of anonymous structs unfolded once below each of its literals? Does what a field documents depend on the fields or analyses before it? Is the limit reported once? Is every step one that the abstract expansion allows? | holds |
| `constraint_sets` | Does a schema admit every value the validator accepts, for any rules in any order? Are shared bounds neither loosened nor tightened? | holds, with the exceptions under "Where code and text disagree" |
| `type_registration` | Do names, references and recursion hold up under colliding packages, cycles and the depth limit? | holds |
| `spec_emission` | Do ids, paths, references and gates agree? | holds |
| `generate_command` | Does what is on disk agree with the exit and the gates, over two runs with any failure and kill? | holds |

### Bounds

* Bodies (`MCRegistrarBodies`): two registrars besides the root, nesting of up
  to three statements, and a registration before and after every statement.
  Each construct of the tracker (bare block, if/else, switch with fallthrough,
  select, for with header and post statement, range, closure stored, closure as
  an argument) meets each kind of write, alone (`one`), in pairs (`pairs`),
  nested (`nested`), with two registrars (`mixed`) and with an unset one
  (`unset`). The tracker has no state that more registrars or deeper nesting
  would reach: a merge looks at one frame and its parent.
* `MaxCalls = 2`, `MaxLaps = 2`: a second call or lap is what a write that is
  later in the text can be seen by; the third sees nothing new, as a lap or
  call starts from the same bindings as the second.
* Discovery: entry bodies of up to two items of ten kinds, three bodies for the
  helper method and two for the function, among them self recursion, mutual
  recursion and calls back into `RegisterRoutes`; two packages with equal struct
  and method names; second files with a near miss, without structs,
  unparsable, or with a second module.
* Method sets: three to five types, about 2,500 tables of four shapes. *Circles*:
  three types that embed one another by pointer in every way, some through an
  alias or a defined type. *Towers*: value and pointer embeds of a type that
  declares the two text methods in each way. *Diamonds*: names that tie or
  shadow, by methods and by fields. *Crowned*: a diamond embedded in turn, so
  that an ambiguous name travels on. `MaxAsks = 2`: the second question is the
  one that can find a memo; a third finds no other kind of entry.
* Type resolution: about 17,000 packages of up to three types, declared once or
  in two files with opposite tags, over two packages that both declare a struct,
  a slice of it, a number and a Marshaler. Three names are what a cycle through
  a definition and an alias needs; `MaxOpen = 2` (9 in the code), so that the
  cap on open names is reached before the third. Every kind of fallback occurs.
* Struct fields: up to five types; embeds that meet, tie, nest and return;
  embeds of every class; parameters that several routes lead to. `MaxDepth = 3`
  (1000 in the code), with chains that pass it; `MaxExtractions = 3`, so that a
  request, a component and a second route may take a struct in any order.
* Anonymous structs: every graph of three literals, dense cycles of four and
  chains near both limits; `MaxDepth = 5` and `MaxExtractions = 10` (1000 each in the
  code), `MaxFields = 2` as dependence takes two, `MaxRuns = 2` as a leftover
  takes a second analysis. The proofs have no such bound.
* Tags: up to three rules, which is two that share a keyword and a dive between
  them, out of lists of bounds, contents and words for each kind of field.
  Values around every bound: strings of up to three characters, numbers from -1
  to 4 by halves, up to three elements. The proofs have none of these bounds.
* Types: four declarations, which is what a name, its qualified form and a
  third taker need; `MaxDepth = 2` (1000 in the code), so chains of four pass it.
* Emission: three slots and up to three routes; ids collide at two routes and
  their suffixes at three.
* Command: two runs. The second one meets whatever the first left; a third
  meets no more than that. The proofs have no such bound.

### Fairness

Only `RouteDiscovery` has a liveness property and assumes fairness:
`WF_vars(Visit \/ Step)`. Discovery is a loop in one goroutine without waiting,
so a step that can be taken is taken. The other specifications are about what
steps may do; `generate` may be killed at any point and promises no progress.

## What is proved

TLC shows the properties on the instances above; these hold for every value of
the constants. The assumptions are the modules' named `ASSUME`s only: what
syntax trees, projects and analysed types look like.

Each theorem named with a property of no run (`PendingFrameOpen`,
`ResolvedHasNoCause`, `RecursionBounded`, `RecursionGuarded`, `WalkBounded`,
`WalkedOnce`, `ExtensionsTell`) was checked with TLC as well, before it was
proved; its proof needs no run beside it. The inductive invariants were checked
with TLC on the instances of the runs before they were proved.

* **Tracker** (`IInvInductive`): `TypeOK`, `FramesMirrorScopes`,
  `PendingFrameOpen`, `ResolvedHasNoCause`. These are not inductive by
  themselves: a pending write carries a prefix and becomes a binding steps
  later, so the invariant says of bindings, pending writes and read values alike
  that the cause fits, and that the frames are the ancestors of the cursor that
  open a scope, which is what makes the frame of a pending write still there.
  `StraightLinesArePinned` proves `PinnedWhenStraight` from `SInv`. A
  straight-line registrar's entries and waiting writes are resolved and lie in
  the frame of its own scope or in bare blocks standing right on it
  (`KeepsResolved`, `Placed`), so no scope that is left can mark it
  path-dependent (`Unmarked`); a parameter no statement writes keeps its seed
  (`KeepsSeed`); and once its declaration was visited the registrar is known or
  its write is waiting (`Known`), which after the due writes means known
  (`PendingAhead`). Two facts of syntax trees carry the argument: the parent of
  a node is the innermost one around it, and a registration's call node makes no
  writes of its own (`WellFormed`). Names that two declarations ending at one
  position share are left out of `Straight`: the numbering cannot tell them apart.
* **Discovery** (`DiscoveryInvariant`): `TypeOK` and `RecursionGuarded`, from
  the stack discipline of `FollowCall` and `Return`. `RecursionGuarded` gives
  the bound on recursion: distinct keys, so no more frames than methods.
  `PrefixesKept` adds `FramesHold` (the seed of a frame is what its caller's
  registrar had) and proves `RoutesKeepPrefix` for all projects that hand on
  variables: the constant `Inline` is what lifts that condition, and with it
  the property fails (see below).
  `NearMissesAreHonest` proves `NearMissesHonest`: files come in order
  (`WalkedInOrder`), so what `nearMiss` keeps of a directory is its first near
  miss (`FirstMisses`), and every module file walked has its directory in
  `moduleDirs` (`ModulesSeen`). `DetachedFollows` proves that
  `DetachedMeansUnused` holds wherever `RoutesComplete` does: a package is
  indexed before a body of it is walked (`PackagesIndexed`), so no registration
  comes before the group above it, and a group is marked exactly when one has
  come (`AttachedExactly`), whichever call or visit read its file first and
  however often it is read again.
* **Completeness of discovery** (`DiscoveryReaches`): `NothingBesides`, that no
  registration is recognised that the program does not make; `CyclesLoseNone`,
  that none is lost (`RoutesComplete`); and with it `DetachedAreUnused`. What the
  program makes is stated by `Reachable`, the least set of bodies closed under
  the calls in them, so that no induction is needed: one inclusion holds as
  every frame is in it (`WalkReachable`), the other as what has been walked is a
  closed set. `Covered(F)` says so while the walk goes on: whatever the bodies
  in `F`, and the frames up to where they stand, call is in `F`, in progress, or
  a `RegisterRoutes` still to come. A call that is cut is in progress under the
  same key, which is the same body only if no second declaration bears the key.
  The hypothesis `CopiesAreEntries` of the last two says that such copies are
  `RegisterRoutes` methods, each of which is walked for itself. It cannot be
  dropped (see "Where code and text disagree"). `NothingBesides` has no
  hypothesis.
* **Method sets** (`MethodSetsInvariant`): `TypeOK`, `WalkBounded`,
  `WalkedOnce`. The open types are pairwise distinct (`OpenOnce`), so the stack
  injects into the project's types; and no open type is remembered yet
  (`OpenNotMemoized`), so that while nothing is cut each call that returns adds
  one entry to the memo and the count of walks keeps pace with it.
  `LeavesFollow` proves `LeavesMatchEncoding` wherever `SetsMatchSelectorRules`
  holds: each struct is documented by the set it was answered, and a tie that a
  set holds counts as no method.
* **What the memo holds** (`MInv`): `MemoIsExact`, that each remembered set is
  what Go's selector rules give, in every project. While no cut has come since a
  call began, its calls have got exact sets (`FramesRight`), for types whose
  embeds lead into no cycle: `Founded` says these can be ranked, and a type
  joins them only over its embeds. `ComputedRight` is the algebra: from exact
  sets of the embeds `promote` and `over` compute the exact set of the struct.
  It rests on `PathsJoin`, that the ways down a type are its embeds followed by
  the ways down from there; the reference stops at as many embeddings as there
  are types, and the ranks show that no way is longer (`DistinctDown`).
  `Selected` is recursive over the length of a way only, so a least length that
  fails (`SmallestExists`) replaces the induction. `UncutSetsAreRight` is the
  same for the answers while `cuts` is 0, and with `LeavesFollow` for what the
  structs are documented as. With a cut the answers are not always right (see
  "Where code and text disagree"), so the hypothesis cannot simply be dropped.
* **Registration** (`RegistrationInvariant`): `TypeOK`, `NamesPaired`,
  `StampsMatch`, `RecursionBounded`, and the action property `NamesStable`. The
  key is `FramesWait`: a frame documents the very reference its caller still has
  to stamp, so a stamp made on return is right whatever was registered between.
  `RegistryHoldsClosure` proves `RegistryIsClosure`: every component is of a
  declaration the payloads reach (`ComponentsReached`), a reference of a
  component is stamped unless its struct is still open or a chain was cut
  (`OthersStamped`, `NothingCut`), so that at the end the components are closed
  under references. As in discovery, `Reached` is a least closed set.
* **Anonymous structs** (`LiteralInvariant`): `TypeOK`; `ClassesHoldCycles`, that
  a class never joins literals of different cycles; and `ExpansionImplemented`,
  that `LiteralCycles` implements `LiteralExpansion` for every project and all
  limits. The invariant says that the open literals form a path of the graph
  (`StackIsPath`), that a class lies on one cycle, and that the count is that of
  the field being resolved. The lemma `PathClosed` turns a literal that an open
  one can reach into a cycle through every literal opened since, which is what
  makes `Joined` right. Reachability is stated by sets closed under the fields
  of their literals, so that its lemmas need no induction.
* **What a field's literals document.** `CyclesExpandOnce` proves
  `ExpandedOnce`. The invariant `Steady` says of each class that it is joined by
  neighbours on the stack (`ClassesContiguous`), that its literals were expanded,
  and that what was opened and closed again has all its fields settled; the
  lemma `ClassComplete` concludes that a literal that closes leaves one of its
  class open, or has a class that is all of its cycle. So no literal of a cycle
  is closed, forgotten and met again below the same one. `FirstIsReported`
  proves `FirstReported`, that the warning names the first limited field in the
  order the walk meets them. `FieldsDocumentAlike` proves `FieldsIndependent`:
  the steps below a field's literal are those of one successor function
  (`WalkOf`) from nothing open and no classes, whatever was resolved before
  (`Traced`), and two such walks that have both ended have done the same
  (`WalkedEnd`).
* **Emission** (`EmissionInvariant`): `TypeOK`, `OperationIDsUnique`,
  `FirstRegistrationWins`, `RefsResolve`. `KeptAreFirst` says the kept routes
  are the first of their slots; `PathsBuilt` and `ComponentsEmitted` tie paths
  and components to them, and `RefsResolve` is then a comparison of the gates
  with the builders, case by case over the kinds of payload. Two properties need
  an invariant of their own: `IDsInKeyOrder` proves `IDsFollowKeyOrder` from
  `GivenInOrder` (every key that has an id sorts before those still without),
  and `GateAgreesWithPaths` proves `GateMatchesPaths`.
* **Command** (`CommandInvariant`): `TypeOK`, `ExitTellsDisk`, `GatesHold`,
  `ExtensionsTell`. `Underway` says, for each step of a run, what the gates
  already passed imply and what of the disk has changed.
* **Names** (`FreshIsFree`): the numbering loop ends on a free name, as the
  taken ones are finitely many. Both modules that number names prove it.
* **Constraints** (`ConstraintsInvariant`): `SchemasAdmit` proves `SchemaAdmits`
  and `BoundsAreExact` proves `BoundsExact`, for every field, tag of any length,
  word, string, number and size. `IInv` says which rules of the tag each map
  holds (`CollectionFiled`, `ElementsFiled`) and what the property and its items
  are at each stage (`Staged`). The rest is about one map. A merge is an
  equivalence: a value is within the new bound if and only if it is within the
  old one and the rule's (`KeepLargerEffect` to `MergeMaximumEffect`). So one
  key keeps whatever was admitted and meets its rule (`AdmitsStep`, which also
  settles the formats, patterns and words that the last key sets), and, where the
  rule is a bound with a keyword, admits nothing else (`ExactStep`).
  `SetAfter` is recursive over the keys: `SetAfterTurns` unfolds it, and the
  shortest prefix that fails (`SmallestExists`) replaces the induction. Last,
  `ApplyAdmits` shows that the keywords a type brings with it (the minimum 0 of
  an unsigned field) may be overwritten: an explicit bound is applied, even a
  negative one, which no value of the type is below. The assumptions are that
  fields are of known kinds, and that lengths and sizes are natural numbers
  (`FieldsAssumption`, `SizesAssumption`).

Only model-checked: `RoutesHoldTheirPrefix` (it compares the walk with an
execution of the body, whose loops and jumps visit the nodes in another order
than the walk), what `SetsMatchSelectorRules` and `LeavesMatchEncoding` say of
answers given after a cut (the run leaves out the tables where they fail), and
`Termination` (liveness). Nothing is proved about `TypeResolution`: the resolver
and the reference it is compared with are `RECURSIVE` operators over the data,
which the prover cannot take. Nor about `StructFields`: its reference is built
from all paths of embeds and its selections are folds over lists of fields, so
each of its properties would need an induction over data of that form. TLC
evaluates both on the instances above.

## Where code and text disagree

One disagreement is the violated property of a run, and `PROJECT.json` quotes
the lines:

* `registrar_unset`: `lookup` consults later writes only for a key some frame
  holds; `var g` is held by none, so a closure that captures it is not
  unresolved as README 545-547 says.

The others, and the limits next to them, were met while modelling. They have no
run of their own; the models either leave their inputs out or state their
properties around them, and say so where they do. Line numbers of `README.md`
are those of the repository's own.

*Routes.* A helper handed a `Group` call itself (`registerUsers(hr,
r.Group("/v1"))`) starts without its prefix (`analyzer.go` 1337), though 846-848
says it inherits it; `RoutesKeepPrefix` fails in `RouteDiscovery` when the
constant `Inline` is TRUE. Copies of `RegisterRoutes` in build-tagged files are
walked in the order of a map range (`analyzer.go` 706), though 3714 says
discovery is deterministic; `WalkCopy` takes them in any order and the
properties hold in each. A second module struct of a directory is passed over
and its routes with it (`analyzer.go` 410); `CloseModule` does the same, and
`RoutesComplete` speaks of the modules kept. Build constraints are not evaluated
(`README.md` 565), so a helper method declared once for each of two builds, in
two files of a package, is two bodies under one key (`analyzer.go` 1238): where
one is called while the other is in progress it is cut as a cycle, and the
registrations below it are lost. TLC finds this in `RouteDiscovery` when a
project has such a helper, and the hypothesis of `CyclesLoseNone` leaves it out.

*Method sets.* `methodSetOf` cuts a type that is open, whether or not it was
opened without its declared methods (`marshaler.go` 385, against 374-376); for
`type T struct{ *T }` with a `MarshalText`, `type D T` loses the method that Go
promotes into it.

*Types.* Copies of a type that mix a byte with another integer or a string
inside a slice are documented as an array of integers, which beside a string is
right in no build (README.md 599-609); `EncodedAsDocumented` leaves mixed bytes
out. The scalar preferred among copies is that of the first copy met, and
through a type of another, untagged file that is not the copy of the field's
own file (README.md 605-606). With tagged copies a warning may be noted in one
although the merged shape is typed. A payload that is no struct is looked up in
an import that bears the handler's own package name (`analyzer.go` 3423, against
3424-3426 and 3484-3490).

*Fields.* A duplicate parameter dropped inside an embed no longer hides a deeper
body field of the struct around it (`embed.go` 350-352). An unexported tagged
embed of a type that is not read keeps its property, though `encoding/json`
skips it if it is no struct. `anonymous.go` 163-165 says a literal on a cycle is
expanded at most once in each outermost extraction: that holds below each
literal of the cycle (`ExpandedOnce`), but when the outermost one is off the
cycle, siblings below it expand the cycle again.

*Tags.* `eq` on a boolean, or on a byte slice, yields an enum that holds the word
as a string (`constraints.go` 620-628). Rules after a second dive constrain the
outer elements. A field with `omitempty` may hold a zero value its
schema rejects. Examples of strings are not compared with the field's length,
enum or pattern (`openapi.go` 1926-1961).

*Document.* Types of dropped registrations stay in the document as components
nothing uses (`openapi.go` 1270, against 370-371). A path without a leading slash
is counted by the gates and then left out of `paths` (`openapi.go` 567), so
`GateMatchesPaths` states its claim for rooted paths. A user's type named like a
standard schema replaces it in the merged components (`openapi.go` 379), as the
comment there says.

## Not modelled

* `doctor`, `validate`, `version`, tag checks, the entry point, the data types of
  `models`: printing, library calls and string checks, with no state or order.
* Response inference (`constructors.go`): a table of constructor names looked up
  over one handler body; a model of it would be the table.
* Inside the modelled components, what each section above names. Most of it is
  lookup in the file system and in imports (which a project given as data
  already answers) and text: names, descriptions, layouts, wording.
* Compositions. `TypeRegistration` takes what `TypeResolution` computes as its
  constant `Sources`, `StructFields` takes resolved types and `SpecEmission`
  takes a registry, each with a named assumption (`WellFormed`, `Analyzed`) on
  what it is handed; the components are not run as one specification.

What would come next: that composition, starting with `TypeRegistration` and
`SpecEmission`, which would discharge `Analyzed`, and an abstract specification
of the command (a disk that holds a good document or an honest exit).
