--------------------------- MODULE RouteDiscovery ---------------------------
(***************************************************************************)
(* How the analyzer finds the modules of a project and the routes each one *)
(* registers: moduleDiscoverer and routeWalker of analyzer.go, with the    *)
(* comment directives of directive.go.                                     *)
(*                                                                         *)
(* Discovery visits the project's files in order.  A file that declares a  *)
(* module struct has its package read, and every copy of RegisterRoutes    *)
(* walked, with the helpers and delegates it hands its registrar to.  A    *)
(* directive stands right above a registration or it is reported, once the *)
(* whole walk is over.                                                     *)
(*                                                                         *)
(* A body is the sequence of its registrations and calls; which prefix a   *)
(* registrar has inside one body is RegistrarTracker's matter.             *)
(***************************************************************************)
EXTENDS Naturals, Sequences

CONSTANTS
    Segment,   \* the string values a Group argument may have
    Projects   \* the projects discovery may be given

VARIABLES
    project,      \* the project being read
    walked,       \* moduleDiscoverer.files: the files visited so far
    directives,   \* the groups indexed so far -> whether each is attached
    nearMiss,     \* directory -> the file of its first near-miss struct
    moduleDirs,   \* directories a module was found in: seen and moduleDirs
    extracting,   \* the file whose module is being extracted, or 0
    copies,       \* the RegisterRoutes declarations not yet walked
    stack,        \* the walks in progress, innermost last
    open,         \* routeWalker.stack: the keys of those walks
    found,        \* the routes of the module so far
    modules,      \* the modules found, with their routes
    unresolved,   \* the registrations dropped
    warnings,     \* the diagnostics raised
    recognised,   \* every registration visited; read by properties only
    done          \* whether discovery is over

walk == <<stack, open, found, unresolved, recognised>>
vars == <<project, walked, directives, nearMiss, moduleDirs, extracting, copies,
          walk, modules, warnings, done>>

-----------------------------------------------------------------------------
(* Projects. *)

\* visited: not below a directory discovery skips.  structs: declares a struct
\* type.  module: the struct of this file that is a module, or 0.  nearMiss:
\* it has a struct that is one but for the signature of RegisterRoutes.
File == [dir : Nat, visited : BOOLEAN, parses : BOOLEAN, structs : BOOLEAN,
         module : Nat, nearMiss : BOOLEAN]

\* A comment group with directives.  known: one of them has a known name.
Group == [file : Nat, trailing : BOOLEAN, known : BOOLEAN]

\* A registrar as it is written: a variable the tracker has bound to Group
\* calls on the parameter, such a call itself, or a variable it knows nothing
\* of.  ok: every argument of those calls resolves.
Reg == [via : {"variable", "call", "unknown"}, path : Seq(Segment), ok : BOOLEAN]

\* above: the group on the line right above, or 0.
Registration == [op : {"route"}, reg : Reg, pathOK : BOOLEAN, above : Nat]

\* A call of method name of struct owner, or of function name when owner is 0.
\* from: the file its lookup starts in, 0 for the caller's.  local: the name is
\* that of a local variable.  args: the registrars it receives.
Call == [op : {"call"}, owner : Nat, name : Nat, from : Nat, local : BOOLEAN,
         args : SUBSET Reg]

RegisterRoutes == 0

Fn == [file : Nat, owner : Nat, name : Nat, param : {"named", "unnamed", "none"},
       body : Seq(Registration \cup Call)]

\* Only a body whose parameter has a name can speak of it.
NamesRegistrar(item) ==
    LET regs == IF item.op = "route" THEN {item.reg} ELSE item.args
    IN  \E reg \in regs : reg.via \in {"variable", "call"}

WellFormed(p) ==
    /\ p.files \in Seq(File) /\ p.groups \in Seq(Group) /\ p.fns \in Seq(Fn)
    /\ \A i \in DOMAIN p.files : p.files[i].module # 0 \/ p.files[i].nearMiss => p.files[i].structs
    /\ \A g \in DOMAIN p.groups : p.groups[g].file \in DOMAIN p.files
    /\ \A f \in DOMAIN p.fns :
         /\ p.fns[f].file \in DOMAIN p.files
         /\ \A e \in DOMAIN p.fns :
              (/\ p.fns[e].file = p.fns[f].file /\ p.fns[e].owner = p.fns[f].owner
               /\ p.fns[e].name = p.fns[f].name) => e = f
         /\ \A i \in DOMAIN p.fns[f].body :
              LET item == p.fns[f].body[i]
              IN  /\ p.fns[f].param # "named" => ~NamesRegistrar(item)
                  /\ item.op = "route" => item.above \in {0} \cup DOMAIN p.groups
                  /\ item.op = "route" /\ item.above # 0 =>
                       p.groups[item.above].file = p.fns[f].file
                  /\ item.op = "call" =>
                       /\ item.from \in {0} \cup DOMAIN p.files
                       /\ \A x, y \in item.args : x = y
                       /\ item.local => item.owner = 0

ASSUME ProjectsAssumption == \A p \in Projects : WellFormed(p)

Files == DOMAIN project.files
FileAt(i) == project.files[i]
Fns == DOMAIN project.fns
FnAt(f) == project.fns[f]
Dir(i) == FileAt(i).dir
PackageFiles(i) == {j \in Files : Dir(j) = Dir(i) /\ FileAt(j).parses}
GroupsOf(F) == {g \in DOMAIN project.groups : project.groups[g].file \in F}

-----------------------------------------------------------------------------
(* Declarations and registrars. *)

\* For the mutation runs: the key leaves out the directory.
KeyWithoutDir(f) == [dir |-> 0, owner |-> FnAt(f).owner, name |-> FnAt(f).name]

\* walkStackKey.
Key(f) == [dir |-> Dir(FnAt(f).file), owner |-> FnAt(f).owner, name |-> FnAt(f).name]

\* findMethodDecl, findPackageFuncDecl: the file the lookup starts in comes
\* first, then the files of its directory by name.
Declared(i, owner, name) ==
    LET copy == {f \in Fns : /\ FnAt(f).owner = owner /\ FnAt(f).name = name
                             /\ FnAt(f).file \in PackageFiles(i)}
        here == {f \in copy : FnAt(f).file = i}
    IN  IF here # {} THEN here
        ELSE {f \in copy : \A e \in copy : FnAt(f).file <= FnAt(e).file}

Root == [path |-> <<>>, resolved |-> TRUE]

\* registrarPrefixFor: what is no known variable carries no prefix.
PrefixOf(reg, seed) ==
    IF reg.via = "variable"
    THEN IF seed.resolved /\ reg.ok THEN [path |-> seed.path \o reg.path, resolved |-> TRUE]
                                    ELSE [path |-> <<>>, resolved |-> FALSE]
    ELSE Root

\* For the mutation runs: the callee starts from the root.
SeedRoot(args, seed) == Root

\* seedFromCall.
Seeded(args, seed) ==
    IF \E reg \in args : reg.via = "variable"
    THEN PrefixOf(CHOOSE reg \in args : reg.via = "variable", seed) ELSE Root

\* The path a registrar really has, whatever form it is written in; one the
\* walk knows nothing of is taken to have none, the documented policy.
Holds(reg, real) == IF reg.via = "unknown" THEN <<>> ELSE real \o reg.path

HeldBy(args, real) ==
    IF args = {} THEN <<>> ELSE Holds(CHOOSE reg \in args : TRUE, real)

-----------------------------------------------------------------------------
(* Directives. *)

\* For the mutation runs: each parse of a file indexes it anew.
IndexAgain(F) ==
    [g \in DOMAIN directives \cup GroupsOf(F) |->
        IF g \in GroupsOf(F) THEN FALSE ELSE directives[g]]

\* indexDirectives: a file parsed again keeps the groups it has.
Index(F) ==
    [g \in DOMAIN directives \cup GroupsOf(F) |->
        IF g \in DOMAIN directives THEN directives[g] ELSE FALSE]

\* directiveGroupAt: a group that follows code on its line never attaches.
AttachedBy(item) ==
    {g \in {item.above} \cap DOMAIN directives : ~project.groups[g].trailing}

\* markDirectivesAttached.
Attach(item) == [g \in DOMAIN directives |-> directives[g] \/ g \in AttachedBy(item)]

Detached ==
    {g \in DOMAIN directives :
        /\ ~directives[g] /\ project.groups[g].known
        /\ project.groups[g].file \in walked}

-----------------------------------------------------------------------------
(* Discovery. *)

Warning(kind, n) == [kind |-> kind, at |-> n]

\* For the mutation runs: no directory is skipped.
EveryFile == Files \ walked

\* filepath.Walk comes to the files it does not skip in order.
Unwalked == {i \in Files : FileAt(i).visited} \ walked
Idle == extracting = 0 /\ ~done
Next1(i) == Idle /\ i \in Unwalked /\ \A j \in Unwalked : i <= j

\* For the mutation runs: a file that cannot be read is tried again.
Retry(i) == walked

Pass(i) == walked \cup {i}

SkipFile ==
    /\ \E i \in Files :
         /\ Next1(i) /\ ~FileAt(i).parses
         /\ walked' = Pass(i)
         /\ warnings' = warnings \cup {Warning("skipped", i)}
    /\ UNCHANGED <<project, directives, nearMiss, moduleDirs, extracting, copies,
                   walk, modules, done>>

\* analyzeGoFile: looking for a struct's methods reads the whole package.
Reads(i) == IF FileAt(i).structs THEN PackageFiles(i) \cup {i} ELSE {i}

ReadFile ==
    /\ \E i \in Files :
         /\ Next1(i) /\ FileAt(i).parses /\ FileAt(i).module = 0
         /\ walked' = walked \cup {i}
         /\ directives' = Index(Reads(i))
         /\ nearMiss' =
              IF FileAt(i).nearMiss /\ Dir(i) \notin DOMAIN nearMiss
              THEN [d \in DOMAIN nearMiss \cup {Dir(i)} |->
                      IF d = Dir(i) THEN i ELSE nearMiss[d]]
              ELSE nearMiss
    /\ UNCHANGED <<project, moduleDirs, extracting, copies, walk, modules, warnings, done>>

OpenModule ==
    /\ \E i \in Files :
         /\ Next1(i) /\ FileAt(i).parses /\ FileAt(i).module # 0
         /\ walked' = walked \cup {i}
         /\ directives' = Index(Reads(i))
         /\ extracting' = i
         /\ copies' = {f \in Fns : /\ FnAt(f).file \in PackageFiles(i)
                                   /\ FnAt(f).owner = FileAt(i).module
                                   /\ FnAt(f).name = RegisterRoutes
                                   /\ FnAt(f).param # "none"}
    /\ UNCHANGED <<project, nearMiss, moduleDirs, walk, modules, warnings, done>>

\* extractRoutesFromPackage ranges over a map of the package's files, so the
\* copies of RegisterRoutes come in any order.
WalkCopy ==
    /\ extracting # 0 /\ stack = <<>>
    /\ \E f \in copies :
         /\ copies' = copies \ {f}
         /\ stack' = << [fn |-> f, next |-> 1, seed |-> Root, real |-> <<>>,
                         file |-> FnAt(f).file] >>
         /\ open' = {Key(f)}
    /\ UNCHANGED <<project, walked, directives, nearMiss, moduleDirs, extracting,
                   found, unresolved, recognised, modules, warnings, done>>

\* A directory has one module: the first one found in it.
CloseModule ==
    /\ extracting # 0 /\ stack = <<>> /\ copies = {}
    /\ modules' = IF Dir(extracting) \in moduleDirs THEN modules
                  ELSE Append(modules, [file |-> extracting, routes |-> found])
    /\ moduleDirs' = moduleDirs \cup {Dir(extracting)}
    /\ extracting' = 0
    /\ found' = <<>>
    /\ UNCHANGED <<project, walked, directives, nearMiss, copies, stack, open,
                   unresolved, recognised, warnings, done>>

\* For the mutation runs: a near miss counts wherever it stands.
EveryNearMiss == DOMAIN nearMiss

\* A near miss matters only where no module was found.
Missed == DOMAIN nearMiss \ moduleDirs

Report ==
    /\ Idle /\ Unwalked = {}
    /\ warnings' = warnings \cup {Warning("nearMiss", nearMiss[d]) : d \in Missed}
                            \cup {Warning("detached", g) : g \in Detached}
    /\ done' = TRUE
    /\ UNCHANGED <<project, walked, directives, nearMiss, moduleDirs, extracting,
                   copies, walk, modules>>

-----------------------------------------------------------------------------
(* The walk of a body and of what it calls. *)

Top == stack[Len(stack)]
Body == FnAt(Top.fn).body
Visiting == stack # <<>> /\ Top.next <= Len(Body)
Item == Body[Top.next]
Site == [fn |-> Top.fn, item |-> Top.next]

Advanced == [stack EXCEPT ![Len(stack)].next = @ + 1]

\* routeFromCall.
Register ==
    /\ Visiting /\ Item.op = "route"
    /\ directives' = Attach(Item)
    /\ recognised' = recognised \cup {Site}
    /\ LET prefix == PrefixOf(Item.reg, Top.seed)
       IN  IF Item.pathOK /\ prefix.resolved
           THEN /\ found' = Append(found, [site |-> Site, path |-> prefix.path,
                                           real |-> Holds(Item.reg, Top.real)])
                /\ UNCHANGED unresolved
           ELSE /\ unresolved' = unresolved \cup {Site}
                /\ UNCHANGED found
    /\ stack' = Advanced
    /\ UNCHANGED <<project, walked, nearMiss, moduleDirs, extracting, copies, open,
                   modules, warnings, done>>

Calling == Visiting /\ Item.op = "call"

\* A call of a local closure, whose body the walk reads where it stands, or of a
\* method where no receiver has a name.
Passed(f, call) == call.local \/ (call.owner # 0 /\ FnAt(f).owner = 0)

StartOf(call, file) == IF call.from = 0 THEN file ELSE call.from
StartFile == StartOf(Item, Top.file)
Targets == Declared(StartFile, Item.owner, Item.name)
Followable == {f \in Targets : FnAt(f).param # "none"}

\* resolveDelegateContext reads the package of a delegate declared elsewhere.
Resolved == IF Item.from = 0 THEN directives ELSE Index(PackageFiles(Item.from))

PassCall ==
    /\ Calling /\ Passed(Top.fn, Item)
    /\ stack' = Advanced
    /\ UNCHANGED <<project, walked, directives, nearMiss, moduleDirs, extracting,
                   copies, open, found, unresolved, recognised, modules, warnings, done>>

\* For the mutation runs: only a direct recursion is cut.
CutsDirect(f) == Key(f) = Key(Top.fn)

\* The cycle guard.
Cuts(f) == Key(f) \in open

CutCycle ==
    /\ Calling /\ ~Passed(Top.fn, Item)
    /\ \E f \in Targets : Cuts(f)
    /\ stack' = Advanced
    /\ directives' = Resolved
    /\ UNCHANGED <<project, walked, nearMiss, moduleDirs, extracting,
                   copies, open, found, unresolved, recognised, modules, warnings, done>>

\* warnIfRegistrarPassed: what receives a registrar and cannot be followed.
RefuseCall ==
    /\ Calling /\ ~Passed(Top.fn, Item)
    /\ Followable = {}
    /\ ~\E f \in Targets : Cuts(f)
    /\ warnings' = warnings \cup
         {Warning("refused", Site) : reg \in {reg \in Item.args : reg.via = "variable"}}
    /\ stack' = Advanced
    /\ directives' = Resolved
    /\ UNCHANGED <<project, walked, nearMiss, moduleDirs, extracting,
                   copies, open, found, unresolved, recognised, modules, done>>

\* recurseInto, recurseIntoPackageFunc: a method is walked in the context of
\* the file its lookup started in, a function in that of its own.
FollowCall ==
    /\ Calling /\ ~Passed(Top.fn, Item)
    /\ \E f \in Followable :
         /\ ~Cuts(f)
         /\ stack' = Append(Advanced,
                [fn |-> f, next |-> 1, seed |-> Seeded(Item.args, Top.seed),
                 real |-> HeldBy(Item.args, Top.real),
                 file |-> IF Item.owner = 0 THEN FnAt(f).file ELSE StartFile])
         /\ open' = open \cup {Key(f)}
    /\ directives' = Resolved
    /\ UNCHANGED <<project, walked, nearMiss, moduleDirs, extracting,
                   copies, found, unresolved, recognised, modules, warnings, done>>

Return ==
    /\ stack # <<>> /\ Top.next > Len(Body)
    /\ stack' = SubSeq(stack, 1, Len(stack) - 1)
    /\ open' = open \ {Key(Top.fn)}
    /\ UNCHANGED <<project, walked, directives, nearMiss, moduleDirs, extracting,
                   copies, found, unresolved, recognised, modules, warnings, done>>

-----------------------------------------------------------------------------

Init ==
    /\ project \in Projects
    /\ walked = {} /\ directives = <<>> /\ nearMiss = <<>> /\ moduleDirs = {}
    /\ extracting = 0 /\ copies = {}
    /\ stack = <<>> /\ open = {} /\ found = <<>> /\ unresolved = {} /\ recognised = {}
    /\ modules = <<>> /\ warnings = {} /\ done = FALSE

Visit == SkipFile \/ ReadFile \/ OpenModule \/ WalkCopy \/ CloseModule \/ Report
Step == Register \/ PassCall \/ CutCycle \/ RefuseCall \/ FollowCall \/ Return

Finished == done /\ UNCHANGED vars

Next == Visit \/ Step \/ Finished

\* One goroutine runs discovery to its end: a step that can be taken is taken.
Spec == Init /\ [][Next]_vars /\ WF_vars(Visit \/ Step)

-----------------------------------------------------------------------------
(* What the program contains, read off its declarations alone. *)

Called(c) ==
    LET body == FnAt(c.fn).body
        calls == {body[i] : i \in {j \in DOMAIN body : /\ body[j].op = "call"
                                                    /\ ~Passed(c.fn, body[j])}}
    IN  UNION {{[fn |-> f, file |-> IF call.owner = 0 THEN FnAt(f).file ELSE StartOf(call, c.file)] :
                   f \in {f \in Declared(StartOf(call, c.file), call.owner, call.name) :
                            FnAt(f).param # "none"}} : call \in calls}

ReadFiles == {i \in Files : FileAt(i).visited /\ FileAt(i).parses}

Entries ==
    {[fn |-> f, file |-> FnAt(f).file] : f \in
        {f \in Fns : \E i \in ReadFiles :
            /\ FileAt(i).module # 0 /\ FnAt(f).owner = FileAt(i).module
            /\ FnAt(f).name = RegisterRoutes /\ FnAt(f).param # "none"
            /\ FnAt(f).file \in PackageFiles(i)}}

\* A body is read in the context of a file of its package.
Contexts ==
    UNION {[fn : {f}, file : {j \in Files : Dir(j) = Dir(FnAt(f).file)}] : f \in Fns}

\* What RegisterRoutes calls, directly or not, cycles and all: what is in every
\* set that has the entries and all that its members call.
Reachable ==
    LET entries == Entries
        called == [c \in Contexts |-> Called(c)]
        closed == {T \in SUBSET (Contexts \ entries) :
                     \A c \in entries \cup T : called[c] \subseteq entries \cup T}
    IN  entries \cup {c \in Contexts : \A T \in closed : c \in T}

Registrations ==
    UNION {{[fn |-> c.fn, item |-> i] : i \in {j \in DOMAIN FnAt(c.fn).body :
                FnAt(c.fn).body[j].op = "route"}} : c \in Reachable}

-----------------------------------------------------------------------------
(* Properties. *)

Frame == [fn : Fns, next : Nat \ {0}, seed : [path : Seq(Segment), resolved : BOOLEAN],
          real : Seq(Segment), file : Files]
Sites == [fn : Fns, item : Nat]
Routes == Seq([site : Sites, path : Seq(Segment), real : Seq(Segment)])
Kinds == {"skipped", "nearMiss", "detached"}

\* The types of the discovery's state: what is walked is never below a skipped
\* directory, and a walk is in progress only for a module being extracted.
TypeOK ==
    /\ walked \subseteq {i \in Files : FileAt(i).visited}
    /\ DOMAIN directives \subseteq DOMAIN project.groups
    /\ \A g \in DOMAIN directives : directives[g] \in BOOLEAN
    /\ \A d \in DOMAIN nearMiss : nearMiss[d] \in walked /\ Dir(nearMiss[d]) = d
    /\ moduleDirs \subseteq {Dir(i) : i \in walked}
    /\ extracting \in {0} \cup walked
    /\ copies \subseteq Fns
    /\ stack \in Seq(Frame)
    /\ stack # <<>> => extracting # 0
    /\ found \in Routes
    /\ unresolved \subseteq Sites /\ recognised \subseteq Sites
    /\ modules \in Seq([file : Files, routes : Routes])
    /\ warnings \subseteq [kind : Kinds, at : Nat] \cup [kind : {"refused"}, at : Sites]
    /\ done \in BOOLEAN

\* The keys in routeWalker.stack are those of the walks in progress, and no two
\* of these are of one method: the guard that recursion relies on to end is
\* never left behind by a walk that is over nor lifted under one that is not.
RecursionGuarded ==
    /\ open = {Key(stack[i].fn) : i \in DOMAIN stack}
    /\ \A i, j \in DOMAIN stack : Key(stack[i].fn) = Key(stack[j].fn) => i = j

\* Discovery sees every registration that RegisterRoutes reaches through
\* helpers and delegates, and none besides: cutting cycles loses none, not even
\* where packages share the names of their structs and methods.
RoutesComplete == done => recognised = Registrations

\* A route is emitted under the path its registrar really has: through every
\* helper and delegate, and dropped where a Group argument does not resolve.
RoutesKeepPrefix ==
    \A k \in DOMAIN found : found[k].path = found[k].real

\* The groups reported detached are those of the files discovery visits that
\* no reachable registration stands right below, however often a file is read
\* and whether its package is read before its turn or after.
DetachedMeansUnused ==
    LET used == {FnAt(s.fn).body[s.item].above : s \in Registrations}
        reported == {w.at : w \in {w \in warnings : w.kind = "detached"}}
    IN  done =>
          reported = {g \in GroupsOf(ReadFiles) :
                        /\ project.groups[g].known
                        /\ project.groups[g].trailing \/ g \notin used}

\* A struct that misses being a module is reported once for each directory
\* without a module, at the first file that has one, and for no other,
\* wherever in the directory the module comes.
NearMissesHonest ==
    LET missed == {i \in ReadFiles : FileAt(i).nearMiss /\ FileAt(i).module = 0}
        reported == {w.at : w \in {w \in warnings : w.kind = "nearMiss"}}
    IN  done =>
          reported = {i \in missed :
                        \A j \in ReadFiles : Dir(j) = Dir(i) =>
                            /\ FileAt(j).module = 0
                            /\ FileAt(j).nearMiss => i <= j}

\* A project, whatever recursion its helpers contain, is read to its end.
Termination == <>done
=============================================================================
