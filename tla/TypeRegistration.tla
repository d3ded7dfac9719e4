-------------------------- MODULE TypeRegistration --------------------------
(***************************************************************************)
(* How the analyzer turns the Go types of requests and responses into the  *)
(* components of the document: registerPayloadType, registerTypeAt,        *)
(* registerStructKeyed, schemaKey and registerResolutionRefs of            *)
(* internal/analyzer (analyzer.go, resolution.go, anonymous.go).           *)
(*                                                                         *)
(* Registration is a depth-first walk over struct types.  A struct enters  *)
(* typeRegistry before its fields are followed, each reference a field     *)
(* makes is stamped with the name of the component that documents it, and  *)
(* past MaxDepth the chain is cut and the reference documents an object.   *)
(*                                                                         *)
(* A declaration of the project is a number, its site.  What Go's syntax   *)
(* says of it is in source.decls: the directory, package clause and name   *)
(* that identify it, the struct its chain of aliases and defined types     *)
(* ends at (itself for a struct, 0 for anything else), and the references  *)
(* its fields make, in field order.  A reference made inside anonymous     *)
(* structs has the number of them as its level.                            *)
(***************************************************************************)
EXTENDS FreshNames

CONSTANTS
    Sources,   \* the projects the walk may be given
    MaxDepth   \* maxTypeRegistrationDepth

VARIABLES
    source,        \* the project being analysed
    stack,         \* the structs being registered, outermost first
    typeRegistry,  \* component name -> the TypeInfo registered under it
    nameAssign,    \* identity of a declaration -> its component's name
    usedNames,     \* the names taken
    depthWarned,   \* the latch of warnDepthExceeded
    payloads       \* the component each payload so far is documented by

vars == <<source, stack, typeRegistry, nameAssign, usedNames, depthWarned,
          payloads>>

-----------------------------------------------------------------------------
(* Projects. *)

Ref == [to : Nat, level : Nat]

Decl == [dir : Nat, pkg : Nat, name : NameText \ {<<>>}, under : Nat,
         reexport : BOOLEAN, refs : Seq(Ref)]

\* twin is the struct that has the payload type's name in the package the
\* handler's file imports under its own package's name; 0 when there is none.
Root == [to : Nat, twin : Nat]

\* For the mutation runs: the identity leaves out the directory.
IdentityWithoutDir(d) == [dir |-> 0, pkg |-> d.pkg, name |-> d.name]

\* What schemaKey tells declarations apart by.
Identity(d) == [dir |-> d.dir, pkg |-> d.pkg, name |-> d.name]

WellFormed(s) ==
    LET Site == DOMAIN s.decls
        Struct == {t \in Site : s.decls[t].under = t}
    IN  /\ s.decls \in Seq(Decl) /\ s.roots \in Seq(Root)
        /\ \A t \in Site : s.decls[t].under \in Struct \cup {0}
        /\ \A t, u \in Site :
             (/\ s.decls[t].dir = s.decls[u].dir /\ s.decls[t].pkg = s.decls[u].pkg
              /\ s.decls[t].name = s.decls[u].name) => t = u
        \* the resolver makes a ref of a name only when it ends at a struct
        /\ \A t \in Struct : \A i \in DOMAIN s.decls[t].refs :
             /\ s.decls[t].refs[i].to \in Site
             /\ s.decls[s.decls[t].refs[i].to].under # 0
        \* type User = d.User names a struct of another package
        /\ \A t \in Site \ Struct : s.decls[t].reexport =>
             s.decls[t].under # 0 /\ s.decls[s.decls[t].under].name = s.decls[t].name
        /\ \A i \in DOMAIN s.roots :
             s.roots[i].to \in Site /\ s.roots[i].twin \in Struct \cup {0}

ASSUME SourcesAssumption == \A s \in Sources : WellFormed(s)
ASSUME MaxDepthAssumption == MaxDepth \in Nat

Sites == DOMAIN source.decls
DeclOf(s) == source.decls[s]
Under(s) == DeclOf(s).under

\* isSameNamedReExport: type User = d.User shares the component of d.User.
KeySite(s) == IF DeclOf(s).reexport THEN Under(s) ELSE s

Key(s) == Identity(DeclOf(KeySite(s)))

-----------------------------------------------------------------------------
(* Names. *)

\* For the mutation runs: no look at the names taken.
BareName(d, used) == d.name

\* schemaKey: the bare name, else the one qualified by the package.
ComponentName(d, used) ==
    IF d.name \notin used THEN d.name ELSE Fresh(<<d.pkg>> \o d.name, used)

SchemaKey(s) ==
    IF Key(s) \in DOMAIN nameAssign THEN nameAssign[Key(s)]
    ELSE ComponentName(DeclOf(KeySite(s)), usedNames)

With(f, x, v) == [y \in DOMAIN f \cup {x} |-> IF y = x THEN v ELSE f[y]]

NoComponent == <<>>

-----------------------------------------------------------------------------
(* The walk. *)

Top == stack[Len(stack)]
RefsOf(c) == DeclOf(c.of).refs
Stamped(name) == Len(typeRegistry[name].stamps)

Pending ==
    IF stack = <<>> THEN Len(payloads) < Len(source.roots)
    ELSE Stamped(Top.name) < Len(RefsOf(typeRegistry[Top.name]))

NextRef == RefsOf(typeRegistry[Top.name])[Stamped(Top.name) + 1]
NextRoot == source.roots[Len(payloads) + 1]

\* registerPayloadType: the local type, else the import its Package names.
PayloadTarget(root) == IF Under(root.to) # 0 THEN root.to ELSE root.twin

Target == IF stack = <<>> THEN PayloadTarget(NextRoot) ELSE NextRef.to

\* For the mutation runs: only anonymous structs cost depth.
LevelOnly == IF stack = <<>> THEN 0 ELSE Top.depth + NextRef.level

\* The fields of a struct stand one level below it, those of an anonymous
\* struct in it one more.
Depth == IF stack = <<>> THEN 0 ELSE Top.depth + 1 + NextRef.level

\* For the mutation runs: off by one.
TooDeepByOne == Depth > MaxDepth + 1

TooDeep == Depth > MaxDepth

\* For the mutation runs: a type counts as known once its fields are done.
KnownWhenDone(s) ==
    /\ Key(s) \in DOMAIN nameAssign /\ nameAssign[Key(s)] \in DOMAIN typeRegistry
    /\ \A i \in DOMAIN stack : stack[i].name # nameAssign[Key(s)]

\* The registry holds the component of s: the cycle guard.
Known(s) ==
    Key(s) \in DOMAIN nameAssign /\ nameAssign[Key(s)] \in DOMAIN typeRegistry

\* registerLeafAt and adoptRegisteredType: what the walk stands at, with
\* caller the structs still open, is documented by component name.
Stamp(name, caller) ==
    IF caller = <<>>
    THEN /\ payloads' = Append(payloads, name)
         /\ UNCHANGED typeRegistry
    ELSE LET open == caller[Len(caller)].name
         IN  /\ typeRegistry' =
                  [typeRegistry EXCEPT ![open].stamps = Append(@, name)]
             /\ UNCHANGED payloads

\* For the mutation runs: the cut is not reported.
CutOffSilently ==
    /\ Pending /\ TooDeep
    /\ Stamp(NoComponent, stack)
    /\ UNCHANGED <<source, stack, nameAssign, usedNames, depthWarned>>

\* registerTypeAt past the depth limit: the reference is demoted.
CutOff ==
    /\ Pending /\ TooDeep
    /\ depthWarned' = TRUE
    /\ Stamp(NoComponent, stack)
    /\ UNCHANGED <<source, stack, nameAssign, usedNames>>

\* A payload that is no struct is documented where it stands.
DocumentInline ==
    /\ Pending /\ Target = 0
    /\ Stamp(NoComponent, stack)
    /\ UNCHANGED <<source, stack, nameAssign, usedNames, depthWarned>>

\* registerStructKeyed returns the TypeInfo registered earlier.
ReuseComponent ==
    /\ Pending /\ Target # 0 /\ ~TooDeep
    /\ Known(Target)
    /\ Stamp(nameAssign[Key(Target)], stack)
    /\ UNCHANGED <<source, stack, nameAssign, usedNames, depthWarned>>

\* registerStructKeyed registers before it follows the fields.
RegisterStruct ==
    /\ Pending /\ Target # 0 /\ ~TooDeep
    /\ ~Known(Target)
    /\ LET name == SchemaKey(Target)
       IN  /\ typeRegistry' = With(typeRegistry, name,
                [key |-> Key(Target), of |-> Under(Target), stamps |-> <<>>])
           /\ nameAssign' = With(nameAssign, Key(Target), name)
           /\ usedNames' = usedNames \cup {name}
           /\ stack' = Append(stack, [name |-> name, depth |-> Depth])
    /\ UNCHANGED <<source, depthWarned, payloads>>

\* The fields of the innermost struct are done: its caller stamps its ref.
Return ==
    /\ stack # <<>> /\ ~Pending
    /\ stack' = SubSeq(stack, 1, Len(stack) - 1)
    /\ Stamp(Top.name, stack')
    /\ UNCHANGED <<source, nameAssign, usedNames, depthWarned>>

Done == stack = <<>> /\ ~Pending

Finished == Done /\ UNCHANGED vars

\* AnalyzeProject clears the registry before the walk.
Init ==
    /\ source \in Sources
    /\ stack = <<>>
    /\ typeRegistry = <<>> /\ nameAssign = <<>> /\ usedNames = {}
    /\ depthWarned = FALSE
    /\ payloads = <<>>

Next == CutOff \/ DocumentInline \/ ReuseComponent \/ RegisterStruct \/ Return
          \/ Finished

Spec == Init /\ [][Next]_vars

-----------------------------------------------------------------------------
(* Properties. *)

FrameType == [name : NameText, depth : 0..MaxDepth]

Identities == [dir : Nat, pkg : Nat, name : NameText]

\* The variables have the types of the fields of ProjectAnalyzer they model.
TypeOK ==
    /\ WellFormed(source)
    /\ stack \in Seq(FrameType)
    /\ \A n \in DOMAIN typeRegistry :
         typeRegistry[n] \in [key : Identities, of : Sites, stamps : Seq(NameText)]
    /\ DOMAIN nameAssign \subseteq Identities
    /\ usedNames \subseteq NameText
    /\ depthWarned \in BOOLEAN
    /\ payloads \in Seq(NameText)

\* One component per declaration and one declaration per component: two
\* declarations never share a name, a name is taken only by a registered
\* component, and the component registered under it is that declaration's.
NamesPaired ==
    /\ usedNames = DOMAIN typeRegistry
    /\ \A k \in DOMAIN nameAssign :
         nameAssign[k] \in DOMAIN typeRegistry /\ typeRegistry[nameAssign[k]].key = k
    /\ \A n \in DOMAIN typeRegistry :
         /\ typeRegistry[n].key \in DOMAIN nameAssign
         /\ nameAssign[typeRegistry[n].key] = n

\* n names the component of the type declared at s: registered under s's own
\* identity, with the fields of the struct s ends at.
Documents(n, s) ==
    /\ n \in DOMAIN typeRegistry
    /\ typeRegistry[n].key = Key(s) /\ typeRegistry[n].of = Under(s)

\* Every reference stamped so far, by a payload, a field or an anonymous
\* struct of it, names the component of the very type it was followed to,
\* whatever other packages declare under the same name, and in whatever order
\* types were met: no $ref dangles and none reaches a namesake.
StampsMatch ==
    /\ \A n \in DOMAIN typeRegistry : \A i \in DOMAIN typeRegistry[n].stamps :
         \/ typeRegistry[n].stamps[i] = NoComponent
         \/ Documents(typeRegistry[n].stamps[i], RefsOf(typeRegistry[n])[i].to)
    /\ \A i \in DOMAIN payloads :
         \/ payloads[i] = NoComponent
         \/ Documents(payloads[i], PayloadTarget(source.roots[i]))

\* The recursion is bounded twice over: no struct is being registered twice
\* at once, so a cycle of types ends, and a chain of distinct structs with
\* anonymous structs in between is cut before it passes the limit.
RecursionBounded ==
    /\ \A i, j \in DOMAIN stack : stack[i].name = stack[j].name => i = j
    /\ Len(stack) <= MaxDepth + 1

\* What the payloads are registered as, and what the fields of s refer to.
RootSites ==
    {KeySite(PayloadTarget(source.roots[i])) :
        i \in {j \in DOMAIN source.roots : PayloadTarget(source.roots[j]) # 0}}

NextSites(s) == {KeySite(DeclOf(Under(s)).refs[i].to) : i \in DOMAIN DeclOf(Under(s)).refs}

\* The declarations the payloads reach through references: those in every set
\* that holds the payloads' and what its members refer to.
Reached ==
    {s \in Sites : \A S \in SUBSET Sites :
        (RootSites \subseteq S /\ \A t \in S : Under(t) # 0 => NextSites(t) \subseteq S) => s \in S}

\* When no chain was cut, the registry is exactly what the payloads reach:
\* every struct a reference needs has a component, no component is left over,
\* and no reference stays without its stamp.
RegistryIsClosure ==
    Done /\ ~depthWarned =>
        /\ {typeRegistry[n].key : n \in DOMAIN typeRegistry} =
             {Identity(DeclOf(s)) : s \in Reached}
        /\ \A n \in DOMAIN typeRegistry :
             /\ Stamped(n) = Len(RefsOf(typeRegistry[n]))
             /\ \A i \in 1..Stamped(n) : typeRegistry[n].stamps[i] # NoComponent

\* A name once given is never taken back or given to another declaration, a
\* component never changes the struct it describes, and a reference is
\* stamped once.
NamesStable ==
    [][/\ \A k \in DOMAIN nameAssign :
            k \in DOMAIN nameAssign' /\ nameAssign'[k] = nameAssign[k]
       /\ \A n \in DOMAIN typeRegistry :
            /\ n \in DOMAIN typeRegistry'
            /\ typeRegistry'[n].of = typeRegistry[n].of
            /\ \A i \in DOMAIN typeRegistry[n].stamps :
                 typeRegistry'[n].stamps[i] = typeRegistry[n].stamps[i]]_vars
=============================================================================
