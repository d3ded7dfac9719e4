-------------------------- MODULE MCRouteDiscovery --------------------------
(***************************************************************************)
(* Projects of four files for RouteDiscovery: a module's file, a second    *)
(* file of its package with a helper method, a helper function and perhaps *)
(* another copy of RegisterRoutes, a package with a delegate whose struct  *)
(* and methods have the same names as the module's, and a directory that   *)
(* discovery skips though the module delegates to it.                      *)
(***************************************************************************)
EXTENDS RouteDiscovery

CONSTANTS
    Inline,   \* whether a helper may be handed a Group call itself
    Variants  \* whether RegisterRoutes may have a second, build-tagged copy

V1 == "v1"
U == "u"
MCSegment == {V1, U}

Var(path) == [via |-> "variable", path |-> path, ok |-> TRUE]
Lost == [via |-> "variable", path |-> <<V1>>, ok |-> FALSE]
Unknown == [via |-> "unknown", path |-> <<>>, ok |-> TRUE]
Written == [via |-> "call", path |-> <<V1>>, ok |-> TRUE]

Route(reg, g) == [op |-> "route", reg |-> reg, pathOK |-> TRUE, above |-> g]
Method(name, args) ==
    [op |-> "call", owner |-> 1, name |-> name, from |-> 0, local |-> FALSE, args |-> args]
Function(args) == [Method(2, args) EXCEPT !.owner = 0]
Closure == [Function({}) EXCEPT !.local = TRUE]
Delegate(i, args) == [Method(RegisterRoutes, args) EXCEPT !.from = i]

Users == 1  \* the helper method, of the module and of the delegate

Root0 == Var(<<>>)

EntryItems ==
    {Route(Var(<<V1>>), 1), [Route(Lost, 0) EXCEPT !.pathOK = FALSE],
     Method(Users, {Var(<<V1>>)}), Method(Users, {Lost}), Method(8, {Root0}),
     Function({Root0}), Function({Unknown}), Closure,
     Delegate(3, {Var(<<V1>>)}), Delegate(4, {Root0})}
    \cup IF Inline THEN {Function({Written})} ELSE {}

EntryBodies == {<<x>> : x \in EntryItems} \cup {<<x, y>> : x, y \in EntryItems}
UsersBodies ==
    {<<Route(Var(<<U>>), 2)>>, <<Method(RegisterRoutes, {Root0}), Route(Var(<<U>>), 2)>>,
     <<Function({Var(<<U>>)}), Function({Root0})>>}
FunctionBodies ==
    {<<Route(Var(<<U>>), 3)>>, <<Function({Var(<<U>>)}), Method(Users, {Root0})>>}
DelegateBodies ==
    {<<Method(Users, {Var(<<U>>)}), Route(Root0, 4)>>}

Decl(file, owner, name, param, body) ==
    [file |-> file, owner |-> owner, name |-> name, param |-> param, body |-> body]

FileOf(dir, module) ==
    [dir |-> dir, visited |-> TRUE, parses |-> TRUE, structs |-> TRUE,
     module |-> module, nearMiss |-> FALSE]

\* The second file and the delegate's, as they may be.
SecondFiles ==
    {FileOf(1, 0), [FileOf(1, 0) EXCEPT !.structs = FALSE],
     [FileOf(1, 0) EXCEPT !.nearMiss = TRUE], [FileOf(1, 0) EXCEPT !.parses = FALSE],
     FileOf(1, 3)}
DelegateFiles == {FileOf(2, 0), [FileOf(2, 0) EXCEPT !.nearMiss = TRUE]}

\* Right above a registration each, but for the one below and the two last.
MCGroups ==
    <<[file |-> 1, trailing |-> FALSE, known |-> TRUE],
      [file |-> 2, trailing |-> FALSE, known |-> TRUE],
      [file |-> 2, trailing |-> TRUE, known |-> TRUE],
      [file |-> 3, trailing |-> FALSE, known |-> TRUE],
      [file |-> 4, trailing |-> FALSE, known |-> TRUE],
      [file |-> 1, trailing |-> FALSE, known |-> FALSE]>>

Project(entry, users, function, delegate, second, third, more) ==
    [files |-> <<FileOf(1, 1), second, third, [FileOf(3, 0) EXCEPT !.visited = FALSE]>>,
     groups |-> MCGroups,
     fns |-> <<Decl(1, 1, RegisterRoutes, "named", entry),
               Decl(2, 1, Users, "named", users),
               Decl(2, 0, 2, "named", function),
               Decl(3, 1, RegisterRoutes, "named", delegate),
               Decl(3, 1, Users, "named", <<Route(Var(<<>>), 0)>>),
               Decl(4, 1, RegisterRoutes, "unnamed", <<Route(Unknown, 5)>>)>> \o more]

Copies ==
    {<<>>} \cup IF Variants THEN {<<Decl(2, 1, RegisterRoutes, "named", <<Route(Root0, 2)>>)>>}
               ELSE {}

\* Every body with the usual files, and every file with a few bodies.
MCProjects ==
    {Project(e, u, f, d, FileOf(1, 0), FileOf(2, 0), m) :
        e \in EntryBodies, u \in UsersBodies, f \in FunctionBodies, d \in DelegateBodies,
        m \in Copies}
    \cup
    {Project(e, u, f, d, s, t, m) :
        e \in {<<Delegate(3, {Var(<<V1>>)}), Method(Users, {Root0})>>, <<Function({Root0})>>},
        u \in UsersBodies, f \in FunctionBodies, d \in DelegateBodies,
        s \in SecondFiles, t \in DelegateFiles, m \in Copies}
=============================================================================
