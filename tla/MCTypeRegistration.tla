------------------------- MODULE MCTypeRegistration -------------------------
(***************************************************************************)
(* Projects of four declarations whose names collide, for TypeRegistration. *)
(*   1  package model in orders/: struct Item                              *)
(*   2  package model in users/:  struct Item, the same package clause     *)
(*   3  package api:              struct ModelItem, the qualified name of  *)
(*                                the Items                                *)
(*   4  package api:              a fourth declaration, see Fourth         *)
(***************************************************************************)
EXTENDS TypeRegistration

CONSTANTS
    Fourths,  \* the declarations number 4 may be
    Twins     \* whether an import may bear the handler's own package name

Item == <<10>>
ModelItem == <<20, 10>>
Model == 20
Api == 30

\* No field, a cycle, a chain, two references in one struct, and references
\* from inside one anonymous struct and two.
Fields ==
    LET to(t) == [to |-> t, level |-> 0]
        inside(t, k) == [to |-> t, level |-> k]
    IN  {<<>>, <<to(1)>>, <<to(2)>>, <<to(3), to(2)>>, <<to(4)>>,
         <<to(4), inside(1, 1)>>, <<inside(3, 2)>>}

Fourth(kind, refs) ==
    LET decl(name, under, reexport) ==
            [dir |-> 3, pkg |-> Api, name |-> name, under |-> under,
             reexport |-> reexport, refs |-> IF under = 4 THEN refs ELSE <<>>]
    IN  CASE kind = "struct"   -> decl(<<40>>, 4, FALSE)
          [] kind = "alias"    -> decl(Item, 2, TRUE)     \* type Item = model.Item
          [] kind = "defined"  -> decl(Item, 2, FALSE)    \* type Item model.Item
          [] kind = "nonstruct" -> decl(Item, 0, FALSE)   \* type Item []string

MCRoots ==
    LET root(t, w) == [to |-> t, twin |-> w]
        plain == {<<root(1, 0), root(2, 0)>>, <<root(3, 0), root(4, 0)>>,
                  <<root(2, 0), root(4, 0), root(1, 0)>>}
    IN  plain \cup IF Twins THEN {<<root(4, 2), root(2, 0)>>} ELSE {}

MCSources ==
    {[decls |-> <<[dir |-> 1, pkg |-> Model, name |-> Item, under |-> 1,
                   reexport |-> FALSE, refs |-> f],
                  [dir |-> 2, pkg |-> Model, name |-> Item, under |-> 2,
                   reexport |-> FALSE, refs |-> g],
                  [dir |-> 3, pkg |-> Api, name |-> ModelItem, under |-> 3,
                   reexport |-> FALSE, refs |-> h],
                  Fourth(kind, h)>>,
      roots |-> roots] :
        f \in Fields, g \in Fields, h \in Fields, kind \in Fourths,
        roots \in MCRoots}

\* Only projects whose references all end at structs are read that far.
MCResolvable ==
    {s \in MCSources :
        \A t \in {1, 2, 3} : \A i \in DOMAIN s.decls[t].refs :
            s.decls[s.decls[t].refs[i].to].under # 0}
=============================================================================
