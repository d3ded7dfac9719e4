-------------------------- MODULE MCRegistrarBodies --------------------------
(***************************************************************************)
(* Function bodies for model checking RegistrarTracker.  A body opens a    *)
(* group registrar g on the root registrar r and goes on with statements   *)
(* that reassign, shadow or capture it; a registration on g stands after   *)
(* every statement and at the start of every nested block, so each place   *)
(* the walk could misread is looked at.                                    *)
(***************************************************************************)
EXTENDS RegistrarTracker, SequencesExt

CONSTANTS r, g, h, a, b, c, x, Families

MCName == {r, g, h}
MCSegment == {a, b, c, x}
MCSeed == [n \in {r} |-> [path |-> <<>>, resolved |-> TRUE, cause |-> "argument"]]

\* Trees: a node and its children.
T(kind, kids) ==
    [kind |-> kind, kids |-> kids, decls |-> {}, writes |-> <<>>, reg |-> g,
     pathOK |-> TRUE, fallsThrough |-> FALSE]

RECURSIVE Size(_), Flat(_, _, _)
Size(t) == 1 + FoldLeft(LAMBDA sum, k : sum + Size(k), 0, t.kids)
Flat(t, n, parent) ==
    LET node == [kind |-> t.kind, parent |-> parent, last |-> n + Size(t) - 1,
                 decls |-> t.decls, writes |-> t.writes, reg |-> t.reg,
                 pathOK |-> t.pathOK, fallsThrough |-> t.fallsThrough]
        add(nodes, k) == nodes \o Flat(k, n + Len(nodes), n)
    IN  FoldLeft(add, <<node>>, t.kids)

Group(of, v) == [op |-> "group", of |-> of, arg |-> {v}]
Ident(of) == [op |-> "ident", of |-> of]
Opaque == [op |-> "opaque"]
Assign(rhs) == [T("assign", <<>>) EXCEPT !.writes = <<[lhs |-> g, rhs |-> rhs]>>]
Define(rhs) == [Assign(rhs) EXCEPT !.decls = {g}]
Wrap(f) == [Assign(Opaque) EXCEPT !.kids = <<f>>]
Post(rhs) == [Assign(rhs) EXCEPT !.kind = "post"]
Probe == T("get", <<>>)
ProbeH == [Probe EXCEPT !.reg = h]
AddProbe == T("add", <<>>)

Simple == {Assign(Group(r, b)), Assign(Group(g, b)), Assign(Ident(r)), Assign(Opaque)}
Unresolvable == Assign([op |-> "group", of |-> r, arg |-> {}])
\* Statements of two registrars: h follows g, g follows h, and a swap.
Both(first, second) == [T("assign", <<>>) EXCEPT !.writes = <<first, second>>]
To(v, rhs) == [lhs |-> v, rhs |-> rhs]
Mixed ==
    {[Assign(Group(g, b)) EXCEPT !.writes[1].lhs = h], Assign(Group(h, b)),
     Both(To(g, Ident(h)), To(h, Ident(g))),
     Both(To(g, Group(h, b)), To(h, Group(g, b)))}
OpenedBoth ==
    [Both(To(g, Group(r, a)), To(h, Group(r, c))) EXCEPT !.decls = {g, h}]
Shadow == Define(Group(r, c))

\* A statement list with a registration before and after each statement.
List(stmts) ==
    FoldLeft(LAMBDA l, s : l \o <<s, Probe>>, <<Probe>>, stmts)
Block(stmts) == T("block", List(stmts))

Case(stmts, falls) == [T("case", List(stmts)) EXCEPT !.fallsThrough = falls]
Comm(stmts) == T("comm", List(stmts))
If(l) == T("if", <<Block(l)>>)
IfInit(s, l) == T("if", <<s, Block(l)>>)
IfElse(l, m) == T("if", <<Block(l), Block(m)>>)
For(l) == T("for", <<Block(l)>>)
ForInit(s, l) == T("for", <<s, Block(l)>>)
ForPost(s, l) == T("for", <<s, Block(l)>>)
Loop(l) == T("range", <<Block(l)>>)
RangeOver(l) == [Loop(l) EXCEPT !.writes = <<[lhs |-> g, rhs |-> Opaque]>>]
RangeDecl(l) == [RangeOver(l) EXCEPT !.decls = {g}]
Switch(l, falls, m) == T("switch", <<T("block", <<Case(l, falls), Case(m, FALSE)>>)>>)
SwitchInit(s, l) == T("switch", <<s, T("block", <<Case(l, FALSE)>>)>>)
Select(l, m) == T("select", <<T("block", <<Comm(l), Comm(m)>>)>>)
Func(l) == T("func", <<Block(l)>>)
FuncParam(l) == [Func(l) EXCEPT !.decls = {g}]

\* Every statement that nests the lists of L.
Nest(L) ==
    {Block(l) : l \in L} \cup {If(l) : l \in L} \cup {For(l) : l \in L}
      \cup {Loop(l) : l \in L} \cup {RangeOver(l) : l \in L}
      \cup {RangeDecl(l) : l \in L}
      \cup {Func(l) : l \in L} \cup {FuncParam(l) : l \in L}
      \cup {Wrap(Func(l)) : l \in L}
      \cup {IfElse(l, <<>>) : l \in L} \cup {IfElse(<<>>, l) : l \in L}
      \cup {Switch(l, f, <<>>) : l \in L, f \in BOOLEAN}
      \cup {Select(l, <<>>) : l \in L}
      \cup {T("if", <<Block(<<>>), If(l)>>) : l \in L}

\* Statements whose header writes g.
Headers(S, L) ==
    {IfInit(s, l) : s \in S, l \in L} \cup {ForInit(s, l) : s \in S, l \in L}
      \cup {SwitchInit(s, l) : s \in S, l \in L}

Posts(L) == {ForPost(Post(Group(g, b)), l) : l \in L}
      \cup {T("for", <<Shadow, Post(Group(g, b)), Block(l)>>) : l \in L}

Level1 ==
    Nest({<<s>> : s \in Simple \cup {Shadow}})
      \cup Headers(Simple \cup {Shadow}, {<<>>}) \cup Posts({<<>>})

FlatBody(init, stmts) == Flat(T("block", <<init>> \o List(stmts)), 1, 0)
Opened == Define(Group(r, a))
Declared == [T("assign", <<>>) EXCEPT !.decls = {g}]

\* Scopes that end with the write, no registration between.
Ending(s) ==
    LET bare == T("block", <<s>>) IN {bare, T("if", <<bare>>), T("func", <<bare>>)}

\* One nesting statement.
OneBodies ==
    {FlatBody(Opened, <<s, AddProbe>>) :
        s \in Level1 \cup Nest({<<Unresolvable>>}) \cup UNION {Ending(t) : t \in Simple}}

\* A nesting statement inside another.
NestedBodies == {FlatBody(Opened, <<s>>) : s \in Nest({<<t>> : t \in Level1})}

\* A nesting statement and what follows it.
PairBodies ==
    LET nests == Nest({<<Assign(Group(g, b))>>})
    IN  {FlatBody(Opened, <<s, t>>) : s \in Level1, t \in {Assign(Group(r, b)), Assign(Opaque)}}
          \cup {FlatBody(Opened, <<s, t>>) : s \in nests, t \in nests}

\* Two registrars.
MixedBodies ==
    LET inner == Nest({<<s, ProbeH>> : s \in Mixed}) \cup Headers(Mixed, {<<>>})
    IN  {FlatBody(OpenedBoth, <<s, t, ProbeH>>) : s \in inner, t \in Mixed}
          \cup {FlatBody(OpenedBoth, <<s, t, ProbeH>>) : s \in Mixed, t \in inner}

\* A registrar declared without a value, assigned after a closure reads it.
UnsetBodies ==
    {FlatBody(Declared, <<s, t>>) : s \in {Func(<<>>), Loop(<<>>), If(<<>>)}, t \in Simple}

MCPrograms ==
    (IF "one" \in Families THEN OneBodies ELSE {})
      \cup (IF "nested" \in Families THEN NestedBodies ELSE {})
      \cup (IF "pairs" \in Families THEN PairBodies ELSE {})
      \cup (IF "mixed" \in Families THEN MixedBodies ELSE {})
      \cup (IF "unset" \in Families THEN UnsetBodies ELSE {})
=============================================================================
