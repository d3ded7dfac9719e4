-------------------------- MODULE MCLiteralCycles --------------------------
(***************************************************************************)
(* Struct literals for LiteralCycles: every graph of three literals, dense *)
(* cycles of four, and chains with embeds, parameters and Marshalers near  *)
(* the limits.                                                             *)
(***************************************************************************)
EXTENDS LiteralCycles

At(l) == [lit |-> l, up |-> 0, inline |-> TRUE]
Up(n, s) == [s EXCEPT !.up = n]
Param(s) == [s EXCEPT !.inline = FALSE]
Struct(kids) == [marshaler |-> FALSE, kids |-> kids]
Marshaler(kids) == [marshaler |-> TRUE, kids |-> kids]

Pick(S) == SelectSeq(S, LAMBDA s : s # At(0))
Lists == {Pick(<<a, b>>) : a \in {At(0), At(1), At(2)}, b \in {At(0), At(3)}}
         \cup {<<At(2), At(1)>>, <<At(3), At(2)>>, <<At(3), At(1)>>,
               <<At(1), At(2), At(3)>>, <<At(2), At(3), At(2)>>}

\* Every way three literals may lead to one another.
Graphs3 == {[lits |-> <<Struct(a), Struct(b), Struct(c)>>, roots |-> {At(1), At(2)}] :
              a, b, c \in Lists}

\* Siblings of one struct that each embed it: four literals that reach one
\* another, entered from one of them or from a fifth off the cycle.
Orders == {<<1, 2, 3, 4>>, <<4, 3, 2, 1>>, <<3, 1, 4, 2>>, <<2, 4>>, <<3>>}
Siblings(order) == [i \in DOMAIN order |-> At(order[i])]
Dense == {[lits |-> <<Struct(Siblings(o)), Struct(Siblings(q)), Struct(Siblings(r)),
                      Struct(Siblings(<<1, 2, 3, 4>>)), Struct(<<At(4), At(1)>>)>>,
           roots |-> {At(5), At(2)}] : o, q, r \in Orders}

\* Literals that reach one another many ways and on no cycle, or on one that
\* the last of them closes.
Doubling == {[lits |-> <<Struct(<<At(2), At(2)>>), Struct(<<At(3), At(3)>>),
                         Struct(<<At(4), At(4)>>), Struct(last)>>,
              roots |-> {At(1), At(2), At(3)}] :
               last \in {<<>>, <<At(1)>>, <<At(2)>>, <<At(3)>>}}

\* Fields promoted through embeds near the depth limit, parameters, and a
\* literal that embeds a Marshaler type.
Near == {Up(n, At(l)) : n \in {0, 1, 3}, l \in {2, 3}} \cup {Param(At(2))}
Deep == {[lits |-> <<Struct(<<a, b>>), Struct(<<c>>), m>>,
          roots |-> {Up(u, At(1)), Param(At(1)), Up(MaxDepth, At(3))}] :
           a, b \in Near, c \in Near \cup {At(1)}, u \in {1, 3},
           m \in {Marshaler(<<At(1)>>), Struct(<<At(1)>>)}}

MCProjects == Graphs3 \cup Dense \cup Doubling \cup Deep
=============================================================================
