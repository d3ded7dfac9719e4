---------------------------- MODULE MCMethodSets ----------------------------
(***************************************************************************)
(* Small type tables for MethodSets: cycles of pointer embeds, value and   *)
(* pointer embeds of methods declared in each way, and shapes where names  *)
(* tie.  Defined types over a struct on a cycle are left out: methodSetOf  *)
(* cuts such a struct by its key alone, and SetsMatchSelectorRules fails.  *)
(***************************************************************************)
EXTENDS MethodSets

CONSTANTS api, lib

MCMethod == {"MarshalJSON", "MarshalText", "UnmarshalText"}
MCDir == {api, lib}

MT == "MarshalText"
UT == "UnmarshalText"
MJ == "MarshalJSON"

ByValue == {[exact |-> TRUE, ptr |-> FALSE]}
ByPointer == {[exact |-> TRUE, ptr |-> TRUE]}
OtherSignature == {[exact |-> FALSE, ptr |-> FALSE]}

\* What a type declares: a function from some of the methods.
Declares(d) == [m \in MCMethod |-> IF m \in DOMAIN d THEN d[m] ELSE {}]
Nothing == Declares(<<>>)
TextOnly(d) == Declares([m \in {MT} |-> d])
Text(mt, ut) == Declares([m \in {MT, UT} |-> IF m = MT THEN mt ELSE ut])

Type(kind, to, embeds, declared) ==
    [kind |-> kind, dir |-> api, to |-> to, embeds |-> embeds, fields |-> {},
     declared |-> declared]
Struct(embeds, declared) == Type("struct", 0, embeds, declared)
Ptr(t) == [to |-> t, ptr |-> TRUE]
Val(t) == [to |-> t, ptr |-> FALSE]
In(dir, t) == [t EXCEPT !.dir = dir]
WithField(m, t) == [t EXCEPT !.fields = {m}]

\* Lists of at most one embed of each set.
Pick(S, T) ==
    {SelectSeq(<<e, f>>, LAMBDA x : x.to # 0) : e \in S, f \in T}
None == [to |-> 0, ptr |-> FALSE]

PtrLists ==
    {SelectSeq(<<e, f, k>>, LAMBDA x : x.to # 0) :
       e \in {None, Ptr(1)}, f \in {None, Ptr(2)}, k \in {None, Ptr(3)}}

\* Three types that may embed one another in a circle.
Circles ==
    {<<Struct(l1, d1), t2, In(lib, t3)>> :
       l1 \in PtrLists, d1 \in {Nothing, TextOnly(ByPointer)},
       t2 \in {Struct(l, Nothing) : l \in PtrLists}
               \cup {Type(k, to, <<>>, Nothing) : k \in {"alias", "defined"}, to \in {1, 3}},
       t3 \in {Struct(l, TextOnly(ByValue)) : l \in PtrLists}}

\* Two structs over a named type or one of another module, with every kind of
\* declaration.
Towers ==
    {<<Struct(l1, d1), t2, t3>> :
       l1 \in Pick({None, Val(2), Ptr(2)}, {None, Val(3), Ptr(3)}),
       d1 \in {Nothing, TextOnly(OtherSignature)},
       t2 \in {Struct(l, d) : l \in {<<Val(3)>>, <<Ptr(3)>>},
                              d \in {Nothing, TextOnly(ByValue), TextOnly(OtherSignature)}}
               \cup {Type(k, 3, <<>>, Nothing) : k \in {"alias", "defined"}},
       t3 \in {In(lib, Type("other", 0, <<>>, d)) :
                 d \in {Nothing, Text(ByValue, ByPointer), Text(ByPointer, ByPointer),
                        Text(ByValue, {}), Text(ByValue, OtherSignature),
                        [Text(ByValue, ByPointer) EXCEPT ![MJ] = ByPointer]}}
               \cup {In(lib, Type("known", 0, <<>>, Text(ByValue, ByValue)))}}

\* A diamond, its two sides at one depth or not, and fields named like methods.
Diamonds ==
    {<<Struct(<<Val(2), Val(3)>>, d1), t2, t3, Type("other", 0, <<>>, Text(ByValue, ByPointer))>> :
       d1 \in {Nothing, TextOnly(OtherSignature)},
       t2 \in {Struct(<<Val(4)>>, Nothing), Struct(<<Ptr(4)>>, TextOnly(ByValue)),
               WithField(UT, Struct(<<Val(4)>>, Nothing)), Type("alias", 4, <<>>, Nothing)},
       t3 \in {Struct(<<Val(4)>>, Nothing), Struct(<<Val(2), Val(4)>>, Nothing),
               Struct(<<>>, Nothing), WithField(MT, Struct(<<>>, Nothing)),
               Type("defined", 2, <<>>, TextOnly(ByPointer)), Type("alias", 2, <<>>, Nothing)}}

\* A diamond embedded in turn, alone or beside one of its sides.
Crowned ==
    {Append(p, Struct(l, Nothing)) : p \in Diamonds, l \in {<<Ptr(1)>>, <<Val(1), Val(3)>>}}

Targets(p, t) ==
    {p[t].embeds[i].to : i \in DOMAIN p[t].embeds} \cup ({p[t].to} \ {0})
Reached(p, t) ==
    LET Within[n \in Nat] ==
          IF n = 0 THEN Targets(p, t)
          ELSE Within[n - 1] \cup UNION {Targets(p, u) : u \in Within[n - 1]}
    IN  Within[Len(p)]
HasDefinedOverCycle(p) ==
    \E t \in DOMAIN p : p[t].kind = "defined" /\ p[t].to \in Reached(p, p[t].to)

MCProjects ==
    {p \in Circles : ~HasDefinedOverCycle(p)} \cup Towers \cup Diamonds \cup Crowned
=============================================================================
