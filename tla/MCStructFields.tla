--------------------------- MODULE MCStructFields ---------------------------
(***************************************************************************)
(* Struct declarations for StructFields: embeds that meet, nest, tie and   *)
(* return to one another, embeds of every class, parameters below several  *)
(* routes, and chains near the depth limit.                                *)
(***************************************************************************)
EXTENDS StructFields

Unset == [l \in Location |-> ""]
Plain(n) == [name |-> n, exported |-> TRUE, embeds |-> 0, tag |-> "", params |-> Unset,
             wraps |-> <<>>, kind |-> "scalar", trouble |-> "none"]
Tag(n, f) == [f EXCEPT !.tag = n]
In(l, n, f) == [f EXCEPT !.params[l] = n]
Hold(wraps, kind, f) == [f EXCEPT !.wraps = wraps, !.kind = kind]
Trouble(what, f) == [f EXCEPT !.trouble = what]
Hidden(f) == [f EXCEPT !.exported = FALSE]
Embed(t) == [Plain("") EXCEPT !.embeds = t, !.kind = "struct"]

Type0(n, is, to) == [name |-> n, exported |-> TRUE, marshaler |-> FALSE, to |-> to, fields |-> <<>>, is |-> is]
Struct(n, fields) == [Type0(n, "struct", 0) EXCEPT !.fields = fields]
Unexported(t) == [t EXCEPT !.exported = FALSE]
Methods(t) == [t EXCEPT !.marshaler = TRUE]

Route(s) == [struct |-> s, key |-> s, depth |-> 0, request |-> TRUE]
Ref(s, d) == [struct |-> s, key |-> s, depth |-> d, request |-> FALSE]
As(k, r) == [r EXCEPT !.key = k]

Pick(s) == SelectSeq(s, LAMBDA f : f # Embed(0))
None == Embed(0)

\* Fields of one key at many depths, tagged or not, on meeting embeds.
A == {None, Plain("a"), Tag("a", Plain("b")), Tag("-", Plain("a"))}
Meeting ==
    {[types |-> <<Struct("T", Pick(<<Embed(2), w, Embed(3)>>)), Struct("U", Pick(<<x, Embed(4)>>)),
                  Struct("V", Pick(<<back, y>>)), Struct("W", <<z, Hidden(Plain("c")), Embed(2)>>)>>,
      roots |-> {Route(1), Ref(2, 1)}] :
        w \in {None, Plain("a"), In("query", "p", Plain("a"))}, x \in A, y \in A \cup {In("path", "p", Plain("a"))},
        z \in {Plain("a"), Tag("a", Plain("c")), Tag("b", Plain("a"))},
        back \in {None, Embed(1), Embed(4), Tag("a", Embed(4)), Tag("-", Embed(4))}}

\* Embeds of every class, named by name or not, exported or not, some of
\* which a request takes a parameter from.
Classes == {"literal", "wellKnownStruct", "wellKnown", "outside"}
Generics == {"generic", "genericLiteral", "genericAlias", "genericDefined"}
Of(is) == IF is \in Generics THEN Type0("g", is, 4) ELSE Type0("g", is, 0)
Ends == {Type0("c", "literal", 0), Type0("c", "wellKnownStruct", 0), Struct("c", <<Plain("d")>>)}
Names(is) == {Type0("g", is, 2), Unexported(Type0("g", is, 2))}
Vias == UNION {{<<via, Of(is), Struct("c", <<Plain("d")>>)>> : via \in Names("alias") \cup Names("defined")} : is \in Classes}
        \cup UNION {{<<via, Of(is), end>> : via \in Names("alias"), end \in Ends} : is \in Generics}
        \cup UNION {{<<via, via, end>> : via \in {Of(is), Unexported(Of(is))}, end \in Ends} : is \in Generics}
KindOf(v) == CASE v[2].is \in Generics \cup {"outside"} -> "unresolved"
               [] v[2].is = "wellKnownStruct" -> IF v[1].is = "alias" THEN "time" ELSE "struct"
               [] OTHER -> "array"
Embedded ==
    {[types |-> <<Methods(Struct("T", <<Plain("a"), In("path", "p", Plain("b")), Hold(e.wraps, KindOf(v), e)>>)),
                  v[2], v[1], v[3], Struct("U", <<Hold(e.wraps, KindOf(v), e), Plain("a")>>)>>,
      roots |-> {Route(1), Route(5), Ref(5, 2)}] :
        e \in {Embed(3), Tag("c", Embed(3)), Tag("-", Embed(3)), In("query", "q", Embed(3)),
               In("query", "p", Embed(3)), Hold(<<"pointer">>, "", In("path", "q", Embed(3)))},
        v \in Vias}

\* Parameters, bindable or not, of one struct that several routes, fields and
\* components lead to.
Shapes == {<<<<>>, "string">>, <<<<"pointer">>, "uintptr">>, <<<<"slice">>, "string">>,
           <<<<"slice">>, "unresolved">>, <<<<"pointer", "slice">>, "string">>,
           <<<<"slice", "pointer">>, "string">>, <<<<"map">>, "unresolved">>, <<<<>>, "byteSlice">>,
           <<<<"pointer">>, "time">>, <<<<>>, "struct">>, <<<<>>, "interface">>}
Given(l, f) == In(l[1], "p", In(l[2], "q", f))
Requests ==
    {[types |-> <<Struct("T", <<Trouble(what, Given(l, Hold(sh[1], sh[2], Plain("a")))), Embed(2), Tag("a", Plain("c"))>>),
                  Struct("U", <<In("path", "p", Trouble("fallback", Hold(sh[1], sh[2], Plain("b")))), Embed(3)>>),
                  Type0("V", "outside", 0), Type0("W", "defined", 1)>>,
      roots |-> {Route(1), Ref(1, 2), As(4, Ref(1, 1)), Route(2)}] :
        what \in {"none", "uintptr", "fallback"}, sh \in Shapes,
        l \in {<<"path", "path">>, <<"path", "query">>, <<"query", "header">>, <<"header", "header">>}}

\* Chains of embeds that end about at the limit.
Chains ==
    {[types |-> <<Struct("T", <<Embed(2), Plain("a")>>), Struct("U", <<Plain("a"), Embed(3), Embed(4)>>),
                  Struct("V", <<w, Tag("a", Plain("b"))>>), Struct("W", <<Embed(1), Trouble("uintptr", Plain("c"))>>)>>,
      roots |-> {Ref(1, d), Ref(2, MaxDepth), Route(1)}] :
        d \in {MaxDepth - 2, MaxDepth - 1}, w \in {Embed(4), Plain("d")}}

MCProjects == Meeting \cup Embedded \cup Requests \cup Chains
=============================================================================
