---------------------------- MODULE MCConstraints ----------------------------
(***************************************************************************)
(* Types and the rules of their tags for Constraints: bounds that share a  *)
(* keyword, contents, words, and elements after a dive.                    *)
(***************************************************************************)
EXTENDS Constraints

MCText == {"", "a", "2", "bb", "a@b"}
MCLength == [s \in MCText |-> CASE s = "" -> 0 [] s \in {"a", "2"} -> 1 [] s = "bb" -> 2 [] s = "a@b" -> 3]
MCFits == [email |-> {"a@b"}, uuid4 |-> {"bb"}, url |-> {"bb", "a@b"}, alpha |-> {"a", "bb"},
           numeric |-> {"2"}, startswith |-> {"a", "a@b"}, regexp |-> {"bb", "2"}]

MCNumbers == -2..8
MCSizes == 0..3

Rule(key, value) == [key |-> key, value |-> value]
Plain(key) == Rule(key, <<String("true")>>)
Given(keys, words) == {Rule(k, <<w>>) : k \in keys, w \in words}
Bounds == {"min", "max", "len", "gt", "gte", "lt", "lte"}
One == Word(2, "1")
Two == Word(4, "2")
Half == Word(3, "1.5")
Below == Word(-2, "-1")

Contents == {Plain(k) : k \in {"email", "uuid4", "alpha", "numeric", "startswith", "regexp", "required"}}
OneOf == {Rule("oneof", <<String("a"), Two>>), Rule("eq", <<Two>>), Rule("eq", <<String("bb")>>)}
Dive == Rule("dive", <<>>)

Field(base, elem, rules) == [base |-> base, elem |-> elem, quoted |-> FALSE, rules |-> rules]

MCFields ==
    {Field("string", "other", Given(Bounds, {One, Two}) \cup Contents \cup OneOf
                              \cup {Rule("min", <<Below>>), Rule("gt", <<Half>>), Rule("lt", <<Word(0, "0")>>), Dive, Plain("max")})}
    \cup {Field(b, "other", Given(Bounds, {Two, Half}) \cup OneOf \cup {Rule("gt", <<Below>>), Plain("required"), Plain("numeric")}) :
            b \in {"integer", "uint", "number"}}
    \cup {[Field("number", "other", Given({"min", "eq"}, {One}) \cup {Dive}) EXCEPT !.quoted = TRUE]}
    \cup {Field(b, "other", Given(Bounds, {One}) \cup OneOf \cup {Plain("email"), Rule("max", <<Two>>), Dive}) :
            b \in {"byteSlice", "map", "marshaler"}}
    \cup {Field(b, "other", Given({"min", "eq"}, {One}) \cup {Rule("eq", <<String("true")>>), Plain("required"), Dive}) :
            b \in {"boolean", "ref", "other"}}
    \cup {Field("sequence", e, Given({"min", "max", "len"}, {One, Two}) \cup Given({"gt", "lt"}, {One})
                               \cup {Plain("required"), Plain("alpha"), Rule("oneof", <<String("a"), Two>>), Dive}) :
            e \in {"string", "uint", "number", "byteSlice", "marshaler", "ref", "sequence", "map"}}
=============================================================================
