----------------------------- MODULE Constraints -----------------------------
(***************************************************************************)
(* Validate tags as schema keywords (generator/constraints.go and the      *)
(* analyzer's parseValidationTag).  The tag's rules are read into a map    *)
(* for the field and, after a dive, one for its elements; the keys of a    *)
(* map are applied in sorted order, and several of them share a keyword.   *)
(*                                                                         *)
(* The properties compare the schema with what validator/v10 accepts, rule *)
(* by rule, in the order they are written.  Numbers count in halves, so    *)
(* that some are no integers; rounding to a float is left out.             *)
(***************************************************************************)
EXTENDS Integers, SequencesExt

CONSTANTS
    Fields,   \* the fields there may be: a shape, and the rules its tag may hold
    Text,     \* strings
    Length,   \* of each of them
    Fits,     \* the strings each content rule accepts
    Numbers,  \* the numbers a field may hold, in halves
    Sizes,    \* the sizes of its containers
    MaxRules  \* bound: rules of one tag

\* A number, in halves, and a string; a word of a tag is a string that may
\* read as a number.
Number(n) == [is |-> "number", n |-> n, text |-> ""]
String(s) == [is |-> "string", n |-> 0, text |-> s]
Word(n, s) == [is |-> "number", n |-> n, text |-> s]

Scalars == {"string", "integer", "uint", "number"}
Bases == Scalars \cup {"byteSlice", "sequence", "map", "boolean", "marshaler", "ref", "other"}

\* The keys of a map, sorted.
KeyOrder == <<"alpha", "email", "eq", "gt", "gte", "len", "lt", "lte", "max", "min",
              "numeric", "oneof", "regexp", "required", "startswith", "url", "uuid4">>

Words == [is : {"number", "string"}, n : Int, text : STRING]
Rules == [key : ToSet(KeyOrder) \cup {"dive"}, value : Seq(Words)]

ASSUME FieldsAssumption ==
    \A f \in Fields : f.base \in Bases /\ f.elem \in Bases /\ f.quoted \in BOOLEAN /\ f.rules \subseteq Rules
ASSUME SizesAssumption == Length \in [Text -> Nat] /\ Numbers \subseteq Int /\ Sizes \subseteq Nat

VARIABLES
    field,       \* its type, that of its elements, and the rules to choose from
    tag,         \* the rules read so far
    inElement,   \* a dive was read
    collection,  \* Constraints: values by key
    elements,    \* ElementConstraints
    stage,       \* what is done next
    prop, items  \* keywords of the property, and of its items

vars == <<field, tag, inElement, collection, elements, stage, prop, items>>

-----------------------------------------------------------------------------
(* The constraint set.  An unset keyword is None. *)

None == [is |-> "none"]
Keywords == {"format", "pattern", "enum", "minLength", "maxLength", "minItems", "maxItems",
             "minProperties", "maxProperties", "minimum", "maximum"}
Empty == [k \in Keywords |-> None]

Set(set, keyword, v) == [set EXCEPT ![keyword] = [is |-> "set", v |-> v]]

\* keepLarger and keepSmaller.
KeepLarger(set, keyword, n) ==
    IF set[keyword] = None \/ n > set[keyword].v THEN Set(set, keyword, n) ELSE set
KeepSmaller(set, keyword, n) ==
    IF set[keyword] = None \/ n < set[keyword].v THEN Set(set, keyword, n) ELSE set
KeepBoth(set, min, max, n) == KeepSmaller(KeepLarger(set, min, n), max, n)

\* For the mutation runs: the bound met last wins a tie.
MergeLast(set, keyword, cand) ==
    LET old == set[keyword]
    IN  IF \/ old = None \/ cand.n = old.v.n
           \/ IF keyword = "minimum" THEN cand.n > old.v.n ELSE cand.n < old.v.n
        THEN Set(set, keyword, cand) ELSE set

\* mergeNumeric: the stricter bound, and of equal ones the exclusive one.
MergeNumeric(set, keyword, cand) ==
    LET old == set[keyword]
    IN  CASE old # None /\ cand.n = old.v.n ->
               Set(set, keyword, [cand EXCEPT !.exclusive = @ \/ old.v.exclusive])
          [] old = None \/ (IF keyword = "minimum" THEN cand.n > old.v.n ELSE cand.n < old.v.n) ->
               Set(set, keyword, cand)
          [] OTHER -> set

Bound(n, exclusive) == [n |-> n, exclusive |-> exclusive]

-----------------------------------------------------------------------------
(* One rule.  A value is a sequence, of several words for oneof only. *)

IsNumber(value) == Len(value) = 1 /\ value[1].is = "number"
IsWhole(value) == IsNumber(value) /\ value[1].n % 2 = 0

FormatOf == [email |-> "email", uuid4 |-> "uuid", url |-> "uri"]
Patterns == {"alpha", "numeric", "startswith"}

\* coerceEnum: words that are numbers become numbers on a numeric field.
CoerceEnum(value, kind) ==
    {IF w.is = "number" /\ kind = "number" THEN Number(w.n) ELSE String(w.text) : w \in ToSet(value)}

Clamp(n) == IF n < 0 THEN 0 ELSE n

StringRule(set, key, value) ==
    LET n == value[1].n \div 2
    IN  CASE ~IsWhole(value) -> set
          [] IsWhole(value) /\ key = "min" -> KeepLarger(set, "minLength", n)
          [] IsWhole(value) /\ key = "max" -> KeepSmaller(set, "maxLength", n)
          [] IsWhole(value) /\ key = "len" -> KeepBoth(set, "minLength", "maxLength", n)
          [] IsWhole(value) /\ key = "gt" -> KeepLarger(set, "minLength", Clamp(n + 1))
          [] IsWhole(value) /\ key = "gte" -> KeepLarger(set, "minLength", Clamp(n))
          [] IsWhole(value) /\ key = "lt" -> KeepSmaller(set, "maxLength", Clamp(n - 1))
          [] IsWhole(value) /\ key = "lte" -> KeepSmaller(set, "maxLength", Clamp(n))
          [] OTHER -> set

NumberRule(set, key, value) ==
    CASE ~IsNumber(value) -> set
      [] IsNumber(value) /\ key \in {"min", "gt", "gte"} ->
           MergeNumeric(set, "minimum", Bound(value[1].n, key = "gt"))
      [] IsNumber(value) /\ key \in {"max", "lt", "lte"} ->
           MergeNumeric(set, "maximum", Bound(value[1].n, key = "lt"))
      [] OTHER -> set

\* applyScalarRule.  kind is the effective kind, "" for neither string nor
\* number.
ScalarRule(set, key, value, kind) ==
    CASE key \in DOMAIN FormatOf -> Set(set, "format", FormatOf[key])
      [] key \in Patterns -> Set(set, "pattern", key)
      [] key \in {"oneof", "eq"} /\ value # <<>> -> Set(set, "enum", CoerceEnum(value, kind))
      [] key = "regexp" -> Set(set, "pattern", "regexp")
      [] OTHER -> CASE kind = "string" -> StringRule(set, key, value)
                    [] kind = "number" -> NumberRule(set, key, value)
                    [] kind = "" -> set

\* applySliceCardinality and applyMapCardinality.
Cardinal(set, key, value, min, max) ==
    LET n == value[1].n \div 2
    IN  CASE ~IsWhole(value) -> set
          [] IsWhole(value) /\ key = "min" -> KeepLarger(set, min, n)
          [] IsWhole(value) /\ key = "max" -> KeepSmaller(set, max, n)
          [] IsWhole(value) /\ key = "len" -> KeepBoth(set, min, max, n)
          [] OTHER -> set

EffectiveKind(base) ==
    CASE base = "string" -> "string" [] base \in Scalars \ {"string"} -> "number" [] OTHER -> ""

Ruled(set, base, key, value) ==
    CASE key = "required" -> set
      [] key # "required" /\ base = "sequence" -> Cardinal(set, key, value, "minItems", "maxItems")
      [] key # "required" /\ base = "map" -> Cardinal(set, key, value, "minProperties", "maxProperties")
      [] key # "required" /\ base \notin {"sequence", "map"} -> ScalarRule(set, key, value, EffectiveKind(base))

\* The set after the first n keys.
SetAfter(base, rules) ==
    LET After[n \in 0..Len(KeyOrder)] ==
          IF n = 0 THEN Empty
          ELSE IF KeyOrder[n] \in DOMAIN rules
               THEN Ruled(After[n - 1], base, KeyOrder[n], rules[KeyOrder[n]])
               ELSE After[n - 1]
    IN  After
ConstraintsFor(base, rules) == SetAfter(base, rules)[Len(KeyOrder)]

\* applyTo: unset keywords leave those of p alone.
ApplyTo(set, p) == [k \in DOMAIN p |-> IF set[k] = None THEN p[k] ELSE set[k]]

TakesNoKeyword(base) == base \in {"marshaler", "ref"}

-----------------------------------------------------------------------------
(* The actions. *)

\* For the mutation runs: a dive is read over.
TargetField(key) == "collection"

\* A required rule is about the field wherever it stands.
Target(key) == IF inElement /\ key # "required" THEN "elements" ELSE "collection"

Put(rules, rule) ==
    [k \in DOMAIN rules \cup {rule.key} |-> IF k = rule.key THEN rule.value ELSE rules[k]]

ReadRule(rule) ==
    /\ stage = "read" /\ Len(tag) < MaxRules
    /\ tag' = Append(tag, rule)
    /\ IF rule.key = "dive"
       THEN inElement' = TRUE /\ UNCHANGED <<collection, elements>>
       ELSE /\ collection' = IF Target(rule.key) = "collection" THEN Put(collection, rule) ELSE collection
            /\ elements' = IF Target(rule.key) = "elements" THEN Put(elements, rule) ELSE elements
            /\ UNCHANGED inElement
    /\ UNCHANGED <<stage, prop, items>>

\* setTypeAndFormat: the keywords a type brings with it.  A number that is
\* written as a string (isQuotedScalar) keeps none of them and takes no rule.
TypeKeywords(base) ==
    CASE base = "uint" -> Set(Empty, "minimum", Bound(0, FALSE))
      [] base = "byteSlice" -> Set(Empty, "format", "byte")
      [] OTHER -> Empty

SetType ==
    /\ stage = "read"
    /\ prop' = IF field.quoted THEN Empty ELSE TypeKeywords(field.base)
    /\ items' = IF field.base = "sequence" THEN TypeKeywords(field.elem) ELSE Empty
    /\ stage' = IF field.quoted THEN "done" ELSE "collection"
    /\ UNCHANGED <<tag, inElement, collection, elements>>

ConstrainField ==
    /\ stage = "collection"
    /\ prop' = IF TakesNoKeyword(field.base) THEN prop
               ELSE ApplyTo(ConstraintsFor(field.base, collection), prop)
    /\ stage' = "elements"
    /\ UNCHANGED <<tag, inElement, collection, elements, items>>

ConstrainItems ==
    /\ stage = "elements"
    /\ items' = IF field.base # "sequence" \/ TakesNoKeyword(field.elem) THEN items
                ELSE ApplyTo(ConstraintsFor(field.elem, elements), items)
    /\ stage' = "done"
    /\ UNCHANGED <<tag, inElement, collection, elements, prop>>

Done == stage = "done" /\ UNCHANGED <<tag, inElement, collection, elements, stage, prop, items>>

Init ==
    /\ field \in Fields
    /\ tag = <<>> /\ inElement = FALSE /\ collection = <<>> /\ elements = <<>>
    /\ stage = "read" /\ prop = Empty /\ items = Empty

Next ==
    /\ (\E rule \in field.rules : ReadRule(rule)) \/ SetType \/ ConstrainField \/ ConstrainItems \/ Done
    /\ UNCHANGED field

Spec == Init /\ [][Next]_vars
-----------------------------------------------------------------------------
(* Values, in Go and in JSON, and what the validator and the schema make of  *)
(* them.  Sequences repeat one element; what a nested one holds is left out. *)

NumbersOf(base) == {n \in Numbers : (base = "uint" => n >= 0) /\ (base # "number" => n % 2 = 0)}
NumberValues(base) == {[go |-> Number(n), json |-> Number(n)] : n \in NumbersOf(base)}
\* A Marshaler writes what it likes.
Written == {String(""), Number(1)}
MarshalerValues == {[go |-> String(s), json |-> j] : s \in Text, j \in Written}

OneValue(base) ==
    CASE base = "string" -> {[go |-> String(s), json |-> String(s)] : s \in Text}
      [] base \in Scalars \ {"string"} -> NumberValues(base)
      [] base = "byteSlice" -> {[go |-> [is |-> "bytes", n |-> n], json |-> [is |-> "base64", n |-> n]] : n \in Sizes}
      [] base = "boolean" -> {[go |-> [is |-> "boolean", text |-> s], json |-> [is |-> "boolean", text |-> s]] :
                                s \in {"true", "false"}}
      [] base = "map" -> {[go |-> [is |-> "map", n |-> n], json |-> [is |-> "object", n |-> n]] : n \in Sizes}
      [] base = "sequence" -> {[go |-> [is |-> "items", n |-> n], json |-> [is |-> "array", n |-> n]] : n \in Sizes}
      [] base = "marshaler" -> MarshalerValues
      [] base \in {"ref", "other"} -> {[go |-> [is |-> "struct"], json |-> [is |-> "any"]]}

Values(base, elem) ==
    IF base = "sequence"
    THEN {[go |-> [is |-> "items", n |-> n, of |-> v.go], json |-> [is |-> "array", n |-> n, of |-> v.json]] :
            n \in Sizes, v \in OneValue(elem)}
    ELSE OneValue(base)

\* validator/v10: one rule of a value.  oneof panics on what is neither a
\* string nor a number, and eq compares the size of a container.
Size(v) == IF v.is = "string" THEN 2 * Length[v.text]
           ELSE IF v.is = "number" THEN v.n ELSE 2 * v.n
Meets(v, rule) ==
    LET given == rule.value[1]
        sized == v.is \notin {"struct", "boolean"} /\ IsNumber(rule.value) /\ (v.is # "number" => IsWhole(rule.value))
    IN  \/ rule.key = "required" /\ ~(v.is = "string" /\ v.text = "")
           /\ ~(v.is = "number" /\ v.n = 0) /\ ~(v.is = "boolean" /\ v.text = "false")
        \/ rule.key \in {"min", "gte"} /\ sized /\ Size(v) >= given.n
        \/ rule.key \in {"max", "lte"} /\ sized /\ Size(v) <= given.n
        \/ rule.key = "gt" /\ sized /\ Size(v) > given.n
        \/ rule.key = "lt" /\ sized /\ Size(v) < given.n
        \/ rule.key = "len" /\ sized /\ Size(v) = given.n
        \/ rule.key \in {"eq", "oneof"} /\ v.is = "string" /\ v \in CoerceEnum(rule.value, "")
        \/ rule.key \in {"eq", "oneof"} /\ v.is = "number"
           /\ \E w \in ToSet(rule.value) : w.is = "number" /\ w.n = v.n
        \/ rule.key = "eq" /\ v.is = "boolean" /\ rule.value # <<>> /\ given.text = v.text
        \/ rule.key = "eq" /\ v.is \notin {"string", "number"} /\ sized /\ Size(v) = given.n
        \/ rule.key \in Patterns \cup DOMAIN FormatOf \cup {"regexp"} /\ v.is = "string" /\ v.text \in Fits[rule.key]
        \/ rule.key = "numeric" /\ v.is = "number"

Dives == {i \in DOMAIN tag : tag[i].key = "dive"}

\* All rules of a tag that dives at most once.  What is no sequence is taken to
\* meet the rules after a dive.
Accepted(v) ==
    \A i \in DOMAIN tag \ Dives :
      IF \E d \in Dives : d < i
      THEN v.is = "items" /\ v.n > 0 => Meets(v.of, tag[i])
      ELSE Meets(v, tag[i])

Within(p, min, max, n) ==
    (p[min] # None => n >= p[min].v) /\ (p[max] # None => n <= p[max].v)

AdmitsString(p, text) ==
    /\ Within(p, "minLength", "maxLength", Length[text])
    /\ p.format # None => text \in Fits[CHOOSE k \in DOMAIN FormatOf : FormatOf[k] = p.format.v]
    /\ p.pattern # None => text \in Fits[p.pattern.v]

AdmitsNumber(p, n) ==
    /\ p.minimum # None => n > p.minimum.v.n \/ (n = p.minimum.v.n /\ ~p.minimum.v.exclusive)
    /\ p.maximum # None => n < p.maximum.v.n \/ (n = p.maximum.v.n /\ ~p.maximum.v.exclusive)

AdmitsOne(p, json) ==
    /\ p.enum # None => json \in p.enum.v
    /\ json.is = "string" => AdmitsString(p, json.text)
    /\ json.is = "number" => AdmitsNumber(p, json.n)
    /\ json.is = "base64" => Within(p, "minLength", "maxLength", 4 * ((json.n + 2) \div 3))
    /\ json.is = "object" => Within(p, "minProperties", "maxProperties", json.n)
    /\ json.is = "array" => Within(p, "minItems", "maxItems", json.n)

Admits(json) == AdmitsOne(prop, json) /\ (json.is = "array" /\ json.n > 0 => AdmitsOne(items, json.of))

-----------------------------------------------------------------------------
(* Properties. *)

ScopeOf(i) == IF \E d \in Dives : d < i THEN field.elem ELSE field.base

\* The schema rejects no value the validator accepts, whatever the type, the
\* rules and their order (constraintsFor, applyValidationConstraints): a rule
\* it cannot express, or cannot place, is left out.  Tags that dive twice are
\* left out: the code puts the inner rules on the outer elements.  So is eq on
\* a boolean or a byte slice: its enum holds the word as a string.  omitempty,
\* which lets a zero value pass all rules, is none of the rules.
SchemaAdmits ==
    (/\ stage = "done" /\ Cardinality(Dives) <= 1 /\ ~field.quoted
     /\ \A i \in DOMAIN tag : tag[i].key = "eq" => ScopeOf(i) \notin {"boolean", "byteSlice"}) =>
      \A v \in Values(field.base, field.elem) : Accepted(v.go) => Admits(v.json)

Lower == {"min", "gt", "gte", "len"}
Upper == {"max", "lt", "lte", "len"}

\* Rules that have a keyword on a type.
Expressible(base) ==
    CASE base \in Scalars -> (Lower \cup Upper) \ (IF base = "string" THEN {} ELSE {"len"})
      [] base \in {"sequence", "map"} -> {"min", "max", "len"}
      [] OTHER -> {}

\* A bound that has a keyword and could be met.
Exact(base, rule) ==
    /\ rule.key \in Expressible(base)
    /\ IsNumber(rule.value) /\ rule.value[1].n >= 0
    /\ base # "number" => IsWhole(rule.value)
    /\ base = "string" /\ rule.key = "lt" => rule.value[1].n > 0

\* Bounds are not loosened either: when every rule is a bound that has a
\* keyword, is written once, and could be met, the schema admits exactly the
\* values all of them accept, though several of them share a keyword
\* (keepLarger, keepSmaller, mergeNumeric).
BoundsExact ==
    (/\ stage = "done" /\ Cardinality(Dives) <= 1 /\ ~field.quoted
     /\ \A i \in DOMAIN tag \ Dives :
          /\ Exact(ScopeOf(i), tag[i])
          /\ \A j \in DOMAIN tag \ Dives : tag[i].key = tag[j].key /\ ScopeOf(i) = ScopeOf(j) => i = j) =>
      \A v \in Values(field.base, field.elem) : Admits(v.json) <=> Accepted(v.go)
=============================================================================
