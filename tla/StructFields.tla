---------------------------- MODULE StructFields ----------------------------
(***************************************************************************)
(* Which fields of a struct reach the document, and which warnings its     *)
(* fields raise (analyzer/embed.go, extractRankedFields and embeddedFields *)
(* of analyzer.go, analyzer/binding.go).  encoding/json decides by a rule  *)
(* over all fields at all depths at once; the analyzer merges the fields   *)
(* of a struct with those of its embeds, struct by struct, on the way back *)
(* from a depth-first walk.  Warnings are kept once per field declaration, *)
(* however many structs and routes lead to it.                             *)
(*                                                                         *)
(* FieldsAsEncoded compares with encoding/json's rule, which is stated     *)
(* here over paths of embeds, without the walk.                            *)
(***************************************************************************)
EXTENDS Naturals, SequencesExt

CONSTANTS
    Name,           \* Go names, json names and parameter names
    Projects,       \* the projects there may be
    MaxDepth,       \* maxTypeRegistrationDepth
    MaxExtractions  \* bound: structs taken as payloads or registered

Location == {"path", "query", "header"}

\* binderKind, of what is not a pointer, slice, array or map.
Kind == {"unresolved", "string", "scalar", "time", "byteSlice", "array", "struct",
         "interface", "complex", "uintptr", "funcOrChan"}

\* A field as written.  embeds is the type it embeds, or 0.  tag is its json
\* name: none, "-" or a name; params the values of its param, query and header
\* tags.  wraps are the containers of its resolved type, outermost first, down
\* to the kind of its leaf.  trouble is what that resolution has to warn about.
Field ==
    [name : Name \cup {""}, exported : BOOLEAN, embeds : Nat, tag : Name \cup {"", "-"},
     params : [Location -> Name \cup {""}], wraps : Seq({"pointer", "slice", "array", "map"}),
     kind : Kind, trouble : {"none", "fallback", "uintptr"}]

\* A type declaration.  A literal is a slice, a map, a predeclared type and
\* so on; the generic ones stand for an instantiation of a generic type over
\* a struct, a literal, or the type it is an alias of or defined over.
Type ==
    [name : Name, exported : BOOLEAN, marshaler : BOOLEAN, to : Nat, fields : Seq(Field),
     is : {"struct", "literal", "wellKnownStruct", "wellKnown", "outside", "alias",
           "defined", "generic", "genericLiteral", "genericAlias", "genericDefined"}]

VARIABLES
    project,     \* its types, and the structs its routes and fields lead to
    stack,       \* the structs being extracted, outermost first
    quiet,       \* quietEmbeds
    registered,  \* names in the registry
    log,         \* the warnings, and which fields they were raised for
    extracted    \* the structs taken, and the fields kept of each

vars == <<project, stack, quiet, registered, log, extracted>>

-----------------------------------------------------------------------------
(* classifyEmbed. *)

TypeOf(t) == project.types[t]
FieldAt(at) == TypeOf(at[1]).fields[at[2]]

Class(c) == [class |-> c, struct |-> 0]

\* wellKnownMarshalerEmbed.
WellKnown(isStruct, defined) ==
    IF ~defined THEN Class(IF isStruct THEN "marshalerStruct" ELSE "marshaler")
    ELSE Class(IF isStruct THEN "opaque" ELSE "nonStruct")

\* local and qualified: the end of the chain of names that starts at t.
Chain(t, defined) ==
    LET End[n \in 0..Len(project.types), u \in DOMAIN project.types, d \in BOOLEAN] ==
          CASE TypeOf(u).is = "struct" -> [class |-> "struct", struct |-> u]
            [] TypeOf(u).is \in {"alias", "defined"} ->
                 IF n = 0 THEN Class("nonStruct")
                 ELSE End[n - 1, TypeOf(u).to, d \/ TypeOf(u).is = "defined"]
            [] TypeOf(u).is = "wellKnownStruct" -> WellKnown(TRUE, d)
            [] TypeOf(u).is = "wellKnown" -> WellKnown(FALSE, d)
            [] TypeOf(u).is = "outside" -> Class("unresolvable")
            [] TypeOf(u).is = "literal" -> Class("nonStruct")
            [] OTHER -> Class("generic")
    IN  End[Len(project.types), t, defined]

NonStruct(target) == target.class \in {"nonStruct", "marshaler"}

\* generic: an unexported instantiation is skipped when it is known not to be
\* a struct.
Instance(t) ==
    LET named == Chain(TypeOf(t).to, TypeOf(t).is = "genericDefined")
    IN  CASE TypeOf(t).exported \/ TypeOf(t).is = "generic" -> Class("generic")
          [] TypeOf(t).is = "genericLiteral" \/ NonStruct(named) -> Class("skip")
          [] named.class = "opaque" -> named
          [] OTHER -> Class("generic")

ClassifyEmbed(t) ==
    LET target == IF TypeOf(t).is \in {"generic", "genericLiteral", "genericAlias", "genericDefined"}
                  THEN Instance(t) ELSE Chain(t, FALSE)
    IN  IF NonStruct(target) /\ ~TypeOf(t).exported THEN Class("skip") ELSE target

-----------------------------------------------------------------------------
(* Ranked fields. *)

NameOf(f) == IF f.embeds = 0 THEN f.name ELSE TypeOf(f.embeds).name

\* parseParameterTags: a header tag beats a query tag, and that a param tag.
ParamOf(f) ==
    LET source == CASE f.params["header"] # "" -> "header" [] f.params["query"] # "" -> "query"
                    [] f.params["path"] # "" -> "path" [] OTHER -> ""
    IN  [in |-> source, name |-> IF source = "" THEN "" ELSE f.params[source]]

NoParam == [in |-> "", name |-> ""]

\* dominanceKey and tagged, of a field that is built by buildFieldInfo, or as
\* an embed's property.
Ranked(at) ==
    LET f == FieldAt(at)
    IN  [at |-> at, depth |-> 0, param |-> ParamOf(f), tagged |-> f.tag # "",
         key |-> CASE f.tag = "-" -> "" [] f.tag = "" -> NameOf(f) [] OTHER -> f.tag]

\* For the mutation runs: a json name counts for nothing.
OutranksByDepth(f, g) == f.depth < g.depth

Outranks(f, g) ==
    IF f.depth # g.depth THEN f.depth < g.depth ELSE f.tagged /\ ~g.tagged

\* bestByKey: the first of those of f's key that no other outranks.
IsBest(fields, i) ==
    \A j \in DOMAIN fields :
      fields[j].key = fields[i].key =>
        /\ ~Outranks(fields[j], fields[i])
        /\ j < i => Outranks(fields[i], fields[j])

\* The elements of s whose index satisfies keep.
Those(s, keep(_)) ==
    FoldLeftDomain(LAMBDA kept, i : IF keep(i) THEN Append(kept, s[i]) ELSE kept, <<>>, s)

DropDominatedFields(fields) ==
    Those(fields, LAMBDA i : fields[i].key = "" \/ fields[i].param # NoParam \/ IsBest(fields, i))

\* For the mutation runs: the last parameter of a name stays.
DropEarlierParams(fields) ==
    Those(fields, LAMBDA i : fields[i].param = NoParam \/
                             \A j \in DOMAIN fields : j > i => fields[j].param # fields[i].param)

DropDuplicateParams(fields) ==
    Those(fields, LAMBDA i : fields[i].param = NoParam \/
                             \A j \in DOMAIN fields : j < i => fields[j].param # fields[i].param)

\* The fields of a struct whose own are shallow.
Merged(shallow, promoted) == DropDuplicateParams(DropDominatedFields(shallow \o promoted))

-----------------------------------------------------------------------------
(* Warnings.  A warning is told by the field it is about. *)

NoWarning == [warnings |-> <<>>, field |-> {}, uintptr |-> {}, index |-> <<>>]

Mark(index, at, i) == [a \in DOMAIN index \cup {at} |-> IF a = at THEN i ELSE index[a]]

Add(l, at, kind) == [l EXCEPT !.warnings = Append(@, [at |-> at, kind |-> kind])]

\* markFieldWarning, and the warning its caller raises.
Raise(l, seen, at, kind) ==
    IF at \in l[seen] THEN l
    ELSE Add([l EXCEPT ![seen] = @ \cup {at}, !.index = Mark(@, at, Len(l.warnings) + 1)], at, kind)

\* warnDepthExceeded: its latch is the warning itself.
DepthWarning == [at |-> <<0, 0>>, kind |-> "depth"]
RaiseDepth(l) ==
    IF DepthWarning \in ToSet(l.warnings) THEN l ELSE Add(l, DepthWarning.at, DepthWarning.kind)

\* For the mutation runs: an earlier warning of the field stays.
AddBindingWarning(l, at) ==
    Add([l EXCEPT !.field = @ \cup {at}, !.uintptr = @ \cup {at},
                  !.index = Mark(@, at, Len(l.warnings) + 1)], at, "binding")

SetBindingWarning(l, at) ==
    LET marked == [l EXCEPT !.field = @ \cup {at}, !.uintptr = @ \cup {at}]
    IN  IF at \in DOMAIN l.index
        THEN [marked EXCEPT !.warnings[l.index[at]] = [at |-> at, kind |-> "binding"]]
        ELSE Add([marked EXCEPT !.index = Mark(@, at, Len(l.warnings) + 1)], at, "binding")

\* paramBindReason: whether go-bricks is known not to bind a type in source.
Unbound(wraps, kind, source) ==
    LET Slice(w) == IF w = <<>> THEN kind = "byteSlice" ELSE w[1] = "slice"
        Elem(w) == IF w = <<>> THEN kind ELSE w[1]
        Is[n \in 1..Len(wraps) + 1] ==
          LET w == SubSeq(wraps, n, Len(wraps))
          IN  CASE Slice(w) -> \/ source = "path" \/ w = <<>>
                               \/ Elem(Tail(w)) \notin {"string", "unresolved"}
                [] ~Slice(w) /\ w # <<>> /\ w[1] = "pointer" -> Slice(Tail(w)) \/ Is[n + 1]
                [] ~Slice(w) /\ w # <<>> /\ w[1] # "pointer" -> TRUE
                [] ~Slice(w) /\ w = <<>> -> kind \notin {"unresolved", "string", "scalar", "time"}
    IN  Is[1]

\* embedsStruct.
EmbedsStruct(f) == f.kind = "struct" /\ ToSet(f.wraps) \subseteq {"pointer"}

\* warnUnbindableParams: the request struct's own fields.  An embedded struct
\* is not judged.
Unbindable(t) ==
    {<<t, i>> : i \in {i \in DOMAIN TypeOf(t).fields :
       LET f == TypeOf(t).fields[i]
       IN  /\ IF f.embeds = 0 THEN f.exported ELSE TypeOf(f.embeds).exported /\ ~EmbedsStruct(f)
           /\ ParamOf(f) # NoParam /\ Unbound(f.wraps, f.kind, ParamOf(f).in)}}

WarnUnbindableParams(l, t) ==
    FoldLeftDomain(LAMBDA w, i : IF <<t, i>> \in Unbindable(t) THEN SetBindingWarning(w, <<t, i>>) ELSE w,
                   l, TypeOf(t).fields)

\* isJSONExcluded: such a field is not resolved.
Excluded(f) == f.key = "" /\ f.param = NoParam

\* warnResolvedField, of the fields a struct keeps in the document.
WarnResolvedField(l, f) ==
    LET trouble == FieldAt(f.at).trouble
    IN  CASE Excluded(f) \/ trouble = "none" -> l
          [] trouble = "uintptr" -> Raise(l, "uintptr", f.at, "uintptr")
          [] trouble = "fallback" -> Raise(l, "field", f.at, "fallback")

-----------------------------------------------------------------------------
(* The walk. *)

Top == stack[Len(stack)]
At == <<Top.struct, Top.next>>
Current == FieldAt(At)
More == stack # <<>> /\ Top.next <= Len(TypeOf(Top.struct).fields)

Frame(t, depth) == [struct |-> t, next |-> 1, shallow |-> <<>>, promoted |-> <<>>, depth |-> depth]

\* The visited set: the structs on the way down, by their declaration.
Visited(t) == \E i \in DOMAIN stack : stack[i].struct = t

Pass == [stack EXCEPT ![Len(stack)].next = @ + 1]
PassAdding == [stack EXCEPT ![Len(stack)].next = @ + 1, ![Len(stack)].shallow = Append(@, Ranked(At))]

\* A route's payload, or a struct that another's field refers to, under the
\* name it registers.  A request's parameters are judged first
\* (populateRequestType).  A request that is a Marshaler type is extracted for
\* its parameters only (requestParamFields); nothing registers one.
Take(r) ==
    LET methods == TypeOf(r.struct).marshaler
        known == ~methods /\ r.key \in registered
    IN  /\ stack = <<>> /\ Len(extracted) < MaxExtractions
        /\ r.request \/ ~methods
        /\ log' = IF r.request THEN WarnUnbindableParams(log, r.struct) ELSE log
        /\ extracted' = Append(extracted, [root |-> r, known |-> known, fields |-> <<>>])
        /\ registered' = registered \cup (IF methods THEN {} ELSE {r.key})
        /\ quiet' = methods
        /\ stack' = IF known THEN <<>> ELSE <<Frame(r.struct, r.depth)>>

unchangedOutside == UNCHANGED <<quiet, registered, extracted>>

NamedField ==
    /\ More /\ Current.embeds = 0
    /\ stack' = IF Current.exported THEN PassAdding ELSE Pass
    /\ UNCHANGED log /\ unchangedOutside

Target == ClassifyEmbed(Current.embeds)
Embeds == More /\ Current.embeds # 0

\* json:"-", and what encoding/json ignores before it reads the tag.
SkipEmbed ==
    /\ Embeds /\ (Current.tag = "-" \/ Target.class = "skip")
    /\ stack' = Pass /\ UNCHANGED log /\ unchangedOutside

Kept == Embeds /\ Current.tag # "-" /\ Target.class # "skip"

\* An explicit json name nests the embed as one field.
NestEmbed ==
    /\ Kept /\ Current.tag # ""
    /\ stack' = PassAdding /\ UNCHANGED log /\ unchangedOutside

Untagged == Kept /\ Current.tag = ""

\* One property, named by its type; of a Marshaler only if it is a parameter.
EmbedProperty ==
    /\ Untagged
    /\ \/ Target.class = "nonStruct"
       \/ /\ Target.class \in {"marshaler", "marshalerStruct"}
          /\ ParamOf(Current) # NoParam /\ TypeOf(Current.embeds).exported
    /\ stack' = PassAdding /\ UNCHANGED log /\ unchangedOutside

PromoteNothing ==
    /\ Untagged
    /\ \/ Target.class = "opaque"
       \/ /\ Target.class \in {"marshaler", "marshalerStruct"}
          /\ ParamOf(Current) = NoParam \/ ~TypeOf(Current.embeds).exported
       \/ Target.class = "struct" /\ Visited(Target.struct)
    /\ stack' = Pass /\ UNCHANGED log /\ unchangedOutside

\* warnDroppedEmbed.
WarnDroppedEmbed(l) == IF quiet THEN l ELSE Raise(l, "field", At, "dropped")

DropEmbed ==
    /\ Untagged /\ Target.class \in {"generic", "unresolvable"}
    /\ log' = WarnDroppedEmbed(log)
    /\ stack' = Pass /\ unchangedOutside

\* For the mutation runs: one level too many.
TooDeepLate == Top.depth > MaxDepth

TooDeep == Top.depth + 1 > MaxDepth

Promotes == Untagged /\ Target.class = "struct" /\ ~Visited(Target.struct)

PromoteTooDeep ==
    /\ Promotes /\ TooDeep
    /\ log' = RaiseDepth(log)
    /\ stack' = Pass /\ unchangedOutside

PromoteStruct ==
    /\ Promotes /\ ~TooDeep
    /\ stack' = Append(Pass, Frame(Target.struct, Top.depth + 1))
    /\ UNCHANGED log /\ unchangedOutside

\* The embedded struct's fields join those of the struct that embeds it, one
\* level deeper.
Return ==
    /\ Len(stack) > 1 /\ ~More
    /\ LET fields == Merged(Top.shallow, Top.promoted)
           deeper == [i \in DOMAIN fields |-> [fields[i] EXCEPT !.depth = @ + 1]]
       IN  stack' = [Front(stack) EXCEPT ![Len(stack) - 1].promoted = @ \o deeper]
    /\ UNCHANGED log /\ unchangedOutside

\* The outermost struct's fields are final: they warn.
Finish ==
    /\ Len(stack) = 1 /\ ~More
    /\ LET fields == Merged(Top.shallow, Top.promoted)
           params == SelectSeq(fields, LAMBDA f : f.param # NoParam)
       IN  /\ log' = FoldLeft(WarnResolvedField, log, IF quiet THEN params ELSE fields)
           /\ extracted' = [extracted EXCEPT ![Len(extracted)].fields = fields]
    /\ stack' = <<>> /\ quiet' = FALSE /\ UNCHANGED registered

Init ==
    /\ project \in Projects
    /\ stack = <<>> /\ quiet = FALSE /\ registered = {} /\ log = NoWarning /\ extracted = <<>>

Done ==
    /\ stack = <<>> /\ Len(extracted) = MaxExtractions
    /\ UNCHANGED <<stack, quiet, registered, log, extracted>>

Next ==
    /\ \/ \E r \in project.roots : Take(r)
       \/ NamedField \/ SkipEmbed \/ NestEmbed \/ EmbedProperty \/ PromoteNothing
       \/ DropEmbed \/ PromoteTooDeep \/ PromoteStruct \/ Return \/ Finish \/ Done
    /\ UNCHANGED project

Spec == Init /\ [][Next]_vars
-----------------------------------------------------------------------------
(* encoding/json's view: the fields of all paths of embeds below a struct. *)

\* The end of the chain of types of the given forms that starts at t.
Follow(t, forms) ==
    LET Of[n \in 0..Len(project.types), u \in DOMAIN project.types] ==
          IF n > 0 /\ TypeOf(u).is \in forms THEN Of[n - 1, TypeOf(u).to] ELSE u
    IN  Of[Len(project.types), t]

Underlying(t) == Follow(t, {"alias", "defined"})
\* A type that is not read is taken to be one.
IsStruct(t) ==
    TypeOf(Follow(t, {"alias", "defined", "genericAlias", "genericDefined"})).is
      \in {"struct", "wellKnownStruct", "generic", "outside"}
Promoting(f) == f.embeds # 0 /\ f.tag = "" /\ TypeOf(Underlying(f.embeds)).is = "struct"

EndOf(s, path) == IF path = <<>> THEN s ELSE Underlying(FieldAt(Last(path)).embeds)

\* The paths of embeds below s on which no struct embeds itself.
Paths(s) ==
    LET Longer(p) ==
          {Append(p, at) : at \in
             {a \in {EndOf(s, p)} \X DOMAIN TypeOf(EndOf(s, p)).fields :
                /\ Promoting(FieldAt(a))
                /\ Underlying(FieldAt(a).embeds) \notin {s} \cup {EndOf(s, SubSeq(p, 1, i)) : i \in DOMAIN p}}}
        Of[n \in 0..Len(project.types)] ==
          IF n = 0 THEN {<<>>} ELSE LET shorter == Of[n - 1]
                                    IN  shorter \cup UNION {Longer(p) : p \in shorter}
    IN  Of[Len(project.types)]

\* The fields Go reads there, as paths that end at the field.
Leaves(s) ==
    UNION {{Append(p, at) : at \in
              {a \in {EndOf(s, p)} \X DOMAIN TypeOf(EndOf(s, p)).fields :
                 LET f == FieldAt(a)
                 IN  IF f.embeds = 0 THEN f.exported
                     ELSE f.tag # "-" /\ ~Promoting(f) /\ (TypeOf(f.embeds).exported \/ IsStruct(f.embeds))}}
           : p \in Paths(s)}

FieldOf(leaf) == FieldAt(Last(leaf))

KeyOf(leaf) ==
    LET f == FieldOf(leaf) IN CASE f.tag = "-" -> "" [] f.tag = "" -> NameOf(f) [] OTHER -> f.tag

\* A leaf encoding/json writes as a field.
Written(leaf) ==
    LET f == FieldOf(leaf)
    IN  KeyOf(leaf) # "" /\ (f.embeds = 0 \/ f.tag # "" \/ ~IsStruct(f.embeds))

Beats(p, q) ==
    \/ Len(p) < Len(q)
    \/ Len(p) = Len(q) /\ FieldOf(p).tag # "" /\ FieldOf(q).tag = ""

\* Declaration order, a struct's own fields before those it promotes.
Before(p, q) ==
    \E i \in DOMAIN p \cap DOMAIN q :
      /\ SubSeq(p, 1, i - 1) = SubSeq(q, 1, i - 1)
      /\ IF (i = Len(p)) = (i = Len(q)) THEN p[i][2] < q[i][2] ELSE i = Len(p)

First(leaves) == CHOOSE p \in leaves : \A q \in leaves \ {p} : Before(p, q)

\* The declarations of the body fields of s.
Encoded(s) ==
    LET written == {p \in Leaves(s) : Written(p)}
        best(k) == LET those == {p \in written : KeyOf(p) = k}
                   IN  First({p \in those : \A q \in those : ~Beats(q, p)})
        winners == {best(k) : k \in {KeyOf(p) : p \in written}}
    IN  {Last(p) : p \in {p \in winners : ParamOf(FieldOf(p)) = NoParam}}

Unread(f) == ClassifyEmbed(f.embeds).class \in {"generic", "unresolvable"}

\* The leaves that are parameters.
ParamLeaves(s) ==
    {p \in Leaves(s) :
       LET f == FieldOf(p)
       IN  /\ ParamOf(f) # NoParam
           /\ f.embeds # 0 /\ f.tag = "" => ~Unread(f)
           /\ \/ Written(p) \/ f.tag = "-"
              \/ TypeOf(f.embeds).exported /\ TypeOf(Follow(f.embeds, {"alias"})).is = "wellKnownStruct"}

Named(s, param) == {p \in ParamLeaves(s) : ParamOf(FieldOf(p)) = param}
ParamsOf(s) == {ParamOf(FieldOf(p)) : p \in ParamLeaves(s)}
Bound(s) == {Last(First(Named(s, param))) : param \in ParamsOf(s)}

Truncated(root) == \E p \in Paths(root.struct) : root.depth + Len(p) > MaxDepth

\* The embeds met on the way that have a property.
Met(root, has(_)) ==
    UNION {{at \in {EndOf(root.struct, p)} \X DOMAIN TypeOf(EndOf(root.struct, p)).fields :
              FieldAt(at).embeds # 0 /\ has(FieldAt(at))}
           : p \in {p \in Paths(root.struct) : root.depth + Len(p) <= MaxDepth}}

Dropped(root) == Met(root, LAMBDA f : f.tag = "" /\ Unread(f))

\* What a struct's fields are cannot be told from the module.
Uncertain(root) ==
    Met(root, LAMBDA f : \/ Unread(f) /\ (f.tag = "" \/ ~TypeOf(f.embeds).exported)
                         \/ f.tag = "" /\ ClassifyEmbed(f.embeds).class \in {"marshaler", "marshalerStruct"}) # {}

-----------------------------------------------------------------------------
(* Properties. *)

Idle == stack = <<>>
Walked == {e \in ToSet(extracted) : ~e.known}
Quiet(root) == TypeOf(root.struct).marshaler
KeptOf(e) == {f \in ToSet(e.fields) : Quiet(e.root) => f.param # NoParam}

\* The type invariant.  No frame lies deeper than the limit
\* (maxTypeRegistrationDepth, extractRankedFields).
TypeOK ==
    /\ quiet \in BOOLEAN
    /\ \A i \in DOMAIN stack :
         /\ TypeOf(stack[i].struct).is = "struct"
         /\ stack[i].next \in 1..Len(TypeOf(stack[i].struct).fields) + 1
         /\ stack[i].depth \in 0..MaxDepth
    /\ \A w \in ToSet(log.warnings) : w.kind \in {"binding", "fallback", "uintptr", "dropped", "depth"}
    /\ DOMAIN log.index \subseteq log.field \cup log.uintptr
    /\ \A at \in DOMAIN log.index : log.index[at] \in DOMAIN log.warnings
    /\ Len(extracted) <= MaxExtractions

\* The body properties documented for a struct are the fields encoding/json
\* writes, by its rule over all depths at once; of the fields of one best rank,
\* which it writes none of, the first (dropDominatedFields, embeddedFields).
\* Two parameters of one name are left out: the one dropped in an embed no
\* longer hides a body field of the struct around it.  So are embeds that are
\* not read: an untagged one is dropped with a warning, and an unexported one
\* keeps its json name even if it is no struct.
FieldsAsEncoded ==
    Idle => \A e \in Walked :
      LET s == e.root.struct
      IN  \/ Quiet(e.root) \/ Truncated(e.root)
          \/ Uncertain(e.root)
          \/ \E p, q \in ParamLeaves(s) : p # q /\ ParamOf(FieldOf(p)) = ParamOf(FieldOf(q))
          \/ LET body == SelectSeq(e.fields, LAMBDA f : f.param = NoParam /\ f.key # "")
             IN  /\ {body[i].at : i \in DOMAIN body} = Encoded(s)
                 /\ \A i, j \in DOMAIN body : body[i].key = body[j].key => i = j

\* Every parameter go-bricks can bind in a request is documented, and once: a
\* struct's own before one it promotes (dropDuplicateParams).  No json name or
\* body field costs a request its parameter.
ParamsKept ==
    Idle => \A e \in Walked :
      LET params == SelectSeq(e.fields, LAMBDA f : f.param # NoParam)
      IN  \/ Truncated(e.root)
          \/ /\ {params[i].at : i \in DOMAIN params} = Bound(e.root.struct)
             /\ Len(params) = Cardinality(ParamsOf(e.root.struct))

\* go-bricks' binder, by the kinds of a type (binding.go): through pointers a
\* scalar, a string or a time; and, not in a path, a slice of strings.
Binds(f) ==
    \/ ToSet(f.wraps) \subseteq {"pointer"} /\ f.kind \in {"string", "scalar", "time"}
    \/ f.wraps = <<"slice">> /\ f.kind = "string" /\ ParamOf(f).in # "path"

\* No verdict on a type that was not resolved.
Judged(f) ==
    \/ f.kind # "unresolved"
    \/ LET containers == SelectSeq(f.wraps, LAMBDA w : w # "pointer")
       IN  containers # <<>> /\ (f.wraps = <<"slice">> => ParamOf(f).in = "path")

\* What is to be warned of the field at at, by all that was taken so far.
Due(at) ==
    LET f == FieldAt(at)
        request == \E e \in ToSet(extracted) : e.root.request /\ e.root.struct = at[1]
        bindable == IF f.embeds = 0 THEN f.exported ELSE TypeOf(f.embeds).exported /\ ~EmbedsStruct(f)
    IN  CASE request /\ bindable /\ ParamOf(f) # NoParam /\ ~Binds(f) /\ Judged(f) -> {"binding"}
          [] \E e \in Walked : ~Quiet(e.root) /\ at \in Dropped(e.root) -> {"dropped"}
          [] \E e \in Walked : \E k \in KeptOf(e) : k.at = at /\ ~Excluded(k) -> {f.trouble} \ {"none"}
          [] OTHER -> {}

\* Each field raises at most one warning, the one due, whichever route or
\* component reached it first and however often (setBindingWarning,
\* warnDroppedEmbed, markFieldWarning); a truncated chain is reported once.
WarningsExact ==
    Idle =>
      LET of(at) == SelectSeq(log.warnings, LAMBDA w : w.at = at)
      IN  /\ \A t \in DOMAIN project.types : \A i \in DOMAIN TypeOf(t).fields :
               /\ {w.kind : w \in ToSet(of(<<t, i>>))} = Due(<<t, i>>)
               /\ Len(of(<<t, i>>)) <= 1
          /\ Len(of(DepthWarning.at)) = IF \E e \in Walked : Truncated(e.root) THEN 1 ELSE 0
=============================================================================
