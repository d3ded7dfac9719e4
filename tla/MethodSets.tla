----------------------------- MODULE MethodSets -----------------------------
(***************************************************************************)
(* The method sets behind the Marshaler guard (analyzer/marshaler.go): the *)
(* analyzer decides from source whether encoding/json writes a struct      *)
(* through a method of its own.  methodSetOf walks aliases, defined types  *)
(* and embedded fields depth first, cuts a type that is already open, and  *)
(* memoizes what no cut shortened; this module is that recursion with its  *)
(* call stack made explicit, for several calls on one memo.                *)
(*                                                                         *)
(* A project is the table of its named types.  How a field or a method is  *)
(* spelt, and in which file of a package it stands, is left out.           *)
(***************************************************************************)
EXTENDS Naturals, Sequences, FiniteSets

CONSTANTS
    Method,     \* those of the seven methods the projects speak of
    Dir,        \* package directories
    Projects,   \* the type tables to look at
    MaxAsks     \* bound: structs asked about in one run

Encoders == {"MarshalJSON", "MarshalJSONTo", "MarshalText", "AppendText"}
Decoders == {"UnmarshalJSON", "UnmarshalJSONFrom", "UnmarshalText"}
JSONSpecific == {"MarshalJSON", "MarshalJSONTo", "UnmarshalJSON", "UnmarshalJSONFrom"}

\* A method declaration: has it the interface's signature, a pointer receiver?
Decl == [exact : BOOLEAN, ptr : BOOLEAN]
Embed == [to : Nat, ptr : BOOLEAN]

\* A named type.  "known" is one of another module, read from the table of
\* well-known method sets; "other" is neither a struct nor another type's name.
NamedType ==
    [kind : {"struct", "alias", "defined", "other", "known"}, dir : Dir, to : Nat,
     embeds : Seq(Embed), fields : SUBSET Method, declared : [Method -> SUBSET Decl]]

ASSUME MethodAssumption == Method \subseteq Encoders \cup Decoders
ASSUME ProjectsAssumption ==
    \A p \in Projects :
      /\ p \in Seq(NamedType)
      /\ \A t \in DOMAIN p :
           /\ p[t].kind \in {"alias", "defined"} => p[t].to \in DOMAIN p
           /\ \A i \in DOMAIN p[t].embeds : p[t].embeds[i].to \in DOMAIN p
\* Only a struct has fields, and their names differ, so it embeds no type twice.
\* A method has its type as receiver, not an alias of it.
ASSUME TypesAssumption ==
    \A p \in Projects : \A t \in DOMAIN p :
      /\ p[t].kind # "struct" => p[t].embeds = <<>> /\ p[t].fields = {}
      /\ \A i, j \in DOMAIN p[t].embeds : p[t].embeds[i].to = p[t].embeds[j].to => i = j
      /\ p[t].kind = "alias" => \A m \in Method : p[t].declared[m] = {}
ASSUME MaxAsksAssumption == MaxAsks \in Nat

VARIABLES
    project,  \* the types of the module
    memo,     \* methodSetMemo
    cuts,     \* methodSetCuts
    walks,    \* methodSetWalks
    stack,    \* the calls of methodSetOf in progress, innermost last
    asked,    \* <<>>, or the one call structMarshalerLeaf is waiting for
    answers   \* what structMarshalerLeaf has got, in order

vars == <<project, memo, cuts, walks, stack, asked, answers>>

Types == DOMAIN project

\* The types a chain of declarations of the given kinds leads through from t.
Chain(t, kinds) ==
    IF project[t].kind \notin kinds THEN {t}
    ELSE {u \in Types : \A S \in SUBSET Types :
            (t \in S /\ \A v \in S : project[v].kind \in kinds => project[v].to \in S)
              => u \in S}

\* resolveTypeSpecChain: the type that ends t's chain of aliases and defined
\* types, if it ends.
EndOfChain(t) ==
    {u \in Chain(t, {"alias", "defined"}) : project[u].kind \notin {"alias", "defined"}}
Structs == {t \in Types : \E u \in EndOfChain(t) : project[u].kind = "struct"}

Top == stack[Len(stack)]

-----------------------------------------------------------------------------
(* Method sets. *)

\* Where a depth-0 method is declared, as a warning from package home shows it.
Owner(t, home) == [type |-> t, bare |-> project[t].dir = home]
NoOwner == [type |-> 0, bare |-> FALSE]

\* methodEntry{}: a field named like a method.
Zero == [depth |-> 0, exact |-> FALSE, ambiguous |-> FALSE, ptrOnly |-> FALSE,
         owner |-> NoOwner, via |-> 0]
EmptySet == [m \in {} |-> Zero]

\* methodSet.over: a shallower name shadows a deeper one.
Over(ms, deeper) ==
    [m \in DOMAIN ms \cup DOMAIN deeper |-> IF m \in DOMAIN ms THEN ms[m] ELSE deeper[m]]

\* declaredMethods, and qualifiedMethodSet's reading of a well-known type.
Declared(t, home) ==
    [m \in {m \in Method : project[t].declared[m] # {}} |->
       [Zero EXCEPT !.exact = \E d \in project[t].declared[m] : d.exact,
                    !.ptrOnly = \E d \in project[t].declared[m] : d.ptr,
                    !.owner = Owner(t, home)]]

\* Those of t itself, which a type defined as t does not have.
Own(t, keep, home) == IF keep THEN Declared(t, home) ELSE EmptySet

\* An entry of an embedded field's set, as the struct promotes it: by a pointer
\* embed the target's pointer methods are in the struct's value method set.
Lifted(e, embed) ==
    [e EXCEPT !.depth = @ + 1, !.ptrOnly = @ /\ ~embed.ptr,
              !.owner = NoOwner, !.via = embed.to]

\* For the mutation runs: a tie keeps the rest of the entry.
TiedStill(e) == [e EXCEPT !.depth = @ + 1, !.ambiguous = TRUE]

\* Two embeds provide the name at one depth: it is in no method set.
Tied(e) == [Zero EXCEPT !.depth = e.depth + 1, !.ambiguous = TRUE]

\* promote: each name from the one embed that provides it at the least depth;
\* sets[i] is the method set of the i-th embed of embeds.
Providers(sets, m) == {i \in DOMAIN sets : m \in DOMAIN sets[i]}
Shallowest(sets, m) ==
    {i \in Providers(sets, m) :
       \A j \in Providers(sets, m) : sets[i][m].depth <= sets[j][m].depth}
Promoter(sets, m) == CHOOSE i \in Shallowest(sets, m) : TRUE

Promote(embeds, sets) ==
    [m \in UNION {DOMAIN sets[i] : i \in DOMAIN sets} |->
       LET i == Promoter(sets, m)
       IN  IF \E j \in Shallowest(sets, m) : j # i THEN Tied(sets[i][m])
           ELSE Lifted(sets[i][m], embeds[i])]

\* promotedMethods: a field named like a method stands at the struct's depth.
Promoted(t, sets) ==
    Over([m \in project[t].fields |-> Zero], Promote(project[t].embeds, sets))

\* methodSet.marshaler: the methods encoding/json finds, and those of them
\* that are not in the value method set.
Has(ms) == {m \in DOMAIN ms : ms[m].exact /\ ~ms[m].ambiguous}
PtrText(ms) == "MarshalText" \in Has(ms) /\ ms["MarshalText"].ptrOnly

\* For the mutation runs: a pointer's MarshalText counts.
TextInSomePosition(ms) ==
    /\ {"MarshalText", "UnmarshalText"} \subseteq Has(ms)
    /\ Has(ms) \cap JSONSpecific = {}

\* marshalerMethods.textBothWays: a string on every toolchain, in every position.
TextBothWays(ms) ==
    /\ {"MarshalText", "UnmarshalText"} \subseteq Has(ms)
    /\ Has(ms) \cap JSONSpecific = {}
    /\ ~PtrText(ms)

\* methodSetLeaf: what the struct is documented as.
Leaf(ms) ==
    IF Has(ms) = {} THEN "ref" ELSE IF TextBothWays(ms) THEN "text" ELSE "marshaler"

-----------------------------------------------------------------------------
(* The recursion. *)

Call(t, keep) == [type |-> t, keep |-> keep]

\* The calls a frame makes, in order: rhsMethodSet and embedMethodSet.
Callees(f) ==
    LET t == project[f.type]
    IN  CASE t.kind = "struct" -> [i \in DOMAIN t.embeds |-> Call(t.embeds[i].to, TRUE)]
          [] t.kind = "alias" -> <<Call(t.to, f.keep)>>
          [] t.kind = "defined" -> <<Call(t.to, FALSE)>>
          [] OTHER -> <<>>

Pending == stack # <<>> /\ Len(Top.got) < Len(Callees(Top))
Calling == asked # <<>> /\ (stack = <<>> \/ Pending)
NextCall ==
    IF stack = <<>> THEN Call(asked[1].type, TRUE) ELSE Callees(Top)[Len(Top.got) + 1]

Home == asked[1].home

\* For the mutation runs: only the innermost call is open.
OpenInnermost == {stack[i].type : i \in DOMAIN stack \cap {Len(stack)}}

\* The types being walked, and the key of a call's set in the memo; for the
\* mutation runs, the key leaves out where the set is displayed from.
Open == {stack[i].type : i \in DOMAIN stack}
KeyAnywhere(c) == [home |-> project[c.type].dir, type |-> c.type, keep |-> c.keep]
Key(c) == [home |-> Home, type |-> c.type, keep |-> c.keep]

\* computeMethodSet, once every call it makes has returned.
Computed(f) ==
    Over(Own(f.type, f.keep, Home),
         CASE project[f.type].kind = "struct" -> Promoted(f.type, f.got)
           [] project[f.type].kind \in {"alias", "defined"} -> f.got[1]
           [] OTHER -> EmptySet)

\* ms is returned to the calls in outer, or answers structMarshalerLeaf.
Deliver(ms, outer) ==
    IF outer = <<>>
    THEN /\ answers' = Append(answers, [type |-> asked[1].type, home |-> Home,
                                        set |-> ms, leaf |-> Leaf(ms)])
         /\ asked' = <<>> /\ stack' = <<>>
    ELSE /\ stack' = [outer EXCEPT ![Len(outer)].got = Append(@, ms)]
         /\ UNCHANGED <<answers, asked>>

\* structMarshalerLeaf asks, in identity mode, about a type that a field in
\* the package home names.
Ask ==
    /\ asked = <<>> /\ Len(answers) < MaxAsks
    /\ \E t, u \in Structs : asked' = <<[type |-> t, home |-> project[u].dir]>>
    /\ UNCHANGED <<project, memo, cuts, walks, stack, answers>>

\* A type of another module is not walked.
ReadKnown ==
    /\ Calling /\ project[NextCall.type].kind = "known"
    /\ Deliver(Own(NextCall.type, NextCall.keep, Home), stack)
    /\ UNCHANGED <<project, memo, cuts, walks>>

Cut ==
    /\ Calling /\ NextCall.type \in Open
    /\ cuts' = cuts + 1
    /\ Deliver(EmptySet, stack)
    /\ UNCHANGED <<project, memo, walks>>

Recall ==
    /\ Calling /\ NextCall.type \notin Open /\ Key(NextCall) \in DOMAIN memo
    /\ Deliver(memo[Key(NextCall)], stack)
    /\ UNCHANGED <<project, memo, cuts, walks>>

Walk ==
    /\ Calling /\ project[NextCall.type].kind # "known"
    /\ NextCall.type \notin Open /\ Key(NextCall) \notin DOMAIN memo
    /\ stack' = Append(stack, [type |-> NextCall.type, keep |-> NextCall.keep,
                               cuts |-> cuts, got |-> <<>>])
    /\ walks' = walks + 1
    /\ UNCHANGED <<project, memo, cuts, asked, answers>>

\* For the mutation runs: every set is remembered, or the asked type's only.
UncutAlways(f) == TRUE
UncutOutermost(f) == cuts = f.cuts /\ Len(stack) = 1

\* No cut shortened what the call of f computed.
Uncut(f) == cuts = f.cuts

Memoize(f, ms) ==
    IF Uncut(f)
    THEN memo' = [k \in DOMAIN memo \cup {Key(f)} |-> IF k = Key(f) THEN ms ELSE memo[k]]
    ELSE UNCHANGED memo

Return ==
    /\ stack # <<>> /\ ~Pending
    /\ Memoize(Top, Computed(Top))
    /\ Deliver(Computed(Top), SubSeq(stack, 1, Len(stack) - 1))
    /\ UNCHANGED <<project, cuts, walks>>

Done == asked = <<>> /\ Len(answers) = MaxAsks /\ UNCHANGED vars

Init ==
    /\ project \in Projects
    /\ memo = [k \in {} |-> EmptySet] /\ cuts = 0 /\ walks = 0
    /\ stack = <<>> /\ asked = <<>> /\ answers = <<>>

Next == Ask \/ ReadKnown \/ Cut \/ Recall \/ Walk \/ Return \/ Done

Spec == Init /\ [][Next]_vars

-----------------------------------------------------------------------------
(* What Go's selector rules say of a type, with no walk and no memo: a     *)
(* selector names the method or field of that name at the least depth, if  *)
(* there is one only, depth being the number of embeddings on the way.     *)

\* The alias names of one type.
Aliases(t) == Chain(t, {"alias"})

EmbedsOf(t) ==
    UNION {{project[u].embeds[i] : i \in DOMAIN project[u].embeds} : u \in EndOfChain(t)}

\* The ways down from t by n embeddings.
WaysDown[n \in Nat] ==
    [t \in Types |->
       IF n = 0 THEN {<<>>}
       ELSE UNION {{<<e>> \o w : w \in WaysDown[n - 1][e.to]} : e \in EmbedsOf(t)}]
PathsFrom(t) == UNION {WaysDown[n][t] : n \in 0..Len(project)}
EndOf(t, w) == IF w = <<>> THEN t ELSE w[Len(w)].to

Declarers(t, m) == {u \in Aliases(t) : project[u].declared[m] # {}}
Provides(t, keep, m) ==
    \/ \E u \in EndOfChain(t) : m \in project[u].fields
    \/ keep /\ Declarers(t, m) # {}

\* Of some paths down from t, those that lead to an m, and the shortest of
\* them; the declared methods of t itself count when keep.
WaysTo(paths, t, keep, m) == {w \in paths : Provides(EndOf(t, w), keep \/ w # <<>>, m)}
Nearest(paths, t, keep, m) ==
    {w \in WaysTo(paths, t, keep, m) :
       \A v \in WaysTo(paths, t, keep, m) : Len(w) <= Len(v)}

\* The type that declares the m at the end of w, its declarations, and the
\* entry they make.
DeclarerAt(w, t, m) == CHOOSE u \in Declarers(EndOf(t, w), m) : TRUE
DeclsAt(w, t, keep, m) ==
    IF Declarers(EndOf(t, w), m) = {} \/ (w = <<>> /\ ~keep) THEN {}
    ELSE project[DeclarerAt(w, t, m)].declared[m]
FoundAt(w, t, keep, home, m) ==
    LET decls == DeclsAt(w, t, keep, m)
    IN  [Zero EXCEPT !.depth = Len(w),
                     !.exact = \E d \in decls : d.exact,
                     !.ptrOnly = (\E d \in decls : d.ptr) /\ \A i \in DOMAIN w : ~w[i].ptr,
                     !.owner = IF w = <<>> /\ decls # {} THEN Owner(DeclarerAt(w, t, m), home)
                               ELSE NoOwner,
                     !.via = IF w = <<>> THEN 0 ELSE w[1].to]

\* No m is selected where several are nearest.
ClashAt(nearest, w) ==
    [Zero EXCEPT !.depth = Len(w), !.ambiguous = TRUE,
                 !.via = IF \A v \in nearest : v[1] = w[1] THEN w[1].to ELSE 0]

\* The m selected on t where those are the nearest paths to one.
FoundAmong(nearest, t, keep, home, m) ==
    LET w == CHOOSE w \in nearest : TRUE
    IN  IF \E v \in nearest : v # w THEN ClashAt(nearest, w)
        ELSE FoundAt(w, t, keep, home, m)

\* What each m selects on t, seen from home.
Selected(t, keep, home) ==
    [m \in {m \in Method : WaysTo(PathsFrom(t), t, keep, m) # {}} |->
       FoundAmong(Nearest(PathsFrom(t), t, keep, m), t, keep, home, m)]

-----------------------------------------------------------------------------
\* An ambiguous entry is in no method set: it only hides deeper ones.
Entry ==
    {e \in [depth : Nat, exact : BOOLEAN, ambiguous : BOOLEAN, ptrOnly : BOOLEAN,
            owner : [type : Nat, bare : BOOLEAN], via : Nat] :
       e.ambiguous => ~e.exact /\ ~e.ptrOnly /\ e.owner = NoOwner}
IsSet(ms) == \E S \in SUBSET Method : ms \in [S -> Entry]

\* Types of the walk: every set holds entries of the seven names, none both
\* ambiguous and a method's, and a frame has no more results than it makes
\* calls (methodSetOf, promote).
TypeOK ==
    /\ cuts \in Nat /\ walks \in Nat
    /\ \A k \in DOMAIN memo : IsSet(memo[k])
    /\ \A i \in DOMAIN stack :
         /\ stack[i].type \in Types /\ stack[i].keep \in BOOLEAN
         /\ stack[i].cuts <= cuts
         /\ Len(stack[i].got) <= Len(Callees(stack[i]))
         /\ \A j \in DOMAIN stack[i].got : IsSet(stack[i].got[j])
    /\ \A i \in DOMAIN answers : IsSet(answers[i].set)
    /\ stack # <<>> => asked # <<>>

\* The walk has no depth cap; the open types alone bound it, whatever cycles
\* the embeddings make (methodSetOf: "open bounds the walk").
WalkBounded == Len(stack) <= Len(project)

\* While no cycle was cut, every type is walked once for each home and keep,
\* however many embeddings lead to it (methodSetOf: "a diamond of embeds is
\* walked once per type, not once per path").
WalkedOnce == cuts = 0 => walks = Cardinality(DOMAIN memo) + Len(stack)

\* A memoized set is what Go's rules give the type, whatever calls were open
\* around the one that stored it (methodSetOf: "a set computed without a
\* cycle cut does not depend on the path to it").
MemoExact ==
    asked = <<>> => \A k \in DOMAIN memo :
      memo[k] = Selected(k.type, k.keep, k.home)

\* Every answer is what Go's rules give the struct, cut cycles and recalled
\* sets included (methodSetOf: a type met again "adds nothing, which is exact").
SetsMatchSelectorRules ==
    asked = <<>> => \A i \in DOMAIN answers :
      answers[i].set = Selected(answers[i].type, TRUE, answers[i].home)

\* A struct stays a reference only if encoding/json uses no method of it, and
\* is a string only if it is one both ways in every position: MarshalText is
\* in its value method set, UnmarshalText in its pointer's, and no
\* JSON-specific method in either (marshalerMethods.textBothWays).
LeavesMatchEncoding ==
    asked = <<>> => \A i \in DOMAIN answers :
      LET sel == Selected(answers[i].type, TRUE, answers[i].home)
          ptrSet == {m \in DOMAIN sel : sel[m].exact}
          valueSet == {m \in ptrSet : ~sel[m].ptrOnly}
      IN  /\ answers[i].leaf = "ref" <=> ptrSet = {}
          /\ answers[i].leaf = "text" <=>
               /\ "MarshalText" \in valueSet /\ "UnmarshalText" \in ptrSet
               /\ ptrSet \cap JSONSpecific = {}
=============================================================================
