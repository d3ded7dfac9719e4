-------------------------- MODULE MethodSetsProofs --------------------------
(***************************************************************************)
(* Proofs about MethodSets, for every project, however its types embed one *)
(* another: the walk is bounded by the types alone, and without a cycle it *)
(* walks a type once.                                                      *)
(*                                                                         *)
(* What makes both inductive is that a type is open once (OpenOnce) and    *)
(* that no open call is memoized (OpenNotMemoized): a call that returns    *)
(* turns one frame into one new memo entry.                                *)
(*                                                                         *)
(* Every struct is documented by the set it was answered (AnsweredByLeaf), *)
(* so the leaves are right wherever the sets are.                          *)
(*                                                                         *)
(* What the memo holds is right (MInv): a call that met no cut has got     *)
(* exact sets, for types whose embeds lead into no cycle (Founded), and    *)
(* from exact sets it computes its own (ComputedRight): each way down a    *)
(* type is an embed and a way down from there (PathsJoin), and a nearest   *)
(* way to a name is a nearest one below the embed it starts with.          *)
(***************************************************************************)
EXTENDS MethodSets, FiniteSetTheorems, SequenceTheorems, WellFoundedInduction,
        TLAPS

MethodSet == UNION {[S -> Entry] : S \in SUBSET Method}
Frame == [type : Types, keep : BOOLEAN, cuts : Nat, got : Seq(MethodSet)]
MemoKey == [home : Dir, type : Types, keep : BOOLEAN]
Question == [type : Types, home : Dir]

StateTyped ==
    /\ project \in Projects
    /\ cuts \in Nat /\ walks \in Nat
    /\ memo \in UNION {[K -> MethodSet] : K \in SUBSET MemoKey}
    /\ IsFiniteSet(DOMAIN memo)
    /\ stack \in Seq(Frame)
    /\ asked \in Seq(Question) /\ Len(asked) \in {0, 1}
    /\ answers \in Seq([type : Types, home : Dir, set : MethodSet,
                        leaf : {"ref", "text", "marshaler"}])
    /\ stack # <<>> => asked # <<>>

\* A frame knows no more cuts than there are, and has no more results than it
\* makes calls; all but the innermost wait for one.
FramesSane ==
    \A i \in DOMAIN stack :
        /\ stack[i].cuts <= cuts
        /\ Len(stack[i].got) <= Len(Callees(stack[i]))
        /\ i < Len(stack) => Len(stack[i].got) < Len(Callees(stack[i]))

OpenOnce == \A i, j \in DOMAIN stack : stack[i].type = stack[j].type => i = j

OpenNotMemoized == \A i \in DOMAIN stack : Key(stack[i]) \notin DOMAIN memo

IInv == StateTyped /\ FramesSane /\ OpenOnce /\ OpenNotMemoized /\ WalkedOnce

-----------------------------------------------------------------------------
(* Method sets. *)

LEMMA SetPredicate == \A ms : ms \in MethodSet <=> IsSet(ms)
BY DEF MethodSet, IsSet

LEMMA SetShape ==
    ASSUME NEW ms \in MethodSet
    PROVE  /\ DOMAIN ms \subseteq Method
           /\ ms = [m \in DOMAIN ms |-> ms[m]]
           /\ \A m \in DOMAIN ms : ms[m] \in Entry
BY DEF MethodSet

LEMMA ZeroEntry == Zero \in Entry
BY DEF Zero, NoOwner, Entry

LEMMA EmptyIsSet == EmptySet \in MethodSet
<1>1. EmptySet \in [{} -> Entry]
  BY DEF EmptySet
<1> QED BY <1>1 DEF MethodSet

\* over yields a method set.
LEMMA OverIsSet ==
    ASSUME NEW ms \in MethodSet, NEW deeper \in MethodSet
    PROVE  Over(ms, deeper) \in MethodSet
<1>1. DOMAIN ms \cup DOMAIN deeper \in SUBSET Method
  BY SetShape
<1>2. Over(ms, deeper) \in [DOMAIN ms \cup DOMAIN deeper -> Entry]
  BY SetShape DEF Over
<1> QED BY <1>1, <1>2 DEF MethodSet

\* A project's types are well formed.
LEMMA TypeShape ==
    ASSUME project \in Projects, NEW t \in Types
    PROVE  /\ t \in Nat /\ project[t] \in NamedType
           /\ project[t].kind \in {"alias", "defined"} => project[t].to \in Types
           /\ \A i \in DOMAIN project[t].embeds : project[t].embeds[i].to \in Types
<1>1. project \in Seq(NamedType)
  BY ProjectsAssumption
<1> QED BY <1>1, ProjectsAssumption DEF Types

\* declaredMethods yields a method set.
LEMMA DeclaredIsSet ==
    ASSUME project \in Projects, NEW t \in Types, NEW home
    PROVE  Declared(t, home) \in MethodSet
<1> DEFINE S == {m \in Method : project[t].declared[m] # {}}
<1>1. Declared(t, home) \in [S -> Entry]
  <2> SUFFICES ASSUME NEW m \in S
               PROVE  [Zero EXCEPT !.exact = \E d \in project[t].declared[m] : d.exact,
                                   !.ptrOnly = \E d \in project[t].declared[m] : d.ptr,
                                   !.owner = Owner(t, home)] \in Entry
    BY DEF Declared
  <2>1. Owner(t, home) \in [type : Nat, bare : BOOLEAN]
    BY TypeShape DEF Owner
  <2>2. /\ (\E d \in project[t].declared[m] : d.exact) \in BOOLEAN
        /\ (\E d \in project[t].declared[m] : d.ptr) \in BOOLEAN
    OBVIOUS
  <2> QED BY <2>1, <2>2 DEF Zero, NoOwner, Entry
<1> QED BY <1>1 DEF MethodSet

\* A set of depths has a least one.
LEMMA SmallestExists ==
    ASSUME NEW S, S # {}, S \subseteq Nat
    PROVE  \E d \in S : \A e \in S : d <= e
<1>1. PICK d \in S : \A e \in S : ~(<<e, d>> \in OpToRel(<, Nat))
  BY NatLessThanWellFounded, WFMin
<1>2. ASSUME NEW e \in S, ~(d <= e) PROVE FALSE
  <2>1. e \in Nat /\ d \in Nat /\ e < d
    BY <1>2
  <2>2. <<e, d>> \in OpToRel(<, Nat)
    BY <2>1 DEF OpToRel
  <2> QED BY <1>1, <2>2
<1> QED BY <1>2

\* A name some embed provides has a shallowest provider.
LEMMA PromoterShape ==
    ASSUME NEW sets \in Seq(MethodSet), NEW m,
           \E i \in DOMAIN sets : m \in DOMAIN sets[i]
    PROVE  /\ Promoter(sets, m) \in DOMAIN sets
           /\ m \in DOMAIN sets[Promoter(sets, m)]
<1>1. \A i \in Providers(sets, m) : sets[i][m].depth \in Nat
  <2> TAKE i \in Providers(sets, m)
  <2>1. sets[i] \in MethodSet /\ m \in DOMAIN sets[i]
    BY DEF Providers
  <2>2. sets[i][m] \in Entry
    BY <2>1, SetShape
  <2> QED BY <2>2 DEF Entry
<1>2. Providers(sets, m) # {}
  BY DEF Providers
<1> DEFINE depths == {sets[i][m].depth : i \in Providers(sets, m)}
<1>3. \E d \in depths : \A e \in depths : d <= e
  <2>1. depths \subseteq Nat /\ depths # {}
    BY <1>1, <1>2
  <2> HIDE DEF depths
  <2> QED BY <2>1, SmallestExists
<1>4. \E i \in Providers(sets, m) :
        \A j \in Providers(sets, m) : sets[i][m].depth <= sets[j][m].depth
  BY <1>3
<1>5. Shallowest(sets, m) # {}
  BY <1>4 DEF Shallowest
<1>6. Promoter(sets, m) \in Providers(sets, m)
  BY <1>5 DEF Promoter, Shallowest
<1> QED BY <1>6 DEF Providers

\* A promoted entry is one.
LEMMA LiftedEntry ==
    ASSUME NEW e \in Entry, NEW embed \in Embed
    PROVE  Lifted(e, embed) \in Entry /\ Tied(e) \in Entry
<1>1. e.depth + 1 \in Nat
  BY DEF Entry
<1>2. Tied(e) \in Entry
  BY <1>1 DEF Tied, Zero, NoOwner, Entry
<1>3. Lifted(e, embed) \in Entry
  <2>1. /\ (e.ptrOnly /\ ~embed.ptr) \in BOOLEAN
        /\ e.ambiguous => ~e.exact /\ ~(e.ptrOnly /\ ~embed.ptr)
    BY DEF Entry
  <2>2. embed.to \in Nat /\ NoOwner \in [type : Nat, bare : BOOLEAN]
    BY DEF Embed, NoOwner
  <2> DEFINE b == e.ptrOnly /\ ~embed.ptr
  <2>3. Lifted(e, embed) = [e EXCEPT !.depth = e.depth + 1, !.ptrOnly = b,
                                     !.owner = NoOwner, !.via = embed.to]
    BY DEF Lifted
  <2> HIDE DEF b
  <2> QED BY <1>1, <2>1, <2>2, <2>3 DEF Entry, b
<1> QED BY <1>2, <1>3

\* promote yields a method set.
LEMMA PromoteIsSet ==
    ASSUME NEW embeds \in Seq(Embed), NEW sets \in Seq(MethodSet),
           Len(sets) <= Len(embeds)
    PROVE  Promote(embeds, sets) \in MethodSet
<1> DEFINE names == UNION {DOMAIN sets[i] : i \in DOMAIN sets}
           entry(m) ==
             IF \E j \in Shallowest(sets, m) : j # Promoter(sets, m) THEN Tied(sets[Promoter(sets, m)][m])
             ELSE Lifted(sets[Promoter(sets, m)][m], embeds[Promoter(sets, m)])
<1>1. \A i \in DOMAIN sets : sets[i] \in MethodSet /\ embeds[i] \in Embed
  OBVIOUS
<1>2. names \in SUBSET Method
  BY <1>1, SetShape
<1>3. ASSUME NEW m \in names PROVE entry(m) \in Entry
  <2>1. Promoter(sets, m) \in DOMAIN sets /\ m \in DOMAIN sets[Promoter(sets, m)]
    BY PromoterShape
  <2>2. sets[Promoter(sets, m)][m] \in Entry /\ embeds[Promoter(sets, m)] \in Embed
    BY <1>1, <2>1, SetShape
  <2> QED BY <2>2, LiftedEntry
<1>4. Promote(embeds, sets) = [m \in names |-> entry(m)]
  BY DEF Promote
<1> HIDE DEF names, entry
<1>5. [m \in names |-> entry(m)] \in [names -> Entry]
  BY <1>3
<1> QED BY <1>2, <1>4, <1>5 DEF MethodSet

\* promotedMethods yields a method set.
LEMMA PromotedIsSet ==
    ASSUME project \in Projects, NEW t \in Types, NEW sets \in Seq(MethodSet),
           Len(sets) <= Len(project[t].embeds)
    PROVE  Promoted(t, sets) \in MethodSet
<1>1. project[t].embeds \in Seq(Embed) /\ project[t].fields \in SUBSET Method
  BY TypeShape DEF NamedType
<1>2. [m \in project[t].fields |-> Zero] \in [project[t].fields -> Entry]
  BY ZeroEntry
<1>3. [m \in project[t].fields |-> Zero] \in MethodSet
  BY <1>1, <1>2 DEF MethodSet
<1>4. Promote(project[t].embeds, sets) \in MethodSet
  BY <1>1, PromoteIsSet
<1> QED BY <1>3, <1>4, OverIsSet DEF Promoted

-----------------------------------------------------------------------------
(* Calls. *)

\* The calls of a frame are about types of the project.
LEMMA CalleesShape ==
    ASSUME project \in Projects, NEW f \in Frame
    PROVE  /\ Callees(f) \in Seq([type : Types, keep : BOOLEAN])
           /\ project[f.type].kind = "struct" =>
                Len(Callees(f)) = Len(project[f.type].embeds)
           /\ project[f.type].kind \in {"alias", "defined"} => Len(Callees(f)) = 1
<1>1. /\ f.type \in Types /\ f.keep \in BOOLEAN
      /\ project[f.type].embeds \in Seq(Embed)
  BY TypeShape DEF Frame, NamedType
<1> DEFINE t == project[f.type]
           n == Len(t.embeds)
           calls == [i \in DOMAIN t.embeds |-> Call(t.embeds[i].to, TRUE)]
<1>2. \A i \in DOMAIN t.embeds : Call(t.embeds[i].to, TRUE) \in [type : Types, keep : BOOLEAN]
  BY <1>1, TypeShape DEF Call
<1>3. n \in Nat /\ DOMAIN t.embeds = 1..n
  BY <1>1
<1>4. calls \in [1..n -> [type : Types, keep : BOOLEAN]]
  BY <1>2, <1>3
<1>5. calls \in Seq([type : Types, keep : BOOLEAN]) /\ Len(calls) = n
  <2> HIDE DEF calls, n
  <2>1. DOMAIN calls = 1..n
    BY <1>4
  <2>2. calls \in Seq([type : Types, keep : BOOLEAN])
    BY <1>3, <1>4, SeqDef
  <2> QED BY <1>3, <2>1, <2>2
<1>6. CASE t.kind = "struct"
  BY <1>5, <1>6 DEF Callees
<1>7. CASE t.kind \in {"alias", "defined"}
  <2>1. t.to \in Types
    BY <1>1, <1>7, TypeShape
  <2>2. Call(t.to, f.keep) \in [type : Types, keep : BOOLEAN]
        /\ Call(t.to, FALSE) \in [type : Types, keep : BOOLEAN]
    BY <1>1, <2>1 DEF Call
  <2>3. Callees(f) = <<Call(t.to, f.keep)>> \/ Callees(f) = <<Call(t.to, FALSE)>>
    BY <1>7 DEF Callees
  <2>4. t.kind # "struct"
    BY <1>7
  <2>5. ASSUME NEW c \in [type : Types, keep : BOOLEAN]
        PROVE  <<c>> \in Seq([type : Types, keep : BOOLEAN]) /\ Len(<<c>>) = 1
    OBVIOUS
  <2> QED BY <2>2, <2>3, <2>4, <2>5
<1>8. CASE t.kind \notin {"struct", "alias", "defined"}
  BY <1>8 DEF Callees
<1> QED BY <1>6, <1>7, <1>8

\* What is called next is about a type of the project.
LEMMA NextCallShape ==
    ASSUME StateTyped, Calling
    PROVE  NextCall \in [type : Types, keep : BOOLEAN] /\ Home \in Dir
<1>1. asked[1] \in Question
  BY DEF StateTyped, Calling
<1>2. CASE stack = <<>>
  BY <1>1, <1>2 DEF NextCall, Call, Question, Home
<1>3. CASE stack # <<>>
  <2>1. Top \in Frame
    BY <1>3 DEF StateTyped, Top
  <2>2. Callees(Top) \in Seq([type : Types, keep : BOOLEAN])
    BY <2>1, CalleesShape DEF StateTyped
  <2>3. Len(Top.got) \in Nat /\ Len(Top.got) < Len(Callees(Top))
    BY <1>3, <2>1 DEF Calling, Pending, Frame
  <2>4. Len(Top.got) + 1 \in 1..Len(Callees(Top))
    BY <2>2, <2>3
  <2>5. Callees(Top)[Len(Top.got) + 1] \in [type : Types, keep : BOOLEAN]
    BY <2>2, <2>4, ElementOfSeq
  <2> QED BY <1>1, <1>3, <2>5 DEF NextCall, Question, Home
<1> QED BY <1>2, <1>3

\* A frame all of whose calls have returned computes a method set.
LEMMA ComputedIsSet ==
    ASSUME project \in Projects, NEW f \in Frame, Len(f.got) = Len(Callees(f))
    PROVE  Computed(f) \in MethodSet
<1>1. f.type \in Types /\ f.got \in Seq(MethodSet)
  BY DEF Frame
<1>2. Own(f.type, f.keep, Home) \in MethodSet
  BY <1>1, DeclaredIsSet, EmptyIsSet DEF Own
<1> DEFINE kind == project[f.type].kind
           rhs == CASE kind = "struct" -> Promoted(f.type, f.got)
                    [] kind \in {"alias", "defined"} -> f.got[1]
                    [] OTHER -> EmptySet
<1>3. rhs \in MethodSet
  <2>1. CASE kind = "struct"
    <3>1. Len(f.got) <= Len(project[f.type].embeds)
      BY <1>1, <2>1, CalleesShape
    <3> QED BY <1>1, <2>1, <3>1, PromotedIsSet
  <2>2. CASE kind \in {"alias", "defined"}
    BY <1>1, <2>2, CalleesShape
  <2>3. CASE kind \notin {"struct", "alias", "defined"}
    BY <2>3, EmptyIsSet
  <2> QED BY <2>1, <2>2, <2>3
<1> HIDE DEF rhs
<1>4. Computed(f) = Over(Own(f.type, f.keep, Home), rhs)
  BY DEF Computed, rhs
<1> QED BY <1>2, <1>3, <1>4, OverIsSet

-----------------------------------------------------------------------------
(* The inductive invariant. *)

LEMMA InitIInv == Init => IInv
<1> SUFFICES ASSUME Init PROVE IInv
  OBVIOUS
<1>1. memo \in [{} -> MethodSet] /\ DOMAIN memo = {}
  BY EmptyIsSet DEF Init
<1>2. StateTyped
  BY <1>1, FS_EmptySet DEF Init, StateTyped
<1>3. FramesSane /\ OpenOnce /\ OpenNotMemoized
  BY DEF Init, FramesSane, OpenOnce, OpenNotMemoized
<1>4. WalkedOnce
  BY <1>1, FS_EmptySet DEF Init, WalkedOnce
<1> QED BY <1>2, <1>3, <1>4 DEF IInv

\* A set returned to the calls of outer, a suffix of the stack removed, keeps
\* them as they are but for one more result of the innermost.
LEMMA DeliverShape ==
    ASSUME IInv, asked # <<>>, NEW ms \in MethodSet, NEW outer \in Seq(Frame),
           Len(outer) <= Len(stack), \A i \in DOMAIN outer : outer[i] = stack[i],
           outer # <<>> => Len(outer[Len(outer)].got) < Len(Callees(outer[Len(outer)])),
           Deliver(ms, outer), UNCHANGED project
    PROVE  /\ stack' \in Seq(Frame) /\ Len(stack') = Len(outer)
           /\ \A i \in DOMAIN outer : /\ stack'[i].type = stack[i].type
                                      /\ stack'[i].keep = stack[i].keep
                                      /\ stack'[i].cuts = stack[i].cuts
                                      /\ Len(stack'[i].got) <= Len(Callees(stack'[i]))
           /\ \A i \in DOMAIN outer : i < Len(outer) => stack'[i] = stack[i]
           /\ outer # <<>> => asked' = asked
           /\ asked' \in Seq(Question) /\ Len(asked') \in {0, 1}
           /\ answers' \in Seq([type : Types, home : Dir, set : MethodSet,
                                leaf : {"ref", "text", "marshaler"}])
           /\ stack' # <<>> => asked' # <<>>
<1> USE DEF IInv
<1>1. CASE outer = <<>>
  <2>1. asked[1] \in Question
    BY DEF StateTyped
  <2>2. Leaf(ms) \in {"ref", "text", "marshaler"}
    BY DEF Leaf
  <2>3. [type |-> asked[1].type, home |-> Home, set |-> ms, leaf |-> Leaf(ms)]
          \in [type : Types, home : Dir, set : MethodSet, leaf : {"ref", "text", "marshaler"}]
    BY <2>1, <2>2 DEF Question, Home
  <2> DEFINE Answer == [type : Types, home : Dir, set : MethodSet,
                        leaf : {"ref", "text", "marshaler"}]
             answer == [type |-> asked[1].type, home |-> Home, set |-> ms, leaf |-> Leaf(ms)]
  <2>4. answers' = Append(answers, answer) /\ asked' = <<>> /\ stack' = <<>>
    BY <1>1 DEF Deliver
  <2>5. answers' \in Seq(Answer)
    <3>1. answers \in Seq(Answer)
      BY DEF StateTyped
    <3> HIDE DEF Answer, answer
    <3> QED BY <2>3, <2>4, <3>1 DEF Answer, answer
  <2> QED BY <1>1, <2>4, <2>5
<1>2. CASE outer # <<>>
  <2> DEFINE n == Len(outer)
             grown == [outer[n] EXCEPT !.got = Append(@, ms)]
  <2>1. n \in Nat \ {0} /\ outer[n] \in Frame /\ DOMAIN outer = 1..n
    BY <1>2
  <2>2. grown \in Frame /\ grown.type = outer[n].type /\ grown.keep = outer[n].keep
        /\ grown.cuts = outer[n].cuts /\ Len(grown.got) = Len(outer[n].got) + 1
    <3>1. outer[n].got \in Seq(MethodSet)
      BY <2>1 DEF Frame
    <3>2. Append(outer[n].got, ms) \in Seq(MethodSet)
          /\ Len(Append(outer[n].got, ms)) = Len(outer[n].got) + 1
      BY <3>1
    <3> QED BY <2>1, <3>2 DEF Frame
  <2>3. stack' = [outer EXCEPT ![n] = grown]
    BY <1>2 DEF Deliver
  <2>4. Callees(grown) = Callees(outer[n])
    BY <2>2 DEF Callees
  <2>5. /\ Len(outer[n].got) \in Nat /\ Len(Callees(outer[n])) \in Nat
        /\ Len(outer[n].got) < Len(Callees(outer[n]))
    BY <1>2, <2>1, CalleesShape DEF Frame, StateTyped
  <2>6. Len(grown.got) <= Len(Callees(grown))
    BY <2>2, <2>4, <2>5
  <2> HIDE DEF grown
  <2>7. stack' \in Seq(Frame) /\ Len(stack') = n
    BY <2>1, <2>2, <2>3
  <2>8. \A i \in DOMAIN outer : i # n => stack'[i] = stack[i]
    BY <2>1, <2>3
  <2>9. stack'[n] = grown /\ outer[n] = stack[n]
    BY <2>1, <2>3
  <2>10. \A i \in DOMAIN outer : i \in DOMAIN stack
    BY <2>1 DEF StateTyped
  <2>11. UNCHANGED <<asked, answers>>
    BY <1>2 DEF Deliver
  <2>12. ASSUME NEW i \in DOMAIN outer
         PROVE  /\ stack'[i].type = stack[i].type
                /\ stack'[i].keep = stack[i].keep
                /\ stack'[i].cuts = stack[i].cuts
                /\ Len(stack'[i].got) <= Len(Callees(stack'[i]))
    <3>1. CASE i = n
      BY <2>2, <2>6, <2>9, <3>1
    <3>2. CASE i # n
      BY <2>8, <2>10, <3>2 DEF FramesSane
    <3> QED BY <3>1, <3>2
  <2> QED BY <1>2, <2>7, <2>8, <2>11, <2>12 DEF StateTyped
<1> QED BY <1>1, <1>2

\* A call answered without a frame of its own keeps the invariant.
LEMMA AnsweredIInv ==
    ASSUME IInv, Calling, NEW ms \in MethodSet, Deliver(ms, stack),
           UNCHANGED <<project, memo, walks>>, cuts' \in {cuts, cuts + 1}
    PROVE  IInv'
<1> USE DEF IInv
<1>1. /\ stack \in Seq(Frame) /\ asked # <<>>
      /\ stack # <<>> => Len(stack[Len(stack)].got) < Len(Callees(stack[Len(stack)]))
  BY DEF StateTyped, Calling, Pending, Top
<1>2. Len(stack) <= Len(stack) /\ \A i \in DOMAIN stack : stack[i] = stack[i]
  BY <1>1
<1>3. /\ stack' \in Seq(Frame) /\ Len(stack') = Len(stack)
      /\ \A i \in DOMAIN stack : /\ stack'[i].type = stack[i].type
                                 /\ stack'[i].keep = stack[i].keep
                                 /\ stack'[i].cuts = stack[i].cuts
                                 /\ Len(stack'[i].got) <= Len(Callees(stack'[i]))
      /\ \A i \in DOMAIN stack : i < Len(stack) => stack'[i] = stack[i]
      /\ stack # <<>> => asked' = asked
      /\ asked' \in Seq(Question) /\ Len(asked') \in {0, 1}
      /\ answers' \in Seq([type : Types, home : Dir, set : MethodSet,
                           leaf : {"ref", "text", "marshaler"}])
      /\ stack' # <<>> => asked' # <<>>
  BY <1>1, <1>2, DeliverShape
<1>4. DOMAIN stack' = DOMAIN stack
  BY <1>1, <1>3
<1>5. cuts' \in Nat /\ cuts <= cuts' /\ cuts \in Nat
  BY DEF StateTyped
<1>6. StateTyped'
  BY <1>3, <1>5 DEF StateTyped, Types, Frame, MemoKey, Question
<1>7. FramesSane'
  <2> SUFFICES ASSUME NEW i \in DOMAIN stack
               PROVE  /\ stack'[i].cuts <= cuts'
                      /\ Len(stack'[i].got) <= Len(Callees(stack'[i]))
                      /\ i < Len(stack') => Len(stack'[i].got) < Len(Callees(stack'[i]))
    BY <1>4 DEF FramesSane, Callees
  <2>1. stack[i] \in Frame
    BY <1>1
  <2>2. stack[i].cuts \in Nat
    BY <2>1 DEF Frame
  <2> QED BY <1>3, <1>5, <2>2 DEF FramesSane
<1>8. OpenOnce'
  BY <1>3, <1>4 DEF OpenOnce
<1>9. OpenNotMemoized'
  <2> SUFFICES ASSUME NEW i \in DOMAIN stack PROVE Key(stack[i])' \notin DOMAIN memo
    BY <1>4 DEF OpenNotMemoized
  <2>1. Key(stack[i])' = Key(stack[i])
    BY <1>1, <1>3 DEF Key, Home
  <2> QED BY <2>1 DEF OpenNotMemoized
<1>10. WalkedOnce'
  BY <1>3, <1>5 DEF WalkedOnce
<1> QED BY <1>6, <1>7, <1>8, <1>9, <1>10

\* methodSetOf walks a type that is neither open nor memoized.
LEMMA WalkIInv ==
    ASSUME IInv, Walk
    PROVE  IInv'
<1> USE DEF IInv
<1> DEFINE f == [type |-> NextCall.type, keep |-> NextCall.keep, cuts |-> cuts, got |-> <<>>]
<1>1. /\ stack \in Seq(Frame) /\ stack' = Append(stack, f)
      /\ UNCHANGED <<project, memo, cuts, asked, answers>> /\ walks' = walks + 1
  BY DEF StateTyped, Walk
<1>2. f \in Frame /\ Len(f.got) = 0 /\ f.cuts = cuts /\ f.type = NextCall.type
      /\ f.keep = NextCall.keep
  BY NextCallShape DEF Walk, Frame, StateTyped
<1>3. f.type \notin Open /\ Key(f) \notin DOMAIN memo /\ asked # <<>>
  BY <1>2 DEF Walk, Key, Calling
<1>4. Len(Callees(f)) \in Nat
  BY <1>2, CalleesShape DEF StateTyped
<1> HIDE DEF f
<1>5. /\ stack' \in Seq(Frame) /\ Len(stack') = Len(stack) + 1
      /\ DOMAIN stack = 1..Len(stack) /\ Len(stack) \in Nat
      /\ DOMAIN stack' = 1..(Len(stack) + 1)
      /\ stack'[Len(stack) + 1] = f
      /\ \A i \in DOMAIN stack : stack'[i] = stack[i]
  BY <1>1, <1>2
<1>6. StateTyped'
  BY <1>1, <1>3, <1>5 DEF StateTyped, Types, Frame, MemoKey, Question
<1>7. FramesSane'
  <2> SUFFICES ASSUME NEW i \in DOMAIN stack'
               PROVE  /\ stack'[i].cuts <= cuts
                      /\ Len(stack'[i].got) <= Len(Callees(stack'[i]))
                      /\ i < Len(stack') => Len(stack'[i].got) < Len(Callees(stack'[i]))
    BY <1>1 DEF FramesSane, Callees
  <2>1. CASE i \in DOMAIN stack
    <3>1. stack # <<>> => Len(stack[Len(stack)].got) < Len(Callees(stack[Len(stack)]))
      BY DEF Walk, Calling, Pending, Top
    <3> QED BY <1>5, <2>1, <3>1 DEF FramesSane
  <2>2. CASE i = Len(stack) + 1
    BY <1>2, <1>4, <1>5, <2>2 DEF StateTyped
  <2> QED BY <1>5, <2>1, <2>2
<1>8. OpenOnce'
  <2>1. \A i \in DOMAIN stack : stack[i].type # f.type
    BY <1>3 DEF Open
  <2> QED BY <1>5, <2>1 DEF OpenOnce
<1>9. OpenNotMemoized'
  <2> SUFFICES ASSUME NEW i \in DOMAIN stack' PROVE Key(stack'[i]) \notin DOMAIN memo
    BY <1>1 DEF OpenNotMemoized, Key, Home
  <2> QED BY <1>3, <1>5 DEF OpenNotMemoized
<1>10. WalkedOnce'
  <2>1. IsFiniteSet(DOMAIN memo)
    BY DEF StateTyped
  <2>2. Cardinality(DOMAIN memo) \in Nat
    BY <2>1, FS_CardinalityType
  <2> QED BY <1>1, <1>5, <2>2 DEF WalkedOnce
<1> QED BY <1>6, <1>7, <1>8, <1>9, <1>10

\* What Memoize does to the domain of the memo.
LEMMA MemoizeShape ==
    ASSUME StateTyped, NEW f \in Frame, NEW ms \in MethodSet, asked # <<>>, Memoize(f, ms)
    PROVE  /\ memo' \in UNION {[K -> MethodSet] : K \in SUBSET MemoKey}
           /\ IsFiniteSet(DOMAIN memo')
           /\ DOMAIN memo' \subseteq DOMAIN memo \cup {Key(f)}
           /\ Uncut(f) => DOMAIN memo' = DOMAIN memo \cup {Key(f)}
<1>1. PICK K \in SUBSET MemoKey : memo \in [K -> MethodSet]
  BY DEF StateTyped
<1>2. Key(f) \in MemoKey
  <2>1. asked[1] \in Question
    BY DEF StateTyped
  <2> QED BY <2>1 DEF Key, Home, MemoKey, Question, Frame
<1>3. CASE Uncut(f)
  <2> DEFINE grown == [k \in DOMAIN memo \cup {Key(f)} |-> IF k = Key(f) THEN ms ELSE memo[k]]
  <2>1. memo' = grown
    BY <1>3 DEF Memoize
  <2>2. grown \in [K \cup {Key(f)} -> MethodSet]
    BY <1>1
  <2>3. K \cup {Key(f)} \in SUBSET MemoKey
    BY <1>2
  <2>4. DOMAIN memo' = DOMAIN memo \cup {Key(f)}
    BY <2>1
  <2>5. IsFiniteSet(DOMAIN memo \cup {Key(f)})
    BY FS_AddElement DEF StateTyped
  <2> HIDE DEF grown
  <2> QED BY <2>1, <2>2, <2>3, <2>4, <2>5
<1>4. CASE ~Uncut(f)
  BY <1>4 DEF Memoize, StateTyped
<1> QED BY <1>3, <1>4

\* A call that returns leaves the stack, for the memo when no cut shortened it.
LEMMA ReturnIInv ==
    ASSUME IInv, Return
    PROVE  IInv'
<1> USE DEF IInv
<1> DEFINE n == Len(stack)
           outer == SubSeq(stack, 1, n - 1)
<1>1. /\ stack \in Seq(Frame) /\ n \in Nat \ {0} /\ DOMAIN stack = 1..n
      /\ asked # <<>> /\ Top = stack[n]
  BY DEF StateTyped, Return, Top
<1>2. Top \in Frame
  BY <1>1
<1>3. Len(Top.got) = Len(Callees(Top))
  <2>1. Len(Top.got) <= Len(Callees(Top)) /\ ~(Len(Top.got) < Len(Callees(Top)))
    BY <1>1 DEF FramesSane, Return, Pending
  <2>2. Len(Top.got) \in Nat /\ Len(Callees(Top)) \in Nat
    BY <1>2, CalleesShape DEF Frame, StateTyped
  <2> QED BY <2>1, <2>2
<1>4. Computed(Top) \in MethodSet
  BY <1>2, <1>3, ComputedIsSet DEF StateTyped
<1>5. /\ Memoize(Top, Computed(Top)) /\ Deliver(Computed(Top), outer)
      /\ UNCHANGED <<project, cuts, walks>>
  BY DEF Return
<1>6. /\ outer \in Seq(Frame) /\ Len(outer) = n - 1 /\ DOMAIN outer = 1..(n - 1)
      /\ \A i \in DOMAIN outer : outer[i] = stack[i]
  BY <1>1
<1>7. outer # <<>> => Len(outer[Len(outer)].got) < Len(Callees(outer[Len(outer)]))
  <2> SUFFICES ASSUME outer # <<>>
               PROVE  Len(outer[Len(outer)].got) < Len(Callees(outer[Len(outer)]))
    OBVIOUS
  <2>1. n - 1 \in 1..(n - 1)
    BY <1>1, <1>6
  <2> HIDE DEF outer
  <2> QED BY <1>1, <1>6, <2>1 DEF FramesSane
<1> HIDE DEF outer
<1>8. /\ stack' \in Seq(Frame) /\ Len(stack') = n - 1
      /\ \A i \in DOMAIN outer : /\ stack'[i].type = stack[i].type
                                 /\ stack'[i].keep = stack[i].keep
                                 /\ stack'[i].cuts = stack[i].cuts
                                 /\ Len(stack'[i].got) <= Len(Callees(stack'[i]))
      /\ \A i \in DOMAIN outer : i < n - 1 => stack'[i] = stack[i]
      /\ outer # <<>> => asked' = asked
      /\ asked' \in Seq(Question) /\ Len(asked') \in {0, 1}
      /\ answers' \in Seq([type : Types, home : Dir, set : MethodSet,
                           leaf : {"ref", "text", "marshaler"}])
      /\ stack' # <<>> => asked' # <<>>
  <2>1. Len(outer) <= Len(stack)
    BY <1>1, <1>6
  <2> HIDE DEF IInv
  <2>2. IInv
    OBVIOUS
  <2> QED BY <1>1, <1>4, <1>5, <1>6, <1>7, <2>1, <2>2, DeliverShape
<1>9. DOMAIN stack' = 1..(n - 1)
  BY <1>1, <1>8
<1>10. /\ memo' \in UNION {[K -> MethodSet] : K \in SUBSET MemoKey}
       /\ IsFiniteSet(DOMAIN memo')
       /\ DOMAIN memo' \subseteq DOMAIN memo \cup {Key(Top)}
       /\ Uncut(Top) => DOMAIN memo' = DOMAIN memo \cup {Key(Top)}
  BY <1>1, <1>2, <1>4, <1>5, MemoizeShape
<1>11. StateTyped'
  BY <1>5, <1>8, <1>10 DEF StateTyped, Types, Frame, MemoKey, Question
<1>12. FramesSane'
  <2> SUFFICES ASSUME NEW i \in 1..(n - 1)
               PROVE  /\ stack'[i].cuts <= cuts
                      /\ Len(stack'[i].got) <= Len(Callees(stack'[i]))
                      /\ i < n - 1 => Len(stack'[i].got) < Len(Callees(stack'[i]))
    BY <1>5, <1>8, <1>9 DEF FramesSane, Callees
  <2>1. i \in DOMAIN stack /\ i \in DOMAIN outer /\ i < n
    BY <1>1, <1>6
  <2> QED BY <1>8, <2>1 DEF FramesSane
<1>13. OpenOnce'
  <2> SUFFICES ASSUME NEW i \in 1..(n - 1), NEW j \in 1..(n - 1),
                      stack'[i].type = stack'[j].type
               PROVE  i = j
    BY <1>9 DEF OpenOnce
  <2>1. /\ i \in DOMAIN outer /\ j \in DOMAIN outer
        /\ i \in DOMAIN stack /\ j \in DOMAIN stack
    BY <1>1, <1>6
  <2>2. stack[i].type = stack[j].type
    BY <1>8, <2>1
  <2> QED BY <2>1, <2>2 DEF OpenOnce
<1>14. OpenNotMemoized'
  <2> SUFFICES ASSUME NEW i \in 1..(n - 1) PROVE Key(stack[i])' \notin DOMAIN memo'
    BY <1>9 DEF OpenNotMemoized
  <2>1. i \in DOMAIN stack /\ i \in DOMAIN outer /\ i # n /\ outer # <<>> /\ n \in DOMAIN stack
    <3> HIDE DEF n, IInv
    <3>1. i # n /\ i \in 1..n /\ n \in 1..n
      BY <1>1
    <3>2. i \in DOMAIN stack /\ n \in DOMAIN stack
      BY <1>1, <3>1
    <3>3. i \in DOMAIN outer
      BY <1>6
    <3>4. outer # <<>>
      BY <1>6, <3>3
    <3> QED BY <3>1, <3>2, <3>3, <3>4
  <2>2. Key(stack[i])' = Key(stack[i])
    BY <1>8, <2>1 DEF Key, Home
  <2>3. stack[i].type # Top.type
    BY <1>1, <2>1 DEF OpenOnce
  <2>4. Key(stack[i]) # Key(Top)
    BY <2>3 DEF Key
  <2> QED BY <1>10, <2>1, <2>2, <2>4 DEF OpenNotMemoized
<1>15. WalkedOnce'
  <2> SUFFICES ASSUME cuts = 0
               PROVE  walks = Cardinality(DOMAIN memo') + (n - 1)
    BY <1>5, <1>8 DEF WalkedOnce
  <2>1. Top.cuts \in Nat /\ Top.cuts <= cuts
    <3>1. n \in DOMAIN stack
      BY <1>1
    <3>2. stack[n].cuts <= cuts
      BY <3>1 DEF FramesSane
    <3> QED BY <1>1, <1>2, <3>2 DEF Frame
  <2>2. Uncut(Top)
    BY <2>1 DEF Uncut
  <2>3. DOMAIN memo' = DOMAIN memo \cup {Key(Top)} /\ Key(Top) \notin DOMAIN memo
    BY <1>1, <1>10, <2>2 DEF OpenNotMemoized
  <2>4. IsFiniteSet(DOMAIN memo)
    BY DEF StateTyped
  <2>5. /\ Cardinality(DOMAIN memo) \in Nat
        /\ Cardinality(DOMAIN memo') = Cardinality(DOMAIN memo) + 1
    BY <2>3, <2>4, FS_CardinalityType, FS_AddElement
  <2> QED BY <1>1, <2>5 DEF WalkedOnce
<1> QED BY <1>11, <1>12, <1>13, <1>14, <1>15

\* Every step keeps the invariant.
LEMMA NextIInv == IInv /\ [Next]_vars => IInv'
<1> SUFFICES ASSUME IInv, [Next]_vars PROVE IInv'
  OBVIOUS
<1>1. CASE Ask
  <2>1. stack = <<>> /\ asked = <<>>
    BY <1>1 DEF Ask, IInv, StateTyped
  <2>2. PICK t \in Structs, u \in Structs :
          asked' = <<[type |-> t, home |-> project[u].dir]>>
    BY <1>1 DEF Ask
  <2>3. t \in Types /\ project[u].dir \in Dir
    <3>1. u \in Types /\ t \in Types
      BY DEF Structs
    <3> QED BY <3>1, TypeShape DEF NamedType, IInv, StateTyped
  <2>4. asked' \in Seq(Question) /\ Len(asked') = 1
    <3> DEFINE q == [type |-> t, home |-> project[u].dir]
    <3>1. q \in Question
      BY <2>3 DEF Question
    <3> HIDE DEF q
    <3>2. asked' = <<q>>
      BY <2>2 DEF q
    <3> QED BY <3>1, <3>2
  <2>5. UNCHANGED <<project, memo, cuts, walks, stack, answers>>
    BY <1>1 DEF Ask
  <2>6. StateTyped'
    BY <2>1, <2>4, <2>5 DEF IInv, StateTyped, Types, Frame, MemoKey, Question
  <2>7. FramesSane' /\ OpenOnce' /\ OpenNotMemoized' /\ WalkedOnce'
    BY <2>1, <2>5 DEF IInv, FramesSane, OpenOnce, OpenNotMemoized, WalkedOnce
  <2> QED BY <2>6, <2>7 DEF IInv
<1>2. CASE ReadKnown
  <2>1. NextCall \in [type : Types, keep : BOOLEAN]
    BY <1>2, NextCallShape DEF ReadKnown, IInv
  <2> DEFINE ms == Own(NextCall.type, NextCall.keep, Home)
  <2>2. ms \in MethodSet
    BY <2>1, DeclaredIsSet, EmptyIsSet DEF Own, IInv, StateTyped
  <2>3. Calling /\ Deliver(ms, stack) /\ UNCHANGED <<project, memo, walks>> /\ cuts' = cuts
    BY <1>2 DEF ReadKnown
  <2> HIDE DEF ms
  <2> QED BY <2>2, <2>3, AnsweredIInv
<1>3. CASE Cut
  BY <1>3, EmptyIsSet, AnsweredIInv DEF Cut
<1>4. CASE Recall
  <2>1. memo[Key(NextCall)] \in MethodSet
    BY <1>4 DEF Recall, IInv, StateTyped
  <2> QED BY <1>4, <2>1, AnsweredIInv DEF Recall
<1>5. CASE Walk
  BY <1>5, WalkIInv
<1>6. CASE Return
  BY <1>6, ReturnIInv
<1>7. CASE Done \/ UNCHANGED vars
  BY <1>7 DEF Done, vars, IInv, StateTyped, FramesSane, OpenOnce, OpenNotMemoized,
              WalkedOnce, Types, Frame, MemoKey, Question, Key, Home, Callees
<1> QED BY <1>1, <1>2, <1>3, <1>4, <1>5, <1>6, <1>7 DEF Next

THEOREM MethodSetsInvariant == Spec => []IInv
BY InitIInv, NextIInv, PTL DEF Spec

-----------------------------------------------------------------------------
(* What it gives. *)

\* Every set the walk computes, recalls or answers is well formed.
THEOREM TypeCorrect == Spec => []TypeOK
<1>1. IInv => TypeOK
  <2> SUFFICES ASSUME IInv PROVE TypeOK
    OBVIOUS
  <2>1. \A k \in DOMAIN memo : IsSet(memo[k])
    BY SetPredicate DEF IInv, StateTyped
  <2>2. ASSUME NEW i \in DOMAIN stack
        PROVE  /\ stack[i].type \in Types /\ stack[i].keep \in BOOLEAN
               /\ stack[i].cuts <= cuts
               /\ Len(stack[i].got) <= Len(Callees(stack[i]))
               /\ \A j \in DOMAIN stack[i].got : IsSet(stack[i].got[j])
    <3>1. stack[i] \in Frame
      BY DEF IInv, StateTyped
    <3>2. \A j \in DOMAIN stack[i].got : stack[i].got[j] \in MethodSet
      BY <3>1 DEF Frame
    <3> QED BY <3>1, <3>2, SetPredicate DEF Frame, IInv, FramesSane
  <2>3. ASSUME NEW i \in DOMAIN answers PROVE IsSet(answers[i].set)
    <3> DEFINE Answer == [type : Types, home : Dir, set : MethodSet,
                          leaf : {"ref", "text", "marshaler"}]
    <3>1. answers[i].set \in MethodSet
      <4>1. answers \in Seq(Answer)
        BY DEF IInv, StateTyped
      <4>2. answers[i] \in Answer
        <5> HIDE DEF Answer
        <5> QED BY <4>1
      <4> QED BY <4>2
    <3> QED BY <3>1, SetPredicate
  <2> QED BY <2>1, <2>2, <2>3 DEF TypeOK, IInv, StateTyped
<1> QED BY <1>1, MethodSetsInvariant, PTL

\* methodSetOf recurses no deeper than the project has types, whatever cycles
\* its embeddings make: the open types alone bound the walk.
THEOREM RecursionBounded == Spec => []WalkBounded
<1>1. IInv => WalkBounded
  <2> SUFFICES ASSUME IInv PROVE WalkBounded
    OBVIOUS
  <2>1. project \in Seq(NamedType) /\ Types = 1..Len(project) /\ Len(project) \in Nat
    BY ProjectsAssumption DEF IInv, StateTyped, Types
  <2>2. DOMAIN stack = 1..Len(stack) /\ Len(stack) \in Nat /\ stack \in Seq(Frame)
    BY DEF IInv, StateTyped
  <2> DEFINE open == [i \in 1..Len(stack) |-> stack[i].type]
  <2>3. open \in [1..Len(stack) -> Types]
    <3> SUFFICES ASSUME NEW i \in 1..Len(stack) PROVE stack[i].type \in Types
      OBVIOUS
    <3>1. stack[i] \in Frame
      BY <2>2
    <3> QED BY <3>1 DEF Frame
  <2>4. \A i, j \in 1..Len(stack) : open[i] = open[j] => i = j
    BY <2>2 DEF IInv, OpenOnce
  <2> HIDE DEF open
  <2>5. open \in Injection(1..Len(stack), Types)
    BY <2>3, <2>4 DEF Injection, IsInjective
  <2>6. /\ IsFiniteSet(Types) /\ Cardinality(Types) = Len(project)
        /\ Cardinality(1..Len(stack)) = Len(stack)
    <3>1. ASSUME NEW n \in Nat PROVE IsFiniteSet(1..n) /\ Cardinality(1..n) = n
      <4>1. 1 \in Int /\ n \in Int
        OBVIOUS
      <4>2. IsFiniteSet(1..n) /\ Cardinality(1..n) = IF 1 > n THEN 0 ELSE n - 1 + 1
        BY <4>1, FS_Interval
      <4> QED BY <4>2
    <3> QED BY <2>1, <2>2, <3>1
  <2>7. Cardinality(1..Len(stack)) <= Cardinality(Types)
    BY <2>5, <2>6, FS_Injection
  <2> QED BY <2>6, <2>7 DEF WalkBounded
<1> QED BY <1>1, MethodSetsInvariant, PTL

\* Without a cycle, no type is walked twice for one home and keep, however many
\* embeddings lead to it.
THEOREM DiamondsWalkedOnce == Spec => []WalkedOnce
<1>1. IInv => WalkedOnce
  BY DEF IInv
<1> QED BY <1>1, MethodSetsInvariant, PTL

-----------------------------------------------------------------------------
(* What a struct is documented as. *)

\* Every struct is documented by the set it was answered.
AnsweredByLeaf == \A i \in DOMAIN answers : answers[i].leaf = Leaf(answers[i].set)

LEMMA DeliverKeepsLeaves ==
    ASSUME answers \in Seq([type : Types, home : Dir, set : MethodSet,
                            leaf : {"ref", "text", "marshaler"}]),
           AnsweredByLeaf, NEW ms, NEW outer, Deliver(ms, outer)
    PROVE  AnsweredByLeaf'
<1>1. CASE outer = <<>>
  <2> DEFINE new == [type |-> asked[1].type, home |-> Home, set |-> ms, leaf |-> Leaf(ms)]
  <2>1. answers' = Append(answers, new)
    BY <1>1 DEF Deliver
  <2>2. \A i \in DOMAIN answers' :
          answers'[i] = IF i \in DOMAIN answers THEN answers[i] ELSE new
    <3> HIDE DEF new
    <3> QED BY <2>1
  <2>3. new.leaf = Leaf(new.set)
    OBVIOUS
  <2> QED BY <2>2, <2>3 DEF AnsweredByLeaf, Leaf, Has, TextBothWays, PtrText
<1>2. CASE outer # <<>>
  BY <1>2 DEF Deliver, AnsweredByLeaf, Leaf, Has, TextBothWays, PtrText
<1> QED BY <1>1, <1>2

LEMMA AnsweredByLeafStep ==
    ASSUME IInv, AnsweredByLeaf, [Next]_vars
    PROVE  AnsweredByLeaf'
<1> USE DEF IInv, StateTyped
<1>1. CASE ReadKnown
  BY <1>1, DeliverKeepsLeaves DEF ReadKnown
<1>2. CASE Cut
  BY <1>2, DeliverKeepsLeaves DEF Cut
<1>3. CASE Recall
  BY <1>3, DeliverKeepsLeaves DEF Recall
<1>4. CASE Return
  BY <1>4, DeliverKeepsLeaves DEF Return
<1>5. CASE Ask \/ Walk \/ Done \/ UNCHANGED vars
  BY <1>5 DEF Ask, Walk, Done, vars, AnsweredByLeaf, Leaf, Has, TextBothWays, PtrText
<1> QED BY <1>1, <1>2, <1>3, <1>4, <1>5 DEF Next

\* Whenever the sets answered are what Go's selector rules give, each struct is
\* documented as encoding/json encodes and decodes it: a tie of two embeds,
\* which a set holds to hide deeper methods, never counts as one
\* (methodSetLeaf, marshalerMethods.textBothWays).
THEOREM LeavesFollow == Spec => [](SetsMatchSelectorRules => LeavesMatchEncoding)
<1>1. Init => AnsweredByLeaf
  BY DEF Init, AnsweredByLeaf
<1>2. IInv /\ AnsweredByLeaf /\ SetsMatchSelectorRules => LeavesMatchEncoding
  <2> SUFFICES ASSUME IInv, AnsweredByLeaf, SetsMatchSelectorRules, asked = <<>>,
                      NEW i \in DOMAIN answers
               PROVE  LET sel == Selected(answers[i].type, TRUE, answers[i].home)
                          ptrSet == {m \in DOMAIN sel : sel[m].exact}
                          valueSet == {m \in ptrSet : ~sel[m].ptrOnly}
                      IN  /\ answers[i].leaf = "ref" <=> ptrSet = {}
                          /\ answers[i].leaf = "text" <=>
                               /\ "MarshalText" \in valueSet
                               /\ "UnmarshalText" \in ptrSet
                               /\ ptrSet \cap JSONSpecific = {}
    BY DEF LeavesMatchEncoding
  <2> DEFINE ms == answers[i].set
             exact == {m \in DOMAIN ms : ms[m].exact}
  <2>1. ms = Selected(answers[i].type, TRUE, answers[i].home)
    BY DEF SetsMatchSelectorRules
  <2>2. ms \in MethodSet /\ answers[i].leaf = Leaf(ms)
    <3> DEFINE Answer == [type : Types, home : Dir, set : MethodSet,
                          leaf : {"ref", "text", "marshaler"}]
    <3>1. answers \in Seq(Answer)
      BY DEF IInv, StateTyped
    <3>2. answers[i] \in Answer
      <4> HIDE DEF Answer
      <4> QED BY <3>1
    <3> QED BY <3>2 DEF AnsweredByLeaf
  <2> HIDE DEF ms
  <2>3. \A m \in DOMAIN ms : ms[m] \in Entry
    BY <2>2, SetShape
  <2>4. Has(ms) = exact
    BY <2>3 DEF Has, Entry
  <2> HIDE DEF exact
  <2>5. answers[i].leaf = "ref" <=> exact = {}
    BY <2>2, <2>4 DEF Leaf
  <2>6. answers[i].leaf = "text" <=>
          /\ "MarshalText" \in exact /\ ~ms["MarshalText"].ptrOnly
          /\ "UnmarshalText" \in exact
          /\ exact \cap JSONSpecific = {}
    BY <2>2, <2>4 DEF Leaf, TextBothWays, PtrText
  <2> QED BY <2>1, <2>5, <2>6 DEF exact, ms
<1>3. IInv /\ AnsweredByLeaf /\ [Next]_vars => AnsweredByLeaf'
  BY AnsweredByLeafStep
<1> QED BY <1>1, <1>2, <1>3, MethodSetsInvariant, PTL DEF Spec

-----------------------------------------------------------------------------
(* Chains of aliases and defined types, and the paths down from a type.    *)

\* Only a struct has fields, no two of its embeds are of one type, and an alias
\* declares no method.
LEMMA TypeFacts ==
    ASSUME project \in Projects, NEW t \in Types
    PROVE  /\ project[t].kind # "struct" => project[t].embeds = <<>> /\ project[t].fields = {}
           /\ \A i, j \in DOMAIN project[t].embeds :
                project[t].embeds[i].to = project[t].embeds[j].to => i = j
           /\ project[t].kind = "alias" => \A m \in Method : project[t].declared[m] = {}
BY TypesAssumption DEF Types

\* A chain goes on with that of the type its first one names.
LEMMA ChainStep ==
    ASSUME project \in Projects, NEW t \in Types, NEW kinds,
           kinds \subseteq {"alias", "defined"}
    PROVE  Chain(t, kinds) = {t} \cup (IF project[t].kind \in kinds
                                       THEN Chain(project[t].to, kinds) ELSE {})
<1> DEFINE closed(S) == \A v \in S : project[v].kind \in kinds => project[v].to \in S
           least(u) == {v \in Types : \A S \in SUBSET Types : (u \in S /\ closed(S)) => v \in S}
<1>1. ASSUME NEW u \in Types PROVE Chain(u, kinds) = least(u)
  <2>1. CASE project[u].kind \notin kinds
    <3>1. {u} \in SUBSET Types /\ closed({u})
      BY <2>1
    <3>2. least(u) = {u}
      BY <3>1
    <3> HIDE DEF least
    <3> QED BY <2>1, <3>2 DEF Chain
  <2>2. CASE project[u].kind \in kinds
    BY <2>2 DEF Chain
  <2> QED BY <2>1, <2>2
<1>2. CASE project[t].kind \notin kinds
  BY <1>2 DEF Chain
<1>3. CASE project[t].kind \in kinds
  <2> DEFINE u == project[t].to
  <2>1. u \in Types
    BY <1>3, TypeShape
  <2>2. ASSUME NEW v \in least(u) PROVE v \in least(t)
    <3>1. ASSUME NEW S \in SUBSET Types, t \in S, closed(S) PROVE v \in S
      <4>1. u \in S
        BY <1>3, <3>1
      <4> QED BY <2>2, <3>1, <4>1
    <3> QED BY <2>2, <3>1
  <2>3. t \in least(t) /\ u \in least(u)
    BY <2>1
  <2>4. ASSUME NEW v \in least(t) PROVE v \in {t} \cup least(u)
    <3> DEFINE S == {t} \cup least(u)
    <3>1. S \in SUBSET Types /\ t \in S
      OBVIOUS
    <3>2. ASSUME NEW x \in S, project[x].kind \in kinds PROVE project[x].to \in S
      <4>1. CASE x = t
        BY <2>3, <4>1
      <4>2. CASE x \in least(u)
        <5>1. project[x].to \in Types
          BY <3>2, <4>2, TypeShape
        <5> QED BY <3>2, <4>2, <5>1
      <4> QED BY <3>2, <4>1, <4>2
    <3> QED BY <2>4, <3>1, <3>2
  <2>5. least(t) = {t} \cup least(u)
    BY <2>2, <2>3, <2>4
  <2> HIDE DEF least
  <2> QED BY <1>1, <1>3, <2>1, <2>5
<1> QED BY <1>2, <1>3

LEMMA ChainEnds ==
    ASSUME project \in Projects, NEW t \in Types
    PROVE  /\ EndOfChain(t) \subseteq Types
           /\ project[t].kind \in {"alias", "defined"} =>
                EndOfChain(t) = EndOfChain(project[t].to)
           /\ project[t].kind \notin {"alias", "defined"} => EndOfChain(t) = {t}
<1>1. Chain(t, {"alias", "defined"}) = {t} \cup
        (IF project[t].kind \in {"alias", "defined"}
         THEN Chain(project[t].to, {"alias", "defined"}) ELSE {})
  BY ChainStep
<1>2. Chain(t, {"alias", "defined"}) \subseteq Types
  BY DEF Chain
<1> QED BY <1>1, <1>2 DEF EndOfChain

\* Below a chain lies what lies below its end.
LEMMA EmbedsShape ==
    ASSUME project \in Projects, NEW t \in Types
    PROVE  /\ EmbedsOf(t) \subseteq Embed /\ \A e \in EmbedsOf(t) : e.to \in Types
           /\ project[t].kind \in {"alias", "defined"} => EmbedsOf(t) = EmbedsOf(project[t].to)
           /\ project[t].kind \notin {"alias", "defined"} =>
                EmbedsOf(t) = {project[t].embeds[i] : i \in DOMAIN project[t].embeds}
           /\ project[t].kind \notin {"alias", "defined", "struct"} => EmbedsOf(t) = {}
<1>1. ASSUME NEW u \in Types, NEW i \in DOMAIN project[u].embeds
      PROVE  project[u].embeds[i] \in Embed /\ project[u].embeds[i].to \in Types
  <2>1. project[u].embeds \in Seq(Embed)
    BY TypeShape DEF NamedType
  <2> QED BY <2>1, TypeShape
<1>2. EmbedsOf(t) \subseteq Embed /\ \A e \in EmbedsOf(t) : e.to \in Types
  BY <1>1, ChainEnds DEF EmbedsOf
<1>3. project[t].kind \in {"alias", "defined"} => EmbedsOf(t) = EmbedsOf(project[t].to)
  BY ChainEnds DEF EmbedsOf
<1>4. project[t].kind \notin {"alias", "defined"} =>
        EmbedsOf(t) = {project[t].embeds[i] : i \in DOMAIN project[t].embeds}
  BY ChainEnds DEF EmbedsOf
<1>5. project[t].kind \notin {"alias", "defined", "struct"} => EmbedsOf(t) = {}
  BY <1>4, TypeFacts
<1> QED BY <1>2, <1>3, <1>4, <1>5

\* A value and a step determine a function on the naturals.
LEMMA NatRecursion ==
    ASSUME NEW V, NEW base \in V, NEW step \in [V -> V]
    PROVE  \E f \in [Nat -> V] : f = [n \in Nat |-> IF n = 0 THEN base ELSE step[f[n - 1]]]
<1> DEFINE Upto(n) == {g \in [0..n -> V] : g[0] = base /\ \A i \in 1..n : g[i] = step[g[i - 1]]}
<1>1. ASSUME NEW n \in Nat PROVE Upto(n) # {}
  <2> DEFINE S == {m \in Nat : Upto(m) = {}}
  <2> SUFFICES ASSUME S # {} PROVE FALSE
    OBVIOUS
  <2>1. PICK d \in S : \A e \in S : d <= e
    <3> HIDE DEF Upto
    <3> QED BY SmallestExists
  <2>2. CASE d = 0
    <3>1. [i \in 0..0 |-> base] \in Upto(0)
      OBVIOUS
    <3> QED BY <2>1, <2>2, <3>1
  <2>3. CASE d # 0
    <3>1. d \in Nat /\ d - 1 \in Nat /\ d - 1 \notin S
      <4>1. d \in Nat
        OBVIOUS
      <4>2. d - 1 \in Nat /\ ~(d <= d - 1)
        BY <2>3, <4>1
      <4> HIDE DEF S
      <4> QED BY <2>1, <4>1, <4>2
    <3>2. PICK g \in Upto(d - 1) : TRUE
      BY <3>1
    <3> DEFINE h == [i \in 0..d |-> IF i = d THEN step[g[d - 1]] ELSE g[i]]
    <3>3. g \in [0..(d - 1) -> V] /\ g[0] = base /\ \A i \in 1..(d - 1) : g[i] = step[g[i - 1]]
      BY <3>2
    <3>4. step[g[d - 1]] \in V
      BY <3>1, <3>3
    <3>5. h \in [0..d -> V] /\ h[0] = base
      BY <2>3, <3>1, <3>3, <3>4
    <3>6. ASSUME NEW i \in 1..d PROVE h[i] = step[h[i - 1]]
      BY <3>1, <3>3
    <3>7. h \in Upto(d)
      BY <3>5, <3>6
    <3> QED BY <2>1, <3>7
  <2> QED BY <2>2, <2>3
<1>2. ASSUME NEW n \in Nat, NEW g \in Upto(n), NEW h \in Upto(n + 1)
      PROVE  g[n] = h[n]
  <2> DEFINE S == {i \in 0..n : g[i] # h[i]}
  <2> SUFFICES ASSUME S # {} PROVE FALSE
    OBVIOUS
  <2>1. PICK d \in S : \A e \in S : d <= e
    <3>1. S \subseteq Nat
      OBVIOUS
    <3> HIDE DEF S
    <3> QED BY <3>1, SmallestExists
  <2>2. d # 0
    BY <2>1
  <2>3. d \in 1..n /\ d - 1 \in 0..n /\ d - 1 \notin S
    BY <2>1, <2>2
  <2>4. g[d - 1] = h[d - 1]
    BY <2>3
  <2>5. g[d] = step[g[d - 1]] /\ h[d] = step[h[d - 1]]
    BY <2>3
  <2> QED BY <2>1, <2>4, <2>5
<1> DEFINE some(n) == CHOOSE g \in Upto(n) : TRUE
           f == [n \in Nat |-> some(n)[n]]
<1>3. \A n \in Nat : some(n) \in Upto(n)
  <2> HIDE DEF Upto
  <2> QED BY <1>1
<1> HIDE DEF some
<1>4. ASSUME NEW n \in Nat PROVE f[n] \in V
  BY <1>3
<1>5. f[0] = base
  BY <1>3
<1>6. ASSUME NEW n \in Nat, n # 0 PROVE f[n] = step[f[n - 1]]
  <2>1. n - 1 \in Nat /\ (n - 1) + 1 = n
    BY <1>6
  <2>2. some(n)[n - 1] = some(n - 1)[n - 1]
    BY <1>2, <1>3, <2>1
  <2>3. some(n)[n] = step[some(n)[n - 1]]
    BY <1>3, <1>6
  <2> QED BY <2>1, <2>2, <2>3
<1>7. f \in [Nat -> V] /\ f = [n \in Nat |-> IF n = 0 THEN base ELSE step[f[n - 1]]]
  BY <1>4, <1>5, <1>6
<1> HIDE DEF f
<1> QED BY <1>7

LEMMA WaysStep ==
    ASSUME project \in Projects, NEW t \in Types
    PROVE  /\ WaysDown[0][t] = {<<>>}
           /\ \A n \in Nat \ {0} :
                WaysDown[n][t] =
                  UNION {{<<e>> \o w : w \in WaysDown[n - 1][e.to]} : e \in EmbedsOf(t)}
<1> DEFINE V == [Types -> SUBSET Seq(Embed)]
           base == [u \in Types |-> {<<>>}]
           next(x) == [u \in Types |->
                         UNION {{<<e>> \o w : w \in x[e.to]} : e \in EmbedsOf(u)}]
           step == [x \in V |-> next(x)]
<1>1. base \in V
  OBVIOUS
<1>2. ASSUME NEW x \in V PROVE next(x) \in V
  <2>1. ASSUME NEW u \in Types, NEW e \in EmbedsOf(u), NEW w \in x[e.to]
        PROVE  <<e>> \o w \in Seq(Embed)
    <3>1. e \in Embed /\ e.to \in Types
      BY EmbedsShape
    <3>2. w \in Seq(Embed)
      BY <3>1
    <3> QED BY <3>1, <3>2
  <2>2. ASSUME NEW u \in Types
        PROVE  UNION {{<<e>> \o w : w \in x[e.to]} : e \in EmbedsOf(u)} \in SUBSET Seq(Embed)
    <3> DEFINE Q == Seq(Embed)
    <3>1. \A e \in EmbedsOf(u) : \A w \in x[e.to] : <<e>> \o w \in Q
      BY <2>1
    <3> HIDE DEF Q
    <3>2. ASSUME NEW s \in UNION {{<<e>> \o w : w \in x[e.to]} : e \in EmbedsOf(u)} PROVE s \in Q
      <4>1. PICK A \in {{<<e>> \o w : w \in x[e.to]} : e \in EmbedsOf(u)} : s \in A
        BY Zenon
      <4>2. PICK e \in EmbedsOf(u) : A = {<<e>> \o w : w \in x[e.to]}
        BY Zenon
      <4>3. PICK w \in x[e.to] : s = <<e>> \o w
        BY Zenon, <4>1, <4>2
      <4> QED BY <3>1, <4>3
    <3> QED BY Zenon, <3>2 DEF Q
  <2> QED BY <2>2
<1>3. step \in [V -> V]
  BY <1>2
<1>4. PICK f \in [Nat -> V] : f = [n \in Nat |-> IF n = 0 THEN base ELSE step[f[n - 1]]]
  <2> HIDE DEF V, base, step
  <2> QED BY <1>1, <1>3, NatRecursion
<1>5. f = [n \in Nat |->
             [u \in Types |->
                IF n = 0 THEN {<<>>}
                ELSE UNION {{<<e>> \o w : w \in f[n - 1][e.to]} : e \in EmbedsOf(u)}]]
  <2>1. ASSUME NEW n \in Nat
        PROVE  f[n] = [u \in Types |->
                         IF n = 0 THEN {<<>>}
                         ELSE UNION {{<<e>> \o w : w \in f[n - 1][e.to]} : e \in EmbedsOf(u)}]
    <3>1. CASE n = 0
      BY <1>4, <3>1
    <3>2. CASE n # 0
      <4>1. f[n - 1] \in V
        BY <3>2
      <4>2. f[n] = next(f[n - 1])
        <5> HIDE DEF V, next
        <5> QED BY <1>4, <3>2, <4>1
      <4> QED BY <3>2, <4>2
    <3> QED BY <3>1, <3>2
  <2> HIDE DEF V
  <2> QED BY <1>4, <2>1
<1>6. WaysDown = [n \in Nat |->
             [u \in Types |->
                IF n = 0 THEN {<<>>}
                ELSE UNION {{<<e>> \o w : w \in WaysDown[n - 1][e.to]} : e \in EmbedsOf(u)}]]
  BY <1>5 DEF WaysDown
<1>7. \A n \in Nat : WaysDown[n] =
        [u \in Types |->
           IF n = 0 THEN {<<>>}
           ELSE UNION {{<<e>> \o w : w \in WaysDown[n - 1][e.to]} : e \in EmbedsOf(u)}]
  BY <1>6
<1> QED
  <2>1. WaysDown[0][t] = {<<>>}
    BY <1>7
  <2>2. ASSUME NEW n \in Nat \ {0}
        PROVE  WaysDown[n][t] =
                 UNION {{<<e>> \o w : w \in WaysDown[n - 1][e.to]} : e \in EmbedsOf(t)}
    <3>1. n \in Nat /\ n # 0
      OBVIOUS
    <3>2. WaysDown[n] =
            [u \in Types |->
               IF n = 0 THEN {<<>>}
               ELSE UNION {{<<e>> \o w : w \in WaysDown[n - 1][e.to]} : e \in EmbedsOf(u)}]
      BY <1>7, <3>1
    <3> QED BY <3>1, <3>2
  <2> QED BY <2>1, <2>2

LEMMA WaysTyped ==
    ASSUME project \in Projects
    PROVE  \A n \in Nat : \A t \in Types : WaysDown[n][t] \subseteq Seq(Embed)
<1> DEFINE S == {n \in Nat : ~(\A t \in Types : WaysDown[n][t] \subseteq Seq(Embed))}
<1> SUFFICES ASSUME S # {} PROVE FALSE
  OBVIOUS
<1>1. PICK d \in S : \A e \in S : d <= e
  <2>1. S \subseteq Nat
    OBVIOUS
  <2> HIDE DEF S
  <2> QED BY <2>1, SmallestExists
<1>2. d \in Nat
  OBVIOUS
<1>3. PICK t \in Types : ~(WaysDown[d][t] \subseteq Seq(Embed))
  OBVIOUS
<1>4. d # 0
  <2>1. {<<>>} \subseteq Seq(Embed)
    OBVIOUS
  <2>2. WaysDown[0][t] = {<<>>}
    BY WaysStep
  <2> QED BY <1>3, <2>1, <2>2
<1>5. d - 1 \in Nat /\ ~(d <= d - 1)
  BY <1>2, <1>4
<1>6. \A u \in Types : WaysDown[d - 1][u] \subseteq Seq(Embed)
  BY <1>1, <1>5
<1> DEFINE Q == Seq(Embed)
<1>7. \A e \in EmbedsOf(t) : \A w \in WaysDown[d - 1][e.to] : <<e>> \o w \in Q
  <2> SUFFICES ASSUME NEW e \in EmbedsOf(t), NEW w \in WaysDown[d - 1][e.to]
               PROVE  <<e>> \o w \in Seq(Embed)
    OBVIOUS
  <2>1. e \in Embed /\ e.to \in Types
    BY EmbedsShape
  <2>2. w \in Seq(Embed)
    BY <1>6, <2>1
  <2> QED BY <2>1, <2>2
<1>8. WaysDown[d][t] = UNION {{<<e>> \o w : w \in WaysDown[d - 1][e.to]} : e \in EmbedsOf(t)}
  BY <1>2, <1>4, WaysStep
<1>9. ~(WaysDown[d][t] \subseteq Q)
  BY <1>3
<1> HIDE DEF Q
<1>10. PICK s \in WaysDown[d][t] : s \notin Q
  BY <1>9
<1>11. PICK A \in {{<<e>> \o w : w \in WaysDown[d - 1][e.to]} : e \in EmbedsOf(t)} : s \in A
  BY Zenon, <1>8
<1>12. PICK e \in EmbedsOf(t) : A = {<<e>> \o w : w \in WaysDown[d - 1][e.to]}
  BY Zenon
<1>13. PICK w \in WaysDown[d - 1][e.to] : s = <<e>> \o w
  BY Zenon, <1>11, <1>12
<1> QED BY <1>7, <1>10, <1>13

\* A way down is an embedding and a way down from there.
LEMMA WaysMemberDown ==
    ASSUME project \in Projects, NEW t \in Types, NEW k \in Nat \ {0}
    PROVE  \A s : s \in WaysDown[k][t] <=>
             \E e \in EmbedsOf(t) : \E w \in WaysDown[k - 1][e.to] : s = <<e>> \o w
<1> DEFINE tail(e) == WaysDown[k - 1][e.to]
           S == WaysDown[k][t]
           below(e) == {<<e>> \o w : w \in tail(e)}
<1>1. S = UNION {below(e) : e \in EmbedsOf(t)}
  BY WaysStep
<1>2. \A e, s : s \in below(e) <=> \E w \in tail(e) : s = <<e>> \o w
  BY Zenon
<1> HIDE DEF below
<1>3. \A s : s \in S <=> \E e \in EmbedsOf(t) : s \in below(e)
  <2> HIDE DEF S
  <2> QED BY <1>1
<1>4. ASSUME NEW s \in S
      PROVE  \E e \in EmbedsOf(t) : \E w \in tail(e) : s = <<e>> \o w
  <2>1. PICK e \in EmbedsOf(t) : s \in below(e)
    BY <1>3
  <2>2. \E w \in tail(e) : s = <<e>> \o w
    BY <1>2, <2>1
  <2> QED BY <2>2
<1>5. ASSUME NEW e \in EmbedsOf(t), NEW w \in tail(e)
      PROVE  <<e>> \o w \in S
  <2>1. <<e>> \o w \in below(e)
    BY <1>2
  <2> QED BY <1>3, <2>1
<1> QED BY <1>4, <1>5

LEMMA WaysMember ==
    ASSUME project \in Projects, NEW t \in Types, NEW n \in Nat
    PROVE  \A s : s \in WaysDown[n + 1][t] <=>
             \E e \in EmbedsOf(t) : \E w \in WaysDown[n][e.to] : s = <<e>> \o w
<1>1. n + 1 \in Nat \ {0} /\ (n + 1) - 1 = n
  OBVIOUS
<1>2. \A s : s \in WaysDown[n + 1][t] <=>
        \E e \in EmbedsOf(t) : \E w \in WaysDown[(n + 1) - 1][e.to] : s = <<e>> \o w
  BY <1>1, WaysMemberDown
<1> QED BY <1>1, <1>2

LEMMA PathsTyped ==
    ASSUME project \in Projects, NEW t \in Types
    PROVE  PathsFrom(t) \subseteq Seq(Embed) /\ <<>> \in PathsFrom(t)
<1>1. project \in Seq(NamedType) /\ Len(project) \in Nat
  BY ProjectsAssumption
<1>2. 0 \in 0..Len(project) /\ <<>> \in WaysDown[0][t]
  BY <1>1, WaysStep
<1>3. ASSUME NEW s \in PathsFrom(t) PROVE s \in Seq(Embed)
  <2>1. PICK n \in 0..Len(project) : s \in WaysDown[n][t]
    BY DEF PathsFrom
  <2>2. n \in Nat
    BY <1>1
  <2> QED BY <2>1, <2>2, WaysTyped
<1> QED BY <1>2, <1>3 DEF PathsFrom

\* The paths from a chain of names are those from its end.
LEMMA PathsOfChain ==
    ASSUME project \in Projects, NEW t \in Types, project[t].kind \in {"alias", "defined"}
    PROVE  PathsFrom(t) = PathsFrom(project[t].to)
<1> DEFINE u == project[t].to
<1>1. u \in Types /\ EmbedsOf(t) = EmbedsOf(u)
  BY EmbedsShape, TypeShape
<1>2. ASSUME NEW n \in Nat PROVE WaysDown[n][t] = WaysDown[n][u]
  <2>1. CASE n = 0
    BY <1>1, <2>1, WaysStep
  <2>2. CASE n # 0
    <3>1. n \in Nat \ {0}
      BY <2>2
    <3>2. /\ WaysDown[n][t] =
               UNION {{<<e>> \o w : w \in WaysDown[n - 1][e.to]} : e \in EmbedsOf(t)}
          /\ WaysDown[n][u] =
               UNION {{<<e>> \o w : w \in WaysDown[n - 1][e.to]} : e \in EmbedsOf(u)}
      BY <1>1, <3>1, WaysStep
    <3> HIDE DEF u
    <3> QED BY Zenon, <1>1, <3>2
  <2> QED BY <2>1, <2>2
<1>3. Len(project) \in Nat
  BY ProjectsAssumption
<1>4. \A n \in 0..Len(project) : WaysDown[n][t] = WaysDown[n][u]
  BY <1>2, <1>3
<1> QED BY <1>4 DEF PathsFrom

\* R tells that the embeds of the types A form no cycle.
Descends(A, R) ==
    /\ A \subseteq Types /\ R \in [A -> Nat]
    /\ \A u \in A : \A e \in EmbedsOf(u) : e.to \in A /\ R[e.to] < R[u]

\* The types on a way down without a cycle are distinct.
LEMMA DistinctDown ==
    ASSUME project \in Projects, NEW A, NEW R, Descends(A, R)
    PROVE  \A n \in Nat : \A u \in A : WaysDown[n][u] # {} =>
             \E D \in SUBSET A : /\ IsFiniteSet(D) /\ Cardinality(D) = n + 1
                                 /\ \A v \in D : R[v] <= R[u]
<1> DEFINE Held(n, u) ==
             \E D \in SUBSET A : /\ IsFiniteSet(D) /\ Cardinality(D) = n + 1
                                 /\ \A v \in D : R[v] <= R[u]
           S == {n \in Nat : ~(\A u \in A : WaysDown[n][u] # {} => Held(n, u))}
<1> SUFFICES ASSUME S # {} PROVE FALSE
  OBVIOUS
<1>1. PICK d \in S : \A e \in S : d <= e
  <2>1. S \subseteq Nat
    OBVIOUS
  <2> HIDE DEF S
  <2> QED BY <2>1, SmallestExists
<1>2. d \in Nat
  OBVIOUS
<1>3. PICK u \in A : WaysDown[d][u] # {} /\ ~Held(d, u)
  OBVIOUS
<1>4. u \in Types /\ R[u] \in Nat
  BY DEF Descends
<1>5. CASE d = 0
  <2>1. IsFiniteSet({u}) /\ Cardinality({u}) = 0 + 1
    <3>1. IsFiniteSet({u}) /\ Cardinality({u}) = 1
      BY Zenon, FS_Singleton
    <3> QED BY <3>1
  <2>2. Held(0, u)
    <3>1. {u} \in SUBSET A /\ \A v \in {u} : R[v] <= R[u]
      BY <1>4
    <3> QED BY <2>1, <3>1
  <2> QED BY <1>3, <1>5, <2>2
<1>6. CASE d # 0
  <2> DEFINE n == d - 1
  <2>1. n \in Nat /\ n + 1 = d /\ ~(d <= n)
    BY <1>2, <1>6
  <2>2. \A v \in A : WaysDown[n][v] # {} => Held(n, v)
    <3>1. n \notin S
      <4> HIDE DEF S
      <4> QED BY <1>1, <2>1
    <3> HIDE DEF Held, n
    <3> QED BY <2>1, <3>1
  <2> HIDE DEF n
  <2>3. PICK s : s \in WaysDown[n + 1][u]
    BY <1>3, <2>1
  <2>4. PICK e \in EmbedsOf(u) : \E w \in WaysDown[n][e.to] : s = <<e>> \o w
    <3>1. \A x : x \in WaysDown[n + 1][u] <=>
            \E e \in EmbedsOf(u) : \E w \in WaysDown[n][e.to] : x = <<e>> \o w
      BY <1>4, <2>1, WaysMember
    <3> QED BY Zenon, <2>3, <3>1
  <2>5. e.to \in A /\ R[e.to] < R[u] /\ WaysDown[n][e.to] # {}
    BY <2>4 DEF Descends
  <2>6. PICK D \in SUBSET A : /\ IsFiniteSet(D) /\ Cardinality(D) = n + 1
                              /\ \A v \in D : R[v] <= R[e.to]
    BY <2>2, <2>5
  <2>7. \A v \in D : R[v] \in Nat /\ R[v] < R[u]
    BY <1>4, <2>5, <2>6 DEF Descends
  <2>8. u \notin D
    BY <1>4, <2>7
  <2>9. IsFiniteSet(D \cup {u}) /\ Cardinality(D \cup {u}) = (n + 1) + 1
    BY <2>6, <2>8, FS_AddElement
  <2>10. D \cup {u} \in SUBSET A /\ \A v \in D \cup {u} : R[v] <= R[u]
    BY <1>4, <2>7
  <2>11. Held(n + 1, u)
    BY <2>9, <2>10
  <2> HIDE DEF Held
  <2> QED BY <1>3, <2>1, <2>11
<1> QED BY <1>5, <1>6

LEMMA WaysEnd ==
    ASSUME project \in Projects, NEW A, NEW R, Descends(A, R), NEW u \in A
    PROVE  WaysDown[Len(project)][u] = {}
<1>1. project \in Seq(NamedType) /\ Types = 1..Len(project) /\ Len(project) \in Nat
  BY ProjectsAssumption DEF Types
<1> SUFFICES ASSUME WaysDown[Len(project)][u] # {} PROVE FALSE
  OBVIOUS
<1>2. PICK D \in SUBSET A : IsFiniteSet(D) /\ Cardinality(D) = Len(project) + 1
  BY <1>1, DistinctDown
<1>3. IsFiniteSet(Types) /\ Cardinality(Types) = Len(project)
  <2>1. IsFiniteSet(1..Len(project)) /\
        Cardinality(1..Len(project)) = IF 1 > Len(project) THEN 0 ELSE Len(project) - 1 + 1
    BY <1>1, FS_Interval
  <2> QED BY <1>1, <2>1
<1>4. D \subseteq Types
  BY DEF Descends
<1>5. Cardinality(D) <= Cardinality(Types)
  BY <1>3, <1>4, FS_Subset
<1> QED BY <1>1, <1>2, <1>3, <1>5

\* The paths down from t are those of its embeds, one embedding longer.
PathsJoin(t) ==
    \A s : s \in PathsFrom(t) <=>
      s = <<>> \/ \E e \in EmbedsOf(t) : \E w \in PathsFrom(e.to) : s = <<e>> \o w

\* Without a cycle below t, its paths are those of its embeds, one longer.
LEMMA PathsStep ==
    ASSUME project \in Projects, NEW A, NEW R, Descends(A, R), NEW t \in Types,
           \A e \in EmbedsOf(t) : e.to \in A
    PROVE  PathsJoin(t)
<1>1. Len(project) \in Nat
  BY ProjectsAssumption
<1>2. ASSUME NEW s \in PathsFrom(t), s # <<>>
      PROVE  \E e \in EmbedsOf(t) : \E w \in PathsFrom(e.to) : s = <<e>> \o w
  <2>1. PICK n \in 0..Len(project) : s \in WaysDown[n][t]
    BY DEF PathsFrom
  <2>2. n # 0
    BY <1>2, <2>1, WaysStep
  <2>3. n - 1 \in 0..Len(project) /\ n - 1 \in Nat /\ (n - 1) + 1 = n
    BY <1>1, <2>2
  <2>4. PICK e \in EmbedsOf(t) : \E w \in WaysDown[n - 1][e.to] : s = <<e>> \o w
    <3>1. \A x : x \in WaysDown[(n - 1) + 1][t] <=>
            \E e \in EmbedsOf(t) : \E w \in WaysDown[n - 1][e.to] : x = <<e>> \o w
      BY <2>3, WaysMember
    <3>2. s \in WaysDown[(n - 1) + 1][t]
      BY <2>1, <2>3
    <3> QED BY Zenon, <3>1, <3>2
  <2>5. PICK w \in WaysDown[n - 1][e.to] : s = <<e>> \o w
    BY <2>4
  <2>6. w \in PathsFrom(e.to)
    BY <2>3, <2>5 DEF PathsFrom
  <2> QED BY <2>5, <2>6
<1>3. ASSUME NEW e \in EmbedsOf(t), NEW w \in PathsFrom(e.to)
      PROVE  <<e>> \o w \in PathsFrom(t)
  <2>1. PICK n \in 0..Len(project) : w \in WaysDown[n][e.to]
    BY DEF PathsFrom
  <2>2. n # Len(project)
    BY <2>1, WaysEnd
  <2>3. n + 1 \in 0..Len(project) /\ n \in Nat
    BY <1>1, <2>2
  <2>4. <<e>> \o w \in WaysDown[n + 1][t]
    <3>1. \A x : x \in WaysDown[n + 1][t] <=>
            \E f \in EmbedsOf(t) : \E v \in WaysDown[n][f.to] : x = <<f>> \o v
      BY <2>3, WaysMember
    <3> QED BY Zenon, <2>1, <3>1
  <2> QED BY <2>3, <2>4 DEF PathsFrom
<1>4. <<>> \in PathsFrom(t)
  BY PathsTyped
<1> QED BY <1>2, <1>3, <1>4 DEF PathsJoin

-----------------------------------------------------------------------------
(* What a type selects, from what its embeds and its chain select.         *)

LEMMA NearestShape ==
    ASSUME NEW paths, paths \subseteq Seq(Embed), NEW t, NEW keep, NEW m,
           WaysTo(paths, t, keep, m) # {}
    PROVE  \E d \in Nat :
             /\ \A w \in WaysTo(paths, t, keep, m) : Len(w) \in Nat /\ d <= Len(w)
             /\ Nearest(paths, t, keep, m) = {w \in WaysTo(paths, t, keep, m) : Len(w) = d}
             /\ Nearest(paths, t, keep, m) # {}
<1> DEFINE ways == WaysTo(paths, t, keep, m)
           lens == {Len(w) : w \in ways}
<1>1. \A w \in ways : Len(w) \in Nat
  BY DEF WaysTo
<1> HIDE DEF ways
<1>2. PICK d \in lens : \A e \in lens : d <= e
  <2>1. lens \subseteq Nat /\ lens # {}
    BY <1>1 DEF ways
  <2> HIDE DEF lens
  <2> QED BY <2>1, SmallestExists
<1>3. d \in Nat /\ \A w \in ways : Len(w) \in Nat /\ d <= Len(w)
  BY <1>1, <1>2
<1>4. PICK w0 \in ways : Len(w0) = d
  BY <1>2
<1>5. Nearest(paths, t, keep, m) = {w \in ways : \A v \in ways : Len(w) <= Len(v)}
  BY DEF Nearest, ways
<1>6. \A w \in ways : Len(w) = d <=> \A v \in ways : Len(w) <= Len(v)
  BY <1>3, <1>4
<1>7. {w \in ways : \A v \in ways : Len(w) <= Len(v)} = {w \in ways : Len(w) = d}
  BY <1>6
<1> QED BY <1>3, <1>4, <1>5, <1>7 DEF ways

\* The chosen one of the nearest paths.
LEMMA FoundAmongShape ==
    ASSUME NEW nearest, nearest # {}, NEW t, NEW keep, NEW home, NEW m
    PROVE  \E w \in nearest :
             /\ (\E v \in nearest : v # w) =>
                  FoundAmong(nearest, t, keep, home, m) = ClashAt(nearest, w)
             /\ (\A v \in nearest : v = w) =>
                  FoundAmong(nearest, t, keep, home, m) = FoundAt(w, t, keep, home, m)
BY DEF FoundAmong

LEMMA FoundDepth ==
    ASSUME NEW nearest, nearest # {}, NEW d \in Nat, \A w \in nearest : Len(w) = d,
           NEW t, NEW keep, NEW home, NEW m
    PROVE  FoundAmong(nearest, t, keep, home, m).depth = d
<1>1. PICK w \in nearest :
             /\ (\E v \in nearest : v # w) =>
                  FoundAmong(nearest, t, keep, home, m) = ClashAt(nearest, w)
             /\ (\A v \in nearest : v = w) =>
                  FoundAmong(nearest, t, keep, home, m) = FoundAt(w, t, keep, home, m)
  BY FoundAmongShape
<1>2. ClashAt(nearest, w).depth = Len(w)
  BY DEF ClashAt, Zero
<1>3. FoundAt(w, t, keep, home, m).depth = Len(w)
  BY DEF FoundAt, Zero
<1> QED BY <1>1, <1>2, <1>3

\* A way of one more embedding.
LEMMA LongerWay ==
    ASSUME NEW e \in Embed, NEW w \in Seq(Embed), NEW t
    PROVE  /\ EndOf(t, <<e>> \o w) = EndOf(e.to, w)
           /\ <<e>> \o w # <<>> /\ <<e>> \o w \in Seq(Embed)
           /\ Len(<<e>> \o w) = Len(w) + 1 /\ (<<e>> \o w)[1] = e
           /\ (\A i \in DOMAIN (<<e>> \o w) : ~(<<e>> \o w)[i].ptr)
                <=> ~e.ptr /\ \A i \in DOMAIN w : ~w[i].ptr
<1> DEFINE s == <<e>> \o w
<1>1. /\ s \in Seq(Embed) /\ Len(s) = Len(w) + 1 /\ Len(w) \in Nat
      /\ s[1] = e /\ \A i \in 1..Len(w) : s[i + 1] = w[i]
  OBVIOUS
<1>2. DOMAIN s = 1..Len(s) /\ DOMAIN w = 1..Len(w)
  OBVIOUS
<1>3. s # <<>> /\ (w = <<>> <=> Len(w) = 0)
  BY <1>1
<1> HIDE DEF s
<1>4. EndOf(t, s) = EndOf(e.to, w)
  <2>1. CASE w = <<>>
    BY <1>1, <1>3, <2>1 DEF EndOf
  <2>2. CASE w # <<>>
    <3>1. Len(w) \in 1..Len(w)
      BY <1>1, <1>3, <2>2
    <3> QED BY <1>1, <1>3, <2>2, <3>1 DEF EndOf
  <2> QED BY <2>1, <2>2
<1>5. (\A i \in DOMAIN s : ~s[i].ptr) => ~e.ptr /\ \A i \in DOMAIN w : ~w[i].ptr
  <2> SUFFICES ASSUME \A i \in DOMAIN s : ~s[i].ptr
               PROVE  ~e.ptr /\ \A i \in DOMAIN w : ~w[i].ptr
    OBVIOUS
  <2>1. 1 \in DOMAIN s /\ \A i \in DOMAIN w : i + 1 \in DOMAIN s
    BY <1>1, <1>2
  <2> QED BY <1>1, <1>2, <2>1
<1>6. (~e.ptr /\ \A i \in DOMAIN w : ~w[i].ptr) => \A i \in DOMAIN s : ~s[i].ptr
  <2> SUFFICES ASSUME ~e.ptr, \A i \in DOMAIN w : ~w[i].ptr, NEW i \in DOMAIN s
               PROVE  ~s[i].ptr
    OBVIOUS
  <2>1. CASE i = 1
    BY <1>1, <2>1
  <2>2. CASE i # 1
    <3>1. i - 1 \in 1..Len(w) /\ (i - 1) + 1 = i
      BY <1>1, <1>2, <2>2
    <3>2. s[(i - 1) + 1] = w[i - 1]
      BY <1>1, <3>1
    <3> QED BY <1>2, <3>1, <3>2
  <2> QED BY <2>1, <2>2
<1> QED BY <1>1, <1>3, <1>4, <1>5, <1>6 DEF s

LEMMA LongerWayOne ==
    ASSUME NEW e \in Embed, NEW w \in Seq(Embed), NEW v \in Seq(Embed),
           <<e>> \o w = <<e>> \o v
    PROVE  w = v
<1> DEFINE s == <<e>> \o w
           r == <<e>> \o v
<1>1. /\ Len(s) = Len(w) + 1 /\ Len(w) \in Nat /\ \A i \in 1..Len(w) : s[i + 1] = w[i]
      /\ Len(r) = Len(v) + 1 /\ Len(v) \in Nat /\ \A i \in 1..Len(v) : r[i + 1] = v[i]
  OBVIOUS
<1>2. s = r
  OBVIOUS
<1> HIDE DEF s, r
<1>3. Len(w) = Len(v)
  BY <1>1, <1>2
<1>4. \A i \in 1..Len(w) : w[i] = v[i]
  BY <1>1, <1>2, <1>3
<1> QED BY <1>3, <1>4

\* An alias declares nothing; a type that is none is its own only name.
LEMMA DeclarersStep ==
    ASSUME project \in Projects, NEW t \in Types, NEW m \in Method
    PROVE  /\ project[t].kind = "alias" => Declarers(t, m) = Declarers(project[t].to, m)
           /\ project[t].kind # "alias" =>
                Declarers(t, m) = IF project[t].declared[m] # {} THEN {t} ELSE {}
<1>1. Aliases(t) = {t} \cup (IF project[t].kind \in {"alias"}
                             THEN Chain(project[t].to, {"alias"}) ELSE {})
  BY ChainStep DEF Aliases
<1>2. CASE project[t].kind = "alias"
  <2>1. Aliases(t) = {t} \cup Aliases(project[t].to)
    BY <1>1, <1>2 DEF Aliases
  <2>2. project[t].declared[m] = {}
    BY <1>2, TypeFacts
  <2> QED BY <1>2, <2>1, <2>2 DEF Declarers
<1>3. CASE project[t].kind # "alias"
  <2>1. Aliases(t) = {t}
    BY <1>1, <1>3
  <2> QED BY <1>3, <2>1 DEF Declarers
<1> QED BY <1>2, <1>3

\* An alias selects what the type it names does.
LEMMA AliasSelects ==
    ASSUME project \in Projects, NEW t \in Types, project[t].kind = "alias",
           NEW keep, NEW home
    PROVE  Selected(t, keep, home) = Selected(project[t].to, keep, home)
<1> DEFINE u == project[t].to
           P == PathsFrom(t)
<1>1. u \in Types /\ P = PathsFrom(u) /\ EndOfChain(t) = EndOfChain(u)
  BY TypeShape, PathsOfChain, ChainEnds
<1>2. \A m \in Method : Declarers(t, m) = Declarers(u, m)
  BY DeclarersStep
<1>3. ASSUME NEW m \in Method, NEW w, NEW k
      PROVE  /\ Provides(EndOf(t, w), k, m) <=> Provides(EndOf(u, w), k, m)
             /\ Declarers(EndOf(t, w), m) = Declarers(EndOf(u, w), m)
  <2>1. CASE w = <<>>
    BY <1>1, <1>2, <2>1 DEF EndOf, Provides
  <2>2. CASE w # <<>>
    BY <2>2 DEF EndOf
  <2> QED BY <2>1, <2>2
<1> HIDE DEF u, P
<1>4. ASSUME NEW m \in Method
      PROVE  /\ WaysTo(P, t, keep, m) = WaysTo(P, u, keep, m)
             /\ Nearest(P, t, keep, m) = Nearest(P, u, keep, m)
  BY <1>3 DEF WaysTo, Nearest
<1>5. ASSUME NEW m \in Method, NEW w
      PROVE  FoundAt(w, t, keep, home, m) = FoundAt(w, u, keep, home, m)
  BY <1>3 DEF FoundAt, DeclsAt, DeclarerAt
<1>6. ASSUME NEW m \in Method, NEW nearest
      PROVE  FoundAmong(nearest, t, keep, home, m) = FoundAmong(nearest, u, keep, home, m)
  BY <1>5 DEF FoundAmong
<1> DEFINE names == {m \in Method : WaysTo(P, t, keep, m) # {}}
<1>7. names = {m \in Method : WaysTo(P, u, keep, m) # {}}
  BY <1>4
<1>8. \A m \in names : FoundAmong(Nearest(P, t, keep, m), t, keep, home, m) =
                       FoundAmong(Nearest(P, u, keep, m), u, keep, home, m)
  BY <1>4, <1>6
<1>9. Selected(t, keep, home) =
        [m \in names |-> FoundAmong(Nearest(P, t, keep, m), t, keep, home, m)]
  BY DEF Selected, P
<1>10. Selected(u, keep, home) =
        [m \in names |-> FoundAmong(Nearest(P, u, keep, m), u, keep, home, m)]
  BY <1>1, <1>7 DEF Selected
<1> HIDE DEF names
<1>11. Selected(t, keep, home) = Selected(u, keep, home)
  BY <1>8, <1>9, <1>10
<1> QED BY <1>11 DEF u

\* A type provides what it declares itself, or a field of the struct it is.
LEMMA OwnSelects ==
    ASSUME project \in Projects, NEW t \in Types, project[t].kind # "alias",
           NEW keep \in BOOLEAN, NEW home, NEW m \in Method, Provides(t, keep, m)
    PROVE  /\ m \in DOMAIN Selected(t, keep, home)
           /\ Selected(t, keep, home)[m] =
                IF keep /\ project[t].declared[m] # {} THEN Declared(t, home)[m] ELSE Zero
<1> DEFINE P == PathsFrom(t)
           ways == WaysTo(P, t, keep, m)
           nearest == Nearest(P, t, keep, m)
<1>1. P \subseteq Seq(Embed) /\ <<>> \in P
  BY PathsTyped
<1>2. <<>> \in ways
  BY <1>1 DEF WaysTo, EndOf
<1>3. nearest = {<<>>}
  <2>1. \A w \in ways : Len(w) \in Nat /\ (Len(w) = 0 <=> w = <<>>)
    BY <1>1 DEF WaysTo
  <2>2. Len(<<>>) = 0
    OBVIOUS
  <2>3. nearest = {w \in ways : \A v \in ways : Len(w) <= Len(v)}
    BY DEF Nearest
  <2> HIDE DEF nearest, ways
  <2>4. \A w \in ways : (\A v \in ways : Len(w) <= Len(v)) <=> w = <<>>
    BY <1>2, <2>1, <2>2
  <2> QED BY <1>2, <2>3, <2>4
<1>4. m \in DOMAIN Selected(t, keep, home)
      /\ Selected(t, keep, home)[m] = FoundAmong(nearest, t, keep, home, m)
  BY <1>2 DEF Selected
<1>5. FoundAmong(nearest, t, keep, home, m) = FoundAt(<<>>, t, keep, home, m)
  <2> HIDE DEF nearest
  <2> QED BY <1>3, FoundAmongShape
<1>6. Declarers(t, m) = IF project[t].declared[m] # {} THEN {t} ELSE {}
  BY DeclarersStep
<1>7. CASE keep /\ project[t].declared[m] # {}
  <2> DEFINE D == project[t].declared[m]
             ex == \E d \in D : d.exact
             pt == \E d \in D : d.ptr
             e == [depth |-> 0, exact |-> ex, ambiguous |-> FALSE, ptrOnly |-> pt,
                   owner |-> Owner(t, home), via |-> 0]
  <2>1. Declarers(EndOf(t, <<>>), m) = {t} /\ (CHOOSE u \in {t} : TRUE) = t
    BY <1>6, <1>7 DEF EndOf
  <2>2. DeclarerAt(<<>>, t, m) = t /\ DeclsAt(<<>>, t, keep, m) = D
    BY <1>7, <2>1 DEF DeclarerAt, DeclsAt
  <2>3. Len(<<>>) = 0 /\ \A i \in DOMAIN <<>> : ~<<>>[i].ptr
    OBVIOUS
  <2>4. D # {}
    BY <1>7
  <2>5. FoundAt(<<>>, t, keep, home, m) =
          [Zero EXCEPT !.depth = Len(<<>>), !.exact = ex, !.ptrOnly = pt,
                       !.owner = Owner(t, home), !.via = 0]
    <3> HIDE DEF D
    <3> QED BY Zenon, <2>2, <2>3, <2>4 DEF FoundAt
  <2>6. Declared(t, home)[m] = [Zero EXCEPT !.exact = ex, !.ptrOnly = pt, !.owner = Owner(t, home)]
    BY <1>7 DEF Declared
  <2>7. Len(<<>>) = 0 /\ ex \in BOOLEAN /\ pt \in BOOLEAN
    BY <2>3
  <2> HIDE DEF ex, pt
  <2>8. FoundAt(<<>>, t, keep, home, m) = Declared(t, home)[m]
    <3>1. FoundAt(<<>>, t, keep, home, m) = e
      BY <2>5, <2>7 DEF Zero
    <3>2. Declared(t, home)[m] = e
      BY <2>6, <2>7 DEF Zero
    <3> QED BY <3>1, <3>2
  <2> QED BY <1>4, <1>5, <1>7, <2>8
<1>8. CASE ~(keep /\ project[t].declared[m] # {})
  <2>1. Declarers(EndOf(t, <<>>), m) = {} \/ ~keep
    BY <1>6, <1>8 DEF EndOf
  <2>2. DeclsAt(<<>>, t, keep, m) = {}
    BY <2>1 DEF DeclsAt
  <2>3. /\ Len(<<>>) = 0
        /\ \A D : D = {} => (\E d \in D : d.exact) = FALSE /\ (\E d \in D : d.ptr) = FALSE
    BY Zenon
  <2>4. FoundAt(<<>>, t, keep, home, m) =
          [Zero EXCEPT !.depth = Len(<<>>), !.exact = FALSE, !.ptrOnly = FALSE,
                       !.owner = NoOwner, !.via = 0]
    BY Zenon, <2>2 DEF FoundAt
  <2>5. FoundAt(<<>>, t, keep, home, m) = Zero
    BY <2>3, <2>4 DEF Zero
  <2> QED BY <1>4, <1>5, <1>8, <2>5
<1> QED BY <1>7, <1>8

LEMMA FoundAmongSame ==
    ASSUME NEW nearest, NEW t, NEW u, NEW keep, NEW kept, NEW home, NEW m,
           \A w : FoundAt(w, t, keep, home, m) = FoundAt(w, u, kept, home, m)
    PROVE  FoundAmong(nearest, t, keep, home, m) = FoundAmong(nearest, u, kept, home, m)
BY DEF FoundAmong

Declares(t, keep, m) == keep /\ project[t].declared[m] # {}

\* What a type declares itself comes before what it selects otherwise.
LEMMA SelectedOver ==
    ASSUME project \in Projects, NEW t \in Types, project[t].kind # "alias",
           NEW keep \in BOOLEAN, NEW home, NEW deeper, DOMAIN deeper \subseteq Method,
           \A m \in Method : ~Declares(t, keep, m) =>
             /\ m \in DOMAIN Selected(t, keep, home) <=> m \in DOMAIN deeper
             /\ m \in DOMAIN deeper => Selected(t, keep, home)[m] = deeper[m]
    PROVE  Selected(t, keep, home) =
             Over(Own(t, keep, home), deeper)
<1> DEFINE sel == Selected(t, keep, home)
           own == Own(t, keep, home)
           declares(m) == Declares(t, keep, m)
<1>1. /\ DOMAIN own = {m \in Method : declares(m)}
      /\ \A m \in DOMAIN own : own[m] = Declared(t, home)[m]
  BY DEF Own, Declared, EmptySet, Declares
<1>2. ASSUME NEW m \in Method, declares(m)
      PROVE  m \in DOMAIN sel /\ sel[m] = Declared(t, home)[m]
  <2>1. Declarers(t, m) = {t}
    BY <1>2, DeclarersStep DEF Declares
  <2>2. Provides(t, keep, m)
    BY <1>2, <2>1 DEF Provides, Declares
  <2>3. m \in DOMAIN sel /\ sel[m] = IF declares(m) THEN Declared(t, home)[m] ELSE Zero
    BY <2>2, OwnSelects DEF Declares
  <2> QED BY <1>2, <2>3
<1>3. DOMAIN sel \subseteq Method /\ sel = [m \in DOMAIN sel |-> sel[m]]
  BY DEF Selected
<1>4. \A m \in Method : ~declares(m) => /\ m \in DOMAIN sel <=> m \in DOMAIN deeper
                                        /\ m \in DOMAIN deeper => sel[m] = deeper[m]
  OBVIOUS
<1>5. Over(own, deeper) =
        [m \in DOMAIN own \cup DOMAIN deeper |-> IF m \in DOMAIN own THEN own[m] ELSE deeper[m]]
  BY DEF Over
<1> HIDE DEF sel, own, declares
<1>6. DOMAIN sel = DOMAIN own \cup DOMAIN deeper
  BY <1>1, <1>2, <1>3, <1>4
<1>7. \A m \in DOMAIN sel : sel[m] = IF m \in DOMAIN own THEN own[m] ELSE deeper[m]
  BY <1>1, <1>2, <1>3, <1>4, <1>6
<1>8. sel = Over(own, deeper)
  BY <1>3, <1>5, <1>6, <1>7
<1> QED BY <1>8 DEF sel, own

\* The methods a type declares itself do not count.
Drops(keep) == keep = FALSE

\* A defined type selects what its underlying type does, without the methods.
LEMMA DefinedSelects ==
    ASSUME project \in Projects, NEW t \in Types, project[t].kind = "defined",
           NEW keep \in BOOLEAN, NEW kept, Drops(kept), NEW home
    PROVE  Selected(t, keep, home) =
             Over(Own(t, keep, home), Selected(project[t].to, kept, home))
<1> DEFINE u == project[t].to
           P == PathsFrom(t)
<1>1. /\ u \in Types /\ P = PathsFrom(u) /\ EndOfChain(t) = EndOfChain(u)
      /\ project[t].kind # "alias"
  BY TypeShape, PathsOfChain, ChainEnds
<1> HIDE DEF u, P
<1>2. ASSUME NEW m \in Method, ~Declares(t, keep, m)
      PROVE  /\ m \in DOMAIN Selected(t, keep, home) <=> m \in DOMAIN Selected(u, kept, home)
             /\ m \in DOMAIN Selected(u, kept, home) =>
                  Selected(t, keep, home)[m] = Selected(u, kept, home)[m]
  <2>1. Declarers(t, m) = {} \/ ~keep
    BY <1>1, <1>2, DeclarersStep DEF Declares
  <2>2. ASSUME NEW w
        PROVE  /\ Provides(EndOf(t, w), keep \/ w # <<>>, m)
                    <=> Provides(EndOf(u, w), kept \/ w # <<>>, m)
               /\ DeclsAt(w, t, keep, m) = DeclsAt(w, u, kept, m)
               /\ w # <<>> => DeclarerAt(w, t, m) = DeclarerAt(w, u, m)
               /\ w = <<>> => DeclsAt(w, t, keep, m) = {}
    <3>1. CASE w = <<>>
      BY <1>1, <2>1, <3>1 DEF EndOf, Provides, DeclsAt, Drops
    <3>2. CASE w # <<>>
      <4>1. EndOf(t, w) = EndOf(u, w)
        BY <3>2 DEF EndOf
      <4> QED BY <3>2, <4>1 DEF DeclsAt, DeclarerAt
    <3> QED BY <3>1, <3>2
  <2>3. WaysTo(P, t, keep, m) = WaysTo(P, u, kept, m)
    BY <2>2 DEF WaysTo
  <2>4. Nearest(P, t, keep, m) = Nearest(P, u, kept, m)
    BY <2>3 DEF Nearest
  <2>5. ASSUME NEW w PROVE FoundAt(w, t, keep, home, m) = FoundAt(w, u, kept, home, m)
    <3>1. CASE w = <<>>
      BY Zenon, <2>2, <3>1 DEF FoundAt
    <3>2. CASE w # <<>>
      BY Zenon, <2>2, <3>2 DEF FoundAt
    <3> QED BY <3>1, <3>2
  <2>6. ASSUME NEW nearest
        PROVE  FoundAmong(nearest, t, keep, home, m) = FoundAmong(nearest, u, kept, home, m)
    BY <2>5, FoundAmongSame
  <2>7. FoundAmong(Nearest(P, t, keep, m), t, keep, home, m) =
          FoundAmong(Nearest(P, u, kept, m), u, kept, home, m)
    BY <2>4, <2>6
  <2> QED BY <1>1, <2>3, <2>7 DEF Selected, P
<1> DEFINE deeper == Selected(u, kept, home)
<1>3. DOMAIN deeper \subseteq Method
  BY DEF Selected
<1>4. \A m \in Method : ~Declares(t, keep, m) =>
        /\ m \in DOMAIN Selected(t, keep, home) <=> m \in DOMAIN deeper
        /\ m \in DOMAIN deeper => Selected(t, keep, home)[m] = deeper[m]
  BY <1>2
<1> HIDE DEF deeper
<1>5. Selected(t, keep, home) = Over(Own(t, keep, home), deeper)
  <2>1. t \in Types /\ project[t].kind # "alias" /\ keep \in BOOLEAN
    BY <1>1
  <2> HIDE DEF deeper
  <2> QED BY <1>3, <1>4, <2>1, SelectedOver
<1> QED BY <1>5 DEF deeper, u

\* The methods a type declares itself count.
Keeps(keep) == keep = TRUE

\* The path by the i-th embed of t and then w.
By(t, i, w) == <<project[t].embeds[i]>> \o w
EmbedIn(t, i) == project[t].embeds[i].to

LEMMA ByShape ==
    ASSUME project \in Projects, NEW t \in Types, NEW i \in DOMAIN project[t].embeds,
           NEW w \in PathsFrom(EmbedIn(t, i))
    PROVE  /\ EmbedIn(t, i) \in Types /\ project[t].embeds[i] \in Embed /\ w \in Seq(Embed)
           /\ EndOf(t, By(t, i, w)) = EndOf(EmbedIn(t, i), w)
           /\ By(t, i, w) # <<>> /\ Len(By(t, i, w)) = Len(w) + 1 /\ Len(w) \in Nat
           /\ By(t, i, w)[1] = project[t].embeds[i]
           /\ (\A j \in DOMAIN By(t, i, w) : ~By(t, i, w)[j].ptr)
                <=> ~project[t].embeds[i].ptr /\ \A j \in DOMAIN w : ~w[j].ptr
<1>1. EmbedIn(t, i) \in Types /\ project[t].embeds \in Seq(Embed)
  BY TypeShape DEF EmbedIn, NamedType
<1>2. w \in Seq(Embed) /\ project[t].embeds[i] \in Embed
  BY <1>1, PathsTyped
<1>3. Len(w) \in Nat
  BY <1>2
<1> DEFINE e == project[t].embeds[i]
<1>4. e \in Embed /\ e.to = EmbedIn(t, i) /\ By(t, i, w) = <<e>> \o w
  BY <1>2 DEF EmbedIn, By
<1> HIDE DEF e
<1>5. /\ EndOf(t, <<e>> \o w) = EndOf(e.to, w)
      /\ <<e>> \o w # <<>>
      /\ Len(<<e>> \o w) = Len(w) + 1 /\ (<<e>> \o w)[1] = e
      /\ (\A j \in DOMAIN (<<e>> \o w) : ~(<<e>> \o w)[j].ptr)
           <=> ~e.ptr /\ \A j \in DOMAIN w : ~w[j].ptr
  BY <1>2, <1>4, LongerWay
<1> QED BY Zenon, <1>1, <1>2, <1>3, <1>4, <1>5 DEF e

\* Paths by different embeds differ, and so do different paths by one.
LEMMA ByOne ==
    ASSUME project \in Projects, NEW t \in Types,
           NEW i \in DOMAIN project[t].embeds, NEW w \in PathsFrom(EmbedIn(t, i)),
           NEW j \in DOMAIN project[t].embeds, NEW v \in PathsFrom(EmbedIn(t, j)),
           By(t, i, w)[1] = By(t, j, v)[1]
    PROVE  i = j /\ (By(t, i, w) = By(t, j, v) => w = v)
<1>1. project[t].embeds[i] = project[t].embeds[j]
  BY ByShape
<1>2. i = j
  BY <1>1, TypeFacts
<1>3. w \in Seq(Embed) /\ v \in Seq(Embed) /\ project[t].embeds[i] \in Embed
  BY ByShape
<1>4. By(t, i, w) = By(t, j, v) => w = v
  BY <1>2, <1>3, LongerWayOne DEF By
<1> QED BY <1>2, <1>4

LEMMA WaysBelow ==
    ASSUME project \in Projects, NEW t \in Types, project[t].kind \notin {"alias", "defined"},
           PathsJoin(t), NEW keep, NEW kept, Keeps(kept), NEW m, ~Provides(t, keep, m)
    PROVE  \A s : s \in WaysTo(PathsFrom(t), t, keep, m) <=>
             \E i \in DOMAIN project[t].embeds :
               \E w \in WaysTo(PathsFrom(EmbedIn(t, i)), EmbedIn(t, i), kept, m) :
                 s = By(t, i, w)
<1>1. EmbedsOf(t) = {project[t].embeds[i] : i \in DOMAIN project[t].embeds}
  BY EmbedsShape
<1>2. \A s : s \in PathsFrom(t) <=>
        s = <<>> \/ \E i \in DOMAIN project[t].embeds :
                      \E w \in PathsFrom(EmbedIn(t, i)) : s = By(t, i, w)
  <2>1. ASSUME NEW s
        PROVE  (\E e \in EmbedsOf(t) : \E w \in PathsFrom(e.to) : s = <<e>> \o w) <=>
                 \E i \in DOMAIN project[t].embeds :
                   \E w \in PathsFrom(EmbedIn(t, i)) : s = By(t, i, w)
    <3>1. ASSUME NEW e \in EmbedsOf(t), NEW w \in PathsFrom(e.to), s = <<e>> \o w
          PROVE  \E i \in DOMAIN project[t].embeds :
                   \E v \in PathsFrom(EmbedIn(t, i)) : s = By(t, i, v)
      <4>1. PICK i \in DOMAIN project[t].embeds : e = project[t].embeds[i]
        BY <1>1
      <4> QED BY Zenon, <3>1, <4>1 DEF EmbedIn, By
    <3>2. ASSUME NEW i \in DOMAIN project[t].embeds, NEW w \in PathsFrom(EmbedIn(t, i)),
                 s = By(t, i, w)
          PROVE  \E e \in EmbedsOf(t) : \E v \in PathsFrom(e.to) : s = <<e>> \o v
      <4>1. project[t].embeds[i] \in EmbedsOf(t)
        BY <1>1
      <4> QED BY Zenon, <3>2, <4>1 DEF EmbedIn, By
    <3> QED BY Zenon, <3>1, <3>2
  <2> QED BY Zenon, <2>1 DEF PathsJoin
<1>3. <<>> \notin WaysTo(PathsFrom(t), t, keep, m)
  <2>1. EndOf(t, <<>>) = t
    BY DEF EndOf
  <2>2. ~Provides(t, keep \/ <<>> # <<>>, m)
    BY Zenon DEF Provides
  <2> QED BY Zenon, <2>1, <2>2 DEF WaysTo
<1>4. ASSUME NEW i \in DOMAIN project[t].embeds, NEW w \in PathsFrom(EmbedIn(t, i))
      PROVE  By(t, i, w) \in WaysTo(PathsFrom(t), t, keep, m) <=>
               w \in WaysTo(PathsFrom(EmbedIn(t, i)), EmbedIn(t, i), kept, m)
  <2>1. By(t, i, w) \in PathsFrom(t) /\ By(t, i, w) # <<>>
        /\ EndOf(t, By(t, i, w)) = EndOf(EmbedIn(t, i), w)
    BY <1>2, ByShape
  <2>2. (keep \/ By(t, i, w) # <<>>) = TRUE /\ (kept \/ w # <<>>) = TRUE
    BY <2>1 DEF Keeps
  <2> QED BY <2>1, <2>2 DEF WaysTo
<1>5. ASSUME NEW s \in WaysTo(PathsFrom(t), t, keep, m)
      PROVE  \E i \in DOMAIN project[t].embeds :
               \E w \in WaysTo(PathsFrom(EmbedIn(t, i)), EmbedIn(t, i), kept, m) :
                 s = By(t, i, w)
  <2>1. s \in PathsFrom(t) /\ s # <<>>
    BY <1>3 DEF WaysTo
  <2>2. PICK i \in DOMAIN project[t].embeds : \E w \in PathsFrom(EmbedIn(t, i)) : s = By(t, i, w)
    BY <1>2, <2>1
  <2>3. PICK w \in PathsFrom(EmbedIn(t, i)) : s = By(t, i, w)
    BY <2>2
  <2>4. w \in WaysTo(PathsFrom(EmbedIn(t, i)), EmbedIn(t, i), kept, m)
    BY <1>4, <2>3
  <2> QED BY <2>3, <2>4
<1>6. ASSUME NEW i \in DOMAIN project[t].embeds,
             NEW w \in WaysTo(PathsFrom(EmbedIn(t, i)), EmbedIn(t, i), kept, m)
      PROVE  By(t, i, w) \in WaysTo(PathsFrom(t), t, keep, m)
  <2>1. w \in PathsFrom(EmbedIn(t, i))
    BY DEF WaysTo
  <2> QED BY <1>4, <2>1
<1> QED BY <1>5, <1>6

\* A selected entry, its depth and the paths it is selected from.
LEMMA SelectedShape ==
    ASSUME project \in Projects, NEW t \in Types, NEW keep, NEW home, NEW m \in Method
    PROVE  LET ways == WaysTo(PathsFrom(t), t, keep, m)
               nearest == Nearest(PathsFrom(t), t, keep, m)
               sel == Selected(t, keep, home)
           IN  /\ m \in DOMAIN sel <=> ways # {}
               /\ m \in DOMAIN sel =>
                    /\ sel[m] = FoundAmong(nearest, t, keep, home, m)
                    /\ sel[m].depth \in Nat
                    /\ \A w \in ways : Len(w) \in Nat /\ sel[m].depth <= Len(w)
                    /\ nearest = {w \in ways : Len(w) = sel[m].depth}
                    /\ nearest # {}
<1> DEFINE P == PathsFrom(t)
           ways == WaysTo(P, t, keep, m)
           nearest == Nearest(P, t, keep, m)
           sel == Selected(t, keep, home)
<1>1. m \in DOMAIN sel <=> ways # {}
  BY DEF Selected
<1>2. ASSUME m \in DOMAIN sel
      PROVE  /\ sel[m] = FoundAmong(nearest, t, keep, home, m)
             /\ sel[m].depth \in Nat
             /\ \A w \in ways : Len(w) \in Nat /\ sel[m].depth <= Len(w)
             /\ nearest = {w \in ways : Len(w) = sel[m].depth}
             /\ nearest # {}
  <2>1. sel[m] = FoundAmong(nearest, t, keep, home, m)
    BY <1>2 DEF Selected
  <2>2. PICK d \in Nat : /\ \A w \in ways : Len(w) \in Nat /\ d <= Len(w)
                         /\ nearest = {w \in ways : Len(w) = d}
                         /\ nearest # {}
    <3>1. P \subseteq Seq(Embed) /\ ways # {}
      BY <1>1, <1>2, PathsTyped
    <3> QED BY <3>1, NearestShape
  <2> HIDE DEF sel, nearest, ways
  <2>3. \A w \in nearest : Len(w) = d
    BY <2>2
  <2>4. FoundAmong(nearest, t, keep, home, m).depth = d
    <3>1. nearest # {} /\ \A w \in nearest : Len(w) = d
      BY <2>2
    <3> QED BY <3>1, FoundDepth
  <2> QED BY Zenon, <2>1, <2>2, <2>4
<1> QED BY <1>1, <1>2

\* What is found by an embed is its entry, promoted.
LEMMA FoundBelow ==
    ASSUME project \in Projects, NEW t \in Types, NEW keep, NEW kept, Keeps(kept),
           NEW home, NEW m, NEW i \in DOMAIN project[t].embeds,
           NEW w \in PathsFrom(EmbedIn(t, i))
    PROVE  FoundAt(By(t, i, w), t, keep, home, m) =
             Lifted(FoundAt(w, EmbedIn(t, i), kept, home, m), project[t].embeds[i])
<1> DEFINE s == By(t, i, w)
           u == EmbedIn(t, i)
           e == project[t].embeds[i]
           decls == DeclsAt(w, u, kept, m)
           ex == \E d \in decls : d.exact
           pt == \E d \in decls : d.ptr
           ws == \A j \in DOMAIN w : ~w[j].ptr
           ss == \A j \in DOMAIN s : ~s[j].ptr
           found == [depth |-> Len(w), exact |-> ex, ambiguous |-> FALSE,
                     ptrOnly |-> pt /\ ws,
                     owner |-> IF w = <<>> /\ decls # {} THEN Owner(DeclarerAt(w, u, m), home)
                               ELSE NoOwner,
                     via |-> IF w = <<>> THEN 0 ELSE w[1].to]
<1>1. /\ EndOf(t, s) = EndOf(u, w) /\ s # <<>> /\ s[1] = e
      /\ Len(s) = Len(w) + 1 /\ Len(w) \in Nat /\ (ss <=> ~e.ptr /\ ws) /\ e.to = u
  BY ByShape DEF EmbedIn
<1>2. DeclsAt(s, t, keep, m) = decls
  <2>1. DeclarerAt(s, t, m) = DeclarerAt(w, u, m)
    BY Zenon, <1>1 DEF DeclarerAt
  <2> QED BY Zenon, <1>1, <2>1 DEF DeclsAt, Keeps
<1>3. FoundAt(w, u, kept, home, m) = found
  <2> DEFINE owner == IF w = <<>> /\ decls # {} THEN Owner(DeclarerAt(w, u, m), home) ELSE NoOwner
             via == IF w = <<>> THEN 0 ELSE w[1].to
             po == pt /\ ws
  <2>1. FoundAt(w, u, kept, home, m) =
          [Zero EXCEPT !.depth = Len(w), !.exact = ex, !.ptrOnly = po, !.owner = owner,
                       !.via = via]
    BY Zenon DEF FoundAt
  <2>2. found = [depth |-> Len(w), exact |-> ex, ambiguous |-> FALSE, ptrOnly |-> po,
                 owner |-> owner, via |-> via]
    BY Zenon
  <2> HIDE DEF ex, po, owner, via, found
  <2> QED BY <2>1, <2>2 DEF Zero
<1>4. FoundAt(s, t, keep, home, m) =
        [depth |-> Len(s), exact |-> ex, ambiguous |-> FALSE, ptrOnly |-> pt /\ ss,
         owner |-> NoOwner, via |-> e.to]
  <2> DEFINE po == pt /\ ss
  <2>1. FoundAt(s, t, keep, home, m) =
          [Zero EXCEPT !.depth = Len(s), !.exact = ex, !.ptrOnly = po, !.owner = NoOwner,
                       !.via = e.to]
    <3> HIDE DEF s, e, decls
    <3> QED BY Zenon, <1>1, <1>2 DEF FoundAt
  <2> HIDE DEF ex, po, s, e
  <2>2. FoundAt(s, t, keep, home, m) =
          [depth |-> Len(s), exact |-> ex, ambiguous |-> FALSE, ptrOnly |-> po,
           owner |-> NoOwner, via |-> e.to]
    BY <2>1 DEF Zero
  <2> QED BY Zenon, <2>2 DEF po
<1>5. (pt /\ ss) = ((pt /\ ws) /\ ~e.ptr)
  BY Zenon, <1>1
<1> HIDE DEF s, ex, pt, ws, ss, e
<1>6. Lifted(found, e) =
        [depth |-> Len(w) + 1, exact |-> ex, ambiguous |-> FALSE,
         ptrOnly |-> (pt /\ ws) /\ ~e.ptr, owner |-> NoOwner, via |-> e.to]
  <2> DEFINE po == pt /\ ws
             up == po /\ ~e.ptr
  <2>1. found.ptrOnly = po /\ found.depth = Len(w)
    BY Zenon
  <2>2. Lifted(found, e) = [found EXCEPT !.depth = found.depth + 1, !.ptrOnly = up,
                                         !.owner = NoOwner, !.via = e.to]
    BY <2>1 DEF Lifted
  <2> HIDE DEF up
  <2>3. Lifted(found, e) =
          [depth |-> Len(w) + 1, exact |-> ex, ambiguous |-> FALSE, ptrOnly |-> up,
           owner |-> NoOwner, via |-> e.to]
    BY <2>1, <2>2
  <2> QED BY Zenon, <2>3 DEF up, po
<1>7. FoundAt(s, t, keep, home, m) = Lifted(FoundAt(w, u, kept, home, m), e)
  BY Zenon, <1>1, <1>3, <1>4, <1>5, <1>6
<1> QED BY Zenon, <1>7 DEF s, e

\* A clash below one embed is that clash, promoted.
LEMMA ClashBelow ==
    ASSUME NEW nearest, NEW w, NEW below, NEW v, NEW embed,
           Len(w) = Len(v) + 1, w[1] = embed, \A x \in nearest : x[1] = w[1]
    PROVE  ClashAt(nearest, w) = Lifted(ClashAt(below, v), embed)
<1> DEFINE via == IF \A x \in below : x[1] = v[1] THEN v[1].to ELSE 0
           clash == ClashAt(below, v)
<1>1. clash = [depth |-> Len(v), exact |-> FALSE, ambiguous |-> TRUE, ptrOnly |-> FALSE,
               owner |-> NoOwner, via |-> via]
  <2>1. clash = [Zero EXCEPT !.depth = Len(v), !.ambiguous = TRUE, !.via = via]
    BY Zenon DEF ClashAt
  <2> HIDE DEF clash, via
  <2> QED BY <2>1 DEF Zero
<1>2. ClashAt(nearest, w) =
        [depth |-> Len(w), exact |-> FALSE, ambiguous |-> TRUE, ptrOnly |-> FALSE,
         owner |-> NoOwner, via |-> embed.to]
  <2>1. (IF \A x \in nearest : x[1] = w[1] THEN w[1].to ELSE 0) = embed.to
    BY Zenon
  <2>2. ClashAt(nearest, w) = [Zero EXCEPT !.depth = Len(w), !.ambiguous = TRUE,
                                           !.via = embed.to]
    BY Zenon, <2>1 DEF ClashAt
  <2> QED BY <2>2 DEF Zero
<1> HIDE DEF clash, via
<1>3. clash.ptrOnly = FALSE /\ clash.depth = Len(v)
  BY <1>1
<1>4. Lifted(clash, embed) =
        [clash EXCEPT !.depth = Len(v) + 1, !.ptrOnly = FALSE, !.owner = NoOwner,
                      !.via = embed.to]
  <2>1. (clash.ptrOnly /\ ~embed.ptr) = FALSE
    BY Zenon, <1>3
  <2> QED BY Zenon, <1>3, <2>1 DEF Lifted
<1>5. Lifted(clash, embed) =
        [depth |-> Len(v) + 1, exact |-> FALSE, ambiguous |-> TRUE, ptrOnly |-> FALSE,
         owner |-> NoOwner, via |-> embed.to]
  BY <1>1, <1>4
<1> QED BY Zenon, <1>2, <1>5 DEF clash

\* The method sets of t's embeds.
BelowSets(t, kept, home) ==
    [i \in DOMAIN project[t].embeds |-> Selected(EmbedIn(t, i), kept, home)]

\* A name t does not provide itself comes from the embeds that have it
\* shallowest, or is in no method set when they are several.
LEMMA PromotedName ==
    ASSUME project \in Projects, NEW t \in Types, project[t].kind \notin {"alias", "defined"},
           PathsJoin(t), NEW keep, NEW kept, Keeps(kept), NEW home,
           NEW m \in Method, ~Provides(t, keep, m)
    PROVE  LET sets == BelowSets(t, kept, home)
               promoted == Promote(project[t].embeds, sets)
           IN  /\ m \in DOMAIN Selected(t, keep, home) <=> m \in DOMAIN promoted
               /\ m \in DOMAIN promoted => Selected(t, keep, home)[m] = promoted[m]
<1>0. \A s : s \in WaysTo(PathsFrom(t), t, keep, m) <=>
        \E i \in DOMAIN project[t].embeds :
          \E w \in WaysTo(PathsFrom(EmbedIn(t, i)), EmbedIn(t, i), kept, m) : s = By(t, i, w)
  BY WaysBelow
<1> DEFINE sets == BelowSets(t, kept, home)
           promoted == Promote(project[t].embeds, sets)
           sel == Selected(t, keep, home)
           ways == WaysTo(PathsFrom(t), t, keep, m)
           nearest == Nearest(PathsFrom(t), t, keep, m)
           waysIn(i) == WaysTo(PathsFrom(EmbedIn(t, i)), EmbedIn(t, i), kept, m)
           nearestIn(i) == Nearest(PathsFrom(EmbedIn(t, i)), EmbedIn(t, i), kept, m)
           I == DOMAIN project[t].embeds
<1>1. /\ DOMAIN sets = I /\ \A i \in I : sets[i] = Selected(EmbedIn(t, i), kept, home)
      /\ DOMAIN promoted = UNION {DOMAIN sets[i] : i \in I}
  BY DEF BelowSets, Promote
<1>2. \A s : s \in ways <=> \E i \in I : \E w \in waysIn(i) : s = By(t, i, w)
  BY Zenon, <1>0
<1>3. /\ m \in DOMAIN sel <=> ways # {}
      /\ m \in DOMAIN sel =>
           /\ sel[m] = FoundAmong(nearest, t, keep, home, m)
           /\ sel[m].depth \in Nat
           /\ \A w \in ways : Len(w) \in Nat /\ sel[m].depth <= Len(w)
           /\ nearest = {w \in ways : Len(w) = sel[m].depth}
           /\ nearest # {}
  BY SelectedShape
<1>4. ASSUME NEW i \in I
      PROVE  /\ m \in DOMAIN sets[i] <=> waysIn(i) # {}
             /\ m \in DOMAIN sets[i] =>
                  /\ sets[i][m] = FoundAmong(nearestIn(i), EmbedIn(t, i), kept, home, m)
                  /\ sets[i][m].depth \in Nat
                  /\ \A w \in waysIn(i) : Len(w) \in Nat /\ sets[i][m].depth <= Len(w)
                  /\ nearestIn(i) = {w \in waysIn(i) : Len(w) = sets[i][m].depth}
                  /\ nearestIn(i) # {}
  <2>1. EmbedIn(t, i) \in Types
    BY TypeShape DEF EmbedIn
  <2>2. sets[i] = Selected(EmbedIn(t, i), kept, home)
    BY <1>1
  <2> DEFINE u == EmbedIn(t, i)
             setIn == Selected(u, kept, home)
  <2>3. /\ m \in DOMAIN setIn <=> waysIn(i) # {}
        /\ m \in DOMAIN setIn =>
             /\ setIn[m] = FoundAmong(nearestIn(i), u, kept, home, m)
             /\ setIn[m].depth \in Nat
             /\ \A w \in waysIn(i) : Len(w) \in Nat /\ setIn[m].depth <= Len(w)
             /\ nearestIn(i) = {w \in waysIn(i) : Len(w) = setIn[m].depth}
             /\ nearestIn(i) # {}
    <3> HIDE DEF u
    <3> QED BY <2>1, SelectedShape DEF u
  <2>4. sets[i] = setIn
    BY <2>2
  <2> HIDE DEF sets, setIn, waysIn, nearestIn
  <2> QED BY Zenon, <2>3, <2>4
<1>5. \A i \in I : waysIn(i) \subseteq PathsFrom(EmbedIn(t, i))
  BY DEF WaysTo
<1> HIDE DEF sets, promoted, sel, ways, nearest, waysIn, nearestIn
<1>6. m \in DOMAIN promoted <=> \E i \in I : m \in DOMAIN sets[i]
  BY <1>1
<1>7. m \in DOMAIN sel <=> m \in DOMAIN promoted
  <2>1. ways # {} <=> \E i \in I : waysIn(i) # {}
    BY <1>2
  <2> QED BY <1>3, <1>4, <1>6, <2>1
<1>8. ASSUME m \in DOMAIN promoted PROVE sel[m] = promoted[m]
  <2> DEFINE p == Promoter(sets, m)
             depth(i) == sets[i][m].depth
             first == Shallowest(sets, m)
  <2>1. /\ first \subseteq I /\ p \in first
        /\ \A i \in first : m \in DOMAIN sets[i] /\ depth(i) = depth(p)
        /\ \A i \in I : m \in DOMAIN sets[i] => depth(p) <= depth(i)
        /\ \A i \in I : m \in DOMAIN sets[i] /\ depth(i) = depth(p) => i \in first
    <3> DEFINE have == Providers(sets, m)
               depths == {depth(i) : i \in have}
    <3>1. have = {i \in I : m \in DOMAIN sets[i]} /\ have # {}
      BY <1>1, <1>6, <1>8 DEF Providers
    <3>2. \A i \in have : depth(i) \in Nat
      BY <1>4, <3>1
    <3>3. \E d \in depths : \A e \in depths : d <= e
      <4>1. depths \subseteq Nat /\ depths # {}
        BY <3>1, <3>2
      <4> HIDE DEF depths
      <4> QED BY <4>1, SmallestExists
    <3>4. first = {i \in have : \A j \in have : depth(i) <= depth(j)}
      BY DEF Shallowest
    <3>5. \E i \in have : \A j \in have : depth(i) <= depth(j)
      BY <3>3
    <3>6. p \in first
      <4>1. first # {}
        BY <3>4, <3>5
      <4> HIDE DEF first
      <4> QED BY <4>1 DEF Promoter, first
    <3> HIDE DEF have, first, p, depth
    <3>7. \A i, j \in have : i \in first /\ j \in first => depth(i) = depth(j)
      BY <3>2, <3>4
    <3> QED BY <3>1, <3>2, <3>4, <3>6, <3>7
  <2>2. promoted[m] = IF \E j \in first : j # p THEN Tied(sets[p][m])
                      ELSE Lifted(sets[p][m], project[t].embeds[p])
    BY <1>1, <1>8 DEF promoted, Promote
  <2> HIDE DEF p, depth, first
  <2>3. /\ p \in I /\ m \in DOMAIN sel /\ m \in DOMAIN sets[p]
        /\ depth(p) = sets[p][m].depth /\ depth(p) \in Nat
    BY <1>4, <1>7, <1>8, <2>1 DEF depth
  <2>4. \A i \in I : \A w \in waysIn(i) : /\ Len(w) \in Nat /\ Len(By(t, i, w)) = Len(w) + 1
                                          /\ By(t, i, w) \in ways
                                          /\ By(t, i, w)[1] = project[t].embeds[i]
    BY <1>2, <1>5, ByShape
  <2>5. sel[m].depth = depth(p) + 1
    <3>1. PICK w \in nearestIn(p) : TRUE
      BY <1>4, <2>3
    <3>2. w \in waysIn(p) /\ Len(w) = depth(p)
      BY <1>4, <2>3, <3>1
    <3>3. sel[m].depth <= depth(p) + 1
      BY <1>3, <2>3, <2>4, <3>2
    <3>4. PICK s \in nearest : TRUE
      BY <1>3, <2>3
    <3>5. s \in ways /\ Len(s) = sel[m].depth
      BY <1>3, <2>3, <3>4
    <3>6. PICK i \in I : \E v \in waysIn(i) : s = By(t, i, v)
      BY <1>2, <3>5
    <3>7. PICK v \in waysIn(i) : s = By(t, i, v)
      BY <3>6
    <3>8. m \in DOMAIN sets[i] /\ depth(i) <= Len(v) /\ depth(i) \in Nat
      BY <1>4, <3>7 DEF depth
    <3>9. depth(p) <= depth(i)
      BY <2>1, <3>8
    <3>10. Len(s) = Len(v) + 1 /\ Len(v) \in Nat
      BY <2>4, <3>7
    <3> QED BY <1>3, <2>3, <3>3, <3>5, <3>8, <3>9, <3>10
  <2>6. ASSUME NEW i \in first, NEW w \in nearestIn(i)
        PROVE  i \in I /\ w \in waysIn(i) /\ Len(w) = depth(p) /\ By(t, i, w) \in nearest
    <3>1. i \in I /\ m \in DOMAIN sets[i] /\ depth(i) = depth(p)
      BY <2>1
    <3>2. w \in waysIn(i) /\ Len(w) = depth(p)
      BY <1>4, <2>6, <3>1 DEF depth
    <3>3. By(t, i, w) \in ways /\ Len(By(t, i, w)) = sel[m].depth
      BY <2>4, <2>5, <3>1, <3>2
    <3> QED BY <1>3, <2>3, <3>1, <3>2, <3>3
  <2>7. ASSUME NEW s \in nearest
        PROVE  \E i \in first : \E w \in nearestIn(i) : s = By(t, i, w)
    <3>1. s \in ways /\ Len(s) = depth(p) + 1
      BY <1>3, <2>3, <2>5, <2>7
    <3>2. PICK i \in I : \E w \in waysIn(i) : s = By(t, i, w)
      BY <1>2, <3>1
    <3>3. PICK w \in waysIn(i) : s = By(t, i, w)
      BY <3>2
    <3>4. Len(w) = depth(p)
      BY <2>3, <2>4, <3>1, <3>3
    <3>5. m \in DOMAIN sets[i] /\ depth(i) <= Len(w) /\ depth(i) \in Nat
      BY <1>4, <3>3 DEF depth
    <3>6. depth(i) = depth(p)
      BY <2>1, <2>3, <3>4, <3>5
    <3>7. i \in first /\ w \in nearestIn(i)
      BY <1>4, <2>1, <3>3, <3>4, <3>5, <3>6 DEF depth
    <3> QED BY <3>3, <3>7
  <2>8. PICK s \in nearest :
          /\ (\E v \in nearest : v # s) =>
               FoundAmong(nearest, t, keep, home, m) = ClashAt(nearest, s)
          /\ (\A v \in nearest : v = s) =>
               FoundAmong(nearest, t, keep, home, m) = FoundAt(s, t, keep, home, m)
    BY <1>3, <2>3, FoundAmongShape
  <2>9. Len(s) = depth(p) + 1
    BY <1>3, <2>3, <2>5
  <2>10. CASE \E j \in first : j # p
    <3>1. PICK j \in first : j # p
      BY <2>10
    <3>2. PICK w \in nearestIn(p) : TRUE
      BY <1>4, <2>3
    <3>3. PICK v \in nearestIn(j) : TRUE
      BY <1>4, <2>1
    <3>4. By(t, p, w) \in nearest /\ By(t, j, v) \in nearest
          /\ w \in waysIn(p) /\ v \in waysIn(j) /\ j \in I
      BY <2>1, <2>6, <3>1, <3>2, <3>3
    <3>5. By(t, p, w)[1] # By(t, j, v)[1]
      <4>1. w \in PathsFrom(EmbedIn(t, p)) /\ v \in PathsFrom(EmbedIn(t, j))
        BY <1>5, <2>3, <3>4
      <4> QED BY <2>3, <3>1, <3>4, <4>1, ByOne
    <3>6. (\E x \in nearest : x # s) /\ ~(\A x \in nearest : x[1] = s[1])
      BY <3>4, <3>5
    <3>7. ClashAt(nearest, s) = [Zero EXCEPT !.depth = depth(p) + 1, !.ambiguous = TRUE, !.via = 0]
      BY Zenon, <2>9, <3>6 DEF ClashAt
    <3>8. Tied(sets[p][m]) = [Zero EXCEPT !.depth = depth(p) + 1, !.ambiguous = TRUE]
      BY Zenon, <2>3 DEF Tied
    <3>9. ClashAt(nearest, s) = Tied(sets[p][m])
      BY <3>7, <3>8 DEF Zero
    <3> QED BY Zenon, <1>3, <2>2, <2>3, <2>8, <2>10, <3>6, <3>9
  <2>11. CASE ~(\E j \in first : j # p)
    <3>1. \A x \in nearest : \E w \in nearestIn(p) : x = By(t, p, w)
      BY <2>7, <2>11
    <3>2. PICK w \in nearestIn(p) : s = By(t, p, w)
      BY <3>1
    <3>3. /\ sets[p][m] = FoundAmong(nearestIn(p), EmbedIn(t, p), kept, home, m)
          /\ \A x \in nearestIn(p) : x \in waysIn(p) /\ x \in PathsFrom(EmbedIn(t, p))
                                     /\ Len(x) = depth(p)
          /\ nearestIn(p) # {}
      BY <1>4, <1>5, <2>1, <2>3, <2>6
    <3>4. \A x \in nearest : x[1] = s[1]
      BY <2>3, <2>4, <3>1, <3>3
    <3>5. s[1] = project[t].embeds[p]
      BY <2>3, <2>4, <3>2, <3>3
    <3>6. PICK v \in nearestIn(p) :
            /\ (\E x \in nearestIn(p) : x # v) =>
                 FoundAmong(nearestIn(p), EmbedIn(t, p), kept, home, m) =
                   ClashAt(nearestIn(p), v)
            /\ (\A x \in nearestIn(p) : x = v) =>
                 FoundAmong(nearestIn(p), EmbedIn(t, p), kept, home, m) =
                   FoundAt(v, EmbedIn(t, p), kept, home, m)
      <4> DEFINE N == nearestIn(p)
                 u == EmbedIn(t, p)
      <4>1. N # {}
        BY <3>3
      <4> HIDE DEF N, u
      <4>2. \E v \in N : /\ (\E x \in N : x # v) =>
                              FoundAmong(N, u, kept, home, m) = ClashAt(N, v)
                         /\ (\A x \in N : x = v) =>
                              FoundAmong(N, u, kept, home, m) = FoundAt(v, u, kept, home, m)
        BY <4>1, FoundAmongShape
      <4> QED BY Zenon, <4>2 DEF N, u
    <3>7. ASSUME NEW x \in nearestIn(p), NEW y \in nearestIn(p), By(t, p, x) = By(t, p, y)
          PROVE  x = y
      <4>1. x \in PathsFrom(EmbedIn(t, p)) /\ y \in PathsFrom(EmbedIn(t, p))
        BY <3>3
      <4>2. By(t, p, x)[1] = By(t, p, y)[1]
        BY <3>7
      <4> QED BY <2>3, <3>7, <4>1, <4>2, ByOne
    <3>8. FoundAmong(nearest, t, keep, home, m) = Lifted(sets[p][m], project[t].embeds[p])
      <4>1. CASE \E x \in nearest : x # s
        <5>1. \E x \in nearestIn(p) : x # v
          BY <3>1, <3>2, <4>1
        <5>2. sets[p][m] = ClashAt(nearestIn(p), v)
          BY Zenon, <3>3, <3>6, <5>1
        <5>3. Len(s) = Len(v) + 1
          BY <2>9, <3>3
        <5>4. ClashAt(nearest, s) = Lifted(ClashAt(nearestIn(p), v), project[t].embeds[p])
          BY <3>4, <3>5, <5>3, ClashBelow
        <5> QED BY Zenon, <2>8, <4>1, <5>2, <5>4
      <4>2. CASE \A x \in nearest : x = s
        <5>1. \A x \in nearestIn(p) : x = v /\ x = w
          <6>1. \A x \in nearestIn(p) : By(t, p, x) = s
            BY <2>1, <2>6, <4>2
          <6> QED BY <3>2, <3>7, <6>1
        <5>2. sets[p][m] = FoundAt(w, EmbedIn(t, p), kept, home, m)
          BY Zenon, <3>2, <3>3, <3>6, <5>1
        <5>3. FoundAt(s, t, keep, home, m) =
                Lifted(FoundAt(w, EmbedIn(t, p), kept, home, m), project[t].embeds[p])
          <6>1. w \in PathsFrom(EmbedIn(t, p))
            BY <3>2, <3>3
          <6>2. FoundAt(By(t, p, w), t, keep, home, m) =
                  Lifted(FoundAt(w, EmbedIn(t, p), kept, home, m), project[t].embeds[p])
            BY <2>3, <6>1, FoundBelow
          <6> QED BY Zenon, <3>2, <6>2
        <5> QED BY Zenon, <2>8, <4>2, <5>2, <5>3
      <4> QED BY <4>1, <4>2
    <3> QED BY Zenon, <1>3, <2>2, <2>3, <2>11, <3>8
  <2> QED BY <2>10, <2>11
<1> QED BY Zenon, <1>7, <1>8 DEF sets, promoted, sel

\* A struct selects what it declares, what its fields shadow, and what its
\* embeds promote; any other type of its own, what it declares.
LEMMA StructSelects ==
    ASSUME project \in Projects, NEW t \in Types, project[t].kind \notin {"alias", "defined"},
           PathsJoin(t), NEW keep \in BOOLEAN, NEW kept, Keeps(kept), NEW home
    PROVE  Selected(t, keep, home) =
             Over(Own(t, keep, home), Promoted(t, BelowSets(t, kept, home)))
<1> DEFINE sets == BelowSets(t, kept, home)
           lower == Promote(project[t].embeds, sets)
           fields == [m \in project[t].fields |-> Zero]
           deeper == Promoted(t, sets)
           sel == Selected(t, keep, home)
<1>1. project[t].fields \subseteq Method /\ DOMAIN fields = project[t].fields
  BY TypeShape DEF NamedType
<1>2. DOMAIN lower \subseteq Method
  <2>1. \A i \in DOMAIN project[t].embeds : DOMAIN sets[i] \subseteq Method
    BY DEF BelowSets, Selected
  <2>2. DOMAIN sets = DOMAIN project[t].embeds
    BY DEF BelowSets
  <2> HIDE DEF sets
  <2> QED BY <2>1, <2>2 DEF Promote
<1>3. ASSUME NEW m \in Method, ~Declares(t, keep, m), Provides(t, keep, m)
      PROVE  m \in DOMAIN sel /\ sel[m] = Zero /\ m \in project[t].fields
  <2>1. m \in DOMAIN sel /\ sel[m] = IF keep /\ project[t].declared[m] # {}
                                     THEN Declared(t, home)[m] ELSE Zero
    BY <1>3, OwnSelects
  <2>2. ~(keep /\ project[t].declared[m] # {})
    BY <1>3 DEF Declares
  <2>3. m \in project[t].fields
    <3>1. Declarers(t, m) = IF project[t].declared[m] # {} THEN {t} ELSE {}
      BY DeclarersStep
    <3>2. EndOfChain(t) = {t}
      BY ChainEnds
    <3> QED BY <1>3, <2>2, <3>1, <3>2 DEF Provides
  <2> QED BY <2>1, <2>2, <2>3
<1>4. ASSUME NEW m \in Method, ~Provides(t, keep, m)
      PROVE  /\ m \notin project[t].fields
             /\ m \in DOMAIN sel <=> m \in DOMAIN lower
             /\ m \in DOMAIN lower => sel[m] = lower[m]
  <2>1. EndOfChain(t) = {t}
    BY ChainEnds
  <2>2. m \notin project[t].fields
    BY <1>4, <2>1 DEF Provides
  <2> QED BY <1>4, <2>2, PromotedName
<1>5. deeper = Over(fields, lower)
  BY DEF Promoted
<1>6. /\ DOMAIN deeper = project[t].fields \cup DOMAIN lower
      /\ \A m \in DOMAIN deeper :
           deeper[m] = IF m \in project[t].fields THEN Zero ELSE lower[m]
  <2>1. \A m \in project[t].fields : fields[m] = Zero
    OBVIOUS
  <2> HIDE DEF fields, lower, deeper
  <2> QED BY <1>1, <1>5, <2>1 DEF Over
<1> HIDE DEF deeper, lower, fields, sel
<1>7. \A m \in Method : ~Declares(t, keep, m) =>
        /\ m \in DOMAIN sel <=> m \in DOMAIN deeper
        /\ m \in DOMAIN deeper => sel[m] = deeper[m]
  BY <1>3, <1>4, <1>6
<1>8. DOMAIN deeper \subseteq Method /\ project[t].kind # "alias"
  BY <1>1, <1>2, <1>6
<1>9. Selected(t, keep, home) = Over(Own(t, keep, home), deeper)
  BY <1>7, <1>8, SelectedOver DEF sel
<1> QED BY Zenon, <1>9 DEF deeper

LEMMA OverNothing ==
    ASSUME NEW t, NEW keep \in BOOLEAN, NEW home
    PROVE  Over(Own(t, keep, home), EmptySet) = Own(t, keep, home)
BY DEF Over, Own, Declared, EmptySet

LEMMA LeafSelects ==
    ASSUME project \in Projects, NEW t \in Types,
           project[t].kind \notin {"alias", "defined", "struct"},
           NEW keep \in BOOLEAN, NEW home
    PROVE  Selected(t, keep, home) = Own(t, keep, home)
<1>1. EmbedsOf(t) = {} /\ project[t].embeds = <<>> /\ project[t].fields = {}
  BY EmbedsShape, TypeFacts
<1>2. PathsJoin(t)
  <2> DEFINE A == {}
             R == [u \in A |-> 0]
  <2>1. Descends(A, R)
    BY DEF Descends
  <2>2. \A e \in EmbedsOf(t) : e.to \in A
    BY <1>1
  <2> HIDE DEF A, R
  <2> QED BY <2>1, <2>2, PathsStep
<1> DEFINE sets == BelowSets(t, TRUE, home)
<1>3. Selected(t, keep, home) = Over(Own(t, keep, home), Promoted(t, sets))
  <2>1. Keeps(TRUE) /\ project[t].kind \notin {"alias", "defined"}
    BY DEF Keeps
  <2> QED BY <1>2, <2>1, StructSelects
<1>4. Promoted(t, sets) = EmptySet
  <2>1. DOMAIN sets = {}
    BY <1>1 DEF BelowSets
  <2> HIDE DEF sets
  <2>2. DOMAIN Promote(project[t].embeds, sets) = {}
    BY <2>1 DEF Promote
  <2> QED BY <1>1, <2>2 DEF Promoted, Over, EmptySet
<1> QED BY Zenon, <1>3, <1>4, OverNothing

-----------------------------------------------------------------------------
(* What the memo holds.                                                    *)

\* The types whose walks no cut shortened, and those that are not walked.
SettledTypes == {k.type : k \in DOMAIN memo} \cup {t \in Types : project[t].kind = "known"}

\* No cycle of embeds leads through them: they can be ranked, below a bound.
Founded ==
    \E N \in Nat : \E R : Descends(SettledTypes, R) /\ \A u \in SettledTypes : R[u] < N

MemoRight == \A k \in DOMAIN memo : memo[k] = Selected(k.type, k.keep, k.home)

\* While no cut has come since a call began, its calls have got exact sets.
FramesRight ==
    \A i \in DOMAIN stack : stack[i].cuts = cuts =>
      \A j \in DOMAIN stack[i].got :
        LET c == Callees(stack[i])[j]
        IN  c.type \in SettledTypes /\ stack[i].got[j] = Selected(c.type, c.keep, Home)

\* A call of the stack is the one the call around it waits for, and began later.
Linked ==
    \A i \in DOMAIN stack : i < Len(stack) =>
      LET c == Callees(stack[i])[Len(stack[i].got) + 1]
      IN  /\ stack[i + 1].type = c.type /\ stack[i + 1].keep = c.keep
          /\ stack[i].cuts <= stack[i + 1].cuts

\* Without a cut at all, every answer is exact.
AnswersRight ==
    cuts = 0 => \A i \in DOMAIN answers :
      answers[i].set = Selected(answers[i].type, TRUE, answers[i].home)

\* The outermost call is the one asked.
Rooted == stack # <<>> => stack[1].type = asked[1].type /\ stack[1].keep = TRUE

MInv == MemoRight /\ Founded /\ FramesRight /\ Linked /\ Rooted /\ AnswersRight

\* A call whose calls have all got exact sets computes its own.
LEMMA ComputedRight ==
    ASSUME project \in Projects, Founded, NEW f \in Frame, Len(f.got) = Len(Callees(f)),
           \A j \in DOMAIN f.got :
             /\ Callees(f)[j].type \in SettledTypes
             /\ f.got[j] = Selected(Callees(f)[j].type, Callees(f)[j].keep, Home)
    PROVE  /\ Computed(f) = Selected(f.type, f.keep, Home)
           /\ \A e \in EmbedsOf(f.type) : e.to \in SettledTypes
<1> DEFINE t == f.type
           keep == f.keep
           yes == TRUE
           no == FALSE
<1>0. Keeps(yes) /\ no = FALSE /\ yes = TRUE
  BY DEF Keeps
<1> HIDE DEF yes, no
<1>1. t \in Types /\ keep \in BOOLEAN /\ f.got \in Seq(MethodSet)
  BY DEF Frame
<1>2. PICK N \in Nat : \E R : Descends(SettledTypes, R) /\ \A u \in SettledTypes : R[u] < N
  BY DEF Founded
<1>3. PICK R : Descends(SettledTypes, R)
  BY <1>2
<1>4. CASE project[t].kind = "struct"
  <2> DEFINE embeds == project[t].embeds
  <2>1. Callees(f) = [i \in DOMAIN embeds |-> Call(embeds[i].to, yes)]
    BY Zenon, <1>0, <1>4 DEF Callees
  <2>2. embeds \in Seq(Embed) /\ Len(Callees(f)) = Len(embeds)
    BY <1>1, <1>4, TypeShape, CalleesShape DEF NamedType
  <2>3. DOMAIN f.got = DOMAIN embeds
    BY <1>1, <2>2
  <2>4. ASSUME NEW i \in DOMAIN embeds
        PROVE  embeds[i].to \in SettledTypes /\ f.got[i] = Selected(EmbedIn(t, i), yes, Home)
    <3>1. Callees(f)[i].type = embeds[i].to /\ Callees(f)[i].keep = yes
      BY <2>1 DEF Call
    <3>2. /\ Callees(f)[i].type \in SettledTypes
          /\ f.got[i] = Selected(Callees(f)[i].type, Callees(f)[i].keep, Home)
      BY <2>3
    <3> QED BY Zenon, <3>1, <3>2 DEF EmbedIn
  <2>5. f.got = BelowSets(t, yes, Home)
    <3>1. f.got = [i \in DOMAIN f.got |-> f.got[i]]
      BY <1>1
    <3>2. \A i \in DOMAIN embeds : f.got[i] = Selected(EmbedIn(t, i), yes, Home)
      BY <2>4
    <3>3. BelowSets(t, yes, Home) = [i \in DOMAIN embeds |-> Selected(EmbedIn(t, i), yes, Home)]
      BY Zenon DEF BelowSets
    <3> HIDE DEF embeds
    <3> QED BY <2>3, <3>1, <3>2, <3>3
  <2>6. \A e \in EmbedsOf(t) : e.to \in SettledTypes
    <3>1. EmbedsOf(t) = {embeds[i] : i \in DOMAIN embeds}
      BY <1>1, <1>4, EmbedsShape
    <3> HIDE DEF embeds
    <3> QED BY <2>4, <3>1
  <2>7. PathsJoin(t)
    BY <1>1, <1>3, <2>6, PathsStep
  <2>8. Selected(t, keep, Home) = Over(Own(t, keep, Home), Promoted(t, BelowSets(t, yes, Home)))
    <3>1. project[t].kind \notin {"alias", "defined"}
      BY <1>4
    <3> HIDE DEF keep, t
    <3>2. Keeps(yes) /\ t \in Types /\ keep \in BOOLEAN
      BY <1>0, <1>1
    <3> QED BY <2>7, <3>1, <3>2, StructSelects
  <2>9. Computed(f) = Over(Own(t, keep, Home), Promoted(t, f.got))
    BY <1>4 DEF Computed
  <2> QED BY Zenon, <2>5, <2>6, <2>8, <2>9
<1>5. CASE project[t].kind \in {"alias", "defined"}
  <2> DEFINE u == project[t].to
  <2>1. Len(f.got) = 1 /\ 1 \in DOMAIN f.got
    BY <1>1, <1>5, CalleesShape
  <2>2. u \in Types /\ EmbedsOf(t) = EmbedsOf(u)
    BY <1>1, <1>5, TypeShape, EmbedsShape
  <2>3. Computed(f) = Over(Own(t, keep, Home), f.got[1])
    BY <1>5 DEF Computed
  <2>4. CASE project[t].kind = "alias"
    <3>1. Callees(f)[1] = Call(u, keep)
      BY <2>4 DEF Callees
    <3>2. u \in SettledTypes /\ f.got[1] = Selected(u, keep, Home)
      BY <2>1, <3>1 DEF Call
    <3>3. Own(t, keep, Home) = EmptySet
      BY <1>1, <2>4, TypeFacts DEF Own, Declared, EmptySet
    <3>4. Over(EmptySet, Selected(u, keep, Home)) = Selected(u, keep, Home)
      BY DEF Over, EmptySet, Selected
    <3>5. Selected(t, keep, Home) = Selected(u, keep, Home)
      BY <1>1, <2>4, AliasSelects
    <3>6. \A e \in EmbedsOf(t) : e.to \in SettledTypes
      BY <1>3, <2>2, <3>2 DEF Descends
    <3> QED BY Zenon, <2>3, <3>2, <3>3, <3>4, <3>5, <3>6
  <2>5. CASE project[t].kind = "defined"
    <3>1. Callees(f)[1] = Call(u, no)
      BY Zenon, <1>0, <2>5 DEF Callees
    <3>2. u \in SettledTypes /\ f.got[1] = Selected(u, no, Home)
      BY <2>1, <3>1 DEF Call
    <3>3. Selected(t, keep, Home) = Over(Own(t, keep, Home), Selected(u, no, Home))
      <4> HIDE DEF keep, t, u
      <4>1. Drops(no) /\ t \in Types /\ keep \in BOOLEAN
        BY <1>0, <1>1 DEF Drops
      <4> QED BY <2>5, <4>1, DefinedSelects DEF u
    <3>4. \A e \in EmbedsOf(t) : e.to \in SettledTypes
      BY <1>3, <2>2, <3>2 DEF Descends
    <3> QED BY Zenon, <2>3, <3>2, <3>3, <3>4
  <2> QED BY <1>5, <2>4, <2>5
<1>6. CASE project[t].kind \notin {"struct", "alias", "defined"}
  <2>1. Computed(f) = Over(Own(t, keep, Home), EmptySet)
    BY <1>6 DEF Computed
  <2>2. Over(Own(t, keep, Home), EmptySet) = Own(t, keep, Home)
    BY <1>1, OverNothing
  <2>3. Selected(t, keep, Home) = Own(t, keep, Home)
    BY <1>1, <1>6, LeafSelects
  <2>4. EmbedsOf(t) = {}
    BY <1>1, <1>6, EmbedsShape
  <2> QED BY Zenon, <2>1, <2>2, <2>3, <2>4
<1> QED BY <1>4, <1>5, <1>6

-----------------------------------------------------------------------------
(* What a type selects does not change: the project does not.              *)

WaysRecursion ==
    \A t \in Types :
      /\ WaysDown[0][t] = {<<>>}
      /\ \A n \in Nat \ {0} :
           WaysDown[n][t] = UNION {{<<e>> \o w : w \in WaysDown[n - 1][e.to]} : e \in EmbedsOf(t)}

LEMMA WaysRecursive == project \in Projects => WaysRecursion
BY Zenon, WaysStep DEF WaysRecursion

LEMMA WaysRecursiveNext == (project \in Projects)' => WaysRecursion'
BY WaysRecursive, PTL

LEMMA EmbedsSame ==
    ASSUME UNCHANGED project
    PROVE  /\ Types' = Types
           /\ \A t, kinds : Chain(t, kinds)' = Chain(t, kinds)
           /\ \A t : EndOfChain(t)' = EndOfChain(t)
           /\ \A t : EmbedsOf(t)' = EmbedsOf(t)
<1>1. Types' = Types
  BY DEF Types
<1>2. ASSUME NEW t, NEW kinds PROVE Chain(t, kinds)' = Chain(t, kinds)
  BY DEF Chain, Types
<1>3. ASSUME NEW t PROVE EndOfChain(t)' = EndOfChain(t)
  BY <1>2 DEF EndOfChain
<1>4. ASSUME NEW t PROVE EmbedsOf(t)' = EmbedsOf(t)
  BY <1>3 DEF EmbedsOf
<1> QED BY <1>1, <1>2, <1>3, <1>4

LEMMA WaysSame ==
    ASSUME project \in Projects, UNCHANGED project
    PROVE  \A n \in Nat : \A t \in Types : WaysDown'[n][t] = WaysDown[n][t]
<1> DEFINE S == {n \in Nat : ~(\A t \in Types : WaysDown'[n][t] = WaysDown[n][t])}
<1> SUFFICES ASSUME S # {} PROVE FALSE
  OBVIOUS
<1>1. PICK d \in S : \A e \in S : d <= e
  <2>1. S \subseteq Nat
    OBVIOUS
  <2> HIDE DEF S
  <2> QED BY <2>1, SmallestExists
<1>2. d \in Nat
  OBVIOUS
<1>3. PICK t \in Types : WaysDown'[d][t] # WaysDown[d][t]
  OBVIOUS
<1>4. WaysRecursion /\ WaysRecursion'
  BY WaysRecursive, WaysRecursiveNext
<1>5. Types' = Types /\ EmbedsOf(t)' = EmbedsOf(t)
  BY EmbedsSame
<1>6. CASE d = 0
  <2>1. WaysDown'[0][t] = {<<>>} /\ WaysDown[0][t] = {<<>>}
    BY <1>4, <1>5 DEF WaysRecursion
  <2> QED BY <1>3, <1>6, <2>1
<1>7. CASE d # 0
  <2>1. d - 1 \in Nat /\ ~(d <= d - 1) /\ d \in Nat \ {0}
    BY <1>2, <1>7
  <2>2. \A u \in Types : WaysDown'[d - 1][u] = WaysDown[d - 1][u]
    BY <1>1, <2>1
  <2>3. \A e \in EmbedsOf(t) : WaysDown'[d - 1][e.to] = WaysDown[d - 1][e.to]
    BY <2>2, EmbedsShape
  <2> DEFINE was(e) == {<<e>> \o w : w \in WaysDown[d - 1][e.to]}
             is(e) == {<<e>> \o w : w \in WaysDown'[d - 1][e.to]}
             E == EmbedsOf(t)
  <2>4. WaysDown[d][t] = UNION {was(e) : e \in E}
    BY Zenon, <1>4, <2>1 DEF WaysRecursion
  <2>5. WaysDown'[d][t] = UNION {is(e) : e \in E}
    <3>1. WaysDown'[d][t] = UNION {is(e) : e \in EmbedsOf(t)'}
      <4>1. t \in Types'
        BY <1>5
      <4> QED BY Zenon, <1>4, <2>1, <4>1 DEF WaysRecursion
    <3> HIDE DEF is
    <3> QED BY <1>5, <3>1
  <2>6. \A e \in E : is(e) = was(e)
    BY <2>3
  <2> HIDE DEF was, is, E
  <2>7. {is(e) : e \in E} = {was(e) : e \in E}
    BY <2>6
  <2> QED BY Zenon, <1>3, <2>4, <2>5, <2>7
<1> QED BY <1>6, <1>7

LEMMA SelectedSame ==
    ASSUME project \in Projects, UNCHANGED project, NEW t \in Types, NEW keep, NEW home
    PROVE  Selected(t, keep, home)' = Selected(t, keep, home)
<1>1. PathsFrom(t)' = PathsFrom(t)
  <2>1. Len(project) \in Nat
    BY ProjectsAssumption
  <2>2. \A n \in 0..Len(project) : WaysDown'[n][t] = WaysDown[n][t]
    BY <2>1, WaysSame
  <2> QED BY <2>2 DEF PathsFrom
<1>2. ASSUME NEW u, NEW m PROVE Declarers(u, m)' = Declarers(u, m)
  BY EmbedsSame DEF Declarers, Aliases
<1>3. ASSUME NEW u, NEW k, NEW m PROVE Provides(u, k, m)' = Provides(u, k, m)
  BY <1>2, EmbedsSame DEF Provides
<1>4. ASSUME NEW P, NEW m
      PROVE  /\ WaysTo(P, t, keep, m)' = WaysTo(P, t, keep, m)
             /\ Nearest(P, t, keep, m)' = Nearest(P, t, keep, m)
  <2>1. WaysTo(P, t, keep, m)' = WaysTo(P, t, keep, m)
    BY <1>3 DEF WaysTo, EndOf
  <2> QED BY <2>1 DEF Nearest
<1>5. ASSUME NEW w, NEW m PROVE DeclarerAt(w, t, m)' = DeclarerAt(w, t, m)
  BY <1>2 DEF DeclarerAt, EndOf
<1>6. ASSUME NEW w, NEW m PROVE DeclsAt(w, t, keep, m)' = DeclsAt(w, t, keep, m)
  BY <1>2, <1>5 DEF DeclsAt, EndOf
<1>7. ASSUME NEW w, NEW m PROVE FoundAt(w, t, keep, home, m)' = FoundAt(w, t, keep, home, m)
  <2>1. \A x : Owner(x, home)' = Owner(x, home)
    BY DEF Owner
  <2>2. Zero' = Zero /\ NoOwner' = NoOwner
    BY DEF Zero, NoOwner
  <2> QED BY <1>5, <1>6, <2>1, <2>2 DEF FoundAt
<1>8. ASSUME NEW N, NEW m
      PROVE  FoundAmong(N, t, keep, home, m)' = FoundAmong(N, t, keep, home, m)
  BY <1>7 DEF FoundAmong, ClashAt
<1> QED BY <1>1, <1>4, <1>8 DEF Selected

-----------------------------------------------------------------------------
(* The inductive invariant of the memo.                                    *)

\* What Deliver does to the call that waits for the set.
LEMMA DeliverGot ==
    ASSUME NEW ms \in MethodSet, NEW outer \in Seq(Frame), outer # <<>>, Deliver(ms, outer),
           Len(outer[Len(outer)].got) < Len(Callees(outer[Len(outer)]))
    PROVE  /\ asked' = asked /\ UNCHANGED answers
           /\ \A j : j \in DOMAIN stack'[Len(outer)].got <=>
                       j \in DOMAIN outer[Len(outer)].got \/ j = Len(outer[Len(outer)].got) + 1
           /\ \A j \in DOMAIN outer[Len(outer)].got :
                stack'[Len(outer)].got[j] = outer[Len(outer)].got[j]
           /\ stack'[Len(outer)].got[Len(outer[Len(outer)].got) + 1] = ms
           /\ Len(stack'[Len(outer)].got) = Len(outer[Len(outer)].got) + 1
<1> DEFINE n == Len(outer)
           got == outer[n].got
           grown == [outer[n] EXCEPT !.got = Append(got, ms)]
<1>1. n \in 1..Len(outer) /\ outer[n] \in Frame /\ n \in DOMAIN outer
  OBVIOUS
<1>2. got \in Seq(MethodSet)
  BY <1>1 DEF Frame
<1>3. stack' = [outer EXCEPT ![n] = grown] /\ asked' = asked /\ UNCHANGED answers
  BY DEF Deliver
<1>4. stack'[n] = grown
  <2> HIDE DEF grown, n
  <2> QED BY <1>1, <1>3
<1>5. stack'[n].got = Append(got, ms)
  <2>1. grown.got = Append(got, ms)
    BY <1>1 DEF Frame
  <2> HIDE DEF grown, n, got
  <2> QED BY <1>4, <2>1
<1> HIDE DEF got, grown, n
<1>6. /\ \A j : j \in DOMAIN Append(got, ms) <=> j \in DOMAIN got \/ j = Len(got) + 1
      /\ \A j \in DOMAIN got : Append(got, ms)[j] = got[j]
      /\ Append(got, ms)[Len(got) + 1] = ms
      /\ Len(Append(got, ms)) = Len(got) + 1
  BY <1>2
<1> QED BY Zenon, <1>3, <1>5, <1>6 DEF n, got

\* A set delivered to the calls of outer keeps their results exact, if it is
\* the exact set of the call that waits for it or a cut has come.
LEMMA DeliverRight ==
    ASSUME IInv, MInv, asked # <<>>, NEW ms \in MethodSet, NEW outer \in Seq(Frame),
           Len(outer) <= Len(stack), \A i \in DOMAIN outer : outer[i] = stack[i],
           outer # <<>> => Len(outer[Len(outer)].got) < Len(Callees(outer[Len(outer)])),
           Deliver(ms, outer), UNCHANGED project, cuts' \in {cuts, cuts + 1},
           SettledTypes \subseteq SettledTypes',
           ASSUME outer # <<>>, cuts' = cuts, stack[Len(outer)].cuts = cuts
           PROVE  LET c == Callees(stack[Len(outer)])[Len(stack[Len(outer)].got) + 1]
                  IN  c.type \in SettledTypes' /\ ms = Selected(c.type, c.keep, Home)
    PROVE  FramesRight' /\ Linked'
<1> DEFINE n == Len(outer)
<1>1. /\ stack' \in Seq(Frame) /\ Len(stack') = n
      /\ \A i \in DOMAIN outer : /\ stack'[i].type = stack[i].type
                                 /\ stack'[i].keep = stack[i].keep
                                 /\ stack'[i].cuts = stack[i].cuts
                                 /\ Len(stack'[i].got) <= Len(Callees(stack'[i]))
      /\ \A i \in DOMAIN outer : i < n => stack'[i] = stack[i]
      /\ outer # <<>> => asked' = asked
  BY DeliverShape
<1>2. /\ n \in Nat /\ DOMAIN outer = 1..n /\ DOMAIN stack' = 1..n
      /\ DOMAIN outer \subseteq DOMAIN stack
  BY <1>1 DEF IInv, StateTyped
<1>3. ASSUME NEW i \in 1..n
      PROVE  /\ Callees(stack[i])' = Callees(stack[i]) /\ stack[i] \in Frame
             /\ Callees(stack[i]) \in Seq([type : Types, keep : BOOLEAN])
             /\ i \in DOMAIN outer /\ i \in DOMAIN stack
  <2>1. stack[i]'.type = stack[i].type /\ stack[i]'.keep = stack[i].keep
    BY <1>1, <1>2
  <2>2. Callees(stack[i])' = Callees(stack[i])
    BY <2>1 DEF Callees
  <2>3. stack[i] \in Frame
    BY <1>2 DEF IInv, StateTyped
  <2> QED BY <1>2, <2>2, <2>3, CalleesShape DEF IInv, StateTyped
<1>4. Linked'
  <2> SUFFICES ASSUME NEW i \in 1..n, i < n
               PROVE  LET c == Callees(stack[i])'[Len(stack'[i].got) + 1]
                      IN  /\ stack'[i + 1].type = c.type /\ stack'[i + 1].keep = c.keep
                          /\ stack'[i].cuts <= stack'[i + 1].cuts
    BY <1>1, <1>2 DEF Linked
  <2>1. i + 1 \in 1..n /\ i < Len(stack)
    BY <1>2 DEF IInv, StateTyped
  <2>2. LET c == Callees(stack[i])[Len(stack[i].got) + 1]
        IN  /\ stack[i + 1].type = c.type /\ stack[i + 1].keep = c.keep
            /\ stack[i].cuts <= stack[i + 1].cuts
    BY <1>3, <2>1 DEF MInv, Linked
  <2>3. stack'[i] = stack[i] /\ Callees(stack[i])' = Callees(stack[i])
    BY <1>1, <1>3
  <2>4. /\ stack'[i + 1].type = stack[i + 1].type /\ stack'[i + 1].keep = stack[i + 1].keep
        /\ stack'[i + 1].cuts = stack[i + 1].cuts
    BY <1>1, <1>3, <2>1
  <2> QED BY <2>2, <2>3, <2>4
<1>5. ASSUME NEW i \in 1..n, stack'[i].cuts = cuts', NEW j \in DOMAIN stack'[i].got
      PROVE  /\ Callees(stack[i])[j].type \in SettledTypes'
             /\ stack'[i].got[j] =
                  Selected(Callees(stack[i])[j].type, Callees(stack[i])[j].keep, Home)
             /\ Callees(stack[i])[j].type \in Types
  <2>1. cuts' = cuts /\ stack[i].cuts = cuts
    <3>1. stack[i].cuts <= cuts /\ stack'[i].cuts = stack[i].cuts
      BY <1>1, <1>3 DEF IInv, FramesSane
    <3>2. stack[i].cuts \in Nat /\ cuts \in Nat
      BY <1>3 DEF Frame, IInv, StateTyped
    <3> QED BY <1>5, <3>1, <3>2
  <2>2. \A k \in DOMAIN stack[i].got :
          /\ Callees(stack[i])[k].type \in SettledTypes'
          /\ stack[i].got[k] =
               Selected(Callees(stack[i])[k].type, Callees(stack[i])[k].keep, Home)
    BY <1>3, <2>1 DEF MInv, FramesRight
  <2>3. Callees(stack[i])[j].type \in Types
    <3>1. stack'[i] \in Frame
      BY <1>1
    <3>2. stack'[i].got \in Seq(MethodSet) /\ Len(stack'[i].got) <= Len(Callees(stack'[i]))
      BY <1>1, <1>3, <3>1 DEF Frame
    <3>3. Len(Callees(stack'[i])) = Len(Callees(stack[i]))
      BY <1>1, <1>3 DEF Callees
    <3>4. j \in 1..Len(Callees(stack[i]))
      BY <1>3, <3>2, <3>3
    <3>5. Callees(stack[i])[j] \in [type : Types, keep : BOOLEAN]
      BY <1>3, <3>4, ElementOfSeq
    <3> QED BY <3>5
  <2>4. CASE i < n
    BY <1>1, <1>3, <2>2, <2>3, <2>4
  <2>5. CASE i = n
    <3>1. outer # <<>> /\ stack[n] = outer[n] /\ stack[n].cuts = cuts
      BY <1>2, <1>3, <2>1, <2>5
    <3>2. /\ j \in DOMAIN outer[n].got \/ j = Len(outer[n].got) + 1
          /\ \A k \in DOMAIN outer[n].got : stack'[n].got[k] = outer[n].got[k]
          /\ stack'[n].got[Len(outer[n].got) + 1] = ms
      BY <2>5, <3>1, DeliverGot
    <3>3. CASE j \in DOMAIN outer[n].got
      BY <2>2, <2>3, <2>5, <3>1, <3>2, <3>3
    <3>4. CASE j = Len(outer[n].got) + 1
      <4>1. LET c == Callees(stack[n])[Len(stack[n].got) + 1]
            IN  c.type \in SettledTypes' /\ ms = Selected(c.type, c.keep, Home)
        BY <2>1, <3>1
      <4> QED BY <2>3, <2>5, <3>1, <3>2, <3>4, <4>1
    <3> QED BY <3>2, <3>3, <3>4
  <2> QED BY <1>2, <2>4, <2>5
<1>6. FramesRight'
  <2> SUFFICES ASSUME NEW i \in 1..n, stack'[i].cuts = cuts', NEW j \in DOMAIN stack'[i].got
               PROVE  LET c == Callees(stack[i])[j]
                      IN  /\ c'.type \in SettledTypes'
                          /\ stack'[i].got[j] = Selected(c.type, c.keep, Home)'
    BY <1>1, <1>2 DEF FramesRight
  <2> DEFINE c == Callees(stack[i])[j]
  <2>1. c' = c
    BY <1>3
  <2>2. c.type \in SettledTypes' /\ c.type \in Types
        /\ stack'[i].got[j] = Selected(c.type, c.keep, Home)
    BY <1>5
  <2>3. Home' = Home
    BY <1>1, <1>3 DEF Home
  <2> HIDE DEF c
  <2>4. Selected(c.type, c.keep, Home)' = Selected(c.type, c.keep, Home)
    <3>1. project \in Projects
      BY DEF IInv, StateTyped
    <3>2. \A t \in Types : \A keep, home : Selected(t, keep, home)' = Selected(t, keep, home)
      BY <3>1, SelectedSame
    <3> QED BY <2>1, <2>2, <2>3, <3>2
  <2> QED BY <2>1, <2>2, <2>4 DEF c
<1> QED BY <1>4, <1>6

\* A set delivered to a call leaves the answers, and one delivered to
\* structMarshalerLeaf becomes one.
LEMMA DeliverAnswers ==
    ASSUME IInv, MInv, asked # <<>>, NEW ms \in MethodSet, NEW outer \in Seq(Frame),
           Len(outer) <= Len(stack), \A i \in DOMAIN outer : outer[i] = stack[i],
           outer # <<>> => Len(outer[Len(outer)].got) < Len(Callees(outer[Len(outer)])),
           Deliver(ms, outer), UNCHANGED project, cuts' \in {cuts, cuts + 1},
           outer = <<>> /\ cuts' = 0 => ms = Selected(asked[1].type, TRUE, Home)
    PROVE  Rooted' /\ AnswersRight'
<1>1. /\ Len(stack') = Len(outer) /\ stack' \in Seq(Frame)
      /\ \A i \in DOMAIN outer : stack'[i].type = stack[i].type /\ stack'[i].keep = stack[i].keep
      /\ outer # <<>> => asked' = asked
  BY DeliverShape
<1>2. Rooted'
  <2> SUFFICES ASSUME stack' # <<>>
               PROVE  stack'[1].type = asked'[1].type /\ stack'[1].keep = TRUE
    BY DEF Rooted
  <2>1. outer # <<>> /\ 1 \in DOMAIN outer /\ stack # <<>>
    BY <1>1 DEF IInv, StateTyped
  <2> QED BY <1>1, <2>1 DEF MInv, Rooted
<1>3. \A t \in Types : \A keep, home : Selected(t, keep, home)' = Selected(t, keep, home)
  BY SelectedSame DEF IInv, StateTyped
<1>4. cuts' = 0 => cuts = 0
  BY DEF IInv, StateTyped
<1> DEFINE Answer == [type : Types, home : Dir, set : MethodSet,
                      leaf : {"ref", "text", "marshaler"}]
<1>5. answers \in Seq(Answer)
  BY DEF IInv, StateTyped
<1>6. ASSUME NEW i \in DOMAIN answers, cuts' = 0
      PROVE  answers[i].type \in Types
             /\ answers[i].set = Selected(answers[i].type, TRUE, answers[i].home)
  <2>1. answers[i] \in Answer
    <3> HIDE DEF Answer
    <3> QED BY <1>5
  <2>2. answers[i].set = Selected(answers[i].type, TRUE, answers[i].home)
    BY <1>4, <1>6 DEF MInv, AnswersRight
  <2> QED BY <2>1, <2>2
<1>7. ASSUME cuts' = 0, NEW i \in DOMAIN answers'
      PROVE  LET a == answers[i]' IN a.type \in Types /\ a.set = Selected(a.type, TRUE, a.home)
  <2>1. CASE outer # <<>>
    <3>1. answers' = answers
      BY <2>1 DEF Deliver
    <3> QED BY <1>6, <1>7, <3>1
  <2>2. CASE outer = <<>>
    <3> DEFINE new == [type |-> asked[1].type, home |-> Home, set |-> ms, leaf |-> Leaf(ms)]
    <3>1. answers' = Append(answers, new)
      BY <2>2 DEF Deliver
    <3>2. new.type \in Types /\ new.set = Selected(new.type, TRUE, new.home)
      <4>1. asked[1] \in Question
        BY DEF IInv, StateTyped
      <4> QED BY <1>7, <2>2, <4>1 DEF Question
    <3> HIDE DEF new, Answer
    <3>3. answers[i]' = IF i \in DOMAIN answers THEN answers[i] ELSE new
      BY <1>5, <1>7, <3>1
    <3> QED BY <1>6, <1>7, <3>2, <3>3
  <2> QED BY <2>1, <2>2
<1>8. AnswersRight'
  <2> SUFFICES ASSUME cuts' = 0, NEW i \in DOMAIN answers'
               PROVE  answers'[i].set = Selected(answers[i].type, TRUE, answers[i].home)'
    BY DEF AnswersRight
  <2> DEFINE a == answers[i]'
  <2>1. a.type \in Types /\ a.set = Selected(a.type, TRUE, a.home)
    BY <1>7
  <2> QED BY <1>3, <2>1
<1> QED BY <1>2, <1>8

LEMMA DescendsSame ==
    ASSUME UNCHANGED project, NEW A, NEW R, Descends(A, R)
    PROVE  Descends(A, R)'
BY EmbedsSame DEF Descends

\* The settled types stay ranked when one joins them whose embeds are settled.
LEMMA FoundedGrows ==
    ASSUME project \in Projects, Founded, UNCHANGED project,
           NEW t \in Types, \A e \in EmbedsOf(t) : e.to \in SettledTypes,
           SettledTypes' = SettledTypes \cup {t}
    PROVE  Founded'
<1>1. PICK A : A = SettledTypes
  OBVIOUS
<1>2. PICK N \in Nat : \E R : Descends(A, R) /\ \A u \in A : R[u] < N
  BY <1>1 DEF Founded
<1>3. PICK R : Descends(A, R) /\ \A u \in A : R[u] < N
  BY <1>2
<1>4. PICK B : B = A \cup {t}
  OBVIOUS
<1>5. PICK Q : Q = [u \in B |-> IF u \in A THEN R[u] ELSE N]
  OBVIOUS
<1>6. Descends(B, Q)
  <2>1. B \subseteq Types /\ Q \in [B -> Nat]
    BY <1>2, <1>3, <1>4, <1>5 DEF Descends
  <2>2. ASSUME NEW u \in B, NEW e \in EmbedsOf(u)
        PROVE  e.to \in B /\ Q[e.to] < Q[u]
    <3>1. CASE u \in A
      BY <1>3, <1>4, <1>5, <3>1 DEF Descends
    <3>2. CASE u \notin A
      BY <1>1, <1>3, <1>4, <1>5, <3>2
    <3> QED BY <3>1, <3>2
  <2> QED BY <2>1, <2>2 DEF Descends
<1>7. \A u \in B : Q[u] < N + 1
  <2>1. \A u \in A : R[u] \in Nat
    BY <1>3 DEF Descends
  <2> QED BY <1>2, <1>3, <1>4, <1>5, <2>1
<1>8. Descends(B, Q)'
  BY <1>6, DescendsSame
<1>9. SettledTypes' = B /\ N + 1 \in Nat
  BY <1>1, <1>2, <1>4
<1> QED BY <1>7, <1>8, <1>9 DEF Founded

-----------------------------------------------------------------------------
(* Every step keeps the memo right.                                        *)

\* What the memo holds stays right while it does not change.
LEMMA MemoSame ==
    ASSUME IInv, MInv, UNCHANGED <<project, memo>>
    PROVE  SettledTypes' = SettledTypes /\ MemoRight' /\ Founded'
<1>1. project \in Projects /\ memo \in UNION {[K -> MethodSet] : K \in SUBSET MemoKey}
  BY DEF IInv, StateTyped
<1>2. SettledTypes' = SettledTypes
  BY EmbedsSame DEF SettledTypes
<1>3. MemoRight'
  <2>1. \A k \in DOMAIN memo : k.type \in Types
    BY <1>1 DEF MemoKey
  <2>2. \A k \in DOMAIN memo :
          Selected(k.type, k.keep, k.home)' = Selected(k.type, k.keep, k.home)
    BY <1>1, <2>1, SelectedSame
  <2> QED BY <2>2 DEF MInv, MemoRight
<1>4. Founded'
  <2>1. PICK A : A = SettledTypes
    OBVIOUS
  <2>2. PICK N \in Nat : \E R : Descends(A, R) /\ \A u \in A : R[u] < N
    BY <2>1 DEF MInv, Founded
  <2>3. PICK R : Descends(A, R) /\ \A u \in A : R[u] < N
    BY <2>2
  <2>4. Descends(A, R)'
    BY <2>3, DescendsSame
  <2>5. SettledTypes' = A
    BY <1>2, <2>1
  <2> QED BY <2>2, <2>3, <2>4, <2>5 DEF Founded
<1> QED BY <1>2, <1>3, <1>4

\* An answer keeps it: exact, or cut.
LEMMA AnsweredMInv ==
    ASSUME IInv, MInv, Calling, NEW ms \in MethodSet, Deliver(ms, stack),
           UNCHANGED <<project, memo>>, cuts' \in {cuts, cuts + 1},
           cuts' = cuts => /\ NextCall.type \in SettledTypes
                           /\ ms = Selected(NextCall.type, NextCall.keep, Home)
    PROVE  MInv'
<1> DEFINE n == Len(stack)
           c == Callees(stack[n])[Len(stack[n].got) + 1]
<1>1. stack \in Seq(Frame) /\ n \in Nat /\ asked # <<>> /\ cuts \in Nat
  BY DEF IInv, StateTyped, Calling
<1>2. SettledTypes' = SettledTypes /\ MemoRight' /\ Founded'
  BY MemoSame
<1>3. stack # <<>> => Len(stack[n].got) < Len(Callees(stack[n]))
  BY DEF Calling, Pending, Top
<1>4. stack # <<>> => NextCall = c
  BY DEF NextCall, Top
<1>5. stack = <<>> => NextCall.type = asked[1].type /\ NextCall.keep = TRUE
  BY DEF NextCall, Call
<1>6. FramesRight' /\ Linked'
  <2>1. ASSUME stack # <<>>, cuts' = cuts, stack[n].cuts = cuts
        PROVE  c.type \in SettledTypes' /\ ms = Selected(c.type, c.keep, Home)
    BY Zenon, <1>2, <1>4, <2>1
  <2>2. /\ Len(stack) <= Len(stack) /\ UNCHANGED project
        /\ SettledTypes \subseteq SettledTypes'
    BY <1>1, <1>2
  <2> HIDE DEF c
  <2> QED BY <1>1, <1>3, <2>1, <2>2, DeliverRight DEF c
<1>7. Rooted' /\ AnswersRight'
  <2>1. ASSUME stack = <<>>, cuts' = 0 PROVE ms = Selected(asked[1].type, TRUE, Home)
    <3>1. cuts' = cuts
      BY <1>1, <2>1
    <3> QED BY Zenon, <1>5, <2>1, <3>1
  <2>2. Len(stack) <= Len(stack) /\ UNCHANGED project
    BY <1>1
  <2> QED BY <1>1, <1>3, <2>1, <2>2, DeliverAnswers
<1> QED BY <1>2, <1>6, <1>7 DEF MInv

\* The answers given stay right.
LEMMA AnswersSame ==
    ASSUME IInv, MInv, UNCHANGED <<project, answers>>, cuts' = 0 => cuts = 0
    PROVE  AnswersRight'
<1> SUFFICES ASSUME cuts = 0, NEW i \in DOMAIN answers
             PROVE  answers[i].set = Selected(answers[i].type, TRUE, answers[i].home)'
  BY DEF AnswersRight
<1> DEFINE Answer == [type : Types, home : Dir, set : MethodSet,
                      leaf : {"ref", "text", "marshaler"}]
<1>1. answers \in Seq(Answer)
  BY DEF IInv, StateTyped
<1>2. answers[i] \in Answer
  <2> HIDE DEF Answer
  <2> QED BY <1>1
<1>3. PICK t \in Types : t = answers[i].type
  BY <1>2
<1>4. \A keep, home : Selected(t, keep, home)' = Selected(t, keep, home)
  BY SelectedSame DEF IInv, StateTyped
<1>5. answers[i].set = Selected(answers[i].type, TRUE, answers[i].home)
  BY DEF MInv, AnswersRight
<1> QED BY Zenon, <1>3, <1>4, <1>5

\* What the open calls have got stays right.
LEMMA GotSame ==
    ASSUME IInv, MInv, UNCHANGED <<project, asked>>, NEW i \in DOMAIN stack,
           stack'[i] = stack[i], stack[i].cuts = cuts, NEW j \in DOMAIN stack[i].got
    PROVE  /\ Callees(stack[i])'[j].type \in SettledTypes
           /\ stack'[i].got[j] =
                Selected(Callees(stack[i])[j].type, Callees(stack[i])[j].keep, Home)'
<1> DEFINE c == Callees(stack[i])[j]
<1>1. stack[i] \in Frame /\ project \in Projects
  BY DEF IInv, StateTyped
<1>2. Callees(stack[i]) \in Seq([type : Types, keep : BOOLEAN])
  BY <1>1, CalleesShape
<1>3. Len(stack[i].got) <= Len(Callees(stack[i])) /\ stack[i].got \in Seq(MethodSet)
  BY <1>1 DEF IInv, FramesSane, Frame
<1>4. j \in 1..Len(Callees(stack[i]))
  BY <1>2, <1>3
<1>5. c.type \in Types
  <2>1. c \in [type : Types, keep : BOOLEAN]
    BY <1>2, <1>4, ElementOfSeq
  <2> QED BY <2>1
<1>6. Callees(stack[i])' = Callees(stack[i]) /\ Home' = Home
  BY DEF Callees, Home
<1>7. c.type \in SettledTypes /\ stack[i].got[j] = Selected(c.type, c.keep, Home)
  BY DEF MInv, FramesRight
<1>8. PICK t \in Types : t = c.type
  BY <1>5
<1>9. \A keep, home : Selected(t, keep, home)' = Selected(t, keep, home)
  BY <1>1, SelectedSame
<1>10. c' = c
  BY <1>6
<1> HIDE DEF c
<1>11. Selected(c.type, c.keep, Home)' = Selected(c.type, c.keep, Home)
  BY <1>6, <1>8, <1>9, <1>10
<1> QED BY <1>6, <1>7, <1>11 DEF c

\* A call that begins has got nothing yet.
LEMMA WalkMInv ==
    ASSUME IInv, MInv, Walk
    PROVE  MInv'
<1> DEFINE n == Len(stack)
           new == [type |-> NextCall.type, keep |-> NextCall.keep, cuts |-> cuts, got |-> <<>>]
<1>1. stack \in Seq(Frame) /\ n \in Nat /\ DOMAIN stack = 1..n /\ cuts \in Nat
  BY DEF IInv, StateTyped
<1>2. /\ UNCHANGED <<project, memo, cuts, asked, answers>>
      /\ stack' = Append(stack, new) /\ Calling
  BY DEF Walk
<1>3. /\ Len(stack') = n + 1 /\ DOMAIN stack' = 1..(n + 1) /\ stack'[n + 1] = new
      /\ \A i \in 1..n : stack'[i] = stack[i]
  <2> HIDE DEF new
  <2> QED BY <1>1, <1>2
<1>4. SettledTypes' = SettledTypes /\ MemoRight' /\ Founded'
  BY <1>2, MemoSame
<1>5. ASSUME NEW i \in 1..n
      PROVE  /\ Callees(stack[i])' = Callees(stack[i]) /\ stack[i] \in Frame
             /\ Callees(stack[i]) \in Seq([type : Types, keep : BOOLEAN])
             /\ i \in DOMAIN stack
  <2>1. stack'[i] = stack[i] /\ stack[i] \in Frame
    BY <1>1, <1>3
  <2>2. Callees(stack[i])' = Callees(stack[i])
    BY <1>2, <2>1 DEF Callees
  <2> QED BY <1>1, <2>1, <2>2, CalleesShape DEF IInv, StateTyped
<1>6. stack # <<>> => /\ n \in 1..n /\ Len(stack[n].got) < Len(Callees(stack[n]))
                      /\ NextCall = Callees(stack[n])[Len(stack[n].got) + 1]
  BY <1>1, <1>2 DEF Calling, Pending, Top, NextCall
<1>7. Linked'
  <2> SUFFICES ASSUME NEW i \in 1..n
               PROVE  LET c == Callees(stack[i])'[Len(stack'[i].got) + 1]
                      IN  /\ stack'[i + 1].type = c.type /\ stack'[i + 1].keep = c.keep
                          /\ stack'[i].cuts <= stack'[i + 1].cuts
    BY <1>1, <1>3 DEF Linked
  <2>1. stack'[i] = stack[i] /\ Callees(stack[i])' = Callees(stack[i]) /\ i \in DOMAIN stack
    BY <1>3, <1>5
  <2>2. CASE i < n
    <3>1. LET c == Callees(stack[i])[Len(stack[i].got) + 1]
          IN  /\ stack[i + 1].type = c.type /\ stack[i + 1].keep = c.keep
              /\ stack[i].cuts <= stack[i + 1].cuts
      BY <2>1, <2>2 DEF MInv, Linked
    <3>2. i + 1 \in 1..n
      BY <1>1, <2>2
    <3> QED BY <1>3, <2>1, <3>1, <3>2
  <2>3. CASE i = n
    <3>1. stack # <<>> /\ stack[n].cuts <= cuts
      BY <1>1, <2>1, <2>3 DEF IInv, FramesSane
    <3>2. NextCall = Callees(stack[n])[Len(stack[n].got) + 1]
      BY <1>6, <3>1
    <3> QED BY <1>3, <2>1, <2>3, <3>1, <3>2
  <2> QED BY <1>1, <2>2, <2>3
<1>8. FramesRight'
  <2> SUFFICES ASSUME NEW i \in 1..(n + 1), stack'[i].cuts = cuts, NEW j \in DOMAIN stack'[i].got
               PROVE  /\ Callees(stack[i])'[j].type \in SettledTypes'
                      /\ stack'[i].got[j] =
                           Selected(Callees(stack[i])[j].type, Callees(stack[i])[j].keep, Home)'
    BY <1>2, <1>3 DEF FramesRight
  <2>1. i \in 1..n /\ stack'[i] = stack[i]
    BY <1>1, <1>3
  <2> QED BY <1>1, <1>2, <1>4, <2>1, GotSame
<1>9. Rooted'
  <2>1. CASE stack = <<>>
    <3>1. n = 0 /\ stack'[1] = new
      BY <1>1, <1>3, <2>1
    <3>2. NextCall.type = asked[1].type /\ NextCall.keep = TRUE
      BY <2>1 DEF NextCall, Call
    <3>3. stack'[1].type = asked[1].type /\ stack'[1].keep = TRUE
      <4>1. stack'[1].type = NextCall.type /\ stack'[1].keep = NextCall.keep
        BY <3>1
      <4> QED BY Zenon, <3>2, <4>1
    <3> QED BY Zenon, <1>2, <3>3 DEF Rooted
  <2>2. CASE stack # <<>>
    <3>1. stack'[1] = stack[1]
      BY <1>1, <1>3, <2>2
    <3> QED BY <1>2, <2>2, <3>1 DEF Rooted, MInv
  <2> QED BY <2>1, <2>2
<1>10. AnswersRight'
  BY <1>2, AnswersSame
<1> QED BY <1>4, <1>7, <1>8, <1>9, <1>10 DEF MInv

\* A call no cut shortened is remembered, and right.
LEMMA MemoGrown ==
    ASSUME IInv, MInv, UNCHANGED project, NEW f \in Frame, NEW ms,
           Uncut(f), Memoize(f, ms), ms = Selected(f.type, f.keep, Home),
           \A e \in EmbedsOf(f.type) : e.to \in SettledTypes
    PROVE  SettledTypes' = SettledTypes \cup {f.type} /\ MemoRight' /\ Founded'
<1>1. project \in Projects /\ memo \in UNION {[K -> MethodSet] : K \in SUBSET MemoKey}
  BY DEF IInv, StateTyped
<1>2. f.type \in Types
  BY DEF Frame
<1>3. /\ DOMAIN memo' = DOMAIN memo \cup {Key(f)}
      /\ \A k \in DOMAIN memo' : memo'[k] = IF k = Key(f) THEN ms ELSE memo[k]
  BY DEF Memoize
<1>4. Key(f).type = f.type /\ Key(f).keep = f.keep /\ Key(f).home = Home
  BY DEF Key
<1>5. SettledTypes' = SettledTypes \cup {f.type}
  <2>1. Types' = Types
    BY EmbedsSame
  <2>2. {k.type : k \in DOMAIN memo'} = {k.type : k \in DOMAIN memo} \cup {f.type}
    BY <1>3, <1>4
  <2> QED BY <2>1, <2>2 DEF SettledTypes
<1>6. MemoRight'
  <2>1. \A t \in Types : \A keep, home : Selected(t, keep, home)' = Selected(t, keep, home)
    BY <1>1, SelectedSame
  <2> SUFFICES ASSUME NEW k \in DOMAIN memo'
               PROVE  memo'[k] = Selected(k.type, k.keep, k.home)'
    BY DEF MemoRight
  <2>2. k.type \in Types
    BY <1>1, <1>2, <1>3, <1>4 DEF MemoKey
  <2>3. memo'[k] = Selected(k.type, k.keep, k.home)
    <3>1. CASE k = Key(f)
      BY Zenon, <1>3, <1>4, <3>1
    <3>2. CASE k # Key(f)
      BY <1>3, <3>2 DEF MInv, MemoRight
    <3> QED BY <3>1, <3>2
  <2> QED BY <2>1, <2>2, <2>3
<1>7. Founded'
  <2>1. Founded
    BY DEF MInv
  <2> QED BY <1>1, <1>2, <1>5, <2>1, FoundedGrows
<1> QED BY <1>5, <1>6, <1>7

\* A call returns its exact set, or a cut came since it began.
LEMMA ReturnMInv ==
    ASSUME IInv, MInv, Return
    PROVE  MInv'
<1> DEFINE n == Len(stack)
           outer == SubSeq(stack, 1, n - 1)
           ms == Computed(Top)
<1>1. /\ stack \in Seq(Frame) /\ n \in Nat \ {0} /\ DOMAIN stack = 1..n
      /\ asked # <<>> /\ Top = stack[n] /\ cuts \in Nat
  BY DEF IInv, StateTyped, Return, Top
<1>2. Top \in Frame /\ n \in DOMAIN stack /\ Top.cuts \in Nat /\ Top.cuts <= cuts
  <2>1. n \in DOMAIN stack
    BY <1>1
  <2>2. stack[n] \in Frame /\ stack[n].cuts <= cuts
    BY <1>1, <2>1 DEF IInv, FramesSane
  <2> QED BY <1>1, <2>1, <2>2 DEF Frame
<1>3. Len(Top.got) = Len(Callees(Top))
  <2>1. Len(Top.got) <= Len(Callees(Top)) /\ ~(Len(Top.got) < Len(Callees(Top)))
    BY <1>1, <1>2 DEF IInv, FramesSane, Return, Pending
  <2>2. Len(Top.got) \in Nat /\ Len(Callees(Top)) \in Nat
    BY <1>2, CalleesShape DEF Frame, IInv, StateTyped
  <2> QED BY <2>1, <2>2
<1>4. ms \in MethodSet
  BY <1>2, <1>3, ComputedIsSet DEF IInv, StateTyped
<1>5. Memoize(Top, ms) /\ Deliver(ms, outer) /\ UNCHANGED project /\ cuts' = cuts
  BY DEF Return
<1>6. /\ outer \in Seq(Frame) /\ Len(outer) = n - 1 /\ DOMAIN outer = 1..(n - 1)
      /\ \A i \in DOMAIN outer : outer[i] = stack[i]
  BY <1>1
<1>7. Uncut(Top) => /\ ms = Selected(Top.type, Top.keep, Home)
                    /\ \A e \in EmbedsOf(Top.type) : e.to \in SettledTypes
  <2> SUFFICES ASSUME Uncut(Top)
               PROVE  /\ ms = Selected(Top.type, Top.keep, Home)
                      /\ \A e \in EmbedsOf(Top.type) : e.to \in SettledTypes
    OBVIOUS
  <2>1. \A j \in DOMAIN Top.got :
          /\ Callees(Top)[j].type \in SettledTypes
          /\ Top.got[j] = Selected(Callees(Top)[j].type, Callees(Top)[j].keep, Home)
    BY <1>1, <1>2 DEF Uncut, MInv, FramesRight
  <2>2. project \in Projects /\ Founded
    BY DEF IInv, StateTyped, MInv
  <2> QED BY <1>2, <1>3, <2>1, <2>2, ComputedRight
<1> HIDE DEF ms, outer
<1>8. /\ SettledTypes \subseteq SettledTypes' /\ MemoRight' /\ Founded'
      /\ Uncut(Top) => Top.type \in SettledTypes'
  <2>1. CASE Uncut(Top)
    <3>1. SettledTypes' = SettledTypes \cup {Top.type} /\ MemoRight' /\ Founded'
      BY <1>2, <1>5, <1>7, <2>1, MemoGrown
    <3> QED BY <3>1
  <2>2. CASE ~Uncut(Top)
    <3>1. UNCHANGED memo
      BY <1>5, <2>2 DEF Memoize
    <3>2. SettledTypes' = SettledTypes /\ MemoRight' /\ Founded'
      BY <1>5, <3>1, MemoSame
    <3> QED BY <2>2, <3>2
  <2> QED BY <2>1, <2>2
<1>9. Len(outer) <= Len(stack) /\ cuts' \in {cuts, cuts + 1}
  BY <1>1, <1>5, <1>6
<1>10. outer # <<>> =>
         /\ n - 1 \in DOMAIN stack /\ n - 1 \in DOMAIN outer /\ n - 1 < n /\ (n - 1) + 1 = n
  BY <1>1, <1>6
<1>11. outer # <<>> => Len(outer[Len(outer)].got) < Len(Callees(outer[Len(outer)]))
  <2> HIDE DEF n
  <2> QED BY <1>6, <1>10 DEF IInv, FramesSane, n
<1>12. FramesRight' /\ Linked'
  <2> DEFINE c == Callees(stack[Len(outer)])[Len(stack[Len(outer)].got) + 1]
  <2>1. ASSUME outer # <<>>, cuts' = cuts, stack[Len(outer)].cuts = cuts
        PROVE  c.type \in SettledTypes' /\ ms = Selected(c.type, c.keep, Home)
    <3>1. /\ Top.type = c.type /\ Top.keep = c.keep
          /\ stack[Len(outer)].cuts <= Top.cuts
      BY <1>1, <1>6, <1>10, <2>1 DEF MInv, Linked
    <3>2. Uncut(Top)
      BY <1>1, <1>2, <2>1, <3>1 DEF Uncut
    <3> HIDE DEF c
    <3> QED BY Zenon, <1>7, <1>8, <3>1, <3>2
  <2> HIDE DEF c
  <2> QED BY <1>1, <1>4, <1>5, <1>6, <1>8, <1>9, <1>11, <2>1, DeliverRight DEF c
<1>13. Rooted' /\ AnswersRight'
  <2>1. ASSUME outer = <<>>, cuts' = 0 PROVE ms = Selected(asked[1].type, TRUE, Home)
    <3>1. n = 1 /\ Uncut(Top)
      BY <1>1, <1>2, <1>5, <1>6, <2>1 DEF Uncut
    <3>2. Top.type = asked[1].type /\ Top.keep = TRUE
      BY <1>1, <3>1 DEF MInv, Rooted
    <3> QED BY Zenon, <1>7, <3>1, <3>2
  <2> QED BY <1>1, <1>4, <1>5, <1>6, <1>9, <1>11, <2>1, DeliverAnswers
<1> QED BY <1>8, <1>12, <1>13 DEF MInv

LEMMA InitMInv == Init => MInv
<1> SUFFICES ASSUME Init PROVE MInv
  OBVIOUS
<1>1. project \in Projects /\ DOMAIN memo = {} /\ stack = <<>> /\ answers = <<>>
  BY DEF Init
<1>2. Founded
  <2> DEFINE R == [u \in SettledTypes |-> 0]
  <2>1. SettledTypes = {t \in Types : project[t].kind = "known"}
    BY <1>1 DEF SettledTypes
  <2>2. \A t \in SettledTypes : EmbedsOf(t) = {}
    BY <1>1, <2>1, EmbedsShape
  <2>3. Descends(SettledTypes, R)
    BY <2>1, <2>2 DEF Descends
  <2>4. \A u \in SettledTypes : R[u] < 1
    OBVIOUS
  <2> QED BY <2>3, <2>4 DEF Founded
<1>3. MemoRight /\ FramesRight /\ Linked /\ Rooted /\ AnswersRight
  BY <1>1 DEF MemoRight, FramesRight, Linked, Rooted, AnswersRight
<1> QED BY <1>2, <1>3 DEF MInv

LEMMA NextMInv == IInv /\ MInv /\ [Next]_vars => MInv'
<1> SUFFICES ASSUME IInv, MInv, [Next]_vars PROVE MInv'
  OBVIOUS
<1>0. StateTyped /\ project \in Projects
  BY DEF IInv, StateTyped
<1>1. CASE Ask
  <2>1. stack' = <<>> /\ UNCHANGED <<project, memo, cuts, answers>>
    BY <1>0, <1>1 DEF Ask, StateTyped
  <2>2. FramesRight' /\ Linked' /\ Rooted'
    BY <2>1 DEF FramesRight, Linked, Rooted
  <2> QED BY <2>1, <2>2, MemoSame, AnswersSame DEF MInv
<1>2. CASE ReadKnown
  <2>1. NextCall \in [type : Types, keep : BOOLEAN]
    BY <1>0, <1>2, NextCallShape DEF ReadKnown
  <2> DEFINE ms == Own(NextCall.type, NextCall.keep, Home)
             u == NextCall.type
             keep == NextCall.keep
  <2>2. ms \in MethodSet
    BY <1>0, <2>1, DeclaredIsSet, EmptyIsSet DEF Own
  <2>3. Calling /\ Deliver(ms, stack) /\ UNCHANGED <<project, memo>> /\ cuts' = cuts
    BY <1>2 DEF ReadKnown
  <2>4. u \in SettledTypes
    BY <1>2, <2>1 DEF ReadKnown, SettledTypes
  <2>5. ms = Selected(u, keep, Home)
    <3>1. u \in Types /\ keep \in BOOLEAN /\ project[u].kind \notin {"alias", "defined", "struct"}
      BY <1>2, <2>1 DEF ReadKnown
    <3> HIDE DEF u, keep
    <3>2. Selected(u, keep, Home) = Own(u, keep, Home)
      BY <1>0, <3>1, LeafSelects
    <3> QED BY <3>2 DEF u, keep
  <2> HIDE DEF ms
  <2> QED BY <2>2, <2>3, <2>4, <2>5, AnsweredMInv
<1>3. CASE Cut
  <2>1. cuts' = cuts + 1 /\ cuts' # cuts
    BY <1>0, <1>3 DEF Cut, StateTyped
  <2> QED BY <1>3, <2>1, EmptyIsSet, AnsweredMInv DEF Cut
<1>4. CASE Recall
  <2> DEFINE ms == memo[Key(NextCall)]
  <2>1. Key(NextCall) \in DOMAIN memo /\ ms \in MethodSet
    BY <1>0, <1>4 DEF Recall, StateTyped
  <2>2. Calling /\ Deliver(ms, stack) /\ UNCHANGED <<project, memo>> /\ cuts' = cuts
    BY <1>4 DEF Recall
  <2>3. /\ Key(NextCall).type = NextCall.type /\ Key(NextCall).keep = NextCall.keep
        /\ Key(NextCall).home = Home
    BY DEF Key
  <2>4. NextCall.type \in SettledTypes
    BY <2>1, <2>3 DEF SettledTypes
  <2>5. ms = Selected(NextCall.type, NextCall.keep, Home)
    BY Zenon, <2>1, <2>3 DEF MInv, MemoRight
  <2> HIDE DEF ms
  <2> QED BY <2>1, <2>2, <2>4, <2>5, AnsweredMInv
<1>5. CASE Walk
  BY <1>5, WalkMInv
<1>6. CASE Return
  BY <1>6, ReturnMInv
<1>7. CASE Done \/ UNCHANGED vars
  <2>1. UNCHANGED <<project, memo, cuts, stack, asked, answers>>
    BY <1>7 DEF Done, vars
  <2>2. FramesRight'
    <3> SUFFICES ASSUME NEW i \in DOMAIN stack, stack[i].cuts = cuts,
                        NEW j \in DOMAIN stack[i].got
                 PROVE  /\ Callees(stack[i])'[j].type \in SettledTypes'
                        /\ stack'[i].got[j] =
                             Selected(Callees(stack[i])[j].type, Callees(stack[i])[j].keep, Home)'
      BY <2>1 DEF FramesRight
    <3> QED BY <2>1, MemoSame, GotSame
  <2>3. Linked' /\ Rooted'
    BY <2>1 DEF MInv, Linked, Rooted, Callees
  <2> QED BY <2>1, <2>2, <2>3, MemoSame, AnswersSame DEF MInv
<1> QED BY <1>1, <1>2, <1>3, <1>4, <1>5, <1>6, <1>7 DEF Next

LEMMA MInvAlways == Spec => []MInv
BY InitMInv, NextMInv, MethodSetsInvariant, PTL DEF Spec

\* A remembered set is what Go's rules give the type, whatever calls were open
\* around the walk that stored it: methodSetOf's claim that "a set computed
\* without a cycle cut does not depend on the path to it".
THEOREM MemoIsExact == Spec => []MemoExact
<1>1. MInv => MemoExact
  BY DEF MInv, MemoRight, MemoExact
<1> QED BY <1>1, MInvAlways, PTL

\* In a module no walk of which has met a cycle, every struct is answered with
\* what Go's rules give it, recalled sets included, and documented as
\* encoding/json encodes it.
THEOREM UncutSetsAreRight == Spec => [](cuts = 0 => SetsMatchSelectorRules /\ LeavesMatchEncoding)
<1>1. MInv => (cuts = 0 => SetsMatchSelectorRules)
  BY DEF MInv, AnswersRight, SetsMatchSelectorRules
<1> QED BY <1>1, MInvAlways, LeavesFollow, PTL

=============================================================================
