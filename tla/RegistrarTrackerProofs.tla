----------------------- MODULE RegistrarTrackerProofs -----------------------
(***************************************************************************)
(* RegistrarTracker for every body, seed and set of names: the frame stack *)
(* is exactly the open scopes, a waiting write always finds its frame, no  *)
(* binding is resolved and marked as failed at once, and a registrar that  *)
(* straight-line code writes keeps its registrations.                      *)
(***************************************************************************)
EXTENDS RegistrarTracker, Integers, WellFoundedInduction, SequenceTheorems, TLAPS

\* A non-empty bounded set of naturals has a greatest element: the innermost
\* scope of constScopes.resolve, the nearest frame of lookup.
LEMMA GreatestExists ==
  ASSUME NEW n \in Nat, NEW S, S # {}, \A s \in S : s \in Nat /\ s <= n
  PROVE  Greatest(S) \in S
<1> DEFINE T == {n - s : s \in S}
<1>1. T \subseteq Nat /\ T # {}
  OBVIOUS
<1>2. \E t \in T : \A y \in T : ~(<<y, t>> \in OpToRel(<, Nat))
  <2> HIDE DEF T
  <2> QED BY <1>1, NatLessThanWellFounded, WFMin
<1>3. PICK k \in S : \A j \in S : ~(<<n - j, n - k>> \in OpToRel(<, Nat))
  BY <1>2
<1>4. \A j \in S : j <= k
  <2> SUFFICES ASSUME NEW j \in S, ~(j <= k) PROVE FALSE
    OBVIOUS
  <2>1. n - j \in Nat /\ n - k \in Nat /\ n - j < n - k
    OBVIOUS
  <2>2. <<n - j, n - k>> \in OpToRel(<, Nat)
    BY <2>1 DEF OpToRel
  <2> QED BY <1>3, <2>2
<1> QED BY <1>4 DEF Greatest

-----------------------------------------------------------------------------
(* Facts about syntax trees. *)

\* What the walk knows of its body: it is a well-formed tree.
Given == prog \in Programs

\* Nodes lie in source order, and the subtree of each is an interval of it.
LEMMA TreeShape ==
  ASSUME Given
  PROVE  /\ prog \in Seq(Node) /\ Len(prog) \in Nat \ {0}
         /\ DOMAIN prog = 1..Len(prog)
         /\ \A n \in DOMAIN prog :
              /\ prog[n].last \in Nat /\ n <= prog[n].last /\ prog[n].last <= Len(prog)
              /\ \A m \in DOMAIN prog :
                   (n < m /\ m <= prog[n].last) => prog[m].last <= prog[n].last
<1>1. WellFormed(prog)
  BY ProgramsAssumption DEF Given
<1>2. prog \in Seq(Node) /\ Len(prog) \in Nat /\ DOMAIN prog = 1..Len(prog)
  BY <1>1 DEF WellFormed
<1>3. \A n \in DOMAIN prog : prog[n] \in Node
  BY <1>2
<1> QED BY <1>1, <1>2, <1>3 DEF WellFormed, Node

\* What a node of the body is made of.
LEMMA NodeTyping ==
  ASSUME Given, NEW n \in DOMAIN prog
  PROVE  /\ n \in Nat /\ prog[n] \in Node
         /\ Writes(n) \in Seq(Write) /\ prog[n].reg \in Name
         /\ prog[n].last \in Nat /\ prog[n].pathOK \in BOOLEAN
<1>1. n \in Nat /\ prog[n] \in Node
  BY TreeShape
<1>2. prog[n].writes \in Seq(Write) /\ <<>> \in Seq(Write)
  BY <1>1 DEF Node
<1> QED BY <1>1, <1>2 DEF Node, Writes

\* What a frame of the stack is made of.
LEMMA FrameTyping ==
  ASSUME TypeOK
  PROVE  Depth \in Nat \ {0} /\ \A i \in 1..Depth : frames[i] \in Frame
                                                /\ frames[i].node \in Nat
<1>1. Depth \in Nat \ {0} /\ \A i \in 1..Depth : frames[i] \in Frame
  BY DEF TypeOK, Depth
<1>2. \A f \in Frame : f.node \in Nat
  BY DEF Frame
<1> QED BY <1>1, <1>2

\* The body block of a loop or closure lies within it.
LEMMA BodyWithin ==
  ASSUME Given, NEW n \in DOMAIN prog, prog[n].kind \in RepeatableKinds
  PROVE  /\ Body(n) \in DOMAIN prog
         /\ n < Body(n) /\ Body(n) <= prog[n].last
<1>1. WellFormed(prog)
  BY ProgramsAssumption DEF Given
<1>2. PICK b \in DOMAIN prog : prog[b].parent = n /\ prog[b].kind = "block"
  BY <1>1 DEF WellFormed
<1>3. Body(n) \in DOMAIN prog /\ prog[Body(n)].parent = n
  BY <1>2 DEF Body
<1>4. Body(n) # 1
  BY <1>1, <1>3, TreeShape DEF WellFormed
<1>5. /\ prog[Body(n)].parent \in 1..(Body(n) - 1)
      /\ Body(n) <= prog[prog[Body(n)].parent].last
  BY <1>1, <1>3, <1>4 DEF WellFormed
<1> QED BY <1>3, <1>5, TreeShape

\* The declarations of a scope are keys (scopeBindings).
LEMMA ScopeTyping ==
  ASSUME Given, NEW n \in {0} \cup DOMAIN prog
  PROVE  ScopeOf(n) \subseteq Key
<1> USE TreeShape
<1>1. \A c \in DOMAIN prog : prog[c] \in Node
  OBVIOUS
<1>2. CASE n = 0
  BY <1>2, SeedAssumption DEF ScopeOf, Key, Pos
<1>3. CASE n # 0 /\ prog[n].kind \in {"func", "range"}
  <2>1. Body(n) \in Nat
    BY <1>3, BodyWithin DEF RepeatableKinds
  <2>2. prog[n].decls \subseteq Name
    BY <1>1, <1>3 DEF Node
  <2> QED BY <1>3, <2>1, <2>2 DEF ScopeOf, Key, Pos
<1>4. CASE n # 0 /\ prog[n].kind \notin {"func", "range"}
  <2>1. ListKeys(n) \subseteq Key
    <3>1. \A c \in Child(n) : End(c) \in Nat
      BY DEF Child, End
    <3>2. \A c \in Child(n) : NewNames(c) \subseteq Name
      BY <1>1 DEF Child, NewNames, Node
    <3> QED BY <3>1, <3>2 DEF ListKeys, Key
  <2> QED BY <1>4, <2>1 DEF ScopeOf
<1> QED BY <1>2, <1>3, <1>4

\* Every use of a name refers to a declaration (declKeyAt, constScopes.resolve).
LEMMA KeyTyping ==
  ASSUME Given, NEW x \in Name, NEW at, NEW n \in DOMAIN prog
  PROVE  KeyAt(x, at, n) \in Key
<1>1. CASE Binding(x, at, n) = {}
  BY <1>1 DEF KeyAt, PackageKey, Key
<1>2. CASE Binding(x, at, n) # {}
  <2> DEFINE scope == Greatest(Binding(x, at, n))
  <2>1. \A s \in Binding(x, at, n) : s \in Nat /\ s <= Len(prog)
    BY TreeShape DEF Binding, Enclosing
  <2>2. scope \in Binding(x, at, n)
    <3> QED BY <1>2, <2>1, GreatestExists, TreeShape
  <2>3. \E k \in ScopeOf(scope) : k.name = x
    BY <2>2 DEF Binding
  <2>4. KeyIn(scope, x) \in ScopeOf(scope)
    BY <2>3 DEF KeyIn
  <2>5. scope \in {0} \cup DOMAIN prog
    BY <2>2 DEF Binding, Enclosing
  <2> QED BY <1>2, <2>4, <2>5, ScopeTyping DEF KeyAt
<1> QED BY <1>1, <1>2

\* A write takes effect before its statement is left (bindingWrites).
LEMMA EffectTyping ==
  ASSUME Given, NEW n \in DOMAIN prog
  PROVE  EffectAt(n) \in Nat /\ EffectAt(n) <= End(n)
<1>1. prog[n].last \in Nat /\ End(n) = 2 * prog[n].last + 1
  BY TreeShape DEF End
<1>2. CASE prog[n].kind = "range"
  <2>1. Body(n) \in Nat /\ Body(n) <= prog[n].last
    BY <1>2, BodyWithin, TreeShape DEF RepeatableKinds
  <2> QED BY <1>1, <1>2, <2>1 DEF EffectAt, Pos
<1>3. CASE prog[n].kind # "range"
  BY <1>1, <1>3 DEF EffectAt
<1> QED BY <1>2, <1>3

-----------------------------------------------------------------------------
(* What the walk reads. *)

\* The prefixes a binding may be: none is resolved and marked as failed.
SoundPrefix == {p \in Prefix : p.resolved => p.cause = "argument"}

\* Every binding the walk holds is one of those.
SoundBindings ==
    /\ \A i \in 1..Depth : \A e \in frames[i].values : e.value \in SoundPrefix
    /\ \A w \in pending : w.value \in SoundPrefix

\* The root, the path-dependent and the untraced prefix are sound.
LEMMA FixedPrefixes ==
  Root \in SoundPrefix /\ PathDependent \in SoundPrefix /\ Untraced \in SoundPrefix
BY DEF Root, PathDependent, Untraced, SoundPrefix, Prefix, Cause

\* lookup finds sound prefixes only.
LEMMA LookUpSound ==
  ASSUME TypeOK, SoundBindings, NEW key
  PROVE  LookUp(key) \subseteq SoundPrefix
<1>1. CASE Holders(key) = {}
  BY <1>1 DEF LookUp
<1>2. CASE Holders(key) # {}
  <2>1. Depth \in Nat /\ \A i \in Holders(key) : i \in Nat /\ i <= Depth
    BY DEF TypeOK, Depth, Holders
  <2>2. Greatest(Holders(key)) \in 1..Depth
    <3>1. Greatest(Holders(key)) \in Holders(key)
      BY <1>2, <2>1, GreatestExists
    <3> QED BY <3>1 DEF Holders
  <2>3. ValueOf(frames[Greatest(Holders(key))].values, key) \subseteq SoundPrefix
    BY <2>2 DEF SoundBindings, ValueOf
  <2> QED BY <1>2, <2>3, FixedPrefixes DEF LookUp
<1> QED BY <1>1, <1>2

\* So does bindingView.registrar, whether the name is bound or shadowed.
LEMMA RegistrarSound ==
  ASSUME TypeOK, SoundBindings, NEW v, NEW n
  PROVE  Registrar(v, n) \subseteq SoundPrefix /\ PrefixOf(v, n) \in SoundPrefix
<1>1. \A key : LookUp(key) \subseteq SoundPrefix
  BY LookUpSound
<1>2. Shadowed(v, n) \subseteq SoundPrefix
  BY <1>1, FixedPrefixes DEF Shadowed
<1>3. Registrar(v, n) \subseteq SoundPrefix
  BY <1>1, <1>2 DEF Registrar
<1> QED BY <1>3, FixedPrefixes DEF PrefixOf

\* A right-hand side has a sound value if its registrars have (writtenValue).
LEMMA WrittenSound ==
  ASSUME TypeOK, SoundBindings, NEW rhs \in Rhs, NEW n
  PROVE  Written(rhs, n) \subseteq SoundPrefix
<1>1. CASE rhs.op = "group"
  <2>1. rhs.arg \subseteq Segment /\ PrefixOf(rhs.of, n) \in SoundPrefix
    BY <1>1, RegistrarSound DEF Rhs
  <2>2. (IF rhs.arg = {} THEN <<>> ELSE <<CHOOSE s \in rhs.arg : TRUE>>) \in Seq(Segment)
    BY <2>1
  <2>3. GroupBinding(rhs, n) \in SoundPrefix
    BY <2>1, <2>2 DEF GroupBinding, SoundPrefix, Prefix
  <2> QED BY <1>1, <2>3 DEF Written
<1>2. CASE rhs.op = "ident"
  BY <1>2, RegistrarSound DEF Written
<1>3. CASE rhs.op = "opaque"
  BY <1>3 DEF Written
<1> QED BY <1>1, <1>2, <1>3 DEF Rhs

-----------------------------------------------------------------------------
(* The inductive invariant. *)

\* Frame i is open: a node of the tree that the walk has entered.
OpenFrame(i) ==
    /\ frames[i].node \in DOMAIN prog
    /\ prog[frames[i].node].kind \in FrameKinds
    /\ frames[i].node <= cursor
    /\ pc \in {"advance", "leave"} => frames[i].node < cursor
    /\ pc = "visit" => cursor <= prog[frames[i].node].last

\* The stack is a chain of nested subtrees below the function-level frame.
StackNests ==
    /\ frames[1].node = 0
    /\ \A i \in 2..Depth : OpenFrame(i)
    /\ \A i, j \in 2..Depth : i < j =>
         /\ frames[i].node < frames[j].node
         /\ prog[frames[j].node].last <= prog[frames[i].node].last

\* No scope around the cursor is missing from it.
StackComplete ==
    \A a \in DOMAIN prog :
      (/\ prog[a].kind \in FrameKinds
       /\ cursor <= prog[a].last
       /\ a < cursor \/ (a = cursor /\ pc \in {"visit", "done"}))
      => \E i \in 2..Depth : frames[i].node = a

\* A waiting write belongs to an open frame that ends no earlier than it.
PendingInFrame ==
    /\ PendingFrameOpen
    /\ \A w \in pending : w.depth = 1 \/ w.at <= End(w.node)
    /\ pc = "leave" => \A w \in pending : w.at > Pos(cursor)

IInv ==
    /\ Given /\ TypeOK /\ SoundBindings
    /\ StackNests /\ StackComplete /\ PendingInFrame

\* A fresh tracker, seeded with the prefixes its caller handed over, is sound.
LEMMA InitIInv == Init => IInv
<1> SUFFICES ASSUME Init PROVE IInv
  OBVIOUS
<1>1. Given
  BY DEF Init, Given
<1>2. DOMAIN prog = 1..Len(prog) /\ Len(prog) \in Nat \ {0} /\ prog \in Seq(Node)
  BY <1>1, TreeShape
<1>3. /\ frames \in Seq(Frame) /\ Depth = 1 /\ frames[1].node = 0
      /\ \A e \in frames[1].values : e.value \in SoundPrefix
  <2>1. \A v \in DOMAIN Seed :
          [key |-> [name |-> v, from |-> Pos(1)], value |-> Seed[v]] \in Entry
    BY SeedAssumption DEF Entry, Key, Pos
  <2>2. frames[1] \in Frame
    BY <2>1 DEF Init, Frame
  <2>3. \A v \in DOMAIN Seed : Seed[v] \in SoundPrefix
    BY SeedAssumption, SeedCauseAssumption DEF SoundPrefix
  <2> QED BY <2>2, <2>3 DEF Init, Depth
<1>4. TypeOK
  BY <1>2, <1>3 DEF TypeOK, Init, Depth
<1>5. SoundBindings
  BY <1>3 DEF SoundBindings, Init
<1>6. StackNests /\ StackComplete /\ PendingInFrame
  BY <1>2, <1>3 DEF StackNests, StackComplete, PendingInFrame, PendingFrameOpen, Init
<1> QED BY <1>1, <1>4, <1>5, <1>6 DEF IInv

\* A frame of the stack whose top still encloses the cursor encloses it too.
LEMMA StackEncloses ==
  ASSUME IInv, ~TopEnded, NEW i \in 2..Depth
  PROVE  cursor <= prog[frames[i].node].last
<1>1. Depth \in Nat /\ Depth > 1 /\ cursor \in Nat
  BY DEF IInv, TypeOK, Depth
<1>2. /\ frames[i].node \in DOMAIN prog /\ frames[Depth].node \in DOMAIN prog
      /\ prog[frames[i].node].last \in Nat /\ prog[frames[Depth].node].last \in Nat
  BY <1>1, TreeShape DEF IInv, StackNests, OpenFrame
<1>3. cursor <= prog[frames[Depth].node].last
  BY <1>1, <1>2 DEF TopEnded, End, Pos
<1>4. prog[frames[Depth].node].last <= prog[frames[i].node].last
  BY <1>1, <1>2 DEF IInv, StackNests
<1> QED BY <1>1, <1>2, <1>3, <1>4

\* applyDue keeps the invariant: every due write finds its frame.
LEMMA DueWritesIInv ==
  ASSUME IInv, DueWrites
  PROVE  IInv'
<1> USE DEF IInv
<1>1. Depth \in Nat \ {0} /\ frames \in Seq(Frame) /\ DOMAIN frames = 1..Depth
  BY DEF TypeOK, Depth
<1> DEFINE due(i) == {w \in pending : w.depth = i /\ Due(w)}
           written(i) == {[key |-> w.key, value |-> w.value] : w \in due(i)}
<1>2. frames' = [i \in 1..Depth |->
         [frames[i] EXCEPT !.values = Over(frames[i].values, written(i))]]
  BY DEF DueWrites
<1>3. \A i \in 1..Depth :
        /\ frames'[i] \in Frame /\ frames'[i].node = frames[i].node
        /\ \A e \in frames'[i].values : e.value \in SoundPrefix
  <2> SUFFICES ASSUME NEW i \in 1..Depth
               PROVE  /\ frames'[i] \in Frame /\ frames'[i].node = frames[i].node
                      /\ \A e \in frames'[i].values : e.value \in SoundPrefix
    OBVIOUS
  <2>1. frames[i] \in Frame
    BY <1>1
  <2>2. written(i) \subseteq Entry
    BY DEF TypeOK, PendingWrite, Entry
  <2>3. \A e \in written(i) : e.value \in SoundPrefix
    BY DEF SoundBindings
  <2>4. Over(frames[i].values, written(i)) \subseteq Entry
    BY <2>1, <2>2 DEF Over, Frame
  <2>5. \A e \in Over(frames[i].values, written(i)) : e.value \in SoundPrefix
    BY <2>3 DEF Over, SoundBindings
  <2> HIDE DEF written, due
  <2>6. frames'[i] = [frames[i] EXCEPT !.values = Over(frames[i].values, written(i))]
    BY <1>2
  <2> QED BY <2>1, <2>4, <2>5, <2>6 DEF Frame
<1>4. frames' \in Seq(Frame) /\ Depth' = Depth
  <2> HIDE DEF written, due
  <2>1. frames' \in [1..Depth -> Frame]
    BY <1>1, <1>2, <1>3
  <2> QED BY <1>1, <2>1 DEF Depth
<1>5. TypeOK'
  BY <1>1, <1>4 DEF TypeOK, DueWrites, Depth
<1>6. SoundBindings'
  BY <1>3, <1>4 DEF SoundBindings, DueWrites
<1>7. StackNests'
  BY <1>1, <1>3, <1>4 DEF StackNests, OpenFrame, DueWrites
<1>8. StackComplete'
  BY <1>1, <1>3, <1>4 DEF StackComplete, DueWrites
<1>9. PendingInFrame'
  <2> HIDE DEF written, due
  <2>1. /\ pending' = {w \in pending : ~Due(w)} /\ pc' = "leave"
        /\ UNCHANGED <<prog, cursor>>
    BY DEF DueWrites
  <2>2. \A w \in pending' : w \in pending /\ w.at > Pos(cursor)
    <3>1. \A w \in pending : w.at \in Nat
      BY DEF TypeOK, PendingWrite
    <3>2. Pos(cursor) \in Nat
      BY NodeTyping DEF TypeOK, Pos
    <3> QED BY <2>1, <3>1, <3>2 DEF Due
  <2>3. Pos(cursor)' = Pos(cursor) /\ \A n : End(n)' = End(n)
    BY <2>1 DEF Pos, End
  <2> QED BY <1>1, <1>3, <1>4, <2>1, <2>2, <2>3 DEF PendingInFrame, PendingFrameOpen
<1> QED BY <1>5, <1>6, <1>7, <1>8, <1>9 DEF DueWrites, Given

\* leave keeps the invariant: what it carries outwards is sound, and the writes
\* still waiting belong to the frames that remain.
LEMMA LeaveIInv ==
  ASSUME IInv, Leave
  PROVE  IInv'
<1> USE DEF IInv
<1> DEFINE left == frames[Depth]
           above == frames[Depth - 1]
           outer == {k \in KeysOf(left.values) \cup left.branchWrites :
                       ~DeclaresAt(Depth, k)}
           fell == KindOf(left.node) = "case" /\ prog[left.node].fallsThrough
           carried == {e \in left.values : e.key \in outer}
           lost == IF IsBranch(Depth) THEN {} ELSE AllPathDependent(outer)
           parent ==
             IF IsBareBlock(Depth)
             THEN [above EXCEPT !.values = Over(above.values, carried)]
             ELSE [node |-> above.node,
                   values |-> Over(above.values, lost),
                   branchWrites |-> above.branchWrites \cup
                     (IF IsBranch(Depth) THEN outer ELSE {}),
                   fallthroughWrites |-> above.fallthroughWrites \cup
                     (IF fell THEN outer ELSE {})]
<1>1. /\ Depth \in Nat /\ Depth > 1 /\ frames \in Seq(Frame)
      /\ left \in Frame /\ above \in Frame
      /\ TopEnded
  BY DEF TypeOK, Depth, Leave, TopEnded
<1>2. frames' = Append(SubSeq(frames, 1, Depth - 2), parent)
  BY DEF Leave
<1>3. outer \subseteq Key
  BY <1>1 DEF Frame, KeysOf, Entry
<1>4. carried \subseteq Entry /\ lost \subseteq Entry
  BY <1>1, <1>3, FixedPrefixes DEF Frame, AllPathDependent, Entry, SoundPrefix
<1>5. /\ \A e \in carried : e.value \in SoundPrefix
      /\ \A e \in lost : e.value \in SoundPrefix
  BY <1>1, FixedPrefixes DEF SoundBindings, AllPathDependent
<1>6. parent \in Frame /\ parent.node = above.node
  <2> HIDE DEF outer, carried, lost, fell, above, left
  <2>1. Over(above.values, carried) \subseteq Entry /\ Over(above.values, lost) \subseteq Entry
    BY <1>1, <1>4 DEF Over, Frame
  <2> QED BY <1>1, <1>3, <2>1 DEF Frame
<1>7. \A e \in parent.values : e.value \in SoundPrefix
  <2>1. \A e \in above.values : e.value \in SoundPrefix
    BY <1>1 DEF SoundBindings
  <2> HIDE DEF outer, carried, lost, fell, above, left
  <2>2. /\ \A e \in Over(above.values, carried) : e.value \in SoundPrefix
        /\ \A e \in Over(above.values, lost) : e.value \in SoundPrefix
    BY <1>5, <2>1 DEF Over
  <2>3. parent.values \in {Over(above.values, carried), Over(above.values, lost)}
    BY <1>1 DEF Frame
  <2> QED BY <2>2, <2>3
<1> HIDE DEF parent, outer, carried, lost, fell, left
<1>8. /\ frames' \in Seq(Frame) /\ Depth' = Depth - 1
      /\ \A i \in 1..(Depth - 2) : frames'[i] = frames[i]
      /\ frames'[Depth - 1] = parent
  <2> DEFINE below == SubSeq(frames, 1, Depth - 2)
  <2>1. /\ below \in Seq(Frame) /\ Len(below) = Depth - 2
        /\ \A i \in 1..(Depth - 2) : below[i] = frames[i]
    <3>1. Depth - 2 \in 0..Len(frames)
      BY <1>1 DEF Depth
    <3> QED BY <1>1, <3>1, SubSeqProperties
  <2> HIDE DEF below
  <2>2. frames' = Append(below, parent)
    BY <1>2 DEF below
  <2>3. Depth' = Len(frames')
    BY DEF Depth
  <2> QED BY <1>1, <1>6, <2>1, <2>2, <2>3
<1>9. \A i \in 1..(Depth - 1) :
        /\ frames'[i].node = frames[i].node
        /\ \A e \in frames'[i].values : e.value \in SoundPrefix
  BY <1>1, <1>6, <1>7, <1>8 DEF SoundBindings
<1>10. UNCHANGED <<prog, cursor, pc, pending, outcome>> /\ pc = "leave"
  BY DEF Leave
<1>11. captured' \subseteq Key
  BY <1>3 DEF Leave, TypeOK, outer, left
<1>12. TypeOK'
  BY <1>1, <1>8, <1>10, <1>11 DEF TypeOK, Depth
<1>13. SoundBindings'
  BY <1>1, <1>8, <1>9, <1>10 DEF SoundBindings
<1>14. StackNests'
  <2>1. frames'[1].node = 0
    BY <1>1, <1>9 DEF StackNests
  <2>2. \A i \in 2..(Depth - 1) : OpenFrame(i) /\ frames'[i].node = frames[i].node
    BY <1>1, <1>9 DEF StackNests
  <2>3. \A i \in 2..(Depth - 1) : OpenFrame(i)'
    BY <1>10, <2>2 DEF OpenFrame
  <2>4. \A i, j \in 2..(Depth - 1) : i < j =>
           /\ frames'[i].node < frames'[j].node
           /\ prog[frames'[j].node].last <= prog[frames'[i].node].last
    BY <1>1, <2>2 DEF StackNests
  <2> QED BY <1>8, <1>10, <2>1, <2>3, <2>4 DEF StackNests
<1>15. left.node \in DOMAIN prog /\ prog[left.node].last \in Nat
       /\ prog[left.node].last < cursor /\ cursor \in Nat
  <2>1. left.node \in DOMAIN prog
    BY <1>1 DEF StackNests, OpenFrame, left
  <2>2. prog[left.node].last \in Nat /\ cursor \in Nat
    BY <2>1, TreeShape DEF TypeOK
  <2>3. 2 * prog[left.node].last + 1 <= 2 * cursor
    BY <1>1 DEF TopEnded, End, Pos, left
  <2> QED BY <2>1, <2>2, <2>3
<1>16. StackComplete'
  <2> SUFFICES ASSUME NEW n \in DOMAIN prog,
                      prog[n].kind \in FrameKinds, cursor <= prog[n].last, n < cursor
               PROVE  \E i \in 2..(Depth - 1) : frames'[i].node = n
    BY <1>8, <1>10 DEF StackComplete
  <2>1. PICK i \in 2..Depth : frames[i].node = n
    BY <1>10 DEF StackComplete
  <2>2. i # Depth
    BY <1>15, <2>1, TreeShape DEF left
  <2> QED BY <1>1, <1>9, <2>1, <2>2
<1>17. PendingInFrame'
  <2> SUFFICES ASSUME NEW w \in pending
               PROVE  /\ w.depth \in 1..(Depth - 1) /\ frames'[w.depth].node = w.node
                      /\ w.depth = 1 \/ w.at <= End(w.node)
                      /\ w.at > Pos(cursor)
    BY <1>8, <1>10 DEF PendingInFrame, PendingFrameOpen, End, Pos
  <2>1. /\ w.depth \in 1..Depth /\ frames[w.depth].node = w.node /\ w.at \in Nat
        /\ w.depth = 1 \/ w.at <= End(w.node)
        /\ w.at > Pos(cursor)
    BY <1>10 DEF PendingInFrame, PendingFrameOpen, TypeOK, PendingWrite
  <2>2. End(left.node) <= Pos(cursor) /\ End(left.node) \in Nat /\ Pos(cursor) \in Nat
    <3>1. End(left.node) = 2 * prog[left.node].last + 1 /\ Pos(cursor) = 2 * cursor
      BY DEF End, Pos
    <3> QED BY <1>15, <3>1
  <2>3. w.depth # Depth
    BY <1>1, <2>1, <2>2 DEF left
  <2> QED BY <1>1, <1>9, <2>1, <2>3
<1> QED BY <1>10, <1>12, <1>13, <1>14, <1>16, <1>17 DEF Given

\* enter keeps the invariant: the frame pushed is the scope at the cursor.
LEMMA EnterIInv ==
  ASSUME IInv, Enter
  PROVE  IInv'
<1> USE DEF IInv
<1> DEFINE entered == [node |-> cursor,
                       values |-> AllPathDependent(frames[Depth].fallthroughWrites),
                       branchWrites |-> {}, fallthroughWrites |-> {}]
           cleared == [frames EXCEPT ![Depth].fallthroughWrites = {}]
<1>1. /\ Depth \in Nat \ {0} /\ frames \in Seq(Frame) /\ DOMAIN frames = 1..Depth
      /\ cursor \in DOMAIN prog /\ cursor \in Nat
      /\ pc = "leave" /\ ~TopEnded /\ prog[cursor].kind \in FrameKinds
  BY TreeShape DEF TypeOK, Depth, Enter
<1>2. frames' = Append(cleared, entered)
  BY DEF Enter
<1>3. frames[Depth] \in Frame
  BY <1>1
<1>4. entered \in Frame /\ \A e \in entered.values : e.value \in SoundPrefix
  BY <1>1, <1>3, FixedPrefixes DEF Frame, AllPathDependent, Entry, SoundPrefix
<1>5. /\ cleared \in Seq(Frame) /\ Len(cleared) = Depth
      /\ \A i \in 1..Depth : cleared[i].node = frames[i].node
                             /\ cleared[i].values = frames[i].values
  <2>1. [frames[Depth] EXCEPT !.fallthroughWrites = {}] \in Frame
    BY <1>3 DEF Frame
  <2>2. cleared = [i \in 1..Depth |-> IF i = Depth
                     THEN [frames[Depth] EXCEPT !.fallthroughWrites = {}]
                     ELSE frames[i]]
    BY <1>1
  <2> HIDE DEF cleared
  <2>3. cleared \in [1..Depth -> Frame]
    BY <1>1, <2>1, <2>2
  <2>4. cleared \in Seq(Frame) /\ Len(cleared) = Depth
    BY <1>1, <2>3
  <2>5. \A i \in 1..Depth : cleared[i].node = frames[i].node
                            /\ cleared[i].values = frames[i].values
    BY <1>1, <1>3, <2>2 DEF Frame
  <2> QED BY <2>4, <2>5
<1> HIDE DEF entered, cleared
<1>6. /\ frames' \in Seq(Frame) /\ Depth' = Depth + 1
      /\ \A i \in 1..Depth : frames'[i].node = frames[i].node
                             /\ frames'[i].values = frames[i].values
      /\ frames'[Depth + 1] = entered
  BY <1>1, <1>2, <1>4, <1>5 DEF Depth
<1>7. UNCHANGED <<prog, cursor, pending, captured, outcome>> /\ pc' = "visit"
  BY DEF Enter
<1>8. TypeOK'
  BY <1>1, <1>6, <1>7 DEF TypeOK, Depth
<1>9. SoundBindings'
  BY <1>1, <1>4, <1>6, <1>7 DEF SoundBindings
<1>10. \A i \in 2..Depth : cursor <= prog[frames[i].node].last
  BY <1>1, StackEncloses
<1>11. entered.node = cursor
  BY DEF entered
<1>12. StackNests'
  <2>1. \A i \in 2..Depth : frames[i].node \in DOMAIN prog /\ frames[i].node < cursor
    BY <1>1 DEF StackNests, OpenFrame
  <2>2. \A i \in 2..Depth : prog[cursor].last <= prog[frames[i].node].last
    BY <1>1, <1>10, <2>1, TreeShape
  <2>3. \A i \in 2..(Depth + 1) : OpenFrame(i)'
    <3> SUFFICES ASSUME NEW i \in 2..(Depth + 1) PROVE OpenFrame(i)'
      OBVIOUS
    <3>1. prog[cursor].last \in Nat /\ cursor <= prog[cursor].last
      BY <1>1, TreeShape
    <3>2. CASE i = Depth + 1
      BY <1>1, <1>6, <1>7, <1>11, <3>1, <3>2 DEF OpenFrame
    <3>3. CASE i # Depth + 1
      <4>1. i \in 2..Depth /\ frames'[i].node = frames[i].node
        BY <1>1, <1>6, <3>3
      <4>2. /\ frames[i].node \in DOMAIN prog
            /\ prog[frames[i].node].kind \in FrameKinds
        BY <4>1 DEF StackNests, OpenFrame
      <4>3. frames[i].node <= cursor /\ cursor <= prog[frames[i].node].last
        BY <1>10, <4>1 DEF StackNests, OpenFrame
      <4> QED BY <1>7, <4>1, <4>2, <4>3 DEF OpenFrame
    <3> QED BY <3>2, <3>3
  <2>4. \A i, j \in 2..(Depth + 1) : i < j =>
           /\ frames'[i].node < frames'[j].node
           /\ prog[frames'[j].node].last <= prog[frames'[i].node].last
    <3> SUFFICES ASSUME NEW i \in 2..(Depth + 1), NEW j \in 2..(Depth + 1), i < j
                 PROVE  /\ frames'[i].node < frames'[j].node
                        /\ prog[frames'[j].node].last <= prog[frames'[i].node].last
      OBVIOUS
    <3>1. i \in 2..Depth /\ frames'[i].node = frames[i].node
      BY <1>1, <1>6
    <3>2. CASE j = Depth + 1
      BY <1>6, <1>11, <2>1, <2>2, <3>1, <3>2
    <3>3. CASE j # Depth + 1
      BY <1>1, <1>6, <3>1, <3>3 DEF StackNests
    <3> QED BY <3>2, <3>3
  <2> QED BY <1>1, <1>6, <1>7, <2>3, <2>4 DEF StackNests
<1>13. StackComplete'
  <2> SUFFICES ASSUME NEW n \in DOMAIN prog,
                      prog[n].kind \in FrameKinds, cursor <= prog[n].last,
                      n < cursor \/ n = cursor
               PROVE  \E i \in 2..(Depth + 1) : frames'[i].node = n
    BY <1>6, <1>7 DEF StackComplete
  <2>1. CASE n < cursor
    <3>1. PICK i \in 2..Depth : frames[i].node = n
      BY <2>1 DEF StackComplete
    <3> QED BY <1>1, <1>6, <3>1
  <2>2. CASE n = cursor
    BY <1>1, <1>6, <1>11, <2>2
  <2> QED BY <2>1, <2>2
<1>14. PendingInFrame'
  BY <1>1, <1>6, <1>7 DEF PendingInFrame, PendingFrameOpen, End
<1> QED BY <1>7, <1>8, <1>9, <1>12, <1>13, <1>14 DEF Given

\* A node that opens no scope leaves the stack as it is.
LEMMA StayIInv ==
  ASSUME IInv, Stay
  PROVE  IInv'
<1> USE DEF IInv
<1>1. /\ UNCHANGED <<prog, cursor, frames, pending, captured, outcome>>
      /\ pc = "leave" /\ pc' = "visit" /\ ~TopEnded
      /\ prog[cursor].kind \notin FrameKinds
  BY DEF Stay
<1>2. \A i \in 2..Depth : cursor <= prog[frames[i].node].last
  BY <1>1, StackEncloses
<1>3. TypeOK' /\ SoundBindings'
  BY <1>1 DEF TypeOK, SoundBindings, Depth
<1>4. StackNests'
  BY <1>1, <1>2 DEF StackNests, OpenFrame, Depth
<1>5. StackComplete'
  BY <1>1 DEF StackComplete, Depth
<1>6. PendingInFrame'
  BY <1>1 DEF PendingInFrame, PendingFrameOpen, Depth, End
<1> QED BY <1>1, <1>3, <1>4, <1>5, <1>6 DEF Given

-----------------------------------------------------------------------------
(* The visits. *)

\* Going on to the next node keeps every part of the invariant that does not
\* speak of the writes still waiting.
LEMMA ProceedKeeps ==
  ASSUME IInv, Proceed
  PROVE  /\ cursor' \in DOMAIN prog' /\ pc' \in {"advance", "done"}
         /\ StackNests' /\ StackComplete'
<1> USE DEF IInv
<1>1. /\ cursor \in DOMAIN prog /\ DOMAIN prog = 1..Len(prog)
      /\ Len(prog) \in Nat \ {0} /\ pc = "visit"
      /\ Depth \in Nat \ {0} /\ UNCHANGED <<prog, frames, captured>>
  BY TreeShape DEF TypeOK, Depth, Proceed
<1>2. Depth' = Depth
  BY <1>1 DEF Depth
<1>3. CASE cursor = Len(prog)
  <2>1. pc' = "done" /\ cursor' = cursor
    BY <1>3 DEF Proceed
  <2>2. StackNests'
    BY <1>1, <1>2, <2>1 DEF StackNests, OpenFrame
  <2>3. StackComplete'
    BY <1>1, <1>2, <2>1 DEF StackComplete
  <2> QED BY <1>1, <2>1, <2>2, <2>3
<1>4. CASE cursor # Len(prog)
  <2>1. pc' = "advance" /\ cursor' = cursor + 1
    BY <1>4 DEF Proceed
  <2>2. cursor' \in DOMAIN prog'
    BY <1>1, <1>4, <2>1
  <2>3. \A i \in 2..Depth : OpenFrame(i)'
    <3> SUFFICES ASSUME NEW i \in 2..Depth PROVE OpenFrame(i)'
      OBVIOUS
    <3>1. OpenFrame(i) /\ frames[i].node \in Nat
      BY TreeShape DEF StackNests, OpenFrame
    <3> QED BY <1>1, <2>1, <3>1 DEF OpenFrame
  <2>4. StackNests'
    BY <1>1, <1>2, <2>3 DEF StackNests
  <2>5. StackComplete'
    <3> SUFFICES ASSUME NEW n \in DOMAIN prog, prog[n].kind \in FrameKinds,
                        cursor + 1 <= prog[n].last, n < cursor + 1
                 PROVE  \E i \in 2..Depth : frames[i].node = n
      BY <1>1, <1>2, <2>1 DEF StackComplete
    <3>1. cursor <= prog[n].last /\ (n < cursor \/ n = cursor)
      BY <1>1, TreeShape
    <3> QED BY <1>1, <3>1 DEF StackComplete
  <2> QED BY <2>1, <2>2, <2>4, <2>5
<1> QED BY <1>3, <1>4

\* A registration becomes a route or an unresolved one.
LEMMA OutcomeTyping ==
  ASSUME IInv, Proceed, NEW v \in Name, Decide(PrefixOf(v, cursor))
  PROVE  outcome' \subseteq Outcome
<1>1. PrefixOf(v, cursor) \in Prefix
  BY RegistrarSound DEF IInv, SoundPrefix
<1>2. cursor \in Nat /\ prog[cursor] \in Node /\ outcome \subseteq Outcome
  BY TreeShape DEF IInv, TypeOK
<1>3. PrefixOf(v, cursor).path \in Seq(Segment) /\ PrefixOf(v, cursor).resolved \in BOOLEAN
  BY <1>1 DEF Prefix
<1>4. <<>> \in Seq(Segment)
  OBVIOUS
<1> DEFINE ok == prog[cursor].pathOK /\ PrefixOf(v, cursor).resolved
<1>5. ok \in BOOLEAN
  BY <1>2, <1>3 DEF Node
<1>6. outcome' = outcome \cup {[node |-> cursor, route |-> ok,
             path |-> IF ok THEN PrefixOf(v, cursor).path ELSE <<>>]}
  BY DEF Decide
<1> HIDE DEF ok
<1> DEFINE path == IF ok THEN PrefixOf(v, cursor).path ELSE <<>>
<1>7. path \in Seq(Segment)
  BY <1>3, <1>4
<1>8. outcome' = outcome \cup {[node |-> cursor, route |-> ok, path |-> path]}
  BY <1>6
<1> HIDE DEF path
<1>9. [node |-> cursor, route |-> ok, path |-> path] \in Outcome
  BY <1>2, <1>5, <1>7 DEF Outcome
<1> QED BY <1>2, <1>8, <1>9

\* A registration changes nothing the walk goes by.
LEMMA RegistrationIInv ==
  ASSUME IInv, RouteFromCall \/ RouteFromAddCall
  PROVE  IInv'
<1> USE DEF IInv
<1>1. Proceed /\ UNCHANGED pending /\ UNCHANGED <<prog, frames, captured>>
  BY DEF RouteFromCall, RouteFromAddCall, Proceed
<1>2. prog[cursor].reg \in Name
  BY NodeTyping DEF TypeOK
<1>3. outcome' \subseteq Outcome
  <2>1. outcome \subseteq Outcome
    BY DEF TypeOK
  <2> QED BY <1>1, <1>2, <2>1, OutcomeTyping DEF RouteFromCall, RouteFromAddCall
<1>4. /\ cursor' \in DOMAIN prog' /\ pc' \in {"advance", "done"}
      /\ StackNests' /\ StackComplete'
  BY <1>1, ProceedKeeps
<1>5. TypeOK'
  BY <1>1, <1>3, <1>4 DEF TypeOK
<1>6. SoundBindings'
  BY <1>1 DEF SoundBindings, Depth
<1>7. PendingInFrame'
  BY <1>1, <1>4 DEF PendingInFrame, PendingFrameOpen, Depth, End
<1> QED BY <1>1, <1>4, <1>5, <1>6, <1>7 DEF Given

\* A new write goes to the top frame, or to the one below an if or switch
\* header, and both are open until the statement ends.
LEMMA TargetOpen ==
  ASSUME IInv, pc = "visit", NEW key
  PROVE  /\ TargetFrame(key) \in 1..Depth
         /\ \/ TargetFrame(key) = 1
            \/ /\ frames[TargetFrame(key)].node \in DOMAIN prog
               /\ cursor <= prog[frames[TargetFrame(key)].node].last
<1> USE DEF IInv
<1>1. Depth \in Nat \ {0} /\ frames[1].node = 0
  BY DEF TypeOK, Depth, StackNests
<1>2. TargetFrame(key) \in 1..Depth
  <2>1. CASE Depth = 1
    BY <1>1, <2>1 DEF TargetFrame, KindOf, HeaderKinds
  <2>2. CASE Depth # 1
    BY <1>1, <2>2 DEF TargetFrame
  <2> QED BY <2>1, <2>2
<1>3. \A i \in 2..Depth : frames[i].node \in DOMAIN prog
                          /\ cursor <= prog[frames[i].node].last
  BY DEF StackNests, OpenFrame
<1> QED BY <1>1, <1>2, <1>3

\* The subtree at the cursor lies within every open one.
LEMMA CursorBelow ==
  ASSUME IInv, pc = "visit", NEW f \in 2..Depth
  PROVE  /\ frames[f].node \in DOMAIN prog /\ prog[frames[f].node].last \in Nat
         /\ prog[cursor].last <= prog[frames[f].node].last
<1>1. /\ frames[f].node \in DOMAIN prog /\ frames[f].node <= cursor
      /\ cursor <= prog[frames[f].node].last /\ cursor \in DOMAIN prog
  BY DEF IInv, StackNests, OpenFrame, TypeOK
<1>2. prog[frames[f].node].last \in Nat /\ cursor \in Nat /\ frames[f].node \in Nat
      /\ prog[cursor].last \in Nat
  BY <1>1, TreeShape DEF IInv
<1>3. CASE frames[f].node = cursor
  BY <1>1, <1>2, <1>3
<1>4. CASE frames[f].node < cursor
  BY <1>1, <1>4, TreeShape DEF IInv
<1> QED BY <1>1, <1>2, <1>3, <1>4

\* recordBindings keeps the invariant: what it queues is sound and belongs to an
\* open frame.
LEMMA RecordBindingsIInv ==
  ASSUME IInv, RecordBindings
  PROVE  IInv'
<1> USE DEF IInv
<1>1. /\ cursor \in DOMAIN prog /\ cursor \in Nat /\ prog[cursor] \in Node
      /\ Writes(cursor) \in Seq(Write) /\ prog[cursor].last \in Nat
  <2>1. cursor \in DOMAIN prog
    BY DEF TypeOK
  <2> QED BY <2>1, NodeTyping
<1>2. Depth \in Nat \ {0} /\ \A f \in 1..Depth : frames[f].node \in Nat
  BY FrameTyping
<1> DEFINE w == Writes(cursor)
           at == EffectAt(cursor)
           key(i) == KeyAt(w[i].lhs, at, cursor)
           value(i) == Written(w[i].rhs, cursor)
           assign(i) ==
             LET f == TargetFrame(key(i))
             IN  [at |-> at, depth |-> f, node |-> frames[f].node, key |-> key(i),
                  value |-> IF CarriedAcrossRuns(f, key(i), Pos(cursor))
                            THEN PathDependent
                            ELSE IF value(i) = {} THEN Untraced
                            ELSE CHOOSE v \in value(i) : TRUE]
           traced == {i \in DOMAIN w : value(i) # {} \/ LookUp(key(i)) # {}}
<1>3. /\ Proceed /\ pc = "visit" /\ UNCHANGED <<prog, frames, captured>>
      /\ UNCHANGED outcome
  BY DEF RecordBindings, Proceed
<1>4. pending' = pending \cup {assign(i) : i \in traced}
  BY DEF RecordBindings
<1>5. at \in Nat /\ at <= End(cursor)
  BY <1>1, EffectTyping
<1>6. \A i \in traced :
        /\ assign(i) \in PendingWrite /\ assign(i).value \in SoundPrefix
        /\ assign(i).depth \in 1..Depth
        /\ frames[assign(i).depth].node = assign(i).node
        /\ assign(i).depth = 1 \/ assign(i).at <= End(assign(i).node)
  <2> SUFFICES ASSUME NEW i \in traced
               PROVE  /\ assign(i) \in PendingWrite /\ assign(i).value \in SoundPrefix
                      /\ assign(i).depth \in 1..Depth
                      /\ frames[assign(i).depth].node = assign(i).node
                      /\ assign(i).depth = 1 \/ assign(i).at <= End(assign(i).node)
    OBVIOUS
  <2>1. w[i] \in Write
    BY <1>1
  <2>2. w[i].lhs \in Name /\ w[i].rhs \in Rhs
    BY <2>1 DEF Write
  <2>3. key(i) \in Key
    BY <1>1, <2>2, KeyTyping
  <2>4. value(i) \subseteq SoundPrefix
    BY <2>2, WrittenSound
  <2>5. assign(i).value \in SoundPrefix
    <3> HIDE DEF value, key
    <3> QED BY <2>4, FixedPrefixes
  <2>6. /\ TargetFrame(key(i)) \in 1..Depth
        /\ \/ TargetFrame(key(i)) = 1
           \/ /\ frames[TargetFrame(key(i))].node \in DOMAIN prog
              /\ cursor <= prog[frames[TargetFrame(key(i))].node].last
    BY <1>3, TargetOpen
  <2>7. /\ assign(i).depth = TargetFrame(key(i)) /\ assign(i).at = at
        /\ assign(i).node = frames[TargetFrame(key(i))].node
        /\ assign(i).key = key(i)
    OBVIOUS
  <2>8. assign(i).value \in Prefix
    BY <2>5 DEF SoundPrefix
  <2>9. assign(i) = [at |-> assign(i).at, depth |-> assign(i).depth,
                     node |-> assign(i).node, key |-> assign(i).key,
                     value |-> assign(i).value]
    OBVIOUS
  <2> HIDE DEF assign, key, value, at, w, traced
  <2>10. assign(i) \in PendingWrite
    <3>1. assign(i).depth \in Nat /\ assign(i).node \in Nat
      BY <1>2, <2>6, <2>7
    <3> QED BY <1>5, <2>3, <2>7, <2>8, <2>9, <3>1 DEF PendingWrite
  <2>11. CASE TargetFrame(key(i)) = 1
    BY <2>5, <2>6, <2>7, <2>10, <2>11
  <2>12. CASE TargetFrame(key(i)) # 1
    <3> DEFINE node == frames[TargetFrame(key(i))].node
    <3>1. node \in DOMAIN prog /\ cursor <= prog[node].last
      BY <2>6, <2>12
    <3>2. prog[cursor].last <= prog[node].last /\ prog[node].last \in Nat
      BY <1>3, <1>1, <2>6, <2>12, CursorBelow
    <3> HIDE DEF node
    <3>3. at <= End(node)
      <4>1. End(cursor) = 2 * prog[cursor].last + 1 /\ End(node) = 2 * prog[node].last + 1
        BY DEF End
      <4> QED BY <1>1, <1>5, <3>2, <4>1
    <3>4. assign(i).node = node
      BY <2>7 DEF node
    <3> QED BY <3>4, <2>5, <2>6, <2>7, <2>10, <3>3
  <2> QED BY <2>11, <2>12
<1> HIDE DEF assign, key, value, at, w, traced
<1>7. /\ cursor' \in DOMAIN prog' /\ pc' \in {"advance", "done"}
      /\ StackNests' /\ StackComplete'
  BY <1>3, ProceedKeeps
<1>8. TypeOK'
  BY <1>3, <1>4, <1>6, <1>7 DEF TypeOK
<1>9. SoundBindings'
  BY <1>3, <1>4, <1>6 DEF SoundBindings, Depth
<1>10. PendingInFrame'
  BY <1>3, <1>4, <1>6, <1>7 DEF PendingInFrame, PendingFrameOpen, Depth, End
<1> QED BY <1>3, <1>7, <1>8, <1>9, <1>10 DEF Given

\* Every step keeps the invariant, and so does doing nothing.
LEMMA NextIInv == IInv /\ [Next]_vars => IInv'
<1> SUFFICES ASSUME IInv, [Next]_vars PROVE IInv'
  OBVIOUS
<1>1. CASE DueWrites
  BY <1>1, DueWritesIInv
<1>2. CASE Leave
  BY <1>2, LeaveIInv
<1>3. CASE Enter
  BY <1>3, EnterIInv
<1>4. CASE Stay
  BY <1>4, StayIInv
<1>5. CASE RecordBindings
  BY <1>5, RecordBindingsIInv
<1>6. CASE RouteFromCall \/ RouteFromAddCall
  BY <1>6, RegistrationIInv
<1>7. CASE UNCHANGED vars
  BY <1>7 DEF vars, IInv, Given, TypeOK, SoundBindings, StackNests, OpenFrame,
       StackComplete, PendingInFrame, PendingFrameOpen, Depth, End
<1> QED BY <1>1, <1>2, <1>3, <1>4, <1>5, <1>6, <1>7 DEF Next, Walked

-----------------------------------------------------------------------------
(* The theorems. *)

\* The invariant holds throughout the walk, whatever the body and the seed.
THEOREM IInvInductive == Spec => []IInv
<1>1. Init => IInv
  BY InitIInv
<1>2. IInv /\ [Next]_vars => IInv'
  BY NextIInv
<1> QED BY <1>1, <1>2, PTL DEF Spec

\* Whatever body is walked, the tracker's frames, waiting writes and outcomes
\* keep their shapes, and the walk never steps outside the body
\* (routeWalker.walkBody and registrarTracker.advance).
THEOREM TypeCorrect == Spec => []TypeOK
<1>1. IInv => TypeOK
  BY DEF IInv
<1> QED BY <1>1, IInvInductive, PTL

\* At every visit of every body the frame stack is the set of scopes and
\* select statements around the visited node, however they nest
\* (registrarTracker.leave and scopeOpened).
THEOREM FramesMirror == Spec => []FramesMirrorScopes
<1>1. IInv => FramesMirrorScopes
  <2> SUFFICES ASSUME IInv, pc = "visit"
               PROVE  {frames[i].node : i \in 1..Depth} =
                        {a \in Enclosing(cursor) : a = 0 \/ KindOf(a) \in FrameKinds}
    BY DEF FramesMirrorScopes
  <2> USE DEF IInv
  <2>1. Depth \in Nat \ {0} /\ frames[1].node = 0 /\ cursor \in Nat
    BY TreeShape DEF TypeOK, Depth, StackNests
  <2>2. ASSUME NEW i \in 1..Depth
        PROVE  frames[i].node \in {a \in Enclosing(cursor) : a = 0 \/ KindOf(a) \in FrameKinds}
    <3>1. CASE i = 1
      BY <2>1, <3>1 DEF Enclosing
    <3>2. CASE i # 1
      <4>1. i \in 2..Depth
        BY <2>1, <3>2
      <4>2. OpenFrame(i) /\ frames[i].node # 0
        BY <4>1, TreeShape DEF StackNests, OpenFrame
      <4> QED BY <2>1, <4>2 DEF OpenFrame, Enclosing, KindOf
    <3> QED BY <3>1, <3>2
  <2>3. ASSUME NEW a \in Enclosing(cursor), a = 0 \/ KindOf(a) \in FrameKinds
        PROVE  \E i \in 1..Depth : frames[i].node = a
    <3>1. CASE a = 0
      BY <2>1, <3>1
    <3>2. CASE a # 0
      <4>1. /\ a \in DOMAIN prog /\ prog[a].kind \in FrameKinds
            /\ cursor <= prog[a].last /\ a <= cursor /\ a \in Nat
        BY <2>3, <3>2, TreeShape DEF Enclosing, KindOf
      <4>2. a < cursor \/ a = cursor
        BY <2>1, <4>1
      <4>3. \E i \in 2..Depth : frames[i].node = a
        BY <4>1, <4>2 DEF StackComplete
      <4> QED BY <2>1, <4>3
    <3> QED BY <3>1, <3>2
  <2> QED BY <2>2, <2>3
<1> QED BY <1>1, IInvInductive, PTL

\* No write is ever applied to a frame that has been left or replaced, in any
\* body (registrarTracker.applyDue).
THEOREM PendingOpen == Spec => []PendingFrameOpen
<1>1. IInv => PendingFrameOpen
  BY DEF IInv, PendingInFrame
<1> QED BY <1>1, IInvInductive, PTL

\* No body makes the tracker hold a prefix that is both resolved and marked as
\* failed (registrarTracker.groupBinding, leave and assign).
THEOREM NoCause == Spec => []ResolvedHasNoCause
<1>1. IInv => ResolvedHasNoCause
  BY DEF IInv, SoundBindings, SoundPrefix, ResolvedHasNoCause, Bound
<1> QED BY <1>1, IInvInductive, PTL

-----------------------------------------------------------------------------
(* Straight-line registrars.                                               *)

\* Frame i is that of k's scope, or a bare block in it, or in one of those.
Placed(i, k) ==
    \E h \in 2..i : /\ frames[h].node = Home(k)
                    /\ \A j \in (h + 1)..i : IsBareBlock(j)

\* No scope that was left has marked k path-dependent, or will.
Unmarked(k) ==
    /\ k \notin captured
    /\ \A i \in 1..Depth : /\ k \notin frames[i].branchWrites
                           /\ k \notin frames[i].fallthroughWrites

Visited(n) == n < cursor \/ (n = cursor /\ pc = "done")

\* Once its declaration is visited, k is a known registrar while its scope is
\* open, or becomes one when the declaration ends.
Known(k) ==
    (/\ \E w \in WritesOf(k) : EffectAt(w[1]) = k.from /\ Visited(w[1])
     /\ \E i \in 2..Depth : frames[i].node = Home(k))
    => \/ \E w \in pending : w.key = k /\ w.at = k.from
       \/ Holders(k) # {}

KeepsResolved(k) ==
    /\ Unmarked(k)
    /\ \A i \in 1..Depth : \A e \in frames[i].values :
         e.key = k => e.value.resolved /\ Placed(i, k)
    /\ \A w \in pending : w.key = k => w.value.resolved /\ Placed(w.depth, k)
    /\ Known(k)

\* A parameter no statement writes.
Fixed(q) == q \in ScopeOf(0) /\ WritesOf(q) = {} /\ Seed[q.name].resolved

KeepsSeed(q) ==
    /\ Unmarked(q)
    /\ \A w \in pending : w.key # q
    /\ ValueOf(frames[1].values, q) = {Seed[q.name]}
    /\ \A i \in 2..Depth : ValueOf(frames[i].values, q) = {}

Pinned(o) ==
    LET k == KeyAt(prog[o.node].reg, Pos(o.node), o.node)
    IN  (/\ prog[o.node].pathOK /\ Straight(k)
         /\ \A a \in Within(k, o.node) : ~Repeatable(a))
        => o.route

\* Between the visits every due write is applied.
PendingAhead == pc \in {"leave", "visit"} => \A w \in pending : w.at > Pos(cursor)

SInv ==
    /\ IInv /\ PendingAhead
    /\ \A q : Fixed(q) => KeepsSeed(q)
    /\ \A k : Straight(k) => KeepsResolved(k)
    /\ \A o \in outcome : Pinned(o)

\* A scope has one declaration of a name.
LEMMA UniqueNames ==
  ASSUME Given, NEW n \in {0} \cup DOMAIN prog, NEW k \in ScopeOf(n), NEW l \in ScopeOf(n),
         k.name = l.name
  PROVE  k = l
<1> USE TreeShape
<1>1. CASE n = 0
  BY <1>1 DEF ScopeOf
<1>2. CASE n # 0 /\ prog[n].kind \in {"func", "range"}
  BY <1>2 DEF ScopeOf
<1>3. CASE n # 0 /\ prog[n].kind \notin {"func", "range"}
  <2>1. k \in ListKeys(n) /\ l \in ListKeys(n)
    BY <1>3 DEF ScopeOf
  <2>2. PICK c \in Child(n) : k.name \in NewNames(c) /\ k = [name |-> k.name, from |-> End(c)]
    BY <2>1 DEF ListKeys
  <2>3. PICK d \in Child(n) : l.name \in NewNames(d) /\ l = [name |-> l.name, from |-> End(d)]
    BY <2>1 DEF ListKeys
  <2>4. /\ c \in DOMAIN prog /\ d \in DOMAIN prog
        /\ prog[c].parent = n /\ prog[d].parent = n
        /\ prog[c].kind = "assign" /\ prog[d].kind = "assign"
        /\ k.name \in prog[c].decls /\ l.name \in prog[d].decls
    BY <2>2, <2>3 DEF Child, NewNames
  <2>5. ~(c < d) /\ ~(d < c)
    BY <2>2, <2>3, <2>4 DEF NewNames, Child
  <2>6. c = d
    BY <2>4, <2>5
  <2> QED BY <2>2, <2>3, <2>6
<1> QED BY <1>1, <1>2, <1>3

\* What a use of k tells: k's scope is around it, and k was declared before it.
LEMMA KeyFacts ==
  ASSUME Given, NEW x, NEW at, NEW n \in DOMAIN prog, KeyAt(x, at, n).from # 0
  PROVE  LET k == KeyAt(x, at, n)
         IN  k.from <= at /\ \E a \in Enclosing(n) : k \in ScopeOf(a)
<1>1. Binding(x, at, n) # {}
  BY DEF KeyAt, PackageKey
<1> DEFINE a == Greatest(Binding(x, at, n))
<1>2. a \in Binding(x, at, n)
  <2>1. \A s \in Binding(x, at, n) : s \in Nat /\ s <= Len(prog)
    BY TreeShape DEF Binding, Enclosing
  <2> QED BY <1>1, <2>1, GreatestExists, TreeShape
<1>3. PICK l \in ScopeOf(a) : l.name = x /\ l.from <= at
  BY <1>2 DEF Binding
<1>4. KeyIn(a, x) \in ScopeOf(a) /\ KeyIn(a, x).name = x
  BY <1>3 DEF KeyIn
<1>5. a \in Enclosing(n) /\ a \in {0} \cup DOMAIN prog
  BY <1>2 DEF Binding, Enclosing
<1>6. KeyIn(a, x) = l
  BY <1>3, <1>4, <1>5, UniqueNames
<1> QED BY <1>1, <1>3, <1>5, <1>6 DEF KeyAt

\* The scope of a straight-line registrar.
LEMMA HomeShape ==
  ASSUME Given, NEW k, Straight(k)
  PROVE  /\ Home(k) \in DOMAIN prog /\ k \in ScopeOf(Home(k))
         /\ prog[Home(k)].kind \in FrameKinds \ RepeatableKinds
         /\ \A b \in {0} \cup DOMAIN prog : k \in ScopeOf(b) => b = Home(k)
         /\ k \in Key
         /\ \E c \in DOMAIN prog : k.from = End(c)
<1> USE TreeShape
<1>1. PICK a \in 1..Len(prog) : \A b \in 0..Len(prog) : k \in ScopeOf(b) <=> b = a
  BY DEF Straight
<1>2. Home(k) = a
  BY <1>1 DEF Home
<1>3. a # 0 /\ prog[a].kind \notin RepeatableKinds
  BY <1>2 DEF Straight, KindOf
<1>4. k \in ListKeys(a) /\ prog[a].kind \in ScopeKinds
  BY <1>1, <1>3 DEF ScopeOf, RepeatableKinds
<1>5. \E c \in DOMAIN prog : k.from = End(c)
  BY <1>4 DEF ListKeys, Child
<1>6. k \in Key
  BY <1>1, ScopeTyping
<1> QED BY <1>1, <1>2, <1>3, <1>4, <1>5, <1>6 DEF FrameKinds

\* The frames of a visit: that of the scope of k, and above it those within.
LEMMA FramesWithin ==
  ASSUME IInv, pc = "visit", NEW k, Home(k) \in Enclosing(cursor), Home(k) \in DOMAIN prog,
         prog[Home(k)].kind \in FrameKinds
  PROVE  \E h \in 2..Depth : /\ frames[h].node = Home(k)
                             /\ \A j \in (h + 1)..Depth : frames[j].node \in Within(k, cursor)
<1> USE DEF IInv
<1>1. Depth \in Nat \ {0} /\ cursor \in Nat /\ DOMAIN prog = 1..Len(prog) /\ Len(prog) \in Nat
  BY TreeShape DEF TypeOK, Depth
<1>2. Home(k) <= cursor /\ cursor <= prog[Home(k)].last /\ Home(k) \in Nat
  BY <1>1 DEF Enclosing
<1>3. PICK h \in 2..Depth : frames[h].node = Home(k)
  BY <1>1, <1>2 DEF StackComplete
<1>4. ASSUME NEW j \in (h + 1)..Depth PROVE frames[j].node \in Within(k, cursor)
  <2>1. j \in 2..Depth /\ h < j
    BY <1>1
  <2>2. frames[h].node < frames[j].node /\ OpenFrame(j)
    BY <2>1 DEF StackNests
  <2>3. frames[j].node # 0
    BY <2>2, <1>1 DEF OpenFrame
  <2> QED BY <1>3, <2>2, <2>3 DEF OpenFrame, Within, Enclosing, KindOf
<1> QED BY <1>3, <1>4

\* A block of a bare block stands right above it.
LEMMA BareStands ==
  ASSUME IInv, pc = "visit", NEW h \in 2..Depth, NEW j \in (h + 1)..Depth,
         prog[frames[j].node].kind = "block",
         KindOf(prog[frames[j].node].parent) \in {"block"} \cup ClauseKinds
  PROVE  IsBareBlock(j)
<1> USE DEF IInv
<1> DEFINE b == frames[j].node  p == prog[b].parent
<1>1. /\ Depth \in Nat \ {0} /\ DOMAIN prog = 1..Len(prog) /\ Len(prog) \in Nat \ {0}
      /\ cursor \in Nat /\ j \in 3..Depth /\ j - 1 \in 2..Depth
  BY TreeShape DEF TypeOK, Depth
<1>2. b \in DOMAIN prog /\ b <= cursor /\ cursor <= prog[b].last
  BY <1>1 DEF StackNests, OpenFrame
<1>3. WellFormed(prog)
  BY ProgramsAssumption DEF Given
<1>4. b # 1
  <2>1. prog[1].parent = 0
    BY <1>3 DEF WellFormed
  <2> QED BY <2>1 DEF KindOf, ClauseKinds
<1>5. /\ p \in 1..(b - 1) /\ b <= prog[p].last
      /\ \A a \in 1..(b - 1) : b <= prog[a].last => a <= p
  BY <1>2, <1>3, <1>4 DEF WellFormed
<1>6. b \in Nat /\ p \in Nat /\ p < b /\ p \in DOMAIN prog /\ frames[j].node = b
      /\ KindOf(p) \in {"block"} \cup ClauseKinds /\ prog[b].kind = "block"
  BY <1>1, <1>2, <1>5
<1> HIDE DEF b, p
<1>7. /\ prog[p].last \in Nat /\ prog[b].last \in Nat /\ prog[b].last <= prog[p].last
      /\ b <= prog[b].last
  BY <1>2, <1>5, <1>6, TreeShape
<1>8. prog[p].kind \in FrameKinds /\ cursor <= prog[p].last /\ p < cursor
  <2>1. prog[p].kind \in FrameKinds
    BY <1>1, <1>6 DEF KindOf, FrameKinds, ScopeKinds
  <2> QED BY <1>1, <1>2, <1>6, <1>7, <2>1
<1>9. PICK m \in 2..Depth : frames[m].node = p
  BY <1>6, <1>8 DEF StackComplete
<1> DEFINE q == frames[j - 1].node
<1>10. q \in DOMAIN prog /\ q \in Nat /\ q < b /\ prog[b].last <= prog[q].last
       /\ prog[q].last \in Nat
  BY <1>1, <1>6, TreeShape DEF StackNests, OpenFrame
<1>11. q <= p
  BY <1>5, <1>6, <1>7, <1>10
<1>12. m < j
  <2> SUFFICES ASSUME ~(m < j) PROVE FALSE
    OBVIOUS
  <2>1. CASE m = j
    BY <2>1, <1>6, <1>9
  <2>2. CASE j < m
    <3>1. b < p
      BY <1>1, <1>6, <1>9, <2>2 DEF StackNests
    <3> QED BY <1>6, <3>1
  <2> QED BY <1>1, <2>1, <2>2
<1>13. p <= q
  <2>1. CASE m = j - 1
    BY <1>9, <1>6, <2>1
  <2>2. CASE m < j - 1
    <3>1. p < q
      BY <1>1, <1>9, <2>2 DEF StackNests
    <3> QED BY <1>6, <1>10, <3>1
  <2> QED BY <1>1, <1>12, <2>1, <2>2
<1>14. q = p
  BY <1>6, <1>10, <1>11, <1>13
<1> QED BY <1>6, <1>14 DEF IsBareBlock, KindOf

\* A statement's writes are writes of their declarations (WritesOf).
LEMMA WriteCounts ==
  ASSUME Given, NEW n \in DOMAIN prog, NEW i \in DOMAIN Writes(n)
  PROVE  /\ i \in DOMAIN prog[n].writes /\ Writes(n)[i] = prog[n].writes[i]
         /\ <<n, i>> \in WritesOf(KeyAt(Writes(n)[i].lhs, EffectAt(n), n))
<1>1. i \in DOMAIN prog[n].writes /\ Writes(n)[i] = prog[n].writes[i]
  BY DEF Writes
<1>2. <<n, i>> \in {n} \X DOMAIN prog[n].writes
  BY <1>1
<1>3. <<n, i>> \in UNION {{m} \X DOMAIN prog[m].writes : m \in DOMAIN prog}
  BY <1>2
<1> QED BY <1>1, <1>3 DEF WritesOf

\* A loop or closure cannot take a write of a key that has none in it.
LEMMA WrittenSomewhere ==
  ASSUME Given, NEW key, WritesOf(key) = {}
  PROVE  WritePositions(key) = {}
<1> SUFFICES ASSUME NEW n \in DOMAIN prog, NEW i \in DOMAIN Writes(n),
                    KeyAt(Writes(n)[i].lhs, EffectAt(n), n) = key
             PROVE  FALSE
  BY DEF WritePositions
<1> QED BY WriteCounts

\* A parameter nothing writes is read as its caller handed it over.
LEMMA FixedLookUp ==
  ASSUME IInv, NEW q, Fixed(q), KeepsSeed(q)
  PROVE  LookUp(q) = {Seed[q.name]}
<1>1. Depth \in Nat \ {0}
  BY DEF IInv, TypeOK, Depth
<1>2. ValueOf(frames[1].values, q) = {Seed[q.name]}
  BY <1>1 DEF KeepsSeed
<1>3. 1 \in Holders(q)
  BY <1>1, <1>2 DEF Holders, KeysOf, ValueOf
<1>4. \A i \in Holders(q) : i = 1
  <2> SUFFICES ASSUME NEW i \in Holders(q), i # 1 PROVE FALSE
    OBVIOUS
  <2>1. ValueOf(frames[i].values, q) = {}
    BY DEF KeepsSeed, Holders
  <2> QED BY <2>1 DEF Holders, KeysOf, ValueOf
<1>5. Greatest(Holders(q)) = 1
  <2>1. Holders(q) = {1}
    BY <1>3, <1>4
  <2> QED BY <2>1 DEF Greatest
<1>6. \A f : ~ReassignedWhileRunning(f, q)
  BY WrittenSomewhere DEF Fixed, ReassignedWhileRunning, IInv
<1>7. q \notin captured
  BY DEF KeepsSeed, Unmarked
<1> QED BY <1>2, <1>3, <1>5, <1>6, <1>7 DEF LookUp

\* A straight-line registrar is read as a prefix that is resolved, outside the
\* loops and closures of its scope.
LEMMA StraightLookUp ==
  ASSUME IInv, PendingAhead, pc = "visit", NEW k, Straight(k), KeepsResolved(k),
         NEW h \in 2..Depth, frames[h].node = Home(k),
         \A j \in (h + 1)..Depth : ~Repeatable(frames[j].node),
         k.from <= Pos(cursor)
  PROVE  LookUp(k) # {} /\ \A p \in LookUp(k) : p.resolved
<1> USE DEF IInv
<1>1. Depth \in Nat \ {0} /\ cursor \in DOMAIN prog /\ cursor \in Nat
  BY TreeShape DEF TypeOK, Depth
<1>2. PICK w \in WritesOf(k) : EffectAt(w[1]) = k.from
  BY DEF Straight
<1>3. w[1] \in DOMAIN prog
  BY DEF WritesOf
<1>4. Visited(w[1])
  <2>1. k.from = End(w[1]) \/ (k.from = Pos(Body(w[1])) /\ prog[w[1]].kind = "range")
    BY <1>2 DEF EffectAt
  <2>2. PICK c \in DOMAIN prog : k.from = End(c)
    BY HomeShape
  <2>3. prog[c].last \in Nat /\ prog[w[1]].last \in Nat /\ w[1] \in Nat
        /\ w[1] <= prog[w[1]].last
    BY <1>3, TreeShape
  <2>4. CASE k.from = End(w[1])
    <3>1. 2 * prog[w[1]].last + 1 <= 2 * cursor
      BY <2>4 DEF End, Pos
    <3> QED BY <1>1, <2>3, <3>1 DEF Visited
  <2>5. CASE k.from = Pos(Body(w[1])) /\ prog[w[1]].kind = "range"
    <3>1. Body(w[1]) \in Nat
      BY <1>3, <2>5, BodyWithin, TreeShape DEF RepeatableKinds
    <3>2. 2 * Body(w[1]) = 2 * prog[c].last + 1
      BY <2>2, <2>5 DEF Pos, End
    <3> QED BY <2>3, <3>1, <3>2
  <2> QED BY <2>1, <2>4, <2>5
<1>5. \A p \in pending : p.at # k.from
  <2> SUFFICES ASSUME NEW p \in pending, p.at = k.from PROVE FALSE
    OBVIOUS
  <2>1. p.at \in Nat /\ Pos(cursor) \in Nat
    BY <1>1 DEF TypeOK, PendingWrite, Pos
  <2>2. p.at > Pos(cursor)
    BY DEF PendingAhead
  <2> QED BY <2>1, <2>2
<1>6. Holders(k) # {}
  BY <1>2, <1>4, <1>5 DEF KeepsResolved, Known
<1>7. Greatest(Holders(k)) \in Holders(k)
  <2>1. \A i \in Holders(k) : i \in Nat /\ i <= Depth
    BY <1>1 DEF Holders
  <2> QED BY <1>1, <1>6, <2>1, GreatestExists
<1> DEFINE g == Greatest(Holders(k))
<1> HIDE DEF g
<1>8. g \in 1..Depth /\ k \in KeysOf(frames[g].values)
  BY <1>7 DEF Holders, g
<1>9. h <= g
  <2>1. PICK e \in frames[g].values : e.key = k
    BY <1>8 DEF KeysOf
  <2>2. PICK i \in 2..g : frames[i].node = Home(k)
    BY <1>8, <2>1 DEF KeepsResolved, Placed
  <2>3. i = h
    <3>1. i \in 2..Depth /\ frames[i].node \in Nat /\ frames[h].node \in Nat
      BY <1>1, <1>8, FrameTyping
    <3>2. ~(i < h) /\ ~(h < i)
      BY <2>2, <3>1 DEF StackNests
    <3> QED BY <3>1, <3>2
  <2> QED BY <2>3
<1>10. \A i \in g..Depth : ~ReassignedWhileRunning(frames[i].node, k)
  <2> SUFFICES ASSUME NEW i \in g..Depth PROVE ~Repeatable(frames[i].node)
    BY DEF ReassignedWhileRunning
  <2>1. CASE i = h
    BY <2>1, HomeShape DEF Repeatable, KindOf, Straight
  <2>2. CASE i # h
    BY <1>1, <1>8, <1>9, <2>2
  <2> QED BY <2>1, <2>2
<1>11. LookUp(k) = ValueOf(frames[g].values, k)
  <2>1. k \notin captured
    BY DEF KeepsResolved, Unmarked
  <2> QED BY <1>6, <1>10, <2>1 DEF LookUp, g
<1>12. ValueOf(frames[g].values, k) # {}
  BY <1>8 DEF KeysOf, ValueOf
<1>13. \A p \in ValueOf(frames[g].values, k) : p.resolved
  BY <1>8 DEF ValueOf, KeepsResolved
<1> QED BY <1>11, <1>12, <1>13

\* k is used within its scope, after its declaration.
LEMMA StraightUse ==
  ASSUME Given, NEW k, Straight(k), NEW x, NEW at, NEW n \in DOMAIN prog,
         KeyAt(x, at, n) = k
  PROVE  Home(k) \in Enclosing(n) /\ k.from <= at
<1>1. PICK c \in DOMAIN prog : k.from = End(c)
  BY HomeShape
<1>2. k.from # 0
  <2>1. prog[c].last \in Nat
    BY TreeShape
  <2> QED BY <1>1, <2>1 DEF End
<1>3. k.from <= at /\ \E a \in Enclosing(n) : k \in ScopeOf(a)
  BY <1>2, KeyFacts
<1>4. PICK a \in Enclosing(n) : k \in ScopeOf(a)
  BY <1>3
<1>5. a = Home(k)
  BY <1>4, HomeShape DEF Enclosing
<1> QED BY <1>3, <1>4, <1>5

\* A write that always runs goes to the frame of k's scope or to one that only
\* bare blocks part from it, and no other run of a loop or closure can see it.
LEMMA StraightTarget ==
  ASSUME IInv, pc = "visit", NEW k, Straight(k), Home(k) \in Enclosing(cursor),
         AlwaysRuns(k, cursor)
  PROVE  /\ \E h \in 2..Depth :
              /\ frames[h].node = Home(k)
              /\ \A j \in (h + 1)..Depth : ~Repeatable(frames[j].node)
         /\ Placed(TargetFrame(k), k)
         /\ \A at : ~CarriedAcrossRuns(TargetFrame(k), k, at)
<1> USE DEF IInv
<1>1. /\ Depth \in Nat \ {0} /\ cursor \in DOMAIN prog /\ cursor \in Nat
      /\ DOMAIN prog = 1..Len(prog) /\ Len(prog) \in Nat \ {0}
  BY TreeShape DEF TypeOK, Depth
<1>2. PICK h \in 2..Depth :
        /\ frames[h].node = Home(k)
        /\ \A j \in (h + 1)..Depth : frames[j].node \in Within(k, cursor)
  BY HomeShape, FramesWithin
<1>3. WellFormed(prog)
  BY ProgramsAssumption DEF Given
<1>4. ASSUME NEW j \in (h + 1)..Depth
      PROVE  \/ IsBareBlock(j)
             \/ j = Depth /\ KindOf(frames[j].node) \in HeaderKinds
  <2> DEFINE a == frames[j].node
  <2>1. /\ a \in DOMAIN prog /\ a \in Nat /\ j \in 2..Depth
        /\ \/ prog[a].kind \in HeaderKinds /\ prog[cursor].parent = a
           \/ prog[a].kind = "block" /\ KindOf(prog[a].parent) \in {"block"} \cup ClauseKinds
    <3>1. a \in Within(k, cursor) /\ j \in 2..Depth
      BY <1>1, <1>2
    <3>2. OpenFrame(j)
      BY <3>1 DEF StackNests
    <3> QED BY <1>1, <3>1, <3>2 DEF AlwaysRuns, OpenFrame
  <2>2. CASE prog[a].kind = "block" /\ KindOf(prog[a].parent) \in {"block"} \cup ClauseKinds
    BY <2>2, BareStands
  <2>3. CASE prog[a].kind \in HeaderKinds /\ prog[cursor].parent = a
    <3>1. KindOf(a) \in HeaderKinds
      BY <1>1, <2>1, <2>3 DEF KindOf
    <3>2. j = Depth
      <4> SUFFICES ASSUME j # Depth PROVE FALSE
        BY DEF HeaderKinds
      <4> DEFINE b == frames[Depth].node
      <4>1. /\ b \in DOMAIN prog /\ b \in Nat /\ a < b /\ b <= cursor
            /\ cursor <= prog[b].last /\ b \in Within(k, cursor)
        <5>1. Depth \in (h + 1)..Depth /\ Depth \in 2..Depth /\ j < Depth
          BY <1>1, <2>1
        <5>2. OpenFrame(Depth)
          BY <5>1 DEF StackNests
        <5> QED BY <1>1, <1>2, <2>1, <5>1, <5>2 DEF StackNests, OpenFrame
      <4>2. CASE b = cursor
        <5>1. \/ prog[cursor].parent = cursor
              \/ KindOf(prog[cursor].parent) \in {"block"} \cup ClauseKinds
          BY <4>1, <4>2 DEF AlwaysRuns
        <5>2. KindOf(a) \notin {"block"} \cup ClauseKinds
          BY <3>1 DEF HeaderKinds, ClauseKinds
        <5> QED BY <2>1, <2>3, <4>1, <4>2, <5>1, <5>2
      <4>3. CASE b # cursor
        <5>1. cursor # 1 /\ b \in 1..(cursor - 1)
          BY <1>1, <2>1, <4>1, <4>3
        <5>2. b <= prog[cursor].parent
          BY <1>1, <1>3, <4>1, <5>1 DEF WellFormed
        <5> QED BY <2>1, <2>3, <4>1, <5>2
      <4> QED BY <4>2, <4>3
    <3> QED BY <3>1, <3>2
  <2> QED BY <2>1, <2>2, <2>3
<1>5. \A i : IsBareBlock(i) => ~Repeatable(frames[i].node)
  BY DEF IsBareBlock, Repeatable, RepeatableKinds
<1>6. \A j \in (h + 1)..Depth : ~Repeatable(frames[j].node)
  BY <1>4, <1>5 DEF Repeatable, RepeatableKinds, HeaderKinds
<1>7. \A i \in 1..Depth : DeclaresAt(i, k) <=> i = 1 \/ i = h
  <2> SUFFICES ASSUME NEW i \in 2..Depth PROVE k \in ScopeOf(frames[i].node) <=> i = h
    BY <1>1, HomeShape, <1>2 DEF DeclaresAt
  <2>1. frames[i].node \in DOMAIN prog /\ frames[i].node \in Nat /\ frames[h].node \in Nat
    BY <1>1, FrameTyping DEF StackNests, OpenFrame
  <2>2. k \in ScopeOf(frames[i].node) <=> frames[i].node = Home(k)
    BY <2>1, HomeShape
  <2>3. frames[i].node = frames[h].node => i = h
    BY <2>1 DEF StackNests
  <2> QED BY <1>2, <2>2, <2>3
<1> DEFINE f == TargetFrame(k)
<1>8. f \in h..Depth /\ \A j \in (h + 1)..f : IsBareBlock(j)
  <2>1. CASE KindOf(frames[Depth].node) \in HeaderKinds /\ ~DeclaresAt(Depth, k)
    <3>1. Depth # h /\ f = Depth - 1
      BY <1>1, <1>7, <2>1 DEF TargetFrame
    <3> QED BY <1>1, <1>4, <3>1
  <2>2. CASE ~(KindOf(frames[Depth].node) \in HeaderKinds /\ ~DeclaresAt(Depth, k))
    <3>1. f = Depth
      BY <2>2 DEF TargetFrame
    <3>2. CASE Depth = h
      BY <1>1, <3>1, <3>2
    <3>3. CASE Depth # h
      <4>1. KindOf(frames[Depth].node) \notin HeaderKinds
        BY <1>1, <1>7, <2>2, <3>3
      <4> QED BY <1>1, <1>4, <3>1, <4>1
    <3> QED BY <3>2, <3>3
  <2> QED BY <2>1, <2>2
<1> HIDE DEF f
<1>9. Placed(f, k)
  BY <1>1, <1>2, <1>8 DEF Placed
<1>10. ASSUME NEW at PROVE ~CarriedAcrossRuns(f, k, at)
  <2>1. {j \in 1..f : DeclaresAt(j, k)} = {1, h}
    BY <1>1, <1>7, <1>8
  <2>2. Greatest({1, h}) = h
    BY <1>1 DEF Greatest
  <2>3. KindOf(frames[h].node) # "for"
    BY <1>2, HomeShape DEF Straight, RepeatableKinds
  <2>4. \A j \in (h + 1)..f : ~Repeatable(frames[j].node)
    BY <1>5, <1>8
  <2> QED BY <2>1, <2>2, <2>3, <2>4 DEF CarriedAcrossRuns
<1> QED BY <1>2, <1>6, <1>9, <1>10 DEF f

\* What it writes is resolved.
LEMMA StraightValue ==
  ASSUME SInv, pc = "visit", NEW k, Straight(k), Home(k) \in Enclosing(cursor),
         AlwaysRuns(k, cursor), NEW rhs \in Rhs, Followed(rhs, cursor, k)
  PROVE  Written(rhs, cursor) # {} /\ \A p \in Written(rhs, cursor) : p.resolved
<1> USE DEF SInv
<1> DEFINE of == KeyAt(rhs.of, Pos(cursor), cursor)
<1>1. rhs.op \in {"group", "ident"} /\ (rhs.op = "group" => rhs.arg # {})
  BY DEF Followed, Rhs
<1>2. LookUp(of) # {} /\ \A p \in LookUp(of) : p.resolved
  <2>1. CASE of = k
    <3>1. cursor \in DOMAIN prog
      BY DEF IInv, TypeOK
    <3>2. k.from <= Pos(cursor)
      BY <2>1, <3>1, StraightUse DEF IInv
    <3>3. PICK h \in 2..Depth :
            /\ frames[h].node = Home(k)
            /\ \A j \in (h + 1)..Depth : ~Repeatable(frames[j].node)
      BY StraightTarget
    <3> QED BY <2>1, <3>2, <3>3, StraightLookUp
  <2>2. CASE of # k
    <3>1. Fixed(of)
      BY <2>2 DEF Followed, Fixed
    <3> QED BY <3>1, FixedLookUp DEF Fixed
  <2> QED BY <2>1, <2>2
<1>3. Registrar(rhs.of, cursor) = LookUp(of)
  BY <1>2 DEF Registrar
<1> HIDE DEF of
<1>4. CASE rhs.op = "ident"
  BY <1>2, <1>3, <1>4 DEF Written
<1>5. CASE rhs.op = "group"
  <2>1. PrefixOf(rhs.of, cursor) \in LookUp(of)
    BY <1>2, <1>3 DEF PrefixOf
  <2>2. GroupBinding(rhs, cursor).resolved
    BY <1>1, <1>2, <1>5, <2>1 DEF GroupBinding
  <2> QED BY <1>5, <2>2 DEF Written
<1> QED BY <1>1, <1>4, <1>5

\* Scopes, declarations and writes are read off the body.
LEMMA SameBody ==
  ASSUME UNCHANGED prog
  PROVE  /\ \A k : Straight(k)' = Straight(k) /\ Home(k)' = Home(k)
                   /\ WritesOf(k)' = WritesOf(k) /\ Fixed(k)' = Fixed(k)
         /\ \A n : EffectAt(n)' = EffectAt(n) /\ KindOf(n)' = KindOf(n)
         /\ \A o : Pinned(o) => Pinned(o)'
<1>1. /\ \A n : KindOf(n)' = KindOf(n) /\ Body(n)' = Body(n) /\ Child(n)' = Child(n)
      /\ \A n : End(n)' = End(n) /\ Enclosing(n)' = Enclosing(n)
  BY DEF KindOf, Body, Child, End, Enclosing
<1>2. \A n : SignatureNames(n)' = SignatureNames(n)
  BY <1>1 DEF SignatureNames
<1>3. \A n : NewNames(n)' = NewNames(n)
  BY <1>1, <1>2 DEF NewNames
<1>4. \A n : ListKeys(n)' = ListKeys(n)
  BY <1>1, <1>3 DEF ListKeys
<1>5. \A n : ScopeOf(n)' = ScopeOf(n)
  BY <1>1, <1>4 DEF ScopeOf
<1>6. \A v, at, n : Binding(v, at, n)' = Binding(v, at, n)
  BY <1>1, <1>5 DEF Binding
<1>7. \A a, v : KeyIn(a, v)' = KeyIn(a, v)
  BY <1>5 DEF KeyIn
<1>8. \A v, at, n : KeyAt(v, at, n)' = KeyAt(v, at, n)
  BY <1>6, <1>7 DEF KeyAt
<1>9. \A n : EffectAt(n)' = EffectAt(n)
  BY <1>1 DEF EffectAt
<1>10. \A k : Home(k)' = Home(k) /\ WritesOf(k)' = WritesOf(k)
  BY <1>5, <1>8, <1>9 DEF Home, WritesOf
<1>11. \A k, n : Within(k, n)' = Within(k, n)
  BY <1>1, <1>10 DEF Within
<1>12. \A k, n : AlwaysRuns(k, n)' = AlwaysRuns(k, n)
  BY <1>1, <1>11 DEF AlwaysRuns
<1>13. \A rhs, n, k : Followed(rhs, n, k)' = Followed(rhs, n, k)
  BY <1>5, <1>8, <1>10 DEF Followed
<1>14. \A k : Straight(k)' = Straight(k) /\ Fixed(k)' = Fixed(k)
  BY <1>1, <1>5, <1>9, <1>10, <1>12, <1>13 DEF Straight, Fixed
<1>15. \A n : Repeatable(n)' = Repeatable(n)
  BY <1>1 DEF Repeatable
<1>16. \A o : Pinned(o)' = Pinned(o)
  BY <1>8, <1>11, <1>14, <1>15 DEF Pinned
<1> QED BY <1>1, <1>9, <1>10, <1>14, <1>16

\* Where a frame stands shows in the nodes of the frames up to it.
LEMMA SamePlace ==
  ASSUME UNCHANGED prog, NEW i, NEW k, Placed(i, k), i \in Nat,
         \A j \in 1..i : frames'[j].node = frames[j].node
  PROVE  Placed(i, k)'
<1>1. PICK h \in 2..i : /\ frames[h].node = Home(k)
                        /\ \A j \in (h + 1)..i : IsBareBlock(j)
  BY DEF Placed
<1>2. frames'[h].node = Home(k)'
  BY <1>1, SameBody
<1>3. \A j \in (h + 1)..i : IsBareBlock(j)'
  <2> SUFFICES ASSUME NEW j \in (h + 1)..i PROVE IsBareBlock(j)'
    OBVIOUS
  <2>1. j \in 1..i /\ j - 1 \in 1..i
    OBVIOUS
  <2>2. frames'[j].node = frames[j].node /\ frames'[j - 1].node = frames[j - 1].node
    BY <2>1
  <2>3. IsBareBlock(j)
    BY <1>1
  <2> QED BY <2>2, <2>3 DEF IsBareBlock, KindOf
<1> QED BY <1>2, <1>3 DEF Placed

LEMMA SamePlaces ==
  ASSUME UNCHANGED prog, NEW d \in Nat, \A j \in 1..d : frames'[j].node = frames[j].node
  PROVE  \A i \in 1..d : \A k : Placed(i, k) => Placed(i, k)'
<1> SUFFICES ASSUME NEW i \in 1..d, NEW k, Placed(i, k) PROVE Placed(i, k)'
  OBVIOUS
<1>1. \A j \in 1..i : frames'[j].node = frames[j].node
  OBVIOUS
<1> QED BY <1>1, SamePlace

LEMMA Parameters ==
  ScopeOf(0) = {[name |-> v, from |-> Pos(1)] : v \in DOMAIN Seed}
BY Zenon DEF ScopeOf

\* A straight-line registrar is none of the tracker's parameters.
LEMMA StraightNoParameter ==
  ASSUME Given, NEW k, Straight(k)
  PROVE  k \notin ScopeOf(0)
<1>1. Home(k) \in DOMAIN prog /\ Home(k) # 0
  BY HomeShape, TreeShape
<1> QED BY <1>1, HomeShape

LEMMA InitSInv == Init => SInv
<1> SUFFICES ASSUME Init PROVE SInv
  OBVIOUS
<1>1. IInv
  BY InitIInv
<1>2. /\ Depth = 1 /\ pending = {} /\ captured = {} /\ outcome = {} /\ pc = "advance"
      /\ frames[1].branchWrites = {} /\ frames[1].fallthroughWrites = {}
      /\ frames[1].values = {[key |-> [name |-> v, from |-> Pos(1)],
                              value |-> Seed[v]] : v \in DOMAIN Seed}
  BY DEF Init, Depth
<1>3. \A k : Unmarked(k)
  BY <1>2 DEF Unmarked
<1>4. ASSUME NEW q, Fixed(q) PROVE KeepsSeed(q)
  <2>1. PICK v \in DOMAIN Seed : q = [name |-> v, from |-> Pos(1)]
    BY <1>4, Parameters DEF Fixed
  <2>2. ValueOf(frames[1].values, q) = {Seed[q.name]}
    <3>1. q.name = v
      BY <2>1
    <3>2. \E e \in frames[1].values : e.key = q /\ e.value = Seed[v]
      <4> DEFINE e == [key |-> [name |-> v, from |-> Pos(1)], value |-> Seed[v]]
      <4>1. e \in frames[1].values
        BY <1>2
      <4>2. e.key = q /\ e.value = Seed[v]
        BY <2>1
      <4> QED BY <4>1, <4>2
    <3>3. \A e \in frames[1].values : e.key = q => e.value = Seed[v]
      <4> SUFFICES ASSUME NEW u \in DOMAIN Seed,
                          [name |-> u, from |-> Pos(1)] = q
                   PROVE  u = v
        BY <1>2
      <4>1. [name |-> u, from |-> Pos(1)].name = q.name
        OBVIOUS
      <4> QED BY <3>1, <4>1
    <3> QED BY <3>1, <3>2, <3>3 DEF ValueOf
  <2> QED BY <1>2, <1>3, <2>2 DEF KeepsSeed
<1>5. ASSUME NEW k, Straight(k) PROVE KeepsResolved(k)
  <2>1. k \notin ScopeOf(0)
    BY <1>1, <1>5, StraightNoParameter DEF IInv
  <2>2. \A e \in frames[1].values : e.key # k
    BY <1>2, <2>1, Parameters
  <2> QED BY <1>2, <1>3, <2>2 DEF KeepsResolved, Known
<1> QED BY <1>1, <1>2, <1>4, <1>5 DEF SInv, PendingAhead

LEMMA DueWritesSInv ==
  ASSUME SInv, DueWrites
  PROVE  SInv'
<1> USE DEF SInv
<1>1. IInv'
  BY DueWritesIInv
<1> DEFINE due(i) == {w \in pending : w.depth = i /\ Due(w)}
           written(i) == {[key |-> w.key, value |-> w.value] : w \in due(i)}
<1>2. /\ Depth \in Nat \ {0} /\ Depth' = Depth
      /\ \A i \in 1..Depth :
           /\ frames'[i].node = frames[i].node
           /\ frames'[i].values = Over(frames[i].values, written(i))
           /\ frames'[i].branchWrites = frames[i].branchWrites
           /\ frames'[i].fallthroughWrites = frames[i].fallthroughWrites
  <2>1. frames' = [i \in 1..Depth |->
          [frames[i] EXCEPT !.values = Over(frames[i].values, written(i))]]
    BY DEF DueWrites
  <2>2. \A i \in 1..Depth : frames[i] \in Frame
    BY FrameTyping DEF IInv
  <2>3. Depth' = Depth
    <3>1. Depth \in Nat
      BY DEF IInv, TypeOK, Depth
    <3> HIDE DEF written
    <3> QED BY <2>1, <3>1 DEF Depth
  <2> HIDE DEF written
  <2> QED BY <2>1, <2>2, <2>3, FrameTyping DEF Frame, IInv
<1>3. /\ UNCHANGED <<prog, cursor, captured, outcome>>
      /\ pending' = {w \in pending : ~Due(w)} /\ pc = "advance" /\ pc' = "leave"
  BY DEF DueWrites
<1>4. PendingAhead'
  <2>1. \A w \in pending : w.at \in Nat
    BY DEF IInv, TypeOK, PendingWrite
  <2>2. Pos(cursor) \in Nat /\ Pos(cursor)' = Pos(cursor)
    BY <1>3, NodeTyping DEF IInv, TypeOK, Pos
  <2> QED BY <1>3, <2>1, <2>2 DEF PendingAhead, Due
<1>5. \A k : Unmarked(k) => Unmarked(k)'
  BY <1>2, <1>3 DEF Unmarked
<1>6. ASSUME NEW q, Fixed(q)' PROVE KeepsSeed(q)'
  <2>1. KeepsSeed(q)
    BY <1>3, <1>6, SameBody
  <2>2. \A i \in 1..Depth : ValueOf(frames'[i].values, q) = ValueOf(frames[i].values, q)
    <3> SUFFICES ASSUME NEW i \in 1..Depth
                 PROVE  ValueOf(Over(frames[i].values, written(i)), q)
                          = ValueOf(frames[i].values, q)
      BY <1>2
    <3>1. q \notin KeysOf(written(i))
      BY <2>1 DEF KeepsSeed, KeysOf
    <3> HIDE DEF written
    <3> QED BY <3>1 DEF Over, ValueOf, KeysOf
  <2> QED BY <1>2, <1>3, <1>5, <2>1, <2>2 DEF KeepsSeed
<1>7. ASSUME NEW k, Straight(k)' PROVE KeepsResolved(k)'
  <2>1. KeepsResolved(k) /\ Straight(k)
    BY <1>3, <1>7, SameBody
  <2>2. \A i \in 1..Depth : Placed(i, k) => Placed(i, k)'
    <3>1. Depth \in Nat
      BY <1>2
    <3> QED BY <1>2, <1>3, <3>1, SamePlaces
  <2>3. \A i \in 1..Depth : \A e \in frames'[i].values :
          e.key = k => e.value.resolved /\ Placed(i, k)'
    <3> SUFFICES ASSUME NEW i \in 1..Depth, NEW e \in frames'[i].values, e.key = k
                 PROVE  e.value.resolved /\ Placed(i, k)
      BY <2>2
    <3>1. e \in frames[i].values \/ e \in written(i)
      <4> HIDE DEF written
      <4> QED BY <1>2 DEF Over
    <3> QED BY <2>1, <3>1 DEF KeepsResolved
  <2>4. \A w \in pending' : w.key = k => w.value.resolved /\ Placed(w.depth, k)'
    BY <1>3, <2>1, <2>2 DEF KeepsResolved, IInv, PendingInFrame, PendingFrameOpen
  <2>5. Known(k)'
    <3>1. /\ (\E w \in WritesOf(k) : EffectAt(w[1]) = k.from /\ Visited(w[1]))'
             <=> (\E w \in WritesOf(k) : EffectAt(w[1]) = k.from /\ Visited(w[1]))
          /\ (\E i \in 2..Depth : frames[i].node = Home(k))'
             <=> (\E i \in 2..Depth : frames[i].node = Home(k))
      <4>1. \A n : Visited(n)' <=> Visited(n)
        BY <1>3 DEF Visited
      <4>2. Home(k)' = Home(k) /\ WritesOf(k)' = WritesOf(k)
            /\ \A n : EffectAt(n)' = EffectAt(n)
        BY <1>3, SameBody
      <4>3. (\E w \in WritesOf(k) : EffectAt(w[1]) = k.from /\ Visited(w[1]))'
             <=> (\E w \in WritesOf(k) : EffectAt(w[1]) = k.from /\ Visited(w[1]))
        BY <4>1, <4>2
      <4>4. (\E i \in 2..Depth : frames[i].node = Home(k))'
             <=> (\E i \in 2..Depth : frames[i].node = Home(k))
        <5> HIDE DEF written, due
        <5>1. Depth' = Depth /\ \A i \in 2..Depth : frames'[i].node = frames[i].node
          BY <1>2
        <5> QED BY <4>2, <5>1
      <4> QED BY <4>3, <4>4
    <3>2. ASSUME NEW w \in pending, w.key = k, w.at = k.from
          PROVE  (\E v \in pending' : v.key = k /\ v.at = k.from) \/ Holders(k)' # {}
      <4>1. CASE ~Due(w)
        BY <1>3, <3>2, <4>1
      <4>2. CASE Due(w)
        <5>1. w.depth \in 1..Depth
          BY DEF IInv, PendingInFrame, PendingFrameOpen
        <5>2. [key |-> w.key, value |-> w.value] \in written(w.depth)
          BY <4>2
        <5> HIDE DEF written
        <5>3. k \in KeysOf(frames'[w.depth].values)
          BY <1>2, <3>2, <5>1, <5>2 DEF Over, KeysOf
        <5> QED BY <1>2, <5>1, <5>3 DEF Holders
      <4> QED BY <4>1, <4>2
    <3>3. Holders(k) \subseteq Holders(k)'
      <4> SUFFICES ASSUME NEW i \in 1..Depth, k \in KeysOf(frames[i].values)
                   PROVE  k \in KeysOf(Over(frames[i].values, written(i)))
        BY <1>2 DEF Holders
      <4> HIDE DEF written
      <4> QED BY DEF Over, KeysOf
    <3> QED BY <2>1, <3>1, <3>2, <3>3 DEF KeepsResolved, Known
  <2> QED BY <1>2, <1>5, <2>1, <2>3, <2>4, <2>5 DEF KeepsResolved
<1>8. \A o \in outcome' : Pinned(o)'
  BY <1>3, SameBody
<1> QED BY <1>1, <1>4, <1>6, <1>7, <1>8

\* Writing over other keys leaves a key's value; writing over loses no key.
LEMMA OverOthers ==
  ASSUME NEW V, NEW W, NEW k
  PROVE  /\ k \notin KeysOf(W) => ValueOf(Over(V, W), k) = ValueOf(V, k)
         /\ k \in KeysOf(V) \cup KeysOf(W) => k \in KeysOf(Over(V, W))
<1>1. \A e \in Over(V, W) : e \in V \/ e \in W
  BY DEF Over
<1>2. \A e \in V : e.key \notin KeysOf(W) => e \in Over(V, W)
  BY DEF Over
<1>3. W \subseteq Over(V, W)
  BY DEF Over
<1>4. \A e \in W : e.key \in KeysOf(W)
  BY DEF KeysOf
<1>5. k \notin KeysOf(W) => ValueOf(Over(V, W), k) = ValueOf(V, k)
  BY <1>1, <1>2, <1>4 DEF ValueOf
<1>6. k \in KeysOf(V) \cup KeysOf(W) => k \in KeysOf(Over(V, W))
  BY <1>2, <1>3 DEF KeysOf
<1> QED BY <1>5, <1>6

\* What leave takes out of the innermost frame, and what it does with it.
Outer == {k \in KeysOf(frames[Depth].values) \cup frames[Depth].branchWrites :
            ~DeclaresAt(Depth, k)}
Carried == {e \in frames[Depth].values : e.key \in Outer}
Lost == IF IsBranch(Depth) THEN {} ELSE AllPathDependent(Outer)

LEMMA LeaveShape ==
  ASSUME IInv, Leave
  PROVE  /\ Depth \in Nat /\ Depth > 1 /\ Depth' = Depth - 1
         /\ \A i \in 1..(Depth - 1) : frames'[i].node = frames[i].node
         /\ \A i \in 1..(Depth - 2) : frames'[i] = frames[i]
         /\ LET above == frames[Depth - 1]
                parent == frames'[Depth - 1]
            IN  IF IsBareBlock(Depth)
                THEN /\ parent.values = Over(above.values, Carried)
                     /\ parent.branchWrites = above.branchWrites
                     /\ parent.fallthroughWrites = above.fallthroughWrites
                ELSE /\ parent.values = Over(above.values, Lost)
                     /\ parent.branchWrites \subseteq above.branchWrites \cup Outer
                     /\ parent.fallthroughWrites \subseteq above.fallthroughWrites \cup Outer
         /\ captured' \subseteq captured \cup
              (IF KindOf(frames[Depth].node) = "func" THEN Outer ELSE {})
<1> DEFINE left == frames[Depth]
           above == frames[Depth - 1]
           fell == KindOf(left.node) = "case" /\ prog[left.node].fallsThrough
           parent ==
             IF IsBareBlock(Depth)
             THEN [above EXCEPT !.values = Over(above.values, Carried)]
             ELSE [node |-> above.node,
                   values |-> Over(above.values, Lost),
                   branchWrites |-> above.branchWrites \cup
                     (IF IsBranch(Depth) THEN Outer ELSE {}),
                   fallthroughWrites |-> above.fallthroughWrites \cup
                     (IF fell THEN Outer ELSE {})]
<1>1. /\ Depth \in Nat /\ Depth > 1 /\ frames \in Seq(Frame) /\ above \in Frame
  BY DEF IInv, TypeOK, Depth, Leave, TopEnded
<1>2. frames' = Append(SubSeq(frames, 1, Depth - 2), parent)
  BY DEF Leave, Outer, Carried, Lost
<1>3. captured' = captured \cup (IF KindOf(left.node) = "func" THEN Outer ELSE {})
  BY DEF Leave, Outer
<1> DEFINE below == SubSeq(frames, 1, Depth - 2)
<1>4. /\ below \in Seq(Frame) /\ Len(below) = Depth - 2
      /\ \A i \in 1..(Depth - 2) : below[i] = frames[i]
  <2>1. Depth - 2 \in 0..Len(frames)
    BY <1>1 DEF Depth
  <2> QED BY <1>1, <2>1, SubSeqProperties
<1>5. /\ parent.node = above.node
      /\ IF IsBareBlock(Depth)
         THEN /\ parent.values = Over(above.values, Carried)
              /\ parent.branchWrites = above.branchWrites
              /\ parent.fallthroughWrites = above.fallthroughWrites
         ELSE /\ parent.values = Over(above.values, Lost)
              /\ parent.branchWrites \subseteq above.branchWrites \cup Outer
              /\ parent.fallthroughWrites \subseteq above.fallthroughWrites \cup Outer
  BY <1>1 DEF Frame
<1> HIDE DEF below, parent
<1>6. frames' = Append(below, parent)
  BY <1>2 DEF below
<1>7. /\ Len(frames') = Depth - 1
      /\ \A i \in 1..(Depth - 2) : frames'[i] = frames[i]
      /\ frames'[Depth - 1] = parent
  BY <1>1, <1>4, <1>6
<1>8. \A i \in 1..(Depth - 1) : frames'[i].node = frames[i].node
  BY <1>1, <1>5, <1>7
<1> QED BY <1>1, <1>3, <1>5, <1>7, <1>8 DEF Depth

\* A bare block hands what it wrote to a straight-line registrar on, and no
\* other scope can have written it: leave never makes one path-dependent.
LEMMA LeaveSInv ==
  ASSUME SInv, Leave
  PROVE  SInv'
<1> USE DEF SInv
<1>1. IInv'
  BY LeaveIInv
<1>2. /\ UNCHANGED <<prog, cursor, pc, pending, outcome>> /\ pc = "leave"
  BY DEF Leave
<1>3. /\ Depth \in Nat /\ Depth > 1 /\ Depth' = Depth - 1
      /\ \A i \in 1..(Depth - 1) : frames'[i].node = frames[i].node
      /\ \A i \in 1..(Depth - 2) : frames'[i] = frames[i]
  BY LeaveShape
<1>4. /\ IsBareBlock(Depth) =>
           /\ frames'[Depth - 1].values = Over(frames[Depth - 1].values, Carried)
           /\ frames'[Depth - 1].branchWrites = frames[Depth - 1].branchWrites
           /\ frames'[Depth - 1].fallthroughWrites = frames[Depth - 1].fallthroughWrites
      /\ ~IsBareBlock(Depth) =>
           /\ frames'[Depth - 1].values = Over(frames[Depth - 1].values, Lost)
           /\ frames'[Depth - 1].branchWrites \subseteq frames[Depth - 1].branchWrites \cup Outer
           /\ frames'[Depth - 1].fallthroughWrites
                \subseteq frames[Depth - 1].fallthroughWrites \cup Outer
      /\ captured' \subseteq captured \cup
           (IF KindOf(frames[Depth].node) = "func" THEN Outer ELSE {})
  BY LeaveShape
<1>5. KeysOf(Carried) \subseteq Outer /\ KeysOf(Lost) \subseteq Outer
  BY DEF KeysOf, Carried, Lost, AllPathDependent
<1>6. IsBareBlock(Depth) => KindOf(frames[Depth].node) # "func"
  BY DEF IsBareBlock
<1>7. ASSUME NEW k, Unmarked(k), k \in Outer => IsBareBlock(Depth)
      PROVE  Unmarked(k)'
  <2>1. k \notin captured'
    BY <1>4, <1>6, <1>7 DEF Unmarked
  <2>2. ASSUME NEW i \in 1..(Depth - 1)
        PROVE  k \notin frames'[i].branchWrites /\ k \notin frames'[i].fallthroughWrites
    <3>1. k \notin frames[i].branchWrites /\ k \notin frames[i].fallthroughWrites
      BY <1>3, <1>7 DEF Unmarked
    <3>2. CASE i = Depth - 1
      BY <1>4, <1>7, <3>1, <3>2
    <3>3. CASE i # Depth - 1
      BY <1>3, <3>1, <3>3
    <3> QED BY <3>2, <3>3
  <2> QED BY <1>3, <2>1, <2>2 DEF Unmarked
<1>8. ASSUME NEW q, Fixed(q)' PROVE KeepsSeed(q)'
  <2>1. KeepsSeed(q)
    BY <1>2, <1>8, SameBody
  <2>2. ValueOf(frames[Depth].values, q) = {} /\ q \notin frames[Depth].branchWrites
    BY <1>3, <2>1 DEF KeepsSeed, Unmarked
  <2>3. q \notin Outer
    BY <2>2 DEF Outer, KeysOf, ValueOf
  <2>4. ASSUME NEW i \in 1..(Depth - 1)
        PROVE  ValueOf(frames'[i].values, q) = ValueOf(frames[i].values, q)
    <3>1. CASE i = Depth - 1
      BY <1>4, <1>5, <2>3, <3>1, OverOthers
    <3>2. CASE i # Depth - 1
      BY <1>3, <3>2
    <3> QED BY <3>1, <3>2
  <2>5. Unmarked(q)'
    BY <1>7, <2>1, <2>3 DEF KeepsSeed
  <2>6. /\ ValueOf(frames'[1].values, q) = {Seed[q.name]}
        /\ \A i \in 2..(Depth - 1) : ValueOf(frames'[i].values, q) = {}
    BY <1>3, <2>1, <2>4 DEF KeepsSeed
  <2>7. \A w \in pending' : w.key # q
    BY <1>2, <2>1 DEF KeepsSeed
  <2> QED BY <1>3, <2>5, <2>6, <2>7 DEF KeepsSeed
<1>9. ASSUME NEW k, Straight(k)' PROVE KeepsResolved(k)'
  <2>1. KeepsResolved(k) /\ Straight(k)
    BY <1>2, <1>9, SameBody
  <2>2. \A i \in 1..(Depth - 1) : Placed(i, k) => Placed(i, k)'
    <3>1. Depth - 1 \in Nat
      BY <1>3
    <3> QED BY <1>2, <1>3, <3>1, SamePlaces
  <2>3. k \in Outer => IsBareBlock(Depth) /\ Placed(Depth - 1, k)
                       /\ k \in KeysOf(frames[Depth].values)
    <3> SUFFICES ASSUME k \in Outer
                 PROVE  IsBareBlock(Depth) /\ Placed(Depth - 1, k)
                        /\ k \in KeysOf(frames[Depth].values)
      OBVIOUS
    <3>1. k \notin frames[Depth].branchWrites
      BY <1>3, <2>1 DEF KeepsResolved, Unmarked
    <3>2. k \in KeysOf(frames[Depth].values) /\ ~DeclaresAt(Depth, k)
      BY <3>1 DEF Outer
    <3>3. PICK e \in frames[Depth].values : e.key = k
      BY <3>2 DEF KeysOf
    <3>4. PICK h \in 2..Depth : /\ frames[h].node = Home(k)
                                /\ \A j \in (h + 1)..Depth : IsBareBlock(j)
      BY <1>3, <2>1, <3>3 DEF KeepsResolved, Placed
    <3>5. h # Depth
      BY <2>1, <3>2, <3>4, HomeShape DEF DeclaresAt, IInv
    <3> QED BY <1>3, <3>2, <3>4, <3>5 DEF Placed
  <2>4. ASSUME NEW i \in 1..(Depth - 1), NEW e \in frames'[i].values, e.key = k
        PROVE  e.value.resolved /\ Placed(i, k)'
    <3>1. CASE e \in frames[i].values
      BY <1>3, <2>1, <2>2, <2>4, <3>1 DEF KeepsResolved
    <3>2. CASE e \notin frames[i].values
      <4>1. i = Depth - 1
        BY <1>3, <2>4, <3>2
      <4>2. (e \in Carried /\ IsBareBlock(Depth)) \/ (e \in Lost /\ ~IsBareBlock(Depth))
        BY <1>4, <2>4, <3>2, <4>1 DEF Over
      <4>3. k \in Outer
        BY <1>5, <2>4, <4>2 DEF KeysOf
      <4>4. e \in frames[Depth].values
        BY <2>3, <4>2, <4>3 DEF Carried
      <4> QED BY <1>3, <2>1, <2>2, <2>3, <2>4, <4>1, <4>3, <4>4 DEF KeepsResolved
    <3> QED BY <3>1, <3>2
  <2>5. \A w \in pending' : w.key = k => w.value.resolved /\ Placed(w.depth, k)'
    <3>1. \A w \in pending' : w.depth \in 1..(Depth - 1)
      BY <1>1, <1>3 DEF IInv, PendingInFrame, PendingFrameOpen
    <3> QED BY <1>2, <2>1, <2>2, <3>1 DEF KeepsResolved
  <2>6. Known(k)'
    <3>1. /\ \A n : Visited(n)' <=> Visited(n)
          /\ Home(k)' = Home(k) /\ WritesOf(k)' = WritesOf(k)
          /\ \A n : EffectAt(n)' = EffectAt(n)
      BY <1>2, SameBody DEF Visited
    <3> SUFFICES ASSUME NEW v \in WritesOf(k), EffectAt(v[1]) = k.from, Visited(v[1]),
                        NEW i \in 2..(Depth - 1), frames[i].node = Home(k),
                        \A w \in pending : ~(w.key = k /\ w.at = k.from)
                 PROVE  \E j \in 1..(Depth - 1) : k \in KeysOf(frames'[j].values)
      BY <1>2, <1>3, <3>1 DEF Known, Holders
    <3>2. i \in 2..Depth
      BY <1>3
    <3>3. PICK j \in 1..Depth : k \in KeysOf(frames[j].values)
      BY <2>1, <3>2 DEF KeepsResolved, Known, Holders
    <3>4. CASE j \in 1..(Depth - 2)
      BY <1>3, <3>3, <3>4
    <3>5. CASE j = Depth - 1
      <4>1. k \in KeysOf(frames'[Depth - 1].values)
        BY <1>4, <3>3, <3>5, OverOthers
      <4> QED BY <1>3, <4>1
    <3>6. CASE j = Depth
      <4>1. ~DeclaresAt(Depth, k)
        <5> SUFFICES ASSUME k \in ScopeOf(frames[Depth].node) PROVE FALSE
          BY <1>3 DEF DeclaresAt
        <5>1. frames[Depth].node \in DOMAIN prog /\ frames[Depth].node \in Nat
              /\ frames[i].node < frames[Depth].node /\ frames[i].node \in Nat
          <6>1. i \in 2..Depth /\ Depth \in 2..Depth /\ i < Depth
            BY <1>3
          <6> QED BY <6>1, FrameTyping DEF IInv, StackNests, OpenFrame
        <5>2. frames[Depth].node = Home(k)
          BY <2>1, <5>1, HomeShape DEF IInv
        <5> QED BY <3>1, <5>1, <5>2
      <4>2. k \in Outer
        BY <3>3, <3>6, <4>1 DEF Outer
      <4>3. k \in KeysOf(Carried)
        BY <2>3, <4>2 DEF Carried, KeysOf
      <4>4. k \in KeysOf(frames'[Depth - 1].values)
        BY <1>4, <2>3, <4>2, <4>3, OverOthers
      <4> QED BY <1>3, <4>4
    <3> QED BY <1>3, <3>4, <3>5, <3>6
  <2>7. Unmarked(k)'
    BY <1>7, <2>1, <2>3 DEF KeepsResolved
  <2> QED BY <1>3, <2>4, <2>5, <2>6, <2>7 DEF KeepsResolved
<1>10. \A o \in outcome' : Pinned(o)'
  BY <1>2, SameBody
<1>11. PendingAhead'
  BY <1>2 DEF PendingAhead, Pos
<1> QED BY <1>1, <1>8, <1>9, <1>10, <1>11

LEMMA EnterShape ==
  ASSUME IInv, Enter
  PROVE  /\ Depth \in Nat \ {0} /\ Depth' = Depth + 1
         /\ \A i \in 1..Depth : /\ frames'[i].node = frames[i].node
                                /\ frames'[i].values = frames[i].values
                                /\ frames'[i].branchWrites = frames[i].branchWrites
                                /\ frames'[i].fallthroughWrites \subseteq frames[i].fallthroughWrites
         /\ frames'[Depth + 1] =
              [node |-> cursor,
               values |-> AllPathDependent(frames[Depth].fallthroughWrites),
               branchWrites |-> {}, fallthroughWrites |-> {}]
<1> DEFINE entered == [node |-> cursor,
                       values |-> AllPathDependent(frames[Depth].fallthroughWrites),
                       branchWrites |-> {}, fallthroughWrites |-> {}]
           cleared == [frames EXCEPT ![Depth].fallthroughWrites = {}]
<1>1. Depth \in Nat \ {0} /\ frames \in Seq(Frame) /\ DOMAIN frames = 1..Depth
  BY DEF IInv, TypeOK, Depth
<1>2. frames' = Append(cleared, entered)
  BY DEF Enter
<1>3. frames[Depth] \in Frame
  BY <1>1
<1>4. cleared = [i \in 1..Depth |-> IF i = Depth
                   THEN [frames[Depth] EXCEPT !.fallthroughWrites = {}]
                   ELSE frames[i]]
  BY <1>1
<1>5. /\ [frames[Depth] EXCEPT !.fallthroughWrites = {}] \in Frame
      /\ [frames[Depth] EXCEPT !.fallthroughWrites = {}].node = frames[Depth].node
      /\ [frames[Depth] EXCEPT !.fallthroughWrites = {}].values = frames[Depth].values
      /\ [frames[Depth] EXCEPT !.fallthroughWrites = {}].branchWrites = frames[Depth].branchWrites
      /\ [frames[Depth] EXCEPT !.fallthroughWrites = {}].fallthroughWrites = {}
  BY <1>3 DEF Frame
<1> HIDE DEF entered, cleared
<1>6. cleared \in Seq(Frame) /\ Len(cleared) = Depth
  <2>1. cleared \in [1..Depth -> Frame]
    BY <1>1, <1>4, <1>5
  <2> QED BY <1>1, <2>1
<1>7. \A i \in 1..Depth : /\ cleared[i].node = frames[i].node
                          /\ cleared[i].values = frames[i].values
                          /\ cleared[i].branchWrites = frames[i].branchWrites
                          /\ cleared[i].fallthroughWrites \subseteq frames[i].fallthroughWrites
  BY <1>4, <1>5
<1>8. /\ Len(frames') = Depth + 1 /\ frames'[Depth + 1] = entered
      /\ \A i \in 1..Depth : frames'[i] = cleared[i]
  BY <1>1, <1>2, <1>6
<1> QED BY <1>1, <1>7, <1>8 DEF Depth, entered

\* A new scope starts path-dependent only for what a clause that fell through
\* wrote, and no straight-line registrar is written in a clause.
LEMMA EnterSInv ==
  ASSUME SInv, Enter
  PROVE  SInv'
<1> USE DEF SInv
<1>1. IInv'
  BY EnterIInv
<1>2. /\ UNCHANGED <<prog, cursor, pending, captured, outcome>>
      /\ pc = "leave" /\ pc' = "visit"
  BY DEF Enter
<1>3. /\ Depth \in Nat \ {0} /\ Depth' = Depth + 1
      /\ \A i \in 1..Depth : /\ frames'[i].node = frames[i].node
                             /\ frames'[i].values = frames[i].values
                             /\ frames'[i].branchWrites = frames[i].branchWrites
                             /\ frames'[i].fallthroughWrites \subseteq frames[i].fallthroughWrites
      /\ frames'[Depth + 1].node = cursor
      /\ frames'[Depth + 1].values = AllPathDependent(frames[Depth].fallthroughWrites)
      /\ frames'[Depth + 1].branchWrites = {} /\ frames'[Depth + 1].fallthroughWrites = {}
  BY EnterShape
<1>4. \A i \in 1..Depth' : i \in 1..Depth \/ i = Depth + 1
  BY <1>3
<1>5. \A k : Unmarked(k) => Unmarked(k)'
  BY <1>2, <1>3, <1>4 DEF Unmarked
<1>6. \A k : Unmarked(k) => k \notin KeysOf(frames'[Depth + 1].values)
  BY <1>3 DEF Unmarked, KeysOf, AllPathDependent
<1>7. ASSUME NEW q, Fixed(q)' PROVE KeepsSeed(q)'
  <2>1. KeepsSeed(q)
    BY <1>2, <1>7, SameBody
  <2>2. ValueOf(frames'[Depth + 1].values, q) = {}
    BY <1>6, <2>1 DEF KeepsSeed, ValueOf, KeysOf
  <2>3. /\ ValueOf(frames'[1].values, q) = {Seed[q.name]}
        /\ \A i \in 2..(Depth + 1) : ValueOf(frames'[i].values, q) = {}
    <3>1. ValueOf(frames'[1].values, q) = {Seed[q.name]}
      BY <1>3, <2>1 DEF KeepsSeed
    <3>2. \A i \in 2..Depth : ValueOf(frames'[i].values, q) = {}
      BY <1>3, <2>1 DEF KeepsSeed
    <3> QED BY <1>3, <2>2, <3>1, <3>2
  <2>4. Unmarked(q)' /\ \A w \in pending' : w.key # q
    BY <1>2, <1>5, <2>1 DEF KeepsSeed
  <2> QED BY <1>3, <2>3, <2>4 DEF KeepsSeed
<1>8. ASSUME NEW k, Straight(k)' PROVE KeepsResolved(k)'
  <2>1. KeepsResolved(k) /\ Straight(k)
    BY <1>2, <1>8, SameBody
  <2>2. \A i \in 1..Depth : Placed(i, k) => Placed(i, k)'
    <3>1. Depth \in Nat
      BY <1>3
    <3> QED BY <1>2, <1>3, <3>1, SamePlaces
  <2>3. \A i \in 1..Depth' : \A e \in frames'[i].values :
          e.key = k => e.value.resolved /\ Placed(i, k)'
    <3> SUFFICES ASSUME NEW i \in 1..Depth', NEW e \in frames'[i].values, e.key = k
                 PROVE  e.value.resolved /\ Placed(i, k)'
      OBVIOUS
    <3>1. i # Depth + 1
      BY <1>6, <2>1 DEF KeepsResolved, KeysOf
    <3> QED BY <1>3, <1>4, <2>1, <2>2, <3>1 DEF KeepsResolved
  <2>4. \A w \in pending' : w.key = k => w.value.resolved /\ Placed(w.depth, k)'
    BY <1>2, <2>1, <2>2 DEF KeepsResolved, IInv, PendingInFrame, PendingFrameOpen
  <2>5. Known(k)'
    <3>1. /\ \A n : Visited(n)' <=> Visited(n)
          /\ Home(k)' = Home(k) /\ WritesOf(k)' = WritesOf(k)
          /\ \A n : EffectAt(n)' = EffectAt(n)
      BY <1>2, SameBody DEF Visited
    <3> SUFFICES ASSUME NEW v \in WritesOf(k), EffectAt(v[1]) = k.from, Visited(v[1]),
                        NEW i \in 2..Depth', frames'[i].node = Home(k),
                        \A w \in pending : ~(w.key = k /\ w.at = k.from)
                 PROVE  \E j \in 1..Depth' : k \in KeysOf(frames'[j].values)
      BY <1>2, <3>1 DEF Known, Holders
    <3>2. i # Depth + 1
      <4> SUFFICES ASSUME i = Depth + 1 PROVE FALSE
        OBVIOUS
      <4>1. v[1] < cursor /\ v[1] \in DOMAIN prog /\ cursor \in DOMAIN prog
        BY <1>2 DEF Visited, WritesOf, IInv, TypeOK
      <4>2. Home(k) \in Enclosing(v[1])
        BY <2>1, <4>1, StraightUse DEF IInv, WritesOf
      <4>3. cursor <= v[1]
        BY <1>3, <4>1, <4>2, TreeShape DEF IInv, Enclosing
      <4> QED BY <4>1, <4>3, TreeShape DEF IInv
    <3>3. i \in 2..Depth /\ frames[i].node = Home(k)
      BY <1>3, <3>2
    <3>4. PICK j \in 1..Depth : k \in KeysOf(frames[j].values)
      BY <2>1, <3>3 DEF KeepsResolved, Known, Holders
    <3> QED BY <1>3, <3>4
  <2>6. Unmarked(k)'
    BY <1>5, <2>1 DEF KeepsResolved
  <2> QED BY <2>3, <2>4, <2>5, <2>6 DEF KeepsResolved
<1>9. \A o \in outcome' : Pinned(o)'
  BY <1>2, SameBody
<1>10. PendingAhead'
  BY <1>2 DEF PendingAhead, Pos
<1> QED BY <1>1, <1>7, <1>8, <1>9, <1>10

LEMMA StaySInv ==
  ASSUME SInv, Stay
  PROVE  SInv'
<1> USE DEF SInv
<1>1. IInv'
  BY StayIInv
<1>2. /\ UNCHANGED <<prog, cursor, frames, pending, captured, outcome>>
      /\ pc = "leave" /\ pc' = "visit"
  BY DEF Stay
<1>3. /\ Depth' = Depth /\ Depth \in Nat
      /\ \A i \in 1..Depth : frames'[i].node = frames[i].node
  BY <1>2 DEF Depth, IInv, TypeOK
<1>4. \A i \in 1..Depth : \A k : Placed(i, k) => Placed(i, k)'
  BY <1>2, <1>3, SamePlaces
<1>5. ASSUME NEW q, Fixed(q)' PROVE KeepsSeed(q)'
  <2>1. KeepsSeed(q)
    BY <1>2, <1>5, SameBody
  <2> QED BY <1>2, <1>3, <2>1 DEF KeepsSeed, Unmarked
<1>6. ASSUME NEW k, Straight(k)' PROVE KeepsResolved(k)'
  <2>1. KeepsResolved(k) /\ Straight(k)
    BY <1>2, <1>6, SameBody
  <2>2. Known(k)'
    <3>1. /\ \A n : Visited(n)' <=> Visited(n)
          /\ Home(k)' = Home(k) /\ WritesOf(k)' = WritesOf(k)
          /\ \A n : EffectAt(n)' = EffectAt(n)
          /\ Holders(k)' = Holders(k)
      BY <1>2, <1>3, SameBody DEF Visited, Holders
    <3> QED BY <1>2, <1>3, <2>1, <3>1 DEF KeepsResolved, Known
  <2>3. \A w \in pending : w.depth \in 1..Depth
    BY DEF IInv, PendingInFrame, PendingFrameOpen
  <2> QED BY <1>2, <1>3, <1>4, <2>1, <2>2, <2>3 DEF KeepsResolved, Unmarked
<1>7. \A o \in outcome' : Pinned(o)'
  BY <1>2, SameBody
<1>8. PendingAhead'
  BY <1>2 DEF PendingAhead, Pos, IInv, PendingInFrame
<1> QED BY <1>1, <1>5, <1>6, <1>7, <1>8

\* What a visit leaves to show: the writes it queues are resolved where they
\* are of a straight-line registrar, and a declaration that it visits is queued.
LEMMA VisitSInv ==
  ASSUME SInv, IInv', Proceed, pending \subseteq pending',
         \A w \in pending' \ pending :
            /\ ~Fixed(w.key)
            /\ Straight(w.key) => w.value.resolved /\ Placed(w.depth, w.key),
         \A k : Straight(k) => \A w \in WritesOf(k) :
            w[1] = cursor /\ EffectAt(cursor) = k.from =>
              \E p \in pending' : p.key = k /\ p.at = k.from,
         \A o \in outcome' : Pinned(o)
  PROVE  SInv'
<1> USE DEF SInv
<1>1. /\ UNCHANGED <<prog, frames, captured>> /\ pc = "visit"
      /\ pc' \in {"advance", "done"} /\ cursor \in Nat
      /\ \/ pc' = "done" /\ cursor' = cursor
         \/ pc' = "advance" /\ cursor' = cursor + 1
  BY TreeShape DEF Proceed, IInv, TypeOK
<1>2. /\ Depth' = Depth /\ Depth \in Nat
      /\ \A i \in 1..Depth : frames'[i].node = frames[i].node
  BY <1>1 DEF Depth, IInv, TypeOK
<1>3. \A i \in 1..Depth : \A k : Placed(i, k) => Placed(i, k)'
  BY <1>1, <1>2, SamePlaces
<1>4. \A k : Unmarked(k) => Unmarked(k)'
  BY <1>1, <1>2 DEF Unmarked
<1>5. ASSUME NEW q, Fixed(q)' PROVE KeepsSeed(q)'
  <2>1. KeepsSeed(q) /\ Fixed(q)
    BY <1>1, <1>5, SameBody
  <2>2. \A w \in pending' : w.key # q
    BY <2>1 DEF KeepsSeed
  <2> QED BY <1>1, <1>2, <1>4, <2>1, <2>2 DEF KeepsSeed
<1>6. ASSUME NEW k, Straight(k)' PROVE KeepsResolved(k)'
  <2>1. KeepsResolved(k) /\ Straight(k)
    BY <1>1, <1>6, SameBody
  <2>2. \A i \in 1..Depth : \A e \in frames'[i].values :
          e.key = k => e.value.resolved /\ Placed(i, k)'
    BY <1>1, <1>3, <2>1 DEF KeepsResolved
  <2>3. \A w \in pending' : w.key = k => w.value.resolved /\ Placed(w.depth, k)'
    <3> SUFFICES ASSUME NEW w \in pending', w.key = k
                 PROVE  w.value.resolved /\ Placed(w.depth, k)
      <4>1. \A w \in pending' : w.depth \in 1..Depth
        BY <1>2 DEF IInv, PendingInFrame, PendingFrameOpen
      <4> QED BY <1>3, <4>1
    <3> QED BY <2>1 DEF KeepsResolved
  <2>4. Known(k)'
    <3>1. /\ Home(k)' = Home(k) /\ WritesOf(k)' = WritesOf(k)
          /\ \A n : EffectAt(n)' = EffectAt(n)
      BY <1>1, SameBody
    <3> SUFFICES ASSUME NEW v \in WritesOf(k), EffectAt(v[1]) = k.from, Visited(v[1])',
                        NEW i \in 2..Depth, frames[i].node = Home(k),
                        \A w \in pending' : ~(w.key = k /\ w.at = k.from)
                 PROVE  \E j \in 1..Depth : k \in KeysOf(frames[j].values)
      BY <1>1, <1>2, <3>1 DEF Known, Holders
    <3>2. v[1] \in Nat
      BY TreeShape DEF WritesOf, IInv
    <3>3. CASE v[1] = cursor
      BY <2>1, <3>3
    <3>4. CASE v[1] # cursor
      <4>1. v[1] < cursor' \/ (v[1] = cursor' /\ pc' = "done")
        BY DEF Visited
      <4>2. v[1] < cursor
        BY <1>1, <3>2, <3>4, <4>1
      <4>3. Visited(v[1])
        BY <4>2 DEF Visited
      <4> QED BY <2>1, <4>3 DEF KeepsResolved, Known, Holders
    <3> QED BY <3>3, <3>4
  <2>5. Unmarked(k)'
    BY <1>4, <2>1 DEF KeepsResolved
  <2> QED BY <1>2, <2>2, <2>3, <2>4, <2>5 DEF KeepsResolved
<1>7. \A o \in outcome' : Pinned(o)'
  BY <1>1, SameBody
<1>8. PendingAhead'
  BY <1>1 DEF PendingAhead
<1> QED BY <1>5, <1>6, <1>7, <1>8

\* Only a range clause takes effect at its body, and declares nothing there for
\* the list around it.
LEMMA DeclaringWrites ==
  ASSUME Given, NEW k, Straight(k), NEW n \in DOMAIN prog, EffectAt(n) = k.from
  PROVE  Writes(n) = prog[n].writes
<1>1. PICK c \in DOMAIN prog : k.from = End(c)
  BY HomeShape
<1>2. prog[n].kind # "range"
  <2> SUFFICES ASSUME prog[n].kind = "range" PROVE FALSE
    OBVIOUS
  <2>1. Body(n) \in Nat /\ prog[c].last \in Nat
    BY BodyWithin, TreeShape DEF RepeatableKinds
  <2>2. 2 * Body(n) = 2 * prog[c].last + 1
    BY <1>1 DEF EffectAt, Pos, End
  <2> QED BY <2>1, <2>2
<1> QED BY <1>2 DEF Writes

LEMMA RecordBindingsSInv ==
  ASSUME SInv, RecordBindings
  PROVE  SInv'
<1> USE DEF SInv
<1>1. IInv' /\ Proceed /\ pc = "visit" /\ UNCHANGED outcome
  BY RecordBindingsIInv DEF RecordBindings, Proceed
<1>2. /\ Given /\ cursor \in DOMAIN prog /\ Writes(cursor) \in Seq(Write)
  BY NodeTyping DEF IInv, TypeOK
<1> DEFINE w == Writes(cursor)
           at == EffectAt(cursor)
           key(i) == KeyAt(w[i].lhs, at, cursor)
           value(i) == Written(w[i].rhs, cursor)
           assign(i) ==
             LET f == TargetFrame(key(i))
             IN  [at |-> at, depth |-> f, node |-> frames[f].node, key |-> key(i),
                  value |-> IF CarriedAcrossRuns(f, key(i), Pos(cursor))
                            THEN PathDependent
                            ELSE IF value(i) = {} THEN Untraced
                            ELSE CHOOSE v \in value(i) : TRUE]
           traced == {i \in DOMAIN w : value(i) # {} \/ LookUp(key(i)) # {}}
<1>3. pending' = pending \cup {assign(i) : i \in traced}
  BY DEF RecordBindings
<1>4. \A i \in DOMAIN w :
        /\ assign(i).key = key(i) /\ assign(i).at = at
        /\ assign(i).depth = TargetFrame(key(i))
        /\ (~CarriedAcrossRuns(TargetFrame(key(i)), key(i), Pos(cursor)) /\ value(i) # {})
             => assign(i).value \in value(i)
  OBVIOUS
<1>5. ASSUME NEW i \in DOMAIN w
      PROVE  /\ ~Fixed(key(i))
             /\ Straight(key(i)) =>
                  /\ value(i) # {} /\ \A p \in value(i) : p.resolved
                  /\ Placed(TargetFrame(key(i)), key(i))
                  /\ ~CarriedAcrossRuns(TargetFrame(key(i)), key(i), Pos(cursor))
  <2> DEFINE k == key(i)
  <2>1. /\ <<cursor, i>> \in WritesOf(k)
        /\ prog[cursor].writes[i] = w[i]
    BY <1>2, WriteCounts
  <2>2. ~Fixed(k)
    BY <2>1 DEF Fixed
  <2>3. ASSUME Straight(k)
        PROVE  /\ value(i) # {} /\ \A p \in value(i) : p.resolved
               /\ Placed(TargetFrame(k), k)
               /\ ~CarriedAcrossRuns(TargetFrame(k), k, Pos(cursor))
    <3>1. AlwaysRuns(k, cursor) /\ Followed(w[i].rhs, cursor, k)
      <4>1. \A v \in WritesOf(k) :
              AlwaysRuns(k, v[1]) /\ Followed(prog[v[1]].writes[v[2]].rhs, v[1], k)
        BY <2>3 DEF Straight
      <4>2. AlwaysRuns(k, <<cursor, i>>[1])
            /\ Followed(prog[<<cursor, i>>[1]].writes[<<cursor, i>>[2]].rhs, <<cursor, i>>[1], k)
        BY <2>1, <4>1
      <4> QED BY <2>1, <4>2
    <3>2. Home(k) \in Enclosing(cursor)
      BY <1>2, <2>3, StraightUse
    <3>3. w[i].rhs \in Rhs
      <4>1. w[i] \in Write
        BY <1>2
      <4> QED BY <4>1 DEF Write
    <3> HIDE DEF k, w
    <3>4. Written(w[i].rhs, cursor) # {} /\ \A p \in Written(w[i].rhs, cursor) : p.resolved
      BY <1>1, <2>3, <3>1, <3>2, <3>3, StraightValue
    <3>5. /\ Placed(TargetFrame(k), k)
          /\ ~CarriedAcrossRuns(TargetFrame(k), k, Pos(cursor))
      BY <1>1, <2>3, <3>1, <3>2, StraightTarget
    <3> QED BY <3>4, <3>5
  <2> QED BY <2>2, <2>3
<1> HIDE DEF key, value, assign
<1>6. \A v \in pending' \ pending :
        /\ ~Fixed(v.key)
        /\ Straight(v.key) => v.value.resolved /\ Placed(v.depth, v.key)
  <2> SUFFICES ASSUME NEW i \in traced
               PROVE  /\ ~Fixed(assign(i).key)
                      /\ Straight(assign(i).key) =>
                           assign(i).value.resolved /\ Placed(assign(i).depth, assign(i).key)
    BY <1>3
  <2>1. i \in DOMAIN w
    OBVIOUS
  <2> QED BY <1>4, <1>5, <2>1
<1>7. ASSUME NEW k, Straight(k), NEW v \in WritesOf(k), v[1] = cursor, at = k.from
      PROVE  \E p \in pending' : p.key = k /\ p.at = k.from
  <2>1. w = prog[cursor].writes
    BY <1>2, <1>7, DeclaringWrites
  <2>2. v[2] \in DOMAIN w /\ key(v[2]) = k
    BY <1>7, <2>1 DEF WritesOf, key
  <2>3. v[2] \in traced
    BY <1>5, <1>7, <2>2
  <2> QED BY <1>3, <1>4, <1>7, <2>2, <2>3
<1>8. \A o \in outcome' : Pinned(o)
  BY <1>1
<1>9. pending \subseteq pending'
  BY <1>3
<1> HIDE DEF traced, w
<1> QED BY <1>1, <1>6, <1>7, <1>8, <1>9, VisitSInv

\* A registration of a straight-line registrar finds its resolved prefix.
LEMMA PinnedHere ==
  ASSUME SInv, pc = "visit", NEW k, Straight(k),
         k = KeyAt(prog[cursor].reg, Pos(cursor), cursor),
         \A a \in Within(k, cursor) : ~Repeatable(a)
  PROVE  /\ Registrar(prog[cursor].reg, cursor) # {}
         /\ PrefixOf(prog[cursor].reg, cursor).resolved
<1> USE DEF SInv
<1> DEFINE reg == prog[cursor].reg
<1>1. Given /\ cursor \in DOMAIN prog
  BY DEF IInv, TypeOK
<1>2. Home(k) \in Enclosing(cursor) /\ k.from <= Pos(cursor)
  BY <1>1, StraightUse
<1>3. Home(k) \in DOMAIN prog /\ prog[Home(k)].kind \in FrameKinds
  BY <1>1, HomeShape
<1>4. PICK h \in 2..Depth : /\ frames[h].node = Home(k)
                            /\ \A j \in (h + 1)..Depth : frames[j].node \in Within(k, cursor)
  BY <1>2, <1>3, FramesWithin
<1>5. LookUp(k) # {} /\ \A p \in LookUp(k) : p.resolved
  <2>1. \A j \in (h + 1)..Depth : ~Repeatable(frames[j].node)
    BY <1>4
  <2> QED BY <1>2, <1>4, <2>1, StraightLookUp
<1>6. Registrar(reg, cursor) = LookUp(k)
  BY <1>5 DEF Registrar
<1>7. PrefixOf(reg, cursor) \in LookUp(k)
  BY <1>5, <1>6 DEF PrefixOf
<1> QED BY <1>5, <1>6, <1>7

LEMMA RegistrationSInv ==
  ASSUME SInv, RouteFromCall \/ RouteFromAddCall
  PROVE  SInv'
<1> USE DEF SInv
<1>1. /\ IInv' /\ Proceed /\ pc = "visit" /\ UNCHANGED pending /\ UNCHANGED prog
      /\ prog[cursor].kind \in {"get", "add"}
  BY RegistrationIInv DEF RouteFromCall, RouteFromAddCall, Proceed
<1>2. Given /\ cursor \in DOMAIN prog
  BY DEF IInv, TypeOK
<1>3. prog[cursor].writes = <<>>
  <2>1. WellFormed(prog)
    BY <1>2, ProgramsAssumption DEF Given
  <2> QED BY <1>1, <1>2, <2>1 DEF WellFormed
<1>4. \A k : \A w \in WritesOf(k) : w[1] # cursor
  <2> SUFFICES ASSUME NEW k, NEW w \in WritesOf(k), w[1] = cursor PROVE FALSE
    OBVIOUS
  <2>1. w[2] \in DOMAIN prog[w[1]].writes
    BY DEF WritesOf
  <2>2. w[2] \in DOMAIN <<>>
    BY <1>3, <2>1
  <2> QED BY <2>2
<1> DEFINE reg == prog[cursor].reg
           p == PrefixOf(reg, cursor)
           ok == prog[cursor].pathOK /\ p.resolved
           decided == [node |-> cursor, route |-> ok, path |-> IF ok THEN p.path ELSE <<>>]
<1>5. outcome' = outcome \/ outcome' = outcome \cup {decided}
  BY DEF RouteFromCall, RouteFromAddCall, Decide
<1>6. Pinned(decided)
  <2> DEFINE k == KeyAt(reg, Pos(cursor), cursor)
  <2>1. decided.node = cursor /\ decided.route = ok
    OBVIOUS
  <2>2. ASSUME prog[cursor].pathOK, Straight(k), \A a \in Within(k, cursor) : ~Repeatable(a)
        PROVE  ok
    BY <1>1, <2>2, PinnedHere
  <2> HIDE DEF decided, ok
  <2> QED BY <2>1, <2>2 DEF Pinned
<1> HIDE DEF decided
<1>7. \A o \in outcome' : Pinned(o)
  BY <1>5, <1>6
<1> QED BY <1>1, <1>4, <1>7, VisitSInv

LEMMA NextSInv == SInv /\ [Next]_vars => SInv'
<1> SUFFICES ASSUME SInv, [Next]_vars PROVE SInv'
  OBVIOUS
<1>1. CASE DueWrites
  BY <1>1, DueWritesSInv
<1>2. CASE Leave
  BY <1>2, LeaveSInv
<1>3. CASE Enter
  BY <1>3, EnterSInv
<1>4. CASE Stay
  BY <1>4, StaySInv
<1>5. CASE RecordBindings
  BY <1>5, RecordBindingsSInv
<1>6. CASE RouteFromCall \/ RouteFromAddCall
  BY <1>6, RegistrationSInv
<1>7. CASE Walked \/ UNCHANGED vars
  <2>1. UNCHANGED <<prog, cursor, pc, frames, pending, captured, outcome>>
    BY <1>7 DEF Walked, vars
  <2>2. IInv'
    <3>1. IInv /\ [Next]_vars
      BY DEF SInv
    <3> QED BY <3>1, NextIInv
  <2>3. Depth \in Nat /\ Depth' = Depth
    BY <2>1 DEF SInv, IInv, TypeOK, Depth
  <2>4. \A i \in 1..Depth : \A k : Placed(i, k) => Placed(i, k)'
    <3>1. \A j \in 1..Depth : frames'[j].node = frames[j].node
      BY <2>1
    <3> QED BY <2>1, <2>3, <3>1, SamePlaces
  <2>5. ASSUME NEW q, Fixed(q)' PROVE KeepsSeed(q)'
    <3>1. KeepsSeed(q)
      BY <2>1, <2>5, SameBody DEF SInv
    <3> QED BY <2>1, <2>3, <3>1 DEF KeepsSeed, Unmarked
  <2>6. ASSUME NEW k, Straight(k)' PROVE KeepsResolved(k)'
    <3>1. KeepsResolved(k)
      BY <2>1, <2>6, SameBody DEF SInv
    <3>2. Known(k)'
      <4>1. /\ \A n : Visited(n)' <=> Visited(n)
            /\ Home(k)' = Home(k) /\ WritesOf(k)' = WritesOf(k)
            /\ \A n : EffectAt(n)' = EffectAt(n)
            /\ Holders(k)' = Holders(k)
        BY <2>1, <2>3, SameBody DEF Visited, Holders
      <4> QED BY <2>1, <2>3, <3>1, <4>1 DEF KeepsResolved, Known
    <3>3. \A w \in pending : w.depth \in 1..Depth
      BY DEF SInv, IInv, PendingInFrame, PendingFrameOpen
    <3> QED BY <2>1, <2>3, <2>4, <3>1, <3>2, <3>3 DEF KeepsResolved, Unmarked
  <2>7. \A o \in outcome' : Pinned(o)'
    BY <2>1, SameBody DEF SInv
  <2>8. PendingAhead'
    BY <2>1 DEF SInv, PendingAhead, Pos
  <2> QED BY <2>2, <2>5, <2>6, <2>7, <2>8 DEF SInv
<1> QED BY <1>1, <1>2, <1>3, <1>4, <1>5, <1>6, <1>7 DEF Next

\* Whatever the body: a registration on a registrar that only straight-line code
\* of its own block writes, from values the walk can follow, is never dropped as
\* unresolved for that registrar, however loops, closures, branches and bare
\* blocks are nested around it (registrarTracker.lookup, assign, applyDue, leave).
THEOREM StraightLinesArePinned == Spec => []PinnedWhenStraight
<1>1. Init => SInv
  BY InitSInv
<1>2. SInv /\ [Next]_vars => SInv'
  BY NextSInv
<1>3. SInv => PinnedWhenStraight
  BY DEF SInv, PinnedWhenStraight, Pinned
<1> QED BY <1>1, <1>2, <1>3, PTL DEF Spec
=============================================================================
