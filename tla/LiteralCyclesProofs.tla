------------------------ MODULE LiteralCyclesProofs ------------------------
(***************************************************************************)
(* Proofs about LiteralCycles, for every graph of literals and all limits: *)
(* the classes hold only literals of one cycle, the count bounds what a    *)
(* field documents, and so the expansion is one LiteralExpansion allows.   *)
(*                                                                         *)
(* The argument: the open literals form a path (StackIsPath), so whatever  *)
(* is opened after a literal that the next one leads back to lies on a     *)
(* cycle with it (PathClosed), and joining its class keeps classes cycles. *)
(*                                                                         *)
(* A literal is expanded once below each field because, when it closes,    *)
(* its class has one open still or is all of its cycle (ClassComplete).    *)
(* A field's documentation is its own because what is done below its       *)
(* literal is a walk that depends on the literal and the graph alone       *)
(* (Traced), and such a walk ends in one state only (WalkedEnd).           *)
(***************************************************************************)
EXTENDS LiteralCycles, FiniteSetTheorems, SequenceTheorems, TLAPS

LitOf(i) == openLiterals[i].lit

\* The open literals lead to one another, and none is a Marshaler's.
StackIsPath ==
    /\ \A i \in DOMAIN openLiterals : ~project.lits[LitOf(i)].marshaler
    /\ \A i, j \in DOMAIN openLiterals : i < j => Expansion!Reaches(LitOf(i), LitOf(j))

\* While a literal is open the count is that of its field, whose literal
\* literalRoot is.
CountIsExact ==
    IF openLiterals = <<>> THEN doc = <<>>
    ELSE literalExtracts = Expansion!Expansions /\ literalRoot = LitOf(1)

IInv ==
    /\ project \in Projects
    /\ TypeOK /\ ClassesAreCycles /\ StackIsPath /\ CountIsExact

-----------------------------------------------------------------------------
(* Reachability. *)

LEMMA KidReached ==
    ASSUME NEW a, NEW b \in Expansion!KidLits(a)
    PROVE  Expansion!Reaches(a, b)
BY DEF Expansion!Reaches

LEMMA ReachesTransitive ==
    ASSUME NEW a, NEW b, NEW c, Expansion!Reaches(a, b), Expansion!Reaches(b, c)
    PROVE  Expansion!Reaches(a, c)
BY DEF Expansion!Reaches

LEMMA CycleSymmetric ==
    ASSUME NEW a, NEW b, Expansion!OnOneCycle(a, b)
    PROVE  Expansion!OnOneCycle(b, a)
BY DEF Expansion!OnOneCycle

LEMMA CycleTransitive ==
    ASSUME NEW a, NEW b, NEW c, Expansion!OnOneCycle(a, b), Expansion!OnOneCycle(b, c)
    PROVE  Expansion!OnOneCycle(a, c)
BY ReachesTransitive DEF Expansion!OnOneCycle

\* Neither changes while the project stays.
LEMMA SameReach ==
    ASSUME UNCHANGED project
    PROVE  /\ Expansion!Lits' = Expansion!Lits
           /\ \A l : Expansion!KidLits(l)' = Expansion!KidLits(l)
           /\ \A a, b : Expansion!Reaches(a, b)' <=> Expansion!Reaches(a, b)
           /\ \A a, b : Expansion!OnOneCycle(a, b)' <=> Expansion!OnOneCycle(a, b)
<1>1. Expansion!Lits' = Expansion!Lits
  BY DEF Expansion!Lits
<1>2. \A l : Expansion!KidLits(l)' = Expansion!KidLits(l)
  BY DEF Expansion!KidLits, Expansion!Kids
<1>3. \A a, b : Expansion!Reaches(a, b)' <=> Expansion!Reaches(a, b)
  BY <1>1, <1>2 DEF Expansion!Reaches
<1>4. \A a, b : Expansion!OnOneCycle(a, b)' <=> Expansion!OnOneCycle(a, b)
  BY <1>3 DEF Expansion!OnOneCycle
<1> QED BY <1>1, <1>2, <1>3, <1>4

\* The i-th open literal and l lie on one cycle, and the innermost one leads
\* to l: so does every literal opened after the i-th (closesLiteralCycle).
LEMMA PathClosed ==
    ASSUME StackIsPath, openLiterals \in Seq(Frame), openLiterals # <<>>,
           NEW l \in Expansion!KidLits(LitOf(Len(openLiterals))),
           NEW i \in DOMAIN openLiterals, Expansion!OnOneCycle(LitOf(i), l),
           NEW k \in DOMAIN openLiterals, k > i
    PROVE  Expansion!OnOneCycle(LitOf(k), l)
<1> DEFINE n == Len(openLiterals)
<1>1. n \in DOMAIN openLiterals /\ n \in Nat /\ k \in 1..n /\ i \in 1..n
  OBVIOUS
<1>2. Expansion!Reaches(LitOf(n), l)
  BY KidReached
<1>3. Expansion!Reaches(LitOf(k), l)
  <2>1. CASE k = n
    BY <1>2, <2>1
  <2>2. CASE k < n
    BY <1>1, <1>2, <2>2, ReachesTransitive DEF StackIsPath
  <2> QED BY <1>1, <2>1, <2>2
<1>4. Expansion!Reaches(LitOf(i), LitOf(k))
  BY DEF StackIsPath
<1>5. Expansion!Reaches(l, LitOf(k))
  BY <1>4, ReachesTransitive DEF Expansion!OnOneCycle
<1> QED BY <1>3, <1>5 DEF Expansion!OnOneCycle

-----------------------------------------------------------------------------
(* Sites, frames and documents. *)

LEMMA KidsTyped ==
    ASSUME project \in Projects, NEW l \in Expansion!Lits
    PROVE  /\ Expansion!Kids(l) \in Seq(Expansion!Site)
           /\ \A i \in DOMAIN Expansion!Kids(l) : Expansion!Kids(l)[i].lit \in Expansion!Lits
<1>1. Expansion!WellFormed(project)
  BY ProjectsAssumption
<1>2. project.lits \in Seq(Expansion!Literal) /\ l \in DOMAIN project.lits
  BY <1>1 DEF Expansion!WellFormed, Expansion!Lits
<1>3. project.lits[l] \in Expansion!Literal
  BY <1>2
<1>4. Expansion!Kids(l) \in Seq(Expansion!Site)
  BY <1>3 DEF Expansion!Literal, Expansion!Kids
<1>5. \A i \in DOMAIN Expansion!Kids(l) : Expansion!Kids(l)[i].lit \in Expansion!Lits
  BY <1>1, <1>2 DEF Expansion!WellFormed, Expansion!Kids, Expansion!Lits
<1> QED BY <1>4, <1>5

\* The site the resolution has come to is the project's, and below an open
\* literal one that its fields lead to.
LEMMA SiteTyped ==
    ASSUME project \in Projects, TypeOK, NEW s \in Expansion!Sites
    PROVE  /\ s \in Expansion!Site /\ s.lit \in Expansion!Lits
           /\ openLiterals # <<>> =>
                LET top == openLiterals[Len(openLiterals)]
                IN  /\ top.next \in 1..Len(Expansion!Kids(top.lit))
                    /\ (s.inline /\ ~project.lits[top.lit].marshaler) =>
                         s.lit \in Expansion!KidLits(top.lit)
<1>1. Expansion!WellFormed(project)
  BY ProjectsAssumption
<1>2. CASE openLiterals = <<>>
  BY <1>1, <1>2 DEF Expansion!Sites, Expansion!WellFormed, Expansion!Lits
<1>3. CASE openLiterals # <<>>
  <2> DEFINE top == openLiterals[Len(openLiterals)]
  <2>1. top \in Frame /\ Len(openLiterals) \in DOMAIN openLiterals
    BY <1>3 DEF TypeOK
  <2>2. top.lit \in Expansion!Lits
    BY <2>1 DEF Frame
  <2>3. Expansion!Kids(top.lit) \in Seq(Expansion!Site)
    BY <2>2, KidsTyped
  <2>4. top.next <= Len(Expansion!Kids(top.lit)) /\ s = Expansion!Kids(top.lit)[top.next]
    BY <1>3 DEF Expansion!Sites, Expansion!Top
  <2>5. top.next \in 1..Len(Expansion!Kids(top.lit))
    BY <2>1, <2>3, <2>4 DEF TypeOK
  <2>6. s \in Expansion!Site
    BY <2>3, <2>4, <2>5
  <2>7. s.lit \in Expansion!Lits
    BY <2>2, <2>3, <2>4, <2>5, KidsTyped
  <2>8. (s.inline /\ ~project.lits[top.lit].marshaler) => s.lit \in Expansion!KidLits(top.lit)
    BY <2>3, <2>4, <2>5 DEF Expansion!KidLits
  <2> QED BY <2>5, <2>6, <2>7, <2>8
<1> QED BY <1>2, <1>3

LEMMA CardinalitySame == \A S : Expansion!Cardinality(S) = Cardinality(S)
BY DEF Expansion!Cardinality, Cardinality

LEMMA ExpansionsFinite ==
    ASSUME doc \in Document
    PROVE  IsFiniteSet({j \in DOMAIN doc : doc[j].how = "struct"})
<1>1. DOMAIN doc = 1..Len(doc) /\ Len(doc) \in Nat
  BY DEF Document
<1>2. IsFiniteSet(1..Len(doc))
  BY <1>1, FS_Interval
<1> QED BY <1>1, <1>2, FS_Subset

\* Documenting a site without its fields adds no expansion and keeps the open
\* literals.
LEMMA DeliverKeeps ==
    ASSUME IInv, NEW s \in Expansion!Sites, NEW how \in Outcome \ {"struct"},
           Expansion!Deliver(s, how), UNCHANGED project
    PROVE  /\ openLiterals' \in Seq(Frame) /\ doc' \in Document
           /\ documented' \in Seq([root : Expansion!Site, doc : Document])
           /\ Len(openLiterals') = Len(openLiterals)
           /\ \A i \in DOMAIN openLiterals :
                /\ LitOf(i)' = LitOf(i)
                /\ openLiterals'[i].next \in 1..(Len(Expansion!Kids(LitOf(i))) + 1)
                /\ openLiterals'[i].at \in DOMAIN doc'
           /\ openLiterals = <<>> => doc' = <<>> /\ openLiterals' = <<>>
           /\ Expansion!Expansions' = Expansion!Expansions
<1> USE DEF IInv
<1> DEFINE entry == [lit |-> s.lit, how |-> how]
<1>1. entry \in [lit : Expansion!Lits, how : Outcome] /\ s \in Expansion!Site
  BY SiteTyped
<1>2. doc \in Document /\ openLiterals \in Seq(Frame)
      /\ documented \in Seq([root : Expansion!Site, doc : Document])
  BY DEF TypeOK
<1>3. CASE openLiterals = <<>>
  <2>1. <<entry>> \in Document
    BY <1>1 DEF Document
  <2>2. [root |-> s, doc |-> <<entry>>] \in [root : Expansion!Site, doc : Document]
    BY <1>1, <2>1
  <2>3. documented' = Append(documented, [root |-> s, doc |-> <<entry>>])
        /\ UNCHANGED <<openLiterals, doc>>
    BY <1>3 DEF Expansion!Deliver
  <2>4. documented' \in Seq([root : Expansion!Site, doc : Document])
    BY <1>2, <2>2, <2>3
  <2>5. Expansion!Expansions' = Expansion!Expansions
    BY <2>3 DEF Expansion!Expansions
  <2> QED BY <1>2, <1>3, <2>3, <2>4, <2>5 DEF CountIsExact
<1>4. CASE openLiterals # <<>>
  <2> DEFINE n == Len(openLiterals)
             top == openLiterals[n]
             moved == [top EXCEPT !.next = @ + 1]
  <2>1. n \in DOMAIN openLiterals /\ top \in Frame /\ n \in Nat /\ DOMAIN openLiterals = 1..n
    BY <1>2, <1>4
  <2>2. top.next \in 1..Len(Expansion!Kids(top.lit)) /\ Len(Expansion!Kids(top.lit)) \in Nat
    <3>1. top.next \in 1..(Len(Expansion!Kids(top.lit)) + 1)
      BY <2>1 DEF TypeOK
    <3>2. Expansion!Kids(top.lit) \in Seq(Expansion!Site)
      BY <2>1, KidsTyped DEF Frame
    <3> QED BY <1>4, <3>1, <3>2, SiteTyped
  <2>3. moved \in Frame /\ moved.lit = top.lit /\ moved.at = top.at
        /\ moved.next \in 1..(Len(Expansion!Kids(top.lit)) + 1)
    BY <2>1, <2>2 DEF Frame
  <2>4. /\ openLiterals' = [openLiterals EXCEPT ![n] = moved]
        /\ doc' = Append(doc, entry) /\ documented' = documented
    BY <1>4 DEF Expansion!Deliver, Expansion!Advanced
  <2> HIDE DEF moved
  <2>5. openLiterals' \in Seq(Frame) /\ Len(openLiterals') = n
    BY <1>2, <2>1, <2>3, <2>4
  <2>6. openLiterals'[n] = moved
        /\ \A i \in DOMAIN openLiterals : i # n => openLiterals'[i] = openLiterals[i]
    BY <1>2, <2>1, <2>4
  <2>7. doc' \in Document /\ DOMAIN doc \subseteq DOMAIN doc' /\ Len(doc') = Len(doc) + 1
        /\ doc'[Len(doc) + 1] = entry /\ entry.how # "struct" /\ \A j \in DOMAIN doc : doc'[j] = doc[j]
        /\ DOMAIN doc' = DOMAIN doc \cup {Len(doc) + 1}
    <3>1. entry.how # "struct"
      OBVIOUS
    <3> HIDE DEF entry
    <3> QED BY <1>1, <1>2, <2>4, <3>1 DEF Document
  <2>8. ASSUME NEW i \in DOMAIN openLiterals
        PROVE  /\ LitOf(i)' = LitOf(i)
               /\ openLiterals'[i].next \in 1..(Len(Expansion!Kids(LitOf(i))) + 1)
               /\ openLiterals'[i].at \in DOMAIN doc'
    <3>1. CASE i = n
      BY <2>3, <2>6, <2>7, <3>1 DEF TypeOK, LitOf
    <3>2. CASE i # n
      BY <2>6, <2>7, <3>2 DEF TypeOK, LitOf
    <3> QED BY <3>1, <3>2
  <2>9. {j \in DOMAIN doc' : doc'[j].how = "struct"} = {j \in DOMAIN doc : doc[j].how = "struct"}
    <3> HIDE DEF entry
    <3> QED BY <2>7
  <2>10. Expansion!Expansions' = Expansion!Expansions
    BY <2>9 DEF Expansion!Expansions
  <2> QED BY <1>2, <1>4, <2>4, <2>5, <2>7, <2>8, <2>10
<1> QED BY <1>3, <1>4

\* Entering a literal below its limits opens it and counts it.
LEMMA EnterKeeps ==
    ASSUME IInv, NEW s \in Expansion!Sites, Expansion!Struct(s),
           Expansion!Base + s.up + 1 <= MaxDepth, Expansion!Enter(s), UNCHANGED project
    PROVE  /\ openLiterals' \in Seq(Frame) /\ doc' \in Document /\ documented' = documented
           /\ Len(openLiterals') = Len(openLiterals) + 1
           /\ openLiterals'[Len(openLiterals) + 1].lit = s.lit
           /\ \A i \in DOMAIN openLiterals : LitOf(i)' = LitOf(i)
           /\ \A i \in DOMAIN openLiterals' :
                /\ openLiterals'[i].next \in 1..(Len(Expansion!Kids(LitOf(i)')) + 1)
                /\ openLiterals'[i].at \in DOMAIN doc'
           /\ Expansion!Expansions' = Expansion!Expansions + 1
           /\ openLiterals = <<>> => Expansion!Expansions = 0
<1> USE DEF IInv
<1> DEFINE n == Len(openLiterals)
           entry == [lit |-> s.lit, how |-> "struct"]
           frame == [lit |-> s.lit, depth |-> Expansion!Base + s.up + 1, next |-> 1, site |-> s,
                     at |-> Len(doc) + 1]
           below == IF openLiterals = <<>> THEN <<>> ELSE Expansion!Advanced
<1>1. s.lit \in Expansion!Lits /\ s \in Expansion!Site /\ s.up \in Nat
  BY SiteTyped DEF Expansion!Site
<1>2. doc \in Document /\ openLiterals \in Seq(Frame) /\ n \in Nat /\ DOMAIN openLiterals = 1..n
  BY DEF TypeOK
<1>3. Expansion!Base \in Nat
  <2>1. CASE openLiterals = <<>>
    BY <2>1 DEF Expansion!Base
  <2>2. CASE openLiterals # <<>>
    <3>1. openLiterals[n] \in Frame
      BY <1>2, <2>2
    <3> QED BY <2>2, <3>1 DEF Expansion!Base, Expansion!Top, Frame
  <2> QED BY <2>1, <2>2
<1>4. entry \in [lit : Expansion!Lits, how : Outcome] /\ entry.how = "struct"
  BY <1>1 DEF Outcome
<1>5. frame \in Frame /\ frame.lit = s.lit /\ frame.next = 1 /\ frame.at = Len(doc) + 1
  <2>1. Expansion!Base + s.up + 1 \in 0..MaxDepth /\ Len(doc) + 1 \in Nat
    BY <1>1, <1>2, <1>3, LimitsAssumption DEF Document
  <2> QED BY <1>1, <2>1 DEF Frame
<1>6. /\ below \in Seq(Frame) /\ Len(below) = n
      /\ \A i \in DOMAIN openLiterals :
           /\ below[i].lit = LitOf(i) /\ below[i].at = openLiterals[i].at
           /\ below[i].next \in 1..(Len(Expansion!Kids(LitOf(i))) + 1)
  <2>1. CASE openLiterals = <<>>
    BY <1>2, <2>1
  <2>2. CASE openLiterals # <<>>
    <3> DEFINE top == openLiterals[n]
               moved == [top EXCEPT !.next = @ + 1]
    <3>1. n \in DOMAIN openLiterals /\ top \in Frame
      BY <1>2, <2>2
    <3>2. top.next \in 1..Len(Expansion!Kids(top.lit)) /\ Len(Expansion!Kids(top.lit)) \in Nat
      BY <2>2, <3>1, SiteTyped, KidsTyped DEF Frame
    <3>3. moved \in Frame /\ moved.lit = top.lit /\ moved.at = top.at
          /\ moved.next \in 1..(Len(Expansion!Kids(top.lit)) + 1)
      BY <3>1, <3>2 DEF Frame
    <3>4. below = [openLiterals EXCEPT ![n] = moved]
      BY <2>2 DEF Expansion!Advanced
    <3> HIDE DEF moved, below
    <3>5. below \in Seq(Frame) /\ Len(below) = n /\ below[n] = moved
          /\ \A i \in DOMAIN openLiterals : i # n => below[i] = openLiterals[i]
      BY <1>2, <3>1, <3>3, <3>4
    <3>6. ASSUME NEW i \in DOMAIN openLiterals
          PROVE  /\ below[i].lit = LitOf(i) /\ below[i].at = openLiterals[i].at
                 /\ below[i].next \in 1..(Len(Expansion!Kids(LitOf(i))) + 1)
      <4>1. CASE i = n
        BY <3>3, <3>5, <4>1 DEF LitOf
      <4>2. CASE i # n
        BY <3>5, <4>2 DEF TypeOK, LitOf
      <4> QED BY <4>1, <4>2
    <3> QED BY <3>5, <3>6
  <2> QED BY <2>1, <2>2
<1>7. openLiterals' = Append(below, frame) /\ doc' = Append(doc, entry) /\ documented' = documented
  BY DEF Expansion!Enter
<1> HIDE DEF below, frame, entry
<1>8. /\ openLiterals' \in Seq(Frame) /\ Len(openLiterals') = n + 1
      /\ openLiterals'[n + 1] = frame
      /\ \A i \in DOMAIN openLiterals : openLiterals'[i] = below[i]
      /\ DOMAIN openLiterals' = DOMAIN openLiterals \cup {n + 1}
  BY <1>2, <1>5, <1>6, <1>7
<1>9. /\ doc' \in Document /\ DOMAIN doc' = DOMAIN doc \cup {Len(doc) + 1}
      /\ Len(doc) + 1 \notin DOMAIN doc /\ doc'[Len(doc) + 1] = entry
      /\ \A j \in DOMAIN doc : doc'[j] = doc[j]
  BY <1>2, <1>4, <1>7 DEF Document
<1>10. \A i \in DOMAIN openLiterals : LitOf(i)' = LitOf(i)
  BY <1>6, <1>8 DEF LitOf
<1>11. openLiterals'[n + 1].lit = s.lit
  BY <1>5, <1>8
<1>12. ASSUME NEW i \in DOMAIN openLiterals'
       PROVE  /\ openLiterals'[i].next \in 1..(Len(Expansion!Kids(LitOf(i)')) + 1)
              /\ openLiterals'[i].at \in DOMAIN doc'
  <2>1. CASE i \in DOMAIN openLiterals
    <3>1. openLiterals[i].at \in DOMAIN doc
      BY <2>1 DEF TypeOK
    <3> QED BY <1>6, <1>8, <1>9, <1>10, <2>1, <3>1
  <2>2. CASE i = n + 1
    <3>1. LitOf(i)' = s.lit
      BY <1>11, <2>2 DEF LitOf
    <3> QED BY <1>1, <1>5, <1>8, <1>9, <2>2, <3>1, KidsTyped
  <2> QED BY <1>8, <2>1, <2>2
<1>13. Expansion!Expansions' = Expansion!Expansions + 1
  <2> DEFINE E == {j \in DOMAIN doc : doc[j].how = "struct"}
  <2>1. {j \in DOMAIN doc' : doc'[j].how = "struct"} = E \cup {Len(doc) + 1}
    BY <1>4, <1>9
  <2>2. IsFiniteSet(E) /\ Len(doc) + 1 \notin E
    BY <1>2, <1>9, ExpansionsFinite
  <2>3. Cardinality(E \cup {Len(doc) + 1}) = Cardinality(E) + 1
    <3> HIDE DEF E
    <3> QED BY <2>2, FS_AddElement
  <2>4. Expansion!Expansions = Cardinality(E)
    BY CardinalitySame DEF Expansion!Expansions
  <2>5. Expansion!Expansions' = Cardinality({j \in DOMAIN doc' : doc'[j].how = "struct"})
    BY CardinalitySame DEF Expansion!Expansions
  <2> HIDE DEF E
  <2> QED BY <2>1, <2>3, <2>4, <2>5
<1>14. openLiterals = <<>> => Expansion!Expansions = 0
  <2> SUFFICES ASSUME openLiterals = <<>> PROVE Expansion!Expansions = 0
    OBVIOUS
  <2>1. doc = <<>>
    BY DEF CountIsExact
  <2>2. {j \in DOMAIN doc : doc[j].how = "struct"} = {}
    BY <2>1
  <2>3. Expansion!Expansions = Cardinality({j \in DOMAIN doc : doc[j].how = "struct"})
    BY CardinalitySame DEF Expansion!Expansions
  <2> QED BY <2>2, <2>3, FS_EmptySet
<1> QED BY <1>7, <1>8, <1>9, <1>10, <1>11, <1>12, <1>13, <1>14

-----------------------------------------------------------------------------
(* The inductive invariant. *)

LEMMA InitIInv == Init => IInv
<1> SUFFICES ASSUME Init PROVE IInv
  OBVIOUS
<1> USE DEF Init
<1>1. cycleRoot \in [Expansion!Lits -> Expansion!Lits] /\ \A l \in Expansion!Lits : cycleRoot[l] = l
  BY DEF Identity
<1>2. TypeOK
  BY <1>1, LimitsAssumption DEF TypeOK, Document
<1>3. ClassesAreCycles
  BY <1>1 DEF ClassesAreCycles, Expansion!OnOneCycle
<1>4. StackIsPath /\ CountIsExact
  BY DEF StackIsPath, CountIsExact
<1> QED BY <1>2, <1>3, <1>4 DEF IInv

\* Whatever keeps the open literals keeps their path.
LEMMA SamePath ==
    ASSUME StackIsPath, openLiterals \in Seq(Frame), openLiterals' \in Seq(Frame),
           Len(openLiterals') <= Len(openLiterals),
           \A i \in DOMAIN openLiterals' : LitOf(i)' = LitOf(i), UNCHANGED project
    PROVE  StackIsPath'
<1>1. \A i \in DOMAIN openLiterals' : i \in DOMAIN openLiterals
  OBVIOUS
<1> QED BY <1>1, SameReach DEF StackIsPath

LEMMA SameClasses ==
    ASSUME ClassesAreCycles, UNCHANGED <<project, cycleRoot>>
    PROVE  ClassesAreCycles'
BY SameReach DEF ClassesAreCycles

\* A site documented without its fields, no class changed.
LEMMA DeliverIInv ==
    ASSUME IInv, NEW s \in Expansion!Sites, NEW how \in Outcome \ {"struct"},
           Expansion!Deliver(s, how),
           UNCHANGED <<project, literalExtracts, literalRoot, run, begun>>,
           cycleRoot' \in [Expansion!Lits -> Expansion!Lits], ClassesAreCycles',
           literalWarned' \in {<<>>} \cup {<<l>> : l \in Expansion!Lits}
    PROVE  IInv'
<1> USE DEF IInv
<1>1. openLiterals \in Seq(Frame)
  BY DEF TypeOK
<1>2. DOMAIN openLiterals' = DOMAIN openLiterals
  BY <1>1, DeliverKeeps
<1>3. \A l : Expansion!Kids(l)' = Expansion!Kids(l)
  BY DEF Expansion!Kids
<1>4. Frame' = Frame /\ Document' = Document /\ Expansion!Lits' = Expansion!Lits
  BY SameReach DEF Frame, Document
<1>5. TypeOK'
  BY <1>2, <1>3, <1>4, DeliverKeeps DEF TypeOK, LitOf
<1>6. StackIsPath'
  BY <1>1, <1>2, DeliverKeeps, SamePath
<1>7. CountIsExact'
  <2>1. CASE openLiterals = <<>>
    BY <2>1, DeliverKeeps DEF CountIsExact
  <2>2. CASE openLiterals # <<>>
    BY <1>1, <1>2, <2>2, DeliverKeeps DEF CountIsExact
  <2> QED BY <2>1, <2>2
<1> QED BY <1>5, <1>6, <1>7

LEMMA ExtractIInv ==
    ASSUME IInv, NEW s \in Expansion!Sites, ExtractLiteral(s), UNCHANGED <<project, run, begun>>
    PROVE  IInv'
<1> USE DEF IInv
<1> DEFINE n == Len(openLiterals)
<1>1. /\ Expansion!Struct(s) /\ Expansion!Base + s.up + 1 <= MaxDepth /\ ~LimitReached
      /\ Count(s) /\ Expansion!Enter(s) /\ UNCHANGED <<cycleRoot, literalWarned>>
  BY DEF ExtractLiteral
<1>2. openLiterals \in Seq(Frame) /\ n \in Nat /\ DOMAIN openLiterals = 1..n
  BY DEF TypeOK
<1>3. /\ openLiterals' \in Seq(Frame) /\ doc' \in Document /\ documented' = documented
      /\ Len(openLiterals') = n + 1 /\ openLiterals'[n + 1].lit = s.lit
      /\ \A i \in DOMAIN openLiterals : LitOf(i)' = LitOf(i)
      /\ \A i \in DOMAIN openLiterals' :
           /\ openLiterals'[i].next \in 1..(Len(Expansion!Kids(LitOf(i)')) + 1)
           /\ openLiterals'[i].at \in DOMAIN doc'
      /\ Expansion!Expansions' = Expansion!Expansions + 1
      /\ openLiterals = <<>> => Expansion!Expansions = 0
  BY <1>1, EnterKeeps
<1>4. s.lit \in Expansion!Lits /\ s.inline /\ ~project.lits[s.lit].marshaler
  BY <1>1, SiteTyped DEF Expansion!Struct, Expansion!Documented
<1>5. /\ literalExtracts' \in 0..MaxExtractions
      /\ literalRoot' \in Expansion!Lits
  <2>1. CASE openLiterals = <<>>
    BY <1>1, <1>4, <2>1, LimitsAssumption DEF Count, OutermostOnly
  <2>2. CASE openLiterals # <<>>
    <3>1. openLiterals[1] \in Frame /\ literalRoot = openLiterals[1].lit
      BY <1>2, <2>2 DEF CountIsExact, LitOf
    <3>2. literalRoot' = literalRoot /\ literalExtracts' = literalExtracts + 1
      BY <1>1, <2>2 DEF Count, OutermostOnly
    <3>3. literalExtracts \in 0..MaxExtractions /\ ~(literalExtracts >= MaxExtractions)
      BY <1>1, <2>2 DEF LimitReached, OutermostOnly, TypeOK
    <3>4. literalRoot' \in Expansion!Lits
      BY <3>1, <3>2 DEF Frame
    <3> QED BY <3>2, <3>3, <3>4, LimitsAssumption
  <2> QED BY <2>1, <2>2
<1>6. \A l : Expansion!Kids(l)' = Expansion!Kids(l)
  BY DEF Expansion!Kids
<1>7. Frame' = Frame /\ Document' = Document /\ Expansion!Lits' = Expansion!Lits
  BY SameReach DEF Frame, Document
<1>8. TypeOK'
  BY <1>1, <1>3, <1>5, <1>6, <1>7 DEF TypeOK, LitOf
<1>9. ClassesAreCycles'
  BY <1>1, SameClasses
<1>10. DOMAIN openLiterals' = 1..(n + 1) /\ LitOf(n + 1) = LitOf(n + 1)
  BY <1>3
<1>11. StackIsPath'
  <2>1. ASSUME NEW i \in DOMAIN openLiterals'
        PROVE  ~project.lits[openLiterals'[i].lit].marshaler
    <3>1. CASE i = n + 1
      BY <1>3, <1>4, <3>1
    <3>2. CASE i \in DOMAIN openLiterals
      BY <1>3, <3>2 DEF StackIsPath, LitOf
    <3> QED BY <1>2, <1>10, <3>1, <3>2
  <2>2. ASSUME NEW i \in DOMAIN openLiterals', NEW j \in DOMAIN openLiterals', i < j
        PROVE  Expansion!Reaches(openLiterals'[i].lit, openLiterals'[j].lit)
    <3>1. CASE j \in DOMAIN openLiterals
      <4>1. i \in DOMAIN openLiterals
        BY <1>2, <1>10, <2>2, <3>1
      <4> QED BY <1>3, <2>2, <3>1, <4>1 DEF StackIsPath, LitOf
    <3>2. CASE j = n + 1
      <4>1. i \in DOMAIN openLiterals /\ openLiterals # <<>> /\ n \in DOMAIN openLiterals
        BY <1>2, <1>10, <2>2, <3>2
      <4>2. s.lit \in Expansion!KidLits(LitOf(n))
        BY <1>4, <4>1, SiteTyped DEF StackIsPath, LitOf
      <4>3. Expansion!Reaches(LitOf(n), s.lit)
        BY <4>2, KidReached
      <4>4. Expansion!Reaches(LitOf(i), s.lit)
        <5>1. CASE i = n
          BY <4>3, <5>1
        <5>2. CASE i < n
          BY <4>1, <4>3, <5>2, ReachesTransitive DEF StackIsPath
        <5> QED BY <1>2, <4>1, <5>1, <5>2
      <4> QED BY <1>3, <3>2, <4>1, <4>4 DEF LitOf
    <3> QED BY <1>2, <1>10, <3>1, <3>2
  <2> QED BY <2>1, <2>2, SameReach DEF StackIsPath, LitOf
<1>12. CountIsExact'
  <2>1. openLiterals' # <<>>
    BY <1>2, <1>3
  <2>2. CASE openLiterals = <<>>
    BY <1>1, <1>2, <1>3, <2>1, <2>2 DEF CountIsExact, Count, OutermostOnly, LitOf
  <2>3. CASE openLiterals # <<>>
    <3>1. 1 \in DOMAIN openLiterals
      BY <1>2, <2>3
    <3> QED BY <1>1, <1>2, <1>3, <2>1, <2>3, <3>1 DEF CountIsExact, Count, OutermostOnly, LitOf
  <2> QED BY <2>2, <2>3
<1> QED BY <1>8, <1>9, <1>11, <1>12

LEMMA CloseCycleIInv ==
    ASSUME IInv, NEW s \in Expansion!Sites, CloseCycle(s), UNCHANGED <<project, run, begun>>
    PROVE  IInv'
<1> USE DEF IInv
<1>1. PICK i \in Closed(s.lit) : Join(s.lit, Joined(s.lit, i))
  BY DEF CloseCycle
<1>2. s.lit \in Expansion!Lits /\ s.inline
  BY SiteTyped DEF CloseCycle, Expansion!Struct, Expansion!Documented
<1>3. openLiterals \in Seq(Frame) /\ i \in DOMAIN openLiterals /\ openLiterals # <<>>
  BY DEF TypeOK, Closed
<1>4. ASSUME NEW k \in DOMAIN openLiterals
      PROVE  LitOf(k) \in Expansion!Lits
  <2>1. openLiterals[k] \in Frame
    BY <1>3
  <2> QED BY <2>1 DEF LitOf, Frame
<1>5. s.lit \in Expansion!KidLits(LitOf(Len(openLiterals)))
  BY <1>2, <1>3, SiteTyped DEF StackIsPath, LitOf
<1>6. Expansion!OnOneCycle(LitOf(i), s.lit)
  <2>1. cycleRoot[LitOf(i)] = cycleRoot[s.lit]
    BY DEF Closed, LitOf
  <2> QED BY <1>2, <1>3, <1>4, <2>1, CycleSymmetric, CycleTransitive DEF ClassesAreCycles
<1>7. ASSUME NEW k \in Joined(s.lit, i)
      PROVE  k \in Expansion!Lits /\ Expansion!OnOneCycle(k, s.lit)
  <2>1. PICK j \in DOMAIN openLiterals : j > i /\ k = LitOf(j)
    BY DEF Joined, LitOf
  <2> QED BY <1>3, <1>4, <1>5, <1>6, <2>1, PathClosed
<1>8. cycleRoot \in [Expansion!Lits -> Expansion!Lits]
  BY DEF TypeOK
<1> DEFINE joining == {cycleRoot[k] : k \in Joined(s.lit, i)}
<1>9. cycleRoot' = [m \in Expansion!Lits |->
                      IF cycleRoot[m] \in joining THEN cycleRoot[s.lit] ELSE cycleRoot[m]]
  BY <1>1, <1>8 DEF Join
<1>10. cycleRoot' \in [Expansion!Lits -> Expansion!Lits]
  BY <1>2, <1>8, <1>9
<1>11. ASSUME NEW m \in Expansion!Lits
       PROVE  Expansion!OnOneCycle(m, cycleRoot'[m])
  <2>1. Expansion!OnOneCycle(m, cycleRoot[m])
    BY DEF ClassesAreCycles
  <2>2. CASE cycleRoot[m] \in joining
    <3>1. PICK k \in Joined(s.lit, i) : cycleRoot[m] = cycleRoot[k]
      BY <2>2
    <3>2. Expansion!OnOneCycle(k, cycleRoot[k]) /\ Expansion!OnOneCycle(k, s.lit)
      BY <1>7 DEF ClassesAreCycles
    <3>3. Expansion!OnOneCycle(s.lit, cycleRoot[s.lit])
      BY <1>2 DEF ClassesAreCycles
    <3>4. Expansion!OnOneCycle(m, s.lit)
      BY <2>1, <3>1, <3>2, CycleSymmetric, CycleTransitive
    <3>5. Expansion!OnOneCycle(m, cycleRoot[s.lit])
      BY <3>3, <3>4, CycleTransitive
    <3> QED BY <1>9, <2>2, <3>5
  <2>3. CASE cycleRoot[m] \notin joining
    BY <1>9, <2>1, <2>3
  <2> QED BY <2>2, <2>3
<1>12. ClassesAreCycles'
  BY <1>11, SameReach DEF ClassesAreCycles
<1> QED BY <1>10, <1>12, DeliverIInv DEF CloseCycle, Outcome, TypeOK

LEMMA CloseLiteralIInv ==
    ASSUME IInv, CloseLiteral, UNCHANGED <<project, run, begun>>
    PROVE  IInv'
<1> USE DEF IInv
<1> DEFINE n == Len(openLiterals)
<1>1. openLiterals \in Seq(Frame) /\ openLiterals # <<>> /\ n \in Nat \ {0}
  BY DEF TypeOK, CloseLiteral
<1>2. /\ Expansion!Finish /\ UNCHANGED <<literalExtracts, literalRoot, literalWarned>>
      /\ cycleRoot' = IF n = 1 THEN Identity ELSE cycleRoot
  BY DEF CloseLiteral, Forget
<1>3. \A l : Expansion!Kids(l)' = Expansion!Kids(l)
  BY DEF Expansion!Kids
<1>4. Frame' = Frame /\ Document' = Document /\ Expansion!Lits' = Expansion!Lits
  BY SameReach DEF Frame, Document
<1>5. CASE n = 1
  <2>1. /\ openLiterals' = <<>> /\ doc' = <<>> /\ cycleRoot' = Identity
        /\ documented' = Append(documented, [root |-> openLiterals[1].site, doc |-> doc])
    BY <1>2, <1>5 DEF Expansion!Finish
  <2>2. [root |-> openLiterals[1].site, doc |-> doc] \in [root : Expansion!Site, doc : Document]
    <3>1. openLiterals[1] \in Frame
      BY <1>1
    <3> QED BY <3>1 DEF TypeOK, Frame
  <2>3. documented' \in Seq([root : Expansion!Site, doc : Document])
    BY <2>1, <2>2 DEF TypeOK
  <2>4. cycleRoot' \in [Expansion!Lits -> Expansion!Lits]
        /\ \A l \in Expansion!Lits : cycleRoot'[l] = l
    BY <2>1 DEF Identity
  <2>5. doc' \in Document
    BY <2>1 DEF Document
  <2>6. TypeOK'
    BY <1>2, <1>3, <1>4, <2>1, <2>3, <2>4, <2>5 DEF TypeOK
  <2>7. ClassesAreCycles'
    BY <2>4, SameReach DEF ClassesAreCycles, Expansion!OnOneCycle
  <2>8. StackIsPath' /\ CountIsExact'
    BY <2>1 DEF StackIsPath, CountIsExact
  <2> QED BY <2>6, <2>7, <2>8
<1>6. CASE n # 1
  <2>1. /\ openLiterals' = SubSeq(openLiterals, 1, n - 1) /\ UNCHANGED <<doc, documented, cycleRoot>>
    BY <1>2, <1>6 DEF Expansion!Finish
  <2>2. /\ openLiterals' \in Seq(Frame) /\ Len(openLiterals') = n - 1
        /\ \A i \in 1..(n - 1) : openLiterals'[i] = openLiterals[i]
    <3>1. ASSUME NEW i \in 1..(n - 1)
          PROVE  openLiterals[i] \in Frame
      BY <1>1
    <3>2. \A i \in 1..(n - 1) : openLiterals[i] \in Frame
      BY <3>1
    <3>3. n \in Nat /\ n >= 2
      <4> HIDE DEF n
      <4> QED BY <1>1, <1>6
    <3> HIDE DEF n
    <3>4. /\ SubSeq(openLiterals, 1, n - 1) \in Seq(Frame)
          /\ Len(SubSeq(openLiterals, 1, n - 1)) = n - 1
          /\ \A i \in 1..(n - 1) : SubSeq(openLiterals, 1, n - 1)[i] = openLiterals[i]
      BY <3>2, <3>3, SubSeqProperties
    <3> QED BY <2>1, <3>4
  <2>3. DOMAIN openLiterals' = 1..(n - 1) /\ DOMAIN openLiterals = 1..n
    BY <1>1, <2>2
  <2>4. TypeOK'
    BY <1>1, <1>2, <1>3, <1>4, <2>1, <2>2, <2>3 DEF TypeOK
  <2>5. ClassesAreCycles'
    BY <2>1, SameClasses
  <2>6. StackIsPath'
    BY <1>1, <2>2, <2>3, SamePath DEF LitOf
  <2>7. CountIsExact'
    <3>1. openLiterals' # <<>> /\ 1 \in 1..(n - 1)
      BY <1>1, <1>6, <2>2
    <3>2. Expansion!Expansions' = Expansion!Expansions
      BY <2>1 DEF Expansion!Expansions
    <3> QED BY <1>1, <1>2, <2>2, <3>1, <3>2 DEF CountIsExact, LitOf
  <2> QED BY <2>4, <2>5, <2>6, <2>7
<1> QED BY <1>5, <1>6

LEMMA AnalyzeAgainIInv ==
    ASSUME IInv, AnalyzeAgain
    PROVE  IInv'
<1> USE DEF IInv
<1>1. /\ openLiterals = <<>> /\ openLiterals' = <<>> /\ cycleRoot' = Identity
      /\ literalExtracts' = 0 /\ literalRoot' = 0 /\ literalWarned' = <<>>
      /\ run < MaxRuns /\ run' = run + 1 /\ begun' = Len(documented)
      /\ UNCHANGED <<project, doc, documented>>
  BY DEF AnalyzeAgain, Reset, OutermostOnly
<1>2. Document' = Document /\ Expansion!Lits' = Expansion!Lits
  BY <1>1, SameReach DEF Document
<1>3. cycleRoot' \in [Expansion!Lits -> Expansion!Lits]
      /\ \A l \in Expansion!Lits : cycleRoot'[l] = l
  BY <1>1 DEF Identity
<1>4. run' \in 1..MaxRuns /\ begun' \in Nat
  BY <1>1, LimitsAssumption DEF TypeOK
<1>5. TypeOK'
  BY <1>1, <1>2, <1>3, <1>4, LimitsAssumption DEF TypeOK
<1>6. ClassesAreCycles'
  BY <1>1, <1>3, SameReach DEF ClassesAreCycles, Expansion!OnOneCycle
<1>7. StackIsPath' /\ CountIsExact'
  BY <1>1 DEF StackIsPath, CountIsExact
<1> QED BY <1>1, <1>5, <1>6, <1>7

LEMMA NextIInv == IInv /\ [Next]_vars => IInv'
<1> SUFFICES ASSUME IInv, [Next]_vars PROVE IInv'
  OBVIOUS
<1> USE DEF IInv
<1>1. ASSUME NEW s \in Expansion!Sites, NEW how \in Outcome \ {"struct"},
             Expansion!Deliver(s, how), unchangedCycles, UNCHANGED <<project, run, begun>>,
             literalWarned' \in {<<>>} \cup {<<l>> : l \in Expansion!Lits}
      PROVE  IInv'
  <2>1. cycleRoot' \in [Expansion!Lits -> Expansion!Lits] /\ ClassesAreCycles'
    BY <1>1, SameClasses DEF unchangedCycles, TypeOK
  <2>2. UNCHANGED <<literalExtracts, literalRoot>>
    BY <1>1 DEF unchangedCycles
  <2> QED BY <1>1, <2>1, <2>2, DeliverIInv
<1>2. literalWarned \in {<<>>} \cup {<<l>> : l \in Expansion!Lits}
  BY DEF TypeOK
<1>3. CASE CloseLiteral /\ UNCHANGED <<project, run, begun>>
  BY <1>3, CloseLiteralIInv
<1>4. ASSUME NEW s \in Expansion!Sites, Resolve(s), UNCHANGED <<project, run, begun>>
      PROVE  IInv'
  <2>1. CASE Lose(s)
    BY <1>1, <1>2, <1>4, <2>1 DEF Lose, Expansion!Lose, Outcome
  <2>2. CASE LeaveBare(s)
    BY <1>1, <1>2, <1>4, <2>2 DEF LeaveBare, Expansion!LeaveBare, Outcome
  <2>3. CASE MarshalerLeaf(s)
    BY <1>1, <1>2, <1>4, <2>3 DEF MarshalerLeaf, Expansion!Leaf, Outcome
  <2>4. CASE CloseCycle(s)
    BY <1>4, <2>4, CloseCycleIInv
  <2>5. CASE CutAtDepth(s)
    BY <1>1, <1>2, <1>4, <2>5 DEF CutAtDepth, Outcome
  <2>6. CASE CutAtLimit(s)
    <3>1. literalRoot \in Expansion!Lits
      <4>1. openLiterals # <<>> /\ openLiterals \in Seq(Frame)
        BY <2>6 DEF CutAtLimit, LimitReached, OutermostOnly, TypeOK
      <4>2. openLiterals[1] \in Frame /\ literalRoot = openLiterals[1].lit
        BY <4>1 DEF CountIsExact, LitOf
      <4> QED BY <4>2 DEF Frame
    <3>2. literalWarned' \in {<<>>} \cup {<<l>> : l \in Expansion!Lits}
      BY <1>2, <2>6, <3>1 DEF CutAtLimit
    <3> QED BY <1>1, <1>4, <2>6, <3>2 DEF CutAtLimit, Outcome
  <2>7. CASE ExtractLiteral(s)
    BY <1>4, <2>7, ExtractIInv
  <2> QED BY <1>4, <2>1, <2>2, <2>3, <2>4, <2>5, <2>6, <2>7 DEF Resolve
<1>5. CASE AnalyzeAgain
  BY <1>5, AnalyzeAgainIInv
<1>6. CASE UNCHANGED vars
  <2>1. UNCHANGED <<project, openLiterals, doc, documented>>
    BY <1>6 DEF vars
  <2>2. Frame' = Frame /\ Document' = Document /\ Expansion!Lits' = Expansion!Lits
    BY <2>1, SameReach DEF Frame, Document
  <2>3. Expansion!Expansions' = Expansion!Expansions
    BY <2>1 DEF Expansion!Expansions
  <2>4. \A l : Expansion!Kids(l)' = Expansion!Kids(l)
    BY <2>1 DEF Expansion!Kids
  <2>5. TypeOK'
    BY <1>6, <2>2, <2>4 DEF TypeOK, vars
  <2>6. ClassesAreCycles'
    BY <1>6, SameClasses DEF vars
  <2>7. StackIsPath'
    BY <2>1, SameReach DEF StackIsPath, LitOf
  <2>8. CountIsExact'
    BY <1>6, <2>3 DEF CountIsExact, LitOf, vars
  <2> QED BY <2>1, <2>5, <2>6, <2>7, <2>8
<1> QED BY <1>3, <1>4, <1>5, <1>6 DEF Next, Done

-----------------------------------------------------------------------------
(* The theorems. *)

\* The inductive invariant holds whatever the literals and the limits.
THEOREM LiteralInvariant == Spec => []IInv
<1> QED BY InitIInv, NextIInv, PTL DEF Spec

\* Frames, classes, counters and documents keep their types.
THEOREM TypeCorrect == Spec => []TypeOK
<1>1. IInv => TypeOK
  BY DEF IInv
<1> QED BY <1>1, LiteralInvariant, PTL

\* No class ever joins literals that lie on different cycles
\* (joinLiteralCycle), so none is cut as recursive that no cycle holds.
THEOREM ClassesHoldCycles == Spec => []ClassesAreCycles
<1>1. IInv => ClassesAreCycles
  BY DEF IInv
<1> QED BY <1>1, LiteralInvariant, PTL

\* Each step is one that LiteralExpansion allows, or leaves its state.
LEMMA StepImplemented ==
    ASSUME IInv, [Next]_vars
    PROVE  [Expansion!Next]_(Expansion!vars)
<1> USE DEF IInv
<1>1. CASE CloseLiteral /\ UNCHANGED <<project, run, begun>>
  BY <1>1 DEF CloseLiteral, Expansion!Next, Expansion!Close
<1>2. ASSUME NEW s \in Expansion!Sites, Resolve(s), UNCHANGED <<project, run, begun>>
      PROVE  Expansion!Next
  <2>1. CASE Lose(s)
    BY <1>2, <2>1 DEF Lose, Expansion!Next
  <2>2. CASE LeaveBare(s)
    BY <1>2, <2>2 DEF LeaveBare, Expansion!Next
  <2>3. CASE MarshalerLeaf(s)
    BY <1>2, <2>3 DEF MarshalerLeaf, Expansion!Next
  <2>4. CASE CloseCycle(s)
    <3>1. s.lit \in Expansion!Lits
      BY SiteTyped
    <3>2. PICK i \in DOMAIN openLiterals : cycleRoot[LitOf(i)] = cycleRoot[s.lit]
      BY <2>4 DEF CloseCycle, Closed, LitOf
    <3>3. openLiterals[i] \in Frame
      BY DEF TypeOK
    <3>4. LitOf(i) \in Expansion!Lits
      BY <3>3 DEF LitOf, Frame
    <3>5. Expansion!OnOneCycle(LitOf(i), s.lit)
      BY <3>1, <3>2, <3>4, CycleSymmetric, CycleTransitive DEF ClassesAreCycles
    <3> QED BY <1>2, <2>4, <3>5 DEF CloseCycle, Expansion!Cut, Expansion!Next, LitOf
  <2>5. Expansion!Base \in Nat /\ s.up \in Nat
    <3>1. s.up \in Nat
      BY SiteTyped DEF Expansion!Site
    <3>2. CASE openLiterals = <<>>
      BY <3>1, <3>2 DEF Expansion!Base
    <3>3. CASE openLiterals # <<>>
      <4>1. openLiterals[Len(openLiterals)] \in Frame
        BY <3>3 DEF TypeOK
      <4> QED BY <3>1, <3>3, <4>1, LimitsAssumption DEF Expansion!Base, Expansion!Top, Frame
    <3> QED BY <3>2, <3>3
  <2>6. CASE CutAtDepth(s)
    <3>1. Expansion!Base + s.up = MaxDepth
      BY <2>5, <2>6, LimitsAssumption DEF CutAtDepth, Expansion!Struct, Expansion!Documented
    <3> QED BY <1>2, <2>6, <3>1 DEF CutAtDepth, Expansion!CutAtDepth, Expansion!Next
  <2>7. CASE CutAtLimit(s)
    <3>1. Expansion!Expansions >= MaxExtractions
      BY <2>7 DEF CutAtLimit, LimitReached, OutermostOnly, CountIsExact
    <3> QED BY <1>2, <2>7, <3>1 DEF CutAtLimit, Expansion!CutAtLimit, Expansion!Next
  <2>8. CASE ExtractLiteral(s)
    <3>1. \A i \in DOMAIN openLiterals : openLiterals[i].lit # s.lit
      BY <2>8 DEF ExtractLiteral, Closed
    <3>2. Expansion!Base + s.up < MaxDepth
      BY <2>5, <2>8, LimitsAssumption DEF ExtractLiteral
    <3>3. Expansion!Expansions < MaxExtractions
      <4>1. CASE openLiterals = <<>>
        <5>1. doc = <<>>
          BY <4>1 DEF CountIsExact
        <5>2. {j \in DOMAIN doc : doc[j].how = "struct"} = {}
          BY <5>1
        <5>3. Expansion!Expansions = 0
          BY <5>2, CardinalitySame, FS_EmptySet DEF Expansion!Expansions
        <5> QED BY <5>3, LimitsAssumption
      <4>2. CASE openLiterals # <<>>
        BY <2>8, <4>2, LimitsAssumption
           DEF ExtractLiteral, LimitReached, OutermostOnly, CountIsExact, TypeOK
      <4> QED BY <4>1, <4>2
    <3> QED BY <1>2, <2>8, <3>1, <3>2, <3>3 DEF ExtractLiteral, Expansion!Expand, Expansion!Next
  <2> QED BY <1>2, <2>1, <2>2, <2>3, <2>4, <2>6, <2>7, <2>8 DEF Resolve
<1>3. CASE AnalyzeAgain
  BY <1>3 DEF AnalyzeAgain, Reset, OutermostOnly, Expansion!vars
<1>4. CASE UNCHANGED vars
  BY <1>4 DEF vars, Expansion!vars
<1> QED BY <1>1, <1>2, <1>3, <1>4 DEF Next, Done

\* The detailed expansion implements LiteralExpansion: a literal is cut as
\* recursive only on a cycle with an open one, an open one is never expanded
\* again, and no field expands more than maxLiteralExtractions.
THEOREM ExpansionImplemented == Spec => ImplementsExpansion
<1>1. Init => Expansion!Init
  BY ProjectsAssumption DEF Init, Expansion!Init
<1>2. IInv /\ [Next]_vars => [Expansion!Next]_(Expansion!vars)
  BY StepImplemented
<1> QED BY <1>1, <1>2, LiteralInvariant, PTL DEF Spec, ImplementsExpansion, Expansion!Spec

-----------------------------------------------------------------------------
(* A literal of a cycle is expanded once below one that is open. *)

KidsAt(i) == Expansion!Kids(LitOf(i))
Expanded == {doc[j].lit : j \in {j \in DOMAIN doc : doc[j].how = "struct"}}
OpenLits == {LitOf(i) : i \in DOMAIN openLiterals}

\* Whether l's class is all of its cycle.
Complete(l) == \A y \in Expansion!Lits : Expansion!OnOneCycle(l, y) => cycleRoot[y] = cycleRoot[l]

\* Whether all is known of the cycles through a that lead on to k.
Settled(a, k) == cycleRoot[k] = cycleRoot[a] \/ Complete(k)

\* The field of the i-th open literal that is being resolved, or comes next.
Past(i) == IF i = Len(openLiterals) THEN openLiterals[i].next ELSE openLiterals[i].next - 1

\* An open literal is in the field its parent has come to.
OpenedByParent ==
    \A i \in DOMAIN openLiterals : i < Len(openLiterals) =>
        Past(i) \in DOMAIN KidsAt(i) /\ KidsAt(i)[Past(i)].lit = LitOf(i + 1)

\* The open literals of a class stand side by side.
ClassesContiguous ==
    \A i, j, k \in DOMAIN openLiterals :
        i < k /\ k < j /\ cycleRoot[LitOf(i)] = cycleRoot[LitOf(j)] =>
            cycleRoot[LitOf(k)] = cycleRoot[LitOf(j)]

\* What is open, and what is in a class with another, was expanded.
ClassesExpanded ==
    /\ OpenLits \subseteq Expanded
    /\ \A a, b \in Expansion!Lits : a # b /\ cycleRoot[a] = cycleRoot[b] => a \in Expanded

\* The literals of the fields of the i-th open one that were resolved.
PastKids(i) ==
    {KidsAt(i)[m].lit : m \in {m \in DOMAIN KidsAt(i) : m < Past(i) /\ KidsAt(i)[m].inline}}

\* The fields that were resolved of a literal are settled.
KidsSettled ==
    /\ \A l \in Expanded \ OpenLits : \A k \in Expansion!KidLits(l) : Settled(l, k)
    /\ \A i \in DOMAIN openLiterals : \A a \in Expansion!Lits :
         a = LitOf(i) => \A k \in PastKids(i) : Settled(a, k)

\* A literal that was expanded has an open one in its class, or all its cycle.
ExpandedSettled ==
    \A l \in Expanded :
        Complete(l) \/ \E i \in DOMAIN openLiterals : cycleRoot[LitOf(i)] = cycleRoot[l]

\* ExpandedOnce, with names for the two literals.
OnceBelow ==
    Whole(doc) =>
      \A i \in DOMAIN openLiterals : \A j, k \in openLiterals[i].at..Len(doc) :
        \A b, c \in Expansion!Lits :
          (/\ b = LitOf(i) /\ c = doc[j].lit /\ c = doc[k].lit /\ j # k
           /\ doc[j].how = "struct" /\ doc[k].how = "struct") => ~Expansion!OnOneCycle(b, c)

Steady ==
    /\ openLiterals = <<>> => cycleRoot = Identity
    /\ OpenedByParent /\ ClassesContiguous /\ ClassesExpanded
    /\ Whole(doc) => KidsSettled /\ ExpandedSettled
    /\ OnceBelow

OInv == IInv /\ Steady

\* Nothing is open: what holds between two fields.
Fresh == openLiterals = <<>> /\ doc = <<>> /\ cycleRoot = Identity

\* A kid of a literal is a literal.
LEMMA KidIsLiteral ==
    ASSUME project \in Projects, NEW l \in Expansion!Lits
    PROVE  Expansion!KidLits(l) \subseteq Expansion!Lits
BY KidsTyped DEF Expansion!KidLits

\* Classes only grow while a literal is open: what is settled stays so.
LEMMA SettledStays ==
    ASSUME UNCHANGED project,
           \A a, b \in Expansion!Lits : cycleRoot[a] = cycleRoot[b] => cycleRoot'[a] = cycleRoot'[b]
    PROVE  /\ \A l \in Expansion!Lits : Complete(l) => Complete(l)'
           /\ \A a, k \in Expansion!Lits : Settled(a, k) => Settled(a, k)'
<1>1. \A l \in Expansion!Lits : Complete(l) => Complete(l)'
  BY SameReach DEF Complete
<1> QED BY <1>1 DEF Settled

\* A class whose members' kids are all settled is all of its cycle: what its
\* members lead to is in it, or leads back to none of them.
LEMMA ClassComplete ==
    ASSUME project \in Projects, ClassesAreCycles, NEW x \in Expansion!Lits,
           \A z \in Expansion!Lits : cycleRoot[z] = cycleRoot[x] =>
              \A k \in Expansion!KidLits(z) : Settled(z, k)
    PROVE  Complete(x)
<1> DEFINE S == {z \in Expansion!Lits : cycleRoot[z] = cycleRoot[x] \/ ~Expansion!Reaches(z, x)}
<1>1. ASSUME NEW z \in S, NEW k \in Expansion!KidLits(z)
      PROVE  k \in S
  <2>1. k \in Expansion!Lits /\ Expansion!Reaches(z, k)
    BY KidIsLiteral, KidReached
  <2>2. CASE cycleRoot[z] = cycleRoot[x] /\ cycleRoot[k] # cycleRoot[z] /\ Expansion!Reaches(k, x)
    <3>1. Expansion!OnOneCycle(x, z)
      BY <2>2, CycleSymmetric, CycleTransitive DEF ClassesAreCycles
    <3>2. Expansion!Reaches(x, k)
      BY <2>1, <3>1, ReachesTransitive DEF Expansion!OnOneCycle
    <3>3. Expansion!OnOneCycle(k, x)
      BY <2>2, <3>2 DEF Expansion!OnOneCycle
    <3>4. Complete(k)
      BY <2>2 DEF Settled
    <3> QED BY <2>1, <2>2, <3>3, <3>4 DEF Complete
  <2>3. CASE cycleRoot[z] # cycleRoot[x]
    <3>1. ~Expansion!Reaches(k, x)
      BY <2>1, <2>3, ReachesTransitive
    <3> QED BY <2>1, <3>1
  <2> QED BY <2>1, <2>2, <2>3
<1>2. S \in SUBSET Expansion!Lits /\ x \in S
  OBVIOUS
<1> HIDE DEF S
<1>3. \A y : Expansion!Reaches(x, y) => y \in S
  BY <1>1, <1>2 DEF Expansion!Reaches
<1> QED BY <1>3 DEF Complete, Expansion!OnOneCycle, S

\* What no field leads on from is all of its cycle.
LEMMA LeafComplete ==
    ASSUME NEW l, project.lits[l].marshaler
    PROVE  Complete(l)
<1>1. Expansion!KidLits(l) = {}
  BY DEF Expansion!KidLits
<1>2. \A y : ~Expansion!Reaches(l, y)
  BY <1>1 DEF Expansion!Reaches
<1> QED BY <1>2 DEF Complete, Expansion!OnOneCycle

-----------------------------------------------------------------------------
(* Each step, on the frames and the document. *)

LEMMA DeliverEffect ==
    ASSUME IInv, NEW s \in Expansion!Sites, NEW how \in Outcome \ {"struct"},
           Expansion!Deliver(s, how), UNCHANGED project, openLiterals # <<>>,
           NEW n, n = Len(openLiterals)
    PROVE  /\ n \in Nat \ {0} /\ DOMAIN openLiterals = 1..n /\ DOMAIN openLiterals' = 1..n
           /\ Len(openLiterals') = n
           /\ \A i \in 1..n : /\ LitOf(i)' = LitOf(i) /\ openLiterals'[i].at = openLiterals[i].at
                              /\ LitOf(i) \in Expansion!Lits
                              /\ openLiterals[i].at \in Nat \ {0}
                              /\ KidsAt(i) \in Seq(Expansion!Site) /\ Past(i) \in Nat
                              /\ Past(i)' = IF i = n THEN Past(i) + 1 ELSE Past(i)
           /\ Past(n) \in DOMAIN KidsAt(n) /\ s = KidsAt(n)[Past(n)]
           /\ Len(doc) \in Nat /\ Len(doc') = Len(doc) + 1
           /\ DOMAIN doc = 1..Len(doc) /\ DOMAIN doc' = 1..(Len(doc) + 1)
           /\ \A j \in DOMAIN doc : doc'[j] = doc[j]
           /\ doc'[Len(doc) + 1] = [lit |-> s.lit, how |-> how]
<1> USE DEF IInv
<1> DEFINE top == openLiterals[n]
           moved == [top EXCEPT !.next = @ + 1]
           entry == [lit |-> s.lit, how |-> how]
<1>1. /\ openLiterals \in Seq(Frame) /\ doc \in Seq([lit : Expansion!Lits, how : Outcome])
      /\ n \in Nat \ {0} /\ DOMAIN openLiterals = 1..n
  BY DEF TypeOK, Document
<1>2. \A i \in 1..n : openLiterals[i] \in Frame
  BY <1>1
<1>3. openLiterals' = [openLiterals EXCEPT ![n] = moved] /\ doc' = Append(doc, entry)
  BY DEF Expansion!Deliver, Expansion!Advanced
<1>4. top \in Frame
  BY <1>1, <1>2
<1>5. moved \in Frame /\ moved.lit = top.lit /\ moved.at = top.at /\ moved.next = top.next + 1
  BY <1>4 DEF Frame
<1> HIDE DEF moved, entry
<1>6. /\ DOMAIN openLiterals' = 1..n /\ Len(openLiterals') = n
      /\ openLiterals'[n] = moved
      /\ \A i \in 1..n : i # n => openLiterals'[i] = openLiterals[i]
  BY <1>1, <1>3, <1>5
<1>7. ASSUME NEW i \in 1..n
      PROVE  /\ LitOf(i)' = LitOf(i) /\ openLiterals'[i].at = openLiterals[i].at
             /\ LitOf(i) \in Expansion!Lits /\ openLiterals[i].at \in Nat \ {0}
             /\ KidsAt(i) \in Seq(Expansion!Site)
             /\ openLiterals[i].next \in Nat \ {0}
             /\ openLiterals'[i].next = IF i = n THEN openLiterals[i].next + 1 ELSE openLiterals[i].next
  <2>1. openLiterals[i].lit \in Expansion!Lits
    BY <1>2 DEF Frame
  <2>2. openLiterals[i].at \in DOMAIN doc
        /\ openLiterals[i].next \in 1..(Len(Expansion!Kids(openLiterals[i].lit)) + 1)
    BY <1>1 DEF TypeOK
  <2>3. KidsAt(i) \in Seq(Expansion!Site)
    BY <2>1, KidsTyped DEF KidsAt, LitOf
  <2>4. openLiterals[i].next \in Nat \ {0}
    BY <2>2, <2>3 DEF KidsAt, LitOf
  <2>5. openLiterals[i].at \in Nat \ {0}
    BY <1>1, <2>2
  <2>6. CASE i = n
    BY <1>5, <1>6, <2>1, <2>3, <2>4, <2>5, <2>6 DEF LitOf
  <2>7. CASE i # n
    BY <1>6, <2>1, <2>3, <2>4, <2>5, <2>7 DEF LitOf
  <2> QED BY <2>6, <2>7
<1>8. Past(n) \in DOMAIN KidsAt(n) /\ s = KidsAt(n)[Past(n)]
  <2>1. openLiterals[n].next \in 1..Len(KidsAt(n))
    BY <1>1, SiteTyped DEF KidsAt, LitOf
  <2>2. s = KidsAt(n)[openLiterals[n].next]
    BY DEF Expansion!Sites, Expansion!Top, KidsAt, LitOf
  <2>3. Past(n) = openLiterals[n].next
    BY DEF Past
  <2>4. n \in 1..n
    BY <1>1
  <2>5. KidsAt(n) \in Seq(Expansion!Site)
    BY <1>7, <2>4
  <2> QED BY <2>1, <2>2, <2>3, <2>5
<1>9. /\ Len(doc) \in Nat /\ Len(doc') = Len(doc) + 1
      /\ DOMAIN doc = 1..Len(doc) /\ DOMAIN doc' = 1..(Len(doc) + 1)
      /\ \A j \in DOMAIN doc : doc'[j] = doc[j]
      /\ doc'[Len(doc) + 1] = entry
  BY <1>1, <1>3
<1>10. ASSUME NEW i \in 1..n
       PROVE  Past(i) \in Nat /\ Past(i)' = IF i = n THEN Past(i) + 1 ELSE Past(i)
  <2>1. openLiterals[i].next \in Nat \ {0}
        /\ openLiterals'[i].next = IF i = n THEN openLiterals[i].next + 1 ELSE openLiterals[i].next
    BY <1>7
  <2>2. Past(i) = IF i = n THEN openLiterals[i].next ELSE openLiterals[i].next - 1
    BY DEF Past
  <2>3. Past(i)' = IF i = n THEN openLiterals'[i].next ELSE openLiterals'[i].next - 1
    BY <1>6 DEF Past
  <2> QED BY <2>1, <2>2, <2>3
<1> QED BY <1>1, <1>6, <1>7, <1>8, <1>9, <1>10 DEF entry

LEMMA EnterEffect ==
    ASSUME IInv, NEW s \in Expansion!Sites, Expansion!Struct(s),
           Expansion!Base + s.up + 1 <= MaxDepth, Expansion!Enter(s), UNCHANGED project,
           NEW n, n = Len(openLiterals)
    PROVE  /\ n \in Nat /\ DOMAIN openLiterals = 1..n /\ DOMAIN openLiterals' = 1..(n + 1)
           /\ Len(openLiterals') = n + 1
           /\ \A i \in 1..n : /\ LitOf(i)' = LitOf(i) /\ openLiterals'[i].at = openLiterals[i].at
                              /\ LitOf(i) \in Expansion!Lits
                              /\ Past(i) \in Nat /\ Past(i)' = Past(i)
           /\ n # 0 => Past(n) \in DOMAIN KidsAt(n) /\ s = KidsAt(n)[Past(n)]
           /\ LitOf(n + 1)' = s.lit /\ Past(n + 1)' = 1
           /\ openLiterals'[n + 1].at = Len(doc) + 1
           /\ Len(doc) \in Nat /\ Len(doc') = Len(doc) + 1
           /\ DOMAIN doc = 1..Len(doc) /\ DOMAIN doc' = 1..(Len(doc) + 1)
           /\ \A j \in DOMAIN doc : doc'[j] = doc[j]
           /\ doc'[Len(doc) + 1] = [lit |-> s.lit, how |-> "struct"]
<1> USE DEF IInv
<1> DEFINE top == openLiterals[n]
           moved == [top EXCEPT !.next = @ + 1]
           entry == [lit |-> s.lit, how |-> "struct"]
           below == IF openLiterals = <<>> THEN <<>> ELSE Expansion!Advanced
           frame == [lit |-> s.lit, depth |-> Expansion!Base + s.up + 1, next |-> 1, site |-> s,
                     at |-> Len(doc) + 1]
<1>1. /\ openLiterals \in Seq(Frame) /\ doc \in Seq([lit : Expansion!Lits, how : Outcome])
      /\ n \in Nat /\ DOMAIN openLiterals = 1..n /\ openLiterals' \in Seq(Frame)
      /\ Len(openLiterals') = n + 1
  BY EnterKeeps DEF TypeOK, Document
<1>2. \A i \in 1..n : openLiterals[i] \in Frame
  BY <1>1
<1>3. openLiterals' = Append(below, frame) /\ doc' = Append(doc, entry)
  BY DEF Expansion!Enter
<1>4. frame.lit = s.lit /\ frame.next = 1 /\ frame.at = Len(doc) + 1
  OBVIOUS
<1>5. ASSUME n # 0
      PROVE  /\ moved \in Frame /\ moved.lit = top.lit /\ moved.at = top.at
             /\ moved.next = top.next + 1
             /\ below = [openLiterals EXCEPT ![n] = moved]
  <2>1. top \in Frame /\ openLiterals # <<>>
    BY <1>1, <1>2, <1>5
  <2>2. below = [openLiterals EXCEPT ![n] = moved]
    BY <2>1 DEF Expansion!Advanced
  <2> QED BY <2>1, <2>2 DEF Frame
<1> HIDE DEF moved, entry, frame, below
<1>6. below \in Seq(Frame) /\ Len(below) = n
  <2>1. CASE n = 0
    <3>1. openLiterals = <<>>
      BY <1>1, <2>1
    <3> QED BY <2>1, <3>1 DEF below
  <2>2. CASE n # 0
    BY <1>1, <1>5, <2>2
  <2> QED BY <2>1, <2>2
<1>7. /\ DOMAIN openLiterals' = 1..(n + 1)
      /\ openLiterals'[n + 1] = frame
      /\ \A i \in 1..n : openLiterals'[i] = below[i]
      /\ \A i \in 1..n : below[i] = IF i = n THEN moved ELSE openLiterals[i]
  <2>1. /\ DOMAIN openLiterals' = 1..(n + 1) /\ openLiterals'[n + 1] = frame
        /\ \A i \in 1..n : openLiterals'[i] = below[i]
    BY <1>1, <1>3, <1>6
  <2>2. ASSUME NEW i \in 1..n
        PROVE  below[i] = IF i = n THEN moved ELSE openLiterals[i]
    <3>1. n # 0
      BY <1>1
    <3>2. below = [openLiterals EXCEPT ![n] = moved]
      BY <1>5, <3>1
    <3> QED BY <1>1, <3>2
  <2> QED BY <2>1, <2>2
<1>8. ASSUME NEW i \in 1..n
      PROVE  /\ LitOf(i)' = LitOf(i) /\ openLiterals'[i].at = openLiterals[i].at
             /\ LitOf(i) \in Expansion!Lits
             /\ openLiterals[i].next \in Nat \ {0} /\ KidsAt(i) \in Seq(Expansion!Site)
             /\ openLiterals'[i].next = IF i = n THEN openLiterals[i].next + 1 ELSE openLiterals[i].next
  <2>1. openLiterals[i].lit \in Expansion!Lits
    BY <1>2 DEF Frame
  <2>2. KidsAt(i) \in Seq(Expansion!Site)
    BY <2>1, KidsTyped DEF KidsAt, LitOf
  <2>3. openLiterals[i].next \in 1..(Len(Expansion!Kids(openLiterals[i].lit)) + 1)
    BY <1>1 DEF TypeOK
  <2>4. openLiterals[i].next \in Nat \ {0}
    BY <2>2, <2>3 DEF KidsAt, LitOf
  <2>5. openLiterals'[i] = IF i = n THEN moved ELSE openLiterals[i]
    BY <1>7
  <2>6. n # 0
    BY <1>1
  <2>7. CASE i = n
    BY <1>5, <2>1, <2>2, <2>4, <2>5, <2>6, <2>7 DEF LitOf
  <2>8. CASE i # n
    BY <2>1, <2>2, <2>4, <2>5, <2>8 DEF LitOf
  <2> QED BY <2>7, <2>8
<1>9. ASSUME n # 0
      PROVE  Past(n) \in DOMAIN KidsAt(n) /\ s = KidsAt(n)[Past(n)]
  <2>1. openLiterals # <<>>
    BY <1>1, <1>9
  <2>2. openLiterals[n].next \in 1..Len(KidsAt(n))
    BY <2>1, SiteTyped DEF KidsAt, LitOf
  <2>3. s = KidsAt(n)[openLiterals[n].next]
    BY <2>1 DEF Expansion!Sites, Expansion!Top, KidsAt, LitOf
  <2>4. n \in 1..n
    BY <1>1, <1>9
  <2>5. KidsAt(n) \in Seq(Expansion!Site)
    BY <1>8, <2>4
  <2>6. Past(n) = openLiterals[n].next
    BY DEF Past
  <2> QED BY <2>2, <2>3, <2>5, <2>6
<1>10. ASSUME NEW i \in 1..n
       PROVE  Past(i) \in Nat /\ Past(i)' = Past(i)
  <2>1. openLiterals[i].next \in Nat \ {0}
        /\ openLiterals'[i].next = IF i = n THEN openLiterals[i].next + 1 ELSE openLiterals[i].next
    BY <1>8
  <2>2. Past(i) = IF i = n THEN openLiterals[i].next ELSE openLiterals[i].next - 1
    BY DEF Past
  <2>3. Past(i)' = IF i = n + 1 THEN openLiterals'[i].next ELSE openLiterals'[i].next - 1
    BY <1>1 DEF Past
  <2>4. n \in Nat
    BY <1>1
  <2> QED BY <2>1, <2>2, <2>3, <2>4
<1>11. LitOf(n + 1)' = s.lit /\ Past(n + 1)' = 1 /\ openLiterals'[n + 1].at = Len(doc) + 1
  <2>1. openLiterals'[n + 1] = frame
    BY <1>7
  <2>2. LitOf(n + 1)' = openLiterals'[n + 1].lit
    BY DEF LitOf
  <2>3. Past(n + 1)' = openLiterals'[n + 1].next
    BY <1>1 DEF Past
  <2> QED BY <1>4, <2>1, <2>2, <2>3
<1>12. /\ Len(doc) \in Nat /\ Len(doc') = Len(doc) + 1
       /\ DOMAIN doc = 1..Len(doc) /\ DOMAIN doc' = 1..(Len(doc) + 1)
       /\ \A j \in DOMAIN doc : doc'[j] = doc[j]
       /\ doc'[Len(doc) + 1] = entry
  BY <1>1, <1>3
<1> QED BY <1>1, <1>7, <1>8, <1>9, <1>10, <1>11, <1>12 DEF entry

\* The innermost literal's fields are all resolved.
LEMMA CloseEffect ==
    ASSUME IInv, CloseLiteral, UNCHANGED project, Len(openLiterals) # 1,
           NEW n, n = Len(openLiterals)
    PROVE  /\ n \in Nat /\ n - 1 \in Nat \ {0}
           /\ DOMAIN openLiterals = 1..n /\ DOMAIN openLiterals' = 1..(n - 1)
           /\ Len(openLiterals') = n - 1 /\ UNCHANGED <<doc, cycleRoot>>
           /\ \A i \in 1..(n - 1) : openLiterals'[i] = openLiterals[i]
           /\ \A i \in 1..n : /\ LitOf(i) \in Expansion!Lits /\ Past(i) \in Nat
                              /\ KidsAt(i) \in Seq(Expansion!Site)
           /\ \A i \in 1..(n - 1) : Past(i)' = IF i = n - 1 THEN Past(i) + 1 ELSE Past(i)
           /\ \A m \in DOMAIN KidsAt(n) : m < Past(n)
<1> USE DEF IInv
<1>1. /\ openLiterals \in Seq(Frame) /\ openLiterals # <<>> /\ n \in Nat \ {0, 1}
      /\ DOMAIN openLiterals = 1..n
  BY DEF TypeOK, CloseLiteral
<1>2. openLiterals' = SubSeq(openLiterals, 1, n - 1) /\ UNCHANGED <<doc, cycleRoot>>
  BY DEF CloseLiteral, Forget, Expansion!Finish
<1>3. /\ DOMAIN openLiterals' = 1..(n - 1) /\ Len(openLiterals') = n - 1
      /\ \A i \in 1..(n - 1) : openLiterals'[i] = openLiterals[i]
  <2>1. \A i \in 1..(n - 1) : openLiterals[i] \in Frame
    BY <1>1
  <2>2. n \in Nat /\ n >= 2
    BY <1>1
  <2>3. /\ SubSeq(openLiterals, 1, n - 1) \in Seq(Frame)
        /\ Len(SubSeq(openLiterals, 1, n - 1)) = n - 1
        /\ \A i \in 1..(n - 1) : SubSeq(openLiterals, 1, n - 1)[i] = openLiterals[i]
    BY <2>1, <2>2, SubSeqProperties
  <2> QED BY <1>2, <2>2, <2>3
<1>4. ASSUME NEW i \in 1..n
      PROVE  /\ LitOf(i) \in Expansion!Lits /\ KidsAt(i) \in Seq(Expansion!Site)
             /\ openLiterals[i].next \in Nat \ {0}
  <2>1. openLiterals[i] \in Frame
    BY <1>1
  <2>2. openLiterals[i].lit \in Expansion!Lits
    BY <2>1 DEF Frame
  <2>3. KidsAt(i) \in Seq(Expansion!Site)
    BY <2>2, KidsTyped DEF KidsAt, LitOf
  <2>4. openLiterals[i].next \in 1..(Len(Expansion!Kids(openLiterals[i].lit)) + 1)
    BY <1>1 DEF TypeOK
  <2> QED BY <2>2, <2>3, <2>4 DEF LitOf, KidsAt
<1>5. \A i \in 1..n : Past(i) = IF i = n THEN openLiterals[i].next ELSE openLiterals[i].next - 1
  BY DEF Past
<1>6. \A i \in 1..(n - 1) :
         Past(i)' = IF i = n - 1 THEN openLiterals'[i].next ELSE openLiterals'[i].next - 1
  BY <1>3 DEF Past
<1>7. \A m \in DOMAIN KidsAt(n) : m < Past(n)
  <2>1. ~(openLiterals[n].next <= Len(KidsAt(n)))
    BY <1>1 DEF CloseLiteral, Expansion!Sites, Expansion!Top, KidsAt, LitOf
  <2>2. n \in 1..n
    BY <1>1
  <2>3. KidsAt(n) \in Seq(Expansion!Site) /\ openLiterals[n].next \in Nat
    BY <1>4, <2>2
  <2>4. Past(n) = openLiterals[n].next
    BY DEF Past
  <2> QED BY <2>1, <2>3, <2>4
<1>8. \A i \in 1..n : Past(i) \in Nat
  BY <1>1, <1>4, <1>5
<1>9. \A i \in 1..(n - 1) : Past(i)' = IF i = n - 1 THEN Past(i) + 1 ELSE Past(i)
  <2> SUFFICES ASSUME NEW i \in 1..(n - 1)
               PROVE  Past(i)' = IF i = n - 1 THEN Past(i) + 1 ELSE Past(i)
    OBVIOUS
  <2>1. i \in 1..n /\ i # n /\ openLiterals'[i] = openLiterals[i]
    BY <1>1, <1>3
  <2>2. openLiterals[i].next \in Nat \ {0} /\ Past(i) = openLiterals[i].next - 1
    BY <1>4, <1>5, <2>1
  <2> QED BY <1>6, <2>1, <2>2
<1> QED BY <1>1, <1>2, <1>3, <1>4, <1>7, <1>8, <1>9

-----------------------------------------------------------------------------
(* Each step leaves the open literals steady. *)

LEMMA FreshSteady == Fresh => Steady
<1> SUFFICES ASSUME Fresh
             PROVE  Steady
  OBVIOUS
<1>1. DOMAIN openLiterals = {} /\ DOMAIN doc = {} /\ cycleRoot = Identity
  BY DEF Fresh
<1>2. Expanded = {} /\ OpenLits = {}
  BY <1>1 DEF Expanded, OpenLits
<1>3. OpenedByParent /\ ClassesContiguous /\ OnceBelow
  BY <1>1 DEF OpenedByParent, ClassesContiguous, OnceBelow
<1>4. ClassesExpanded
  BY <1>1, <1>2 DEF ClassesExpanded, Identity
<1>5. KidsSettled /\ ExpandedSettled
  BY <1>1, <1>2 DEF KidsSettled, ExpandedSettled
<1> QED BY <1>1, <1>3, <1>4, <1>5 DEF Steady

\* What was expanded is a literal of the project.
LEMMA ExpandedTyped ==
    ASSUME TypeOK
    PROVE  Expanded \subseteq Expansion!Lits
<1> DEFINE Entry == [lit : Expansion!Lits, how : Outcome]
<1>1. doc \in Seq(Entry)
  BY DEF TypeOK, Document
<1> HIDE DEF Entry
<1>2. \A j \in DOMAIN doc : doc[j] \in Entry
  BY <1>1
<1> QED BY <1>2 DEF Expanded, Entry

\* A literal is documented without its fields below one that is open: the
\* classes only grow, and take the literal in or it has none to join.
LEMMA DeliverSteady ==
    ASSUME IInv, Steady, NEW s \in Expansion!Sites, NEW how \in Outcome \ {"struct"},
           Expansion!Deliver(s, how), UNCHANGED project, openLiterals # <<>>,
           NEW n, n = Len(openLiterals), NEW a \in Expansion!Lits, a = LitOf(n),
           \A x, y \in Expansion!Lits : cycleRoot[x] = cycleRoot[y] => cycleRoot'[x] = cycleRoot'[y],
           \A x, y \in Expansion!Lits : x # y /\ cycleRoot'[x] = cycleRoot'[y] => x \in Expanded,
           \A i, j, k \in DOMAIN openLiterals :
             i < k /\ k < j /\ cycleRoot'[LitOf(i)] = cycleRoot'[LitOf(j)] =>
               cycleRoot'[LitOf(k)] = cycleRoot'[LitOf(j)],
           Whole(doc') /\ s.inline => Settled(a, s.lit)'
    PROVE  Steady'
<1>1. /\ n \in Nat \ {0} /\ DOMAIN openLiterals = 1..n /\ DOMAIN openLiterals' = 1..n
      /\ Len(openLiterals') = n
      /\ \A i \in 1..n : /\ LitOf(i)' = LitOf(i) /\ openLiterals'[i].at = openLiterals[i].at
                         /\ LitOf(i) \in Expansion!Lits
                         /\ openLiterals[i].at \in Nat \ {0}
                         /\ KidsAt(i) \in Seq(Expansion!Site) /\ Past(i) \in Nat
                         /\ Past(i)' = IF i = n THEN Past(i) + 1 ELSE Past(i)
      /\ Past(n) \in DOMAIN KidsAt(n) /\ s = KidsAt(n)[Past(n)]
  BY DeliverEffect
<1>2. /\ Len(doc) \in Nat /\ Len(doc') = Len(doc) + 1
      /\ DOMAIN doc = 1..Len(doc) /\ DOMAIN doc' = 1..(Len(doc) + 1)
      /\ \A j \in DOMAIN doc : doc'[j] = doc[j]
      /\ doc'[Len(doc) + 1].lit = s.lit /\ doc'[Len(doc) + 1].how = how
  <2>1. doc'[Len(doc) + 1] = [lit |-> s.lit, how |-> how]
    BY DeliverEffect
  <2>2. /\ Len(doc) \in Nat /\ Len(doc') = Len(doc) + 1
        /\ DOMAIN doc = 1..Len(doc) /\ DOMAIN doc' = 1..(Len(doc) + 1)
        /\ \A j \in DOMAIN doc : doc'[j] = doc[j]
    BY DeliverEffect
  <2> QED BY <2>1, <2>2
<1>3. /\ \A l : Expansion!KidLits(l)' = Expansion!KidLits(l) /\ Expansion!Kids(l)' = Expansion!Kids(l)
      /\ Expansion!Lits' = Expansion!Lits
  BY DEF Expansion!KidLits, Expansion!Kids, Expansion!Lits
<1>4. \A i \in 1..n : KidsAt(i)' = KidsAt(i)
  BY <1>1, <1>3 DEF KidsAt, Expansion!Kids
<1>5. \A j \in DOMAIN doc' : doc'[j].how = "struct" => j \in DOMAIN doc
  BY <1>2
<1>6. Expanded' = Expanded
  BY <1>2, <1>5 DEF Expanded
<1>7. OpenLits' = OpenLits
  BY <1>1 DEF OpenLits
<1>8. OpenedByParent'
  BY <1>1, <1>4 DEF OpenedByParent, Steady
<1>9. ClassesContiguous' /\ ClassesExpanded'
  <2>1. ClassesContiguous'
    <3>1. DOMAIN openLiterals' = DOMAIN openLiterals
      BY <1>1
    <3>2. \A i \in DOMAIN openLiterals : LitOf(i)' = LitOf(i)
      BY <1>1
    <3>3. \A i, j, k \in DOMAIN openLiterals' :
            i < k /\ k < j /\ cycleRoot'[LitOf(i)'] = cycleRoot'[LitOf(j)'] =>
              cycleRoot'[LitOf(k)'] = cycleRoot'[LitOf(j)']
      BY <3>1, <3>2
    <3> QED BY <3>3 DEF ClassesContiguous
  <2>2. ClassesExpanded'
    BY <1>3, <1>6, <1>7 DEF ClassesExpanded, Steady
  <2> QED BY <2>1, <2>2
<1>10. Whole(doc') => Whole(doc)
  BY <1>2 DEF Whole
<1>11. /\ \A l \in Expansion!Lits : Complete(l) => Complete(l)'
       /\ \A x, y \in Expansion!Lits : Settled(x, y) => Settled(x, y)'
  BY SettledStays
<1>12. Expanded \subseteq Expansion!Lits /\ project \in Projects
  BY ExpandedTyped DEF IInv
<1>13. ASSUME Whole(doc')
       PROVE  KidsSettled'
  <2>1. KidsSettled
    BY <1>10, <1>13 DEF Steady
  <2>2. ASSUME NEW l \in Expanded \ OpenLits, NEW k \in Expansion!KidLits(l)
        PROVE  Settled(l, k)'
    BY <1>11, <1>12, <2>1, <2>2, KidIsLiteral DEF KidsSettled
  <2>3. ASSUME NEW i \in 1..n, NEW b \in Expansion!Lits, b = LitOf(i), NEW k \in PastKids(i)'
        PROVE  Settled(b, k)'
    <3>1. PICK m \in DOMAIN KidsAt(i) : m < Past(i)' /\ KidsAt(i)[m].inline /\ k = KidsAt(i)[m].lit
      BY <1>4 DEF PastKids
    <3>2. k \in Expansion!Lits
      BY <1>1, <1>12, <3>1, KidsTyped DEF KidsAt
    <3>3. CASE m < Past(i)
      <4>1. k \in PastKids(i)
        BY <3>1, <3>3 DEF PastKids
      <4>2. Settled(b, k)
        BY <1>1, <2>1, <2>3, <4>1 DEF KidsSettled
      <4> QED BY <1>11, <3>2, <4>2
    <3>4. CASE ~(m < Past(i))
      <4>1. i = n /\ m = Past(n)
        BY <1>1, <3>1, <3>4
      <4> QED BY <1>1, <1>13, <2>3, <3>1, <4>1
    <3> QED BY <3>3, <3>4
  <2> QED BY <1>1, <1>3, <1>6, <1>7, <2>2, <2>3 DEF KidsSettled
<1>14. ASSUME Whole(doc')
       PROVE  ExpandedSettled'
  BY <1>1, <1>6, <1>10, <1>11, <1>12, <1>14 DEF ExpandedSettled, Steady
<1>15. OnceBelow'
  <2>1. ASSUME Whole(doc)', NEW i \in (DOMAIN openLiterals)',
               NEW j \in (openLiterals[i].at..Len(doc))', NEW k \in (openLiterals[i].at..Len(doc))',
               NEW b \in Expansion!Lits', NEW c \in Expansion!Lits',
               b = LitOf(i)', c = doc'[j].lit, c = doc'[k].lit, j # k,
               doc'[j].how = "struct", doc'[k].how = "struct"
        PROVE  ~Expansion!OnOneCycle(b, c)'
    <3>1. i \in 1..n /\ openLiterals'[i].at = openLiterals[i].at /\ openLiterals[i].at \in Nat \ {0}
          /\ b = LitOf(i) /\ b \in Expansion!Lits /\ c \in Expansion!Lits
      BY <1>1, <1>3, <2>1
    <3>2. j \in DOMAIN doc /\ k \in DOMAIN doc
      BY <1>2, <1>5, <2>1, <3>1
    <3>3. j \in openLiterals[i].at..Len(doc) /\ k \in openLiterals[i].at..Len(doc)
      BY <1>2, <2>1, <3>1, <3>2
    <3>4. c = doc[j].lit /\ c = doc[k].lit /\ doc[j].how = "struct" /\ doc[k].how = "struct"
      BY <1>2, <2>1, <3>2
    <3>5. OnceBelow /\ Whole(doc) /\ i \in DOMAIN openLiterals
      BY <1>1, <1>10, <2>1, <3>1 DEF Steady
    <3>6. ~Expansion!OnOneCycle(b, c)
      BY <2>1, <3>1, <3>3, <3>4, <3>5 DEF OnceBelow
    <3> QED BY <3>6, SameReach
  <2> QED BY <2>1 DEF OnceBelow
<1>16. openLiterals' # <<>>
  BY <1>1
<1> QED BY <1>8, <1>9, <1>13, <1>14, <1>15, <1>16 DEF Steady

\* A literal is entered: none open is in its class, and if it was expanded
\* before its class is its cycle, so none open is on a cycle with it.
LEMMA EnterSteady ==
    ASSUME IInv, Steady, NEW s \in Expansion!Sites, Expansion!Struct(s), Closed(s.lit) = {},
           Expansion!Base + s.up + 1 <= MaxDepth, Expansion!Enter(s),
           UNCHANGED <<project, cycleRoot>>
    PROVE  Steady'
<1>1. PICK n : n = Len(openLiterals)
  OBVIOUS
<1>2. PICK x : x = s.lit
  OBVIOUS
<1>3. /\ n \in Nat /\ DOMAIN openLiterals = 1..n /\ DOMAIN openLiterals' = 1..(n + 1)
      /\ Len(openLiterals') = n + 1
      /\ \A i \in 1..n : /\ LitOf(i)' = LitOf(i) /\ openLiterals'[i].at = openLiterals[i].at
                         /\ LitOf(i) \in Expansion!Lits
                         /\ Past(i) \in Nat /\ Past(i)' = Past(i)
      /\ n # 0 => Past(n) \in DOMAIN KidsAt(n) /\ s = KidsAt(n)[Past(n)]
      /\ LitOf(n + 1)' = x /\ Past(n + 1)' = 1 /\ openLiterals'[n + 1].at = Len(doc) + 1
  BY <1>1, <1>2, EnterEffect
<1>4. /\ Len(doc) \in Nat /\ Len(doc') = Len(doc) + 1
      /\ DOMAIN doc = 1..Len(doc) /\ DOMAIN doc' = 1..(Len(doc) + 1)
      /\ \A j \in DOMAIN doc : doc'[j] = doc[j]
      /\ doc'[Len(doc) + 1].lit = x /\ doc'[Len(doc) + 1].how = "struct"
  <2>1. doc'[Len(doc) + 1] = [lit |-> x, how |-> "struct"]
    BY <1>1, <1>2, EnterEffect
  <2>2. /\ Len(doc) \in Nat /\ Len(doc') = Len(doc) + 1
        /\ DOMAIN doc = 1..Len(doc) /\ DOMAIN doc' = 1..(Len(doc) + 1)
        /\ \A j \in DOMAIN doc : doc'[j] = doc[j]
    BY <1>1, EnterEffect
  <2> QED BY <2>1, <2>2
<1>5. /\ \A l : Expansion!KidLits(l)' = Expansion!KidLits(l) /\ Expansion!Kids(l)' = Expansion!Kids(l)
      /\ Expansion!Lits' = Expansion!Lits
  BY DEF Expansion!KidLits, Expansion!Kids, Expansion!Lits
<1>6. \A i \in 1..n : KidsAt(i)' = KidsAt(i)
  BY <1>3, <1>5 DEF KidsAt, Expansion!Kids
<1>7. \A i \in 1..n : cycleRoot[LitOf(i)] # cycleRoot[x]
  BY <1>2, <1>3 DEF Closed, LitOf
<1>8. x \in Expansion!Lits /\ project \in Projects /\ Expanded \subseteq Expansion!Lits
  BY <1>2, SiteTyped, ExpandedTyped DEF IInv
<1>9. Expanded' = Expanded \cup {x}
  BY <1>4 DEF Expanded
<1>10. OpenLits' = OpenLits \cup {x}
  BY <1>3 DEF OpenLits
<1>11. OpenedByParent'
  <2> SUFFICES ASSUME NEW i \in 1..n
               PROVE  Past(i)' \in DOMAIN KidsAt(i)' /\ KidsAt(i)'[Past(i)'].lit = LitOf(i + 1)'
    BY <1>3 DEF OpenedByParent
  <2>1. CASE i = n
    BY <1>2, <1>3, <1>6, <2>1
  <2>2. CASE i # n
    <3>1. i < n /\ i + 1 \in 1..n
      BY <1>3, <2>2
    <3> QED BY <1>1, <1>3, <1>6, <3>1 DEF OpenedByParent, Steady
  <2> QED BY <2>1, <2>2
<1>12. ClassesContiguous'
  <2> SUFFICES ASSUME NEW i \in 1..(n + 1), NEW j \in 1..(n + 1), NEW k \in 1..(n + 1), i < k, k < j,
                      cycleRoot[LitOf(i)'] = cycleRoot[LitOf(j)']
               PROVE  cycleRoot[LitOf(k)'] = cycleRoot[LitOf(j)']
    BY <1>3 DEF ClassesContiguous
  <2>1. i \in 1..n /\ k \in 1..n /\ LitOf(i)' = LitOf(i) /\ LitOf(k)' = LitOf(k)
    BY <1>3
  <2>2. j # n + 1
    BY <1>3, <1>7, <2>1
  <2>3. j \in 1..n /\ LitOf(j)' = LitOf(j)
    BY <1>3, <2>2
  <2> QED BY <1>3, <2>1, <2>3 DEF ClassesContiguous, Steady
<1>13. ClassesExpanded'
  BY <1>5, <1>9, <1>10 DEF ClassesExpanded, Steady
<1>14. Whole(doc') => Whole(doc)
  BY <1>4 DEF Whole
<1>15. /\ \A l \in Expansion!Lits : Complete(l) => Complete(l)'
       /\ \A y, z \in Expansion!Lits : Settled(y, z) => Settled(y, z)'
  BY SettledStays
<1>16. ASSUME Whole(doc')
       PROVE  KidsSettled'
  <2>1. KidsSettled
    BY <1>14, <1>16 DEF Steady
  <2>2. ASSUME NEW l \in Expanded' \ OpenLits', NEW k \in Expansion!KidLits(l)
        PROVE  Settled(l, k)'
    <3>1. l \in Expanded \ OpenLits
      BY <1>9, <1>10
    <3> QED BY <1>8, <1>15, <2>1, <3>1, KidIsLiteral DEF KidsSettled
  <2>3. ASSUME NEW i \in 1..(n + 1), NEW b \in Expansion!Lits, b = LitOf(i)', NEW k \in PastKids(i)'
        PROVE  Settled(b, k)'
    <3>1. PICK m \in DOMAIN KidsAt(i)' : m < Past(i)' /\ KidsAt(i)'[m].inline /\ k = KidsAt(i)'[m].lit
      BY DEF PastKids
    <3>2. k \in Expansion!Lits
      BY <1>5, <1>8, <2>3, <3>1, KidsTyped DEF KidsAt
    <3>3. CASE i \in 1..n
      <4>1. k \in PastKids(i)
        BY <1>3, <1>6, <3>1, <3>3 DEF PastKids
      <4>2. Settled(b, k)
        BY <1>3, <2>1, <2>3, <3>3, <4>1 DEF KidsSettled
      <4> QED BY <1>15, <3>2, <4>2
    <3>4. CASE i = n + 1
      <4>1. m < 1 /\ m \in 1..Len(Expansion!Kids(b))
        BY <1>3, <1>5, <1>8, <2>3, <3>1, <3>4, KidsTyped DEF KidsAt
      <4>2. Len(Expansion!Kids(b)) \in Nat
        BY <1>8, KidsTyped
      <4> QED BY <4>1, <4>2
    <3> QED BY <1>3, <3>3, <3>4
  <2> QED BY <1>3, <1>5, <2>2, <2>3 DEF KidsSettled
<1>17. ASSUME Whole(doc')
       PROVE  ExpandedSettled'
  <2>1. ExpandedSettled
    BY <1>14, <1>17 DEF Steady
  <2>2. ASSUME NEW l \in Expanded
        PROVE  Complete(l)' \/ \E i \in DOMAIN openLiterals' : cycleRoot'[LitOf(i)'] = cycleRoot'[l]
    <3>1. CASE Complete(l)
      BY <1>8, <1>15, <3>1
    <3>2. CASE \E i \in DOMAIN openLiterals : cycleRoot[LitOf(i)] = cycleRoot[l]
      BY <1>3, <3>2
    <3> QED BY <2>1, <3>1, <3>2 DEF ExpandedSettled
  <2>3. \E i \in DOMAIN openLiterals' : cycleRoot'[LitOf(i)'] = cycleRoot'[x]
    BY <1>3
  <2> QED BY <1>9, <2>2, <2>3 DEF ExpandedSettled
<1>18. ASSUME Whole(doc'), x \in Expanded, NEW i \in 1..n, NEW b \in Expansion!Lits, b = LitOf(i)
       PROVE  ~Expansion!OnOneCycle(b, x)
  <2>1. Complete(x)
    BY <1>3, <1>7, <1>14, <1>18 DEF ExpandedSettled, Steady
  <2> QED BY <1>7, <1>8, <1>18, <2>1, CycleSymmetric DEF Complete
<1>19. OnceBelow'
  <2>1. ASSUME Whole(doc)', NEW i \in (DOMAIN openLiterals)',
               NEW j \in (openLiterals[i].at..Len(doc))', NEW k \in (openLiterals[i].at..Len(doc))',
               NEW b \in Expansion!Lits', NEW c \in Expansion!Lits',
               b = LitOf(i)', c = doc'[j].lit, c = doc'[k].lit, j # k,
               doc'[j].how = "struct", doc'[k].how = "struct"
        PROVE  ~Expansion!OnOneCycle(b, c)'
    <3>1. i \in 1..n
      <4>1. openLiterals'[i].at # Len(doc) + 1
        BY <1>4, <2>1
      <4> QED BY <1>3, <4>1
    <3>2. /\ openLiterals'[i].at = openLiterals[i].at /\ b = LitOf(i)
          /\ b \in Expansion!Lits /\ c \in Expansion!Lits /\ i \in DOMAIN openLiterals
      BY <1>3, <1>5, <2>1, <3>1
    <3>3. openLiterals[i].at \in DOMAIN doc
      BY <3>2 DEF IInv, TypeOK
    <3>4. /\ openLiterals[i].at \in Nat \ {0}
          /\ j \in openLiterals[i].at..(Len(doc) + 1) /\ k \in openLiterals[i].at..(Len(doc) + 1)
      BY <1>4, <2>1, <3>2, <3>3
    <3>5. CASE j \in DOMAIN doc /\ k \in DOMAIN doc
      <4>1. j \in openLiterals[i].at..Len(doc) /\ k \in openLiterals[i].at..Len(doc)
        BY <1>4, <3>4, <3>5
      <4>2. c = doc[j].lit /\ c = doc[k].lit /\ doc[j].how = "struct" /\ doc[k].how = "struct"
        BY <1>4, <2>1, <3>5
      <4>3. OnceBelow /\ Whole(doc)
        BY <1>14, <2>1 DEF Steady
      <4>4. ~Expansion!OnOneCycle(b, c)
        BY <2>1, <3>2, <4>1, <4>2, <4>3 DEF OnceBelow
      <4> QED BY <4>4, SameReach
    <3>6. CASE j \notin DOMAIN doc \/ k \notin DOMAIN doc
      <4>1. c = x /\ x \in Expanded
        <5>1. \A m \in openLiterals[i].at..(Len(doc) + 1) : m \in DOMAIN doc \/ m = Len(doc) + 1
          BY <1>4, <3>4
        <5>2. CASE j = Len(doc) + 1
          BY <1>4, <2>1, <3>4, <5>1, <5>2 DEF Expanded
        <5>3. CASE k = Len(doc) + 1
          BY <1>4, <2>1, <3>4, <5>1, <5>3 DEF Expanded
        <5> QED BY <3>4, <3>6, <5>1, <5>2, <5>3
      <4> QED BY <1>18, <2>1, <3>1, <3>2, <4>1, SameReach
    <3> QED BY <3>5, <3>6
  <2> QED BY <2>1 DEF OnceBelow
<1>20. openLiterals' # <<>>
  BY <1>3
<1> QED BY <1>11, <1>12, <1>13, <1>16, <1>17, <1>19, <1>20 DEF Steady

\* A literal closes below another: its class has one that is open still, which
\* the next one out is then in, or all that is known of it is all there is.
LEMMA CloseSteady ==
    ASSUME IInv, Steady, CloseLiteral, UNCHANGED project, Len(openLiterals) # 1
    PROVE  Steady'
<1>1. PICK n : n = Len(openLiterals)
  OBVIOUS
<1>2. /\ n \in Nat /\ n - 1 \in Nat \ {0}
      /\ DOMAIN openLiterals = 1..n /\ DOMAIN openLiterals' = 1..(n - 1)
      /\ Len(openLiterals') = n - 1 /\ UNCHANGED <<doc, cycleRoot>>
      /\ \A i \in 1..(n - 1) : openLiterals'[i] = openLiterals[i]
      /\ \A i \in 1..n : /\ LitOf(i) \in Expansion!Lits /\ Past(i) \in Nat
                         /\ KidsAt(i) \in Seq(Expansion!Site)
      /\ \A i \in 1..(n - 1) : Past(i)' = IF i = n - 1 THEN Past(i) + 1 ELSE Past(i)
      /\ \A m \in DOMAIN KidsAt(n) : m < Past(n)
  BY <1>1, CloseEffect
<1>3. PICK x \in Expansion!Lits : x = LitOf(n)
  BY <1>2
<1>4. /\ \A l : Expansion!KidLits(l)' = Expansion!KidLits(l) /\ Expansion!Kids(l)' = Expansion!Kids(l)
      /\ Expansion!Lits' = Expansion!Lits
  BY DEF Expansion!KidLits, Expansion!Kids, Expansion!Lits
<1>5. \A i \in 1..(n - 1) : i \in 1..n /\ i # n /\ LitOf(i)' = LitOf(i) /\ KidsAt(i)' = KidsAt(i)
  BY <1>2, <1>4 DEF LitOf, KidsAt, Expansion!Kids
<1>6. Expanded' = Expanded /\ OpenLits \subseteq OpenLits' \cup {x}
  <2>1. Expanded' = Expanded
    BY <1>2 DEF Expanded
  <2>2. \A i \in 1..n : i # n => i \in 1..(n - 1)
    BY <1>2
  <2> QED BY <1>2, <1>3, <1>5, <2>1, <2>2 DEF OpenLits
<1>7. project \in Projects /\ Expanded \subseteq Expansion!Lits /\ ClassesAreCycles
  BY ExpandedTyped DEF IInv
<1>8. /\ \A l \in Expansion!Lits : Complete(l) => Complete(l)'
      /\ \A y, z \in Expansion!Lits : Settled(y, z) => Settled(y, z)'
  BY <1>2, SettledStays
<1>9. OpenedByParent'
  <2> SUFFICES ASSUME NEW i \in 1..(n - 1), i < n - 1
               PROVE  Past(i)' \in DOMAIN KidsAt(i)' /\ KidsAt(i)'[Past(i)'].lit = LitOf(i + 1)'
    BY <1>2 DEF OpenedByParent
  <2>1. i < n /\ i + 1 \in 1..(n - 1) /\ i # n - 1
    BY <1>2
  <2> QED BY <1>1, <1>2, <1>5, <2>1 DEF OpenedByParent, Steady
<1>10. ClassesContiguous'
  <2> SUFFICES ASSUME NEW i \in (DOMAIN openLiterals)', NEW j \in (DOMAIN openLiterals)',
                      NEW k \in (DOMAIN openLiterals)', i < k, k < j,
                      cycleRoot'[LitOf(i)'] = cycleRoot'[LitOf(j)']
               PROVE  cycleRoot'[LitOf(k)'] = cycleRoot'[LitOf(j)']
    BY DEF ClassesContiguous
  <2>1. LitOf(i)' = LitOf(i) /\ LitOf(j)' = LitOf(j) /\ LitOf(k)' = LitOf(k)
    BY <1>2, <1>5
  <2>2. i \in DOMAIN openLiterals /\ j \in DOMAIN openLiterals /\ k \in DOMAIN openLiterals
    BY <1>2, <1>5
  <2>3. cycleRoot' = cycleRoot /\ ClassesContiguous
    BY <1>2 DEF Steady
  <2>4. cycleRoot[LitOf(i)] = cycleRoot[LitOf(j)]
    BY <2>1, <2>3
  <2>5. cycleRoot[LitOf(k)] = cycleRoot[LitOf(j)]
    BY <2>2, <2>3, <2>4 DEF ClassesContiguous
  <2> QED BY <2>1, <2>3, <2>5
<1>11. ClassesExpanded'
  <2>1. OpenLits' \subseteq OpenLits
    BY <1>2, <1>5 DEF OpenLits
  <2> QED BY <1>2, <1>4, <1>6, <2>1 DEF ClassesExpanded, Steady
<1>12. ASSUME Whole(doc), NEW k \in Expansion!KidLits(x)
       PROVE  Settled(x, k)
  <2>1. PICK m \in DOMAIN KidsAt(n) : KidsAt(n)[m].inline /\ k = KidsAt(n)[m].lit
    BY <1>3 DEF Expansion!KidLits, KidsAt
  <2>2. k \in PastKids(n)
    BY <1>2, <2>1 DEF PastKids
  <2>3. n \in DOMAIN openLiterals
    BY <1>2
  <2> QED BY <1>3, <1>12, <2>2, <2>3 DEF KidsSettled, Steady
\* Whether its class has another literal that is open.
<1>13. ASSUME Whole(doc), \A j \in 1..(n - 1) : cycleRoot[LitOf(j)] # cycleRoot[x]
       PROVE  Complete(x)
  <2> SUFFICES ASSUME NEW z \in Expansion!Lits, cycleRoot[z] = cycleRoot[x],
                      NEW k \in Expansion!KidLits(z)
               PROVE  Settled(z, k)
    BY <1>7, ClassComplete
  <2>1. CASE z = x
    BY <1>12, <1>13, <2>1
  <2>2. CASE z # x
    <3>1. z \in Expanded
      BY <2>2 DEF ClassesExpanded, Steady
    <3>2. z \notin OpenLits
      <4>1. \A i \in 1..n : i # n => i \in 1..(n - 1)
        BY <1>2
      <4> QED BY <1>2, <1>3, <1>13, <2>2, <4>1 DEF OpenLits
    <3> QED BY <1>13, <3>1, <3>2 DEF KidsSettled, Steady
  <2> QED BY <2>1, <2>2
<1>14. ASSUME NEW j \in 1..(n - 1), cycleRoot[LitOf(j)] = cycleRoot[x]
       PROVE  cycleRoot[LitOf(n - 1)] = cycleRoot[x]
  <2>1. CASE j = n - 1
    BY <1>14, <2>1
  <2>2. CASE j # n - 1
    <3>1. j < n - 1 /\ n - 1 < n /\ j \in 1..n /\ n - 1 \in 1..n /\ n \in 1..n
      BY <1>2, <2>2
    <3> QED BY <1>2, <1>3, <1>14, <3>1 DEF ClassesContiguous, Steady
  <2> QED BY <2>1, <2>2
<1>15. ASSUME Whole(doc), NEW b \in Expansion!Lits, b = LitOf(n - 1)
       PROVE  Settled(b, x)
  BY <1>13, <1>14, <1>15 DEF Settled
<1>16. ASSUME Whole(doc')
       PROVE  KidsSettled'
  <2>1. KidsSettled /\ Whole(doc)
    BY <1>2, <1>16 DEF Steady
  <2>2. ASSUME NEW l \in Expanded' \ OpenLits', NEW k \in Expansion!KidLits(l)
        PROVE  Settled(l, k)'
    <3>1. l \in Expansion!Lits /\ k \in Expansion!Lits
      BY <1>6, <1>7, KidIsLiteral
    <3>2. Settled(l, k)
      BY <1>6, <1>12, <2>1 DEF KidsSettled
    <3> QED BY <1>8, <3>1, <3>2
  <2>3. ASSUME NEW i \in 1..(n - 1), NEW b \in Expansion!Lits, b = LitOf(i)', NEW k \in PastKids(i)'
        PROVE  Settled(b, k)'
    <3>1. PICK m \in DOMAIN KidsAt(i) : m < Past(i)' /\ KidsAt(i)[m].inline /\ k = KidsAt(i)[m].lit
      BY <1>5 DEF PastKids
    <3>2. b = LitOf(i) /\ i \in 1..n
      BY <1>5, <2>3
    <3>3. k \in Expansion!Lits
      BY <1>7, <3>1, <3>2, KidsTyped DEF KidsAt
    <3>4. CASE m < Past(i)
      <4>1. k \in PastKids(i)
        BY <3>1, <3>4 DEF PastKids
      <4>2. Settled(b, k)
        BY <1>2, <2>1, <3>2, <4>1 DEF KidsSettled
      <4> QED BY <1>8, <3>3, <4>2
    <3>5. CASE ~(m < Past(i))
      <4>1. m \in Nat
        BY <1>2, <3>2
      <4>2. i = n - 1 /\ m = Past(i)
        BY <1>2, <3>1, <3>2, <3>5, <4>1
      <4>3. i \in DOMAIN openLiterals /\ i < Len(openLiterals) /\ i + 1 = n
        BY <1>1, <1>2, <3>2, <4>2
      <4>4. KidsAt(i)[Past(i)].lit = LitOf(n)
        BY <4>3 DEF OpenedByParent, Steady
      <4>5. k = x
        BY <1>3, <3>1, <4>2, <4>4
      <4> QED BY <1>8, <1>15, <2>1, <3>2, <4>2, <4>5
    <3> QED BY <3>4, <3>5
  <2> QED BY <1>2, <1>4, <2>2, <2>3 DEF KidsSettled
<1>17. ASSUME Whole(doc')
       PROVE  ExpandedSettled'
  <2>1. ExpandedSettled /\ Whole(doc)
    BY <1>2, <1>17 DEF Steady
  <2>2. ASSUME NEW l \in Expanded
        PROVE  Complete(l)' \/ \E i \in DOMAIN openLiterals' : cycleRoot'[LitOf(i)'] = cycleRoot'[l]
    <3>1. l \in Expansion!Lits
      BY <1>7
    <3>2. CASE Complete(l)
      BY <1>8, <3>1, <3>2
    <3>3. CASE \E i \in 1..(n - 1) : cycleRoot[LitOf(i)] = cycleRoot[l]
      BY <1>2, <1>5, <3>3
    <3>4. CASE cycleRoot[x] = cycleRoot[l] /\ \A i \in 1..(n - 1) : cycleRoot[LitOf(i)] # cycleRoot[l]
      <4>1. Complete(x)
        BY <1>13, <2>1, <3>4
      <4>2. Expansion!OnOneCycle(x, l)
        BY <1>7, <3>1, <3>4, CycleSymmetric, CycleTransitive DEF ClassesAreCycles
      <4>3. Complete(l)
        BY <3>1, <4>1, <4>2, CycleTransitive DEF Complete
      <4> QED BY <1>8, <3>1, <4>3
    <3>5. \A i \in 1..n : i # n => i \in 1..(n - 1)
      BY <1>2
    <3> QED BY <1>2, <1>3, <2>1, <3>2, <3>3, <3>4, <3>5 DEF ExpandedSettled
  <2> QED BY <1>6, <2>2 DEF ExpandedSettled
<1>18. OnceBelow'
  <2>1. ASSUME Whole(doc)', NEW i \in (DOMAIN openLiterals)',
               NEW j \in (openLiterals[i].at..Len(doc))', NEW k \in (openLiterals[i].at..Len(doc))',
               NEW b \in Expansion!Lits', NEW c \in Expansion!Lits',
               b = LitOf(i)', c = doc'[j].lit, c = doc'[k].lit, j # k,
               doc'[j].how = "struct", doc'[k].how = "struct"
        PROVE  ~Expansion!OnOneCycle(b, c)'
    <3>1. i \in DOMAIN openLiterals /\ openLiterals'[i] = openLiterals[i] /\ b = LitOf(i)
      BY <1>2, <1>5, <2>1
    <3>2. OnceBelow /\ Whole(doc)
      BY <1>2, <2>1 DEF Steady
    <3>3. ~Expansion!OnOneCycle(b, c)
      BY <1>2, <1>4, <2>1, <3>1, <3>2 DEF OnceBelow
    <3> QED BY <3>3, SameReach
  <2> QED BY <2>1 DEF OnceBelow
<1>19. openLiterals' # <<>>
  BY <1>2
<1> QED BY <1>9, <1>10, <1>11, <1>16, <1>17, <1>18, <1>19 DEF Steady

\* A literal is cut as recursive: its class takes in the open ones from the
\* outermost of its own on, and the classes of these.
LEMMA CutSteady ==
    ASSUME IInv, Steady, NEW s \in Expansion!Sites, CloseCycle(s), UNCHANGED project
    PROVE  Steady'
<1>1. PICK n : n = Len(openLiterals)
  OBVIOUS
<1>2. openLiterals # <<>> /\ DOMAIN openLiterals = 1..n /\ n \in Nat \ {0}
  <2>1. openLiterals \in Seq(Frame) /\ DOMAIN openLiterals # {}
    BY DEF IInv, TypeOK, CloseCycle, Closed
  <2> QED BY <1>1, <2>1
<1>3. /\ \A i \in 1..n : LitOf(i) \in Expansion!Lits
      /\ s.lit \in Expansion!Lits /\ cycleRoot \in [Expansion!Lits -> Expansion!Lits]
      /\ Expansion!Deliver(s, "recursive")
  <2>1. \A i \in 1..n : openLiterals[i] \in Frame
    BY <1>1, <1>2 DEF IInv, TypeOK
  <2> QED BY <2>1, SiteTyped DEF IInv, TypeOK, LitOf, Frame, CloseCycle
<1>4. PICK i \in Closed(s.lit) : (\A k \in Closed(s.lit) : i <= k) /\ Join(s.lit, Joined(s.lit, i))
  BY DEF CloseCycle
<1> DEFINE r == cycleRoot[s.lit]
           Merged(m) == cycleRoot[m] = r \/ \E k \in 1..n : k > i /\ cycleRoot[m] = cycleRoot[LitOf(k)]
<1>5. i \in 1..n /\ cycleRoot[LitOf(i)] = r
  BY <1>2, <1>4 DEF Closed, LitOf
<1>6. \A m \in Expansion!Lits : cycleRoot'[m] = IF Merged(m) THEN r ELSE cycleRoot[m]
  BY <1>2, <1>3, <1>4 DEF Join, Joined, LitOf
<1>7. \A k \in 1..n : k < i => cycleRoot[LitOf(k)] # r
  <2> SUFFICES ASSUME NEW k \in 1..n, k < i, cycleRoot[LitOf(k)] = r
               PROVE  FALSE
    OBVIOUS
  <2>1. k \in Closed(s.lit)
    BY <1>2 DEF Closed, LitOf
  <2> QED BY <1>2, <1>4, <1>5, <2>1
<1>8. \A k \in 1..n : Merged(LitOf(k)) <=> k >= i
  <2> SUFFICES ASSUME NEW k \in 1..n
               PROVE  Merged(LitOf(k)) <=> k >= i
    OBVIOUS
  <2>1. CASE k >= i
    BY <1>5, <2>1
  <2>2. ASSUME k < i, NEW j \in 1..n, j > i, cycleRoot[LitOf(k)] = cycleRoot[LitOf(j)]
        PROVE  FALSE
    <3>1. cycleRoot[LitOf(i)] = cycleRoot[LitOf(j)]
      BY <1>2, <1>5, <2>2 DEF ClassesContiguous, Steady
    <3> QED BY <1>5, <1>7, <2>2, <3>1
  <2> QED BY <1>2, <1>5, <1>7, <2>1, <2>2
<1>9. \A x, y \in Expansion!Lits : cycleRoot[x] = cycleRoot[y] => cycleRoot'[x] = cycleRoot'[y]
  BY <1>6
<1>10. \A x, y \in Expansion!Lits : x # y /\ cycleRoot'[x] = cycleRoot'[y] => x \in Expanded
  <2> SUFFICES ASSUME NEW x \in Expansion!Lits, NEW y \in Expansion!Lits, x # y,
                      cycleRoot'[x] = cycleRoot'[y]
               PROVE  x \in Expanded
    OBVIOUS
  <2>1. CASE Merged(x)
    <3>1. PICK k \in 1..n : cycleRoot[x] = cycleRoot[LitOf(k)]
      BY <1>5, <2>1
    <3>2. LitOf(k) \in OpenLits
      BY <1>2 DEF OpenLits
    <3> QED BY <1>3, <3>1, <3>2 DEF ClassesExpanded, Steady
  <2>2. CASE ~Merged(x)
    <3>1. cycleRoot[x] = cycleRoot[y]
      BY <1>6, <2>2
    <3> QED BY <3>1 DEF ClassesExpanded, Steady
  <2> QED BY <2>1, <2>2
<1>11. \A k \in 1..n : cycleRoot'[LitOf(k)] = IF k >= i THEN r ELSE cycleRoot[LitOf(k)]
  BY <1>3, <1>6, <1>8
<1> HIDE DEF Merged
<1>12. \A h, j, k \in DOMAIN openLiterals :
          h < k /\ k < j /\ cycleRoot'[LitOf(h)] = cycleRoot'[LitOf(j)] =>
            cycleRoot'[LitOf(k)] = cycleRoot'[LitOf(j)]
  <2> SUFFICES ASSUME NEW h \in 1..n, NEW j \in 1..n, NEW k \in 1..n, h < k, k < j,
                      cycleRoot'[LitOf(h)] = cycleRoot'[LitOf(j)]
               PROVE  cycleRoot'[LitOf(k)] = cycleRoot'[LitOf(j)]
    BY <1>2
  <2>1. CASE k >= i
    BY <1>2, <1>5, <1>11, <2>1
  <2>2. CASE k < i
    <3>1. cycleRoot'[LitOf(h)] = cycleRoot[LitOf(h)] /\ cycleRoot[LitOf(h)] # r
          /\ cycleRoot'[LitOf(k)] = cycleRoot[LitOf(k)]
      BY <1>2, <1>5, <1>7, <1>11, <2>2
    <3>2. cycleRoot'[LitOf(j)] = cycleRoot[LitOf(j)]
      BY <1>11, <3>1
    <3> QED BY <1>2, <3>1, <3>2 DEF ClassesContiguous, Steady
  <2> QED BY <1>2, <1>5, <2>1, <2>2
<1>13. PICK a \in Expansion!Lits : a = LitOf(n)
  BY <1>2, <1>3
<1>14. Settled(a, s.lit)'
  <2>1. cycleRoot'[a] = r
    BY <1>2, <1>5, <1>11, <1>13
  <2>2. cycleRoot'[s.lit] = r
    BY <1>3, <1>6 DEF Merged
  <2> QED BY <2>1, <2>2 DEF Settled
<1>15. "recursive" \in Outcome \ {"struct"}
  BY DEF Outcome
<1> QED BY <1>1, <1>2, <1>3, <1>9, <1>10, <1>12, <1>13, <1>14, <1>15, DeliverSteady

\* One step of the analyzer.
LEMMA NextSteady ==
    ASSUME OInv, [Next]_vars
    PROVE  Steady'
<1> USE DEF OInv
<1>1. IInv'
  BY NextIInv
<1>2. CASE UNCHANGED vars
  <2>1. UNCHANGED <<project, openLiterals, cycleRoot, doc>>
    BY <1>2 DEF vars
  <2>2. /\ \A l : Expansion!KidLits(l)' = Expansion!KidLits(l) /\ Expansion!Kids(l)' = Expansion!Kids(l)
        /\ Expansion!Lits' = Expansion!Lits
    BY <2>1 DEF Expansion!KidLits, Expansion!Kids, Expansion!Lits
  <2>3. /\ \A l \in Expansion!Lits : Complete(l)' <=> Complete(l)
        /\ \A a, b : Expansion!OnOneCycle(a, b)' <=> Expansion!OnOneCycle(a, b)
    BY <2>1, SameReach DEF Complete
  <2>4. /\ \A i : LitOf(i)' = LitOf(i) /\ Past(i)' = Past(i) /\ KidsAt(i)' = KidsAt(i)
        /\ Expanded' = Expanded /\ OpenLits' = OpenLits
    BY <2>1 DEF LitOf, Past, KidsAt, Expanded, OpenLits, Expansion!Kids
  <2>5. \A i : PastKids(i)' = PastKids(i)
    BY <2>4 DEF PastKids
  <2>6. OpenedByParent' /\ ClassesContiguous' /\ ClassesExpanded'
    BY <2>1, <2>2, <2>4 DEF Steady, OpenedByParent, ClassesContiguous, ClassesExpanded
  <2>7. Expanded \subseteq Expansion!Lits /\ project \in Projects
    BY ExpandedTyped DEF IInv
  <2>8. \A y, z \in Expansion!Lits : Settled(y, z) => Settled(y, z)'
    BY <2>1, <2>3 DEF Settled
  <2>9. KidsSettled => KidsSettled'
    <3>1. ASSUME KidsSettled, NEW l \in Expanded \ OpenLits, NEW k \in Expansion!KidLits(l)
          PROVE  Settled(l, k)'
      BY <2>7, <2>8, <3>1, KidIsLiteral DEF KidsSettled
    <3>2. ASSUME KidsSettled, NEW i \in DOMAIN openLiterals, NEW b \in Expansion!Lits, b = LitOf(i),
                 NEW k \in PastKids(i)
          PROVE  Settled(b, k)'
      <4>1. k \in Expansion!Lits
        BY <2>7, <3>2, KidsTyped DEF PastKids, KidsAt
      <4> QED BY <2>8, <3>2, <4>1 DEF KidsSettled
    <3> QED BY <2>1, <2>2, <2>4, <2>5, <3>1, <3>2 DEF KidsSettled
  <2>10. ExpandedSettled => ExpandedSettled'
    BY <2>1, <2>3, <2>4, <2>7 DEF ExpandedSettled
  <2>11. OnceBelow'
    <3>1. ASSUME Whole(doc)', NEW i \in (DOMAIN openLiterals)',
                 NEW j \in (openLiterals[i].at..Len(doc))', NEW k \in (openLiterals[i].at..Len(doc))',
                 NEW b \in Expansion!Lits', NEW c \in Expansion!Lits',
                 b = LitOf(i)', c = doc'[j].lit, c = doc'[k].lit, j # k,
                 doc'[j].how = "struct", doc'[k].how = "struct"
          PROVE  ~Expansion!OnOneCycle(b, c)'
      <4>1. ~Expansion!OnOneCycle(b, c)
        BY <2>1, <2>2, <2>4, <3>1 DEF Steady, OnceBelow
      <4> QED BY <2>3, <4>1
    <3> QED BY <3>1 DEF OnceBelow
  <2>12. openLiterals' = <<>> => cycleRoot' = Identity'
    BY <2>1, <2>2 DEF Steady, Identity
  <2> QED BY <2>1, <2>6, <2>9, <2>10, <2>11, <2>12 DEF Steady
<1>3. CASE AnalyzeAgain
  <2>1. openLiterals' = <<>> /\ cycleRoot' = Identity'
    BY <1>3 DEF AnalyzeAgain, Reset, Identity, Expansion!Lits
  <2>2. doc' = <<>>
    BY <1>1, <2>1 DEF IInv, CountIsExact
  <2>3. Fresh'
    BY <2>1, <2>2 DEF Fresh
  <2> QED BY <2>3, FreshSteady, PTL
<1>4. CASE CloseLiteral /\ UNCHANGED <<project, run, begun>>
  <2>1. CASE Len(openLiterals) = 1
    <3>1. openLiterals' = <<>> /\ doc' = <<>> /\ cycleRoot' = Identity'
      BY <1>4, <2>1 DEF CloseLiteral, Forget, Expansion!Finish, Identity, Expansion!Lits
    <3>2. Fresh'
      BY <3>1 DEF Fresh
    <3> QED BY <3>2, FreshSteady, PTL
  <2>2. CASE Len(openLiterals) # 1
    BY <1>4, <2>2, CloseSteady
  <2> QED BY <2>1, <2>2
<1>5. ASSUME NEW s \in Expansion!Sites, Resolve(s), UNCHANGED <<project, run, begun>>
      PROVE  Steady'
  <2>1. ASSUME NEW how \in Outcome \ {"struct"}, Expansion!Deliver(s, how), UNCHANGED cycleRoot,
               ASSUME NEW a \in Expansion!Lits, Whole(doc'), s.inline
               PROVE  Settled(a, s.lit)'
        PROVE  Steady'
    <3>1. CASE openLiterals = <<>>
      <4>1. openLiterals' = <<>> /\ cycleRoot' = Identity'
        BY <1>5, <2>1, <3>1 DEF Expansion!Deliver, Steady, Identity, Expansion!Lits
      <4>2. doc' = <<>>
        BY <1>1, <4>1 DEF IInv, CountIsExact
      <4>3. Fresh'
        BY <4>1, <4>2 DEF Fresh
      <4> QED BY <4>3, FreshSteady, PTL
    <3>2. CASE openLiterals # <<>>
      <4>1. PICK n : n = Len(openLiterals)
        OBVIOUS
      <4>2. n \in DOMAIN openLiterals /\ openLiterals[n] \in Frame
        BY <3>2, <4>1 DEF IInv, TypeOK
      <4>3. PICK a \in Expansion!Lits : a = LitOf(n)
        BY <4>2 DEF LitOf, Frame
      <4>4. Whole(doc') /\ s.inline => Settled(a, s.lit)'
        BY <2>1
      <4>5. \A x, y \in Expansion!Lits : x # y /\ cycleRoot'[x] = cycleRoot'[y] => x \in Expanded
        BY <2>1 DEF Steady, ClassesExpanded
      <4>6. \A i, j, k \in DOMAIN openLiterals :
              i < k /\ k < j /\ cycleRoot'[LitOf(i)] = cycleRoot'[LitOf(j)] =>
                cycleRoot'[LitOf(k)] = cycleRoot'[LitOf(j)]
        BY <2>1 DEF Steady, ClassesContiguous
      <4> QED BY <1>5, <2>1, <3>2, <4>1, <4>3, <4>4, <4>5, <4>6, DeliverSteady
    <3> QED BY <3>1, <3>2
  <2> DEFINE cut == {"depth", "limit", "absent"}
  <2>2. ASSUME NEW how \in cut, Expansion!Deliver(s, how), UNCHANGED cycleRoot
        PROVE  Steady'
    <3>1. how \in Outcome \ {"struct"}
      BY DEF Outcome
    <3>2. openLiterals # <<>> => ~Whole(doc')
      <4> SUFFICES ASSUME openLiterals # <<>>
                   PROVE  ~Whole(doc')
        OBVIOUS
      <4>1. doc' = Append(doc, [lit |-> s.lit, how |-> how]) /\ doc \in Document
        BY <2>2 DEF Expansion!Deliver, IInv, TypeOK
      <4>2. doc'[Len(doc')] = [lit |-> s.lit, how |-> how] /\ Len(doc') \in DOMAIN doc'
        BY <4>1 DEF Document
      <4>3. doc'[Len(doc')].how \in {"limit", "depth", "absent"}
        BY <4>2
      <4> QED BY <4>2, <4>3 DEF Whole
    <3>3. CASE openLiterals = <<>>
      <4>1. openLiterals' = <<>> /\ cycleRoot' = Identity'
        BY <1>5, <2>2, <3>3 DEF Expansion!Deliver, Steady, Identity, Expansion!Lits
      <4>2. doc' = <<>>
        BY <1>1, <4>1 DEF IInv, CountIsExact
      <4>3. Fresh'
        BY <4>1, <4>2 DEF Fresh
      <4> QED BY <4>3, FreshSteady, PTL
    <3>4. CASE openLiterals # <<>>
      BY <2>1, <2>2, <3>1, <3>2, <3>4
    <3> QED BY <3>3, <3>4
  <2>3. CASE Lose(s)
    BY <2>2, <2>3 DEF Lose, Expansion!Lose, unchangedCycles
  <2>4. CASE LeaveBare(s)
    BY <2>1, <2>4 DEF LeaveBare, Expansion!LeaveBare, unchangedCycles, Outcome
  <2>5. CASE MarshalerLeaf(s)
    <3>1. Complete(s.lit)
      BY <2>5, LeafComplete DEF MarshalerLeaf, Expansion!Leaf
    <3>2. Expansion!Deliver(s, "marshaler") /\ UNCHANGED cycleRoot
      BY <2>5 DEF MarshalerLeaf, Expansion!Leaf, unchangedCycles
    <3>3. s.lit \in Expansion!Lits
      BY SiteTyped DEF IInv
    <3>4. Complete(s.lit)'
      BY <1>5, <3>1, <3>2, <3>3, SettledStays
    <3> QED BY <2>1, <3>2, <3>4 DEF Settled, Outcome
  <2>6. CASE CloseCycle(s)
    BY <1>5, <2>6, CutSteady
  <2>7. CASE CutAtDepth(s)
    BY <2>2, <2>7 DEF CutAtDepth, unchangedCycles
  <2>8. CASE CutAtLimit(s)
    BY <2>2, <2>8 DEF CutAtLimit, unchangedCycles
  <2>9. CASE ExtractLiteral(s)
    BY <1>5, <2>9, EnterSteady DEF ExtractLiteral
  <2> QED BY <1>5, <2>3, <2>4, <2>5, <2>6, <2>7, <2>8, <2>9 DEF Resolve
<1> QED BY <1>2, <1>3, <1>4, <1>5 DEF Next, Done

\* While a literal is open, each literal of its cycle is expanded at most once
\* below it (closesLiteralCycle), where no limit cut one short: when one
\* closes, its class either holds one that is open or is all of its cycle.
THEOREM CyclesExpandOnce == Spec => []ExpandedOnce
<1>1. Init => OInv
  <2>1. Init => Fresh
    BY DEF Init, Fresh
  <2> QED BY <2>1, FreshSteady, InitIInv DEF OInv
<1>2. OInv /\ [Next]_vars => OInv'
  BY NextIInv, NextSteady DEF OInv
<1>3. OInv => ExpandedOnce
  <2> SUFFICES ASSUME OInv, Whole(doc), NEW i \in DOMAIN openLiterals,
                      NEW j \in openLiterals[i].at..Len(doc), NEW k \in openLiterals[i].at..Len(doc),
                      j # k, doc[j].how = "struct", doc[k].how = "struct", doc[j].lit = doc[k].lit
               PROVE  ~Expansion!OnOneCycle(openLiterals[i].lit, doc[j].lit)
    BY DEF ExpandedOnce
  <2>1. openLiterals[i] \in Frame /\ openLiterals[i].at \in DOMAIN doc
    BY DEF OInv, IInv, TypeOK
  <2>2. j \in DOMAIN doc
    BY <2>1 DEF OInv, IInv, TypeOK, Document
  <2>3. openLiterals[i].lit \in Expansion!Lits /\ doc[j].lit \in Expansion!Lits
    <3>1. doc[j].lit \in Expanded
      BY <2>2 DEF Expanded
    <3> QED BY <2>1, <3>1, ExpandedTyped DEF OInv, IInv, Frame
  <2> QED BY <2>3 DEF OInv, Steady, OnceBelow, LitOf
<1> QED BY <1>1, <1>2, <1>3, PTL DEF Spec

-----------------------------------------------------------------------------
(* The limit is reported once, for the first field that passed it. *)

\* The fields of this analysis that a limit cut short.
LimitedFields == {j \in (begun + 1)..Len(documented) : Limited(documented[j].doc)}

\* FirstReported, with the first of them named.
Reported ==
    IF LimitedFields = {}
    THEN literalWarned = IF Limited(doc) THEN <<LitOf(1)>> ELSE <<>>
    ELSE \E j \in LimitedFields :
           (\A k \in LimitedFields : j <= k) /\ literalWarned = <<documented[j].root.lit>>

\* A literal is open where its site is.
OpenedAtSite == \A i \in DOMAIN openLiterals : openLiterals[i].site.lit = LitOf(i)

FInv == IInv /\ begun <= Len(documented) /\ OpenedAtSite /\ Reported

\* What is not cut at the limit leaves the report as it is.
LEMMA DeliverReported ==
    ASSUME FInv, NEW s \in Expansion!Sites, NEW how \in Outcome, Expansion!Deliver(s, how),
           UNCHANGED <<project, begun>>,
           how = "struct" => FALSE,
           IF how = "limit"
           THEN openLiterals # <<>> /\ literalWarned' = IF literalWarned = <<>> THEN <<LitOf(1)>> ELSE literalWarned
           ELSE UNCHANGED literalWarned
    PROVE  begun <= Len(documented') /\ OpenedAtSite' /\ Reported'
<1> USE DEF FInv, IInv
<1>1. /\ begun \in Nat /\ Len(documented) \in Nat /\ begun <= Len(documented)
      /\ DOMAIN documented = 1..Len(documented)
  BY DEF TypeOK
<1>2. CASE openLiterals = <<>>
  <2> DEFINE field == [root |-> s, doc |-> <<[lit |-> s.lit, how |-> how]>>]
  <2>1. /\ documented' = Append(documented, field) /\ openLiterals' = <<>> /\ doc' = <<>>
        /\ doc = <<>> /\ how # "limit" /\ UNCHANGED literalWarned
    BY <1>2 DEF Expansion!Deliver, CountIsExact
  <2>2. ~Limited(field.doc) /\ ~Limited(doc) /\ ~Limited(doc')
    BY <2>1 DEF Limited
  <2> HIDE DEF field
  <2>3. Len(documented') = Len(documented) + 1 /\ documented'[Len(documented) + 1] = field
        /\ \A j \in 1..Len(documented) : documented'[j] = documented[j]
    BY <2>1 DEF TypeOK
  <2>4. \A j \in (begun + 1)..Len(documented) : j \in 1..Len(documented)
    BY <1>1
  <2>5. \A j \in (begun + 1)..(Len(documented) + 1) :
           j \in (begun + 1)..Len(documented) \/ j = Len(documented) + 1
    BY <1>1
  <2>6. (begun + 1)..Len(documented) \subseteq (begun + 1)..(Len(documented) + 1)
    BY <1>1
  <2>7. LimitedFields' = LimitedFields
    BY <2>2, <2>3, <2>4, <2>5, <2>6 DEF LimitedFields
  <2>8. \A j \in LimitedFields : documented'[j] = documented[j]
    BY <2>3, <2>4 DEF LimitedFields
  <2>9. Reported'
    BY <2>1, <2>2, <2>7, <2>8 DEF Reported
  <2> QED BY <1>1, <2>1, <2>3, <2>9 DEF OpenedAtSite
<1>3. CASE openLiterals # <<>>
  <2>1. PICK n : n = Len(openLiterals)
    OBVIOUS
  <2>2. /\ n \in Nat \ {0} /\ DOMAIN openLiterals = 1..n /\ DOMAIN openLiterals' = 1..n
        /\ openLiterals' = [openLiterals EXCEPT ![n].next = @ + 1]
        /\ doc' = Append(doc, [lit |-> s.lit, how |-> how]) /\ documented' = documented
    BY <1>3, <2>1 DEF Expansion!Deliver, Expansion!Advanced, TypeOK
  <2>3. \A i \in 1..n : openLiterals[i] \in Frame
    BY <2>2 DEF TypeOK
  <2>4. \A i \in 1..n : LitOf(i)' = LitOf(i) /\ openLiterals'[i].site = openLiterals[i].site
    BY <2>2, <2>3 DEF LitOf, Frame
  <2>5. OpenedAtSite'
    BY <2>2, <2>4 DEF OpenedAtSite
  <2>6. Limited(doc') <=> Limited(doc) \/ how = "limit"
    <3> DEFINE entry == [lit |-> s.lit, how |-> how]
    <3>1. doc \in Document /\ entry.how = how
      BY DEF TypeOK
    <3> HIDE DEF entry
    <3>2. /\ Len(doc) \in Nat /\ DOMAIN doc = 1..Len(doc) /\ DOMAIN doc' = 1..(Len(doc) + 1)
          /\ \A j \in 1..Len(doc) : doc'[j] = doc[j]
          /\ doc'[Len(doc) + 1] = entry
      BY <2>2, <3>1 DEF Document, entry
    <3>3. \A j \in 1..(Len(doc) + 1) : j \in 1..Len(doc) \/ j = Len(doc) + 1
      BY <3>2
    <3>4. 1..Len(doc) \subseteq 1..(Len(doc) + 1) /\ Len(doc) + 1 \in 1..(Len(doc) + 1)
      BY <3>2
    <3> QED BY <3>1, <3>2, <3>3, <3>4 DEF Limited
  <2>7. LimitedFields' = LimitedFields
    BY <2>2 DEF LimitedFields
  <2>8. LitOf(1)' = LitOf(1)
    BY <2>2, <2>4
  <2>9. Reported'
    BY <2>2, <2>6, <2>7, <2>8 DEF Reported
  <2> QED BY <1>1, <2>2, <2>5, <2>9
<1> QED BY <1>2, <1>3

\* Entering a literal reports nothing.
LEMMA EnterReported ==
    ASSUME FInv, NEW s \in Expansion!Sites, ExtractLiteral(s), UNCHANGED <<project, begun>>
    PROVE  begun <= Len(documented') /\ OpenedAtSite' /\ Reported'
<1> USE DEF FInv, IInv
<1>1. PICK n : n = Len(openLiterals)
  OBVIOUS
<1>2. /\ Expansion!Struct(s) /\ Expansion!Base + s.up + 1 <= MaxDepth /\ Expansion!Enter(s)
      /\ UNCHANGED <<documented, literalWarned>>
  BY DEF ExtractLiteral, Expansion!Enter
<1>3. /\ n \in Nat /\ DOMAIN openLiterals = 1..n /\ DOMAIN openLiterals' = 1..(n + 1)
      /\ \A i \in 1..n : LitOf(i)' = LitOf(i)
      /\ LitOf(n + 1)' = s.lit
      /\ Len(doc) \in Nat /\ DOMAIN doc = 1..Len(doc) /\ DOMAIN doc' = 1..(Len(doc) + 1)
      /\ \A j \in DOMAIN doc : doc'[j] = doc[j]
      /\ doc'[Len(doc) + 1] = [lit |-> s.lit, how |-> "struct"]
  BY <1>1, <1>2, EnterEffect
<1>4. /\ openLiterals' \in Seq(Frame) /\ Len(openLiterals') = n + 1
      /\ openLiterals'[n + 1].site = s
      /\ \A i \in 1..n : openLiterals'[i].site = openLiterals[i].site
  <2> DEFINE frame == [lit |-> s.lit, depth |-> Expansion!Base + s.up + 1, next |-> 1, site |-> s,
                       at |-> Len(doc) + 1]
             below == IF openLiterals = <<>> THEN <<>> ELSE Expansion!Advanced
  <2>1. openLiterals' \in Seq(Frame) /\ Len(openLiterals') = n + 1
    BY <1>1, <1>2, EnterKeeps
  <2>2. openLiterals' = Append(below, frame) /\ frame.site = s
    BY <1>2 DEF Expansion!Enter
  <2>3. below \in Seq(Frame) /\ Len(below) = n /\ \A i \in 1..n : below[i].site = openLiterals[i].site
    <3>1. CASE openLiterals = <<>>
      BY <1>1, <3>1
    <3>2. CASE openLiterals # <<>>
      <4> DEFINE top == openLiterals[n]
                 moved == [top EXCEPT !.next = @ + 1]
      <4>1. below = [openLiterals EXCEPT ![n] = moved] /\ openLiterals \in Seq(Frame)
            /\ n \in DOMAIN openLiterals
        BY <1>1, <1>3, <3>2 DEF Expansion!Advanced, TypeOK
      <4>2. top \in Frame
        BY <4>1
      <4>3. moved \in Frame /\ moved.site = top.site
        BY <4>2 DEF Frame
      <4> HIDE DEF moved, below
      <4> QED BY <1>1, <1>3, <4>1, <4>3
    <3> QED BY <3>1, <3>2
  <2> HIDE DEF frame, below
  <2> QED BY <2>1, <2>2, <2>3
<1>5. OpenedAtSite'
  BY <1>3, <1>4 DEF OpenedAtSite
<1>6. Limited(doc') <=> Limited(doc)
  <2>1. doc'[Len(doc) + 1].how # "limit"
    BY <1>3
  <2>2. \A j \in 1..(Len(doc) + 1) : j \in 1..Len(doc) \/ j = Len(doc) + 1
    BY <1>3
  <2>3. 1..Len(doc) \subseteq 1..(Len(doc) + 1)
    BY <1>3
  <2> QED BY <1>3, <2>1, <2>2, <2>3 DEF Limited
<1>7. LimitedFields' = LimitedFields
  BY <1>2 DEF LimitedFields
<1>8. Limited(doc) => LitOf(1)' = LitOf(1)
  <2>1. CASE openLiterals = <<>>
    <3>1. DOMAIN doc = {}
      BY <2>1 DEF CountIsExact
    <3> QED BY <3>1 DEF Limited
  <2>2. CASE openLiterals # <<>>
    BY <1>1, <1>3, <2>2
  <2> QED BY <2>1, <2>2
<1>9. Reported'
  BY <1>2, <1>6, <1>7, <1>8 DEF Reported
<1> QED BY <1>2, <1>5, <1>9

\* The field whose outermost literal closes is the one that was reported, if
\* it is the first that a limit cut short.
LEMMA CloseReported ==
    ASSUME FInv, CloseLiteral, UNCHANGED <<project, begun>>
    PROVE  begun <= Len(documented') /\ OpenedAtSite' /\ Reported'
<1> USE DEF FInv, IInv
<1>1. /\ begun \in Nat /\ Len(documented) \in Nat /\ begun <= Len(documented)
      /\ DOMAIN documented = 1..Len(documented)
      /\ openLiterals \in Seq(Frame) /\ openLiterals # <<>> /\ 1 \in DOMAIN openLiterals
      /\ UNCHANGED literalWarned
  BY DEF TypeOK, CloseLiteral
<1>2. CASE Len(openLiterals) = 1
  <2> DEFINE field == [root |-> openLiterals[1].site, doc |-> doc]
             N == Len(documented) + 1
  <2>1. documented' = Append(documented, field) /\ openLiterals' = <<>> /\ doc' = <<>>
    BY <1>2 DEF CloseLiteral, Expansion!Finish
  <2>2. (Limited(field.doc) <=> Limited(doc)) /\ field.root.lit = LitOf(1) /\ ~Limited(doc')
    <3>1. field.root.lit = LitOf(1)
      BY <1>1 DEF OpenedAtSite
    <3> QED BY <2>1, <3>1 DEF Limited
  <2> HIDE DEF field
  <2>3. Len(documented') = N /\ documented'[N] = field
        /\ \A j \in 1..Len(documented) : documented'[j] = documented[j]
    BY <2>1 DEF TypeOK
  <2>4. N \in Nat /\ N = Len(documented) + 1
    BY <1>1
  <2> HIDE DEF N
  <2>5. /\ \A j \in (begun + 1)..Len(documented) : j \in 1..Len(documented) /\ j < N
        /\ \A j \in (begun + 1)..N : j \in (begun + 1)..Len(documented) \/ j = N
        /\ (begun + 1)..Len(documented) \subseteq (begun + 1)..N /\ N \in (begun + 1)..N
    BY <1>1, <2>4
  <2>6. LimitedFields' = LimitedFields \cup (IF Limited(doc) THEN {N} ELSE {})
    BY <2>2, <2>3, <2>5 DEF LimitedFields
  <2>7. \A j \in LimitedFields : documented'[j] = documented[j] /\ j < N /\ j \in Nat
    BY <1>1, <2>3, <2>5 DEF LimitedFields
  <2>8. CASE LimitedFields = {} /\ Limited(doc)
    <3>1. literalWarned' = <<documented'[N].root.lit>> /\ LimitedFields' = {N}
      BY <1>1, <2>2, <2>3, <2>6, <2>8 DEF Reported
    <3> QED BY <2>4, <3>1, <2>1, <2>3, <1>1 DEF Reported, OpenedAtSite
  <2>9. CASE LimitedFields = {} /\ ~Limited(doc)
    BY <1>1, <2>1, <2>2, <2>3, <2>4, <2>6, <2>9 DEF Reported, OpenedAtSite
  <2>10. CASE LimitedFields # {}
    <3>1. PICK j \in LimitedFields :
             (\A k \in LimitedFields : j <= k) /\ literalWarned = <<documented[j].root.lit>>
      BY <2>10 DEF Reported
    <3>2. \A k \in LimitedFields' : j <= k
      BY <2>4, <2>6, <2>7, <3>1
    <3>3. j \in LimitedFields' /\ literalWarned' = <<documented'[j].root.lit>>
      BY <1>1, <2>6, <2>7, <3>1
    <3>4. Reported'
      BY <3>2, <3>3 DEF Reported
    <3>5. OpenedAtSite'
      BY <2>1 DEF OpenedAtSite
    <3> QED BY <1>1, <2>3, <2>4, <3>4, <3>5
  <2> QED BY <2>8, <2>9, <2>10
<1>3. CASE Len(openLiterals) # 1
  <2>1. PICK n : n = Len(openLiterals)
    OBVIOUS
  <2>2. /\ n \in Nat /\ n - 1 \in Nat \ {0}
        /\ DOMAIN openLiterals = 1..n /\ DOMAIN openLiterals' = 1..(n - 1)
        /\ \A i \in 1..(n - 1) : openLiterals'[i] = openLiterals[i]
        /\ UNCHANGED doc
    BY <1>3, <2>1, CloseEffect
  <2>3. documented' = documented
    BY <1>3 DEF CloseLiteral, Expansion!Finish
  <2>4. \A i \in 1..(n - 1) : i \in 1..n
    BY <1>1, <2>1
  <2>5. OpenedAtSite'
    BY <2>2, <2>4 DEF OpenedAtSite, LitOf
  <2>6. LitOf(1)' = LitOf(1)
    <3>1. 1 \in 1..(n - 1)
      BY <2>2
    <3> QED BY <2>2, <3>1 DEF LitOf
  <2>7. LimitedFields' = LimitedFields
    BY <2>3 DEF LimitedFields
  <2> QED BY <1>1, <2>2, <2>3, <2>5, <2>6, <2>7 DEF Reported
<1> QED BY <1>2, <1>3

LEMMA NextFInv == FInv /\ [Next]_vars => FInv'
<1> SUFFICES ASSUME FInv, [Next]_vars
             PROVE  FInv'
  OBVIOUS
<1>1. IInv'
  BY NextIInv DEF FInv
<1>2. CASE UNCHANGED vars
  <2>1. LimitedFields' = LimitedFields
    BY <1>2 DEF LimitedFields, vars
  <2> QED BY <1>1, <1>2, <2>1 DEF FInv, OpenedAtSite, Reported, LitOf, vars
<1>3. CASE AnalyzeAgain
  <2>1. openLiterals' = <<>> /\ literalWarned' = <<>> /\ documented' = documented
        /\ begun' = Len(documented)
    BY <1>3 DEF AnalyzeAgain, Reset
  <2>2. Len(documented) \in Nat
    BY DEF FInv, IInv, TypeOK
  <2>3. LimitedFields' = {}
    BY <2>1, <2>2 DEF LimitedFields
  <2>4. ~Limited(doc')
    <3>1. DOMAIN doc' = {}
      BY <1>1, <2>1 DEF IInv, CountIsExact
    <3> QED BY <3>1 DEF Limited
  <2>5. OpenedAtSite'
    BY <2>1 DEF OpenedAtSite
  <2> QED BY <1>1, <2>1, <2>2, <2>3, <2>4, <2>5 DEF FInv, Reported
<1>4. CASE CloseLiteral /\ UNCHANGED <<project, run, begun>>
  <2>1. begun' <= Len(documented')
    BY <1>4, CloseReported
  <2> QED BY <1>1, <1>4, <2>1, CloseReported DEF FInv
<1>5. ASSUME NEW s \in Expansion!Sites, Resolve(s), UNCHANGED <<project, run, begun>>
      PROVE  FInv'
  <2>1. ASSUME NEW how \in Outcome \ {"struct", "limit"}, Expansion!Deliver(s, how), UNCHANGED literalWarned
        PROVE  FInv'
    BY <1>1, <1>5, <2>1, DeliverReported DEF FInv
  <2>2. CASE Lose(s)
    BY <2>1, <2>2 DEF Lose, Expansion!Lose, Outcome
  <2>3. CASE LeaveBare(s)
    BY <2>1, <2>3 DEF LeaveBare, Expansion!LeaveBare, Outcome
  <2>4. CASE MarshalerLeaf(s)
    BY <2>1, <2>4 DEF MarshalerLeaf, Expansion!Leaf, Outcome
  <2>5. CASE CloseCycle(s)
    BY <2>1, <2>5 DEF CloseCycle, Outcome
  <2>6. CASE CutAtDepth(s)
    BY <2>1, <2>6 DEF CutAtDepth, Outcome
  <2>7. CASE CutAtLimit(s)
    <3>1. openLiterals # <<>> /\ Expansion!Deliver(s, "limit")
      BY <2>7 DEF CutAtLimit, LimitReached, OutermostOnly
    <3>2. literalWarned' = IF literalWarned = <<>> THEN <<LitOf(1)>> ELSE literalWarned
      BY <2>7, <3>1 DEF CutAtLimit, FInv, IInv, CountIsExact
    <3>3. "limit" \in Outcome
      BY DEF Outcome
    <3>4. begun <= Len(documented') /\ OpenedAtSite' /\ Reported'
      BY <1>5, <3>1, <3>2, <3>3, DeliverReported
    <3> QED BY <1>1, <1>5, <3>4 DEF FInv
  <2>8. CASE ExtractLiteral(s)
    BY <1>1, <1>5, <2>8, EnterReported DEF FInv
  <2> QED BY <1>5, <2>2, <2>3, <2>4, <2>5, <2>6, <2>7, <2>8 DEF Resolve
<1> QED BY <1>2, <1>3, <1>4, <1>5 DEF Next, Done

\* The limit is reported once in an analysis, with the literal of the first
\* field that passed it (literalLimitWarning), however many analyses there are.
THEOREM FirstIsReported == Spec => []FirstReported
<1>1. Init => FInv
  <2> SUFFICES ASSUME Init
               PROVE  FInv
    OBVIOUS
  <2>1. DOMAIN openLiterals = {} /\ DOMAIN doc = {} /\ Len(documented) = 0 /\ begun = 0
        /\ literalWarned = <<>>
    BY DEF Init
  <2>2. LimitedFields = {} /\ ~Limited(doc)
    BY <2>1 DEF LimitedFields, Limited
  <2> QED BY <2>1, <2>2, InitIInv DEF FInv, OpenedAtSite, Reported
<1>2. FInv => FirstReported
  <2> SUFFICES ASSUME FInv
               PROVE  FirstReported
    OBVIOUS
  <2>1. CASE LimitedFields = {}
    BY <2>1 DEF FInv, Reported, FirstReported, LimitedFields, LitOf
  <2>2. CASE LimitedFields # {}
    <3>1. PICK j \in LimitedFields :
             (\A k \in LimitedFields : j <= k) /\ literalWarned = <<documented[j].root.lit>>
      BY <2>2 DEF FInv, Reported
    <3> DEFINE first == CHOOSE i \in LimitedFields : \A k \in LimitedFields : i <= k
    <3>2. first \in LimitedFields /\ \A k \in LimitedFields : first <= k
      BY <3>1
    <3>3. LimitedFields \subseteq Nat
      BY DEF LimitedFields, FInv, IInv, TypeOK
    <3> HIDE DEF first
    <3>4. first = j
      BY <3>1, <3>2, <3>3
    <3>5. literalWarned = <<documented[first].root.lit>>
      BY <3>1, <3>4
    <3> QED BY <2>2, <3>5 DEF FirstReported, LimitedFields, first
  <2> QED BY <2>1, <2>2
<1> QED BY <1>1, <1>2, NextFInv, PTL DEF Spec

-----------------------------------------------------------------------------
(* What a field documents is a function of its site: the expansion of its  *)
(* literal, from nothing open and no classes, as a walk of one successor.  *)

\* The states a step of F leads to from a.
Walked(L, F, a) ==
    {x \in L : \A S \in SUBSET L : (a \in S /\ \A y \in S : F[y] \in S) => x \in S}

LEMMA WalkedSteps ==
    ASSUME NEW L, NEW F \in [L -> L], NEW a \in L
    PROVE  /\ a \in Walked(L, F, a)
           /\ \A x \in Walked(L, F, a) : F[x] \in Walked(L, F, a)
           /\ \A x \in Walked(L, F, a) : Walked(L, F, x) \subseteq Walked(L, F, a)
BY DEF Walked

\* What is met after a is a itself or met after its successor.
LEMMA WalkedFirst ==
    ASSUME NEW L, NEW F \in [L -> L], NEW a \in L, NEW x \in Walked(L, F, a)
    PROVE  x = a \/ x \in Walked(L, F, F[a])
<1> DEFINE S == {a} \cup Walked(L, F, F[a])
<1>1. S \in SUBSET L /\ a \in S
  BY DEF Walked
<1>2. ASSUME NEW y \in S
      PROVE  F[y] \in S
  <2>1. CASE y = a
    BY <2>1, WalkedSteps
  <2>2. CASE y \in Walked(L, F, F[a])
    BY <2>2, WalkedSteps
  <2> QED BY <1>2, <2>1, <2>2
<1> HIDE DEF S
<1>3. x \in S
  BY <1>1, <1>2 DEF Walked
<1> QED BY <1>3 DEF S

\* Of two states a walk meets, it meets one after the other.
LEMMA WalkedInOrder ==
    ASSUME NEW L, NEW F \in [L -> L], NEW a \in L, NEW x \in Walked(L, F, a),
           NEW y \in Walked(L, F, a)
    PROVE  x \in Walked(L, F, y) \/ y \in Walked(L, F, x)
<1> DEFINE S == {z \in L : z \in Walked(L, F, y) \/ y \in Walked(L, F, z)}
<1>1. y \in L /\ a \in S /\ S \in SUBSET L
  BY DEF Walked
<1>2. ASSUME NEW z \in S
      PROVE  F[z] \in S
  <2>1. CASE z \in Walked(L, F, y)
    BY <1>1, <2>1, WalkedSteps
  <2>2. CASE y \in Walked(L, F, z)
    <3>1. CASE y = z
      BY <1>1, <3>1, WalkedSteps
    <3>2. CASE y \in Walked(L, F, F[z])
      BY <3>2
    <3> QED BY <2>2, <3>1, <3>2, WalkedFirst
  <2> QED BY <1>2, <2>1, <2>2
<1> HIDE DEF S
<1>3. x \in S
  BY <1>1, <1>2 DEF Walked
<1> QED BY <1>3 DEF S

\* A walk ends in one state.
LEMMA WalkedEnd ==
    ASSUME NEW L, NEW F \in [L -> L], NEW a \in L, NEW x \in Walked(L, F, a),
           NEW y \in Walked(L, F, a), F[x] = x, F[y] = y
    PROVE  x = y
<1>1. ASSUME NEW u \in L, NEW v \in Walked(L, F, u), F[u] = u
      PROVE  v = u
  <2>1. {u} \in SUBSET L /\ \A w \in {u} : F[w] \in {u}
    BY <1>1
  <2> QED BY <2>1 DEF Walked
<1>2. x \in L /\ y \in L
  BY DEF Walked
<1> QED BY <1>1, <1>2, WalkedInOrder

\* The state of one field's expansion, in project p.
LitsOf(p) == DOMAIN p.lits
FrameOf(p) ==
    [lit : LitsOf(p), depth : 0..MaxDepth, next : Nat, site : Expansion!Site, at : Nat]
LocalOf(p) ==
    [open : Seq(FrameOf(p)), root : [LitsOf(p) -> LitsOf(p)], count : Nat,
     doc : Seq([lit : LitsOf(p), how : Outcome])]
Now == [open |-> openLiterals, root |-> cycleRoot, count |-> literalExtracts, doc |-> doc]

TopOf(l) == l.open[Len(l.open)]
Ended(p, l) == ~(TopOf(l).next <= Len(p.lits[TopOf(l).lit].kids))
SiteAt(p, l) == p.lits[TopOf(l).lit].kids[TopOf(l).next]
ClosedIn(l, x) == {i \in DOMAIN l.open : l.root[l.open[i].lit] = l.root[x]}
DepthAt(l, s) == (IF l.open = <<>> THEN 0 ELSE TopOf(l).depth) + s.up

\* What a site is documented as.
How(p, l, s) ==
    IF DepthAt(l, s) > MaxDepth THEN "absent"
    ELSE IF ~s.inline THEN "bare"
    ELSE IF p.lits[s.lit].marshaler THEN "marshaler"
    ELSE IF ClosedIn(l, s.lit) # {} THEN "recursive"
    ELSE IF DepthAt(l, s) + 1 > MaxDepth THEN "depth"
    ELSE IF l.open # <<>> /\ l.count >= MaxExtractions THEN "limit"
    ELSE "struct"

MergedAt(l, x, i) ==
    LET joining == {l.root[k] : k \in {l.open[k].lit : k \in {k \in DOMAIN l.open : k > i}}}
    IN  [m \in DOMAIN l.root |-> IF l.root[m] \in joining THEN l.root[x] ELSE l.root[m]]
MergedIn(l, x) ==
    MergedAt(l, x, CHOOSE i \in ClosedIn(l, x) : \A k \in ClosedIn(l, x) : i <= k)

AdvancedIn(l) == [l.open EXCEPT ![Len(l.open)].next = @ + 1]

DeliveredIn(l, s, how) ==
    [open |-> AdvancedIn(l), root |-> IF how = "recursive" THEN MergedIn(l, s.lit) ELSE l.root,
     count |-> l.count, doc |-> Append(l.doc, [lit |-> s.lit, how |-> how])]

EnteredIn(l, s) ==
    [open |-> Append(IF l.open = <<>> THEN <<>> ELSE AdvancedIn(l),
                     [lit |-> s.lit, depth |-> DepthAt(l, s) + 1, next |-> 1, site |-> s,
                      at |-> Len(l.doc) + 1]),
     root |-> l.root, count |-> IF l.open = <<>> THEN 1 ELSE l.count + 1,
     doc |-> Append(l.doc, [lit |-> s.lit, how |-> "struct"])]

ClosedLast(l) ==
    [open |-> SubSeq(l.open, 1, Len(l.open) - 1), root |-> l.root, count |-> l.count, doc |-> l.doc]

\* The step after l; the outermost literal's end is the walk's.
After(p, l) ==
    IF Ended(p, l) THEN (IF Len(l.open) = 1 THEN l ELSE ClosedLast(l))
    ELSE IF How(p, l, SiteAt(p, l)) = "struct" THEN EnteredIn(l, SiteAt(p, l))
    ELSE DeliveredIn(l, SiteAt(p, l), How(p, l, SiteAt(p, l)))

WalkOf(p) == [l \in LocalOf(p) |-> IF After(p, l) \in LocalOf(p) THEN After(p, l) ELSE l]

\* Nothing open, no classes.
Blank(p) == [open |-> <<>>, root |-> [l \in LitsOf(p) |-> l], count |-> 0, doc |-> <<>>]

Expanding(p, s) == Walked(LocalOf(p), WalkOf(p), EnteredIn(Blank(p), s))

\* What the field at s may document.
Documents(p, s) ==
    IF How(p, Blank(p), s) # "struct"
    THEN {<<[lit |-> s.lit, how |-> How(p, Blank(p), s)]>>}
    ELSE {l.doc : l \in {l \in Expanding(p, s) : Len(l.open) = 1 /\ Ended(p, l)}}

\* It documents one thing.
LEMMA DocumentsOne ==
    ASSUME NEW p, NEW s, EnteredIn(Blank(p), s) \in LocalOf(p) \/ How(p, Blank(p), s) # "struct",
           NEW d \in Documents(p, s), NEW e \in Documents(p, s)
    PROVE  d = e
<1>1. CASE How(p, Blank(p), s) # "struct"
  BY <1>1 DEF Documents
<1>2. CASE How(p, Blank(p), s) = "struct"
  <2>1. PICK x \in Expanding(p, s) : d = x.doc /\ Len(x.open) = 1 /\ Ended(p, x)
    BY <1>2 DEF Documents
  <2>2. PICK y \in Expanding(p, s) : e = y.doc /\ Len(y.open) = 1 /\ Ended(p, y)
    BY <1>2 DEF Documents
  <2>3. x \in LocalOf(p) /\ y \in LocalOf(p)
    BY DEF Expanding, Walked
  <2>4. WalkOf(p) \in [LocalOf(p) -> LocalOf(p)]
    BY DEF WalkOf
  <2>5. WalkOf(p)[x] = x /\ WalkOf(p)[y] = y
    BY <2>1, <2>2, <2>3 DEF WalkOf, After
  <2>6. x = y
    BY <1>2, <2>4, <2>5, WalkedEnd DEF Expanding
  <2> QED BY <2>1, <2>2, <2>6
<1> QED BY <1>1, <1>2

Proper(p, s) == How(p, Blank(p), s) = "struct" => EnteredIn(Blank(p), s) \in LocalOf(p)

\* What is open is part of its field's expansion, and so was every document.
Traced ==
    \A p \in {project} :
      /\ openLiterals # <<>> => \A s \in {openLiterals[1].site} :
           /\ How(p, Blank(p), s) = "struct" /\ Proper(p, s)
           /\ Now \in Expanding(p, s)
      /\ \A i \in DOMAIN documented : \A s \in {documented[i].root}, d \in {documented[i].doc} :
           Proper(p, s) /\ d \in Documents(p, s)

GInv == IInv /\ Steady /\ Traced

NowLocal == Now \in LocalOf(project)

LEMMA NowTyped == IInv => NowLocal
BY DEF IInv, NowLocal, TypeOK, Now, LocalOf, LitsOf, FrameOf, Frame, Document, Expansion!Lits

\* The site is documented as How says.
LEMMA ResolvedHow ==
    ASSUME IInv, NEW s \in Expansion!Sites, Resolve(s), NEW p, p = project
    PROVE  /\ How(p, Now, s) \in Outcome
           /\ ExtractLiteral(s) <=> How(p, Now, s) = "struct"
           /\ ~ExtractLiteral(s) =>
                /\ Expansion!Deliver(s, How(p, Now, s)) /\ UNCHANGED literalExtracts
                /\ How(p, Now, s) = "recursive" => CloseCycle(s)
                /\ How(p, Now, s) # "recursive" => UNCHANGED cycleRoot
<1>1. DepthAt(Now, s) = Expansion!Base + s.up
  BY DEF DepthAt, Now, TopOf, Expansion!Base, Expansion!Top
<1>2. ClosedIn(Now, s.lit) = Closed(s.lit) /\ p.lits[s.lit] = project.lits[s.lit]
      /\ Now.open = openLiterals /\ Now.count = literalExtracts
  BY DEF ClosedIn, Closed, Now
<1>3. Expansion!Base + s.up \in Int
  <2>1. s.up \in Nat
    BY SiteTyped DEF IInv, Expansion!Site
  <2>2. CASE openLiterals = <<>>
    BY <2>1, <2>2 DEF Expansion!Base
  <2>3. CASE openLiterals # <<>>
    <3>1. openLiterals[Len(openLiterals)] \in Frame
      BY <2>3 DEF IInv, TypeOK
    <3> QED BY <2>1, <2>3, <3>1, LimitsAssumption DEF Expansion!Base, Expansion!Top, Frame
  <2> QED BY <2>2, <2>3
<1>4. literalExtracts \in Int
  BY LimitsAssumption DEF IInv, TypeOK
<1> DEFINE b == Expansion!Base + s.up
           h == How(p, Now, s)
<1>5. h = IF b > MaxDepth THEN "absent"
          ELSE IF ~s.inline THEN "bare"
          ELSE IF project.lits[s.lit].marshaler THEN "marshaler"
          ELSE IF Closed(s.lit) # {} THEN "recursive"
          ELSE IF b + 1 > MaxDepth THEN "depth"
          ELSE IF openLiterals # <<>> /\ literalExtracts >= MaxExtractions THEN "limit"
          ELSE "struct"
  BY <1>1, <1>2 DEF How
<1> HIDE DEF b, h
<1>6. b \in Int /\ MaxDepth \in Int /\ MaxExtractions \in Int
  BY <1>3, LimitsAssumption DEF b
<1>7. CASE Lose(s)
  <2>1. h = "absent" /\ ~ExtractLiteral(s)
    BY <1>5, <1>6, <1>7 DEF Lose, Expansion!Lose, ExtractLiteral, Expansion!Struct, Expansion!Documented, b
  <2> QED BY <1>7, <2>1 DEF Lose, Expansion!Lose, unchangedCycles, Outcome, h
<1>8. CASE LeaveBare(s)
  <2>1. h = "bare" /\ ~ExtractLiteral(s)
    BY <1>5, <1>6, <1>8 DEF LeaveBare, Expansion!LeaveBare, ExtractLiteral, Expansion!Struct, Expansion!Documented, b
  <2> QED BY <1>8, <2>1 DEF LeaveBare, Expansion!LeaveBare, unchangedCycles, Outcome, h
<1>9. CASE MarshalerLeaf(s)
  <2>1. h = "marshaler" /\ ~ExtractLiteral(s)
    BY <1>5, <1>6, <1>9 DEF MarshalerLeaf, Expansion!Leaf, ExtractLiteral, Expansion!Struct, Expansion!Documented, b
  <2> QED BY <1>9, <2>1 DEF MarshalerLeaf, Expansion!Leaf, unchangedCycles, Outcome, h
<1>10. CASE CloseCycle(s)
  <2>1. h = "recursive" /\ ~ExtractLiteral(s)
    BY <1>5, <1>6, <1>10 DEF CloseCycle, ExtractLiteral, Expansion!Struct, Expansion!Documented, b
  <2> QED BY <1>10, <2>1 DEF CloseCycle, Outcome, h
<1>11. CASE CutAtDepth(s)
  <2>1. h = "depth" /\ ~ExtractLiteral(s)
    BY <1>5, <1>6, <1>11 DEF CutAtDepth, ExtractLiteral, Expansion!Struct, Expansion!Documented, b
  <2> QED BY <1>11, <2>1 DEF CutAtDepth, unchangedCycles, Outcome, h
<1>12. CASE CutAtLimit(s)
  <2>1. h = "limit" /\ ~ExtractLiteral(s)
    BY <1>5, <1>6, <1>12 DEF CutAtLimit, ExtractLiteral, Expansion!Struct, Expansion!Documented, b,
         LimitReached, OutermostOnly
  <2> QED BY <1>12, <2>1 DEF CutAtLimit, unchangedCycles, Outcome, h
<1>13. CASE ExtractLiteral(s)
  <2>1. h = "struct"
    BY <1>5, <1>6, <1>13 DEF ExtractLiteral, Expansion!Struct, Expansion!Documented, b,
         LimitReached, OutermostOnly
  <2> QED BY <1>13, <2>1 DEF Outcome, h
<1> QED BY <1>7, <1>8, <1>9, <1>10, <1>11, <1>12, <1>13 DEF Resolve

\* Below an open literal every step is the walk's.
LEMMA StepIsAfter ==
    ASSUME IInv, [Next]_vars, openLiterals # <<>>, NEW p, p = project, project' = project,
           \/ CloseLiteral /\ Len(openLiterals) # 1
           \/ \E s \in Expansion!Sites : Resolve(s)
    PROVE  Now' = After(p, Now) /\ openLiterals' # <<>> /\ openLiterals'[1].site = openLiterals[1].site
<1>1. PICK n : n = Len(openLiterals)
  OBVIOUS
<1>2. n \in Nat \ {0} /\ openLiterals \in Seq(Frame) /\ DOMAIN openLiterals = 1..n /\ 1 \in 1..n
  BY <1>1 DEF IInv, TypeOK
<1>3. Ended(p, Now) <=> Expansion!Sites = {}
  BY DEF Ended, Now, TopOf, Expansion!Sites, Expansion!Top, Expansion!Kids
<1>4. Now.open = openLiterals /\ Now.root = cycleRoot /\ Now.count = literalExtracts /\ Now.doc = doc
  BY DEF Now
<1>5. Now' = [open |-> openLiterals', root |-> cycleRoot', count |-> literalExtracts', doc |-> doc']
  BY DEF Now
<1>6. CASE CloseLiteral /\ Len(openLiterals) # 1
  <2>1. openLiterals' = SubSeq(openLiterals, 1, Len(openLiterals) - 1)
        /\ UNCHANGED <<cycleRoot, literalExtracts, doc>> /\ Expansion!Sites = {}
    BY <1>6 DEF CloseLiteral, Forget, Expansion!Finish
  <2>2. Now' = After(p, Now)
    BY <1>3, <1>4, <1>5, <1>6, <2>1 DEF After, ClosedLast
  <2>3. n - 1 \in Nat \ {0} /\ Len(openLiterals') = n - 1 /\ openLiterals'[1] = openLiterals[1]
        /\ DOMAIN openLiterals' = 1..(n - 1) /\ n \in Nat
    <3>1. /\ n \in Nat /\ n - 1 \in Nat \ {0}
          /\ DOMAIN openLiterals' = 1..(n - 1) /\ Len(openLiterals') = n - 1
          /\ \A i \in 1..(n - 1) : openLiterals'[i] = openLiterals[i]
      BY <1>1, <1>6, CloseEffect
    <3>2. 1 \in 1..(n - 1)
      BY <3>1
    <3> QED BY <3>1, <3>2
  <2> QED BY <2>2, <2>3
<1>7. ASSUME NEW s \in Expansion!Sites, Resolve(s)
      PROVE  Now' = After(p, Now) /\ openLiterals' # <<>> /\ openLiterals'[1].site = openLiterals[1].site
  <2>1. SiteAt(p, Now) = s /\ ~Ended(p, Now)
    BY <1>3, <1>4 DEF SiteAt, TopOf, Expansion!Sites, Expansion!Top, Expansion!Kids
  <2>2. AdvancedIn(Now) = Expansion!Advanced
    BY <1>4 DEF AdvancedIn, Expansion!Advanced
  <2>3. DepthAt(Now, s) = Expansion!Base + s.up
    BY DEF DepthAt, Now, TopOf, Expansion!Base, Expansion!Top
  <2>4. /\ Expansion!Advanced # <<>> /\ Expansion!Advanced[1].site = openLiterals[1].site
        /\ Expansion!Advanced \in Seq(Frame)
    <3> DEFINE top == openLiterals[n]
               moved == [top EXCEPT !.next = @ + 1]
    <3>1. Expansion!Advanced = [openLiterals EXCEPT ![n] = moved] /\ n \in DOMAIN openLiterals
      BY <1>1, <1>2 DEF Expansion!Advanced
    <3>2. top \in Frame
      BY <1>2, <3>1
    <3>3. moved \in Frame /\ moved.site = top.site
      BY <3>2 DEF Frame
    <3> HIDE DEF moved
    <3> QED BY <1>1, <1>2, <3>1, <3>3
  <2>5. CASE ExtractLiteral(s)
    <3> DEFINE frame == [lit |-> s.lit, depth |-> Expansion!Base + s.up + 1, next |-> 1, site |-> s,
                         at |-> Len(doc) + 1]
    <3>1. /\ openLiterals' = Append(Expansion!Advanced, frame)
          /\ doc' = Append(doc, [lit |-> s.lit, how |-> "struct"])
          /\ cycleRoot' = cycleRoot /\ literalExtracts' = literalExtracts + 1
      BY <2>5 DEF ExtractLiteral, Expansion!Enter, Count, OutermostOnly
    <3>2. How(p, Now, s) = "struct"
      BY <1>7, <2>5, ResolvedHow
    <3>3. Now' = EnteredIn(Now, s)
      BY <1>4, <1>5, <2>2, <2>3, <3>1 DEF EnteredIn
    <3>4. Now' = After(p, Now)
      BY <2>1, <3>2, <3>3 DEF After
    <3> HIDE DEF frame
    <3>5. openLiterals' # <<>> /\ openLiterals'[1] = Expansion!Advanced[1]
      BY <2>4, <3>1
    <3> QED BY <2>4, <3>4, <3>5
  <2>6. CASE ~ExtractLiteral(s)
    <3>1. PICK how \in Outcome : how = How(p, Now, s)
      BY <1>7, ResolvedHow
    <3>2. /\ how # "struct" /\ Expansion!Deliver(s, how) /\ UNCHANGED literalExtracts
          /\ how = "recursive" => CloseCycle(s)
          /\ how # "recursive" => UNCHANGED cycleRoot
      BY <1>7, <2>6, <3>1, ResolvedHow
    <3>3. openLiterals' = Expansion!Advanced /\ doc' = Append(doc, [lit |-> s.lit, how |-> how])
      BY <3>2 DEF Expansion!Deliver
    <3>4. how = "recursive" => cycleRoot' = MergedIn(Now, s.lit)
      <4> SUFFICES ASSUME how = "recursive"
                   PROVE  cycleRoot' = MergedIn(Now, s.lit)
        OBVIOUS
      <4>1. PICK i \in Closed(s.lit) :
               (\A k \in Closed(s.lit) : i <= k) /\ Join(s.lit, Joined(s.lit, i))
        BY <3>2 DEF CloseCycle
      <4>2. ClosedIn(Now, s.lit) = Closed(s.lit) /\ Closed(s.lit) \subseteq Nat
        BY <1>2, <1>4 DEF ClosedIn, Closed
      <4> DEFINE first == CHOOSE j \in Closed(s.lit) : \A k \in Closed(s.lit) : j <= k
      <4>3. first \in Closed(s.lit) /\ \A k \in Closed(s.lit) : first <= k
        BY <4>1
      <4> HIDE DEF first
      <4>4. first = i
        BY <4>1, <4>2, <4>3
      <4>5. MergedIn(Now, s.lit) = MergedAt(Now, s.lit, i)
        BY <4>2, <4>4 DEF MergedIn, first
      <4>6. cycleRoot' = MergedAt(Now, s.lit, i)
        BY <1>4, <4>1 DEF Join, Joined, MergedAt
      <4> QED BY <4>5, <4>6
    <3>5. Now' = DeliveredIn(Now, s, how)
      BY <1>4, <1>5, <2>2, <3>2, <3>3, <3>4 DEF DeliveredIn
    <3>6. Now' = After(p, Now)
      BY <2>1, <3>1, <3>2, <3>5 DEF After
    <3> QED BY <2>4, <3>3, <3>6
  <2> QED BY <2>5, <2>6
<1> QED BY <1>6, <1>7

LEMMA NextTraced ==
    ASSUME GInv, [Next]_vars
    PROVE  Traced'
<1> USE DEF GInv
<1>1. IInv'
  BY NextIInv
<1>2. NowLocal /\ NowLocal'
  BY <1>1, NowTyped, PTL
<1>3. PICK p : p = project
  OBVIOUS
<1>4. ASSUME NEW i \in DOMAIN documented
      PROVE  Proper(p, documented[i].root) /\ documented[i].doc \in Documents(p, documented[i].root)
  BY <1>3 DEF Traced
<1>5. openLiterals # <<>> =>
        /\ How(p, Blank(p), openLiterals[1].site) = "struct" /\ Proper(p, openLiterals[1].site)
        /\ Now \in Expanding(p, openLiterals[1].site)
  BY <1>3 DEF Traced
<1>6. documented \in Seq([root : Expansion!Site, doc : Document])
  BY DEF IInv, TypeOK
<1>7. CASE UNCHANGED vars
  BY <1>3, <1>4, <1>5, <1>7 DEF Traced, Now, vars
<1>8. CASE AnalyzeAgain
  BY <1>3, <1>4, <1>8 DEF Traced, AnalyzeAgain, Reset
<1>9. CASE /\ openLiterals # <<>> /\ UNCHANGED <<project, documented>>
           /\ \/ CloseLiteral /\ Len(openLiterals) # 1
              \/ \E s \in Expansion!Sites : Resolve(s)
  <2>1. Now' = After(p, Now) /\ openLiterals' # <<>> /\ openLiterals'[1].site = openLiterals[1].site
    BY <1>3, <1>9, StepIsAfter
  <2>2. Now \in LocalOf(p) /\ Now' \in LocalOf(p)
    BY <1>2, <1>3, <1>9 DEF NowLocal
  <2>3. WalkOf(p) \in [LocalOf(p) -> LocalOf(p)] /\ WalkOf(p)[Now] = Now'
    BY <2>1, <2>2 DEF WalkOf
  <2>4. EnteredIn(Blank(p), openLiterals[1].site) \in LocalOf(p)
    BY <1>5, <1>9 DEF Proper
  <2>5. Now' \in Expanding(p, openLiterals[1].site)
    BY <1>5, <1>9, <2>3, <2>4, WalkedSteps DEF Expanding
  <2> QED BY <1>3, <1>4, <1>5, <1>9, <2>1, <2>5 DEF Traced
\* What is left ends a field, or opens its literal.
<1>10. ASSUME NEW r, NEW d, Proper(p, r), d \in Documents(p, r), openLiterals' = <<>>,
              documented' = Append(documented, [root |-> r, doc |-> d]), UNCHANGED project
       PROVE  Traced'
  <2> DEFINE field == [root |-> r, doc |-> d]
  <2>1. field.root = r /\ field.doc = d
    OBVIOUS
  <2> HIDE DEF field
  <2>2. \A i \in DOMAIN documented' :
           documented'[i] = field \/ (i \in DOMAIN documented /\ documented'[i] = documented[i])
    BY <1>6, <1>10 DEF field
  <2>3. ASSUME NEW i \in DOMAIN documented'
        PROVE  Proper(p, documented'[i].root) /\ documented'[i].doc \in Documents(p, documented'[i].root)
    BY <1>4, <1>10, <2>1, <2>2
  <2> QED BY <1>3, <1>10, <2>3 DEF Traced
<1>11. CASE CloseLiteral /\ Len(openLiterals) = 1 /\ UNCHANGED project
  <2>1. /\ openLiterals # <<>> /\ openLiterals' = <<>> /\ Expansion!Sites = {}
        /\ documented' = Append(documented, [root |-> openLiterals[1].site, doc |-> doc])
    BY <1>11 DEF CloseLiteral, Expansion!Finish
  <2>2. Len(Now.open) = 1 /\ Ended(p, Now) /\ Now.doc = doc
    BY <1>3, <1>11, <2>1 DEF Now, Ended, TopOf, Expansion!Sites, Expansion!Top, Expansion!Kids
  <2>3. doc \in Documents(p, openLiterals[1].site)
    BY <1>5, <2>1, <2>2 DEF Documents
  <2> QED BY <1>5, <1>10, <1>11, <2>1, <2>3
<1>12. ASSUME openLiterals = <<>>, NEW s \in Expansion!Sites, Resolve(s), UNCHANGED project
       PROVE  Traced'
  <2>1. cycleRoot = Identity /\ doc = <<>>
    BY <1>12 DEF Steady, IInv, CountIsExact
  <2>2. How(p, Blank(p), s) = How(p, Now, s)
    <3>1. ClosedIn(Now, s.lit) = {} /\ ClosedIn(Blank(p), s.lit) = {}
          /\ Now.open = <<>> /\ Blank(p).open = <<>>
      BY <1>12 DEF ClosedIn, Now, Blank
    <3> QED BY <3>1 DEF How, DepthAt
  <2>3. CASE ExtractLiteral(s)
    <3>1. How(p, Blank(p), s) = "struct"
      BY <1>3, <1>12, <2>2, <2>3, ResolvedHow
    <3> DEFINE frame == [lit |-> s.lit, depth |-> 0 + s.up + 1, next |-> 1, site |-> s,
                         at |-> Len(doc) + 1]
    <3>2. /\ openLiterals' = Append(<<>>, frame)
          /\ doc' = Append(doc, [lit |-> s.lit, how |-> "struct"])
          /\ cycleRoot' = cycleRoot /\ literalExtracts' = 1 /\ documented' = documented
      BY <1>12, <2>3 DEF ExtractLiteral, Expansion!Enter, Expansion!Base, Count, OutermostOnly
    <3>3. Blank(p).root = cycleRoot
      BY <1>3, <2>1 DEF Blank, Identity, LitsOf, Expansion!Lits
    <3>4. DepthAt(Blank(p), s) = 0 + s.up /\ Blank(p).open = <<>> /\ Blank(p).doc = <<>>
      BY DEF DepthAt, Blank
    <3>5. Now' = EnteredIn(Blank(p), s)
      BY <2>1, <3>2, <3>3, <3>4 DEF Now, EnteredIn
    <3>6. Now' \in LocalOf(p)
      BY <1>2, <1>3, <1>12 DEF NowLocal
    <3>7. Now' \in Expanding(p, s) /\ Proper(p, s)
      <4>1. WalkOf(p) \in [LocalOf(p) -> LocalOf(p)]
        BY DEF WalkOf
      <4> QED BY <3>5, <3>6, <4>1, WalkedSteps DEF Expanding, Proper
    <3>8. openLiterals' # <<>> /\ openLiterals'[1].site = s
      BY <3>2
    <3> QED BY <1>3, <1>4, <1>12, <3>1, <3>2, <3>7, <3>8 DEF Traced
  <2>4. CASE ~ExtractLiteral(s)
    <3>1. PICK how : how = How(p, Now, s)
      OBVIOUS
    <3>2. how # "struct" /\ Expansion!Deliver(s, how)
      BY <1>3, <1>12, <2>4, <3>1, ResolvedHow
    <3>3. openLiterals' = <<>>
          /\ documented' = Append(documented, [root |-> s, doc |-> <<[lit |-> s.lit, how |-> how]>>])
      BY <1>12, <3>2 DEF Expansion!Deliver
    <3>4. Proper(p, s) /\ <<[lit |-> s.lit, how |-> how]>> \in Documents(p, s)
      BY <2>2, <3>1, <3>2 DEF Proper, Documents
    <3> QED BY <1>10, <1>12, <3>3, <3>4
  <2> QED BY <2>3, <2>4
<1>13. ASSUME NEW s \in Expansion!Sites, Resolve(s), UNCHANGED project
       PROVE  Traced'
  <2>1. CASE openLiterals = <<>>
    BY <1>12, <1>13, <2>1
  <2>2. CASE openLiterals # <<>>
    <3>1. documented' = documented
      <4>1. CASE ExtractLiteral(s)
        BY <4>1 DEF ExtractLiteral, Expansion!Enter
      <4>2. CASE ~ExtractLiteral(s)
        <5>1. PICK how : Expansion!Deliver(s, how)
          BY <1>13, <4>2, ResolvedHow
        <5> QED BY <2>2, <5>1 DEF Expansion!Deliver
      <4> QED BY <4>1, <4>2
    <3> QED BY <1>9, <1>13, <2>2, <3>1
  <2> QED BY <2>1, <2>2
<1>14. CASE CloseLiteral /\ UNCHANGED <<project, run, begun>>
  <2>1. CASE Len(openLiterals) = 1
    BY <1>11, <1>14, <2>1
  <2>2. CASE Len(openLiterals) # 1
    BY <1>9, <1>14, <2>2 DEF CloseLiteral, Expansion!Finish
  <2> QED BY <2>1, <2>2
<1> QED BY <1>7, <1>8, <1>13, <1>14 DEF Next, Done

\* What a field documents is a function of its site, so neither the fields nor
\* the analyses before it change it (closeLiteral, AnalyzeProject's resets).
THEOREM FieldsDocumentAlike == Spec => []FieldsIndependent
<1>1. Init => GInv
  <2> SUFFICES ASSUME Init
               PROVE  GInv
    OBVIOUS
  <2>1. IInv /\ Fresh
    BY InitIInv DEF Init, Fresh
  <2>2. Traced
    BY DEF Init, Traced
  <2> QED BY <2>1, <2>2, FreshSteady DEF GInv
<1>2. GInv /\ [Next]_vars => GInv'
  BY NextIInv, NextSteady, NextTraced DEF GInv, OInv
<1>3. GInv => FieldsIndependent
  <2> SUFFICES ASSUME GInv, NEW i \in DOMAIN documented, NEW j \in DOMAIN documented,
                      documented[i].root = documented[j].root
               PROVE  documented[i].doc = documented[j].doc
    BY DEF FieldsIndependent
  <2>1. PICK p : p = project
    OBVIOUS
  <2>2. PICK s : s = documented[i].root
    OBVIOUS
  <2>3. /\ Proper(p, s)
        /\ documented[i].doc \in Documents(p, s) /\ documented[j].doc \in Documents(p, s)
    BY <2>1, <2>2 DEF GInv, Traced
  <2> QED BY <2>3, DocumentsOne DEF Proper
<1> QED BY <1>1, <1>2, <1>3, PTL DEF Spec
=============================================================================
