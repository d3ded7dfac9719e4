----------------------- MODULE TypeRegistrationProofs -----------------------
(***************************************************************************)
(* Proofs about TypeRegistration, for every project: names are never       *)
(* shared, every reference is stamped with the component of the type it    *)
(* leads to, and the recursion is bounded.                                 *)
(*                                                                         *)
(* What makes it inductive is what each open struct is registered for:     *)
(* FramesWait says that a frame documents the very reference its caller    *)
(* still has to stamp, so a stamp made on return is right whatever was     *)
(* registered in between.  Where no chain was cut the registry is the      *)
(* closure of the payloads: ComponentsReached, OthersStamped, NothingCut.  *)
(***************************************************************************)
EXTENDS TypeRegistration, Integers, Sequences, FiniteSets, SequenceTheorems,
        FiniteSetTheorems, WellFoundedInduction, TLAPS

-----------------------------------------------------------------------------
(* Fresh names. *)

\* Suffixes tell names apart.
LEMMA NumberedInjective ==
    ASSUME NEW base \in NameText, NEW m \in Nat, NEW n \in Nat,
           Numbered(base, m) = Numbered(base, n)
    PROVE  m = n
  <1>1. Append(base, m)[Len(base) + 1] = m /\ Append(base, n)[Len(base) + 1] = n
        BY DEF NameText
  <1> QED BY <1>1 DEF Numbered

\* The loop over suffixes ends: some candidate is free.
LEMMA SomeSuffixIsFree ==
    ASSUME NEW base \in NameText, NEW used, IsFiniteSet(used)
    PROVE  FreeSuffixes(base, used) # {}
  <1> SUFFICES ASSUME FreeSuffixes(base, used) = {} PROVE FALSE  OBVIOUS
  <1> DEFINE f == [n \in Suffixes(used) |-> Numbered(base, n)]
  <1>1. Cardinality(used) \in Nat  BY FS_CardinalityType
  <1>2. IsFiniteSet(Suffixes(used)) /\ Cardinality(Suffixes(used)) = Cardinality(used) + 1
        BY <1>1, FS_Interval DEF Suffixes
  <1>3. f \in [Suffixes(used) -> used]  BY DEF FreeSuffixes
  <1>4. PICK x, y \in Suffixes(used) : x # y /\ f[x] = f[y]
    <2>1. Cardinality(used) < Cardinality(Suffixes(used))  BY <1>1, <1>2
    <2> HIDE DEF f
    <2> QED BY <1>2, <1>3, <2>1, FS_PigeonHole
  <1>5. x \in Nat /\ y \in Nat  BY <1>1 DEF Suffixes
  <1> QED BY <1>4, <1>5, NumberedInjective

\* The least free suffix exists.
LEMMA LeastFreeIsFree ==
    ASSUME NEW base \in NameText, NEW used, IsFiniteSet(used)
    PROVE  LeastFree(base, used) \in FreeSuffixes(base, used)
  <1> DEFINE T == FreeSuffixes(base, used)
  <1>1. T \subseteq Nat
        BY FS_CardinalityType DEF FreeSuffixes, Suffixes
  <1>2. \E n \in T : \A m \in T : ~ (<<m, n>> \in OpToRel(<, Nat))
    <2>1. T # {}  BY SomeSuffixIsFree
    <2> HIDE DEF T
    <2> QED BY <1>1, <2>1, NatLessThanWellFounded, WFMin
  <1>3. PICK n \in T : \A m \in T : ~ (<<m, n>> \in OpToRel(<, Nat))
        BY <1>2
  <1>4. ASSUME NEW m \in T PROVE n <= m
    <2>1. CASE m < n
      <3>1. <<m, n>> \in OpToRel(<, Nat)  BY <1>1, <2>1 DEF OpToRel
      <3> QED BY <1>3, <3>1
    <2> QED BY <1>1, <2>1
  <1> QED BY <1>4 DEF LeastFree

\* schemaKey never hands out a component name in use.
THEOREM FreshIsFree ==
    ASSUME NEW base \in NameText, NEW used, IsFiniteSet(used)
    PROVE  Fresh(base, used) \in NameText \ used
  <1>1. CASE base \notin used  BY <1>1 DEF Fresh
  <1>2. CASE base \in used
    <2>1. LeastFree(base, used) \in FreeSuffixes(base, used)  BY LeastFreeIsFree
    <2>2. LeastFree(base, used) \in Nat
          BY <2>1, FS_CardinalityType DEF FreeSuffixes, Suffixes
    <2>3. Numbered(base, LeastFree(base, used)) \notin used
          BY <2>1 DEF FreeSuffixes
    <2>4. Numbered(base, LeastFree(base, used)) \in NameText
          BY <2>2 DEF Numbered, NameText
    <2> QED BY <1>2, <2>3, <2>4 DEF Fresh
  <1> QED BY <1>1, <1>2

-----------------------------------------------------------------------------
(* The inductive invariant. *)

\* What the i-th open struct, or the payloads for i = 0, stands at.
HasNext(i) ==
    IF i = 0 THEN Len(payloads) < Len(source.roots)
    ELSE Stamped(stack[i].name) < Len(RefsOf(typeRegistry[stack[i].name]))

Want(i) ==
    IF i = 0 THEN PayloadTarget(NextRoot)
    ELSE RefsOf(typeRegistry[stack[i].name])[Stamped(stack[i].name) + 1].to

ComponentsOfStructs ==
    \A n \in DOMAIN typeRegistry :
        /\ Under(typeRegistry[n].of) = typeRegistry[n].of
        /\ Stamped(n) <= Len(RefsOf(typeRegistry[n]))
        /\ \E s \in Sites : Documents(n, s)

FramesWait ==
    \A i \in DOMAIN stack :
        /\ HasNext(i - 1)
        /\ Documents(stack[i].name, Want(i - 1))
        /\ i <= stack[i].depth + 1

FramesDistinct ==
    \A i, j \in DOMAIN stack : stack[i].name = stack[j].name => i = j

IInv ==
    /\ TypeOK /\ NamesPaired /\ StampsMatch
    /\ ComponentsOfStructs /\ FramesWait /\ FramesDistinct
    /\ IsFiniteSet(usedNames)
    /\ Len(payloads) <= Len(source.roots)

-----------------------------------------------------------------------------
(* Projects. *)

\* Declarations lead to structs of the project, and so do their references.
LEMMA DeclShape ==
    ASSUME WellFormed(source), NEW s \in Sites
    PROVE  /\ s \in Nat \ {0} /\ DeclOf(s) \in Decl
           /\ Under(s) # 0 => Under(s) \in Sites /\ Under(Under(s)) = Under(s)
           /\ KeySite(s) \in Sites /\ Key(s) \in Identities
  <1>1. source.decls \in Seq(Decl)  BY DEF WellFormed
  <1>2. s \in Nat \ {0} /\ DeclOf(s) \in Decl  BY <1>1 DEF Sites, DeclOf
  <1>3. Under(s) # 0 => Under(s) \in Sites /\ Under(Under(s)) = Under(s)
        BY DEF WellFormed, Under, DeclOf, Sites
  <1>4. KeySite(s) \in Sites
    <2>1. CASE Under(s) = s  BY <2>1 DEF KeySite
    <2>2. CASE Under(s) # s
      <3>1. DeclOf(s).reexport => Under(s) # 0
            BY <2>2 DEF WellFormed, Under, DeclOf, Sites
      <3> QED BY <1>3, <3>1 DEF KeySite
    <2> QED BY <2>1, <2>2
  <1>5. DeclOf(KeySite(s)) \in Decl  BY <1>1, <1>4 DEF Sites, DeclOf
  <1>6. Key(s) \in Identities  BY <1>5 DEF Key, Identity, Identities, Decl
  <1> QED BY <1>2, <1>3, <1>4, <1>6

\* Two names of one component are two names of one struct.
LEMMA KeyDecides ==
    ASSUME WellFormed(source), NEW s \in Sites, NEW t \in Sites, Key(s) = Key(t)
    PROVE  Under(s) = Under(t)
  <1>1. KeySite(s) \in Sites /\ KeySite(t) \in Sites  BY DeclShape
  <1>2. KeySite(s) = KeySite(t)
        BY <1>1 DEF Key, Identity, DeclOf, Sites, WellFormed
  <1>3. ASSUME NEW u \in Sites PROVE Under(KeySite(u)) = Under(u)
    <2>1. CASE DeclOf(u).reexport /\ Under(u) = 0
      <3>1. u # 0  BY DeclShape
      <3> QED BY <2>1, <3>1 DEF WellFormed, Under, DeclOf, Sites
    <2> QED BY <2>1, DeclShape DEF KeySite
  <1> QED BY <1>2, <1>3

\* The references of a struct are to declarations that end at structs.
LEMMA RefShape ==
    ASSUME WellFormed(source), NEW s \in Sites, Under(s) = s
    PROVE  /\ DeclOf(s).refs \in Seq(Ref)
           /\ \A i \in 1..Len(DeclOf(s).refs) :
                /\ DeclOf(s).refs[i].to \in Sites /\ DeclOf(s).refs[i].level \in Nat
                /\ Under(DeclOf(s).refs[i].to) # 0
  <1>1. DeclOf(s).refs \in Seq(Ref)  BY DeclShape DEF Decl
  <1>2. \A i \in DOMAIN DeclOf(s).refs :
          DeclOf(s).refs[i].to \in Sites /\ Under(DeclOf(s).refs[i].to) # 0
        BY DEF WellFormed, Under, DeclOf, Sites
  <1>3. \A i \in 1..Len(DeclOf(s).refs) : DeclOf(s).refs[i] \in Ref  BY <1>1
  <1> QED BY <1>1, <1>2, <1>3 DEF Ref

\* So is what a payload is registered as.
LEMMA RootShape ==
    ASSUME WellFormed(source), NEW i \in 1..Len(source.roots),
           PayloadTarget(source.roots[i]) # 0
    PROVE  /\ PayloadTarget(source.roots[i]) \in Sites
           /\ Under(PayloadTarget(source.roots[i])) # 0
  <1>1. source.roots \in Seq(Root)  BY DEF WellFormed
  <1>2. i \in DOMAIN source.roots  BY <1>1
  <1>3. /\ source.roots[i].to \in Sites
        /\ source.roots[i].twin \in {t \in Sites : source.decls[t].under = t} \cup {0}
        BY <1>2 DEF WellFormed, Sites
  <1>4. \A t \in Sites : t # 0  BY DeclShape
  <1> QED BY <1>3, <1>4 DEF PayloadTarget, Under, DeclOf

-----------------------------------------------------------------------------
(* What the walk stands at. *)

\* The walk stands at what its innermost frame still has to stamp.
LEMMA TargetIsWanted ==
    ASSUME stack \in Seq(FrameType)
    PROVE  /\ Pending <=> HasNext(Len(stack))
           /\ Target = Want(Len(stack))
  <1>1. CASE stack = <<>>  BY <1>1 DEF Pending, HasNext, Target, Want
  <1>2. CASE stack # <<>>
    <2>1. Len(stack) \in Nat /\ Len(stack) # 0  BY <1>2
    <2> QED BY <1>2, <2>1 DEF Pending, HasNext, Target, Want, NextRef, Top
  <1> QED BY <1>1, <1>2

\* Frames and the components they fill are typed.
LEMMA FrameShape ==
    ASSUME IInv, NEW i \in 1..Len(stack)
    PROVE  /\ stack[i] \in FrameType
           /\ stack[i].name \in DOMAIN typeRegistry
           /\ typeRegistry[stack[i].name].of \in Sites
           /\ Under(typeRegistry[stack[i].name].of) = typeRegistry[stack[i].name].of
           /\ typeRegistry[stack[i].name].stamps \in Seq(NameText)
           /\ Stamped(stack[i].name) \in Nat
           /\ RefsOf(typeRegistry[stack[i].name]) \in Seq(Ref)
  <1>1. stack \in Seq(FrameType) /\ i \in DOMAIN stack  BY DEF IInv, TypeOK
  <1>2. stack[i].name \in DOMAIN typeRegistry
        BY <1>1 DEF IInv, FramesWait, Documents
  <1>3. typeRegistry[stack[i].name] \in
            [key : Identities, of : Sites, stamps : Seq(NameText)]
        BY <1>2 DEF IInv, TypeOK
  <1>4. Under(typeRegistry[stack[i].name].of) = typeRegistry[stack[i].name].of
        BY <1>2 DEF IInv, ComponentsOfStructs
  <1>5. RefsOf(typeRegistry[stack[i].name]) \in Seq(Ref)
        BY <1>3, <1>4, RefShape DEF IInv, TypeOK, RefsOf
  <1>6. Stamped(stack[i].name) \in Nat  BY <1>3 DEF Stamped
  <1> QED BY <1>1, <1>2, <1>3, <1>4, <1>5, <1>6

\* What the walk stands at is a type that ends at a struct, one level deeper
\* than the struct it was met in; only a payload may stand at none.
LEMMA TargetShape ==
    ASSUME IInv, Pending
    PROVE  /\ Target # 0 => Target \in Sites /\ Under(Target) # 0
           /\ Depth \in Nat /\ Len(stack) <= Depth
           /\ stack # <<>> => Target # 0
  <1>1. WellFormed(source) /\ stack \in Seq(FrameType) /\ payloads \in Seq(NameText)
        BY DEF IInv, TypeOK
  <1>2. CASE stack = <<>>
    <2>1. Len(payloads) + 1 \in 1..Len(source.roots)
          BY <1>1, <1>2 DEF Pending, WellFormed
    <2> QED BY <1>1, <1>2, <2>1, RootShape DEF Target, Depth, NextRoot
  <1>3. CASE stack # <<>>
    <2> DEFINE n == Len(stack)
               c == typeRegistry[stack[n].name]
               r == RefsOf(c)[Stamped(stack[n].name) + 1]
    <2>1. n \in 1..Len(stack) /\ n \in DOMAIN stack  BY <1>1, <1>3
    <2>2. Stamped(stack[n].name) + 1 \in 1..Len(RefsOf(c))
          BY <1>3, <2>1, FrameShape DEF Pending, Top
    <2>3. r.to \in Sites /\ r.level \in Nat /\ Under(r.to) # 0
          BY <1>1, <2>1, <2>2, FrameShape, RefShape DEF RefsOf
    <2>4. Target = r.to /\ Depth = stack[n].depth + 1 + r.level
          BY <1>3 DEF Target, Depth, NextRef, Top
    <2>5. stack[n].depth \in Nat /\ n <= stack[n].depth + 1
          BY <2>1, FrameShape, MaxDepthAssumption DEF IInv, FramesWait, FrameType
    <2>6. r.to # 0  BY <1>1, <2>3, DeclShape
    <2> HIDE DEF r, c
    <2> QED BY <1>3, <2>1, <2>3, <2>4, <2>5, <2>6
  <1> QED BY <1>2, <1>3

-----------------------------------------------------------------------------
(* Steps. *)

\* A step that only stamps what the k-th frame waits for, popping the frames
\* above it, keeps the invariant.
LEMMA StampIInv ==
    ASSUME IInv, NEW k \in Nat, k \in {Len(stack) - 1, Len(stack)},
           HasNext(k), NEW name \in NameText,
           name = NoComponent \/ Documents(name, Want(k)),
           stack' = SubSeq(stack, 1, k), Stamp(name, stack'),
           UNCHANGED <<source, nameAssign, usedNames>>, depthWarned' \in BOOLEAN
    PROVE  IInv'
  <1>1. WellFormed(source) /\ stack \in Seq(FrameType) /\ payloads \in Seq(NameText)
        BY DEF IInv, TypeOK
  <1>2. k <= Len(stack) /\ Len(stack') = k /\ stack' \in Seq(FrameType)
        /\ \A i \in 1..k : stack'[i] = stack[i]
        BY <1>1
  <1>3. CASE k = 0
    <2>1. stack' = <<>>  BY <1>2, <1>3
    <2>2. payloads' = Append(payloads, name) /\ typeRegistry' = typeRegistry
          BY <2>1 DEF Stamp
    <2>3. source' = source /\ nameAssign' = nameAssign /\ usedNames' = usedNames
          OBVIOUS
    <2>4. TypeOK'
          BY <1>1, <2>1, <2>2, <2>3 DEF IInv, TypeOK, Sites
    <2>5. NamesPaired' /\ ComponentsOfStructs' /\ IsFiniteSet(usedNames)'
      <3>1. \A n, s : Documents(n, s)' <=> Documents(n, s)
            BY <2>2, <2>3 DEF Documents, Key, KeySite, Under, DeclOf, Identity
      <3> QED BY <2>2, <2>3, <3>1
              DEF IInv, NamesPaired, ComponentsOfStructs, Stamped, RefsOf,
                  Under, DeclOf, Sites
    <2>6. StampsMatch'
      <3>1. \A n, s : Documents(n, s)' <=> Documents(n, s)
            BY <2>2, <2>3 DEF Documents, Key, KeySite, Under, DeclOf, Identity
      <3>2. \A r : PayloadTarget(r)' = PayloadTarget(r)
            BY <2>3 DEF PayloadTarget, Under, DeclOf
      <3>3. name = NoComponent
              \/ Documents(name, PayloadTarget(source.roots[Len(payloads) + 1]))
            BY <1>3 DEF Want, NextRoot
      <3>4. \A i \in DOMAIN payloads' :
               \/ i \in DOMAIN payloads /\ payloads'[i] = payloads[i]
               \/ i = Len(payloads) + 1 /\ payloads'[i] = name
            BY <1>1, <2>2
      <3>5. \A c : RefsOf(c)' = RefsOf(c)  BY <2>3 DEF RefsOf, DeclOf
      <3> QED BY <2>2, <2>3, <3>1, <3>2, <3>3, <3>4, <3>5 DEF IInv, StampsMatch
    <2>7. FramesWait' /\ FramesDistinct'
      <3>1. DOMAIN stack' = {}  BY <2>1
      <3> QED BY <3>1 DEF FramesWait, FramesDistinct
    <2>8. Len(payloads') <= Len(source'.roots)
          BY <1>1, <1>3, <2>2, <2>3 DEF HasNext, WellFormed
    <2> QED BY <2>4, <2>5, <2>6, <2>7, <2>8 DEF IInv
  <1>4. CASE k # 0
    <2>0. PICK open : open = stack[k].name  OBVIOUS
    <2>1. k \in 1..Len(stack) /\ stack' # <<>> /\ stack'[Len(stack')].name = open
          BY <1>1, <1>2, <1>4, <2>0
    <2>2. /\ typeRegistry' = [typeRegistry EXCEPT ![open].stamps = Append(@, name)]
          /\ payloads' = payloads
          BY <2>1 DEF Stamp
    <2>3. source' = source /\ nameAssign' = nameAssign /\ usedNames' = usedNames
          OBVIOUS
    <2>4. /\ open \in DOMAIN typeRegistry
          /\ typeRegistry[open].stamps \in Seq(NameText)
          /\ RefsOf(typeRegistry[open]) \in Seq(Ref)
          /\ Stamped(open) \in Nat
          BY <2>0, <2>1, FrameShape
    <2>5. /\ DOMAIN typeRegistry' = DOMAIN typeRegistry
          /\ \A n \in DOMAIN typeRegistry :
               /\ typeRegistry'[n].key = typeRegistry[n].key
               /\ typeRegistry'[n].of = typeRegistry[n].of
               /\ n # open => typeRegistry'[n] = typeRegistry[n]
               /\ n = open => typeRegistry'[n].stamps = Append(typeRegistry[n].stamps, name)
      <3>1. \A n \in DOMAIN typeRegistry :
               typeRegistry[n] \in [key : Identities, of : Sites, stamps : Seq(NameText)]
            BY DEF IInv, TypeOK
      <3> QED BY <2>2, <2>4, <3>1
    <2>6. \A n, s : Documents(n, s)' <=> Documents(n, s)
          BY <2>3, <2>5 DEF Documents, Key, KeySite, Under, DeclOf, Identity
    <2>7. \A n \in DOMAIN typeRegistry :
              /\ RefsOf(typeRegistry[n])' = RefsOf(typeRegistry[n])
              /\ n # open => Stamped(n)' = Stamped(n)
          BY <2>3, <2>5 DEF RefsOf, DeclOf, Stamped
    <2>8. Stamped(open) < Len(RefsOf(typeRegistry[open])) /\ Stamped(open)' = Stamped(open) + 1
          BY <1>4, <2>0, <2>4, <2>5 DEF HasNext, Stamped
    <2>9. TypeOK'
      <3>1. \A n \in DOMAIN typeRegistry :
               typeRegistry[n] \in [key : Identities, of : Sites, stamps : Seq(NameText)]
            BY DEF IInv, TypeOK
      <3>2. \A n \in DOMAIN typeRegistry' :
               typeRegistry'[n] \in [key : Identities, of : Sites, stamps : Seq(NameText)]
        <4>1. typeRegistry'[open] = [typeRegistry[open] EXCEPT !.stamps = Append(@, name)]
              BY <2>2, <2>4
        <4>2. Append(typeRegistry[open].stamps, name) \in Seq(NameText)  BY <2>4
        <4>3. typeRegistry'[open] \in [key : Identities, of : Sites, stamps : Seq(NameText)]
              BY <2>4, <3>1, <4>1, <4>2
        <4> QED BY <2>5, <3>1, <4>3
      <3> QED BY <1>1, <1>2, <2>2, <2>3, <3>2 DEF IInv, TypeOK, Sites
    <2>10. NamesPaired' /\ IsFiniteSet(usedNames)' /\ (Len(payloads) <= Len(source.roots))'
          BY <2>2, <2>3, <2>5 DEF IInv, NamesPaired
    <2>11. ComponentsOfStructs'
      <3>1. \A s : Under(s)' = Under(s)  BY <2>3 DEF Under, DeclOf
      <3>2. \A n \in DOMAIN typeRegistry : Stamped(n) <= Len(RefsOf(typeRegistry[n]))
            BY DEF IInv, ComponentsOfStructs
      <3>3. \A n \in DOMAIN typeRegistry : Stamped(n)' <= Len(RefsOf(typeRegistry[n]))
        <4>1. Stamped(open)' <= Len(RefsOf(typeRegistry[open]))  BY <2>4, <2>8
        <4> QED BY <2>7, <3>2, <4>1
      <3>4. \A n \in DOMAIN typeRegistry' : \E s \in Sites' : Documents(n, s)'
            BY <2>3, <2>5, <2>6 DEF IInv, ComponentsOfStructs, Sites
      <3> QED BY <2>5, <2>7, <3>1, <3>3, <3>4 DEF IInv, ComponentsOfStructs
    <2>12. StampsMatch'
      <3>1. \A r : PayloadTarget(r)' = PayloadTarget(r)
            BY <2>3 DEF PayloadTarget, Under, DeclOf
      <3>2. ASSUME NEW n \in DOMAIN typeRegistry, NEW i \in DOMAIN typeRegistry'[n].stamps
            PROVE  \/ typeRegistry'[n].stamps[i] = NoComponent
                   \/ Documents(typeRegistry'[n].stamps[i], RefsOf(typeRegistry[n])[i].to)
        <4>1. CASE n # open  BY <2>5, <3>2, <4>1 DEF IInv, StampsMatch
        <4>2. CASE n = open
          <5>1. \/ i \in DOMAIN typeRegistry[n].stamps
                     /\ typeRegistry'[n].stamps[i] = typeRegistry[n].stamps[i]
                \/ i = Stamped(open) + 1 /\ typeRegistry'[n].stamps[i] = name
            <6>1. /\ typeRegistry[open].stamps \in Seq(NameText)
                  /\ typeRegistry'[n].stamps = Append(typeRegistry[open].stamps, name)
                  BY <2>4, <2>5, <4>2
            <6>2. i \in 1..(Len(typeRegistry[open].stamps) + 1)  BY <3>2, <6>1
            <6> QED BY <4>2, <6>1, <6>2 DEF Stamped
          <5>2. name = NoComponent \/ Documents(name, RefsOf(typeRegistry[open])[Stamped(open) + 1].to)
                BY <1>4, <2>0 DEF Want
          <5> QED BY <4>2, <5>1, <5>2 DEF IInv, StampsMatch
        <4> QED BY <4>1, <4>2
      <3> QED BY <2>2, <2>3, <2>5, <2>6, <2>7, <3>1, <3>2 DEF IInv, StampsMatch
    <2>13. FramesWait'
      <3>1. ASSUME NEW i \in DOMAIN stack' PROVE (/\ HasNext(i - 1)
                                                  /\ Documents(stack[i].name, Want(i - 1))
                                                  /\ i <= stack[i].depth + 1)'
        <4>1. i \in 1..k /\ i \in DOMAIN stack /\ stack'[i] = stack[i]  BY <1>1, <1>2
        <4>2. HasNext(i - 1) /\ Documents(stack[i].name, Want(i - 1)) /\ i <= stack[i].depth + 1
              BY <4>1 DEF IInv, FramesWait
        <4>3. HasNext(i - 1)' /\ Want(i - 1)' = Want(i - 1)
          <5>1. CASE i = 1
                BY <2>2, <2>3, <4>2, <5>1
                DEF HasNext, Want, NextRoot, PayloadTarget, Under, DeclOf
          <5>2. CASE i # 1
            <6>1. i - 1 \in 1..k /\ i - 1 \in DOMAIN stack /\ i - 1 # k /\ i - 1 # 0
                  BY <1>1, <1>2, <4>1, <5>2
            <6>2. stack'[i - 1] = stack[i - 1] /\ stack[i - 1].name # open
                  BY <1>1, <1>2, <2>0, <2>1, <6>1 DEF IInv, FramesDistinct
            <6>3. stack[i - 1].name \in DOMAIN typeRegistry
                  BY <6>1 DEF IInv, FramesWait, Documents
            <6> QED BY <2>7, <4>2, <6>1, <6>2, <6>3 DEF HasNext, Want
          <5> QED BY <5>1, <5>2
        <4> QED BY <2>6, <4>1, <4>2, <4>3
      <3> QED BY <3>1 DEF FramesWait
    <2>14. FramesDistinct'
      <3>1. \A i \in DOMAIN stack' : i \in DOMAIN stack /\ stack'[i] = stack[i]
            BY <1>1, <1>2
      <3> QED BY <3>1 DEF IInv, FramesDistinct
    <2> QED BY <2>9, <2>10, <2>11, <2>12, <2>13, <2>14 DEF IInv
  <1> QED BY <1>3, <1>4

\* A struct entering the registry takes a name no other has, and nothing
\* registered before it changes.
LEMMA RegisterIInv ==
    ASSUME IInv, RegisterStruct
    PROVE  IInv'
  <1>a. PICK tgt : tgt = Target  OBVIOUS
  <1>b. PICK name : name = SchemaKey(tgt)  OBVIOUS
  <1>c. PICK fresh : fresh = [key |-> Key(tgt), of |-> Under(tgt), stamps |-> <<>>]
        OBVIOUS
  <1>1. WellFormed(source) /\ stack \in Seq(FrameType) /\ payloads \in Seq(NameText)
        BY DEF IInv, TypeOK
  <1>2. /\ Pending /\ ~TooDeep /\ ~Known(tgt) /\ tgt # 0
        /\ typeRegistry' = With(typeRegistry, name, fresh)
        /\ nameAssign' = With(nameAssign, Key(tgt), name)
        /\ usedNames' = usedNames \cup {name}
        /\ stack' = Append(stack, [name |-> name, depth |-> Depth])
        /\ source' = source /\ depthWarned' = depthWarned /\ payloads' = payloads
        BY <1>a, <1>b, <1>c DEF RegisterStruct
  <1>3. /\ tgt \in Sites /\ Under(tgt) # 0
        /\ Depth \in 0..MaxDepth /\ Len(stack) <= Depth
        BY <1>a, <1>2, TargetShape, MaxDepthAssumption DEF TooDeep
  <1>4. /\ Under(tgt) \in Sites /\ Under(Under(tgt)) = Under(tgt)
        /\ KeySite(tgt) \in Sites /\ Key(tgt) \in Identities
        /\ DeclOf(KeySite(tgt)) \in Decl
        BY <1>1, <1>3, DeclShape
  <1>5. Key(tgt) \notin DOMAIN nameAssign
        BY <1>2 DEF IInv, NamesPaired, Known
  <1>6. name \in NameText \ usedNames
    <2> DEFINE d == DeclOf(KeySite(tgt))
    <2>1. name = ComponentName(d, usedNames)  BY <1>b, <1>5 DEF SchemaKey
    <2>2. d.name \in NameText /\ <<d.pkg>> \o d.name \in NameText
      <3>1. d.name \in NameText /\ d.pkg \in Nat  BY <1>4 DEF Decl
      <3> HIDE DEF d
      <3> QED BY <3>1 DEF NameText
    <2>3. Fresh(<<d.pkg>> \o d.name, usedNames) \in NameText \ usedNames
          BY <2>2, FreshIsFree DEF IInv
    <2> QED BY <2>1, <2>2, <2>3 DEF ComponentName
  <1>7. name \notin DOMAIN typeRegistry  BY <1>6 DEF IInv, NamesPaired
  <1>8. /\ DOMAIN typeRegistry' = DOMAIN typeRegistry \cup {name}
        /\ typeRegistry'[name] = fresh
        /\ \A n \in DOMAIN typeRegistry : typeRegistry'[n] = typeRegistry[n]
        BY <1>2, <1>7 DEF With
  <1>9. /\ DOMAIN nameAssign' = DOMAIN nameAssign \cup {Key(tgt)}
        /\ nameAssign'[Key(tgt)] = name
        /\ \A q \in DOMAIN nameAssign : nameAssign'[q] = nameAssign[q]
        BY <1>2, <1>5 DEF With
  <1>10. /\ \A s : Key(s)' = Key(s) /\ Under(s)' = Under(s)
         /\ \A r : PayloadTarget(r)' = PayloadTarget(r)
         /\ \A c : RefsOf(c)' = RefsOf(c)
         /\ \A n \in DOMAIN typeRegistry : Stamped(n)' = Stamped(n)
         BY <1>2, <1>8 DEF Key, KeySite, Under, DeclOf, Identity, PayloadTarget, RefsOf, Stamped
  <1>11. /\ \A n, s : Documents(n, s) => Documents(n, s)'
         /\ Documents(name, tgt)'
         BY <1>c, <1>8, <1>10 DEF Documents
  <1>12. TypeOK'
    <2>1. fresh \in [key : Identities, of : Sites, stamps : Seq(NameText)]
          BY <1>c, <1>4
    <2>2. [name |-> name, depth |-> Depth] \in FrameType  BY <1>3, <1>6 DEF FrameType
    <2>3. stack' \in Seq(FrameType)  BY <1>1, <1>2, <2>2
    <2>4. \A n \in DOMAIN typeRegistry' :
             typeRegistry'[n] \in [key : Identities, of : Sites, stamps : Seq(NameText)]
          BY <1>8, <2>1 DEF IInv, TypeOK
    <2>5. DOMAIN nameAssign' \subseteq Identities  BY <1>4, <1>9 DEF IInv, TypeOK
    <2>6. usedNames' \subseteq NameText  BY <1>2, <1>6 DEF IInv, TypeOK
    <2> QED BY <1>1, <1>2, <2>3, <2>4, <2>5, <2>6 DEF IInv, TypeOK, Sites
  <1>13. NamesPaired' /\ IsFiniteSet(usedNames)' /\ (Len(payloads) <= Len(source.roots))'
    <2>1. usedNames' = DOMAIN typeRegistry'  BY <1>2, <1>8 DEF IInv, NamesPaired
    <2>2. \A k \in DOMAIN nameAssign' :
             nameAssign'[k] \in DOMAIN typeRegistry' /\ typeRegistry'[nameAssign'[k]].key = k
          BY <1>c, <1>8, <1>9 DEF IInv, NamesPaired
    <2>3. \A n \in DOMAIN typeRegistry' :
             typeRegistry'[n].key \in DOMAIN nameAssign'
             /\ nameAssign'[typeRegistry'[n].key] = n
          BY <1>c, <1>8, <1>9 DEF IInv, NamesPaired
    <2>4. IsFiniteSet(usedNames')  BY <1>2, FS_AddElement DEF IInv
    <2> QED BY <1>2, <2>1, <2>2, <2>3, <2>4 DEF IInv, NamesPaired
  <1>14. ComponentsOfStructs'
    <2>1. Stamped(name)' = 0  BY <1>c, <1>8 DEF Stamped
    <2>2. RefsOf(fresh) \in Seq(Ref)  BY <1>c, <1>1, <1>4, RefShape DEF RefsOf
    <2>3. Len(RefsOf(fresh)) >= 0  BY <2>2
    <2>4. Under(fresh.of) = fresh.of  BY <1>c, <1>4
    <2>5. \A n \in DOMAIN typeRegistry' :
            /\ Under(typeRegistry'[n].of) = typeRegistry'[n].of
            /\ Stamped(n)' <= Len(RefsOf(typeRegistry'[n]))
          BY <1>8, <1>10, <2>1, <2>3, <2>4 DEF IInv, ComponentsOfStructs
    <2>6. \A n \in DOMAIN typeRegistry' : \E s \in Sites' : Documents(n, s)'
          BY <1>2, <1>3, <1>8, <1>11 DEF IInv, ComponentsOfStructs, Sites
    <2> QED BY <1>10, <2>5, <2>6 DEF ComponentsOfStructs
  <1>15. StampsMatch'
    <2>1. fresh.stamps = <<>> /\ DOMAIN fresh.stamps = {}  BY <1>c
    <2>2. ASSUME NEW n \in DOMAIN typeRegistry', NEW i \in DOMAIN typeRegistry'[n].stamps
          PROVE  /\ n \in DOMAIN typeRegistry /\ i \in DOMAIN typeRegistry[n].stamps
                 /\ typeRegistry'[n] = typeRegistry[n]
          BY <1>8, <2>1, <2>2
    <2>3. source' = source /\ payloads' = payloads  BY <1>2
    <2> QED BY <1>10, <1>11, <2>2, <2>3 DEF IInv, StampsMatch
  <1>16. FramesWait'
    <2>1. ASSUME NEW j \in 0..Len(stack)
          PROVE  HasNext(j)' = HasNext(j) /\ Want(j)' = Want(j)
      <3>1. CASE j = 0
            BY <1>2, <1>10, <3>1 DEF HasNext, Want, NextRoot
      <3>2. CASE j # 0
        <4>1. j \in 1..Len(stack) /\ stack'[j] = stack[j]  BY <1>1, <1>2, <3>2
        <4>2. stack[j].name \in DOMAIN typeRegistry  BY <4>1, FrameShape
        <4>3. typeRegistry'[stack[j].name] = typeRegistry[stack[j].name]  BY <1>8, <4>2
        <4> QED BY <1>10, <3>2, <4>1, <4>2, <4>3 DEF HasNext, Want
      <3> QED BY <3>1, <3>2
    <2>2. Len(stack) \in Nat /\ HasNext(Len(stack)) /\ Want(Len(stack)) = tgt
          BY <1>a, <1>1, <1>2, TargetIsWanted
    <2>3. ASSUME NEW i \in DOMAIN stack'
          PROVE  (/\ HasNext(i - 1)
                  /\ Documents(stack[i].name, Want(i - 1))
                  /\ i <= stack[i].depth + 1)'
      <3>1. CASE i \in DOMAIN stack
        <4>1. i - 1 \in 0..Len(stack) /\ stack'[i] = stack[i]  BY <1>1, <1>2, <3>1
        <4>2. HasNext(i - 1) /\ Documents(stack[i].name, Want(i - 1)) /\ i <= stack[i].depth + 1
              BY <3>1 DEF IInv, FramesWait
        <4> QED BY <1>11, <2>1, <4>1, <4>2
      <3>2. CASE i \notin DOMAIN stack
        <4>1. i = Len(stack) + 1 /\ stack'[i] = [name |-> name, depth |-> Depth]
              BY <1>1, <1>2, <3>2
        <4>2. i - 1 = Len(stack) /\ i - 1 \in 0..Len(stack)  BY <2>2, <4>1
        <4>3. stack'[i].name = name /\ i <= stack'[i].depth + 1  BY <1>3, <2>2, <4>1
        <4> QED BY <1>11, <2>1, <2>2, <4>2, <4>3
      <3> QED BY <3>1, <3>2
    <2> QED BY <2>3 DEF FramesWait
  <1>17. FramesDistinct'
    <2>1. \A i \in DOMAIN stack' :
            \/ i \in DOMAIN stack /\ stack'[i] = stack[i]
            \/ i = Len(stack) + 1 /\ stack'[i].name = name
          BY <1>1, <1>2
    <2>2. \A i \in DOMAIN stack : stack[i].name \in DOMAIN typeRegistry
          BY DEF IInv, FramesWait, Documents
    <2> QED BY <1>7, <2>1, <2>2 DEF IInv, FramesDistinct
  <1> QED BY <1>12, <1>13, <1>14, <1>15, <1>16, <1>17 DEF IInv

\* Every step keeps the invariant.
LEMMA NextIInv ==
    ASSUME IInv, [Next]_vars
    PROVE  IInv'
  <1>1. WellFormed(source) /\ stack \in Seq(FrameType) /\ <<>> \in NameText
        BY DEF IInv, TypeOK, NameText
  <1>2. Len(stack) \in Nat /\ SubSeq(stack, 1, Len(stack)) = stack  BY <1>1
  <1>3. CASE CutOff
    <2>1. HasNext(Len(stack))  BY <1>1, <1>3, TargetIsWanted DEF CutOff
    <2>2. Stamp(NoComponent, stack') /\ stack' = stack /\ depthWarned' \in BOOLEAN
          BY <1>3 DEF CutOff
    <2> QED BY <1>1, <1>2, <1>3, <2>1, <2>2, StampIInv DEF CutOff, NoComponent
  <1>4. CASE DocumentInline
    <2>1. HasNext(Len(stack))  BY <1>1, <1>4, TargetIsWanted DEF DocumentInline
    <2>2. Stamp(NoComponent, stack') /\ stack' = stack /\ depthWarned' \in BOOLEAN
          BY <1>4 DEF DocumentInline, IInv, TypeOK
    <2> QED BY <1>1, <1>2, <1>4, <2>1, <2>2, StampIInv DEF DocumentInline, NoComponent
  <1>5. CASE ReuseComponent
    <2> DEFINE name == nameAssign[Key(Target)]
    <2>1. HasNext(Len(stack)) /\ Target = Want(Len(stack))
          BY <1>1, <1>5, TargetIsWanted DEF ReuseComponent
    <2>2. Stamp(name, stack') /\ stack' = stack /\ depthWarned' \in BOOLEAN
          BY <1>5 DEF ReuseComponent, IInv, TypeOK
    <2>3. name \in DOMAIN typeRegistry /\ name \in NameText
          BY <1>5 DEF ReuseComponent, Known, IInv, NamesPaired, TypeOK
    <2>4. Documents(name, Target)
      <3>1. typeRegistry[name].key = Key(Target)
            BY <1>5 DEF ReuseComponent, Known, IInv, NamesPaired
      <3>2. PICK s \in Sites : Documents(name, s)
            BY <2>3 DEF IInv, ComponentsOfStructs
      <3>3. Target \in Sites  BY <1>5, TargetShape DEF ReuseComponent
      <3>4. Under(s) = Under(Target)
            BY <1>1, <3>1, <3>2, <3>3, KeyDecides DEF Documents
      <3> QED BY <2>3, <3>1, <3>2, <3>4 DEF Documents
    <2> QED BY <1>1, <1>2, <1>5, <2>1, <2>2, <2>3, <2>4, StampIInv DEF ReuseComponent
  <1>6. CASE RegisterStruct  BY <1>6, RegisterIInv
  <1>7. CASE Return
    <2> DEFINE k == Len(stack) - 1
               name == Top.name
    <2>1. k \in Nat /\ Len(stack) \in DOMAIN stack  BY <1>1, <1>7 DEF Return
    <2>2. HasNext(k) /\ Documents(name, Want(k))
          BY <2>1 DEF IInv, FramesWait, Top
    <2>3. name \in NameText  BY <1>1, <2>1, FrameShape DEF Top, FrameType
    <2>4. stack' = SubSeq(stack, 1, k) /\ Stamp(name, stack') /\ depthWarned' \in BOOLEAN
          BY <1>7 DEF Return, IInv, TypeOK
    <2>5. UNCHANGED <<source, nameAssign, usedNames>>  BY <1>7 DEF Return
    <2> HIDE DEF name
    <2> QED BY <2>1, <2>2, <2>3, <2>4, <2>5, StampIInv
  <1>8. CASE Finished \/ UNCHANGED vars
    <2>1. /\ source' = source /\ stack' = stack /\ typeRegistry' = typeRegistry
          /\ nameAssign' = nameAssign /\ usedNames' = usedNames
          /\ depthWarned' = depthWarned /\ payloads' = payloads
          BY <1>8 DEF Finished, vars
    <2>2. TypeOK' /\ NamesPaired' /\ FramesDistinct'
          BY <2>1 DEF IInv, TypeOK, NamesPaired, FramesDistinct, Sites
    <2>3. \A s : Under(s)' = Under(s) /\ Stamped(s)' = Stamped(s)
          BY <2>1 DEF Under, DeclOf, Stamped
    <2>4. \A c : RefsOf(c)' = RefsOf(c) /\ PayloadTarget(c)' = PayloadTarget(c)
          BY <2>1 DEF RefsOf, PayloadTarget, Under, DeclOf
    <2>5. \A n, s : Documents(n, s)' <=> Documents(n, s)
          BY <2>1 DEF Documents, Key, KeySite, Under, DeclOf, Identity
    <2>6. \A i : (HasNext(i)' <=> HasNext(i)) /\ Want(i)' = Want(i)
          BY <2>1, <2>3, <2>4 DEF HasNext, Want, NextRoot
    <2>7. StampsMatch'  BY <2>1, <2>4, <2>5 DEF IInv, StampsMatch
    <2>8. ComponentsOfStructs'
          BY <2>1, <2>3, <2>4, <2>5 DEF IInv, ComponentsOfStructs, Sites
    <2>9. FramesWait'  BY <2>1, <2>5, <2>6 DEF IInv, FramesWait
    <2> QED BY <2>1, <2>2, <2>7, <2>8, <2>9 DEF IInv
  <1> QED BY <1>3, <1>4, <1>5, <1>6, <1>7, <1>8 DEF Next

\* Nothing is registered before the walk.
LEMMA InitIInv == Init => IInv
  <1> SUFFICES ASSUME Init PROVE IInv  OBVIOUS
  <1>1. WellFormed(source)  BY SourcesAssumption DEF Init
  <1>2. /\ stack = <<>> /\ typeRegistry = <<>> /\ nameAssign = <<>> /\ payloads = <<>>
        /\ usedNames = {} /\ depthWarned = FALSE
        BY DEF Init
  <1>3. /\ DOMAIN stack = {} /\ DOMAIN typeRegistry = {} /\ DOMAIN nameAssign = {}
        /\ DOMAIN payloads = {}
        BY <1>2
  <1>4. TypeOK
    <2>1. <<>> \in Seq(FrameType) /\ <<>> \in Seq(NameText)  OBVIOUS
    <2> QED BY <1>1, <1>2, <1>3, <2>1 DEF TypeOK
  <1>5. NamesPaired /\ StampsMatch /\ ComponentsOfStructs /\ FramesWait /\ FramesDistinct
        BY <1>2, <1>3
        DEF NamesPaired, StampsMatch, ComponentsOfStructs, FramesWait, FramesDistinct
  <1>6. IsFiniteSet(usedNames)  BY <1>2, FS_EmptySet
  <1>7. Len(payloads) <= Len(source.roots)  BY <1>1, <1>2 DEF WellFormed
  <1> QED BY <1>4, <1>5, <1>6, <1>7 DEF IInv

\* The inductive invariant holds of every analysis of every project.
THEOREM RegistrationInvariant == Spec => []IInv
  <1>1. Init => IInv  BY InitIInv
  <1>2. IInv /\ [Next]_vars => IInv'  BY NextIInv
  <1> QED BY <1>1, <1>2, PTL DEF Spec

-----------------------------------------------------------------------------
(* What a reader relies on. *)

\* The state of the registration is well typed.
THEOREM TypeCorrect == Spec => []TypeOK
  <1>1. IInv => TypeOK  BY DEF IInv
  <1> QED BY <1>1, RegistrationInvariant, PTL

\* schemaKey and typeRegistry pair declarations and components one to one, in
\* every project.
THEOREM NamesNeverShared == Spec => []NamesPaired
  <1>1. IInv => NamesPaired  BY DEF IInv
  <1> QED BY <1>1, RegistrationInvariant, PTL

\* Every stamp of registerRefLeaf and adoptRegisteredType names the component
\* of the type that was followed: no $ref dangles or reaches a namesake.
THEOREM ReferencesMatch == Spec => []StampsMatch
  <1>1. IInv => StampsMatch  BY DEF IInv
  <1> QED BY <1>1, RegistrationInvariant, PTL

\* registerTypeAt never recurses past maxTypeRegistrationDepth, and never into
\* a struct it is inside of.
THEOREM RecursionIsBounded == Spec => []RecursionBounded
  <1>1. IInv => RecursionBounded
    <2> SUFFICES ASSUME IInv PROVE RecursionBounded  OBVIOUS
    <2>1. \A i, j \in DOMAIN stack : stack[i].name = stack[j].name => i = j
          BY DEF IInv, FramesDistinct
    <2>2. stack \in Seq(FrameType)  BY DEF IInv, TypeOK
    <2>3. Len(stack) <= MaxDepth + 1
      <3>1. CASE stack = <<>>  BY <3>1, MaxDepthAssumption
      <3>2. CASE stack # <<>>
        <4>1. Len(stack) \in DOMAIN stack /\ Len(stack) \in Nat  BY <2>2, <3>2
        <4>2. stack[Len(stack)].depth \in 0..MaxDepth
              BY <2>2, <4>1, FrameShape DEF FrameType
        <4>3. Len(stack) <= stack[Len(stack)].depth + 1
              BY <4>1 DEF IInv, FramesWait
        <4> QED BY <4>1, <4>2, <4>3, MaxDepthAssumption
      <3> QED BY <3>1, <3>2
    <2> QED BY <2>1, <2>3 DEF RecursionBounded
  <1> QED BY <1>1, RegistrationInvariant, PTL

\* No step takes a name back, moves it, changes what a component describes or
\* stamps a reference twice.
THEOREM NamesAreStable == Spec => NamesStable
  <1> DEFINE Stable ==
        /\ \A k \in DOMAIN nameAssign :
             k \in DOMAIN nameAssign' /\ nameAssign'[k] = nameAssign[k]
        /\ \A n \in DOMAIN typeRegistry :
             /\ n \in DOMAIN typeRegistry'
             /\ typeRegistry'[n].of = typeRegistry[n].of
             /\ \A i \in DOMAIN typeRegistry[n].stamps :
                  typeRegistry'[n].stamps[i] = typeRegistry[n].stamps[i]
  <1>1. IInv /\ [Next]_vars => Stable
    <2> SUFFICES ASSUME IInv, [Next]_vars PROVE Stable  OBVIOUS
    <2>1. CASE RegisterStruct
      <3>1. ~Known(Target) /\ Pending  BY <2>1 DEF RegisterStruct
      <3>2. Key(Target) \notin DOMAIN nameAssign
            BY <3>1 DEF IInv, NamesPaired, Known
      <3>3. SchemaKey(Target) \notin DOMAIN typeRegistry
        <4>1. Target \in Sites  BY <2>1, <3>1, TargetShape DEF RegisterStruct
        <4>2. KeySite(Target) \in Sites
              BY <4>1, DeclShape DEF IInv, TypeOK
        <4>3. DeclOf(KeySite(Target)) \in Decl
              BY <4>2, DeclShape DEF IInv, TypeOK
        <4> DEFINE d == DeclOf(KeySite(Target))
        <4>4. d.name \in NameText /\ d.pkg \in Nat  BY <4>3 DEF Decl
        <4>5. <<d.pkg>> \o d.name \in NameText
          <5> HIDE DEF d
          <5> QED BY <4>4 DEF NameText
        <4>6. ComponentName(d, usedNames) \notin usedNames
              BY <4>5, FreshIsFree DEF IInv, ComponentName
        <4> QED BY <3>2, <4>6 DEF SchemaKey, IInv, NamesPaired
      <3> QED BY <2>1, <3>2, <3>3 DEF RegisterStruct, With
    <2>2. ASSUME NEW name, NEW caller,
                 caller = <<>> \/ caller[Len(caller)].name \in DOMAIN typeRegistry,
                 Stamp(name, caller), nameAssign' = nameAssign
          PROVE  Stable
      <3>1. CASE caller = <<>>  BY <2>2, <3>1 DEF Stamp
      <3>2. CASE caller # <<>>
        <4>1. PICK open : open = caller[Len(caller)].name  OBVIOUS
        <4>2. /\ open \in DOMAIN typeRegistry
              /\ typeRegistry' = [typeRegistry EXCEPT ![open].stamps = Append(@, name)]
              BY <2>2, <3>2, <4>1 DEF Stamp
        <4>3. \A n \in DOMAIN typeRegistry :
                 typeRegistry[n] \in [key : Identities, of : Sites, stamps : Seq(NameText)]
              BY DEF IInv, TypeOK
        <4>4. DOMAIN typeRegistry' = DOMAIN typeRegistry  BY <4>2
        <4>5. \A n \in DOMAIN typeRegistry : n # open => typeRegistry'[n] = typeRegistry[n]
              BY <4>2
        <4>6. typeRegistry'[open] = [typeRegistry[open] EXCEPT !.stamps = Append(@, name)]
              BY <4>2
        <4>7. typeRegistry'[open].of = typeRegistry[open].of
              /\ typeRegistry'[open].stamps = Append(typeRegistry[open].stamps, name)
              BY <4>2, <4>3, <4>6
        <4>8. \A i \in DOMAIN typeRegistry[open].stamps :
                 typeRegistry'[open].stamps[i] = typeRegistry[open].stamps[i]
          <5>1. typeRegistry[open].stamps \in Seq(NameText)  BY <4>2, <4>3
          <5> QED BY <4>7, <5>1
        <4> QED BY <2>2, <4>4, <4>5, <4>7, <4>8
      <3> QED BY <3>1, <3>2
    <2>3. CASE CutOff \/ DocumentInline \/ ReuseComponent \/ Return
      <3>1. stack \in Seq(FrameType)  BY DEF IInv, TypeOK
      <3>2. ASSUME NEW k \in Nat, k <= Len(stack)
            PROVE  \/ SubSeq(stack, 1, k) = <<>>
                   \/ SubSeq(stack, 1, k)[Len(SubSeq(stack, 1, k))].name \in DOMAIN typeRegistry
        <4>1. CASE k = 0  BY <3>1, <4>1
        <4>2. CASE k # 0
          <5>1. k \in 1..Len(stack)  BY <3>1, <3>2, <4>2
          <5>2. SubSeq(stack, 1, k)[Len(SubSeq(stack, 1, k))] = stack[k]
                BY <3>1, <5>1
          <5> QED BY <5>1, <5>2, FrameShape
        <4> QED BY <4>1, <4>2
      <3>3. Len(stack) \in Nat /\ SubSeq(stack, 1, Len(stack)) = stack  BY <3>1
      <3>4. stack = <<>> \/ stack[Len(stack)].name \in DOMAIN typeRegistry
        <4>1. CASE stack # <<>>
          <5>1. Len(stack) \in 1..Len(stack)  BY <3>1, <4>1
          <5> QED BY <5>1, FrameShape
        <4> QED BY <4>1
      <3>5. CASE CutOff  BY <2>2, <3>4, <3>5 DEF CutOff
      <3>6. CASE DocumentInline  BY <2>2, <3>4, <3>6 DEF DocumentInline
      <3>7. CASE ReuseComponent  BY <2>2, <3>4, <3>7 DEF ReuseComponent
      <3>8. CASE Return
        <4>1. Len(stack) - 1 \in Nat /\ Len(stack) - 1 <= Len(stack)
              BY <3>1, <3>8 DEF Return
        <4>2. PICK caller : caller = SubSeq(stack, 1, Len(stack) - 1)  OBVIOUS
        <4>3. caller = <<>> \/ caller[Len(caller)].name \in DOMAIN typeRegistry
              BY <3>2, <4>1, <4>2
        <4>4. Stamp(Top.name, caller) /\ nameAssign' = nameAssign
              BY <3>8, <4>2 DEF Return
        <4> QED BY <2>2, <4>3, <4>4
      <3> QED BY <2>3, <3>5, <3>6, <3>7, <3>8
    <2>4. CASE Finished \/ UNCHANGED vars  BY <2>4 DEF Finished, vars
    <2> QED BY <2>1, <2>3, <2>4 DEF Next
  <1> QED BY <1>1, RegistrationInvariant, PTL DEF Spec, NamesStable

-----------------------------------------------------------------------------
(* The registry is the closure of the payloads. *)

\* Every component is of a declaration that the payloads reach.
ComponentsReached ==
    \A n \in DOMAIN typeRegistry :
        /\ n # NoComponent
        /\ \E s \in Reached : /\ typeRegistry[n].key = Identity(DeclOf(s))
                              /\ typeRegistry[n].of = Under(s)

\* A component whose references are not all stamped is still open.
OthersStamped ==
    \A n \in DOMAIN typeRegistry :
        \/ Stamped(n) = Len(RefsOf(typeRegistry[n]))
        \/ \E i \in DOMAIN stack : stack[i].name = n

\* As long as no chain is cut, only a payload that is no struct has none.
NothingCut ==
    ~depthWarned =>
        /\ \A n \in DOMAIN typeRegistry : \A i \in DOMAIN typeRegistry[n].stamps :
             typeRegistry[n].stamps[i] # NoComponent
        /\ \A i \in DOMAIN payloads :
             PayloadTarget(source.roots[i]) # 0 => payloads[i] # NoComponent

CInv == IInv /\ ComponentsReached /\ OthersStamped /\ NothingCut

\* A name made fresh is still a name.
LEMMA NamesNonEmpty ==
    ASSUME IInv, NEW s \in Sites
    PROVE  ComponentName(DeclOf(s), usedNames) # NoComponent
  <1> DEFINE d == DeclOf(s)
  <1>1. d \in Decl  BY DeclShape DEF IInv, TypeOK
  <1>2. d.name \in NameText /\ d.name # <<>> /\ d.pkg \in Nat  BY <1>1 DEF Decl
  <1> HIDE DEF d
  <1>3. <<d.pkg>> \o d.name \in NameText /\ <<d.pkg>> \o d.name # <<>>
        BY <1>2 DEF NameText
  <1>4. Fresh(<<d.pkg>> \o d.name, usedNames) # <<>>
    <2>1. CASE <<d.pkg>> \o d.name \notin usedNames  BY <1>3, <2>1 DEF Fresh
    <2>2. CASE <<d.pkg>> \o d.name \in usedNames
      <3>1. LeastFree(<<d.pkg>> \o d.name, usedNames) \in Nat
            BY <1>3, LeastFreeIsFree, FS_CardinalityType DEF FreeSuffixes, Suffixes, IInv
      <3>2. \A b \in NameText, n \in Nat : Append(b, n) # <<>>  BY DEF NameText
      <3> QED BY <1>3, <2>2, <3>1, <3>2 DEF Fresh, Numbered
    <2> QED BY <2>1, <2>2
  <1> QED BY <1>2, <1>4 DEF ComponentName, NoComponent, d

\* What a type is registered as has the struct the type ends at.
LEMMA KeySiteUnder ==
    ASSUME WellFormed(source), NEW s \in Sites, Under(s) # 0
    PROVE  KeySite(s) \in Sites /\ Under(KeySite(s)) = Under(s)
           /\ Key(s) = Identity(DeclOf(KeySite(s)))
  BY DeclShape DEF KeySite, Key

\* Reached holds the payloads, and what its members refer to.
LEMMA ReachedClosed ==
    ASSUME WellFormed(source)
    PROVE  /\ RootSites \subseteq Reached
           /\ \A t \in Reached : Under(t) # 0 => NextSites(t) \subseteq Reached
  <1>1. RootSites \subseteq Sites
    <2>1. source.roots \in Seq(Root)  BY DEF WellFormed
    <2>2. \A i \in DOMAIN source.roots : i \in 1..Len(source.roots)  BY <2>1
    <2> QED BY <2>2, RootShape, DeclShape DEF RootSites
  <1>2. ASSUME NEW t \in Sites, Under(t) # 0 PROVE NextSites(t) \subseteq Sites
    <2>1. Under(t) \in Sites /\ Under(Under(t)) = Under(t)  BY <1>2, DeclShape
    <2>2. DOMAIN DeclOf(Under(t)).refs = 1..Len(DeclOf(Under(t)).refs)
          BY <2>1, RefShape
    <2>3. \A i \in DOMAIN DeclOf(Under(t)).refs : DeclOf(Under(t)).refs[i].to \in Sites
          BY <2>1, <2>2, RefShape
    <2> QED BY <2>3, DeclShape DEF NextSites
  <1> QED BY <1>1, <1>2 DEF Reached

\* A step that stamps changes one sequence of stamps, and nothing else.
LEMMA StampEffect ==
    ASSUME TypeOK, NEW name, NEW caller, Stamp(name, caller),
           caller # <<>> => caller[Len(caller)].name \in DOMAIN typeRegistry
    PROVE  /\ DOMAIN typeRegistry' = DOMAIN typeRegistry
           /\ \A n \in DOMAIN typeRegistry :
                /\ typeRegistry'[n].key = typeRegistry[n].key
                /\ typeRegistry'[n].of = typeRegistry[n].of
                /\ typeRegistry'[n].stamps =
                     IF caller # <<>> /\ n = caller[Len(caller)].name
                     THEN Append(typeRegistry[n].stamps, name)
                     ELSE typeRegistry[n].stamps
           /\ payloads' = IF caller = <<>> THEN Append(payloads, name) ELSE payloads
  <1>1. CASE caller = <<>>  BY <1>1 DEF Stamp
  <1>2. CASE caller # <<>>
    <2>1. PICK open : open = caller[Len(caller)].name  OBVIOUS
    <2>2. /\ open \in DOMAIN typeRegistry /\ payloads' = payloads
          /\ typeRegistry' = [typeRegistry EXCEPT ![open].stamps = Append(@, name)]
          BY <1>2, <2>1 DEF Stamp
    <2>3. \A n \in DOMAIN typeRegistry :
             typeRegistry[n] \in [key : Identities, of : Sites, stamps : Seq(NameText)]
          BY DEF TypeOK
    <2>4. DOMAIN typeRegistry' = DOMAIN typeRegistry
          /\ \A n \in DOMAIN typeRegistry : n # open => typeRegistry'[n] = typeRegistry[n]
          BY <2>2
    <2>5. typeRegistry'[open] = [typeRegistry[open] EXCEPT !.stamps = Append(@, name)]
          BY <2>2
    <2>6. /\ typeRegistry'[open].key = typeRegistry[open].key
          /\ typeRegistry'[open].of = typeRegistry[open].of
          /\ typeRegistry'[open].stamps = Append(typeRegistry[open].stamps, name)
          BY <2>2, <2>3, <2>5
    <2> QED BY <1>2, <2>1, <2>2, <2>4, <2>6
  <1> QED BY <1>1, <1>2

\* The project does not change, nor what its payloads reach.
LEMMA SameReach ==
    ASSUME source' = source
    PROVE  /\ Reached' = Reached /\ Sites' = Sites
           /\ \A s : DeclOf(s)' = DeclOf(s) /\ Under(s)' = Under(s)
           /\ \A r : PayloadTarget(r)' = PayloadTarget(r) /\ RefsOf(r)' = RefsOf(r)
  <1>1. Sites' = Sites /\ \A s : DeclOf(s)' = DeclOf(s) /\ Under(s)' = Under(s)
        BY DEF Sites, DeclOf, Under
  <1>2. \A r : PayloadTarget(r)' = PayloadTarget(r) /\ RefsOf(r)' = RefsOf(r)
        BY <1>1 DEF PayloadTarget, RefsOf
  <1>3. RootSites' = RootSites /\ \A s : NextSites(s)' = NextSites(s)
        BY <1>1, <1>2 DEF RootSites, NextSites, KeySite
  <1> QED BY <1>1, <1>2, <1>3 DEF Reached

\* A step that stamps, with the frames above the caller's popped, keeps it:
\* the frame popped has all its stamps, and the name given is a component's.
LEMMA StampCInv ==
    ASSUME CInv, IInv', NEW k \in Nat, k \in {Len(stack) - 1, Len(stack)},
           NEW name \in NameText, stack' = SubSeq(stack, 1, k), Stamp(name, stack'),
           UNCHANGED <<source, depthWarned>>,
           k = Len(stack) - 1 => Stamped(Top.name) = Len(RefsOf(typeRegistry[Top.name])),
           name # NoComponent \/ (stack' = <<>> /\ PayloadTarget(NextRoot) = 0)
    PROVE  CInv'
  <1>1. /\ TypeOK /\ stack \in Seq(FrameType) /\ payloads \in Seq(NameText)
        /\ WellFormed(source)
        BY DEF CInv, IInv, TypeOK
  <1>2. /\ Len(stack') = k /\ k <= Len(stack)
        /\ \A i \in DOMAIN stack' : i \in 1..k /\ i \in DOMAIN stack /\ stack'[i] = stack[i]
        BY <1>1
  <1>3. stack' # <<>> => stack'[Len(stack')].name \in DOMAIN typeRegistry
    <2>1. CASE k # 0
      <3>1. k \in 1..Len(stack) /\ stack'[k] = stack[k]  BY <1>1, <1>2, <2>1
      <3> QED BY <1>2, <3>1, FrameShape DEF CInv
    <2>2. CASE k = 0  BY <1>1, <1>2, <2>2
    <2> QED BY <2>1, <2>2
  <1>4. /\ DOMAIN typeRegistry' = DOMAIN typeRegistry
        /\ \A n \in DOMAIN typeRegistry :
             /\ typeRegistry'[n].key = typeRegistry[n].key
             /\ typeRegistry'[n].of = typeRegistry[n].of
             /\ typeRegistry'[n].stamps =
                  IF stack' # <<>> /\ n = stack'[Len(stack')].name
                  THEN Append(typeRegistry[n].stamps, name)
                  ELSE typeRegistry[n].stamps
        /\ payloads' = IF stack' = <<>> THEN Append(payloads, name) ELSE payloads
    <2>1. PICK caller : caller = stack'  OBVIOUS
    <2>2. Stamp(name, caller) /\ (caller # <<>> => caller[Len(caller)].name \in DOMAIN typeRegistry)
          BY <1>3, <2>1
    <2>3. /\ DOMAIN typeRegistry' = DOMAIN typeRegistry
          /\ \A n \in DOMAIN typeRegistry :
               /\ typeRegistry'[n].key = typeRegistry[n].key
               /\ typeRegistry'[n].of = typeRegistry[n].of
               /\ typeRegistry'[n].stamps =
                    IF caller # <<>> /\ n = caller[Len(caller)].name
                    THEN Append(typeRegistry[n].stamps, name)
                    ELSE typeRegistry[n].stamps
          /\ payloads' = IF caller = <<>> THEN Append(payloads, name) ELSE payloads
          BY <1>1, <2>2, StampEffect
    <2> QED BY <2>1, <2>3
  <1>5. /\ Reached' = Reached
        /\ \A s : DeclOf(s)' = DeclOf(s) /\ Under(s)' = Under(s)
        /\ \A r : PayloadTarget(r)' = PayloadTarget(r) /\ RefsOf(r)' = RefsOf(r)
        BY SameReach
  <1>6. \A n \in DOMAIN typeRegistry : typeRegistry[n].stamps \in Seq(NameText)
        BY <1>1 DEF TypeOK
  <1>7. ComponentsReached'
    <2>1. \A s : Identity(DeclOf(s))' = Identity(DeclOf(s))  BY <1>5 DEF Identity
    <2> QED BY <1>4, <1>5, <2>1 DEF CInv, ComponentsReached
  <1>8. OthersStamped'
    <2>1. ASSUME NEW n \in DOMAIN typeRegistry, \A i \in DOMAIN stack' : stack'[i].name # n
          PROVE  Len(typeRegistry'[n].stamps) = Len(RefsOf(typeRegistry[n]))
      <3>1. ~(stack' # <<>> /\ n = stack'[Len(stack')].name)
        <4>1. stack' # <<>> => Len(stack') \in DOMAIN stack'  BY <1>1
        <4> QED BY <2>1, <4>1
      <3>2. typeRegistry'[n].stamps = typeRegistry[n].stamps  BY <1>4, <3>1
      <3>3. CASE \A i \in DOMAIN stack : stack[i].name # n
            BY <3>2, <3>3 DEF CInv, OthersStamped, Stamped
      <3>4. CASE \E i \in DOMAIN stack : stack[i].name = n
        <4>1. PICK i \in DOMAIN stack : stack[i].name = n  BY <3>4
        <4>2. i \notin DOMAIN stack'  BY <1>2, <2>1, <4>1
        <4>3. k = Len(stack) - 1 /\ i = Len(stack)  BY <1>1, <1>2, <4>1, <4>2
        <4> QED BY <3>2, <4>1, <4>3 DEF Top, Stamped
      <3> QED BY <3>3, <3>4
    <2>2. \A n \in DOMAIN typeRegistry : RefsOf(typeRegistry'[n]) = RefsOf(typeRegistry[n])
          BY <1>4 DEF RefsOf
    <2>3. \A c : RefsOf(c)' = RefsOf(c)  BY <1>5
    <2> QED BY <1>4, <2>1, <2>2, <2>3 DEF OthersStamped, Stamped
  <1>9. NothingCut'
    <2> SUFFICES ASSUME ~depthWarned
                 PROVE  /\ \A n \in DOMAIN typeRegistry : \A i \in DOMAIN typeRegistry'[n].stamps :
                             typeRegistry'[n].stamps[i] # NoComponent
                        /\ \A i \in DOMAIN payloads' :
                             PayloadTarget(source.roots[i]) # 0 => payloads'[i] # NoComponent
      <3>1. \A i : PayloadTarget(source.roots[i])' = PayloadTarget(source.roots[i])
            BY <1>5
      <3> QED BY <1>4, <3>1 DEF NothingCut
    <2>1. ASSUME NEW n \in DOMAIN typeRegistry, NEW i \in DOMAIN typeRegistry'[n].stamps
          PROVE  typeRegistry'[n].stamps[i] # NoComponent
      <3>1. CASE i \in DOMAIN typeRegistry[n].stamps
                   /\ typeRegistry'[n].stamps[i] = typeRegistry[n].stamps[i]
            BY <3>1 DEF CInv, NothingCut
      <3>2. CASE stack' # <<>> /\ typeRegistry'[n].stamps[i] = name
            BY <3>2
      <3>3. CASE typeRegistry'[n].stamps = typeRegistry[n].stamps
            BY <2>1, <3>1, <3>3
      <3>4. CASE stack' # <<>> /\ typeRegistry'[n].stamps = Append(typeRegistry[n].stamps, name)
        <4>1. typeRegistry[n].stamps \in Seq(NameText)  BY <1>6
        <4>2. i \in 1..(Len(typeRegistry[n].stamps) + 1)  BY <2>1, <3>4, <4>1
        <4>3. \A old \in Seq(NameText) : \A l \in 1..(Len(old) + 1) :
                 \/ l \in DOMAIN old /\ Append(old, name)[l] = old[l]
                 \/ Append(old, name)[l] = name
              OBVIOUS
        <4> QED BY <3>1, <3>2, <3>4, <4>1, <4>2, <4>3
      <3> QED BY <1>4, <2>1, <3>3, <3>4
    <2>2. ASSUME NEW i \in DOMAIN payloads', PayloadTarget(source.roots[i]) # 0
          PROVE  payloads'[i] # NoComponent
      <3>1. CASE i \in DOMAIN payloads /\ payloads'[i] = payloads[i]
            BY <2>2, <3>1 DEF CInv, NothingCut
      <3>2. CASE i = Len(payloads) + 1 /\ payloads'[i] = name
            BY <2>2, <3>2 DEF NextRoot
      <3>3. CASE stack' # <<>>  BY <1>4, <2>2, <3>1, <3>3
      <3>4. CASE stack' = <<>>
        <4>1. payloads' = Append(payloads, name)  BY <1>4, <3>4
        <4>2. i \in 1..(Len(payloads) + 1)  BY <1>1, <2>2, <4>1
        <4> QED BY <1>1, <3>1, <3>2, <4>1, <4>2
      <3> QED BY <3>3, <3>4
    <2> QED BY <2>1, <2>2
  <1> QED BY <1>7, <1>8, <1>9 DEF CInv

\* A struct that is registered is reached: its caller is, or a payload.
LEMMA RegisterCInv ==
    ASSUME CInv, IInv', RegisterStruct
    PROVE  CInv'
  <1>a. PICK tgt : tgt = Target  OBVIOUS
  <1>b. PICK name : name = SchemaKey(tgt)  OBVIOUS
  <1>c. PICK fresh : fresh = [key |-> Key(tgt), of |-> Under(tgt), stamps |-> <<>>]
        OBVIOUS
  <1>1. WellFormed(source) /\ stack \in Seq(FrameType) /\ payloads \in Seq(NameText)
        BY DEF CInv, IInv, TypeOK
  <1>2. /\ Pending /\ ~Known(tgt) /\ tgt # 0
        /\ typeRegistry' = With(typeRegistry, name, fresh)
        /\ stack' = Append(stack, [name |-> name, depth |-> Depth])
        /\ source' = source /\ depthWarned' = depthWarned /\ payloads' = payloads
        BY <1>a, <1>b, <1>c DEF RegisterStruct
  <1>3. tgt \in Sites /\ Under(tgt) # 0
        BY <1>a, <1>2, TargetShape DEF CInv
  <1>4. KeySite(tgt) \in Sites /\ Under(KeySite(tgt)) = Under(tgt)
        /\ Key(tgt) = Identity(DeclOf(KeySite(tgt)))
        BY <1>1, <1>3, KeySiteUnder
  <1>5. name # NoComponent
    <2>1. Key(tgt) \notin DOMAIN nameAssign
          BY <1>2 DEF CInv, IInv, NamesPaired, Known
    <2> QED BY <1>b, <1>4, <2>1, NamesNonEmpty DEF SchemaKey, CInv
  <1>6. KeySite(tgt) \in Reached
    <2>1. CASE stack = <<>>
      <3>1. Len(payloads) + 1 \in DOMAIN source.roots
            BY <1>1, <1>2, <2>1 DEF Pending, WellFormed
      <3>2. tgt = PayloadTarget(source.roots[Len(payloads) + 1])
            BY <1>a, <2>1 DEF Target, NextRoot
      <3>3. KeySite(tgt) \in RootSites  BY <1>2, <3>1, <3>2 DEF RootSites
      <3> QED BY <1>1, <3>3, ReachedClosed
    <2>2. CASE stack # <<>>
      <3>1. Len(stack) \in 1..Len(stack) /\ Top = stack[Len(stack)]
            BY <1>1, <2>2 DEF Top
      <3>2. PICK open : open = Top.name  OBVIOUS
      <3>3. PICK c : c = typeRegistry[open]  OBVIOUS
      <3>4. /\ open \in DOMAIN typeRegistry /\ c.of \in Sites /\ Under(c.of) = c.of
            /\ Stamped(open) \in Nat /\ RefsOf(c) \in Seq(Ref)
            BY <3>1, <3>2, <3>3, FrameShape DEF CInv
      <3>5. /\ Stamped(open) + 1 \in DOMAIN RefsOf(c)
            /\ tgt = RefsOf(c)[Stamped(open) + 1].to
            BY <1>a, <1>2, <2>2, <3>2, <3>3, <3>4 DEF Pending, Target, NextRef
      <3>6. PICK s \in Reached : c.of = Under(s)
            BY <3>3, <3>4 DEF CInv, ComponentsReached
      <3>7. Under(s) # 0  BY <1>1, <3>4, <3>6, DeclShape
      <3>8. KeySite(tgt) \in NextSites(s)
            BY <3>5, <3>6 DEF NextSites, RefsOf
      <3> QED BY <1>1, <3>6, <3>7, <3>8, ReachedClosed
    <2> QED BY <2>1, <2>2
  <1>7. name \notin DOMAIN typeRegistry
    <2>1. name \in NameText \ usedNames
      <3> DEFINE d == DeclOf(KeySite(tgt))
      <3>1. d \in Decl  BY <1>1, <1>4, DeclShape
      <3>2. d.name \in NameText /\ d.pkg \in Nat  BY <3>1 DEF Decl
      <3>3. <<d.pkg>> \o d.name \in NameText
        <4> HIDE DEF d
        <4> QED BY <3>2 DEF NameText
      <3>4. Fresh(<<d.pkg>> \o d.name, usedNames) \in NameText \ usedNames
            BY <3>3, FreshIsFree DEF CInv, IInv
      <3>5. Key(tgt) \notin DOMAIN nameAssign
            BY <1>2 DEF CInv, IInv, NamesPaired, Known
      <3>6. name = ComponentName(d, usedNames)  BY <1>b, <3>5 DEF SchemaKey
      <3> QED BY <3>2, <3>4, <3>6 DEF ComponentName
    <2> QED BY <2>1 DEF CInv, IInv, NamesPaired
  <1>8. /\ DOMAIN typeRegistry' = DOMAIN typeRegistry \cup {name}
        /\ typeRegistry'[name] = fresh
        /\ \A n \in DOMAIN typeRegistry : typeRegistry'[n] = typeRegistry[n]
        BY <1>2, <1>7 DEF With
  <1>9. /\ Reached' = Reached
        /\ \A s : DeclOf(s)' = DeclOf(s) /\ Under(s)' = Under(s)
        /\ \A r : PayloadTarget(r)' = PayloadTarget(r) /\ RefsOf(r)' = RefsOf(r)
        BY <1>2, SameReach
  <1>10. ComponentsReached'
    <2>1. \A s : Identity(DeclOf(s))' = Identity(DeclOf(s))  BY <1>9 DEF Identity
    <2>2. /\ typeRegistry'[name].key = Identity(DeclOf(KeySite(tgt)))
          /\ typeRegistry'[name].of = Under(KeySite(tgt))
          BY <1>c, <1>4, <1>8
    <2> QED BY <1>5, <1>6, <1>8, <1>9, <2>1, <2>2 DEF CInv, ComponentsReached
  <1>11. OthersStamped'
    <2>1. /\ \A i \in DOMAIN stack : i \in DOMAIN stack' /\ stack'[i] = stack[i]
          /\ Len(stack) + 1 \in DOMAIN stack' /\ stack'[Len(stack) + 1].name = name
          BY <1>1, <1>2
    <2>2. \A n \in DOMAIN typeRegistry :
             Stamped(n)' = Stamped(n) /\ RefsOf(typeRegistry'[n]) = RefsOf(typeRegistry[n])
          BY <1>8 DEF Stamped, RefsOf
    <2>3. \A n \in DOMAIN typeRegistry :
             \/ Stamped(n) = Len(RefsOf(typeRegistry[n]))
             \/ \E i \in DOMAIN stack : stack[i].name = n
          BY DEF CInv, OthersStamped
    <2> QED BY <1>8, <1>9, <2>1, <2>2, <2>3 DEF OthersStamped
  <1>12. NothingCut'
    <2>1. DOMAIN fresh.stamps = {}  BY <1>c
    <2> QED BY <1>2, <1>8, <1>9, <2>1 DEF CInv, NothingCut
  <1> QED BY <1>10, <1>11, <1>12 DEF CInv

\* Every step keeps it.
LEMMA NextCInv ==
    ASSUME CInv, [Next]_vars
    PROVE  CInv'
  <1>1. /\ WellFormed(source) /\ stack \in Seq(FrameType) /\ payloads \in Seq(NameText)
        /\ <<>> \in NameText /\ IInv'
        BY NextIInv DEF CInv, IInv, TypeOK, NameText
  <1>2. Len(stack) \in Nat /\ SubSeq(stack, 1, Len(stack)) = stack  BY <1>1
  <1>3. CASE CutOff
    <2>1. /\ stack' = stack /\ source' = source /\ depthWarned' = TRUE
          /\ Stamp(NoComponent, stack)
          BY <1>3 DEF CutOff
    <2>2. stack # <<>> => stack[Len(stack)].name \in DOMAIN typeRegistry
          BY <1>1, FrameShape DEF CInv
    <2>3. /\ DOMAIN typeRegistry' = DOMAIN typeRegistry
          /\ \A n \in DOMAIN typeRegistry :
               /\ typeRegistry'[n].key = typeRegistry[n].key
               /\ typeRegistry'[n].of = typeRegistry[n].of
               /\ typeRegistry'[n].stamps =
                    IF stack # <<>> /\ n = stack[Len(stack)].name
                    THEN Append(typeRegistry[n].stamps, NoComponent)
                    ELSE typeRegistry[n].stamps
          BY <2>1, <2>2, StampEffect DEF CInv, IInv
    <2>4. /\ Reached' = Reached
          /\ \A s : DeclOf(s)' = DeclOf(s) /\ Under(s)' = Under(s)
          /\ \A r : RefsOf(r)' = RefsOf(r)
          BY <2>1, SameReach
    <2>5. ComponentsReached'
      <3>1. \A s : Identity(DeclOf(s))' = Identity(DeclOf(s))  BY <2>4 DEF Identity
      <3> QED BY <2>3, <2>4, <3>1 DEF CInv, ComponentsReached
    <2>6. OthersStamped'
      <3>1. stack # <<>> => Len(stack) \in DOMAIN stack  BY <1>1
      <3>2. \A n \in DOMAIN typeRegistry : RefsOf(typeRegistry'[n]) = RefsOf(typeRegistry[n])
            BY <2>3 DEF RefsOf
      <3> QED BY <2>1, <2>3, <2>4, <3>1, <3>2 DEF CInv, OthersStamped, Stamped
    <2>7. NothingCut'  BY <2>1 DEF NothingCut
    <2> QED BY <1>1, <2>5, <2>6, <2>7 DEF CInv
  <1>4. CASE DocumentInline
    <2>1. /\ stack' = stack /\ Target = 0 /\ Pending /\ Stamp(NoComponent, stack')
          /\ UNCHANGED <<source, depthWarned>>
          BY <1>4 DEF DocumentInline
    <2>2. stack = <<>>  BY <2>1, TargetShape DEF CInv
    <2>3. PayloadTarget(NextRoot) = 0  BY <2>1, <2>2 DEF Target
    <2> QED BY <1>1, <1>2, <2>1, <2>2, <2>3, StampCInv DEF NoComponent
  <1>5. CASE ReuseComponent
    <2>1. PICK name : name = nameAssign[Key(Target)]  OBVIOUS
    <2>2. /\ stack' = stack /\ Stamp(name, stack')
          /\ UNCHANGED <<source, depthWarned>>
          BY <1>5, <2>1 DEF ReuseComponent
    <2>3. name \in DOMAIN typeRegistry /\ name \in NameText
          BY <1>5, <2>1 DEF ReuseComponent, Known, CInv, IInv, NamesPaired, TypeOK
    <2>4. name # NoComponent  BY <2>3 DEF CInv, ComponentsReached
    <2>5. IInv' /\ Len(stack) \in Nat /\ stack' = SubSeq(stack, 1, Len(stack))
          BY <1>1, <1>2, <2>2
    <2>6. ~(Len(stack) = Len(stack) - 1)  BY <2>5
    <2> QED BY <2>2, <2>3, <2>4, <2>5, <2>6, StampCInv
  <1>6. CASE RegisterStruct  BY <1>1, <1>6, RegisterCInv
  <1>7. CASE Return
    <2>1. PICK name : name = Top.name  OBVIOUS
    <2>2. /\ stack # <<>> /\ ~Pending /\ stack' = SubSeq(stack, 1, Len(stack) - 1)
          /\ Stamp(name, stack') /\ UNCHANGED <<source, depthWarned>>
          BY <1>7, <2>1 DEF Return
    <2>3. /\ Len(stack) - 1 \in Nat /\ Len(stack) \in 1..Len(stack)
          /\ Top = stack[Len(stack)]
          BY <1>1, <2>2 DEF Top
    <2>4. /\ name \in NameText /\ name \in DOMAIN typeRegistry
          /\ Stamped(name) \in Nat /\ RefsOf(typeRegistry[name]) \in Seq(Ref)
          BY <2>1, <2>3, FrameShape DEF CInv, FrameType
    <2>5. name # NoComponent  BY <2>4 DEF CInv, ComponentsReached
    <2>6. Stamped(name) = Len(RefsOf(typeRegistry[name]))
      <3>1. Stamped(name) <= Len(RefsOf(typeRegistry[name]))
            BY <2>4 DEF CInv, IInv, ComponentsOfStructs
      <3>2. ~(Stamped(name) < Len(RefsOf(typeRegistry[name])))
            BY <2>1, <2>2 DEF Pending
      <3> QED BY <2>4, <3>1, <3>2
    <2>7. PICK k \in Nat : k = Len(stack) - 1  BY <2>3
    <2>8. /\ k \in {Len(stack) - 1, Len(stack)}
          /\ stack' = SubSeq(stack, 1, k)
          /\ Stamped(Top.name) = Len(RefsOf(typeRegistry[Top.name]))
          BY <2>1, <2>2, <2>6, <2>7
    <2>9. IInv' /\ Stamp(name, stack') /\ UNCHANGED <<source, depthWarned>>
          BY <1>1, <2>2
    <2>10. name \in NameText /\ (name # NoComponent \/ (stack' = <<>> /\ PayloadTarget(NextRoot) = 0))
          BY <2>4, <2>5
    <2> QED BY <2>8, <2>9, <2>10, StampCInv
  <1>8. CASE Finished \/ UNCHANGED vars
    <2>1. /\ source' = source /\ stack' = stack /\ typeRegistry' = typeRegistry
          /\ depthWarned' = depthWarned /\ payloads' = payloads
          BY <1>8 DEF Finished, vars
    <2>2. /\ Reached' = Reached
          /\ \A s : DeclOf(s)' = DeclOf(s) /\ Under(s)' = Under(s)
          /\ \A r : PayloadTarget(r)' = PayloadTarget(r) /\ RefsOf(r)' = RefsOf(r)
          BY <2>1, SameReach
    <2>3. ComponentsReached'
      <3>1. \A s : Identity(DeclOf(s))' = Identity(DeclOf(s))  BY <2>2 DEF Identity
      <3> QED BY <2>1, <2>2, <3>1 DEF CInv, ComponentsReached
    <2>4. OthersStamped'
          BY <2>1, <2>2 DEF CInv, OthersStamped, Stamped
    <2>5. NothingCut'  BY <2>1, <2>2 DEF CInv, NothingCut
    <2> QED BY <1>1, <2>3, <2>4, <2>5 DEF CInv
  <1> QED BY <1>3, <1>4, <1>5, <1>6, <1>7, <1>8 DEF Next

\* When no chain was cut, registerPayloadType leaves a component for each
\* declaration that the payloads reach, for no other, and no reference of a
\* component without its stamp: in every project, whatever its cycles.
THEOREM RegistryHoldsClosure == Spec => []RegistryIsClosure
  <1>1. Init => CInv
    <2> SUFFICES ASSUME Init PROVE CInv  OBVIOUS
    <2>1. /\ DOMAIN stack = {} /\ DOMAIN typeRegistry = {} /\ DOMAIN payloads = {}
          BY DEF Init
    <2> QED BY <2>1, InitIInv DEF CInv, ComponentsReached, OthersStamped, NothingCut
  <1>2. CInv /\ [Next]_vars => CInv'  BY NextCInv
  <1>3. CInv => RegistryIsClosure
    <2> SUFFICES ASSUME CInv, Done, ~depthWarned
                 PROVE  /\ {typeRegistry[n].key : n \in DOMAIN typeRegistry} =
                             {Identity(DeclOf(s)) : s \in Reached}
                        /\ \A n \in DOMAIN typeRegistry :
                             /\ Stamped(n) = Len(RefsOf(typeRegistry[n]))
                             /\ \A i \in 1..Stamped(n) : typeRegistry[n].stamps[i] # NoComponent
          BY DEF RegistryIsClosure
    <2>1. WellFormed(source) /\ payloads \in Seq(NameText)
          /\ \A n \in DOMAIN typeRegistry :
               typeRegistry[n] \in [key : Identities, of : Sites, stamps : Seq(NameText)]
          BY DEF CInv, IInv, TypeOK
    <2>2. stack = <<>> /\ DOMAIN stack = {} /\ Len(payloads) = Len(source.roots)
          BY <2>1 DEF Done, Pending, CInv, IInv, WellFormed
    <2>3. ASSUME NEW n \in DOMAIN typeRegistry
          PROVE  /\ Stamped(n) = Len(RefsOf(typeRegistry[n]))
                 /\ DOMAIN typeRegistry[n].stamps = 1..Stamped(n)
                 /\ \A i \in 1..Stamped(n) : typeRegistry[n].stamps[i] # NoComponent
      <3>1. Stamped(n) = Len(RefsOf(typeRegistry[n]))
            BY <2>2 DEF CInv, OthersStamped
      <3>2. DOMAIN typeRegistry[n].stamps = 1..Stamped(n)  BY <2>1 DEF Stamped
      <3> QED BY <3>1, <3>2 DEF CInv, NothingCut
    <2> DEFINE S == {s \in Sites : Under(s) # 0 /\ \E n \in DOMAIN typeRegistry :
                                     /\ typeRegistry[n].key = Identity(DeclOf(s))
                                     /\ typeRegistry[n].of = Under(s)}
    <2>4. ASSUME NEW n, NEW t \in Sites, Under(t) # 0, Documents(n, t)
          PROVE  KeySite(t) \in S
      <3>1. KeySite(t) \in Sites /\ Under(KeySite(t)) = Under(t)
            /\ Key(t) = Identity(DeclOf(KeySite(t)))
            BY <2>1, <2>4, KeySiteUnder
      <3> QED BY <2>4, <3>1 DEF Documents
    <2>5. RootSites \subseteq S
      <3>1. ASSUME NEW i \in DOMAIN source.roots, PayloadTarget(source.roots[i]) # 0
            PROVE  KeySite(PayloadTarget(source.roots[i])) \in S
        <4>1. i \in 1..Len(source.roots) /\ i \in DOMAIN payloads
              BY <2>1, <2>2 DEF WellFormed
        <4>2. /\ PayloadTarget(source.roots[i]) \in Sites
              /\ Under(PayloadTarget(source.roots[i])) # 0
              BY <2>1, <3>1, <4>1, RootShape
        <4>3. payloads[i] # NoComponent  BY <3>1, <4>1 DEF CInv, NothingCut
        <4>4. Documents(payloads[i], PayloadTarget(source.roots[i]))
              BY <4>1, <4>3 DEF CInv, IInv, StampsMatch
        <4> HIDE DEF S
        <4> QED BY <2>4, <4>2, <4>4
      <3> HIDE DEF S
      <3> QED BY <3>1 DEF RootSites
    <2>6. ASSUME NEW t \in S PROVE NextSites(t) \subseteq S
      <3>1. PICK n \in DOMAIN typeRegistry : typeRegistry[n].of = Under(t)
            BY <2>6
      <3>2. /\ Under(t) \in Sites /\ Under(Under(t)) = Under(t)
            /\ RefsOf(typeRegistry[n]) = DeclOf(Under(t)).refs
            BY <2>1, <2>6, <3>1, DeclShape DEF RefsOf
      <3>3. ASSUME NEW i \in DOMAIN DeclOf(Under(t)).refs
            PROVE  KeySite(DeclOf(Under(t)).refs[i].to) \in S
        <4>1. i \in 1..Len(DeclOf(Under(t)).refs) /\ i \in 1..Stamped(n)
              /\ i \in DOMAIN typeRegistry[n].stamps
              BY <2>1, <2>3, <3>2, RefShape
        <4>2. /\ DeclOf(Under(t)).refs[i].to \in Sites
              /\ Under(DeclOf(Under(t)).refs[i].to) # 0
              BY <2>1, <3>2, <4>1, RefShape
        <4>3. Documents(typeRegistry[n].stamps[i], DeclOf(Under(t)).refs[i].to)
              BY <2>3, <3>2, <4>1 DEF CInv, IInv, StampsMatch
        <4> HIDE DEF S
        <4> QED BY <2>4, <4>2, <4>3
      <3> HIDE DEF S
      <3> QED BY <3>3 DEF NextSites
    <2>7. Reached \subseteq S
      <3>1. S \in SUBSET Sites  OBVIOUS
      <3> HIDE DEF S
      <3> QED BY <2>5, <2>6, <3>1 DEF Reached
    <2>8. \A s \in Reached : \E n \in DOMAIN typeRegistry :
             typeRegistry[n].key = Identity(DeclOf(s))
          BY <2>7
    <2>9. \A n \in DOMAIN typeRegistry : \E s \in Reached :
             typeRegistry[n].key = Identity(DeclOf(s))
          BY DEF CInv, ComponentsReached
    <2> QED BY <2>3, <2>8, <2>9
  <1> QED BY <1>1, <1>2, <1>3, PTL DEF Spec
=============================================================================
