------------------------- MODULE SpecEmissionProofs -------------------------
(***************************************************************************)
(* Proofs about SpecEmission, for every project: operationIds are unique,  *)
(* the first registration of a slot is the one documented, and every $ref  *)
(* of a complete document resolves; ids are given in the order of their    *)
(* keys, and the gate of the standard schemas agrees with the operations.  *)
(***************************************************************************)
EXTENDS SpecEmission, Integers, Sequences, FiniteSets, SequenceTheorems,
        FiniteSetTheorems, WellFoundedInduction, TLAPS

-----------------------------------------------------------------------------
(* Fresh names. *)

\* Suffixes tell names apart.
LEMMA NumberedInjective ==
    ASSUME NEW base \in NameText, NEW m \in Nat, NEW n \in Nat,
           Numbered(base, m) = Numbered(base, n)
    PROVE  m = n
  <1>1. Append(base, m)[Len(base) + 1] = m /\ Append(base, n)[Len(base) + 1] = n
        BY DEF NameText
  <1> QED BY <1>1 DEF Numbered

\* The loop over suffixes ends: some candidate is free.
LEMMA SomeSuffixIsFree ==
    ASSUME NEW base \in NameText, NEW used, IsFiniteSet(used)
    PROVE  FreeSuffixes(base, used) # {}
  <1> SUFFICES ASSUME FreeSuffixes(base, used) = {} PROVE FALSE  OBVIOUS
  <1> DEFINE f == [n \in Suffixes(used) |-> Numbered(base, n)]
  <1>1. Cardinality(used) \in Nat  BY FS_CardinalityType
  <1>2. IsFiniteSet(Suffixes(used)) /\ Cardinality(Suffixes(used)) = Cardinality(used) + 1
        BY <1>1, FS_Interval DEF Suffixes
  <1>3. f \in [Suffixes(used) -> used]  BY DEF FreeSuffixes
  <1>4. PICK x, y \in Suffixes(used) : x # y /\ f[x] = f[y]
    <2>1. Cardinality(used) < Cardinality(Suffixes(used))  BY <1>1, <1>2
    <2> HIDE DEF f
    <2> QED BY <1>2, <1>3, <2>1, FS_PigeonHole
  <1>5. x \in Nat /\ y \in Nat  BY <1>1 DEF Suffixes
  <1> QED BY <1>4, <1>5, NumberedInjective

\* The least free suffix exists.
LEMMA LeastFreeIsFree ==
    ASSUME NEW base \in NameText, NEW used, IsFiniteSet(used)
    PROVE  LeastFree(base, used) \in FreeSuffixes(base, used)
  <1> DEFINE T == FreeSuffixes(base, used)
  <1>1. T \subseteq Nat
        BY FS_CardinalityType DEF FreeSuffixes, Suffixes
  <1>2. \E n \in T : \A m \in T : ~ (<<m, n>> \in OpToRel(<, Nat))
    <2>1. T # {}  BY SomeSuffixIsFree
    <2> HIDE DEF T
    <2> QED BY <1>1, <2>1, NatLessThanWellFounded, WFMin
  <1>3. PICK n \in T : \A m \in T : ~ (<<m, n>> \in OpToRel(<, Nat))
        BY <1>2
  <1>4. ASSUME NEW m \in T PROVE n <= m
    <2>1. CASE m < n
      <3>1. <<m, n>> \in OpToRel(<, Nat)  BY <1>1, <2>1 DEF OpToRel
      <3> QED BY <1>3, <3>1
    <2> QED BY <1>1, <2>1
  <1> QED BY <1>4 DEF LeastFree

\* assignOperationIDs never hands out an id in use.
LEMMA FreshIsFree ==
    ASSUME NEW base \in NameText, NEW used, IsFiniteSet(used)
    PROVE  Fresh(base, used) \in NameText \ used
  <1>1. CASE base \notin used  BY <1>1 DEF Fresh
  <1>2. CASE base \in used
    <2>1. LeastFree(base, used) \in FreeSuffixes(base, used)  BY LeastFreeIsFree
    <2>2. LeastFree(base, used) \in Nat
          BY <2>1, FS_CardinalityType DEF FreeSuffixes, Suffixes
    <2>3. Numbered(base, LeastFree(base, used)) \notin used
          BY <2>1 DEF FreeSuffixes
    <2>4. Numbered(base, LeastFree(base, used)) \in NameText
          BY <2>2 DEF Numbered, NameText
    <2> QED BY <1>2, <2>3, <2>4 DEF Fresh
  <1> QED BY <1>1, <1>2

-----------------------------------------------------------------------------
(* The inductive invariant. *)

\* What emittedRoutes kept is the first route of each slot it has seen.
KeptAreFirst ==
    /\ \A i \in Kept : i <= read /\ \A j \in 1..(i - 1) : RouteAt(j).slot # RouteAt(i).slot
    /\ \A i \in 1..read : RouteAt(i).slot \in KeptSlots

\* Every operation is at its own slot, and none that was due is missing.
PathsBuilt ==
    /\ \A s \in DOMAIN paths : RouteAt(paths[s]).slot = s
    /\ \A j \in 1..built :
         RouteAt(emitted[j]).slot \in project.rooted =>
            RouteAt(emitted[j]).slot \in DOMAIN paths

ComponentsEmitted ==
    written =>
        /\ read = Len(Routes) /\ built = Len(emitted)
        /\ DOMAIN opIDs = KeptSlots
        /\ schemas = StandardFor(Gated) \cup Generated(Kept)

IInv ==
    /\ TypeOK /\ OperationIDsUnique
    /\ IsFiniteSet(usedIDs)
    /\ KeptAreFirst /\ PathsBuilt /\ ComponentsEmitted

-----------------------------------------------------------------------------
(* Lemmas. *)

\* An index of a route is a route.
LEMMA RouteShape ==
    ASSUME WellFormed(project), NEW i \in 1..Len(Routes)
    PROVE  RouteAt(i) \in Route
  <1>1. Routes \in Seq(Route)  BY DEF WellFormed, Routes
  <1> QED BY <1>1 DEF RouteAt

\* The standard names are names.
LEMMA StandardNames == Standard \subseteq NameText
  BY StandardAssumption

\* What something references is never left out of the components.
LEMMA ReferencedIsGenerated ==
    ASSUME NEW routes, NEW n \in DOMAIN Types, n \in Referenced(routes)
    PROVE  n \in Generated(routes)
  BY DEF Generated

\* A payload names registered components only.
LEMMA PayloadShape ==
    ASSUME WellFormed(project), NEW i \in 1..Len(Routes)
    PROVE  /\ Analyzed(RouteAt(i).request, Types)
           /\ Analyzed(RouteAt(i).response, Types)
           /\ RouteAt(i).request.refs = {}
  <1>1. i \in DOMAIN project.routes
    <2>1. Routes \in Seq(Route)  BY DEF WellFormed, Routes
    <2> QED BY <2>1 DEF Routes
  <1> QED BY <1>1 DEF WellFormed, RouteAt, Routes, Types

\* With one more entry, a function maps the new key to the new value and
\* everything else as before.
LEMMA WithShape ==
    ASSUME NEW f, NEW x, NEW v
    PROVE  /\ DOMAIN With(f, x, v) = DOMAIN f \cup {x}
           /\ With(f, x, v)[x] = v
           /\ \A y \in DOMAIN f : y # x => With(f, x, v)[y] = f[y]
  BY DEF With

\* The generator starts with nothing.
LEMMA InitIInv == Init => IInv
  <1> SUFFICES ASSUME Init PROVE IInv  OBVIOUS
  <1>1. WellFormed(project)  BY ProjectsAssumption DEF Init
  <1>2. Len(Routes) \in Nat
    <2>1. Routes \in Seq(Route)  BY <1>1 DEF WellFormed, Routes
    <2> QED BY <2>1
  <1>3. <<>> \in Seq(1..Len(Routes))  OBVIOUS
  <1>4. Kept = {} /\ DOMAIN opIDs = {} /\ DOMAIN paths = {}  BY DEF Init, Kept
  <1>5. TypeOK
    <2>1. usedIDs = {opIDs[s] : s \in DOMAIN opIDs}  BY <1>4 DEF Init
    <2>2. read \in 0..Len(Routes) /\ built \in 0..Len(emitted)  BY <1>2 DEF Init
    <2> QED BY <1>1, <1>3, <1>4, <2>1, <2>2 DEF TypeOK, Init
  <1>6. IsFiniteSet(usedIDs)  BY FS_EmptySet DEF Init
  <1> QED
    BY <1>4, <1>5, <1>6 DEF IInv, OperationIDsUnique, KeptAreFirst, PathsBuilt,
       ComponentsEmitted, Init

-----------------------------------------------------------------------------
(* Every step preserves it. *)

\* emittedRoutes keeps the invariant: a slot is kept once, at its first route.
LEMMA ReadRouteIInv == IInv /\ ReadRoute => IInv'
  <1> SUFFICES ASSUME IInv, ReadRoute PROVE IInv'  OBVIOUS
  <1> DEFINE i == read + 1
  <1>1. /\ Routes' = Routes /\ Types' = Types /\ Len(Routes) \in Nat
        /\ Routes \in Seq(Route) /\ i \in 1..Len(Routes)
        /\ \A j : RouteAt(j)' = RouteAt(j)
        /\ emitted \in Seq(1..Len(Routes)) /\ emitted' \in Seq(1..Len(Routes))
        /\ read \in Nat /\ read' = i
    <2>1. Routes \in Seq(Route)  BY DEF IInv, TypeOK, WellFormed, Routes
    <2>2. emitted \in Seq(1..Len(Routes)) /\ read \in Nat /\ Len(Routes) \in Nat
          BY <2>1 DEF IInv, TypeOK
    <2>3. i \in 1..Len(Routes) /\ read' = i  BY <2>2 DEF ReadRoute, Reading
    <2>4. emitted' \in Seq(1..Len(Routes))
      <3>1. emitted' = emitted \/ emitted' = Append(emitted, i)  BY DEF ReadRoute, FirstWins
      <3> HIDE DEF i
      <3> QED BY <2>2, <2>3, <3>1
    <2>5. Routes' = Routes /\ Types' = Types  BY DEF ReadRoute, Routes, Types
    <2> QED BY <2>1, <2>2, <2>3, <2>4, <2>5 DEF RouteAt
  <1>2. \/ RouteAt(i).slot \in KeptSlots /\ Kept' = Kept /\ emitted' = emitted
        \/ RouteAt(i).slot \notin KeptSlots /\ Kept' = Kept \cup {i} /\ emitted' = Append(emitted, i)
    <2>1. KeptSlots = {RouteAt(emitted[j]).slot : j \in DOMAIN emitted}
          BY DEF KeptSlots, Kept
    <2>2. {Append(emitted, i)[j] : j \in DOMAIN Append(emitted, i)} = Kept \cup {i}
      <3>1. DOMAIN Append(emitted, i) = DOMAIN emitted \cup {Len(emitted) + 1}  BY <1>1
      <3>2. Append(emitted, i)[Len(emitted) + 1] = i
            /\ \A j \in DOMAIN emitted : Append(emitted, i)[j] = emitted[j]
            BY <1>1
      <3> QED BY <3>1, <3>2 DEF Kept
    <2> QED BY <2>1, <2>2 DEF ReadRoute, FirstWins, Kept
  <1>3. KeptSlots' = KeptSlots \cup {RouteAt(i).slot}
        BY <1>1, <1>2 DEF KeptSlots
  <1>4. ~written  BY DEF IInv, ComponentsEmitted, ReadRoute, Reading
  <1>5. TypeOK'
    <2>1. Len(emitted') \in Nat /\ Len(emitted') >= Len(emitted)  BY <1>1, <1>2
    <2>2. Kept \subseteq Kept' /\ KeptSlots \subseteq KeptSlots'  BY <1>2, <1>3
    <2>3. built \in 0..Len(emitted')
          BY <1>1, <2>1 DEF IInv, TypeOK
    <2> QED BY <1>1, <2>2, <2>3 DEF IInv, TypeOK, ReadRoute, WellFormed
  <1>6. KeptAreFirst'
    <2>1. \A j \in 1..read : RouteAt(j).slot \in KeptSlots  BY DEF IInv, KeptAreFirst
    <2>2. ASSUME NEW k \in Kept'
          PROVE  k <= i /\ \A j \in 1..(k - 1) : RouteAt(j).slot # RouteAt(k).slot
      <3>1. CASE k \in Kept
        <4>1. k \in Nat  BY <1>1, <3>1 DEF Kept
        <4> QED BY <1>1, <3>1, <4>1 DEF IInv, KeptAreFirst
      <3>2. CASE k = i /\ RouteAt(i).slot \notin KeptSlots
            BY <1>1, <2>1, <3>2
      <3> QED BY <1>2, <3>1, <3>2
    <2>3. \A j \in 1..i : RouteAt(j).slot \in KeptSlots'
          BY <1>1, <1>3, <2>1
    <2> QED BY <1>1, <2>2, <2>3 DEF KeptAreFirst
  <1>7. PathsBuilt'
    <2>1. ASSUME NEW j \in 1..built PROVE emitted'[j] = emitted[j]
      <3>1. j \in 1..Len(emitted)  BY <1>1 DEF IInv, TypeOK
      <3>2. CASE emitted' = emitted  BY <3>2
      <3>3. CASE emitted' = Append(emitted, i)
        <4> HIDE DEF i
        <4> QED BY <1>1, <3>1, <3>3
      <3> QED BY <1>2, <3>2, <3>3
    <2> QED BY <1>1, <2>1 DEF IInv, PathsBuilt, ReadRoute
  <1>8. OperationIDsUnique' /\ IsFiniteSet(usedIDs)' /\ ComponentsEmitted'
        BY <1>4 DEF IInv, OperationIDsUnique, ComponentsEmitted, ReadRoute
  <1> QED BY <1>5, <1>6, <1>7, <1>8 DEF IInv

\* assignOperationIDs keeps the invariant: the id given was not in use.
LEMMA AssignOperationIDIInv == IInv /\ AssignOperationID => IInv'
  <1> SUFFICES ASSUME IInv, AssignOperationID PROVE IInv'  OBVIOUS
  <1>1. PICK i \in Kept :
          /\ RouteAt(i).slot \notin DOMAIN opIDs
          /\ opIDs' = With(opIDs, RouteAt(i).slot, Fresh(RouteAt(i).base, usedIDs))
          /\ usedIDs' = usedIDs \cup {Fresh(RouteAt(i).base, usedIDs)}
        BY DEF AssignOperationID, Mark
  <1> DEFINE slot == RouteAt(i).slot
             id == Fresh(RouteAt(i).base, usedIDs)
  <1>2. UNCHANGED <<project, read, emitted, built, paths, schemas, written>>
        BY DEF AssignOperationID
  <1>3. Routes' = Routes /\ Types' = Types /\ Kept' = Kept /\ KeptSlots' = KeptSlots
        BY <1>2 DEF Routes, Types, Kept, KeptSlots, RouteAt
  <1>4. slot \in KeptSlots  BY DEF KeptSlots
  <1>5. id \in NameText \ usedIDs
    <2>1. i \in 1..Len(Routes)
      <3>1. emitted \in Seq(1..Len(Routes))  BY DEF IInv, TypeOK
      <3> QED BY <3>1 DEF Kept
    <2>2. RouteAt(i).base \in NameText  BY <2>1, RouteShape DEF IInv, TypeOK, Route
    <2> QED BY <2>2, FreshIsFree DEF IInv
  <1> HIDE DEF slot, id
  <1>6. opIDs' = With(opIDs, slot, id) /\ usedIDs' = usedIDs \cup {id} /\ slot \notin DOMAIN opIDs
        BY <1>1 DEF slot, id
  <1>7. /\ DOMAIN opIDs' = DOMAIN opIDs \cup {slot} /\ opIDs'[slot] = id
        /\ \A s \in DOMAIN opIDs : opIDs'[s] = opIDs[s]
        BY <1>6 DEF With
  <1>8. usedIDs' = {opIDs'[s] : s \in DOMAIN opIDs'}
    <2>1. usedIDs = {opIDs[s] : s \in DOMAIN opIDs}  BY DEF IInv, TypeOK
    <2> QED BY <1>6, <1>7, <2>1
  <1>9. TypeOK'
    <2>1. DOMAIN opIDs' \subseteq KeptSlots /\ \A s \in DOMAIN opIDs' : opIDs'[s] \in NameText
          BY <1>4, <1>5, <1>7 DEF IInv, TypeOK
    <2> QED BY <1>2, <1>3, <1>8, <2>1 DEF IInv, TypeOK, WellFormed
  <1>10. OperationIDsUnique'
    <2>1. \A s \in DOMAIN opIDs : opIDs[s] # id  BY <1>5 DEF IInv, TypeOK
    <2> QED BY <1>7, <2>1 DEF IInv, OperationIDsUnique
  <1>11. IsFiniteSet(usedIDs')
         BY <1>6, FS_AddElement DEF IInv
  <1>12. KeptAreFirst' /\ PathsBuilt'
         BY <1>2, <1>3 DEF IInv, KeptAreFirst, PathsBuilt, RouteAt
  <1>13. ComponentsEmitted'
    <2>1. ~written  BY DEF IInv, ComponentsEmitted, AssignOperationID, Naming
    <2> QED BY <1>2, <2>1 DEF ComponentsEmitted
  <1> QED BY <1>9, <1>10, <1>11, <1>12, <1>13 DEF IInv
\* assignOperation keeps the invariant: the slot is taken once.
LEMMA AttachOperationIInv == IInv /\ AttachOperation => IInv'
  <1> SUFFICES ASSUME IInv, AttachOperation PROVE IInv'  OBVIOUS
  <1> DEFINE i == BuildingRoute
             slot == RouteAt(i).slot
  <1>1. UNCHANGED <<project, read, emitted, opIDs, usedIDs, schemas, written>> /\ built' = built + 1
        BY DEF AttachOperation
  <1>2. Routes' = Routes /\ Types' = Types /\ Kept' = Kept /\ KeptSlots' = KeptSlots
        BY <1>1 DEF Routes, Types, Kept, KeptSlots, RouteAt
  <1>3. /\ built \in 0..Len(emitted) /\ built < Len(emitted)
        /\ emitted \in Seq(1..Len(Routes)) /\ Len(emitted) \in Nat /\ ~written
        BY DEF IInv, TypeOK, AttachOperation, Building, ComponentsEmitted
  <1>4. built + 1 \in DOMAIN emitted /\ i \in Kept /\ slot \in KeptSlots
    <2>1. built + 1 \in DOMAIN emitted  BY <1>3
    <2>2. i \in Kept  BY <2>1 DEF Kept, BuildingRoute
    <2> HIDE DEF i
    <2> QED BY <2>1, <2>2 DEF KeptSlots
  <1>5. /\ DOMAIN paths' = DOMAIN paths \cup {slot}
        /\ \A s \in DOMAIN paths : paths'[s] = paths[s]
        /\ slot \notin DOMAIN paths => paths'[slot] = i
        BY DEF AttachOperation, With
  <1> HIDE DEF i
  <1>6. TypeOK'
    <2>1. DOMAIN paths' \subseteq KeptSlots /\ \A s \in DOMAIN paths' : paths'[s] \in Kept
          BY <1>4, <1>5 DEF IInv, TypeOK
    <2>2. built' \in 0..Len(emitted)  BY <1>1, <1>3
    <2> QED BY <1>1, <1>2, <2>1, <2>2 DEF IInv, TypeOK, WellFormed
  <1>7. PathsBuilt'
    <2>1. \A s \in DOMAIN paths' : RouteAt(paths'[s]).slot = s
          BY <1>5 DEF IInv, PathsBuilt
    <2>2. ASSUME NEW j \in 1..built', RouteAt(emitted[j]).slot \in project.rooted
          PROVE  RouteAt(emitted[j]).slot \in DOMAIN paths'
      <3>1. CASE j \in 1..built  BY <1>5, <2>2, <3>1 DEF IInv, PathsBuilt
      <3>2. CASE j = built + 1  BY <1>5, <3>2 DEF i, BuildingRoute
      <3> QED BY <1>1, <1>3, <3>1, <3>2
    <2> QED BY <1>1, <1>2, <2>1, <2>2 DEF PathsBuilt, RouteAt
  <1>8. KeptAreFirst' /\ OperationIDsUnique' /\ IsFiniteSet(usedIDs)' /\ ComponentsEmitted'
        BY <1>1, <1>2, <1>3
           DEF IInv, KeptAreFirst, OperationIDsUnique, ComponentsEmitted, RouteAt
  <1> QED BY <1>6, <1>7, <1>8 DEF IInv

\* buildPaths keeps the invariant when it skips a path.
LEMMA SkipUnrootedIInv == IInv /\ SkipUnrooted => IInv'
  <1> SUFFICES ASSUME IInv, SkipUnrooted PROVE IInv'  OBVIOUS
  <1>1. /\ UNCHANGED <<project, read, emitted, opIDs, usedIDs, paths, schemas, written>>
        /\ built' = built + 1 /\ RouteAt(emitted[built + 1]).slot \notin project.rooted
        BY DEF SkipUnrooted, BuildingRoute
  <1>2. Routes' = Routes /\ Types' = Types /\ Kept' = Kept /\ KeptSlots' = KeptSlots
        BY <1>1 DEF Routes, Types, Kept, KeptSlots, RouteAt
  <1>3. built \in 0..Len(emitted) /\ built < Len(emitted) /\ Len(emitted) \in Nat /\ ~written
    <2>1. emitted \in Seq(1..Len(Routes))  BY DEF IInv, TypeOK
    <2> QED BY <2>1 DEF IInv, TypeOK, SkipUnrooted, Building, ComponentsEmitted
  <1>4. TypeOK'
    <2>1. built' \in 0..Len(emitted)  BY <1>1, <1>3
    <2> QED BY <1>1, <1>2, <2>1 DEF IInv, TypeOK, WellFormed
  <1>5. PathsBuilt'
    <2>1. ASSUME NEW j \in 1..(built + 1), RouteAt(emitted[j]).slot \in project.rooted
          PROVE  RouteAt(emitted[j]).slot \in DOMAIN paths
      <3>1. j \in 1..built  BY <1>1, <1>3, <2>1
      <3> QED BY <2>1, <3>1 DEF IInv, PathsBuilt
    <2> QED BY <1>1, <1>2, <2>1 DEF IInv, PathsBuilt, RouteAt
  <1>6. KeptAreFirst' /\ OperationIDsUnique' /\ IsFiniteSet(usedIDs)' /\ ComponentsEmitted'
        BY <1>1, <1>2, <1>3
           DEF IInv, KeptAreFirst, OperationIDsUnique, ComponentsEmitted, RouteAt
  <1> QED BY <1>4, <1>5, <1>6 DEF IInv

\* Generate's last step keeps the invariant.
LEMMA EmitComponentsIInv == IInv /\ EmitComponents => IInv'
  <1> SUFFICES ASSUME IInv, EmitComponents PROVE IInv'  OBVIOUS
  <1>1. /\ UNCHANGED <<project, read, emitted, opIDs, usedIDs, built, paths>>
        /\ schemas' = StandardFor(Gated) \cup Generated(Kept) /\ written' = TRUE
        BY DEF EmitComponents
  <1>2. Routes' = Routes /\ Types' = Types /\ Kept' = Kept /\ KeptSlots' = KeptSlots
        BY <1>1 DEF Routes, Types, Kept, KeptSlots, RouteAt
  <1>3. read = Len(Routes) /\ built = Len(emitted) /\ DOMAIN opIDs = KeptSlots
    <2>1. Routes \in Seq(Route) /\ emitted \in Seq(1..Len(Routes))
          BY DEF IInv, TypeOK, WellFormed, Routes
    <2>2. Len(Routes) \in Nat /\ Len(emitted) \in Nat
          BY <2>1
    <2> QED BY <2>2 DEF IInv, TypeOK, EmitComponents, Reading, Naming, Building
  <1>4. schemas' \subseteq NameText
    <2>1. StandardFor(Gated) \subseteq Standard  BY DEF StandardFor, ErrorSchema, Standard
    <2>2. Generated(Kept) \subseteq NameText
          BY DEF Generated, Types, IInv, TypeOK, WellFormed
    <2> QED BY <1>1, <2>1, <2>2, StandardNames
  <1>5. TypeOK'  BY <1>1, <1>2, <1>4 DEF IInv, TypeOK, WellFormed
  <1>6. ComponentsEmitted'
    <2>1. StandardFor(Gated)' = StandardFor(Gated)
          BY <1>1, <1>2 DEF StandardFor, Gated, ErrorSchema, Plaintext, RouteAt
    <2>2. Generated(Kept)' = Generated(Kept)
          BY <1>1, <1>2 DEF Generated, Referenced, FieldRefs, RouteReferences, Named,
             RequestFieldRefs, ParameterRefs, Registered, ParamsOnly, Fieldless, RouteAt
    <2> QED BY <1>1, <1>2, <1>3, <2>1, <2>2 DEF ComponentsEmitted
  <1>7. KeptAreFirst' /\ PathsBuilt' /\ OperationIDsUnique' /\ IsFiniteSet(usedIDs)'
        BY <1>1, <1>2 DEF IInv, KeptAreFirst, PathsBuilt, OperationIDsUnique, RouteAt
  <1> QED BY <1>5, <1>6, <1>7 DEF IInv

\* Every step of the generator keeps the invariant, and so does doing nothing.
LEMMA NextIInv == IInv /\ [Next]_vars => IInv'
  <1> SUFFICES ASSUME IInv, [Next]_vars PROVE IInv'  OBVIOUS
  <1>1. CASE ReadRoute  BY <1>1, ReadRouteIInv
  <1>2. CASE AssignOperationID  BY <1>2, AssignOperationIDIInv
  <1>3. CASE AttachOperation  BY <1>3, AttachOperationIInv
  <1>4. CASE SkipUnrooted  BY <1>4, SkipUnrootedIInv
  <1>5. CASE EmitComponents  BY <1>5, EmitComponentsIInv
  <1>6. CASE Finished \/ UNCHANGED vars
    <2>1. UNCHANGED vars  BY <1>6 DEF Finished
    <2>2. Routes' = Routes /\ Types' = Types /\ Kept' = Kept /\ KeptSlots' = KeptSlots
          BY <2>1 DEF vars, Routes, Types, Kept, KeptSlots, RouteAt
    <2>3. TypeOK'  BY <2>1, <2>2 DEF vars, IInv, TypeOK, WellFormed
    <2>4. /\ StandardFor(Gated)' = StandardFor(Gated)
          /\ Generated(Kept)' = Generated(Kept)
          BY <2>1, <2>2 DEF vars, StandardFor, Gated, ErrorSchema, Plaintext, Generated,
             Referenced, FieldRefs, RouteReferences, Named, RequestFieldRefs,
             ParameterRefs, Registered, ParamsOnly, Fieldless, RouteAt
    <2>5. KeptAreFirst' /\ PathsBuilt' /\ OperationIDsUnique' /\ IsFiniteSet(usedIDs)'
          BY <2>1, <2>2 DEF vars, IInv, KeptAreFirst, PathsBuilt, OperationIDsUnique, RouteAt
    <2>6. ComponentsEmitted'
          BY <2>1, <2>2, <2>4 DEF vars, IInv, ComponentsEmitted
    <2> QED BY <2>3, <2>5, <2>6 DEF IInv
  <1> QED BY <1>1, <1>2, <1>3, <1>4, <1>5, <1>6 DEF Next

-----------------------------------------------------------------------------
(* Theorems. *)

\* The invariant holds throughout Generate, whatever the project.
THEOREM EmissionInvariant == Spec => []IInv
  <1>1. Init => IInv  BY InitIInv
  <1>2. IInv /\ [Next]_vars => IInv'  BY NextIInv
  <1> QED BY <1>1, <1>2, PTL DEF Spec

\* The generator's intermediate results have their types.
THEOREM TypeCorrect == Spec => []TypeOK
  <1>1. IInv => TypeOK  BY DEF IInv
  <1> QED BY <1>1, EmissionInvariant, PTL

\* No two operations of a document share an operationId.
THEOREM UniqueOperationIDs == Spec => []OperationIDsUnique
  <1>1. IInv => OperationIDsUnique  BY DEF IInv
  <1> QED BY <1>1, EmissionInvariant, PTL

\* What a document says about a method and path is what their first
\* registration says, and every registered one with a rooted path is there.
THEOREM FirstIsDocumented == Spec => []FirstRegistrationWins
  <1>1. ASSUME IInv PROVE FirstRegistrationWins
    <2>1. Routes \in Seq(Route) /\ emitted \in Seq(1..Len(Routes))
          BY <1>1 DEF IInv, TypeOK, WellFormed, Routes
    <2>2. ASSUME NEW s \in DOMAIN paths
          PROVE  /\ RouteAt(paths[s]).slot = s
                 /\ \A i \in 1..(paths[s] - 1) : RouteAt(i).slot # s
      <3>1. paths[s] \in Kept  BY <1>1 DEF IInv, TypeOK
      <3> QED BY <1>1, <3>1 DEF IInv, KeptAreFirst, PathsBuilt
    <2>3. ASSUME written, NEW i \in DOMAIN Routes, RouteAt(i).slot \in project.rooted
          PROVE  RouteAt(i).slot \in DOMAIN paths
      <3>1. RouteAt(i).slot \in KeptSlots
            BY <1>1, <2>1, <2>3 DEF IInv, KeptAreFirst, ComponentsEmitted
      <3>2. PICK j \in DOMAIN emitted : RouteAt(emitted[j]).slot = RouteAt(i).slot
            BY <3>1 DEF KeptSlots, Kept
      <3>3. j \in 1..built  BY <1>1, <2>1, <2>3 DEF IInv, ComponentsEmitted
      <3> QED BY <1>1, <2>3, <3>2, <3>3 DEF IInv, PathsBuilt
    <2> QED BY <2>2, <2>3 DEF FirstRegistrationWins
  <1> QED BY <1>1, EmissionInvariant, PTL

\* Every $ref of a complete document resolves.
THEOREM EveryRefResolves == Spec => []RefsResolve
  <1>1. ASSUME IInv, written PROVE RefsResolve
    <2>1. schemas = StandardFor(Kept) \cup Generated(Kept)
          BY <1>1 DEF IInv, ComponentsEmitted, Gated
    <2>2. ASSUME NEW i \in Kept PROVE OperationRefs(RouteAt(i)) \subseteq schemas
      <3> DEFINE r == RouteAt(i)
      <3>1. i \in 1..Len(Routes)
        <4>1. emitted \in Seq(1..Len(Routes))  BY <1>1 DEF IInv, TypeOK
        <4> QED BY <4>1 DEF Kept
      <3>2. /\ Analyzed(r.request, Types) /\ Analyzed(r.response, Types) /\ r.request.refs = {}
            BY <1>1, <3>1, PayloadShape DEF IInv, TypeOK
      <3>3. /\ RouteReferences(r) \subseteq Referenced(Kept)
            /\ RequestFieldRefs(r.request) \subseteq Referenced(Kept)
            BY DEF Referenced
      <3>4. ErrorSchema(r) \in schemas  BY <2>1 DEF StandardFor
      <3>5. ResponseRefs(r) \subseteq schemas
        <4>1. ASSUME NEW n \in ResponseRefs(r), n \in RouteReferences(r), n \in DOMAIN Types
              PROVE  n \in schemas
              BY <2>1, <3>3, <4>1, ReferencedIsGenerated
        <4>2. ASSUME NEW n \in ResponseRefs(r), n \notin RouteReferences(r) \/ n \notin DOMAIN Types
              PROVE  n \in StandardFor(Kept)
          <5>1. r.response.jose /\ n \in Plaintext(r.response) /\ n = SuccessResponse
                BY <3>2, <4>2 DEF ResponseRefs, Plaintext, RouteReferences, Named, Analyzed
          <5> QED BY <5>1 DEF StandardFor
        <4> QED BY <2>1, <4>1, <4>2
      <3>6. RequestRefs(r) \subseteq schemas
        <4>1. ASSUME NEW n \in RequestRefs(r) PROVE n \in Generated(Kept)
          <5>1. n = r.request.name /\ n # <<>> /\ ~r.request.resolved /\ n \in DOMAIN Types
                BY <3>2, <4>1 DEF RequestRefs, Named, Analyzed
          <5>2. CASE r.request.jose
            <6>1. n \in RouteReferences(r)  BY <5>1, <5>2 DEF RouteReferences, Named
            <6> QED BY <3>3, <5>1, <6>1, ReferencedIsGenerated
          <5>3. CASE ~r.request.jose
            <6>1. Types[n].body
                  BY <4>1, <5>1, <5>3 DEF RequestRefs, HasBody, Registered
            <6> QED BY <5>1, <6>1 DEF Generated, ParamsOnly, Fieldless
          <5> QED BY <5>2, <5>3
        <4> QED BY <2>1, <4>1
      <3>7. ParameterRefs(r.request) \subseteq schemas
        <4>1. ASSUME NEW n \in ParameterRefs(r.request) PROVE n \in Generated(Kept)
          <5>1. n \in RequestFieldRefs(r.request)  BY <4>1 DEF RequestFieldRefs
          <5>2. n \in DOMAIN Types
            <6>1. \A m \in DOMAIN Types : Types[m].paramRefs \subseteq DOMAIN Types
                  BY <1>1 DEF IInv, TypeOK, WellFormed, Types
            <6> QED BY <3>2, <4>1, <6>1 DEF ParameterRefs, Registered, Analyzed
          <5> QED BY <3>3, <5>1, <5>2, ReferencedIsGenerated
        <4> QED BY <2>1, <4>1
      <3> QED BY <3>4, <3>5, <3>6, <3>7 DEF OperationRefs
    <2>3. ASSUME NEW n \in DOMAIN Types PROVE Types[n].bodyRefs \subseteq schemas
      <3>1. Types[n].bodyRefs \subseteq DOMAIN Types
            BY <1>1 DEF IInv, TypeOK, WellFormed, Types
      <3>2. Types[n].bodyRefs \subseteq Referenced(Kept)  BY DEF Referenced, FieldRefs
      <3> QED BY <2>1, <3>1, <3>2, ReferencedIsGenerated
    <2>4. \A s \in DOMAIN paths : paths[s] \in Kept  BY <1>1 DEF IInv, TypeOK
    <2> QED BY <2>2, <2>3, <2>4 DEF RefsResolve
  <1>2. IInv => RefsResolve
    <2>1. CASE written  BY <1>1, <2>1
    <2>2. CASE ~written  BY <2>2 DEF RefsResolve
    <2> QED BY <2>1, <2>2
  <1> QED BY <1>2, EmissionInvariant, PTL

-----------------------------------------------------------------------------
(* The order of ids, and the gate of the standard schemas. *)

\* No two routes are kept for one slot.
LEMMA KeptOnce ==
    ASSUME IInv, NEW i \in Kept, NEW j \in Kept, RouteAt(i).slot = RouteAt(j).slot
    PROVE  i = j
  <1>1. emitted \in Seq(1..Len(Routes))  BY DEF IInv, TypeOK
  <1>2. i \in Nat \ {0} /\ j \in Nat \ {0}  BY <1>1 DEF Kept
  <1>3. \A k \in 1..(i - 1) : RouteAt(k).slot # RouteAt(i).slot  BY DEF IInv, KeptAreFirst
  <1>4. \A k \in 1..(j - 1) : RouteAt(k).slot # RouteAt(j).slot  BY DEF IInv, KeptAreFirst
  <1>5. j \notin 1..(i - 1) /\ i \notin 1..(j - 1)  BY <1>3, <1>4
  <1> QED BY <1>2, <1>5

\* Slots are numbers.
LEMMA KeptSlotsTyped ==
    ASSUME IInv
    PROVE  KeptSlots \subseteq Nat
  <1>1. emitted \in Seq(1..Len(Routes))  BY DEF IInv, TypeOK
  <1>2. ASSUME NEW i \in Kept PROVE RouteAt(i).slot \in Nat
    <2>1. i \in 1..Len(Routes)  BY <1>1 DEF Kept
    <2>2. RouteAt(i) \in Route  BY <2>1, RouteShape DEF IInv, TypeOK
    <2> QED BY <2>2 DEF Route
  <1> QED BY <1>2 DEF KeptSlots

\* Ids are given once every route is read, and in the order of the keys.
GivenInOrder ==
    /\ DOMAIN opIDs # {} => ~Reading
    /\ \A t \in DOMAIN opIDs : \A s \in KeptSlots \ DOMAIN opIDs : t < s

OInv == IInv /\ GivenInOrder /\ IDsFollowKeyOrder

\* An id that is not the name asked for was taken by an earlier key.
LEMMA AssignInOrder ==
    ASSUME OInv, AssignOperationID
    PROVE  GivenInOrder' /\ IDsFollowKeyOrder'
  <1> USE DEF OInv
  <1>1. PICK i \in Kept :
          /\ RouteAt(i).slot \notin DOMAIN opIDs
          /\ NextByKey(RouteAt(i))
          /\ opIDs' = With(opIDs, RouteAt(i).slot, Fresh(RouteAt(i).base, usedIDs))
        BY DEF AssignOperationID
  <1> DEFINE slot == RouteAt(i).slot
             base == RouteAt(i).base
             id == Fresh(base, usedIDs)
  <1>2. UNCHANGED <<project, read, emitted>> /\ ~Reading  BY DEF AssignOperationID, Naming
  <1>3. /\ Kept' = Kept /\ KeptSlots' = KeptSlots /\ Reading' = Reading
        /\ \A j : RouteAt(j)' = RouteAt(j)
        BY <1>2 DEF Routes, Kept, KeptSlots, RouteAt, Reading
  <1>4. slot \in KeptSlots /\ KeptSlots \subseteq Nat  BY KeptSlotsTyped DEF KeptSlots
  <1>5. /\ DOMAIN opIDs' = DOMAIN opIDs \cup {slot} /\ opIDs'[slot] = id
        /\ \A s \in DOMAIN opIDs : opIDs'[s] = opIDs[s]
    <2> HIDE DEF slot, id
    <2>1. opIDs' = With(opIDs, slot, id) /\ slot \notin DOMAIN opIDs  BY <1>1 DEF slot, id
    <2> QED BY <2>1 DEF With
  <1>6. \A s \in KeptSlots \ DOMAIN opIDs : slot <= s
    <2> SUFFICES ASSUME NEW s \in KeptSlots \ DOMAIN opIDs PROVE slot <= s
        OBVIOUS
    <2>1. PICK j \in DOMAIN emitted : s = RouteAt(emitted[j]).slot  BY DEF KeptSlots, Kept
    <2> QED BY <1>1, <2>1 DEF NextByKey
  <1>7. \A t \in DOMAIN opIDs : t < slot
        BY <1>1, <1>4 DEF GivenInOrder
  <1>8. GivenInOrder'
    <2>1. DOMAIN opIDs \subseteq KeptSlots  BY DEF IInv, TypeOK
    <2> SUFFICES ASSUME NEW t \in DOMAIN opIDs', NEW s \in KeptSlots \ DOMAIN opIDs'
                 PROVE  t < s
        BY <1>2, <1>3 DEF GivenInOrder
    <2>2. s \in KeptSlots \ DOMAIN opIDs /\ s # slot  BY <1>5
    <2>3. slot < s
      <3>1. slot \in Nat /\ s \in Nat /\ slot <= s  BY <1>4, <1>6, <2>2
      <3> HIDE DEF slot
      <3> QED BY <2>2, <3>1
    <2>4. CASE t = slot  BY <2>3, <2>4
    <2>5. CASE t \in DOMAIN opIDs  BY <2>2, <2>5 DEF GivenInOrder
    <2> HIDE DEF slot
    <2> QED BY <1>5, <2>4, <2>5
  <1>9. IDsFollowKeyOrder'
    <2> SUFFICES ASSUME NEW j \in Kept, RouteAt(j).slot \in DOMAIN opIDs'
                 PROVE  \/ opIDs'[RouteAt(j).slot] = RouteAt(j).base
                        \/ \E t \in DOMAIN opIDs' :
                             t < RouteAt(j).slot /\ opIDs'[t] = RouteAt(j).base
        BY <1>3 DEF IDsFollowKeyOrder
    <2>1. CASE RouteAt(j).slot \in DOMAIN opIDs
      <3> HIDE DEF slot, id
      <3> QED BY <1>5, <2>1 DEF IDsFollowKeyOrder
    <2>2. CASE RouteAt(j).slot = slot
      <3>1. j = i  BY <2>2, KeptOnce
      <3>2. CASE base \notin usedIDs
            BY <1>5, <3>1, <3>2 DEF Fresh
      <3>3. CASE base \in usedIDs
        <4>1. PICK t \in DOMAIN opIDs : opIDs[t] = base  BY <3>3 DEF IInv, TypeOK
        <4> HIDE DEF slot, base, id
        <4>2. t \in DOMAIN opIDs' /\ opIDs'[t] = base /\ t < slot  BY <1>5, <1>7, <4>1
        <4> QED BY <3>1, <4>2 DEF slot, base
      <3> QED BY <3>2, <3>3
    <2> HIDE DEF slot
    <2> QED BY <1>5, <2>1, <2>2
  <1> QED BY <1>8, <1>9

\* An operation gives up its own id only to one whose key sorts before it, in
\* every project: the order of discovery does not show in the document.
THEOREM IDsInKeyOrder == Spec => []IDsFollowKeyOrder
  <1>1. Init => OInv
    <2> SUFFICES ASSUME Init PROVE OInv  OBVIOUS
    <2>1. DOMAIN opIDs = {}  BY DEF Init
    <2> QED BY <2>1, InitIInv DEF OInv, GivenInOrder, IDsFollowKeyOrder
  <1>2. OInv /\ [Next]_vars => OInv'
    <2> SUFFICES ASSUME OInv, [Next]_vars PROVE OInv'  OBVIOUS
    <2>1. IInv'  BY NextIInv DEF OInv
    <2>2. CASE ReadRoute
      <3>1. opIDs' = opIDs /\ DOMAIN opIDs = {}
            BY <2>2 DEF ReadRoute, OInv, GivenInOrder
      <3> QED BY <2>1, <3>1 DEF OInv, GivenInOrder, IDsFollowKeyOrder
    <2>3. CASE AssignOperationID  BY <2>1, <2>3, AssignInOrder DEF OInv
    <2>4. CASE UNCHANGED <<project, read, emitted, opIDs>>
      <3>1. /\ Kept' = Kept /\ KeptSlots' = KeptSlots /\ Reading' = Reading
            /\ \A j : RouteAt(j)' = RouteAt(j)
            BY <2>4 DEF Routes, Kept, KeptSlots, RouteAt, Reading
      <3> QED BY <2>1, <2>4, <3>1 DEF OInv, GivenInOrder, IDsFollowKeyOrder
    <2> QED BY <2>2, <2>3, <2>4
            DEF Next, AttachOperation, SkipUnrooted, EmitComponents, Finished, vars
  <1>3. OInv => IDsFollowKeyOrder  BY DEF OInv
  <1> QED BY <1>1, <1>2, <1>3, PTL DEF Spec

\* A standard schema is in the document only if an operation refers to it,
\* whenever buildPaths accepts the path of every emitted route.
THEOREM GateAgreesWithPaths == Spec => []GateMatchesPaths
  <1>1. ASSUME IInv, written, KeptSlots \subseteq project.rooted,
               NEW n \in schemas \cap Standard, n \notin DOMAIN Types
        PROVE  \E s \in DOMAIN paths : n \in OperationRefs(RouteAt(paths[s]))
    <2>1. n \in StandardFor(Kept)
          BY <1>1 DEF IInv, ComponentsEmitted, Gated, Generated
    <2>2. PICK i \in Kept :
            \/ n = ErrorSchema(RouteAt(i))
            \/ RouteAt(i).response.jose /\ n \in Plaintext(RouteAt(i).response)
          BY <2>1 DEF StandardFor
    <2>3. emitted \in Seq(1..Len(Routes)) /\ Routes \in Seq(Route)
          BY <1>1 DEF IInv, TypeOK, WellFormed, Routes
    <2>4. i \in DOMAIN project.routes  BY <2>3 DEF Kept, Routes
    <2>5. RouteAt(i).response.jose => ~RouteAt(i).noContent
          BY <1>1, <2>4 DEF IInv, TypeOK, WellFormed, RouteAt, Routes
    <2>6. n \in OperationRefs(RouteAt(i))
          BY <2>2, <2>5 DEF OperationRefs, ResponseRefs
    <2>7. RouteAt(i).slot \in KeptSlots  BY DEF KeptSlots
    <2>8. RouteAt(i).slot \in DOMAIN paths
      <3>1. PICK j \in DOMAIN emitted : i = emitted[j]  BY DEF Kept
      <3>2. j \in 1..built  BY <1>1, <2>3, <3>1 DEF IInv, ComponentsEmitted
      <3> QED BY <1>1, <2>7, <3>1, <3>2 DEF IInv, PathsBuilt
    <2>9. paths[RouteAt(i).slot] = i
      <3>1. /\ paths[RouteAt(i).slot] \in Kept
            /\ RouteAt(paths[RouteAt(i).slot]).slot = RouteAt(i).slot
            BY <1>1, <2>8 DEF IInv, TypeOK, PathsBuilt
      <3> QED BY <1>1, <3>1, KeptOnce
    <2> QED BY <2>6, <2>8, <2>9
  <1>2. IInv => GateMatchesPaths
        BY <1>1 DEF GateMatchesPaths, StandardSchemasReferenced
  <1> QED BY <1>2, EmissionInvariant, PTL
=============================================================================
