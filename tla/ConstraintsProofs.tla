-------------------------- MODULE ConstraintsProofs --------------------------
(***************************************************************************)
(* Proofs about Constraints, for every field, tag and value: the schema of *)
(* a tag admits what the validator accepts, and of bounds nothing else.    *)
(*                                                                         *)
(* A rule is followed to its keyword: what a merge makes of a bound is an  *)
(* equivalence (KeepLargerEffect to MergeMaximumEffect), so a rule admits  *)
(* the values it admitted before that meet it (AdmitsStep), and, of a      *)
(* bound, no others (ExactStep).  The loop over the keys is followed by    *)
(* its prefixes.  The invariant says where each rule of a tag was filed.   *)
(***************************************************************************)
EXTENDS Constraints, SequenceTheorems, WellFoundedInduction, TLAPS

SizeKeys == {"minLength", "maxLength", "minItems", "maxItems", "minProperties", "maxProperties"}
BoundKeys == {"minimum", "maximum"}

Sizing == {None} \cup [is : {"set"}, v : Int]
Bounding == {None} \cup [is : {"set"}, v : [n : Int, exclusive : BOOLEAN]]

IsSet(set) ==
    /\ set = [k \in Keywords |-> set[k]]
    /\ \A k \in SizeKeys : set[k] \in Sizing
    /\ \A k \in BoundKeys : set[k] \in Bounding

\* One keyword of a set, asked of a number.
AtLeast(set, keyword, x) == set[keyword] # None => x >= set[keyword].v
AtMost(set, keyword, x) == set[keyword] # None => x <= set[keyword].v

\* The two sets differ in one keyword at most.
Elsewhere(set, old, keyword) == \A k \in Keywords \ {keyword} : set[k] = old[k]

\* Set changes one keyword.
LEMMA SetEffect ==
    ASSUME NEW set, IsSet(set), NEW keyword \in Keywords, NEW v
    PROVE  /\ Set(set, keyword, v) = [k \in Keywords |-> Set(set, keyword, v)[k]]
           /\ Set(set, keyword, v)[keyword] = [is |-> "set", v |-> v]
           /\ Elsewhere(Set(set, keyword, v), set, keyword)
  BY DEF IsSet, Set, Elsewhere

\* A keyword that is set is not None.
LEMMA SetNotNone == \A v : [is |-> "set", v |-> v] # None
  <1> TAKE v
  <1>1. [is |-> "set", v |-> v].is = "set" /\ None.is = "none"  BY DEF None
  <1> QED BY <1>1

\* A size leaves the set one.
LEMMA SetSize ==
    ASSUME NEW set, IsSet(set), NEW keyword \in SizeKeys, NEW n \in Int
    PROVE  IsSet(Set(set, keyword, n))
  <1>1. keyword \in Keywords /\ keyword \notin BoundKeys  BY DEF SizeKeys, BoundKeys, Keywords
  <1>2. [is |-> "set", v |-> n] \in Sizing  BY DEF Sizing
  <1>3. SizeKeys \subseteq Keywords /\ BoundKeys \subseteq Keywords  BY DEF SizeKeys, BoundKeys, Keywords
  <1> DEFINE r == Set(set, keyword, n)
  <1>4. /\ r = [k \in Keywords |-> r[k]] /\ r[keyword] = [is |-> "set", v |-> n]
        /\ \A k \in Keywords \ {keyword} : r[k] = set[k]
        BY <1>1, SetEffect DEF Elsewhere
  <1> HIDE DEF r
  <1>5. \A k \in SizeKeys : r[k] \in Sizing  BY <1>2, <1>3, <1>4 DEF IsSet
  <1>6. \A k \in BoundKeys : r[k] \in Bounding  BY <1>1, <1>3, <1>4 DEF IsSet
  <1>7. IsSet(r)  BY <1>4, <1>5, <1>6 DEF IsSet
  <1> QED BY <1>7 DEF r

\* Of two lower sizes the larger is what both ask.
LEMMA KeepLargerEffect ==
    ASSUME NEW set, IsSet(set), NEW keyword \in SizeKeys, NEW n \in Int, NEW x \in Int
    PROVE  LET r == KeepLarger(set, keyword, n)
           IN  /\ IsSet(r) /\ Elsewhere(r, set, keyword)
               /\ AtLeast(r, keyword, x) <=> AtLeast(set, keyword, x) /\ x >= n
  <1>1. keyword \in Keywords  BY DEF SizeKeys, Keywords
  <1>2. set[keyword] \in Sizing  BY DEF IsSet
  <1>3. CASE set[keyword] = None \/ n > set[keyword].v
    <2> DEFINE r == Set(set, keyword, n)
    <2>1. KeepLarger(set, keyword, n) = r  BY <1>3 DEF KeepLarger
    <2>2. r[keyword] = [is |-> "set", v |-> n] /\ Elsewhere(r, set, keyword) /\ IsSet(r)
          BY <1>1, SetEffect, SetSize
    <2> HIDE DEF r
    <2>3. r[keyword] # None /\ r[keyword].v = n
      <3>1. [is |-> "set", v |-> n] # None  BY SetNotNone
      <3> QED BY <2>2, <3>1
    <2>4. AtLeast(r, keyword, x) <=> x >= n  BY <2>3 DEF AtLeast
    <2>5. x >= n => AtLeast(set, keyword, x)
      <3>1. CASE set[keyword] = None  BY <3>1 DEF AtLeast
      <3>2. CASE set[keyword] # None
        <4>1. set[keyword].v \in Int  BY <1>2, <3>2 DEF Sizing
        <4> QED BY <1>3, <3>2, <4>1 DEF AtLeast
      <3> QED BY <3>1, <3>2
    <2> QED BY <2>1, <2>2, <2>4, <2>5
  <1>4. CASE ~(set[keyword] = None \/ n > set[keyword].v)
    <2>1. KeepLarger(set, keyword, n) = set  BY <1>4 DEF KeepLarger
    <2>2. AtLeast(set, keyword, x) => x >= n  BY <1>2, <1>4 DEF AtLeast, Sizing
    <2> QED BY <2>1, <2>2 DEF Elsewhere
  <1> QED BY <1>3, <1>4

\* Of two upper sizes the smaller is what both ask.
LEMMA KeepSmallerEffect ==
    ASSUME NEW set, IsSet(set), NEW keyword \in SizeKeys, NEW n \in Int, NEW x \in Int
    PROVE  LET r == KeepSmaller(set, keyword, n)
           IN  /\ IsSet(r) /\ Elsewhere(r, set, keyword)
               /\ AtMost(r, keyword, x) <=> AtMost(set, keyword, x) /\ x <= n
  <1>1. keyword \in Keywords  BY DEF SizeKeys, Keywords
  <1>2. set[keyword] \in Sizing  BY DEF IsSet
  <1>3. CASE set[keyword] = None \/ n < set[keyword].v
    <2> DEFINE r == Set(set, keyword, n)
    <2>1. KeepSmaller(set, keyword, n) = r  BY <1>3 DEF KeepSmaller
    <2>2. r[keyword] = [is |-> "set", v |-> n] /\ Elsewhere(r, set, keyword) /\ IsSet(r)
          BY <1>1, SetEffect, SetSize
    <2> HIDE DEF r
    <2>3. r[keyword] # None /\ r[keyword].v = n
      <3>1. [is |-> "set", v |-> n] # None  BY SetNotNone
      <3> QED BY <2>2, <3>1
    <2>4. AtMost(r, keyword, x) <=> x <= n  BY <2>3 DEF AtMost
    <2>5. x <= n => AtMost(set, keyword, x)
      <3>1. CASE set[keyword] = None  BY <3>1 DEF AtMost
      <3>2. CASE set[keyword] # None
        <4>1. set[keyword].v \in Int  BY <1>2, <3>2 DEF Sizing
        <4> QED BY <1>3, <3>2, <4>1 DEF AtMost
      <3> QED BY <3>1, <3>2
    <2> QED BY <2>1, <2>2, <2>4, <2>5
  <1>4. CASE ~(set[keyword] = None \/ n < set[keyword].v)
    <2>1. KeepSmaller(set, keyword, n) = set  BY <1>4 DEF KeepSmaller
    <2>2. AtMost(set, keyword, x) => x <= n  BY <1>2, <1>4 DEF AtMost, Sizing
    <2> QED BY <2>1, <2>2 DEF Elsewhere
  <1> QED BY <1>3, <1>4

\* So does a bound.
LEMMA SetBound ==
    ASSUME NEW set, IsSet(set), NEW keyword \in BoundKeys, NEW b \in [n : Int, exclusive : BOOLEAN]
    PROVE  /\ IsSet(Set(set, keyword, b)) /\ Elsewhere(Set(set, keyword, b), set, keyword)
           /\ Set(set, keyword, b)[keyword] = [is |-> "set", v |-> b]
  <1>1. keyword \in Keywords /\ keyword \notin SizeKeys  BY DEF SizeKeys, BoundKeys, Keywords
  <1>2. [is |-> "set", v |-> b] \in Bounding  BY DEF Bounding
  <1>3. SizeKeys \subseteq Keywords /\ BoundKeys \subseteq Keywords  BY DEF SizeKeys, BoundKeys, Keywords
  <1> DEFINE r == Set(set, keyword, b)
  <1>4. /\ r = [k \in Keywords |-> r[k]] /\ r[keyword] = [is |-> "set", v |-> b]
        /\ \A k \in Keywords \ {keyword} : r[k] = set[k]
        BY <1>1, SetEffect DEF Elsewhere
  <1> HIDE DEF r
  <1>5. \A k \in SizeKeys : r[k] \in Sizing  BY <1>1, <1>3, <1>4 DEF IsSet
  <1>6. \A k \in BoundKeys : r[k] \in Bounding  BY <1>2, <1>3, <1>4 DEF IsSet
  <1>7. IsSet(r)  BY <1>4, <1>5, <1>6 DEF IsSet
  <1> QED BY <1>4, <1>7 DEF r, Elsewhere

AboveBound(b, x) == x > b.n \/ (x = b.n /\ ~b.exclusive)
BelowBound(b, x) == x < b.n \/ (x = b.n /\ ~b.exclusive)
Above(set, x) == set.minimum # None => AboveBound(set.minimum.v, x)
Below(set, x) == set.maximum # None => BelowBound(set.maximum.v, x)

\* Of two minimums the stricter is what both ask, and a tie is exclusive if one is.
LEMMA MergeMinimumEffect ==
    ASSUME NEW set, IsSet(set), NEW n \in Int, NEW e \in BOOLEAN, NEW x \in Int
    PROVE  LET r == MergeNumeric(set, "minimum", Bound(n, e))
           IN  /\ IsSet(r) /\ Elsewhere(r, set, "minimum")
               /\ Above(r, x) <=> Above(set, x) /\ AboveBound(Bound(n, e), x)
  <1> DEFINE r == MergeNumeric(set, "minimum", Bound(n, e))
             old == set["minimum"]
  <1>1. Bound(n, e).n = n /\ Bound(n, e).exclusive = e
        /\ Bound(n, e) \in [n : Int, exclusive : BOOLEAN]
        BY DEF Bound
  <1>2. old \in Bounding  BY DEF IsSet, BoundKeys
  <1>3. CASE old = None
    <2>1. r = Set(set, "minimum", Bound(n, e))  BY <1>3 DEF MergeNumeric
    <2>2. IsSet(r) /\ r["minimum"] = [is |-> "set", v |-> Bound(n, e)] /\ Elsewhere(r, set, "minimum")
          BY <1>1, <2>1, SetBound DEF BoundKeys
    <2> HIDE DEF r
    <2>3. r["minimum"] # None /\ r["minimum"].v = Bound(n, e)
      <3>1. [is |-> "set", v |-> Bound(n, e)] # None  BY SetNotNone
      <3> QED BY <2>2, <3>1
    <2>4. Above(r, x) <=> AboveBound(Bound(n, e), x)  BY <2>3 DEF Above
    <2>5. Above(set, x)  BY <1>3 DEF Above
    <2> QED BY <2>2, <2>4, <2>5 DEF r
  <1>4. CASE old # None
    <2>1. PICK m \in Int, d \in BOOLEAN : old.v = [n |-> m, exclusive |-> d]
          BY <1>2, <1>4 DEF Bounding
    <2>2. old.v.n = m /\ old.v.exclusive = d  BY <2>1
    <2>3. Above(set, x) <=> AboveBound(old.v, x)  BY <1>4 DEF Above
    <2>4. AboveBound(old.v, x) <=> x > m \/ (x = m /\ ~d)  BY <2>2 DEF AboveBound
    <2>5. AboveBound(Bound(n, e), x) <=> x > n \/ (x = n /\ ~e)  BY <1>1 DEF AboveBound
    <2>6. CASE n = m
      <3> DEFINE c == [Bound(n, e) EXCEPT !.exclusive = @ \/ old.v.exclusive]
      <3>1. r = Set(set, "minimum", c)  BY <1>1, <1>4, <2>2, <2>6 DEF MergeNumeric
      <3>2. c.n = n /\ c.exclusive = (e \/ d) /\ c \in [n : Int, exclusive : BOOLEAN]
            BY <1>1, <2>2 DEF Bound
      <3> HIDE DEF c
      <3>3. IsSet(r) /\ r["minimum"] = [is |-> "set", v |-> c] /\ Elsewhere(r, set, "minimum")
            BY <3>1, <3>2, SetBound DEF BoundKeys
      <3> HIDE DEF r
      <3>4. r["minimum"] # None /\ r["minimum"].v = c
        <4>1. [is |-> "set", v |-> c] # None  BY SetNotNone
        <4> QED BY <3>3, <4>1
      <3>5. Above(r, x) <=> AboveBound(c, x)  BY <3>4 DEF Above
      <3>6. AboveBound(c, x) <=> x > n \/ (x = n /\ ~(e \/ d))  BY <3>2 DEF AboveBound
      <3>7. Above(r, x) <=> Above(set, x) /\ AboveBound(Bound(n, e), x)
            BY <2>3, <2>4, <2>5, <2>6, <3>5, <3>6
      <3> QED BY <3>3, <3>7 DEF r
    <2>7. CASE n > m
      <3>1. r = Set(set, "minimum", Bound(n, e))  BY <1>1, <1>4, <2>2, <2>7 DEF MergeNumeric
      <3>2. IsSet(r) /\ r["minimum"] = [is |-> "set", v |-> Bound(n, e)] /\ Elsewhere(r, set, "minimum")
            BY <1>1, <3>1, SetBound DEF BoundKeys
      <3> HIDE DEF r
      <3>3. r["minimum"] # None /\ r["minimum"].v = Bound(n, e)
        <4>1. [is |-> "set", v |-> Bound(n, e)] # None  BY SetNotNone
        <4> QED BY <3>2, <4>1
      <3>4. Above(r, x) <=> AboveBound(Bound(n, e), x)  BY <3>3 DEF Above
      <3>5. x > n \/ (x = n /\ ~e) => x > m  BY <2>7
      <3>6. Above(r, x) <=> Above(set, x) /\ AboveBound(Bound(n, e), x)
            BY <2>3, <2>4, <2>5, <3>4, <3>5
      <3> QED BY <3>2, <3>6 DEF r
    <2>8. CASE n < m
      <3>1. r = set  BY <1>1, <1>4, <2>2, <2>8 DEF MergeNumeric
      <3>2. x > m \/ (x = m /\ ~d) => x > n  BY <2>8
      <3>3. Above(r, x) <=> Above(set, x) /\ AboveBound(Bound(n, e), x)
            BY <2>3, <2>4, <2>5, <3>1, <3>2
      <3> QED BY <3>1, <3>3 DEF Elsewhere
    <2> QED BY <2>6, <2>7, <2>8
  <1> QED BY <1>3, <1>4

\* Of two maximums likewise.
LEMMA MergeMaximumEffect ==
    ASSUME NEW set, IsSet(set), NEW n \in Int, NEW e \in BOOLEAN, NEW x \in Int
    PROVE  LET r == MergeNumeric(set, "maximum", Bound(n, e))
           IN  /\ IsSet(r) /\ Elsewhere(r, set, "maximum")
               /\ Below(r, x) <=> Below(set, x) /\ BelowBound(Bound(n, e), x)
  <1> DEFINE r == MergeNumeric(set, "maximum", Bound(n, e))
             old == set["maximum"]
  <1>1. Bound(n, e).n = n /\ Bound(n, e).exclusive = e
        /\ Bound(n, e) \in [n : Int, exclusive : BOOLEAN]
        BY DEF Bound
  <1>2. old \in Bounding  BY DEF IsSet, BoundKeys
  <1>3. CASE old = None
    <2>1. r = Set(set, "maximum", Bound(n, e))  BY <1>3 DEF MergeNumeric
    <2>2. IsSet(r) /\ r["maximum"] = [is |-> "set", v |-> Bound(n, e)] /\ Elsewhere(r, set, "maximum")
          BY <1>1, <2>1, SetBound DEF BoundKeys
    <2> HIDE DEF r
    <2>3. r["maximum"] # None /\ r["maximum"].v = Bound(n, e)
      <3>1. [is |-> "set", v |-> Bound(n, e)] # None  BY SetNotNone
      <3> QED BY <2>2, <3>1
    <2>4. Below(r, x) <=> BelowBound(Bound(n, e), x)  BY <2>3 DEF Below
    <2>5. Below(set, x)  BY <1>3 DEF Below
    <2> QED BY <2>2, <2>4, <2>5 DEF r
  <1>4. CASE old # None
    <2>1. PICK m \in Int, d \in BOOLEAN : old.v = [n |-> m, exclusive |-> d]
          BY <1>2, <1>4 DEF Bounding
    <2>2. old.v.n = m /\ old.v.exclusive = d  BY <2>1
    <2>3. Below(set, x) <=> BelowBound(old.v, x)  BY <1>4 DEF Below
    <2>4. BelowBound(old.v, x) <=> x < m \/ (x = m /\ ~d)  BY <2>2 DEF BelowBound
    <2>5. BelowBound(Bound(n, e), x) <=> x < n \/ (x = n /\ ~e)  BY <1>1 DEF BelowBound
    <2>6. CASE n = m
      <3> DEFINE c == [Bound(n, e) EXCEPT !.exclusive = @ \/ old.v.exclusive]
      <3>1. r = Set(set, "maximum", c)  BY <1>1, <1>4, <2>2, <2>6 DEF MergeNumeric
      <3>2. c.n = n /\ c.exclusive = (e \/ d) /\ c \in [n : Int, exclusive : BOOLEAN]
            BY <1>1, <2>2 DEF Bound
      <3> HIDE DEF c
      <3>3. IsSet(r) /\ r["maximum"] = [is |-> "set", v |-> c] /\ Elsewhere(r, set, "maximum")
            BY <3>1, <3>2, SetBound DEF BoundKeys
      <3> HIDE DEF r
      <3>4. r["maximum"] # None /\ r["maximum"].v = c
        <4>1. [is |-> "set", v |-> c] # None  BY SetNotNone
        <4> QED BY <3>3, <4>1
      <3>5. Below(r, x) <=> BelowBound(c, x)  BY <3>4 DEF Below
      <3>6. BelowBound(c, x) <=> x < n \/ (x = n /\ ~(e \/ d))  BY <3>2 DEF BelowBound
      <3>7. Below(r, x) <=> Below(set, x) /\ BelowBound(Bound(n, e), x)
            BY <2>3, <2>4, <2>5, <2>6, <3>5, <3>6
      <3> QED BY <3>3, <3>7 DEF r
    <2>7. CASE n < m
      <3>1. r = Set(set, "maximum", Bound(n, e))  BY <1>1, <1>4, <2>2, <2>7 DEF MergeNumeric
      <3>2. IsSet(r) /\ r["maximum"] = [is |-> "set", v |-> Bound(n, e)] /\ Elsewhere(r, set, "maximum")
            BY <1>1, <3>1, SetBound DEF BoundKeys
      <3> HIDE DEF r
      <3>3. r["maximum"] # None /\ r["maximum"].v = Bound(n, e)
        <4>1. [is |-> "set", v |-> Bound(n, e)] # None  BY SetNotNone
        <4> QED BY <3>2, <4>1
      <3>4. Below(r, x) <=> BelowBound(Bound(n, e), x)  BY <3>3 DEF Below
      <3>5. x < n \/ (x = n /\ ~e) => x < m  BY <2>7
      <3>6. Below(r, x) <=> Below(set, x) /\ BelowBound(Bound(n, e), x)
            BY <2>3, <2>4, <2>5, <3>4, <3>5
      <3> QED BY <3>2, <3>6 DEF r
    <2>8. CASE n > m
      <3>1. r = set  BY <1>1, <1>4, <2>2, <2>8 DEF MergeNumeric
      <3>2. x < m \/ (x = m /\ ~d) => x < n  BY <2>8
      <3>3. Below(r, x) <=> Below(set, x) /\ BelowBound(Bound(n, e), x)
            BY <2>3, <2>4, <2>5, <3>1, <3>2
      <3> QED BY <3>1, <3>3 DEF Elsewhere
    <2> QED BY <2>6, <2>7, <2>8
  <1> QED BY <1>3, <1>4

\* The two sets differ in two keywords at most.
Around(set, old, lo, hi) == \A k \in Keywords \ {lo, hi} : set[k] = old[k]

\* The same of a pair of keywords, for a lower size,
LEMMA LargerWithin ==
    ASSUME NEW set, IsSet(set), NEW lo \in SizeKeys, NEW hi \in SizeKeys, lo # hi, NEW n \in Int, NEW x \in Int
    PROVE  LET r == KeepLarger(set, lo, n)
           IN  /\ IsSet(r) /\ Around(r, set, lo, hi)
               /\ Within(r, lo, hi, x) <=> Within(set, lo, hi, x) /\ x >= n
  <1> DEFINE r == KeepLarger(set, lo, n)
  <1>1. IsSet(r) /\ Elsewhere(r, set, lo) /\ (AtLeast(r, lo, x) <=> AtLeast(set, lo, x) /\ x >= n)
        BY KeepLargerEffect
  <1> HIDE DEF r
  <1>2. hi \in Keywords \ {lo}  BY DEF SizeKeys, Keywords
  <1>3. r[hi] = set[hi] /\ Around(r, set, lo, hi)  BY <1>1, <1>2 DEF Elsewhere, Around
  <1>4. Within(r, lo, hi, x) <=> Within(set, lo, hi, x) /\ x >= n  BY <1>1, <1>3 DEF Within, AtLeast
  <1> QED BY <1>1, <1>3, <1>4 DEF r

\* an upper one,
LEMMA SmallerWithin ==
    ASSUME NEW set, IsSet(set), NEW lo \in SizeKeys, NEW hi \in SizeKeys, lo # hi, NEW n \in Int, NEW x \in Int
    PROVE  LET r == KeepSmaller(set, hi, n)
           IN  /\ IsSet(r) /\ Around(r, set, lo, hi)
               /\ Within(r, lo, hi, x) <=> Within(set, lo, hi, x) /\ x <= n
  <1> DEFINE r == KeepSmaller(set, hi, n)
  <1>1. IsSet(r) /\ Elsewhere(r, set, hi) /\ (AtMost(r, hi, x) <=> AtMost(set, hi, x) /\ x <= n)
        BY KeepSmallerEffect
  <1> HIDE DEF r
  <1>2. lo \in Keywords \ {hi}  BY DEF SizeKeys, Keywords
  <1>3. r[lo] = set[lo] /\ Around(r, set, lo, hi)  BY <1>1, <1>2 DEF Elsewhere, Around
  <1>4. Within(r, lo, hi, x) <=> Within(set, lo, hi, x) /\ x <= n  BY <1>1, <1>3 DEF Within, AtMost
  <1> QED BY <1>1, <1>3, <1>4 DEF r

\* and both at once.
LEMMA BothWithin ==
    ASSUME NEW set, IsSet(set), NEW lo \in SizeKeys, NEW hi \in SizeKeys, lo # hi, NEW n \in Int, NEW x \in Int
    PROVE  LET r == KeepBoth(set, lo, hi, n)
           IN  /\ IsSet(r) /\ Around(r, set, lo, hi)
               /\ Within(r, lo, hi, x) <=> Within(set, lo, hi, x) /\ x = n
  <1> DEFINE q == KeepLarger(set, lo, n)
             r == KeepSmaller(q, hi, n)
  <1>1. IsSet(q) /\ Around(q, set, lo, hi) /\ (Within(q, lo, hi, x) <=> Within(set, lo, hi, x) /\ x >= n)
        BY LargerWithin
  <1>2. KeepBoth(set, lo, hi, n) = r  BY DEF KeepBoth
  <1> HIDE DEF q
  <1>3. IsSet(r) /\ Around(r, q, lo, hi) /\ (Within(r, lo, hi, x) <=> Within(q, lo, hi, x) /\ x <= n)
        BY <1>1, SmallerWithin
  <1> HIDE DEF r
  <1>4. Around(r, set, lo, hi)  BY <1>1, <1>3 DEF Around
  <1>5. x >= n /\ x <= n <=> x = n  OBVIOUS
  <1> QED BY <1>1, <1>2, <1>3, <1>4, <1>5

-----------------------------------------------------------------------------
(* One rule. *)

\* A bound, asked of a size.
Fulfils(y, key, n) ==
    /\ key \in {"min", "gte"} => y >= n
    /\ key \in {"max", "lte"} => y <= n
    /\ key = "gt" => y > n
    /\ key = "lt" => y < n
    /\ key = "len" => y = n

Sized == Lower \cup Upper

\* What the validator makes of a bound.
LEMMA MeetsSized ==
    ASSUME NEW v, NEW rule, rule.key \in Sized
    PROVE  Meets(v, rule) <=> /\ v.is \notin {"struct", "boolean"} /\ IsNumber(rule.value)
                              /\ v.is # "number" => IsWhole(rule.value)
                              /\ Fulfils(Size(v), rule.key, rule.value[1].n)
  <1>1. CASE rule.key \in {"min", "gte"}  BY <1>1 DEF Meets, Fulfils, Patterns, FormatOf
  <1>2. CASE rule.key \in {"max", "lte"}  BY <1>2 DEF Meets, Fulfils, Patterns, FormatOf
  <1>3. CASE rule.key = "gt"  BY <1>3 DEF Meets, Fulfils, Patterns, FormatOf
  <1>4. CASE rule.key = "lt"  BY <1>4 DEF Meets, Fulfils, Patterns, FormatOf
  <1>5. CASE rule.key = "len"  BY <1>5 DEF Meets, Fulfils, Patterns, FormatOf
  <1> QED BY <1>1, <1>2, <1>3, <1>4, <1>5 DEF Sized, Lower, Upper

\* A value that is a number has one.
LEMMA WordNumber ==
    ASSUME NEW value \in Seq(Words), IsNumber(value)
    PROVE  value[1].n \in Int
  <1>1. value[1] \in Words  BY DEF IsNumber
  <1> QED BY <1>1 DEF Words

\* A whole one is twice its half.
LEMMA WholeNumber ==
    ASSUME NEW value \in Seq(Words), IsWhole(value)
    PROVE  value[1].n \in Int /\ value[1].n \div 2 \in Int /\ value[1].n = 2 * (value[1].n \div 2)
  <1>1. value[1].n \in Int /\ value[1].n % 2 = 0  BY WordNumber DEF IsWhole
  <1> QED BY <1>1

\* min, max and len of a container.
LEMMA CardinalStep ==
    ASSUME NEW set, IsSet(set), NEW lo \in SizeKeys, NEW hi \in SizeKeys, lo # hi,
           NEW key, NEW value \in Seq(Words), NEW x \in Int
    PROVE  LET r == Cardinal(set, key, value, lo, hi)
           IN  /\ IsSet(r) /\ Around(r, set, lo, hi)
               /\ Within(set, lo, hi, x) /\ Fulfils(2 * x, key, value[1].n) => Within(r, lo, hi, x)
               /\ IsWhole(value) /\ key \in {"min", "max", "len"} =>
                    (Within(r, lo, hi, x) <=> Within(set, lo, hi, x) /\ Fulfils(2 * x, key, value[1].n))
  <1> DEFINE r == Cardinal(set, key, value, lo, hi)
             n == value[1].n \div 2
  <1>1. CASE ~IsWhole(value) \/ key \notin {"min", "max", "len"}
    <2>1. r = set  BY <1>1 DEF Cardinal
    <2> HIDE DEF r
    <2> QED BY <1>1, <2>1 DEF r, Around
  <1>2. CASE IsWhole(value) /\ key \in {"min", "max", "len"}
    <2>1. n \in Int /\ value[1].n = 2 * n  BY <1>2, WholeNumber
    <2> HIDE DEF n
    <2>2. CASE key = "min"
      <3>1. r = KeepLarger(set, lo, n)  BY <1>2, <2>2 DEF Cardinal, n
      <3>2. Fulfils(2 * x, key, value[1].n) <=> x >= n  BY <2>1, <2>2 DEF Fulfils
      <3> QED BY <2>1, <3>1, <3>2, LargerWithin
    <2>3. CASE key = "max"
      <3>1. r = KeepSmaller(set, hi, n)  BY <1>2, <2>3 DEF Cardinal, n
      <3>2. Fulfils(2 * x, key, value[1].n) <=> x <= n  BY <2>1, <2>3 DEF Fulfils
      <3> QED BY <2>1, <3>1, <3>2, SmallerWithin
    <2>4. CASE key = "len"
      <3>1. r = KeepBoth(set, lo, hi, n)  BY <1>2, <2>4 DEF Cardinal, n
      <3>2. Fulfils(2 * x, key, value[1].n) <=> x = n  BY <2>1, <2>4 DEF Fulfils
      <3> QED BY <2>1, <3>1, <3>2, BothWithin
    <2> QED BY <1>2, <2>2, <2>3, <2>4
  <1> QED BY <1>1, <1>2

\* The bounds of a string.
LEMMA StringStep ==
    ASSUME NEW set, IsSet(set), NEW key, NEW value \in Seq(Words), NEW x \in Nat
    PROVE  LET r == StringRule(set, key, value)
           IN  /\ IsSet(r) /\ Around(r, set, "minLength", "maxLength")
               /\ Within(set, "minLength", "maxLength", x) /\ Fulfils(2 * x, key, value[1].n) =>
                    Within(r, "minLength", "maxLength", x)
               /\ IsWhole(value) /\ key \in Sized /\ value[1].n >= 0 /\ (key = "lt" => value[1].n > 0) =>
                    (Within(r, "minLength", "maxLength", x) <=>
                       Within(set, "minLength", "maxLength", x) /\ Fulfils(2 * x, key, value[1].n))
  <1> DEFINE r == StringRule(set, key, value)
             n == value[1].n \div 2
             W(s) == Within(s, "minLength", "maxLength", x)
             F == Fulfils(2 * x, key, value[1].n)
             G == key = "lt" => value[1].n > 0
  <1>1. CASE ~IsWhole(value) \/ key \notin Sized
    <2>1. r = set  BY <1>1 DEF StringRule, Sized, Lower, Upper
    <2> HIDE DEF r
    <2> QED BY <1>1, <2>1 DEF r, Around
  <1>2. CASE IsWhole(value) /\ key \in Sized
    <2>1. n \in Int /\ value[1].n = 2 * n  BY <1>2, WholeNumber
    <2>2. "minLength" \in SizeKeys /\ "maxLength" \in SizeKeys /\ "minLength" # "maxLength"  BY DEF SizeKeys
    <2>3. /\ n + 1 \in Int /\ n - 1 \in Int
          /\ Clamp(n + 1) \in Int /\ Clamp(n) \in Int /\ Clamp(n - 1) \in Int
          BY <2>1 DEF Clamp
    <2> HIDE DEF n
    <2>4. SUFFICES /\ IsSet(r) /\ Around(r, set, "minLength", "maxLength")
                   /\ W(set) /\ F => W(r)
                   /\ value[1].n >= 0 /\ G => (W(r) <=> W(set) /\ F)
          OBVIOUS
    <2>5. CASE key = "min"
      <3>1. r = KeepLarger(set, "minLength", n)  BY <1>2, <2>5 DEF StringRule, n
      <3>2. F <=> x >= n  BY <2>1, <2>5 DEF Fulfils
      <3> HIDE DEF F, G
      <3> QED BY <2>1, <2>2, <3>1, <3>2, LargerWithin
    <2>6. CASE key = "max"
      <3>1. r = KeepSmaller(set, "maxLength", n)  BY <1>2, <2>6 DEF StringRule, n
      <3>2. F <=> x <= n  BY <2>1, <2>6 DEF Fulfils
      <3> HIDE DEF F, G
      <3> QED BY <2>1, <2>2, <3>1, <3>2, SmallerWithin
    <2>7. CASE key = "len"
      <3>1. r = KeepBoth(set, "minLength", "maxLength", n)  BY <1>2, <2>7 DEF StringRule, n
      <3>2. F <=> x = n  BY <2>1, <2>7 DEF Fulfils
      <3> HIDE DEF F, G
      <3> QED BY <2>1, <2>2, <3>1, <3>2, BothWithin
    <2>8. CASE key = "gt"
      <3>1. r = KeepLarger(set, "minLength", Clamp(n + 1))  BY <1>2, <2>8 DEF StringRule, n
      <3>2. F <=> x >= Clamp(n + 1) /\ (value[1].n >= 0 \/ x > n)  BY <2>1, <2>8 DEF Fulfils, Clamp
      <3>3. W(r) <=> W(set) /\ x >= Clamp(n + 1)  BY <2>2, <2>3, <3>1, LargerWithin
      <3>4. F => x >= Clamp(n + 1)  BY <3>2
      <3>5. value[1].n >= 0 => (F <=> x >= Clamp(n + 1))  BY <3>2
      <3> HIDE DEF F, G
      <3> QED BY <2>2, <2>3, <3>1, <3>3, <3>4, <3>5, LargerWithin
    <2>9. CASE key = "gte"
      <3>1. r = KeepLarger(set, "minLength", Clamp(n))  BY <1>2, <2>9 DEF StringRule, n
      <3>2. F <=> x >= Clamp(n)  BY <2>1, <2>9 DEF Fulfils, Clamp
      <3> HIDE DEF F, G
      <3> QED BY <2>2, <2>3, <3>1, <3>2, LargerWithin
    <2>10. CASE key = "lt"
      <3>1. r = KeepSmaller(set, "maxLength", Clamp(n - 1))  BY <1>2, <2>10 DEF StringRule, n
      <3>2. F => x <= Clamp(n - 1)  BY <2>1, <2>10 DEF Fulfils, Clamp
      <3>3. G => (x <= Clamp(n - 1) => F)  BY <2>1, <2>10 DEF Fulfils, Clamp
      <3> HIDE DEF F, G
      <3> QED BY <2>2, <2>3, <3>1, <3>2, <3>3, SmallerWithin
    <2>11. CASE key = "lte"
      <3>1. r = KeepSmaller(set, "maxLength", Clamp(n))  BY <1>2, <2>11 DEF StringRule, n
      <3>2. F => x <= Clamp(n)  BY <2>1, <2>11 DEF Fulfils, Clamp
      <3>3. value[1].n >= 0 => (x <= Clamp(n) => F)  BY <2>1, <2>11 DEF Fulfils, Clamp
      <3> HIDE DEF F, G
      <3> QED BY <2>2, <2>3, <3>1, <3>2, <3>3, SmallerWithin
    <2> HIDE DEF F, G, r
    <2> QED BY <1>2, <2>5, <2>6, <2>7, <2>8, <2>9, <2>10, <2>11 DEF Sized, Lower, Upper
  <1> QED BY <1>1, <1>2

\* The bounds of a number.
LEMMA NumberStep ==
    ASSUME NEW set, IsSet(set), NEW key, NEW value \in Seq(Words), NEW x \in Int
    PROVE  LET r == NumberRule(set, key, value)
           IN  /\ IsSet(r) /\ Around(r, set, "minimum", "maximum")
               /\ Above(set, x) /\ Below(set, x) /\ Fulfils(x, key, value[1].n) => Above(r, x) /\ Below(r, x)
               /\ IsNumber(value) /\ key \in Sized \ {"len"} =>
                    (Above(r, x) /\ Below(r, x) <=>
                       Above(set, x) /\ Below(set, x) /\ Fulfils(x, key, value[1].n))
  <1> DEFINE r == NumberRule(set, key, value)
             n == value[1].n
             F == Fulfils(x, key, n)
  <1>1. CASE ~IsNumber(value) \/ key \notin Sized \ {"len"}
    <2>1. r = set  BY <1>1 DEF NumberRule, Sized, Lower, Upper
    <2> HIDE DEF r
    <2> QED BY <1>1, <2>1 DEF r, Around
  <1>2. CASE IsNumber(value) /\ key \in {"min", "gt", "gte"}
    <2>1. n \in Int  BY <1>2, WordNumber
    <2> DEFINE e == key = "gt"
    <2>2. e \in BOOLEAN /\ r = MergeNumeric(set, "minimum", Bound(n, e))  BY <1>2 DEF NumberRule
    <2>3. F <=> AboveBound(Bound(n, e), x)
      <3>1. Bound(n, e).n = n /\ Bound(n, e).exclusive = e  BY DEF Bound
      <3>2. AboveBound(Bound(n, e), x) <=> x > n \/ (x = n /\ ~e)
        <4> HIDE DEF e, n
        <4> QED BY <3>1 DEF AboveBound
      <3>3. CASE key = "gt"
        <4>1. F <=> x > n  BY <2>1, <3>3 DEF Fulfils
        <4> HIDE DEF F, n
        <4> QED BY <3>2, <3>3, <4>1
      <3>4. CASE key # "gt"
        <4>1. F <=> x >= n  BY <1>2, <2>1, <3>4 DEF Fulfils
        <4>2. x >= n <=> x > n \/ x = n  BY <2>1
        <4> HIDE DEF F, n
        <4> QED BY <3>2, <3>4, <4>1, <4>2
      <3> QED BY <3>3, <3>4
    <2> HIDE DEF e, n
    <2>4. /\ IsSet(r) /\ Elsewhere(r, set, "minimum")
          /\ Above(r, x) <=> Above(set, x) /\ AboveBound(Bound(n, e), x)
          BY <2>1, <2>2, MergeMinimumEffect
    <2> HIDE DEF r, F
    <2>5. Below(r, x) <=> Below(set, x)  BY <2>4 DEF Elsewhere, Below, Keywords
    <2> QED BY <2>3, <2>4, <2>5 DEF Around, Elsewhere, r, F, n
  <1>3. CASE IsNumber(value) /\ key \in {"max", "lt", "lte"}
    <2>1. n \in Int  BY <1>3, WordNumber
    <2> DEFINE e == key = "lt"
    <2>2. e \in BOOLEAN /\ r = MergeNumeric(set, "maximum", Bound(n, e))  BY <1>3 DEF NumberRule
    <2>3. F <=> BelowBound(Bound(n, e), x)
      <3>1. Bound(n, e).n = n /\ Bound(n, e).exclusive = e  BY DEF Bound
      <3>2. BelowBound(Bound(n, e), x) <=> x < n \/ (x = n /\ ~e)
        <4> HIDE DEF e, n
        <4> QED BY <3>1 DEF BelowBound
      <3>3. CASE key = "lt"
        <4>1. F <=> x < n  BY <2>1, <3>3 DEF Fulfils
        <4> HIDE DEF F, n
        <4> QED BY <3>2, <3>3, <4>1
      <3>4. CASE key # "lt"
        <4>1. F <=> x <= n  BY <1>3, <2>1, <3>4 DEF Fulfils
        <4>2. x <= n <=> x < n \/ x = n  BY <2>1
        <4> HIDE DEF F, n
        <4> QED BY <3>2, <3>4, <4>1, <4>2
      <3> QED BY <3>3, <3>4
    <2> HIDE DEF e, n
    <2>4. /\ IsSet(r) /\ Elsewhere(r, set, "maximum")
          /\ Below(r, x) <=> Below(set, x) /\ BelowBound(Bound(n, e), x)
          BY <2>1, <2>2, MergeMaximumEffect
    <2> HIDE DEF r, F
    <2>5. Above(r, x) <=> Above(set, x)  BY <2>4 DEF Elsewhere, Above, Keywords
    <2> QED BY <2>3, <2>4, <2>5 DEF Around, Elsewhere, r, F, n
  <1> QED BY <1>1, <1>2, <1>3 DEF Sized, Lower, Upper

\* Other keywords leave the set one too.
LEMMA SetContent ==
    ASSUME NEW set, IsSet(set), NEW keyword \in {"format", "pattern", "enum"}, NEW v
    PROVE  /\ IsSet(Set(set, keyword, v)) /\ Elsewhere(Set(set, keyword, v), set, keyword)
           /\ Set(set, keyword, v)[keyword] # None /\ Set(set, keyword, v)[keyword].v = v
  <1>1. keyword \in Keywords /\ keyword \notin SizeKeys /\ keyword \notin BoundKeys
        BY DEF SizeKeys, BoundKeys, Keywords
  <1>2. SizeKeys \subseteq Keywords /\ BoundKeys \subseteq Keywords  BY DEF SizeKeys, BoundKeys, Keywords
  <1> DEFINE r == Set(set, keyword, v)
  <1>3. /\ r = [k \in Keywords |-> r[k]] /\ r[keyword] = [is |-> "set", v |-> v]
        /\ \A k \in Keywords \ {keyword} : r[k] = set[k]
        BY <1>1, SetEffect DEF Elsewhere
  <1>4. [is |-> "set", v |-> v] # None  BY SetNotNone
  <1> HIDE DEF r
  <1>5. \A k \in SizeKeys : r[k] \in Sizing  BY <1>1, <1>2, <1>3 DEF IsSet
  <1>6. \A k \in BoundKeys : r[k] \in Bounding  BY <1>1, <1>2, <1>3 DEF IsSet
  <1>7. IsSet(r)  BY <1>3, <1>5, <1>6 DEF IsSet
  <1>8. r[keyword] # None /\ r[keyword].v = v  BY <1>3, <1>4
  <1> QED BY <1>3, <1>7, <1>8 DEF r, Elsewhere

\* Length keywords are for strings.
Lengthless(set, base) == base # "string" => set.minLength = None /\ set.maxLength = None

\* The rules about words, and those about content.
WordKeys == {"oneof", "eq"}
ContentKeys == Patterns \cup DOMAIN FormatOf \cup {"regexp"}

\* A content rule sets a format or a pattern.
LEMMA ContentRule ==
    ASSUME NEW set, IsSet(set), NEW key \in ContentKeys, NEW value, NEW kind
    PROVE  \E keyword \in {"format", "pattern"} :
             /\ ScalarRule(set, key, value, kind) =
                  Set(set, keyword, IF keyword = "format" THEN FormatOf[key] ELSE key)
             /\ keyword = "format" => key \in DOMAIN FormatOf
  <1>1. CASE key \in DOMAIN FormatOf
    <2>1. ScalarRule(set, key, value, kind) = Set(set, "format", FormatOf[key])
          BY <1>1 DEF ScalarRule, FormatOf, Patterns
    <2> WITNESS "format" \in {"format", "pattern"}
    <2> QED BY <1>1, <2>1
  <1>2. CASE key \in Patterns \cup {"regexp"}
    <2>1. key \notin DOMAIN FormatOf  BY <1>2 DEF FormatOf, Patterns
    <2>2. key \notin {"oneof", "eq"}  BY <1>2 DEF Patterns
    <2>3. ScalarRule(set, key, value, kind) = Set(set, "pattern", key)  BY <1>2, <2>1, <2>2 DEF ScalarRule
    <2> WITNESS "pattern" \in {"format", "pattern"}
    <2> QED BY <2>3
  <1> QED BY <1>1, <1>2 DEF ContentKeys

\* oneof and eq set an enum.
LEMMA WordRule ==
    ASSUME NEW set, NEW key \in WordKeys, NEW value, value # <<>>, NEW kind
    PROVE  ScalarRule(set, key, value, kind) = Set(set, "enum", CoerceEnum(value, kind))
  BY DEF ScalarRule, WordKeys, FormatOf, Patterns

\* What is left is a bound.
LEMMA OtherRule ==
    ASSUME NEW set, NEW key, key \notin ContentKeys, NEW value, key \in WordKeys => value = <<>>,
           NEW kind \in {"string", "number", ""}
    PROVE  ScalarRule(set, key, value, kind) =
             IF kind = "string" THEN StringRule(set, key, value)
             ELSE IF kind = "number" THEN NumberRule(set, key, value) ELSE set
  BY DEF ScalarRule, WordKeys, ContentKeys

\* The effective kinds.
LEMMA KindOf ==
    ASSUME NEW base
    PROVE  /\ EffectiveKind(base) \in {"string", "number", ""}
           /\ EffectiveKind(base) = "string" <=> base = "string"
           /\ EffectiveKind(base) = "number" <=> base \in Scalars \ {"string"}
  BY DEF EffectiveKind, Scalars

\* A rule leaves the set one, and without length keywords but on strings.
LEMMA RuledIsSet ==
    ASSUME NEW set, IsSet(set), NEW base, Lengthless(set, base), NEW key, NEW value \in Seq(Words)
    PROVE  IsSet(Ruled(set, base, key, value)) /\ Lengthless(Ruled(set, base, key, value), base)
  <1> DEFINE r == Ruled(set, base, key, value)
             kind == EffectiveKind(base)
  <1>1. CASE key = "required"  BY <1>1 DEF Ruled
  <1>2. CASE key # "required" /\ base \in {"sequence", "map"}
    <2>1. PICK lo \in SizeKeys, hi \in SizeKeys : /\ lo # hi /\ r = Cardinal(set, key, value, lo, hi)
                                                  /\ {lo, hi} \cap {"minLength", "maxLength"} = {}
          BY <1>2 DEF Ruled, SizeKeys
    <2>2. IsSet(r) /\ Around(r, set, lo, hi)
      <3> HIDE DEF r
      <3> QED BY <2>1, CardinalStep, 0 \in Int
    <2> HIDE DEF r
    <2>3. r["minLength"] = set["minLength"] /\ r["maxLength"] = set["maxLength"]
          BY <2>1, <2>2 DEF Around, Keywords
    <2> QED BY <2>2, <2>3 DEF Lengthless, r
  <1>3. CASE key # "required" /\ base \notin {"sequence", "map"}
    <2>1. r = ScalarRule(set, key, value, kind)  BY <1>3 DEF Ruled
    <2>2. CASE key \in ContentKeys \/ (key \in WordKeys /\ value # <<>>)
      <3>0. PICK keyword \in {"format", "pattern", "enum"} : \E v : r = Set(set, keyword, v)
            BY <2>1, <2>2, ContentRule, WordRule
      <3>1. PICK v : r = Set(set, keyword, v)  BY <3>0
      <3>2. IsSet(r) /\ Elsewhere(r, set, keyword)  BY <3>1, SetContent
      <3> HIDE DEF r
      <3>3. r["minLength"] = set["minLength"] /\ r["maxLength"] = set["maxLength"]
            BY <3>2 DEF Elsewhere, Keywords
      <3> QED BY <3>2, <3>3 DEF Lengthless, r
    <2>3. CASE key \notin ContentKeys /\ (key \in WordKeys => value = <<>>)
      <3>1. r = IF kind = "string" THEN StringRule(set, key, value)
                ELSE IF kind = "number" THEN NumberRule(set, key, value) ELSE set
        <4>1. kind \in {"string", "number", ""}  BY KindOf
        <4> HIDE DEF kind, r
        <4> QED BY <2>1, <2>3, <4>1, OtherRule
      <3> HIDE DEF r
      <3>2. CASE kind = "string"
        <4>1. IsSet(r)  BY <3>1, <3>2, StringStep, 0 \in Nat
        <4> QED BY <3>2, <4>1, KindOf DEF Lengthless, r
      <3>3. CASE kind = "number"
        <4>1. IsSet(r) /\ Around(r, set, "minimum", "maximum")  BY <3>1, <3>3, NumberStep, 0 \in Int
        <4>2. r["minLength"] = set["minLength"] /\ r["maxLength"] = set["maxLength"]
              BY <4>1 DEF Around, Keywords
        <4> QED BY <4>1, <4>2 DEF Lengthless, r
      <3>4. CASE kind = ""  BY <3>1, <3>4 DEF r
      <3> QED BY <3>2, <3>3, <3>4, KindOf
    <2> QED BY <2>2, <2>3
  <1> QED BY <1>1, <1>2, <1>3

\* The keywords of a set, asked of the JSON of one value.
EnumAdmits(p, json) == p.enum # None => json \in p.enum.v

\* What AdmitsOne asks of each kind of JSON.
LEMMA AdmitsByKind ==
    ASSUME NEW p
    PROVE  /\ \A s : AdmitsOne(p, String(s)) <=> EnumAdmits(p, String(s)) /\ AdmitsString(p, s)
           /\ \A n : AdmitsOne(p, Number(n)) <=> EnumAdmits(p, Number(n)) /\ Above(p, n) /\ Below(p, n)
           /\ \A json : json.is = "array" =>
                (AdmitsOne(p, json) <=> EnumAdmits(p, json) /\ Within(p, "minItems", "maxItems", json.n))
           /\ \A json : json.is = "object" =>
                (AdmitsOne(p, json) <=> EnumAdmits(p, json) /\ Within(p, "minProperties", "maxProperties", json.n))
           /\ \A json : json.is \in {"boolean", "any"} => (AdmitsOne(p, json) <=> EnumAdmits(p, json))
           /\ \A json : json.is = "base64" /\ p.minLength = None /\ p.maxLength = None =>
                (AdmitsOne(p, json) <=> EnumAdmits(p, json))
  <1>1. \A s : String(s).is = "string" /\ String(s).text = s  BY DEF String
  <1>2. \A n : Number(n).is = "number" /\ Number(n).n = n  BY DEF Number
  <1>3. \A s : AdmitsOne(p, String(s)) <=> EnumAdmits(p, String(s)) /\ AdmitsString(p, s)
        BY <1>1 DEF AdmitsOne, EnumAdmits
  <1>4. \A n : AdmitsNumber(p, n) <=> Above(p, n) /\ Below(p, n)
        BY DEF AdmitsNumber, Above, Below, AboveBound, BelowBound
  <1>5. \A n : AdmitsOne(p, Number(n)) <=> EnumAdmits(p, Number(n)) /\ Above(p, n) /\ Below(p, n)
        BY <1>2, <1>4 DEF AdmitsOne, EnumAdmits
  <1>6. \A json : json.is = "array" =>
                (AdmitsOne(p, json) <=> EnumAdmits(p, json) /\ Within(p, "minItems", "maxItems", json.n))
        BY DEF AdmitsOne, EnumAdmits
  <1>7. \A json : json.is = "object" =>
                (AdmitsOne(p, json) <=> EnumAdmits(p, json) /\ Within(p, "minProperties", "maxProperties", json.n))
        BY DEF AdmitsOne, EnumAdmits
  <1>8. \A json : json.is \in {"boolean", "any"} => (AdmitsOne(p, json) <=> EnumAdmits(p, json))
        BY DEF AdmitsOne, EnumAdmits
  <1>9. \A json : json.is = "base64" /\ p.minLength = None /\ p.maxLength = None =>
                (AdmitsOne(p, json) <=> EnumAdmits(p, json))
        BY DEF AdmitsOne, EnumAdmits, Within
  <1> QED BY <1>3, <1>5, <1>6, <1>7, <1>8, <1>9

\* A value of a field or of an element, whatever a sequence holds.
IsValue(base, v) ==
    \/ v \in OneValue(base)
    \/ base = "sequence" /\ \E n \in Sizes : v.go.is = "items" /\ v.go.n = n /\ v.json.is = "array" /\ v.json.n = n

\* What the values of each base are.
LEMMA ValueKinds ==
    ASSUME NEW base \in Bases, NEW v, IsValue(base, v)
    PROVE  /\ base = "string" => \E s \in Text : v.go = String(s) /\ v.json = String(s)
           /\ base \in Scalars \ {"string"} => \E n \in NumbersOf(base) : v.go = Number(n) /\ v.json = Number(n)
           /\ base = "byteSlice" => v.go.is = "bytes" /\ v.json.is = "base64"
           /\ base = "boolean" => v.go.is = "boolean" /\ v.json.is = "boolean"
           /\ base = "map" => \E n \in Sizes : v.go = [is |-> "map", n |-> n] /\ v.json = [is |-> "object", n |-> n]
           /\ base = "sequence" =>
                \E n \in Sizes : v.go.is = "items" /\ v.go.n = n /\ v.json.is = "array" /\ v.json.n = n
           /\ base \in {"ref", "other"} => v.go.is = "struct" /\ v.json.is = "any"
  <1>0. base # "sequence" => v \in OneValue(base)  BY DEF IsValue
  <1>1. CASE base = "string"  BY <1>0, <1>1 DEF OneValue, Scalars
  <1>2. CASE base \in Scalars \ {"string"}
    <2>1. base # "string" /\ base \in Scalars
          /\ base \notin {"byteSlice", "boolean", "map", "sequence", "marshaler", "ref", "other"}
          BY <1>2 DEF Scalars
    <2>2. v \in {[go |-> Number(n), json |-> Number(n)] : n \in NumbersOf(base)}
      <3>1. CASE base = "integer"  BY <1>0, <3>1 DEF OneValue, Scalars, NumberValues
      <3>2. CASE base = "uint"  BY <1>0, <3>2 DEF OneValue, Scalars, NumberValues
      <3>3. CASE base = "number"  BY <1>0, <3>3 DEF OneValue, Scalars, NumberValues
      <3> QED BY <1>0, <2>1, <3>1, <3>2, <3>3 DEF Scalars
    <2>3. PICK n \in NumbersOf(base) : v = [go |-> Number(n), json |-> Number(n)]  BY <2>2
    <2>4. v.go = Number(n) /\ v.json = Number(n)  BY <2>3
    <2> QED BY <2>1, <2>4
  <1>3. CASE base = "byteSlice"  BY <1>0, <1>3 DEF OneValue, Scalars
  <1>4. CASE base = "boolean"  BY <1>0, <1>4 DEF OneValue, Scalars
  <1>5. CASE base = "map"  BY <1>0, <1>5 DEF OneValue, Scalars
  <1>6. CASE base = "sequence"
    <2>1. CASE v \in OneValue(base)
      <3>1. PICK n \in Sizes : v = [go |-> [is |-> "items", n |-> n], json |-> [is |-> "array", n |-> n]]
            BY <1>6, <2>1 DEF OneValue, Scalars
      <3> QED BY <1>6, <3>1 DEF Scalars
    <2>2. CASE v \notin OneValue(base)  BY <1>6, <2>2 DEF IsValue, Scalars
    <2> QED BY <2>1, <2>2
  <1>7. CASE base \in {"ref", "other"}  BY <1>0, <1>7 DEF OneValue, Scalars
  <1>8. CASE base = "marshaler"  BY <1>8 DEF Scalars
  <1> QED BY <1>1, <1>2, <1>3, <1>4, <1>5, <1>6, <1>7, <1>8 DEF Bases, Scalars

\* A rule of a container: its size is counted, and nothing else.
LEMMA ContainerStep ==
    ASSUME NEW set, IsSet(set), NEW base \in {"sequence", "map"}, NEW json, NEW go, NEW n \in Nat,
           go.is = (IF base = "map" THEN "map" ELSE "items"), go.n = n,
           json.is = (IF base = "map" THEN "object" ELSE "array"), json.n = n,
           NEW rule \in Rules
    PROVE  LET r == Ruled(set, base, rule.key, rule.value)
           IN  /\ (rule.key = "required" \/ Meets(go, rule)) /\ AdmitsOne(set, json) => AdmitsOne(r, json)
               /\ rule.key \in {"min", "max", "len"} /\ IsWhole(rule.value) =>
                    (AdmitsOne(r, json) <=> AdmitsOne(set, json) /\ Meets(go, rule))
  <1> DEFINE r == Ruled(set, base, rule.key, rule.value)
             lo == IF base = "map" THEN "minProperties" ELSE "minItems"
             hi == IF base = "map" THEN "maxProperties" ELSE "maxItems"
  <1>1. /\ lo \in SizeKeys /\ hi \in SizeKeys /\ lo # hi /\ "enum" \in Keywords \ {lo, hi}
        BY DEF SizeKeys, Keywords
  <1>2. rule.value \in Seq(Words)  BY DEF Rules
  <1>3. \A p : AdmitsOne(p, json) <=> EnumAdmits(p, json) /\ Within(p, lo, hi, n)
    <2>1. CASE base = "map"  BY <2>1, AdmitsByKind
    <2>2. CASE base = "sequence"  BY <2>2, AdmitsByKind
    <2> QED BY <2>1, <2>2
  <1>4. Size(go) = 2 * n  BY DEF Size
  <1>5. CASE rule.key = "required"  BY <1>5 DEF Ruled
  <1>6. CASE rule.key # "required"
    <2> DEFINE F == Fulfils(2 * n, rule.key, rule.value[1].n)
    <2>1. r = Cardinal(set, rule.key, rule.value, lo, hi)
      <3>1. CASE base = "map"  BY <1>6, <3>1 DEF Ruled
      <3>2. CASE base = "sequence"  BY <1>6, <3>2 DEF Ruled
      <3> QED BY <3>1, <3>2
    <2> HIDE DEF r, lo, hi
    <2>2. /\ Around(r, set, lo, hi)
          /\ Within(set, lo, hi, n) /\ F => Within(r, lo, hi, n)
          /\ IsWhole(rule.value) /\ rule.key \in {"min", "max", "len"} =>
                    (Within(r, lo, hi, n) <=> Within(set, lo, hi, n) /\ F)
          BY <1>1, <1>2, <2>1, CardinalStep
    <2>3. EnumAdmits(r, json) <=> EnumAdmits(set, json)
      <3>1. r["enum"] = set["enum"]  BY <1>1, <2>2 DEF Around
      <3> QED BY <3>1 DEF EnumAdmits
    <2>4. Meets(go, rule) => F
      <3>1. CASE rule.key \in Sized  BY <1>4, <3>1, MeetsSized
      <3>2. CASE rule.key \notin Sized  BY <3>2 DEF Fulfils, Sized, Lower, Upper
      <3> QED BY <3>1, <3>2
    <2>5. rule.key \in {"min", "max", "len"} /\ IsWhole(rule.value) => (F <=> Meets(go, rule))
      <3>1. rule.key \in {"min", "max", "len"} => rule.key \in Sized  BY DEF Sized, Lower, Upper
      <3>2. IsWhole(rule.value) => IsNumber(rule.value)  BY DEF IsWhole
      <3>3. go.is \notin {"struct", "boolean"}  OBVIOUS
      <3> QED BY <1>4, <3>1, <3>2, <3>3, MeetsSized
    <2> HIDE DEF F
    <2>6. (rule.key = "required" \/ Meets(go, rule)) /\ AdmitsOne(set, json) => AdmitsOne(r, json)
          BY <1>3, <1>6, <2>2, <2>3, <2>4
    <2>7. rule.key \in {"min", "max", "len"} /\ IsWhole(rule.value) =>
                    (AdmitsOne(r, json) <=> AdmitsOne(set, json) /\ Meets(go, rule))
          BY <1>3, <2>2, <2>3, <2>5
    <2> QED BY <2>6, <2>7 DEF r
  <1> QED BY <1>5, <1>6

\* A format tells its rule.
LEMMA FormatInjective ==
    ASSUME NEW key \in DOMAIN FormatOf
    PROVE  (CHOOSE k \in DOMAIN FormatOf : FormatOf[k] = FormatOf[key]) = key
  <1>1. \A k \in DOMAIN FormatOf : FormatOf[k] = FormatOf[key] => k = key  BY DEF FormatOf
  <1> QED BY <1>1

\* The step for a string.
LEMMA StringAdmits ==
    ASSUME NEW set, IsSet(set), NEW s \in Text, NEW rule \in Rules
    PROVE  LET r == Ruled(set, "string", rule.key, rule.value)
           IN  /\ (rule.key = "required" \/ Meets(String(s), rule)) /\ AdmitsOne(set, String(s)) =>
                    AdmitsOne(r, String(s))
               /\ rule.key \in Sized /\ IsWhole(rule.value) /\ rule.value[1].n >= 0
                  /\ (rule.key = "lt" => rule.value[1].n > 0) =>
                    (AdmitsOne(r, String(s)) <=> AdmitsOne(set, String(s)) /\ Meets(String(s), rule))
  <1> DEFINE key == rule.key
             value == rule.value
             r == Ruled(set, "string", key, value)
             x == Length[s]
             L(p) == Within(p, "minLength", "maxLength", x)
             F == Fulfils(2 * x, key, value[1].n)
             C(p) == /\ p.format # None => s \in Fits[CHOOSE k \in DOMAIN FormatOf : FormatOf[k] = p.format.v]
                     /\ p.pattern # None => s \in Fits[p.pattern.v]
             E(p) == EnumAdmits(p, String(s))
             A(p) == AdmitsOne(p, String(s))
             M == Meets(String(s), rule)
             T == key \in Sized /\ IsWhole(value) /\ value[1].n >= 0 /\ (key = "lt" => value[1].n > 0)
  <1>1. x \in Nat  BY SizesAssumption
  <1>2. value \in Seq(Words)  BY DEF Rules
  <1>3. \A p : A(p) <=> E(p) /\ L(p) /\ C(p)
    <2>1. \A p : A(p) <=> E(p) /\ AdmitsString(p, s)  BY AdmitsByKind
    <2>2. \A p : AdmitsString(p, s) <=> L(p) /\ C(p)  BY DEF AdmitsString
    <2> QED BY <2>1, <2>2
  <1>4. SUFFICES /\ (key = "required" \/ M) /\ A(set) => A(r)
                 /\ T => (A(r) <=> A(set) /\ M)
        OBVIOUS
  <1>5. String(s).is = "string" /\ String(s).text = s  BY DEF String
  <1>6. Size(String(s)) = 2 * x  BY <1>5 DEF Size
  <1>7. key \in Sized => key \notin ContentKeys /\ key \notin WordKeys /\ key # "required"
        BY DEF Sized, Lower, Upper, ContentKeys, WordKeys, Patterns, FormatOf
  <1>8. CASE key = "required"
    <2>1. r = set  BY <1>8 DEF Ruled
    <2>2. ~T  BY <1>7, <1>8
    <2> HIDE DEF A, r, T, M
    <2> QED BY <2>1, <2>2
  <1>9. CASE key # "required"
    <2>1. r = ScalarRule(set, key, value, "string")  BY <1>9 DEF Ruled, EffectiveKind
    <2> HIDE DEF r
    <2>2. CASE key \in ContentKeys
      <3>1. PICK keyword \in {"format", "pattern"} :
              /\ r = Set(set, keyword, IF keyword = "format" THEN FormatOf[key] ELSE key)
              /\ keyword = "format" => key \in DOMAIN FormatOf
            BY <2>1, <2>2, ContentRule
      <3>2. /\ Elsewhere(r, set, keyword) /\ r[keyword] # None
            /\ r[keyword].v = (IF keyword = "format" THEN FormatOf[key] ELSE key)
            BY <3>1, SetContent
      <3>3. M => s \in Fits[key]
        <4>1. key \notin Sized /\ key \notin WordKeys /\ key # "required"
              BY <2>2 DEF Sized, Lower, Upper, ContentKeys, WordKeys, Patterns, FormatOf
        <4> QED BY <1>5, <4>1 DEF Meets, Sized, Lower, Upper, WordKeys
      <3>4. E(r) <=> E(set)
        <4>1. r["enum"] = set["enum"]  BY <3>2 DEF Elsewhere, Keywords
        <4> QED BY <4>1 DEF EnumAdmits
      <3>5. L(r) <=> L(set)
        <4>1. r["minLength"] = set["minLength"] /\ r["maxLength"] = set["maxLength"]
              BY <3>2 DEF Elsewhere, Keywords
        <4> QED BY <4>1 DEF Within
      <3>6. M /\ C(set) => C(r)
        <4>1. CASE keyword = "format"
          <5>1. r.pattern = set.pattern  BY <3>2, <4>1 DEF Elsewhere, Keywords
          <5>2. (CHOOSE k \in DOMAIN FormatOf : FormatOf[k] = r.format.v) = key
                BY <3>1, <3>2, <4>1, FormatInjective
          <5> QED BY <3>3, <5>1, <5>2
        <4>2. CASE keyword = "pattern"
          <5>1. r.format = set.format  BY <3>2, <4>2 DEF Elsewhere, Keywords
          <5>2. r.pattern.v = key  BY <3>2, <4>2
          <5> QED BY <3>3, <5>1, <5>2
        <4> QED BY <4>1, <4>2
      <3>7. ~T  BY <1>7, <2>2
      <3> HIDE DEF A, E, L, C, M, T
      <3> QED BY <1>3, <1>9, <3>4, <3>5, <3>6, <3>7
    <2>3. CASE key \in WordKeys /\ value # <<>>
      <3>1. r = Set(set, "enum", CoerceEnum(value, "string"))  BY <2>1, <2>3, WordRule
      <3>2. /\ Elsewhere(r, set, "enum") /\ r["enum"].v = CoerceEnum(value, "string")
            BY <3>1, SetContent
      <3>3. M => String(s) \in CoerceEnum(value, "string")
        <4>1. CoerceEnum(value, "string") = CoerceEnum(value, "")  BY DEF CoerceEnum
        <4>2. M => String(s) \in CoerceEnum(value, "")
              BY <1>5, <2>3 DEF Meets, WordKeys, Patterns, FormatOf
        <4> QED BY <4>1, <4>2
      <3>4. M => E(r)  BY <3>2, <3>3 DEF EnumAdmits
      <3>5. /\ r["minLength"] = set["minLength"] /\ r["maxLength"] = set["maxLength"]
            /\ r.format = set.format /\ r.pattern = set.pattern
            BY <3>2 DEF Elsewhere, Keywords
      <3>6. L(r) <=> L(set)  BY <3>5 DEF Within
      <3>7. C(r) <=> C(set)  BY <3>5
      <3>8. ~T  BY <1>7, <2>3
      <3> HIDE DEF A, E, L, C, M, T
      <3> QED BY <1>3, <1>9, <3>4, <3>6, <3>7, <3>8
    <2>4. CASE key \notin ContentKeys /\ (key \in WordKeys => value = <<>>)
      <3>1. r = StringRule(set, key, value)  BY <2>1, <2>4, OtherRule
      <3>2. /\ Around(r, set, "minLength", "maxLength")
            /\ L(set) /\ F => L(r)
            /\ T => (L(r) <=> L(set) /\ F)
            BY <1>1, <1>2, <3>1, StringStep
      <3>3. r.enum = set.enum /\ r.format = set.format /\ r.pattern = set.pattern
            BY <3>2 DEF Around, Keywords
      <3>4. (E(r) <=> E(set)) /\ (C(r) <=> C(set))  BY <3>3 DEF EnumAdmits
      <3>5. M => F
        <4>1. CASE key \in Sized  BY <1>6, <4>1, MeetsSized
        <4>2. CASE key \notin Sized  BY <4>2 DEF Fulfils, Sized, Lower, Upper
        <4> QED BY <4>1, <4>2
      <3>6. T => (F <=> M)
        <4>1. IsWhole(value) => IsNumber(value)  BY DEF IsWhole
        <4> QED BY <1>5, <1>6, <4>1, MeetsSized
      <3> HIDE DEF A, E, L, C, M, T, F
      <3> QED BY <1>3, <1>9, <3>2, <3>4, <3>5, <3>6
    <2> QED BY <2>2, <2>3, <2>4
  <1> QED BY <1>8, <1>9

\* The step for a number.
LEMMA NumberAdmits ==
    ASSUME NEW set, IsSet(set), NEW base \in Scalars \ {"string"}, NEW n \in Int, NEW rule \in Rules
    PROVE  LET r == Ruled(set, base, rule.key, rule.value)
           IN  /\ (rule.key = "required" \/ Meets(Number(n), rule)) /\ AdmitsOne(set, Number(n)) =>
                    AdmitsOne(r, Number(n))
               /\ rule.key \in Sized \ {"len"} /\ IsNumber(rule.value) =>
                    (AdmitsOne(r, Number(n)) <=> AdmitsOne(set, Number(n)) /\ Meets(Number(n), rule))
  <1> DEFINE key == rule.key
             value == rule.value
             r == Ruled(set, base, key, value)
             B(p) == Above(p, n) /\ Below(p, n)
             F == Fulfils(n, key, value[1].n)
             E(p) == EnumAdmits(p, Number(n))
             A(p) == AdmitsOne(p, Number(n))
             M == Meets(Number(n), rule)
             T == key \in Sized \ {"len"} /\ IsNumber(value)
  <1>1. value \in Seq(Words)  BY DEF Rules
  <1>2. \A p : A(p) <=> E(p) /\ B(p)  BY AdmitsByKind
  <1>3. SUFFICES /\ (key = "required" \/ M) /\ A(set) => A(r)
                 /\ T => (A(r) <=> A(set) /\ M)
        OBVIOUS
  <1>4. Number(n).is = "number" /\ Number(n).n = n  BY DEF Number
  <1>5. Size(Number(n)) = n  BY <1>4 DEF Size
  <1>6. key \in Sized => key \notin ContentKeys /\ key \notin WordKeys /\ key # "required"
        BY DEF Sized, Lower, Upper, ContentKeys, WordKeys, Patterns, FormatOf
  <1>7. base \notin {"sequence", "map", "string"} /\ EffectiveKind(base) = "number"
        BY DEF Scalars, EffectiveKind
  <1>8. CASE key = "required"
    <2>1. r = set  BY <1>8 DEF Ruled
    <2>2. ~T  BY <1>6, <1>8
    <2> HIDE DEF A, r, T, M
    <2> QED BY <2>1, <2>2
  <1>9. CASE key # "required"
    <2>1. r = ScalarRule(set, key, value, "number")  BY <1>7, <1>9 DEF Ruled
    <2> HIDE DEF r
    <2>2. CASE key \in ContentKeys
      <3>1. PICK keyword \in {"format", "pattern"} :
              r = Set(set, keyword, IF keyword = "format" THEN FormatOf[key] ELSE key)
            BY <2>1, <2>2, ContentRule
      <3>2. Elsewhere(r, set, keyword)  BY <3>1, SetContent
      <3>3. r["enum"] = set["enum"] /\ r["minimum"] = set["minimum"] /\ r["maximum"] = set["maximum"]
            BY <3>2 DEF Elsewhere, Keywords
      <3>4. (E(r) <=> E(set)) /\ (B(r) <=> B(set))  BY <3>3 DEF EnumAdmits, Above, Below
      <3>5. ~T  BY <1>6, <2>2
      <3> HIDE DEF A, E, B, M, T
      <3> QED BY <1>2, <3>4, <3>5
    <2>3. CASE key \in WordKeys /\ value # <<>>
      <3>1. r = Set(set, "enum", CoerceEnum(value, "number"))  BY <2>1, <2>3, WordRule
      <3>2. /\ Elsewhere(r, set, "enum") /\ r["enum"].v = CoerceEnum(value, "number")
            BY <3>1, SetContent
      <3>3. M => Number(n) \in CoerceEnum(value, "number")
        <4>1. M => \E w \in ToSet(value) : w.is = "number" /\ w.n = n
              BY <1>4, <2>3 DEF Meets, WordKeys, Patterns, FormatOf
        <4> QED BY <4>1 DEF CoerceEnum
      <3>4. M => E(r)  BY <3>2, <3>3 DEF EnumAdmits
      <3>5. r["minimum"] = set["minimum"] /\ r["maximum"] = set["maximum"]
            BY <3>2 DEF Elsewhere, Keywords
      <3>6. B(r) <=> B(set)  BY <3>5 DEF Above, Below
      <3>7. ~T  BY <1>6, <2>3
      <3> HIDE DEF A, E, B, M, T
      <3> QED BY <1>2, <1>9, <3>4, <3>6, <3>7
    <2>4. CASE key \notin ContentKeys /\ (key \in WordKeys => value = <<>>)
      <3>1. r = NumberRule(set, key, value)  BY <2>1, <2>4, OtherRule
      <3>2. /\ Around(r, set, "minimum", "maximum")
            /\ B(set) /\ F => B(r)
            /\ T => (B(r) <=> B(set) /\ F)
            BY <1>1, <3>1, NumberStep
      <3>3. r.enum = set.enum  BY <3>2 DEF Around, Keywords
      <3>4. E(r) <=> E(set)  BY <3>3 DEF EnumAdmits
      <3>5. M => F
        <4>1. CASE key \in Sized  BY <1>5, <4>1, MeetsSized
        <4>2. CASE key \notin Sized  BY <4>2 DEF Fulfils, Sized, Lower, Upper
        <4> QED BY <4>1, <4>2
      <3>6. T => (F <=> M)  BY <1>4, <1>5, MeetsSized
      <3> HIDE DEF A, E, B, M, T, F
      <3> QED BY <1>2, <1>9, <3>2, <3>4, <3>5, <3>6
    <2> QED BY <2>2, <2>3, <2>4
  <1> QED BY <1>8, <1>9

\* The step for what is neither: only an enum could tell.
LEMMA PlainAdmits ==
    ASSUME NEW set, IsSet(set), NEW base \in {"byteSlice", "boolean", "ref", "other"}, Lengthless(set, base),
           NEW v, IsValue(base, v), NEW rule \in Rules,
           rule.key = "eq" => base \notin {"boolean", "byteSlice"},
           rule.key = "required" \/ Meets(v.go, rule), AdmitsOne(set, v.json)
    PROVE  AdmitsOne(Ruled(set, base, rule.key, rule.value), v.json)
  <1> DEFINE key == rule.key
             value == rule.value
             r == Ruled(set, base, key, value)
  <1>1. value \in Seq(Words)  BY DEF Rules
  <1>2. v.go.is \in {"bytes", "boolean", "struct"} /\ v.json.is \in {"base64", "boolean", "any"}
        /\ (v.go.is = "struct" \/ key # "eq")
        BY ValueKinds DEF Bases, Scalars
  <1>3. \A p : Lengthless(p, base) => (AdmitsOne(p, v.json) <=> EnumAdmits(p, v.json))
        BY <1>2, AdmitsByKind DEF Lengthless
  <1>4. Lengthless(r, base)  BY <1>1, RuledIsSet
  <1>5. SUFFICES EnumAdmits(r, v.json)  BY <1>3, <1>4
  <1>6. EnumAdmits(set, v.json)  BY <1>3
  <1>7. base \notin {"sequence", "map", "string"} /\ EffectiveKind(base) = ""
        BY DEF Scalars, EffectiveKind
  <1>8. key \notin WordKeys
    <2> SUFFICES ASSUME key \in WordKeys PROVE FALSE  OBVIOUS
    <2>1. Meets(v.go, rule) => v.go.is \notin {"struct", "boolean"} /\ key = "eq"
          BY <1>2 DEF Meets, WordKeys, Patterns, FormatOf
    <2> QED BY <1>2, <2>1 DEF WordKeys
  <1>9. CASE key = "required"  BY <1>6, <1>9 DEF Ruled
  <1>10. CASE key # "required"
    <2>1. r = ScalarRule(set, key, value, "")  BY <1>7, <1>10 DEF Ruled
    <2> HIDE DEF r
    <2>2. CASE key \in ContentKeys
      <3>1. PICK keyword \in {"format", "pattern"} :
              r = Set(set, keyword, IF keyword = "format" THEN FormatOf[key] ELSE key)
            BY <2>1, <2>2, ContentRule
      <3>2. Elsewhere(r, set, keyword)  BY <3>1, SetContent
      <3>3. r["enum"] = set["enum"]  BY <3>2 DEF Elsewhere, Keywords
      <3> QED BY <1>6, <3>3 DEF EnumAdmits
    <2>3. CASE key \notin ContentKeys
      <3>1. r = set  BY <1>8, <2>1, <2>3, OtherRule
      <3> QED BY <1>6, <3>1
    <2> QED BY <2>2, <2>3
  <1> QED BY <1>9, <1>10

\* A rule the value meets keeps it admitted.
LEMMA AdmitsStep ==
    ASSUME NEW set, IsSet(set), NEW base \in Bases \ {"marshaler"}, Lengthless(set, base),
           NEW v, IsValue(base, v), NEW rule \in Rules,
           rule.key = "eq" => base \notin {"boolean", "byteSlice"},
           rule.key = "required" \/ Meets(v.go, rule), AdmitsOne(set, v.json)
    PROVE  AdmitsOne(Ruled(set, base, rule.key, rule.value), v.json)
  <1>1. CASE base = "string"  BY <1>1, ValueKinds, StringAdmits
  <1>2. CASE base \in Scalars \ {"string"}
    <2>1. PICK n \in NumbersOf(base) : v.go = Number(n) /\ v.json = Number(n)  BY <1>2, ValueKinds
    <2>2. n \in Int  BY SizesAssumption DEF NumbersOf
    <2> QED BY <1>2, <2>1, <2>2, NumberAdmits
  <1>3. CASE base \in {"sequence", "map"}
    <2>1. PICK n \in Sizes : v.go.is = (IF base = "map" THEN "map" ELSE "items") /\ v.go.n = n
                             /\ v.json.is = (IF base = "map" THEN "object" ELSE "array") /\ v.json.n = n
      <3>1. CASE base = "map"
        <4>1. PICK n \in Sizes : v.go = [is |-> "map", n |-> n] /\ v.json = [is |-> "object", n |-> n]
              BY <3>1, ValueKinds
        <4> QED BY <3>1, <4>1
      <3>2. CASE base = "sequence"
        <4>1. base \in Bases  OBVIOUS
        <4>2. PICK n \in Sizes : v.go.is = "items" /\ v.go.n = n /\ v.json.is = "array" /\ v.json.n = n
              BY <3>2, <4>1, ValueKinds
        <4> QED BY <3>2, <4>2
      <3> QED BY <1>3, <3>1, <3>2
    <2>2. n \in Nat  BY SizesAssumption
    <2> QED BY <1>3, <2>1, <2>2, ContainerStep
  <1>4. CASE base \in {"byteSlice", "boolean", "ref", "other"}  BY <1>4, PlainAdmits
  <1> QED BY <1>1, <1>2, <1>3, <1>4 DEF Bases

\* A bound that has a keyword admits the values that meet it, and no others.
LEMMA ExactStep ==
    ASSUME NEW set, IsSet(set), NEW base \in Bases, NEW v, IsValue(base, v), NEW rule \in Rules, Exact(base, rule)
    PROVE  AdmitsOne(Ruled(set, base, rule.key, rule.value), v.json) <=> AdmitsOne(set, v.json) /\ Meets(v.go, rule)
  <1>1. CASE base = "string"
    <2>1. rule.key \in Sized  BY <1>1 DEF Exact, Expressible, Scalars, Sized
    <2>2. IsWhole(rule.value) /\ rule.value[1].n >= 0 /\ (rule.key = "lt" => rule.value[1].n > 0)
          BY <1>1 DEF Exact
    <2> QED BY <1>1, <2>1, <2>2, ValueKinds, StringAdmits
  <1>2. CASE base \in Scalars \ {"string"}
    <2>1. PICK n \in NumbersOf(base) : v.go = Number(n) /\ v.json = Number(n)  BY <1>2, ValueKinds
    <2>2. n \in Int  BY SizesAssumption DEF NumbersOf
    <2>3. rule.key \in Sized \ {"len"} /\ IsNumber(rule.value)  BY <1>2 DEF Exact, Expressible, Scalars, Sized
    <2> QED BY <1>2, <2>1, <2>2, <2>3, NumberAdmits
  <1>3. CASE base \in {"sequence", "map"}
    <2>1. PICK n \in Sizes : v.go.is = (IF base = "map" THEN "map" ELSE "items") /\ v.go.n = n
                             /\ v.json.is = (IF base = "map" THEN "object" ELSE "array") /\ v.json.n = n
      <3>1. CASE base = "map"
        <4>1. PICK n \in Sizes : v.go = [is |-> "map", n |-> n] /\ v.json = [is |-> "object", n |-> n]
              BY <3>1, ValueKinds
        <4> QED BY <3>1, <4>1
      <3>2. CASE base = "sequence"
        <4>1. base \in Bases  OBVIOUS
        <4>2. PICK n \in Sizes : v.go.is = "items" /\ v.go.n = n /\ v.json.is = "array" /\ v.json.n = n
              BY <3>2, <4>1, ValueKinds
        <4> QED BY <3>2, <4>2
      <3> QED BY <1>3, <3>1, <3>2
    <2>2. n \in Nat  BY SizesAssumption
    <2>3. rule.key \in {"min", "max", "len"} /\ IsWhole(rule.value)
          BY <1>3 DEF Exact, Expressible, Scalars
    <2> QED BY <1>3, <2>1, <2>2, <2>3, ContainerStep
  <1>4. CASE base \in {"byteSlice", "boolean", "ref", "other", "marshaler"}
        BY <1>4 DEF Exact, Expressible, Scalars
  <1> QED BY <1>1, <1>2, <1>3, <1>4 DEF Bases

-----------------------------------------------------------------------------
(* A map of rules. *)

RuleOf(rules, k) == [key |-> k, value |-> rules[k]]

\* One turn of the loop of constraintsFor.
Turn(base, rules, n, set) ==
    IF KeyOrder[n] \in DOMAIN rules THEN Ruled(set, base, KeyOrder[n], rules[KeyOrder[n]]) ELSE set

\* There are some keys.
LEMMA KeyCount == Len(KeyOrder) \in Nat /\ DOMAIN KeyOrder = 1..Len(KeyOrder)
  <1>1. Len(KeyOrder) = 17  BY DEF KeyOrder
  <1>2. DOMAIN KeyOrder = 1..17  BY DEF KeyOrder
  <1> QED BY <1>1, <1>2

\* A set of naturals has a least one.
LEMMA SmallestExists ==
    ASSUME NEW S, S # {}, S \subseteq Nat
    PROVE  \E d \in S : \A e \in S : d <= e
  <1>1. PICK d \in S : \A e \in S : ~(<<e, d>> \in OpToRel(<, Nat))
        BY NatLessThanWellFounded, WFMin
  <1>2. ASSUME NEW e \in S, ~(d <= e) PROVE FALSE
    <2>1. e \in Nat /\ d \in Nat /\ e < d  BY <1>2
    <2>2. <<e, d>> \in OpToRel(<, Nat)  BY <2>1 DEF OpToRel
    <2> QED BY <1>1, <2>2
  <1> QED BY <1>2

\* The sets on the way are those of the loop.
LEMMA SetAfterTurns ==
    ASSUME NEW base, NEW rules
    PROVE  /\ SetAfter(base, rules)[0] = Empty
           /\ \A n \in 1..Len(KeyOrder) :
                SetAfter(base, rules)[n] = Turn(base, rules, n, SetAfter(base, rules)[n - 1])
  <1> DEFINE N == Len(KeyOrder)
             Runs(g, n) == /\ g = [i \in 0..n |-> g[i]] /\ g[0] = Empty
                           /\ \A i \in 1..n : g[i] = Turn(base, rules, i, g[i - 1])
             Body(g) == [n \in 0..N |->
                           IF n = 0 THEN Empty
                           ELSE IF KeyOrder[n] \in DOMAIN rules
                                THEN Ruled(g[n - 1], base, KeyOrder[n], rules[KeyOrder[n]])
                                ELSE g[n - 1]]
  <1>1. N \in Nat  BY KeyCount
  <1> HIDE DEF N
  <1>2. ASSUME NEW n \in Nat PROVE \E g : Runs(g, n)
    <2> DEFINE S == {m \in Nat : ~\E g : Runs(g, m)}
    <2> SUFFICES ASSUME S # {} PROVE FALSE  OBVIOUS
    <2>1. PICK d \in S : \A e \in S : d <= e
      <3> HIDE DEF Runs
      <3> QED BY SmallestExists
    <2>2. CASE d = 0
      <3>1. Runs([i \in 0..0 |-> Empty], 0)  OBVIOUS
      <3> QED BY <2>1, <2>2, <3>1
    <2>3. CASE d # 0
      <3>1. d - 1 \in Nat /\ d - 1 \notin S /\ d \in Nat
        <4>1. d \in Nat  OBVIOUS
        <4>2. d - 1 \in Nat /\ ~(d <= d - 1)  BY <2>3, <4>1
        <4> HIDE DEF S
        <4> QED BY <2>1, <4>1, <4>2
      <3>2. PICK g : Runs(g, d - 1)
        <4> HIDE DEF Runs
        <4> QED BY <3>1
      <3> DEFINE h == [i \in 0..d |-> IF i = d THEN Turn(base, rules, d, g[d - 1]) ELSE g[i]]
      <3>3. h = [i \in 0..d |-> h[i]] /\ h[0] = Empty  BY <2>3, <3>1, <3>2
      <3>4. ASSUME NEW i \in 1..d PROVE h[i] = Turn(base, rules, i, h[i - 1])
        <4>1. CASE i = d  BY <3>1, <4>1
        <4>2. CASE i # d
          <5>1. i \in 1..(d - 1) /\ i \in 0..d /\ i - 1 \in 0..d /\ i - 1 # d  BY <3>1, <4>2
          <5>2. h[i] = g[i] /\ h[i - 1] = g[i - 1]  BY <4>2, <5>1
          <5>3. g[i] = Turn(base, rules, i, g[i - 1])  BY <3>2, <5>1
          <5> QED BY <5>2, <5>3
        <4> QED BY <4>1, <4>2
      <3> HIDE DEF h
      <3>5. Runs(h, d)  BY <3>3, <3>4
      <3> QED BY <2>1, <3>5
    <2> QED BY <2>2, <2>3
  <1>3. PICK g : Runs(g, N)  BY <1>1, <1>2
  <1>4. g = Body(g)
    <2>1. ASSUME NEW n \in 0..N PROVE g[n] = Body(g)[n]
      <3>1. CASE n = 0  BY <1>1, <1>3, <3>1
      <3>2. CASE n # 0
        <4>1. n \in 1..N  BY <1>1, <3>2
        <4>2. g[n] = Turn(base, rules, n, g[n - 1])  BY <1>3, <4>1
        <4> QED BY <3>2, <4>2 DEF Turn
      <3> QED BY <3>1, <3>2
    <2> QED BY <1>3, <2>1
  <1> DEFINE f == SetAfter(base, rules)
  <1>5. f = CHOOSE h : h = Body(h)  BY DEF SetAfter, N
  <1> HIDE DEF Body
  <1>6. f = Body(f)  BY <1>4, <1>5
  <1> HIDE DEF f
  <1>7. f[0] = Empty  BY <1>1, <1>6 DEF Body
  <1>8. ASSUME NEW n \in 1..N PROVE f[n] = Turn(base, rules, n, f[n - 1])
    <2>1. n \in 0..N /\ n # 0  BY <1>1
    <2>2. Body(f)[n] = Turn(base, rules, n, f[n - 1])  BY <2>1 DEF Body, Turn
    <2> QED BY <1>6, <2>2
  <1> QED BY <1>7, <1>8 DEF f, N

\* What is asked of a map of rules.
RulesTyped(rules) == \A k \in DOMAIN rules : RuleOf(rules, k) \in Rules /\ k \in ToSet(KeyOrder)

\* The empty set asks nothing.
LEMMA EmptyFacts ==
    /\ \A k \in Keywords : Empty[k] = None
    /\ IsSet(Empty)
    /\ \A base : Lengthless(Empty, base)
    /\ \A json : AdmitsOne(Empty, json)
  <1>1. \A k \in Keywords : Empty[k] = None  BY DEF Empty
  <1>2. Empty = [k \in Keywords |-> Empty[k]]  BY DEF Empty
  <1>3. SizeKeys \subseteq Keywords /\ BoundKeys \subseteq Keywords  BY DEF SizeKeys, BoundKeys, Keywords
  <1>4. IsSet(Empty)  BY <1>1, <1>2, <1>3 DEF IsSet, Sizing, Bounding
  <1>5. /\ Empty.enum = None /\ Empty.format = None /\ Empty.pattern = None
        /\ Empty.minLength = None /\ Empty.maxLength = None /\ Empty.minItems = None /\ Empty.maxItems = None
        /\ Empty.minProperties = None /\ Empty.maxProperties = None
        /\ Empty.minimum = None /\ Empty.maximum = None
        BY <1>1 DEF Keywords
  <1>6. \A json : AdmitsOne(Empty, json)  BY <1>5 DEF AdmitsOne, AdmitsString, AdmitsNumber, Within
  <1> QED BY <1>1, <1>4, <1>5, <1>6 DEF Lengthless

\* Every set on the way is one, and without length keywords but on strings.
LEMMA PrefixIsSet ==
    ASSUME NEW base, NEW rules, RulesTyped(rules), NEW n \in 0..Len(KeyOrder)
    PROVE  IsSet(SetAfter(base, rules)[n]) /\ Lengthless(SetAfter(base, rules)[n], base)
  <1> DEFINE f == SetAfter(base, rules)
             S == {m \in 0..Len(KeyOrder) : ~(IsSet(f[m]) /\ Lengthless(f[m], base))}
  <1>1. f[0] = Empty /\ \A m \in 1..Len(KeyOrder) : f[m] = Turn(base, rules, m, f[m - 1])
        BY SetAfterTurns
  <1>2. Len(KeyOrder) \in Nat  BY KeyCount
  <1> HIDE DEF f
  <1> SUFFICES ASSUME S # {} PROVE FALSE  BY DEF f
  <1>3. PICK d \in S : \A e \in S : d <= e
    <2>1. S \subseteq Nat  OBVIOUS
    <2> HIDE DEF S
    <2> QED BY <2>1, SmallestExists
  <1>4. d # 0  BY <1>1, EmptyFacts
  <1>5. d \in 1..Len(KeyOrder) /\ d - 1 \in 0..Len(KeyOrder) /\ ~(d <= d - 1)  BY <1>2, <1>4
  <1>6. IsSet(f[d - 1]) /\ Lengthless(f[d - 1], base)  BY <1>3, <1>5
  <1>7. f[d] = Turn(base, rules, d, f[d - 1])  BY <1>1, <1>5
  <1>8. KeyOrder[d] \in DOMAIN rules => rules[KeyOrder[d]] \in Seq(Words)
    <2>1. ASSUME NEW k \in DOMAIN rules PROVE rules[k] \in Seq(Words)
      <3>1. RuleOf(rules, k) \in Rules  BY DEF RulesTyped
      <3>2. RuleOf(rules, k).value \in Seq(Words)  BY <3>1 DEF Rules
      <3> QED BY <3>2 DEF RuleOf
    <2> QED BY <2>1
  <1>9. IsSet(f[d]) /\ Lengthless(f[d], base)  BY <1>6, <1>7, <1>8, RuledIsSet DEF Turn
  <1> QED BY <1>3, <1>9

\* The set of a map of rules admits a value that meets them all.
LEMMA ConstraintsAdmit ==
    ASSUME NEW base \in Bases \ {"marshaler"}, NEW v, IsValue(base, v), NEW rules, RulesTyped(rules),
           "eq" \in DOMAIN rules => base \notin {"boolean", "byteSlice"},
           \A k \in DOMAIN rules : k = "required" \/ Meets(v.go, RuleOf(rules, k))
    PROVE  AdmitsOne(ConstraintsFor(base, rules), v.json)
  <1> DEFINE f == SetAfter(base, rules)
             S == {m \in 0..Len(KeyOrder) : ~AdmitsOne(f[m], v.json)}
  <1>1. f[0] = Empty /\ \A m \in 1..Len(KeyOrder) : f[m] = Turn(base, rules, m, f[m - 1])
        BY SetAfterTurns
  <1>2. Len(KeyOrder) \in Nat  BY KeyCount
  <1>3. \A m \in 0..Len(KeyOrder) : IsSet(f[m]) /\ Lengthless(f[m], base)  BY PrefixIsSet
  <1> HIDE DEF f
  <1> SUFFICES ASSUME S # {} PROVE FALSE
    <2>1. Len(KeyOrder) \in 0..Len(KeyOrder)  BY <1>2
    <2>2. ConstraintsFor(base, rules) = f[Len(KeyOrder)]  BY DEF f, ConstraintsFor
    <2> QED BY <2>1, <2>2
  <1>4. PICK d \in S : \A e \in S : d <= e
    <2>1. S \subseteq Nat  OBVIOUS
    <2> HIDE DEF S
    <2> QED BY <2>1, SmallestExists
  <1>5. d # 0  BY <1>1, EmptyFacts
  <1>6. d \in 1..Len(KeyOrder) /\ d - 1 \in 0..Len(KeyOrder) /\ ~(d <= d - 1)  BY <1>2, <1>5
  <1>7. AdmitsOne(f[d - 1], v.json) /\ IsSet(f[d - 1]) /\ Lengthless(f[d - 1], base)  BY <1>3, <1>4, <1>6
  <1>8. f[d] = Turn(base, rules, d, f[d - 1])  BY <1>1, <1>6
  <1> DEFINE k == KeyOrder[d]
  <1>9. CASE k \in DOMAIN rules
    <2> DEFINE rule == RuleOf(rules, k)
    <2>1. rule \in Rules /\ rule.key = k /\ rule.value = rules[k]  BY <1>9 DEF RulesTyped, RuleOf
    <2>2. rule.key = "required" \/ Meets(v.go, rule)  BY <1>9, <2>1
    <2>3. rule.key = "eq" => base \notin {"boolean", "byteSlice"}  BY <1>9, <2>1
    <2>4. f[d] = Ruled(f[d - 1], base, rule.key, rule.value)  BY <1>8, <1>9, <2>1 DEF Turn
    <2> HIDE DEF rule
    <2>5. AdmitsOne(f[d], v.json)  BY <1>7, <2>1, <2>2, <2>3, <2>4, AdmitsStep
    <2> QED BY <1>4, <2>5
  <1>10. CASE k \notin DOMAIN rules
    <2>1. f[d] = f[d - 1]  BY <1>8, <1>10 DEF Turn
    <2> QED BY <1>4, <1>7, <2>1
  <1> QED BY <1>9, <1>10

\* And if they are bounds, only such a value.
LEMMA ConstraintsExact ==
    ASSUME NEW base \in Bases, NEW v, IsValue(base, v), NEW rules, RulesTyped(rules),
           \A k \in DOMAIN rules : Exact(base, RuleOf(rules, k))
    PROVE  AdmitsOne(ConstraintsFor(base, rules), v.json) <=> \A k \in DOMAIN rules : Meets(v.go, RuleOf(rules, k))
  <1> DEFINE f == SetAfter(base, rules)
             P(m) == \A i \in 1..m : KeyOrder[i] \in DOMAIN rules => Meets(v.go, RuleOf(rules, KeyOrder[i]))
             S == {m \in 0..Len(KeyOrder) : ~(AdmitsOne(f[m], v.json) <=> P(m))}
  <1>1. f[0] = Empty /\ \A m \in 1..Len(KeyOrder) : f[m] = Turn(base, rules, m, f[m - 1])
        BY SetAfterTurns
  <1>2. Len(KeyOrder) \in Nat /\ DOMAIN KeyOrder = 1..Len(KeyOrder)  BY KeyCount
  <1>3. \A m \in 0..Len(KeyOrder) : IsSet(f[m])  BY PrefixIsSet
  <1> HIDE DEF f
  <1> SUFFICES ASSUME S # {} PROVE FALSE
    <2>1. Len(KeyOrder) \in 0..Len(KeyOrder)  BY <1>2
    <2>2. ConstraintsFor(base, rules) = f[Len(KeyOrder)]  BY DEF f, ConstraintsFor
    <2>3. P(Len(KeyOrder)) <=> \A k \in DOMAIN rules : Meets(v.go, RuleOf(rules, k))
      <3>1. \A k \in DOMAIN rules : \E i \in 1..Len(KeyOrder) : KeyOrder[i] = k
            BY <1>2 DEF RulesTyped, ToSet
      <3> QED BY <3>1
    <2> QED BY <2>1, <2>2, <2>3
  <1>4. PICK d \in S : \A e \in S : d <= e
    <2>1. S \subseteq Nat  OBVIOUS
    <2> HIDE DEF S
    <2> QED BY <2>1, SmallestExists
  <1>5. d # 0
    <2>1. AdmitsOne(f[0], v.json)  BY <1>1, EmptyFacts
    <2>2. P(0)  OBVIOUS
    <2> QED BY <1>4, <2>1, <2>2
  <1>6. d \in 1..Len(KeyOrder) /\ d - 1 \in 0..Len(KeyOrder) /\ ~(d <= d - 1)  BY <1>2, <1>5
  <1>7. (AdmitsOne(f[d - 1], v.json) <=> P(d - 1)) /\ IsSet(f[d - 1])  BY <1>3, <1>4, <1>6
  <1>8. f[d] = Turn(base, rules, d, f[d - 1])  BY <1>1, <1>6
  <1> DEFINE k == KeyOrder[d]
  <1>9. P(d) <=> P(d - 1) /\ (k \in DOMAIN rules => Meets(v.go, RuleOf(rules, k)))
    <2>1. \A i \in 1..d : i = d \/ i \in 1..(d - 1)  BY <1>6
    <2>2. \A i \in 1..(d - 1) : i \in 1..d  BY <1>6
    <2>3. d \in 1..d  BY <1>6
    <2> QED BY <2>1, <2>2, <2>3
  <1>10. ~(AdmitsOne(f[d], v.json) <=> P(d))  BY <1>4
  <1> HIDE DEF P
  <1>11. CASE k \in DOMAIN rules
    <2> DEFINE rule == RuleOf(rules, k)
    <2>1. rule \in Rules /\ rule.key = k /\ rule.value = rules[k] /\ Exact(base, rule)
          BY <1>11 DEF RulesTyped, RuleOf
    <2>2. f[d] = Ruled(f[d - 1], base, rule.key, rule.value)  BY <1>8, <1>11, <2>1 DEF Turn
    <2> HIDE DEF rule
    <2>3. AdmitsOne(f[d], v.json) <=> AdmitsOne(f[d - 1], v.json) /\ Meets(v.go, rule)
          BY <1>7, <2>1, <2>2, ExactStep
    <2> QED BY <1>7, <1>9, <1>10, <1>11, <2>3 DEF rule
  <1>12. CASE k \notin DOMAIN rules
    <2>1. f[d] = f[d - 1]  BY <1>8, <1>12 DEF Turn
    <2> QED BY <1>7, <1>9, <1>10, <1>12, <2>1
  <1> QED BY <1>11, <1>12

\* What a type brings with it changes nothing: its values have it.
LEMMA ApplyAdmits ==
    ASSUME NEW set, IsSet(set), NEW base \in Bases, Lengthless(set, base), NEW v, IsValue(base, v)
    PROVE  AdmitsOne(ApplyTo(set, TypeKeywords(base)), v.json) <=> AdmitsOne(set, v.json)
  <1> DEFINE p == TypeKeywords(base)
             r == ApplyTo(set, p)
  <1>1. set = [k \in Keywords |-> set[k]]  BY DEF IsSet
  <1>2. CASE base \notin {"uint", "byteSlice"}
    <2>1. p = Empty  BY <1>2 DEF TypeKeywords
    <2>2. DOMAIN p = Keywords /\ \A k \in Keywords : p[k] = None  BY <2>1, EmptyFacts DEF Empty
    <2> HIDE DEF p
    <2>3. r = [k \in Keywords |-> IF set[k] = None THEN p[k] ELSE set[k]]  BY <2>2 DEF ApplyTo
    <2>4. \A k \in Keywords : r[k] = set[k]  BY <2>2, <2>3
    <2>5. r = [k \in Keywords |-> r[k]]  BY <2>3
    <2> HIDE DEF r
    <2>6. r = set  BY <1>1, <2>4, <2>5
    <2> QED BY <2>6 DEF r, p
  <1>3. CASE base = "uint"
    <2> DEFINE b == Bound(0, FALSE)
    <2>1. p = Set(Empty, "minimum", b)  BY <1>3 DEF TypeKeywords
    <2>0. \A n \in Int : n >= 0 => AboveBound(b, n)  BY DEF AboveBound, Bound
    <2> HIDE DEF b
    <2>2. /\ DOMAIN p = Keywords /\ \A k \in Keywords \ {"minimum"} : p[k] = None
          /\ p["minimum"] = [is |-> "set", v |-> b]
      <3>1. IsSet(Empty) /\ "minimum" \in Keywords /\ \A k \in Keywords : Empty[k] = None
            BY EmptyFacts DEF Keywords
      <3>2. p = [k \in Keywords |-> p[k]] /\ p["minimum"] = [is |-> "set", v |-> b] /\ Elsewhere(p, Empty, "minimum")
            BY <2>1, <3>1, SetEffect
      <3> HIDE DEF p
      <3>3. DOMAIN p = Keywords  BY <3>2
      <3> QED BY <3>1, <3>2, <3>3 DEF Elsewhere
    <2> HIDE DEF p
    <2>3. r = [k \in Keywords |-> IF set[k] = None THEN p[k] ELSE set[k]]  BY <2>2 DEF ApplyTo
    <2>4. \A k \in Keywords \ {"minimum"} : r[k] = set[k]  BY <2>2, <2>3
    <2>5. r["minimum"] = IF set["minimum"] = None THEN [is |-> "set", v |-> b] ELSE set["minimum"]
          BY <2>2, <2>3 DEF Keywords
    <2> HIDE DEF r
    <2>6. PICK n \in NumbersOf(base) : v.json = Number(n)  BY <1>3, ValueKinds DEF Scalars
    <2>7. n \in Int /\ n >= 0  BY <1>3, SizesAssumption DEF NumbersOf
    <2>8. r.enum = set.enum /\ r.maximum = set.maximum  BY <2>4 DEF Keywords
    <2>9. (EnumAdmits(r, v.json) <=> EnumAdmits(set, v.json)) /\ (Below(r, n) <=> Below(set, n))
          BY <2>8 DEF EnumAdmits, Below
    <2>10. Above(r, n) <=> Above(set, n)
      <3>1. CASE set.minimum = None
        <4>1. r["minimum"] = [is |-> "set", v |-> b]  BY <2>5, <3>1
        <4>2. r.minimum.v = b  BY <4>1
        <4> QED BY <2>0, <2>7, <3>1, <4>2 DEF Above
      <3>2. CASE set.minimum # None  BY <2>5, <3>2 DEF Above
      <3> QED BY <3>1, <3>2
    <2> QED BY <2>6, <2>9, <2>10, AdmitsByKind DEF r, p
  <1>4. CASE base = "byteSlice"
    <2>1. p = Set(Empty, "format", "byte")  BY <1>4 DEF TypeKeywords
    <2>2. DOMAIN p = Keywords /\ \A k \in Keywords \ {"format"} : p[k] = None
      <3>1. IsSet(Empty) /\ "format" \in Keywords /\ \A k \in Keywords : Empty[k] = None
            BY EmptyFacts DEF Keywords
      <3>2. p = [k \in Keywords |-> p[k]] /\ p["format"] = [is |-> "set", v |-> "byte"] /\ Elsewhere(p, Empty, "format")
            BY <2>1, <3>1, SetEffect
      <3> HIDE DEF p
      <3>3. DOMAIN p = Keywords  BY <3>2
      <3> QED BY <3>1, <3>2, <3>3 DEF Elsewhere
    <2> HIDE DEF p
    <2>3. r = [k \in Keywords |-> IF set[k] = None THEN p[k] ELSE set[k]]  BY <2>2 DEF ApplyTo
    <2>4. \A k \in Keywords \ {"format"} : r[k] = set[k]  BY <2>2, <2>3
    <2> HIDE DEF r
    <2>5. r.enum = set.enum /\ r.minLength = None /\ r.maxLength = None
          /\ set.minLength = None /\ set.maxLength = None
          BY <1>4, <2>4 DEF Keywords, Lengthless
    <2>6. v.json.is = "base64"  BY <1>4, ValueKinds
    <2>7. EnumAdmits(r, v.json) <=> EnumAdmits(set, v.json)  BY <2>5 DEF EnumAdmits
    <2> QED BY <2>5, <2>6, <2>7, AdmitsByKind DEF r, p
  <1> QED BY <1>2, <1>3, <1>4

\* The keywords a field, or its items, ends with.
Outcome(base, rules) ==
    IF TakesNoKeyword(base) THEN TypeKeywords(base) ELSE ApplyTo(ConstraintsFor(base, rules), TypeKeywords(base))

\* So is the last.
LEMMA ConstraintsIsSet ==
    ASSUME NEW base, NEW rules, RulesTyped(rules)
    PROVE  IsSet(ConstraintsFor(base, rules)) /\ Lengthless(ConstraintsFor(base, rules), base)
  <1>1. Len(KeyOrder) \in 0..Len(KeyOrder)  BY KeyCount
  <1> QED BY <1>1, PrefixIsSet DEF ConstraintsFor

\* A type that takes no keyword admits all.
LEMMA NoKeyword ==
    ASSUME NEW base, TakesNoKeyword(base), NEW rules, NEW json
    PROVE  AdmitsOne(Outcome(base, rules), json)
  <1>1. TypeKeywords(base) = Empty  BY DEF TakesNoKeyword, TypeKeywords
  <1> QED BY <1>1, EmptyFacts DEF Outcome

LEMMA OutcomeAdmits ==
    ASSUME NEW base \in Bases, NEW v, IsValue(base, v), NEW rules, RulesTyped(rules),
           "eq" \in DOMAIN rules => base \notin {"boolean", "byteSlice"},
           \A k \in DOMAIN rules : k = "required" \/ Meets(v.go, RuleOf(rules, k))
    PROVE  AdmitsOne(Outcome(base, rules), v.json)
  <1>1. CASE TakesNoKeyword(base)  BY <1>1, NoKeyword
  <1>2. CASE ~TakesNoKeyword(base)
    <2>1. base # "marshaler"  BY <1>2 DEF TakesNoKeyword
    <2>2. AdmitsOne(ConstraintsFor(base, rules), v.json)  BY <2>1, ConstraintsAdmit
    <2>3. AdmitsOne(ApplyTo(ConstraintsFor(base, rules), TypeKeywords(base)), v.json)
          BY <2>2, ConstraintsIsSet, ApplyAdmits
    <2> QED BY <1>2, <2>3 DEF Outcome
  <1> QED BY <1>1, <1>2

LEMMA OutcomeExact ==
    ASSUME NEW base \in Bases, NEW v, IsValue(base, v), NEW rules, RulesTyped(rules),
           \A k \in DOMAIN rules : Exact(base, RuleOf(rules, k))
    PROVE  AdmitsOne(Outcome(base, rules), v.json) <=> \A k \in DOMAIN rules : Meets(v.go, RuleOf(rules, k))
  <1>1. CASE TakesNoKeyword(base)
    <2>1. \A k \in DOMAIN rules : FALSE
          BY <1>1 DEF Exact, Expressible, TakesNoKeyword, Scalars
    <2> QED BY <1>1, <2>1, NoKeyword
  <1>2. CASE ~TakesNoKeyword(base)
    <2> DEFINE c == ConstraintsFor(base, rules)
    <2>1. AdmitsOne(c, v.json) <=> \A k \in DOMAIN rules : Meets(v.go, RuleOf(rules, k))  BY ConstraintsExact
    <2>2. IsSet(c) /\ Lengthless(c, base)  BY ConstraintsIsSet
    <2>3. Outcome(base, rules) = ApplyTo(c, TypeKeywords(base))  BY <1>2 DEF Outcome
    <2> HIDE DEF c
    <2>4. AdmitsOne(ApplyTo(c, TypeKeywords(base)), v.json) <=> AdmitsOne(c, v.json)  BY <2>2, ApplyAdmits
    <2> QED BY <2>1, <2>3, <2>4
  <1> QED BY <1>1, <1>2

-----------------------------------------------------------------------------
(* The inductive invariant. *)

\* The i-th rule stands after a dive.
Deep(i) == \E d \in Dives : d < i

\* A map of rules holds rules of the tag, and those of its scope.
CollectionFiled ==
    /\ \A k \in DOMAIN collection : \E i \in DOMAIN tag \ Dives :
         tag[i] = RuleOf(collection, k) /\ (k = "required" \/ ~Deep(i))
    /\ \A i \in DOMAIN tag \ Dives : ~Deep(i) => tag[i].key \in DOMAIN collection

ElementsFiled ==
    /\ \A k \in DOMAIN elements : \E i \in DOMAIN tag \ Dives : tag[i] = RuleOf(elements, k) /\ Deep(i)
    /\ \A i \in DOMAIN tag \ Dives : Deep(i) /\ tag[i].key # "required" => tag[i].key \in DOMAIN elements

\* What is done of the property and of its items.
Staged ==
    /\ stage \in {"read", "collection", "elements", "done"}
    /\ stage \in {"collection", "elements"} => ~field.quoted
    /\ ~field.quoted /\ stage = "collection" => prop = TypeKeywords(field.base)
    /\ ~field.quoted /\ stage \in {"elements", "done"} => prop = Outcome(field.base, collection)
    /\ ~field.quoted /\ field.base = "sequence" =>
         /\ stage \in {"collection", "elements"} => items = TypeKeywords(field.elem)
         /\ stage = "done" => items = Outcome(field.elem, elements)

IInv ==
    /\ field \in Fields /\ tag \in Seq(Rules) /\ inElement \in BOOLEAN
    /\ inElement <=> Dives # {}
    /\ CollectionFiled /\ ElementsFiled /\ Staged

\* The invariant holds at first,
LEMMA InitIInv == Init => IInv
  <1> SUFFICES ASSUME Init PROVE IInv  OBVIOUS
  <1>1. tag = <<>> /\ collection = <<>> /\ elements = <<>> /\ inElement = FALSE /\ stage = "read" /\ field \in Fields
        BY DEF Init
  <1>2. Dives = {} /\ DOMAIN tag = {} /\ tag \in Seq(Rules)  BY <1>1 DEF Dives
  <1>3. CollectionFiled /\ ElementsFiled  BY <1>1, <1>2 DEF CollectionFiled, ElementsFiled
  <1>4. Staged  BY <1>1 DEF Staged
  <1> QED BY <1>1, <1>2, <1>3, <1>4 DEF IInv

\* Reading on leaves the rules read where they were.
LEMMA ReadShape ==
    ASSUME tag \in Seq(Rules), NEW rule \in Rules, tag' = Append(tag, rule), NEW n, n = Len(tag) + 1
    PROVE  /\ tag' \in Seq(Rules) /\ DOMAIN tag' = DOMAIN tag \cup {n}
           /\ \A i \in DOMAIN tag : tag'[i] = tag[i] /\ (Deep(i)' <=> Deep(i))
           /\ tag'[n] = rule /\ n \notin DOMAIN tag
           /\ Dives' = Dives \cup (IF rule.key = "dive" THEN {n} ELSE {})
           /\ Deep(n)' <=> Dives # {}
  <1>1. n \in Nat /\ DOMAIN tag = 1..(n - 1)  OBVIOUS
  <1>2. /\ tag' \in Seq(Rules) /\ DOMAIN tag' = DOMAIN tag \cup {n}
        /\ \A i \in DOMAIN tag : tag'[i] = tag[i]
        /\ tag'[n] = rule /\ n \notin DOMAIN tag
        OBVIOUS
  <1>3. Dives' = Dives \cup (IF rule.key = "dive" THEN {n} ELSE {})  BY <1>2 DEF Dives
  <1>4. \A i \in DOMAIN tag : ~(n < i)  BY <1>1
  <1>5. Dives \subseteq DOMAIN tag  BY DEF Dives
  <1>6. \A i \in DOMAIN tag : Deep(i)' <=> Deep(i)  BY <1>3, <1>4 DEF Deep
  <1>7. \A d \in DOMAIN tag : d < n  BY <1>1
  <1>8. ~(n < n)  BY <1>1
  <1>9. Deep(n)' <=> Dives # {}  BY <1>3, <1>5, <1>7, <1>8 DEF Deep
  <1> QED BY <1>2, <1>3, <1>6, <1>9

\* A rule that is read is filed.
LEMMA ReadIInv ==
    ASSUME IInv, NEW rule \in field.rules, ReadRule(rule), UNCHANGED field
    PROVE  IInv'
  <1> DEFINE n == Len(tag) + 1
             key == rule.key
  <1>1. rule \in Rules /\ tag \in Seq(Rules) /\ field \in Fields
        BY FieldsAssumption DEF IInv
  <1>2. tag' = Append(tag, rule)  BY DEF ReadRule
  <1>3. PICK m : m = n  OBVIOUS
  <1> HIDE DEF n
  <1>4. /\ tag' \in Seq(Rules) /\ DOMAIN tag' = DOMAIN tag \cup {m}
        /\ \A i \in DOMAIN tag : tag'[i] = tag[i] /\ (Deep(i)' <=> Deep(i))
        /\ tag'[m] = rule /\ m \notin DOMAIN tag
        /\ Dives' = Dives \cup (IF key = "dive" THEN {m} ELSE {})
        /\ Deep(m)' <=> Dives # {}
        BY <1>1, <1>2, <1>3, ReadShape DEF n
  <1>5. field' \in Fields /\ field' = field /\ stage = "read" /\ stage' = "read"
        BY <1>1 DEF ReadRule
  <1>6. Staged'  BY <1>5 DEF Staged
  <1>7. inElement \in BOOLEAN /\ (inElement <=> Dives # {}) /\ CollectionFiled /\ ElementsFiled  BY DEF IInv
  <1>8. Dives \subseteq DOMAIN tag  BY DEF Dives
  <1>9. CASE key = "dive"
    <2>1. inElement' = TRUE /\ UNCHANGED <<collection, elements>>  BY <1>9 DEF ReadRule
    <2>2. Dives' = Dives \cup {m} /\ DOMAIN tag' \ Dives' = DOMAIN tag \ Dives
          BY <1>4, <1>8, <1>9
    <2>3. CollectionFiled'  BY <1>4, <1>7, <2>1, <2>2 DEF CollectionFiled, RuleOf
    <2>4. ElementsFiled'  BY <1>4, <1>7, <2>1, <2>2 DEF ElementsFiled, RuleOf
    <2>5. inElement' \in BOOLEAN /\ (inElement' <=> Dives' # {})  BY <2>1, <2>2
    <2> QED BY <1>4, <1>5, <1>6, <2>3, <2>4, <2>5 DEF IInv
  <1>10. CASE key # "dive"
    <2> DEFINE at == Target(key)
    <2>1. /\ inElement' = inElement
          /\ collection' = IF at = "collection" THEN Put(collection, rule) ELSE collection
          /\ elements' = IF at = "elements" THEN Put(elements, rule) ELSE elements
          BY <1>10 DEF ReadRule
    <2>2. /\ at \in {"collection", "elements"}
          /\ at = "elements" <=> (Dives # {} /\ key # "required")
          BY <1>7 DEF Target
    <2>3. Dives' = Dives /\ DOMAIN tag' \ Dives' = (DOMAIN tag \ Dives) \cup {m}
          BY <1>4, <1>8, <1>10
    <2>4. inElement' \in BOOLEAN /\ (inElement' <=> Dives' # {})  BY <1>7, <2>1, <2>3
    <2>5. rule = [key |-> key, value |-> rule.value]  BY <1>1 DEF Rules
    <2> HIDE DEF at
    <2>6. CollectionFiled'
      <3>1. CASE at = "collection"
        <4>1. /\ DOMAIN collection' = DOMAIN collection \cup {key}
              /\ \A k \in DOMAIN collection' :
                   collection'[k] = IF k = key THEN rule.value ELSE collection[k]
              BY <2>1, <3>1 DEF Put
        <4>2. ASSUME NEW k \in DOMAIN collection'
              PROVE  \E i \in DOMAIN tag' \ Dives' :
                       tag'[i] = RuleOf(collection', k) /\ (k = "required" \/ ~Deep(i)')
          <5>1. CASE k = key
            <6>1. tag'[m] = RuleOf(collection', k)  BY <1>4, <2>5, <4>1, <5>1 DEF RuleOf
            <6>2. k = "required" \/ ~Deep(m)'  BY <1>4, <2>2, <3>1, <5>1
            <6> QED BY <2>3, <6>1, <6>2
          <5>2. CASE k # key
            <6>1. PICK i \in DOMAIN tag \ Dives :
                    tag[i] = RuleOf(collection, k) /\ (k = "required" \/ ~Deep(i))
                  BY <1>7, <4>1, <5>2 DEF CollectionFiled
            <6>2. tag'[i] = RuleOf(collection', k)  BY <1>4, <4>1, <5>2, <6>1 DEF RuleOf
            <6> QED BY <1>4, <2>3, <6>1, <6>2
          <5> QED BY <5>1, <5>2
        <4>3. ASSUME NEW i \in DOMAIN tag' \ Dives', ~Deep(i)'
              PROVE  tag'[i].key \in DOMAIN collection'
          <5>1. CASE i = m  BY <1>4, <4>1, <5>1
          <5>2. CASE i # m
            <6>1. i \in DOMAIN tag \ Dives /\ ~Deep(i) /\ tag'[i] = tag[i]  BY <1>4, <2>3, <4>3, <5>2
            <6> QED BY <1>7, <4>1, <6>1 DEF CollectionFiled
          <5> QED BY <5>1, <5>2
        <4> QED BY <4>2, <4>3 DEF CollectionFiled
      <3>2. CASE at = "elements"
        <4>1. collection' = collection /\ Deep(m)'  BY <1>4, <2>1, <2>2, <3>2
        <4>2. ASSUME NEW k \in DOMAIN collection'
              PROVE  \E i \in DOMAIN tag' \ Dives' :
                       tag'[i] = RuleOf(collection', k) /\ (k = "required" \/ ~Deep(i)')
          <5>1. PICK i \in DOMAIN tag \ Dives :
                  tag[i] = RuleOf(collection, k) /\ (k = "required" \/ ~Deep(i))
                BY <1>7, <4>1 DEF CollectionFiled
          <5>2. RuleOf(collection', k) = RuleOf(collection, k)  BY <4>1 DEF RuleOf
          <5> QED BY <1>4, <2>3, <5>1, <5>2
        <4>3. ASSUME NEW i \in DOMAIN tag' \ Dives', ~Deep(i)'
              PROVE  tag'[i].key \in DOMAIN collection'
          <5>1. i \in DOMAIN tag \ Dives /\ ~Deep(i) /\ tag'[i] = tag[i]  BY <1>4, <2>3, <4>1, <4>3
          <5> QED BY <1>7, <4>1, <5>1 DEF CollectionFiled
        <4> QED BY <4>2, <4>3 DEF CollectionFiled
      <3> QED BY <2>2, <3>1, <3>2
    <2>7. ElementsFiled'
      <3>1. CASE at = "elements"
        <4>1. /\ DOMAIN elements' = DOMAIN elements \cup {key}
              /\ \A k \in DOMAIN elements' :
                   elements'[k] = IF k = key THEN rule.value ELSE elements[k]
              BY <2>1, <3>1 DEF Put
        <4>2. ASSUME NEW k \in DOMAIN elements'
              PROVE  \E i \in DOMAIN tag' \ Dives' : tag'[i] = RuleOf(elements', k) /\ Deep(i)'
          <5>1. CASE k = key
            <6>1. tag'[m] = RuleOf(elements', k)  BY <1>4, <2>5, <4>1, <5>1 DEF RuleOf
            <6>2. Deep(m)'  BY <1>4, <2>2, <3>1
            <6> QED BY <2>3, <6>1, <6>2
          <5>2. CASE k # key
            <6>1. PICK i \in DOMAIN tag \ Dives : tag[i] = RuleOf(elements, k) /\ Deep(i)
                  BY <1>7, <4>1, <5>2 DEF ElementsFiled
            <6>2. tag'[i] = RuleOf(elements', k)  BY <1>4, <4>1, <5>2, <6>1 DEF RuleOf
            <6> QED BY <1>4, <2>3, <6>1, <6>2
          <5> QED BY <5>1, <5>2
        <4>3. ASSUME NEW i \in DOMAIN tag' \ Dives', Deep(i)', tag'[i].key # "required"
              PROVE  tag'[i].key \in DOMAIN elements'
          <5>1. CASE i = m  BY <1>4, <4>1, <5>1
          <5>2. CASE i # m
            <6>1. i \in DOMAIN tag \ Dives /\ Deep(i) /\ tag'[i] = tag[i]  BY <1>4, <2>3, <4>3, <5>2
            <6> QED BY <1>7, <4>1, <4>3, <6>1 DEF ElementsFiled
          <5> QED BY <5>1, <5>2
        <4> QED BY <4>2, <4>3 DEF ElementsFiled
      <3>2. CASE at = "collection"
        <4>1. elements' = elements /\ (Deep(m)' => key = "required")  BY <1>4, <2>1, <2>2, <3>2
        <4>2. ASSUME NEW k \in DOMAIN elements'
              PROVE  \E i \in DOMAIN tag' \ Dives' : tag'[i] = RuleOf(elements', k) /\ Deep(i)'
          <5>1. PICK i \in DOMAIN tag \ Dives : tag[i] = RuleOf(elements, k) /\ Deep(i)
                BY <1>7, <4>1 DEF ElementsFiled
          <5>2. RuleOf(elements', k) = RuleOf(elements, k)  BY <4>1 DEF RuleOf
          <5> QED BY <1>4, <2>3, <5>1, <5>2
        <4>3. ASSUME NEW i \in DOMAIN tag' \ Dives', Deep(i)', tag'[i].key # "required"
              PROVE  tag'[i].key \in DOMAIN elements'
          <5>1. i # m  BY <1>4, <4>1, <4>3
          <5>2. i \in DOMAIN tag \ Dives /\ Deep(i) /\ tag'[i] = tag[i]  BY <1>4, <2>3, <4>3, <5>1
          <5> QED BY <1>7, <4>1, <4>3, <5>2 DEF ElementsFiled
        <4> QED BY <4>2, <4>3 DEF ElementsFiled
      <3> QED BY <2>2, <3>1, <3>2
    <2> QED BY <1>4, <1>5, <1>6, <2>4, <2>6, <2>7 DEF IInv
  <1> QED BY <1>9, <1>10

\* The other steps read nothing more.
LEMMA KeepsRules ==
    ASSUME IInv, UNCHANGED <<field, tag, inElement, collection, elements>>, Staged'
    PROVE  IInv'
  <1>1. Dives' = Dives /\ \A i : Deep(i)' <=> Deep(i)  BY DEF Dives, Deep
  <1>2. CollectionFiled'  BY <1>1 DEF IInv, CollectionFiled
  <1>3. ElementsFiled'  BY <1>1 DEF IInv, ElementsFiled
  <1> QED BY <1>1, <1>2, <1>3 DEF IInv

\* and every step keeps it.
LEMMA NextIInv == IInv /\ [Next]_vars => IInv'
  <1> SUFFICES ASSUME IInv, [Next]_vars PROVE IInv'  OBVIOUS
  <1>1. ASSUME NEW rule \in field.rules, ReadRule(rule), UNCHANGED field PROVE IInv'
        BY <1>1, ReadIInv
  <1>2. ASSUME SetType, UNCHANGED field PROVE IInv'
    <2>1. Staged'
      <3>1. field.quoted \in BOOLEAN  BY FieldsAssumption DEF IInv
      <3> QED BY <1>2, <3>1 DEF SetType, Staged
    <2> QED BY <1>2, <2>1, KeepsRules DEF SetType
  <1>3. ASSUME ConstrainField, UNCHANGED field PROVE IInv'
    <2>1. Staged'  BY <1>3 DEF ConstrainField, Staged, IInv, Outcome
    <2> QED BY <1>3, <2>1, KeepsRules DEF ConstrainField
  <1>4. ASSUME ConstrainItems, UNCHANGED field PROVE IInv'
    <2>1. Staged'  BY <1>4 DEF ConstrainItems, Staged, IInv, Outcome
    <2> QED BY <1>4, <2>1, KeepsRules DEF ConstrainItems
  <1>5. ASSUME Done, UNCHANGED field PROVE IInv'
    <2>1. Staged'  BY <1>5 DEF Done, Staged, IInv
    <2> QED BY <1>5, <2>1, KeepsRules DEF Done
  <1>6. ASSUME UNCHANGED vars PROVE IInv'
    <2>1. Staged'  BY <1>6 DEF vars, Staged, IInv
    <2> QED BY <1>6, <2>1, KeepsRules DEF vars
  <1> QED BY <1>1, <1>2, <1>3, <1>4, <1>5, <1>6 DEF Next

\* The rules of a tag are filed by scope, and each step writes its keywords
\* (parseValidationTag, applyValidationConstraints).
THEOREM ConstraintsInvariant == Spec => []IInv
  <1> QED BY InitIInv, NextIInv, PTL DEF Spec

-----------------------------------------------------------------------------
(* The properties. *)

\* The scope of a rule.
LEMMA ScopeShape ==
    \A i : ScopeOf(i) = IF Deep(i) THEN field.elem ELSE field.base
  BY DEF ScopeOf, Deep

\* A value is its Go and its JSON.
LEMMA OneValueRecord ==
    ASSUME NEW base \in Bases, NEW v \in OneValue(base)
    PROVE  v = [go |-> v.go, json |-> v.json]
  <1>1. \A g, j, w : w = [go |-> g, json |-> j] => w = [go |-> w.go, json |-> w.json]  OBVIOUS
  <1>2. \E g, j : v = [go |-> g, json |-> j]
    <2>1. CASE base = "string"  BY <2>1 DEF OneValue, Scalars
    <2>2. CASE base = "integer"  BY <2>2 DEF OneValue, Scalars, NumberValues
    <2>3. CASE base = "uint"  BY <2>3 DEF OneValue, Scalars, NumberValues
    <2>4. CASE base = "number"  BY <2>4 DEF OneValue, Scalars, NumberValues
    <2>5. CASE base = "byteSlice"  BY <2>5 DEF OneValue, Scalars
    <2>6. CASE base = "boolean"  BY <2>6 DEF OneValue, Scalars
    <2>7. CASE base = "map"  BY <2>7 DEF OneValue, Scalars
    <2>8. CASE base = "sequence"  BY <2>8 DEF OneValue, Scalars
    <2>9. CASE base = "marshaler"
      <3>1. v \in MarshalerValues  BY <2>9 DEF OneValue, Scalars
      <3> QED BY <3>1 DEF MarshalerValues
    <2>10. CASE base \in {"ref", "other"}  BY <2>10 DEF OneValue, Scalars
    <2> QED BY <2>1, <2>2, <2>3, <2>4, <2>5, <2>6, <2>7, <2>8, <2>9, <2>10 DEF Bases, Scalars
  <1> QED BY <1>1, <1>2

\* A value of the field, and the element its sequence holds.
LEMMA FieldValues ==
    ASSUME field \in Fields, NEW v \in Values(field.base, field.elem)
    PROVE  /\ field.base \in Bases /\ field.elem \in Bases /\ IsValue(field.base, v)
           /\ field.base = "sequence" =>
                /\ v.go.is = "items" /\ v.json.is = "array" /\ v.go.n = v.json.n
                /\ IsValue(field.elem, [go |-> v.go.of, json |-> v.json.of])
           /\ field.base # "sequence" => v.go.is # "items" /\ v.json.is # "array"
  <1> DEFINE base == field.base
             elem == field.elem
  <1>1. base \in Bases /\ elem \in Bases  BY FieldsAssumption
  <1> HIDE DEF base, elem
  <1>2. v \in Values(base, elem)  BY DEF base, elem
  <1>3. CASE base = "sequence"
    <2>1. PICK n \in Sizes, w \in OneValue(elem) :
            v = [go |-> [is |-> "items", n |-> n, of |-> w.go], json |-> [is |-> "array", n |-> n, of |-> w.json]]
          BY <1>2, <1>3 DEF Values
    <2>2. /\ v.go.is = "items" /\ v.go.n = n /\ v.go.of = w.go
          /\ v.json.is = "array" /\ v.json.n = n /\ v.json.of = w.json
          BY <2>1
    <2>3. IsValue(base, v)  BY <1>3, <2>2 DEF IsValue
    <2>4. IsValue(elem, [go |-> v.go.of, json |-> v.json.of])
      <3> DEFINE u == [go |-> v.go.of, json |-> v.json.of]
      <3>1. IsValue(elem, w)  BY DEF IsValue
      <3>2. u.go = w.go /\ u.json = w.json  BY <2>2
      <3>3. w = [go |-> w.go, json |-> w.json]  BY <1>1, OneValueRecord
      <3>4. u = w  BY <3>2, <3>3, <2>2
      <3> QED BY <3>1, <3>4
    <2> QED BY <1>1, <1>3, <2>2, <2>3, <2>4 DEF base, elem
  <1>4. CASE base # "sequence"
    <2>1. v \in OneValue(base)  BY <1>2, <1>4 DEF Values
    <2>2. IsValue(base, v)  BY <2>1 DEF IsValue
    <2>3. v.go.is # "items" /\ v.json.is # "array"
      <3>0. \A s, n : String(s).is = "string" /\ Number(n).is = "number"  BY DEF String, Number
      <3>1. CASE base = "string"
        <4>1. PICK s \in Text : v.go = String(s) /\ v.json = String(s)  BY <1>1, <2>2, <3>1, ValueKinds
        <4> QED BY <3>0, <4>1
      <3>2. CASE base \in Scalars \ {"string"}
        <4>1. PICK n \in NumbersOf(base) : v.go = Number(n) /\ v.json = Number(n)
              BY <1>1, <2>2, <3>2, ValueKinds
        <4> QED BY <3>0, <4>1
      <3>3. CASE base \in {"byteSlice", "boolean", "ref", "other"}  BY <1>1, <2>2, <3>3, ValueKinds
      <3>4. CASE base = "map"
        <4>1. PICK n \in Sizes : v.go = [is |-> "map", n |-> n] /\ v.json = [is |-> "object", n |-> n]
              BY <1>1, <2>2, <3>4, ValueKinds
        <4> QED BY <4>1
      <3>5. CASE base = "marshaler"
        <4>1. v \in MarshalerValues  BY <2>1, <3>5 DEF OneValue, Scalars
        <4>2. PICK s \in Text, j \in Written : v = [go |-> String(s), json |-> j]
              BY <4>1 DEF MarshalerValues
        <4>3. v.go = String(s) /\ v.json \in Written  BY <4>2
        <4> QED BY <3>0, <4>3 DEF Written
      <3> QED BY <1>1, <1>4, <3>1, <3>2, <3>3, <3>4, <3>5 DEF Bases
    <2> QED BY <1>1, <1>4, <2>2, <2>3 DEF base, elem
  <1> QED BY <1>3, <1>4

\* The maps of rules hold rules.
LEMMA TypedRules ==
    ASSUME IInv
    PROVE  RulesTyped(collection) /\ RulesTyped(elements)
  <1>1. \A i \in DOMAIN tag \ Dives : tag[i] \in Rules /\ tag[i].key \in ToSet(KeyOrder)
    <2>1. \A i \in DOMAIN tag : tag[i] \in Rules  BY DEF IInv
    <2> QED BY <2>1 DEF Rules, Dives
  <1>2. ASSUME NEW k \in DOMAIN collection
        PROVE  RuleOf(collection, k) \in Rules /\ k \in ToSet(KeyOrder)
    <2>1. PICK i \in DOMAIN tag \ Dives : tag[i] = RuleOf(collection, k)  BY DEF IInv, CollectionFiled
    <2>2. RuleOf(collection, k).key = k  BY DEF RuleOf
    <2> QED BY <1>1, <2>1, <2>2
  <1>3. ASSUME NEW k \in DOMAIN elements
        PROVE  RuleOf(elements, k) \in Rules /\ k \in ToSet(KeyOrder)
    <2>1. PICK i \in DOMAIN tag \ Dives : tag[i] = RuleOf(elements, k)  BY DEF IInv, ElementsFiled
    <2>2. RuleOf(elements, k).key = k  BY DEF RuleOf
    <2> QED BY <1>1, <2>1, <2>2
  <1> QED BY <1>2, <1>3 DEF RulesTyped

\* SchemaAdmits: the schema built from a tag rejects no value the validator
\* accepts, whatever the rules and their order (constraintsFor).
THEOREM SchemasAdmit == Spec => []SchemaAdmits
  <1>1. ASSUME IInv PROVE SchemaAdmits
    <2> SUFFICES ASSUME stage = "done", ~field.quoted,
                        \A i \in DOMAIN tag : tag[i].key = "eq" => ScopeOf(i) \notin {"boolean", "byteSlice"},
                        NEW v \in Values(field.base, field.elem), Accepted(v.go)
                 PROVE  Admits(v.json)
      BY DEF SchemaAdmits
    <2> DEFINE base == field.base
               elem == field.elem
    <2>1. /\ base \in Bases /\ elem \in Bases /\ IsValue(base, v)
          /\ base = "sequence" =>
                /\ v.go.is = "items" /\ v.json.is = "array" /\ v.go.n = v.json.n
                /\ IsValue(elem, [go |-> v.go.of, json |-> v.json.of])
          /\ base # "sequence" => v.json.is # "array"
          BY <1>1, FieldValues DEF IInv
    <2>2. /\ prop = Outcome(base, collection)
          /\ base = "sequence" => items = Outcome(elem, elements)
          BY <1>1 DEF IInv, Staged
    <2>3. RulesTyped(collection) /\ RulesTyped(elements)  BY <1>1, TypedRules
    <2>4. \A k : RuleOf(collection, k).key = k /\ RuleOf(elements, k).key = k  BY DEF RuleOf
    <2>5. AdmitsOne(prop, v.json)
      <3>1. ASSUME NEW k \in DOMAIN collection
            PROVE  /\ k = "required" \/ Meets(v.go, RuleOf(collection, k))
                   /\ k = "eq" => base \notin {"boolean", "byteSlice"}
        <4>1. PICK i \in DOMAIN tag \ Dives :
                tag[i] = RuleOf(collection, k) /\ (k = "required" \/ ~Deep(i))
              BY <1>1 DEF IInv, CollectionFiled
        <4>2. ~Deep(i) => Meets(v.go, tag[i])  BY DEF Accepted, Deep
        <4>3. tag[i].key = k  BY <2>4, <4>1
        <4>4. k = "eq" => ScopeOf(i) = base  BY <4>1, ScopeShape
        <4> QED BY <4>1, <4>2, <4>3, <4>4
      <3>2. "eq" \in DOMAIN collection => base \notin {"boolean", "byteSlice"}  BY <3>1
      <3> HIDE DEF base
      <3> QED BY <2>1, <2>2, <2>3, <3>1, <3>2, OutcomeAdmits
    <2>6. ASSUME v.json.is = "array", v.json.n > 0 PROVE AdmitsOne(items, v.json.of)
      <3> DEFINE w == [go |-> v.go.of, json |-> v.json.of]
      <3>1. base = "sequence" /\ v.go.is = "items" /\ v.go.n > 0  BY <2>1, <2>6
      <3>2. w.go = v.go.of /\ w.json = v.json.of  OBVIOUS
      <3>3. ASSUME NEW k \in DOMAIN elements
            PROVE  /\ Meets(w.go, RuleOf(elements, k))
                   /\ k = "eq" => elem \notin {"boolean", "byteSlice"}
        <4>1. PICK i \in DOMAIN tag \ Dives : tag[i] = RuleOf(elements, k) /\ Deep(i)
              BY <1>1 DEF IInv, ElementsFiled
        <4>2. Meets(v.go.of, tag[i])  BY <3>1, <4>1 DEF Accepted, Deep
        <4>3. tag[i].key = k  BY <2>4, <4>1
        <4>4. ScopeOf(i) = elem  BY <4>1, ScopeShape
        <4> QED BY <3>2, <4>1, <4>2, <4>3, <4>4
      <3>4. "eq" \in DOMAIN elements => elem \notin {"boolean", "byteSlice"}  BY <3>3
      <3>5. elem \in Bases /\ IsValue(elem, w) /\ items = Outcome(elem, elements)  BY <2>1, <2>2, <3>1
      <3> HIDE DEF w, elem
      <3>6. AdmitsOne(items, w.json)  BY <2>3, <3>3, <3>4, <3>5, OutcomeAdmits
      <3> QED BY <3>2, <3>6
    <2> QED BY <2>5, <2>6 DEF Admits
  <1> QED BY <1>1, ConstraintsInvariant, PTL

\* BoundsExact: bounds that share a keyword come out as exactly what all of them
\* ask (keepLarger, keepSmaller, mergeNumeric).
THEOREM BoundsAreExact == Spec => []BoundsExact
  <1>1. ASSUME IInv PROVE BoundsExact
    <2> SUFFICES ASSUME stage = "done", ~field.quoted,
                        \A i \in DOMAIN tag \ Dives :
                          /\ Exact(ScopeOf(i), tag[i])
                          /\ \A j \in DOMAIN tag \ Dives :
                               tag[i].key = tag[j].key /\ ScopeOf(i) = ScopeOf(j) => i = j,
                        NEW v \in Values(field.base, field.elem)
                 PROVE  Admits(v.json) <=> Accepted(v.go)
      BY DEF BoundsExact
    <2> DEFINE base == field.base
               elem == field.elem
               w == [go |-> v.go.of, json |-> v.json.of]
               Outer == \A k \in DOMAIN collection : Meets(v.go, RuleOf(collection, k))
               Inner == \A k \in DOMAIN elements : Meets(v.go.of, RuleOf(elements, k))
    <2>1. /\ base \in Bases /\ elem \in Bases /\ IsValue(base, v)
          /\ base = "sequence" =>
                /\ v.go.is = "items" /\ v.json.is = "array" /\ v.go.n = v.json.n
                /\ IsValue(elem, w)
          /\ base # "sequence" => v.go.is # "items" /\ v.json.is # "array"
          BY <1>1, FieldValues DEF IInv
    <2>2. /\ prop = Outcome(base, collection)
          /\ base = "sequence" => items = Outcome(elem, elements)
          BY <1>1 DEF IInv, Staged
    <2>3. RulesTyped(collection) /\ RulesTyped(elements)  BY <1>1, TypedRules
    <2>4. \A k : RuleOf(collection, k).key = k /\ RuleOf(elements, k).key = k  BY DEF RuleOf
    <2>5. \A i \in DOMAIN tag \ Dives : tag[i].key # "required"
          BY DEF Exact, Expressible, Lower, Upper
    <2>6. ASSUME NEW k \in DOMAIN collection
          PROVE  /\ Exact(base, RuleOf(collection, k))
                 /\ \E i \in DOMAIN tag \ Dives : tag[i] = RuleOf(collection, k) /\ ~Deep(i)
      <3>1. PICK i \in DOMAIN tag \ Dives :
              tag[i] = RuleOf(collection, k) /\ (k = "required" \/ ~Deep(i))
            BY <1>1 DEF IInv, CollectionFiled
      <3>2. ~Deep(i)  BY <2>4, <2>5, <3>1
      <3>3. ScopeOf(i) = base  BY <3>2, ScopeShape
      <3> QED BY <3>1, <3>2, <3>3
    <2>7. ASSUME NEW k \in DOMAIN elements
          PROVE  /\ Exact(elem, RuleOf(elements, k))
                 /\ \E i \in DOMAIN tag \ Dives : tag[i] = RuleOf(elements, k) /\ Deep(i)
      <3>1. PICK i \in DOMAIN tag \ Dives : tag[i] = RuleOf(elements, k) /\ Deep(i)
            BY <1>1 DEF IInv, ElementsFiled
      <3>2. ScopeOf(i) = elem  BY <3>1, ScopeShape
      <3> QED BY <3>1, <3>2
    <2>8. ASSUME NEW i \in DOMAIN tag \ Dives, ~Deep(i)
          PROVE  tag[i].key \in DOMAIN collection /\ tag[i] = RuleOf(collection, tag[i].key)
      <3>1. tag[i].key \in DOMAIN collection  BY <1>1, <2>8 DEF IInv, CollectionFiled
      <3>2. PICK j \in DOMAIN tag \ Dives : tag[j] = RuleOf(collection, tag[i].key) /\ ~Deep(j)
            BY <2>6, <3>1
      <3>3. tag[j].key = tag[i].key  BY <2>4, <3>2
      <3>4. ScopeOf(i) = ScopeOf(j)  BY <2>8, <3>2, ScopeShape
      <3>5. i = j  BY <3>3, <3>4
      <3> QED BY <3>1, <3>2, <3>5
    <2>9. ASSUME NEW i \in DOMAIN tag \ Dives, Deep(i)
          PROVE  tag[i].key \in DOMAIN elements /\ tag[i] = RuleOf(elements, tag[i].key)
      <3>1. tag[i].key \in DOMAIN elements  BY <1>1, <2>5, <2>9 DEF IInv, ElementsFiled
      <3>2. PICK j \in DOMAIN tag \ Dives : tag[j] = RuleOf(elements, tag[i].key) /\ Deep(j)
            BY <2>7, <3>1
      <3>3. tag[j].key = tag[i].key  BY <2>4, <3>2
      <3>4. ScopeOf(i) = ScopeOf(j)  BY <2>9, <3>2, ScopeShape
      <3>5. i = j  BY <3>3, <3>4
      <3> QED BY <3>1, <3>2, <3>5
    <2>10. Outer <=> \A i \in DOMAIN tag \ Dives : ~Deep(i) => Meets(v.go, tag[i])
      <3>1. ASSUME Outer, NEW i \in DOMAIN tag \ Dives, ~Deep(i) PROVE Meets(v.go, tag[i])
            BY <2>8, <3>1
      <3>2. ASSUME \A i \in DOMAIN tag \ Dives : ~Deep(i) => Meets(v.go, tag[i]) PROVE Outer
            BY <2>6, <3>2
      <3> HIDE DEF Outer
      <3> QED BY <3>1, <3>2
    <2>11. Inner <=> \A i \in DOMAIN tag \ Dives : Deep(i) => Meets(v.go.of, tag[i])
      <3>1. ASSUME Inner, NEW i \in DOMAIN tag \ Dives, Deep(i) PROVE Meets(v.go.of, tag[i])
            BY <2>9, <3>1
      <3>2. ASSUME \A i \in DOMAIN tag \ Dives : Deep(i) => Meets(v.go.of, tag[i]) PROVE Inner
            BY <2>7, <3>2
      <3> HIDE DEF Inner
      <3> QED BY <3>1, <3>2
    <2>12. Accepted(v.go) <=> Outer /\ (v.go.is = "items" /\ v.go.n > 0 => Inner)
      <3>1. Accepted(v.go) <=>
              /\ \A i \in DOMAIN tag \ Dives : ~Deep(i) => Meets(v.go, tag[i])
              /\ \A i \in DOMAIN tag \ Dives :
                   Deep(i) => (v.go.is = "items" /\ v.go.n > 0 => Meets(v.go.of, tag[i]))
            BY DEF Accepted, Deep
      <3> HIDE DEF Outer, Inner
      <3> QED BY <2>10, <2>11, <3>1
    <2>13. AdmitsOne(prop, v.json) <=> Outer
      <3> HIDE DEF base
      <3> QED BY <2>1, <2>2, <2>3, <2>6, OutcomeExact
    <2>14. base = "sequence" => (AdmitsOne(items, v.json.of) <=> Inner)
      <3> SUFFICES ASSUME base = "sequence" PROVE AdmitsOne(items, v.json.of) <=> Inner  OBVIOUS
      <3>1. w.go = v.go.of /\ w.json = v.json.of  OBVIOUS
      <3>2. elem \in Bases /\ IsValue(elem, w) /\ items = Outcome(elem, elements)  BY <2>1, <2>2
      <3> HIDE DEF w, elem
      <3>3. AdmitsOne(items, w.json) <=> \A k \in DOMAIN elements : Meets(w.go, RuleOf(elements, k))
            BY <2>3, <2>7, <3>2, OutcomeExact
      <3> QED BY <3>1, <3>3
    <2> HIDE DEF Outer, Inner
    <2>15. CASE base = "sequence"  BY <2>1, <2>12, <2>13, <2>14, <2>15 DEF Admits
    <2>16. CASE base # "sequence"  BY <2>1, <2>12, <2>13, <2>16 DEF Admits
    <2> QED BY <2>15, <2>16
  <1> QED BY <1>1, ConstraintsInvariant, PTL
==============================================================================
