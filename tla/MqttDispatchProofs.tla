-------------------------- MODULE MqttDispatchProofs --------------------------
(***************************************************************************)
(* Proofs about MqttDispatch, for filters and topics of any length and     *)
(* form and any number of handlers.                                        *)
(***************************************************************************)
EXTENDS MqttDispatch, WellFoundedInduction, TLAPS

USE DispatchAssumption

(***************************************************************************)
(* Cuts, before any cursor.                                                *)
(***************************************************************************)
Cuts(fi, na) == [0..Len(fi) -> 0..Len(na)]

\* The first f characters of the filter stand for the first n of the topic,
\* and there is no other way to cut the whole topic than through this point.
Reached(fi, na, f, n) ==
  /\ \E cut \in Cuts(fi, na) : CutsUpTo(cut, fi, na, f) /\ cut[f] = n
  /\ \A cut \in Cuts(fi, na) : CutsUpTo(cut, fi, na, Len(fi)) => cut[f] = n

\* A character of the filter has no choice: the part it stands for is given
\* by where it begins.
LEMMA TakesOnePart ==
  ASSUME NEW na, Len(na) \in Nat, NEW c, NEW a \in 0..Len(na),
         NEW b \in 0..Len(na), NEW d \in 0..Len(na),
         Takes(c, na, a, b), Takes(c, na, a, d)
  PROVE  b = d
<1>1. ASSUME NEW x \in 0..Len(na), NEW y \in 0..Len(na), x < y,
             c = "+", Takes(c, na, a, x), Takes(c, na, a, y)
      PROVE  FALSE
  <2>1. x + 1 \in (a + 1)..y /\ x # Len(na)
    BY <1>1 DEF Takes
  <2>2. na[x + 1] = "/"
    BY <1>1, <2>1 DEF Takes
  <2>3. na[x + 1] # "/"
    BY <1>1, <2>1 DEF Takes
  <2>4. QED
    BY <2>2, <2>3
<1>2. CASE c = "+"
  BY <1>1, <1>2
<1>3. CASE c # "+"
  BY <1>3 DEF Takes
<1>4. QED
  BY <1>2, <1>3

\* Nothing is cut at the beginning.
LEMMA ReachedStart ==
  ASSUME NEW fi, NEW na, Len(fi) \in Nat, Len(na) \in Nat
  PROVE  Reached(fi, na, 0, 0)
<1> DEFINE cut == [i \in 0..Len(fi) |-> 0]
<1>1. cut \in Cuts(fi, na) /\ CutsUpTo(cut, fi, na, 0) /\ cut[0] = 0
  BY DEF Cuts, CutsUpTo
<1>2. QED
  BY <1>1 DEF Reached, CutsUpTo

\* One more character and its part.
LEMMA ReachedFurther ==
  ASSUME NEW fi, NEW na, Len(fi) \in Nat, Len(na) \in Nat,
         NEW f \in 0..Len(fi), f < Len(fi), NEW n \in 0..Len(na),
         NEW m \in 0..Len(na), Reached(fi, na, f, n),
         Takes(fi[f + 1], na, n, m)
  PROVE  Reached(fi, na, f + 1, m)
<1>1. \E cut \in Cuts(fi, na) : CutsUpTo(cut, fi, na, f + 1) /\ cut[f + 1] = m
  <2>1. PICK c \in Cuts(fi, na) : CutsUpTo(c, fi, na, f) /\ c[f] = n
    BY DEF Reached
  <2> DEFINE cut == [c EXCEPT ![f + 1] = m]
  <2>2. cut \in Cuts(fi, na) /\ cut[f + 1] = m /\ cut[0] = c[0]
        /\ \A i \in 0..f : cut[i] = c[i]
    BY <2>1 DEF Cuts
  <2>3. ASSUME NEW i \in 1..(f + 1)
        PROVE  Takes(fi[i], na, cut[i - 1], cut[i])
    <3>1. CASE i = f + 1
      <4>1. cut[i - 1] = n /\ cut[i] = m
        BY <2>1, <2>2, <3>1
      <4>2. QED
        BY <3>1, <4>1
    <3>2. CASE i \in 1..f
      <4>1. cut[i - 1] = c[i - 1] /\ cut[i] = c[i]
        BY <2>2, <3>2
      <4>2. Takes(fi[i], na, c[i - 1], c[i])
        BY <2>1, <3>2 DEF CutsUpTo
      <4>3. QED
        BY <4>1, <4>2
    <3>3. QED
      BY <3>1, <3>2
  <2>4. CutsUpTo(cut, fi, na, f + 1)
    BY <2>1, <2>2, <2>3 DEF CutsUpTo
  <2>5. QED
    BY <2>2, <2>4
<1>2. ASSUME NEW cut \in Cuts(fi, na), CutsUpTo(cut, fi, na, Len(fi))
      PROVE  cut[f + 1] = m
  <2>1. cut[f] = n
    BY <1>2 DEF Reached
  <2>2. Takes(fi[f + 1], na, cut[(f + 1) - 1], cut[f + 1])
    BY <1>2 DEF CutsUpTo
  <2>3. cut[f + 1] \in 0..Len(na) /\ (f + 1) - 1 = f
    BY DEF Cuts
  <2>4. QED
    BY <2>1, <2>2, <2>3, TakesOnePart
<1>3. QED
  BY <1>1, <1>2 DEF Reached

\* Where the cursors stop, they tell whether there is a cut.
LEMMA StopDecides ==
  ASSUME NEW fi, NEW na, Len(fi) \in Nat, Len(na) \in Nat,
         NEW f \in 0..Len(fi), NEW n \in 0..Len(na), Reached(fi, na, f, n),
         \/ f = Len(fi) \/ n = Len(na)
         \/ na[n + 1] = "/" /\ fi[f + 1] # "/"
         \/ fi[f + 1] \notin {"+", "#", na[n + 1]}
  PROVE  Covers(fi, na) <=> n = Len(na) /\ f = Len(fi)
<1>1. ASSUME n = Len(na), f = Len(fi) PROVE Covers(fi, na)
  BY <1>1 DEF Reached, Covers, Cuts
<1>2. ASSUME Covers(fi, na) PROVE n = Len(na) /\ f = Len(fi)
  <2>1. PICK cut \in Cuts(fi, na) : CutsUpTo(cut, fi, na, Len(fi))
                                    /\ cut[Len(fi)] = Len(na)
    BY <1>2 DEF Covers, Cuts
  <2>2. cut[f] = n
    BY <2>1 DEF Reached
  <2>3. CASE f = Len(fi)
    BY <2>1, <2>2, <2>3
  <2>4. CASE f < Len(fi)
    <3>1. Takes(fi[f + 1], na, cut[(f + 1) - 1], cut[f + 1])
      BY <2>1, <2>4 DEF CutsUpTo
    <3>2. PICK m \in 0..Len(na) : Takes(fi[f + 1], na, n, m)
      BY <2>2, <2>4, <3>1 DEF Cuts
    <3>3. n < m /\ n + 1 \in (n + 1)..m
      BY <3>2 DEF Takes
    <3>4. fi[f + 1] = "+" => na[n + 1] # "/"
      BY <3>2, <3>3 DEF Takes
    <3>5. fi[f + 1] = "#" => na[n + 1] # "/"
      BY <3>2 DEF Takes
    <3>6. fi[f + 1] \notin {"+", "#"} => na[n + 1] = fi[f + 1]
      BY <3>2 DEF Takes
    <3>7. QED
      BY <2>4, <3>3, <3>4, <3>5, <3>6
  <2>5. QED
    BY <2>3, <2>4
<1>3. QED
  BY <1>1, <1>2

-----------------------------------------------------------------------------
(***************************************************************************)
(* Levels, and the way from cuts to levels and back.                       *)
(***************************************************************************)

\* A set of numbers has a least one.
LEMMA LeastNumber ==
  ASSUME NEW S \in SUBSET Nat, S # {}
  PROVE  \E s \in S : \A r \in S : s <= r
<1>1. \E s \in S : \A r \in S : ~(<<r, s>> \in OpToRel(<, Nat))
  BY WFMin, NatLessThanWellFounded
<1>2. \A r, s \in Nat : r < s => <<r, s>> \in OpToRel(<, Nat)
  BY DEF OpToRel
<1>3. \E s \in S : \A r \in S : ~(r < s)
  <2> DEFINE R == OpToRel(<, Nat)
  <2> HIDE DEF R
  <2>1. \E s \in S : \A r \in S : <<r, s>> \notin R
    BY <1>1, Zenon DEF R
  <2>2. \A r, s \in Nat : r < s => <<r, s>> \in R
    BY <1>2, Zenon DEF R
  <2> QED BY <2>1, <2>2
<1> QED
  BY <1>3

\* Bounds are positions.
LEMMA BoundsType ==
  ASSUME NEW s, Len(s) \in Nat
  PROVE  /\ Ends(s) \subseteq 1..(Len(s) + 1)
         /\ Bounds(s) \subseteq 0..(Len(s) + 1)
         /\ 0 \in Bounds(s) /\ Len(s) + 1 \in Ends(s) /\ Len(s) + 1 \in Bounds(s)
         /\ \A k \in Bounds(s) : 0 < k => k \in Ends(s)
         /\ \A k \in Ends(s) : k \in Bounds(s) /\ (k <= Len(s) => s[k] = "/")
         /\ \A k \in 1..Len(s) : s[k] = "/" => k \in Ends(s)
  BY DEF Ends, Bounds

\* Every position is in a level, or ends one.
LEMMA LevelAt ==
  ASSUME NEW s, Len(s) \in Nat, NEW i \in 1..(Len(s) + 1)
  PROVE  \E d, e \in Bounds(s) : Level(s, d, e) /\ d < i /\ i <= e
<1> USE BoundsType
<1> DEFINE after  == {k \in Ends(s) : i <= k}
           before == {k \in Nat : k <= i /\ i - k \in Bounds(s) /\ 0 < k}
<1>1. PICK e \in after : \A r \in after : e <= r
  <2>1. Len(s) + 1 \in after /\ after \in SUBSET Nat
    OBVIOUS
  <2>2. QED
    BY <2>1, LeastNumber
<1>2. PICK b \in before : \A r \in before : b <= r
  <2>1. i \in before /\ before \in SUBSET Nat
    OBVIOUS
  <2>2. QED
    BY <2>1, LeastNumber
<1>3. i - b \in Bounds(s) /\ i - b < i /\ i <= e /\ e \in Ends(s)
  BY <1>1, <1>2
<1>4. ASSUME NEW k \in (i - b + 1)..(e - 1), s[k] = "/" PROVE FALSE
  <2>1. k \in 1..Len(s) /\ k \in Nat /\ b \in Nat
    BY <1>1, <1>2, <1>4
  <2>2. k \in Ends(s) /\ k \in Bounds(s)
    BY <1>4, <2>1
  <2>3. CASE i <= k
    <3>1. k \in after
      BY <2>2, <2>3
    <3>2. QED
      BY <1>1, <1>4, <2>1, <3>1
  <2>4. CASE k < i
    <3>1. i - (i - k) = k /\ i - k \in Nat /\ 0 < i - k /\ i - k <= i
      BY <2>1, <2>4
    <3>2. i - k \in before
      BY <2>2, <3>1
    <3>3. b <= i - k
      BY <1>2, <3>2
    <3>4. i - b + 1 <= k
      BY <1>4, <2>1
    <3>5. QED
      BY <2>1, <3>3, <3>4
  <2>5. QED
    BY <2>1, <2>3, <2>4
<1>5. Level(s, i - b, e)
  BY <1>3, <1>4 DEF Level
<1>6. QED
  BY <1>3, <1>5

\* And in no other.
LEMMA OneLevelAt ==
  ASSUME NEW s, Len(s) \in Nat, NEW i \in 1..(Len(s) + 1),
         NEW d \in Bounds(s), NEW e \in Bounds(s), NEW c \in Bounds(s),
         NEW f \in Bounds(s), Level(s, d, e), d < i, i <= e,
         Level(s, c, f), c < i, i <= f
  PROVE  c = d /\ f = e
<1> USE BoundsType DEF Level
<1>1. ASSUME NEW x \in Bounds(s), NEW y \in Bounds(s), NEW u \in Bounds(s),
             NEW v \in Bounds(s), Level(s, x, y), Level(s, u, v), x < i, i <= y,
             u < i, i <= v
      PROVE  ~(y < v) /\ ~(x < u)
  <2>1. ASSUME y < v PROVE FALSE
    <3>1. y \in (u + 1)..(v - 1) /\ y <= Len(s) /\ y \in Ends(s)
      BY <1>1, <2>1
    <3>2. QED
      BY <1>1, <3>1
  <2>2. ASSUME x < u PROVE FALSE
    <3>1. u \in (x + 1)..(y - 1) /\ u <= Len(s) /\ u \in Ends(s)
      BY <1>1, <2>2
    <3>2. QED
      BY <1>1, <3>1
  <2>3. QED
    BY <2>1, <2>2
<1>2. ~(e < f) /\ ~(d < c)
  BY <1>1
<1>3. ~(f < e) /\ ~(c < d)
  BY <1>1
<1>4. QED
  BY <1>2, <1>3

\* A level of a well-formed filter is '#', and the last, or '+', or without a
\* wildcard.
NoWildcard(fi, d, e) == \A k \in (d + 1)..(e - 1) : fi[k] \notin {"+", "#"}
HashLevel(fi, d, e) == /\ e = d + 2 /\ d + 1 \in 1..Len(fi) /\ fi[d + 1] = "#"
                       /\ d + 1 = Len(fi)
PlusLevel(fi, d, e) == e = d + 2 /\ d + 1 \in 1..Len(fi) /\ fi[d + 1] = "+"

LEMMA LevelForm ==
  ASSUME NEW fi, Len(fi) \in Nat, WellFormedFilter(fi),
         NEW d \in Bounds(fi), NEW e \in Bounds(fi), Level(fi, d, e)
  PROVE  /\ d \in 0..Len(fi) /\ e \in 1..(Len(fi) + 1) /\ d < e
         /\ NoWildcard(fi, d, e) \/ HashLevel(fi, d, e) \/ PlusLevel(fi, d, e)
<1> USE BoundsType
<1>1. d \in 0..Len(fi) /\ e \in 1..(Len(fi) + 1) /\ d < e
  BY DEF Level
<1>2. ASSUME NEW k \in (d + 1)..(e - 1), k \in Bounds(fi) PROVE FALSE
  BY <1>1, <1>2 DEF Level
<1>3. ASSUME NEW k \in (d + 1)..(e - 1), fi[k] \in {"+", "#"}
      PROVE  HashLevel(fi, d, e) \/ PlusLevel(fi, d, e)
  <2>1. k \in 1..Len(fi) /\ k - 1 \in 0..Len(fi) /\ k + 1 \in Nat
    BY <1>1
  <2>2. k - 1 \in Bounds(fi) /\ k + 1 \in Bounds(fi)
        /\ (fi[k] = "#" => k = Len(fi))
    BY <1>3, <2>1 DEF WellFormedFilter
  <2>3. k = d + 1
    <3>1. ~(k - 1 \in (d + 1)..(e - 1))
      BY <1>2, <2>2
    <3>2. QED
      BY <1>1, <2>1, <3>1
  <2>4. e = d + 2
    <3>1. ~(k + 1 \in (d + 1)..(e - 1))
      BY <1>2, <2>2
    <3>2. QED
      BY <1>1, <2>1, <2>3, <3>1
  <2>5. QED
    BY <1>3, <2>1, <2>2, <2>3, <2>4 DEF HashLevel, PlusLevel
<1>4. QED
  BY <1>1, <1>3 DEF NoWildcard

\* Ordinary characters are passed one by one.
LEMMA OrdinaryRun ==
  ASSUME NEW fi, NEW na, Len(fi) \in Nat, Len(na) \in Nat,
         NEW cut \in Cuts(fi, na), CutsUpTo(cut, fi, na, Len(fi)),
         NEW d \in Nat, NEW e \in 1..(Len(fi) + 1), d < e,
         NoWildcard(fi, d, e)
  PROVE  \A k \in d..(e - 1) : cut[k] = cut[d] + (k - d)
<1> DEFINE off == {k \in d..(e - 1) : cut[k] # cut[d] + (k - d)}
<1> SUFFICES ASSUME off # {} PROVE FALSE
  OBVIOUS
<1>1. off \in SUBSET Nat
  OBVIOUS
<1>2. PICK k \in off : \A r \in off : k <= r
  BY <1>1, LeastNumber
<1>3. k \in d..(e - 1) /\ cut[k] # cut[d] + (k - d)
  BY <1>2
<1>4. cut[d] \in Nat
  <2>1. d \in 0..Len(fi)
    OBVIOUS
  <2>2. QED
    BY <2>1 DEF Cuts
<1>5. k # d
  BY <1>3, <1>4
<1>6. k - 1 \in d..(e - 1) /\ k \in (d + 1)..(e - 1) /\ k \in 1..Len(fi)
  BY <1>3, <1>5
<1>7. k - 1 \notin off
  BY <1>2, <1>6
<1>8. cut[k - 1] = cut[d] + (k - 1 - d)
  BY <1>6, <1>7
<1>9. Takes(fi[k], na, cut[k - 1], cut[k])
  BY <1>6 DEF CutsUpTo
<1>10. fi[k] \notin {"+", "#"}
  BY <1>6 DEF NoWildcard
<1>11. cut[k] = cut[k - 1] + 1
  BY <1>9, <1>10 DEF Takes
<1>12. QED
  BY <1>3, <1>4, <1>6, <1>8, <1>11

\* What is cut by characters is laid out by levels.
LEMMA CutGivesLevels ==
  ASSUME NEW fi, NEW na, Len(fi) \in Nat, Len(na) \in Nat,
         WellFormedFilter(fi), Covers(fi, na)
  PROVE  OnLevels(fi, na)
<1>1. PICK cut \in Cuts(fi, na) : CutsUpTo(cut, fi, na, Len(fi))
                                  /\ cut[Len(fi)] = Len(na)
  BY DEF Covers, Cuts
<1> DEFINE L == Len(fi) + 1
           M == Len(na) + 1
           h == [k \in Bounds(fi) |-> IF k = L THEN M ELSE cut[k]]
<1>2. \A k \in 0..Len(fi) : cut[k] \in 0..Len(na)
  BY DEF Cuts
<1>3. ASSUME NEW k \in Ends(fi)
      PROVE  /\ k - 1 \in 0..Len(fi) /\ h[k] = cut[k - 1] + 1
             /\ h[k] \in Ends(na)
  <2>1. k \in 1..L /\ k \in Bounds(fi)
    BY BoundsType
  <2>2. CASE k = L
    BY <1>1, <1>2, <2>1, <2>2, BoundsType
  <2>3. CASE k # L
    <3>1. k \in 1..Len(fi) /\ fi[k] = "/"
      BY <2>1, <2>3, BoundsType
    <3>2. Takes(fi[k], na, cut[k - 1], cut[k])
      BY <1>1, <3>1 DEF CutsUpTo
    <3>3. cut[k] = cut[k - 1] + 1 /\ na[cut[k]] = "/"
      BY <3>1, <3>2 DEF Takes
    <3>4. cut[k - 1] \in Nat /\ cut[k] \in 0..Len(na)
      BY <1>2, <3>1
    <3>5. cut[k] \in Ends(na)
      BY <3>3, <3>4, BoundsType
    <3>6. QED
      BY <2>1, <2>3, <3>1, <3>3, <3>5
  <2>4. QED
    BY <2>2, <2>3
<1>4. h[0] = 0 /\ h[L] = M /\ 0 \in Bounds(fi) /\ L \in Bounds(fi)
  BY <1>1, BoundsType DEF CutsUpTo
<1>5. h \in [Bounds(fi) -> Bounds(na)]
  <2>1. ASSUME NEW k \in Bounds(fi) PROVE h[k] \in Bounds(na)
    <3>1. k = 0 \/ k \in Ends(fi)
      BY DEF Bounds
    <3>2. QED
      BY <1>3, <1>4, <3>1 DEF Bounds
  <2>2. QED
    BY <2>1
<1>6. ASSUME NEW d \in Bounds(fi), NEW e \in Bounds(fi), Level(fi, d, e)
      PROVE  StandsFor(fi, d, e, na, h[d], h[e])
  <2>1. /\ d \in 0..Len(fi) /\ e \in 1..(Len(fi) + 1) /\ d < e
        /\ NoWildcard(fi, d, e) \/ HashLevel(fi, d, e) \/ PlusLevel(fi, d, e)
    BY <1>6, LevelForm
  <2>2. e \in Ends(fi) /\ h[e] = cut[e - 1] + 1 /\ h[e] \in Ends(na)
        /\ e - 1 \in 0..Len(fi)
    BY <1>3, <1>6 DEF Level
  <2>3. h[d] = cut[d] /\ h[d] \in Bounds(na)
    BY <1>5, <2>1
  <2>4. cut[d] \in 0..Len(na) /\ cut[e - 1] \in 0..Len(na)
    BY <1>2, <2>1, <2>2
  <2>5. ASSUME d + 1 \in 1..Len(fi)
        PROVE  /\ Takes(fi[d + 1], na, cut[d], cut[d + 1])
               /\ cut[d + 1] \in 0..Len(na)
    <3>1. Takes(fi[d + 1], na, cut[(d + 1) - 1], cut[d + 1])
      BY <1>1, <2>5 DEF CutsUpTo
    <3>2. (d + 1) - 1 = d
      BY <2>1
    <3>3. QED
      BY <1>2, <2>5, <3>1, <3>2
  <2> HIDE DEF h
  <2>6. CASE HashLevel(fi, d, e)
    <3>1. e = d + 2 /\ fi[d + 1] = "#" /\ d + 1 \in 1..Len(fi)
          /\ e - 1 = d + 1
      BY <2>1, <2>6 DEF HashLevel
    <3>2. cut[d] < cut[d + 1] /\ na[cut[d] + 1] # "/"
      BY <2>5, <3>1 DEF Takes
    <3>3. h[d] + 1 < h[e] /\ na[h[d] + 1] # "/"
      <4>1. h[e] = cut[d + 1] + 1 /\ cut[d + 1] \in Nat /\ cut[d] \in Nat
        BY <2>2, <2>4, <2>5, <3>1
      <4>2. QED
        BY <2>3, <3>2, <4>1
    <3>4. QED
      BY <3>1, <3>3 DEF StandsFor
  <2>7. CASE PlusLevel(fi, d, e)
    <3>1. e = d + 2 /\ e - 1 = d + 1 /\ fi[d + 1] = "+" /\ d + 1 \in 1..Len(fi)
      BY <2>1, <2>7 DEF PlusLevel
    <3>2. h[e] = cut[d + 1] + 1 /\ cut[d + 1] \in Nat /\ cut[d] \in Nat
      BY <2>2, <2>4, <2>5, <3>1
    <3>3. cut[d] < cut[d + 1]
          /\ \A k \in (cut[d] + 1)..cut[d + 1] : na[k] # "/"
      BY <2>5, <3>1 DEF Takes
    <3>4. h[d] < h[e] /\ h[d] + 1 < h[e] /\ h[e] - 1 = cut[d + 1]
      BY <2>3, <3>2, <3>3
    <3>5. Level(na, h[d], h[e])
      BY <2>2, <2>3, <3>3, <3>4 DEF Level
    <3>6. QED
      BY <3>1, <3>4, <3>5 DEF StandsFor
  <2>8. CASE NoWildcard(fi, d, e)
    <3>1. \A k \in (d + 1)..(e - 1) : fi[k] \notin {"+", "#"}
      BY <2>8 DEF NoWildcard
    <3>2. \A k \in d..(e - 1) : cut[k] = cut[d] + (k - d)
      BY <1>1, <2>1, <2>8, OrdinaryRun
    <3>3. e - 1 \in d..(e - 1)
      BY <2>1
    <3>4. h[d] \in Nat /\ h[e] \in Nat /\ h[e] - h[d] = e - d
      <4>1. cut[e - 1] = cut[d] + ((e - 1) - d)
        BY <3>2, <3>3
      <4>2. cut[d] \in Nat /\ cut[e - 1] \in Nat /\ e \in Nat /\ d \in Nat
        BY <2>1, <2>4
      <4>3. (cut[d] + ((e - 1) - d)) + 1 - cut[d] = e - d
        BY <4>2
      <4>4. QED
        BY <2>2, <2>3, <4>1, <4>2, <4>3
    <3>5. ASSUME NEW k \in 1..(e - d - 1)
          PROVE  fi[d + k] = na[h[d] + k]
      <4>1. d + k \in d..(e - 1) /\ d + k \in 1..Len(fi)
            /\ d + k \in (d + 1)..(e - 1)
        BY <2>1, <3>5
      <4>2. cut[d + k] = cut[d] + k
        BY <2>1, <2>4, <3>2, <4>1
      <4>3. Takes(fi[d + k], na, cut[(d + k) - 1], cut[d + k])
        BY <1>1, <4>1 DEF CutsUpTo
      <4>4. na[cut[d + k]] = fi[d + k]
        BY <3>1, <4>1, <4>3 DEF Takes
      <4>5. QED
        BY <2>3, <4>2, <4>4
    <3>6. ASSUME NEW k \in (h[d] + 1)..(h[e] - 1) PROVE na[k] # "/"
      <4>1. k - h[d] \in 1..(e - d - 1) /\ h[d] + (k - h[d]) = k
        <5>1. ASSUME NEW a \in Nat, NEW b \in Nat, NEW x \in (a + 1)..(b - 1),
                     b - a = e - d
              PROVE  x - a \in 1..(e - d - 1) /\ a + (x - a) = x
          BY <2>1, <5>1
        <5>2. QED
          BY <3>4, <3>6, <5>1
      <4>2. fi[d + (k - h[d])] = na[k]
        BY <3>5, <4>1
      <4>3. d + (k - h[d]) \in (d + 1)..(e - 1)
        BY <2>1, <4>1
      <4>4. QED
        BY <1>6, <4>2, <4>3 DEF Level
    <3>7. h[d] < h[e]
      BY <2>1, <2>2, <2>3, <2>4, <3>4
    <3>8. Level(na, h[d], h[e])
      BY <2>2, <2>3, <3>6, <3>7 DEF Level
    <3>9. e - d = h[e] - h[d]
      BY <3>4
    <3>10. QED
      BY <3>5, <3>8, <3>9 DEF StandsFor
  <2>9. QED
    BY <2>1, <2>6, <2>7, <2>8
<1>7. QED
  BY <1>4, <1>5, <1>6 DEF OnLevels

\* What is laid out by levels is cut by characters: a character of a level
\* that ends at e ends its part as far before h[e] as it is before e.
LEMMA LevelsGiveCut ==
  ASSUME NEW fi, NEW na, Len(fi) \in Nat, Len(na) \in Nat,
         WellFormedFilter(fi), OnLevels(fi, na)
  PROVE  Covers(fi, na)
<1>1. PICK h \in [Bounds(fi) -> Bounds(na)] :
        /\ h[0] = 0 /\ h[Len(fi) + 1] = Len(na) + 1
        /\ \A d, e \in Bounds(fi) :
             Level(fi, d, e) => StandsFor(fi, d, e, na, h[d], h[e])
  BY DEF OnLevels
<1> DEFINE Holds(d, e, i) == Level(fi, d, e) /\ d < i /\ i <= e
           end(i) == CHOOSE e \in Bounds(fi) : \E d \in Bounds(fi) : Holds(d, e, i)
           cut == [i \in 0..Len(fi) |->
                     IF i = 0 THEN 0 ELSE h[end(i)] - (end(i) - i)]
<1>2. ASSUME NEW d \in Bounds(fi), NEW e \in Bounds(fi), Level(fi, d, e)
      PROVE  /\ h[d] \in 0..(Len(na) + 1) /\ h[e] \in 0..(Len(na) + 1)
             /\ h[d] \in Bounds(na) /\ h[e] \in Bounds(na) /\ h[d] < h[e]
  <2>1. StandsFor(fi, d, e, na, h[d], h[e])
    BY <1>1, <1>2
  <2>2. QED
    BY <2>1, BoundsType DEF StandsFor, Level
<1>3. ASSUME NEW e \in Ends(fi), e <= Len(fi)
      PROVE  /\ h[e] \in 1..Len(na) /\ na[h[e]] = "/" /\ fi[e] = "/"
             /\ \E d \in Bounds(fi) : Holds(d, e, e)
  <2>1. e \in 1..Len(fi) /\ fi[e] = "/" /\ e \in Bounds(fi)
    BY <1>3, BoundsType
  <2>2. PICK c \in Bounds(fi), f \in Bounds(fi) : Holds(c, f, e + 1)
    <3>1. e + 1 \in 1..(Len(fi) + 1)
      BY <2>1
    <3>2. QED
      BY <3>1, LevelAt
  <2>3. c = e
    BY <2>1, <2>2, BoundsType DEF Level
  <2>4. PICK d \in Bounds(fi), b \in Bounds(fi) : Holds(d, b, e)
    BY <2>1, LevelAt
  <2>5. b = e
    BY <2>1, <2>4, BoundsType DEF Level
  <2>6. h[e] \in 1..Len(na) /\ h[e] \in Bounds(na)
    BY <1>2, <2>2, <2>3, <2>4, <2>5
  <2>7. na[h[e]] = "/"
    BY <2>6, BoundsType
  <2>8. QED
    BY <2>1, <2>4, <2>5, <2>6, <2>7
<1>4. ASSUME NEW d \in Bounds(fi), NEW e \in Bounds(fi), NEW i \in 1..Len(fi),
             Holds(d, e, i)
      PROVE  cut[i] = h[e] - (e - i)
  <2>1. \A c, f \in Bounds(fi) : Holds(c, f, i) => f = e
    BY <1>4, OneLevelAt
  <2>2. end(i) = e
    BY <1>4, <2>1
  <2>3. QED
    BY <2>2
<1>5. ASSUME NEW d \in Bounds(fi), d <= Len(fi) PROVE cut[d] = h[d]
  <2>1. CASE d = 0
    BY <1>1, <2>1
  <2>2. CASE d # 0
    <3>1. d \in Ends(fi) /\ d \in 1..Len(fi)
      BY <1>5, <2>2, BoundsType
    <3>2. PICK c \in Bounds(fi) : Holds(c, d, d)
      BY <1>3, <3>1
    <3>3. cut[d] = h[d] - (d - d)
      BY <1>4, <3>1, <3>2
    <3>4. h[d] \in Nat
      BY <1>2, <3>2
    <3>5. QED
      BY <3>1, <3>3, <3>4
  <2>3. QED
    BY <2>1, <2>2
<1>6. DOMAIN cut = 0..Len(fi) /\ cut[0] = 0
      /\ cut = [i \in 0..Len(fi) |-> cut[i]]
  OBVIOUS
<1> HIDE DEF cut
<1>7. ASSUME NEW i \in 1..Len(fi)
      PROVE  cut[i] \in 0..Len(na) /\ Takes(fi[i], na, cut[i - 1], cut[i])
  <2>1. PICK d \in Bounds(fi), e \in Bounds(fi) : Holds(d, e, i)
    BY LevelAt
  <2>2. /\ d \in 0..Len(fi) /\ e \in 1..(Len(fi) + 1) /\ d < i /\ i <= e
        /\ NoWildcard(fi, d, e) \/ HashLevel(fi, d, e) \/ PlusLevel(fi, d, e)
    BY <2>1, LevelForm
  <2>3. PICK a \in 0..(Len(na) + 1), b \in 0..(Len(na) + 1) :
          a = h[d] /\ b = h[e] /\ a < b /\ a \in Bounds(na) /\ b \in Bounds(na)
    BY <1>2, <2>1
  <2>4. cut[i] = b - (e - i)
    BY <1>4, <2>1, <2>3
  <2>5. cut[i - 1] = IF i - 1 = d THEN a ELSE b - (e - (i - 1))
    <3>1. CASE i - 1 = d
      BY <1>5, <2>2, <2>3, <3>1
    <3>2. CASE i - 1 # d
      <4>1. i - 1 \in 1..Len(fi) /\ Holds(d, e, i - 1)
        BY <2>1, <2>2, <3>2
      <4>2. QED
        BY <1>4, <2>3, <3>2, <4>1
    <3>3. QED
      BY <3>1, <3>2
  <2>6. StandsFor(fi, d, e, na, a, b)
    BY <1>1, <2>1, <2>3
  <2>7. b \in Ends(na) /\ (b <= Len(na) => na[b] = "/")
    BY <2>3, BoundsType
  <2>8. CASE i = e
    <3>1. e \in Ends(fi)
      BY <2>1 DEF Level
    <3>2. b \in 1..Len(na) /\ na[b] = "/" /\ fi[i] = "/"
      BY <1>3, <2>3, <2>8, <3>1
    <3>3. cut[i] = b /\ cut[i - 1] = b - 1
      <4>1. cut[i] = b
        BY <2>2, <2>3, <2>4, <2>8
      <4>2. i - 1 = d => a = b - 1
        BY <1>2, <2>2, <2>3, <2>6, <2>8 DEF StandsFor
      <4>3. QED
        BY <2>2, <2>3, <2>5, <2>8, <4>1, <4>2
    <3>4. QED
      BY <3>2, <3>3 DEF Takes
  <2>9. CASE i < e /\ HashLevel(fi, d, e)
    <3>1. i = d + 1 /\ e = Len(fi) + 1 /\ i - 1 = d /\ fi[i] = "#" /\ e - i = 1
          /\ e - d = 2
      BY <2>2, <2>9 DEF HashLevel
    <3>2. b = Len(na) + 1
      BY <1>1, <2>3, <3>1
    <3>3. cut[i] = Len(na) /\ cut[i - 1] = a
      BY <2>4, <2>5, <3>1, <3>2
    <3>4. a + 1 < b /\ na[a + 1] # "/"
      <4>1. 1 \in 1..(e - d - 1) /\ fi[d + 1] = "#"
        BY <3>1
      <4>2. QED
        BY <2>3, <2>6, <3>1, <4>1 DEF StandsFor
    <3>5. a < Len(na)
      BY <2>3, <3>2, <3>4
    <3>6. QED
      BY <3>1, <3>3, <3>4, <3>5 DEF Takes
  <2>10. CASE i < e /\ PlusLevel(fi, d, e)
    <3>1. i = d + 1 /\ e = d + 2 /\ i - 1 = d /\ fi[i] = "+" /\ e - d = 2
          /\ fi[d + 1] # "#"
      BY <2>2, <2>10 DEF PlusLevel
    <3>2. cut[i] = b - 1 /\ cut[i - 1] = a
      BY <2>2, <2>4, <2>5, <3>1
    <3>3. Level(na, a, b)
      BY <2>6, <3>1 DEF StandsFor
    <3>4. a + 1 < b
      BY <2>3, <2>6, <3>1 DEF StandsFor
    <3>5. b - 1 \in 0..Len(na) /\ a < b - 1 /\ (b - 1) + 1 = b
      BY <2>3, <3>4
    <3>6. \A k \in (a + 1)..(b - 1) : na[k] # "/"
      BY <3>3 DEF Level
    <3>7. b - 1 = Len(na) \/ na[(b - 1) + 1] = "/"
      BY <2>3, <2>7, <3>5
    <3>8. Takes("+", na, a, b - 1)
      BY <3>5, <3>6, <3>7 DEF Takes
    <3>9. QED
      BY <3>1, <3>2, <3>5, <3>8
  <2>11. CASE i < e /\ NoWildcard(fi, d, e)
    <3>1. i \in (d + 1)..(e - 1) /\ i - d \in 1..(e - d - 1) /\ d + (i - d) = i
      BY <2>2, <2>11
    <3>2. fi[i] \notin {"+", "#"} /\ fi[d + 1] \notin {"+", "#"}
      <4>1. d + 1 \in (d + 1)..(e - 1)
        BY <2>2, <2>11
      <4>2. QED
        BY <2>11, <3>1, <4>1 DEF NoWildcard
    <3>3. e - d = b - a /\ \A k \in 1..(e - d - 1) : fi[d + k] = na[a + k]
      BY <2>6, <3>2 DEF StandsFor
    <3>4. fi[i] = na[a + (i - d)]
      BY <3>1, <3>3
    <3>5. /\ e - d = b - a /\ d \in Nat /\ e \in Nat /\ i \in Nat
          /\ a \in Nat /\ b \in Nat /\ b <= Len(na) + 1 /\ d < i /\ i < e
      BY <2>2, <2>3, <2>11, <3>3
    <3>6. PICK x \in 1..Len(na) : x = a + (i - d)
      <4>1. a + (i - d) \in 1..Len(na)
        BY <3>5
      <4>2. QED
        BY <4>1
    <3>7. cut[i] = x
      <4>1. b - (e - i) = a + (i - d)
        BY <3>5
      <4>2. QED
        BY <2>4, <3>6, <4>1
    <3>8. cut[i - 1] = x - 1
      <4>1. b - (e - (i - 1)) = x - 1
        BY <3>5, <3>6
      <4>2. i - 1 = d => a = x - 1
        BY <3>5, <3>6
      <4>3. QED
        BY <2>5, <4>1, <4>2
    <3>9. x - 1 < x /\ x = (x - 1) + 1 /\ x \in 0..Len(na)
      BY <3>6
    <3>10. Takes(fi[i], na, x - 1, x)
      BY <3>2, <3>4, <3>6, <3>9 DEF Takes
    <3>11. QED
      BY <3>7, <3>8, <3>9, <3>10
  <2>12. QED
    BY <2>2, <2>8, <2>9, <2>10, <2>11
<1>8. cut \in Cuts(fi, na) /\ cut[0] = 0
  <2>1. \A i \in 0..Len(fi) : cut[i] \in 0..Len(na)
    BY <1>6, <1>7
  <2>2. QED
    BY <1>6, <2>1 DEF Cuts
<1>9. cut[Len(fi)] = Len(na)
  <2>1. PICK d \in Bounds(fi), e \in Bounds(fi) : Holds(d, e, Len(fi) + 1)
    BY LevelAt
  <2>2. e = Len(fi) + 1 /\ d \in 0..Len(fi) /\ h[e] = Len(na) + 1
    BY <1>1, <2>1, LevelForm
  <2>3. CASE d < Len(fi)
    <3>1. Holds(d, e, Len(fi)) /\ Len(fi) \in 1..Len(fi)
      BY <2>1, <2>2, <2>3
    <3>2. cut[Len(fi)] = h[e] - (e - Len(fi))
      BY <1>4, <3>1
    <3>3. QED
      BY <2>2, <3>2
  <2>4. CASE d = Len(fi)
    <3>1. cut[Len(fi)] = h[d]
      BY <1>5, <2>4
    <3>2. PICK a \in 0..(Len(na) + 1) : a = h[d]
      BY <1>2, <2>1
    <3>3. StandsFor(fi, d, e, na, a, Len(na) + 1)
      BY <1>1, <2>1, <2>2, <3>2
    <3>4. e - d = 1 /\ e # d + 2
      BY <2>2, <2>4
    <3>5. (Len(na) + 1) - a = 1
      BY <3>3, <3>4 DEF StandsFor
    <3>6. QED
      BY <3>1, <3>2, <3>5
  <2>5. QED
    BY <2>2, <2>3, <2>4
<1>10. CutsUpTo(cut, fi, na, Len(fi))
  BY <1>7, <1>8 DEF CutsUpTo
<1>11. QED
  BY <1>8, <1>9, <1>10 DEF Covers, Cuts

\* For filters in the form that isTopicMatched assumes, what is delivered is
\* what the levels say.
LEMMA DeliversByLevels ==
  ASSUME NEW fi, NEW na, Len(fi) \in Nat, Len(na) \in Nat,
         WellFormedFilter(fi)
  PROVE  Delivers(fi, na) <=> OnLevels(fi, na)
<1>1. OnLevels(fi, fi)
  <2> DEFINE h == [k \in Bounds(fi) |-> k]
  <2>1. h \in [Bounds(fi) -> Bounds(fi)] /\ h[0] = 0
        /\ h[Len(fi) + 1] = Len(fi) + 1
    BY BoundsType
  <2>2. ASSUME NEW d \in Bounds(fi), NEW e \in Bounds(fi), Level(fi, d, e)
        PROVE  StandsFor(fi, d, e, fi, h[d], h[e])
    BY <2>2 DEF StandsFor
  <2>3. QED
    BY <2>1, <2>2 DEF OnLevels
<1>2. QED
  BY <1>1, CutGivesLevels, LevelsGiveCut DEF Delivers

-----------------------------------------------------------------------------
(***************************************************************************)
(* The loops.                                                              *)
(***************************************************************************)

\* The handler of slot s is to be called.
Wanted(s) == handlers[s] # NoFilter /\ Delivers(handlers[s], topic)

\* The handlers already passed are called if they are wanted; between two
\* calls of isTopicMatched there are no cursors.
SlotInv ==
  /\ pc # "idle" => called = {s \in 1..(slot - 1) : Wanted(s)}
  /\ pc \in {"idle", "slot"} => curf = 0 /\ curn = 0

\* The cursors are at the end of a part that is cut off.
LoopInv ==
  pc = "loop" =>
    /\ slot \in Slots /\ filter \notin {NoFilter, topic}
    /\ curf \in 0..Len(filter)
    /\ Reached(filter, topic, curf, curn)

\* '+' began at start, and there is no separator up to the cursor.
PlusInv ==
  pc = "plus" =>
    /\ slot \in Slots /\ filter \notin {NoFilter, topic}
    /\ curf \in 0..Len(filter) /\ curf < Len(filter) /\ FilterChar = "+"
    /\ curn < Len(topic)
    /\ \E start \in 0..curn :
         /\ Reached(filter, topic, curf, start)
         /\ \A k \in (start + 1)..(curn + 1) : topic[k] # "/"

IInv == TypeOK /\ SlotInv /\ LoopInv /\ PlusInv

\* Filters and topics have lengths.
LEMMA Lengths ==
  ASSUME TypeOK
  PROVE  /\ Len(topic) \in Nat
         /\ slot \in Slots /\ filter # NoFilter => Len(filter) \in Nat
<1>1. topic \in Seq(Characters)
  <2>1. <<>> \in Seq(Characters)
    OBVIOUS
  <2>2. topic \in Topics \/ topic = <<>>
    BY DEF TypeOK
  <2>3. QED
    BY <2>1, <2>2
<1>2. slot \in Slots /\ filter # NoFilter => filter \in Seq(Characters)
  BY DEF TypeOK, Slots, filter
<1>3. QED
  BY <1>1, <1>2

\* A handler that is passed is called if it is wanted.
LEMMA SlotPassed ==
  ASSUME IInv, pc # "idle", slot \in Slots, NEW hears \in BOOLEAN,
         NextSlot(hears), hears = Wanted(slot)
  PROVE  IInv'
<1> USE DEF IInv, TypeOK, Slots
<1>1. slot' = slot + 1 /\ UNCHANGED <<handlers, topic>> /\ pc' = "slot"
      /\ curf' = 0 /\ curn' = 0
  BY DEF NextSlot
<1>2. called' = IF hears THEN called \cup {slot} ELSE called
  BY DEF NextSlot
<1>3. \A s : Wanted(s)' = Wanted(s)
  BY <1>1 DEF Wanted
<1>4. called = {s \in 1..(slot - 1) : Wanted(s)}
  BY DEF SlotInv
<1>5. 1..(slot' - 1) = 1..(slot - 1) \cup {slot}
  BY <1>1
<1>6. called' = {s \in 1..(slot' - 1) : Wanted(s)'}
  BY <1>2, <1>3, <1>4, <1>5
<1>7. SlotInv'
  BY <1>1, <1>6 DEF SlotInv
<1>8. TypeOK'
  <2>1. 0 \in 0..Len(topic)
    BY Lengths
  <2>2. called' \subseteq Slots
    BY <1>2
  <2>3. QED
    BY <1>1, <2>1, <2>2
<1>9. QED
  BY <1>1, <1>7, <1>8 DEF LoopInv, PlusInv

\* The cursors move on by a part.
LEMMA PartPassed ==
  ASSUME IInv, slot \in Slots, filter \notin {NoFilter, topic},
         NEW start \in 0..Len(topic), curf \in 0..Len(filter),
         curf < Len(filter), Reached(filter, topic, curf, start),
         NEW m \in 0..Len(topic), Takes(FilterChar, topic, start, m),
         pc' = "loop", curf' = curf + 1, curn' = m, pc # "idle",
         UNCHANGED <<handlers, topic, slot, called>>
  PROVE  IInv'
<1>1. Len(topic) \in Nat /\ Len(filter) \in Nat
  BY Lengths DEF IInv
<1>2. Reached(filter, topic, curf + 1, m)
  BY <1>1, ReachedFurther DEF FilterChar
<1>3. curf + 1 \in 0..Len(filter)
  BY <1>1
<1>4. TypeOK'
  BY <1>1 DEF IInv, TypeOK
<1>5. filter' = filter
  BY DEF filter
<1>6. LoopInv'
  BY <1>2, <1>3, <1>5 DEF LoopInv, Slots
<1>7. SlotInv' /\ PlusInv'
  BY DEF IInv, SlotInv, PlusInv, Wanted
<1>8. QED
  BY <1>4, <1>6, <1>7 DEF IInv

\* The invariant is kept by every action.
LEMMA IInvStep == ASSUME IInv, [Next]_vars PROVE IInv'
<1>1. ASSUME NEW t \in Topics, Deliver(t) PROVE IInv'
  <2>1. Len(t) \in Nat
    OBVIOUS
  <2>2. TypeOK'
    BY <1>1, <2>1 DEF Deliver, IInv, TypeOK, SlotInv, cursors
  <2>3. SlotInv'
    BY <1>1 DEF Deliver, IInv, SlotInv, cursors
  <2>4. QED
    BY <1>1, <2>2, <2>3 DEF Deliver, IInv, LoopInv, PlusInv
<1>2. CASE Decide
  <2>1. CASE filter = NoFilter
    BY <1>2, <2>1, SlotPassed DEF Decide, Wanted, filter
  <2>2. CASE filter # NoFilter /\ filter = topic
    BY <1>2, <2>2, SlotPassed DEF Decide, Wanted, Delivers, filter
  <2>3. QED
    BY <1>2, <2>1, <2>2 DEF Decide
<1>3. CASE Match
  <2>1. Reached(filter, topic, 0, 0) /\ 0 \in 0..Len(filter)
    BY <1>3, Lengths, ReachedStart DEF Match, IInv
  <2>2. curf = 0 /\ curn = 0
    BY <1>3 DEF Match, IInv, SlotInv
  <2>3. filter' = filter
    BY <1>3 DEF Match, filter
  <2>4. LoopInv'
    BY <1>3, <2>1, <2>2, <2>3 DEF Match, LoopInv, Slots, cursors
  <2>5. TypeOK' /\ SlotInv' /\ PlusInv'
    BY <1>3 DEF Match, IInv, TypeOK, SlotInv, PlusInv, Wanted, cursors, Slots
  <2>6. QED
    BY <2>4, <2>5 DEF IInv
<1>4. CASE Return
  <2>1. TypeOK'
    BY <1>4 DEF Return, IInv, TypeOK, SlotInv, cursors
  <2>2. QED
    BY <1>4, <2>1 DEF Return, IInv, SlotInv, LoopInv, PlusInv, cursors
<1>5. ASSUME pc = "loop", GoesOn
      PROVE  /\ slot \in Slots /\ filter \notin {NoFilter, topic}
             /\ curf \in 0..Len(filter) /\ curf < Len(filter)
             /\ curn \in 0..Len(topic) /\ curn < Len(topic)
             /\ Len(topic) \in Nat /\ Len(filter) \in Nat
             /\ Reached(filter, topic, curf, curn)
             /\ topic[curn + 1] = "/" => FilterChar = "/"
             /\ FilterChar \in {"+", "#", topic[curn + 1]}
  BY <1>5, Lengths DEF GoesOn, More, Breaks, TopicChar, IInv, LoopInv, TypeOK
<1>6. CASE Character
  <2>1. Takes(FilterChar, topic, curn, curn + 1) /\ curn + 1 \in 0..Len(topic)
    BY <1>5, <1>6 DEF Character, Takes
  <2>2. QED
    BY <1>5, <1>6, <2>1, PartPassed DEF Character
<1>7. CASE Hash
  <2>1. Takes(FilterChar, topic, curn, Len(topic))
        /\ Len(topic) \in 0..Len(topic)
    BY <1>5, <1>7 DEF Hash, Takes
  <2>2. QED
    BY <1>5, <1>7, <2>1, PartPassed DEF Hash
<1>8. CASE Plus
  <2>1. topic[curn + 1] # "/" /\ FilterChar = "+"
    BY <1>5, <1>8 DEF Plus
  <2>2. filter' = filter /\ FilterChar' = FilterChar
        /\ UNCHANGED <<slot, topic, curf, curn>> /\ pc' = "plus"
    BY <1>8 DEF Plus, filter, FilterChar, cursors
  <2>3. curn \in 0..curn
        /\ \A k \in (curn + 1)..(curn + 1) : topic[k] # "/"
    BY <1>5, <1>8, <2>1 DEF Plus
  <2>4. \E start \in 0..curn :
          /\ Reached(filter, topic, curf, start)
          /\ \A k \in (start + 1)..(curn + 1) : topic[k] # "/"
    BY <1>5, <1>8, <2>3 DEF Plus
  <2>5. PlusInv'
    BY <1>5, <1>8, <2>1, <2>2, <2>4 DEF Plus, PlusInv, Slots
  <2>6. TypeOK' /\ SlotInv' /\ LoopInv'
    BY <1>8 DEF Plus, IInv, TypeOK, SlotInv, LoopInv, Wanted, cursors, Slots
  <2>7. QED
    BY <2>5, <2>6 DEF IInv
<1>9. CASE Skip
  <2>1. Len(topic) \in Nat /\ curn \in Nat
    BY Lengths DEF IInv, TypeOK
  <2>2. PICK start \in 0..curn :
          /\ Reached(filter, topic, curf, start)
          /\ \A k \in (start + 1)..(curn + 1) : topic[k] # "/"
    BY <1>9 DEF Skip, IInv, PlusInv
  <2>3. start \in 0..(curn + 1)
        /\ \A k \in (start + 1)..((curn + 1) + 1) : topic[k] # "/"
    BY <1>9, <2>1, <2>2 DEF Skip, MoreOfLevel
  <2>4. filter' = filter /\ FilterChar' = FilterChar
        /\ UNCHANGED <<slot, topic, curf>> /\ curn' = curn + 1 /\ pc' = "plus"
    BY <1>9 DEF Skip, filter, FilterChar
  <2>5. \E st \in 0..curn' :
          /\ Reached(filter, topic, curf, st)
          /\ \A k \in (st + 1)..(curn' + 1) : topic[k] # "/"
    BY <2>2, <2>3, <2>4
  <2>6. curn' < Len(topic)
    BY <1>9, <2>4 DEF Skip, MoreOfLevel
  <2>7. PlusInv'
    BY <1>9, <2>4, <2>5, <2>6 DEF Skip, IInv, PlusInv, Slots
  <2>8. TypeOK' /\ SlotInv' /\ LoopInv'
    BY <1>9, <2>1, <2>6 DEF Skip, IInv, TypeOK, SlotInv, LoopInv, Wanted, Slots
  <2>9. QED
    BY <2>7, <2>8 DEF IInv
<1>10. CASE LevelEnds
  <2>1. Len(topic) \in Nat /\ curn \in Nat /\ curn < Len(topic)
    BY <1>10, Lengths DEF LevelEnds, IInv, TypeOK, PlusInv
  <2>2. PICK start \in 0..curn :
          /\ Reached(filter, topic, curf, start)
          /\ \A k \in (start + 1)..(curn + 1) : topic[k] # "/"
    BY <1>10 DEF LevelEnds, IInv, PlusInv
  <2>3. curn + 1 = Len(topic) \/ topic[(curn + 1) + 1] = "/"
    <3>1. (curn + 1) + 1 = curn + 2
      BY <2>1
    <3>2. QED
      BY <1>10, <2>1, <3>1 DEF LevelEnds, MoreOfLevel
  <2>4. FilterChar = "+" /\ start < curn + 1
    BY <1>10, <2>1 DEF LevelEnds, IInv, PlusInv
  <2>5. Takes(FilterChar, topic, start, curn + 1)
    BY <2>2, <2>3, <2>4 DEF Takes
  <2>6. start \in 0..Len(topic) /\ curn + 1 \in 0..Len(topic)
    BY <2>1
  <2>7. QED
    BY <1>10, <2>2, <2>5, <2>6, PartPassed DEF LevelEnds, IInv, PlusInv
<1>11. CASE Result
  <2>1. /\ slot \in Slots /\ filter \notin {NoFilter, topic}
        /\ curf \in 0..Len(filter) /\ curn \in 0..Len(topic)
        /\ Len(topic) \in Nat /\ Len(filter) \in Nat
        /\ Reached(filter, topic, curf, curn)
    BY <1>11, Lengths DEF Result, IInv, LoopInv, TypeOK
  <2>2. \/ curf = Len(filter) \/ curn = Len(topic)
        \/ topic[curn + 1] = "/" /\ filter[curf + 1] # "/"
        \/ filter[curf + 1] \notin {"+", "#", topic[curn + 1]}
    BY <1>11, <2>1 DEF Result, GoesOn, More, Breaks, TopicChar, FilterChar
  <2>3. Covers(filter, topic) <=> curn = Len(topic) /\ curf = Len(filter)
    BY <2>1, <2>2, StopDecides
  <2>4. Wanted(slot) <=> curn = Len(topic) /\ curf = Len(filter)
    BY <2>1, <2>3 DEF Wanted, Delivers, filter
  <2>5. Wanted(slot) \in BOOLEAN
    BY DEF Wanted
  <2>6. QED
    BY <1>11, <2>1, <2>4, <2>5, SlotPassed DEF Result
<1>12. CASE UNCHANGED vars
  BY <1>12 DEF vars, cursors, IInv, TypeOK, SlotInv, LoopInv, PlusInv, Wanted,
               FilterChar, filter
<1>13. QED
  BY <1>1, <1>2, <1>3, <1>4, <1>6, <1>7, <1>8, <1>9, <1>10, <1>11, <1>12
     DEF Next

\* The invariant holds in every state.
LEMMA IInvHolds == Spec => []IInv
<1>1. Init => IInv
  BY DEF Init, IInv, TypeOK, SlotInv, LoopInv, PlusInv, Slots
<1>2. QED
  BY <1>1, IInvStep, PTL DEF Spec

-----------------------------------------------------------------------------
\* Every variable keeps its type.
THEOREM TypeCorrect == Spec => []TypeOK
<1>1. IInv => TypeOK
  BY DEF IInv
<1>2. QED
  BY <1>1, IInvHolds, PTL

\* isTopicMatched never looks past the 0 at the end of the filter nor past the
\* end of the topic, which has no 0, whatever their form.
THEOREM CursorsStayInside == Spec => []CursorsInside
<1>1. IInv => CursorsInside
  BY Lengths DEF IInv, TypeOK, LoopInv, PlusInv, CursorsInside
<1>2. QED
  BY <1>1, IInvHolds, PTL

\* deliverMessage calls exactly the handlers whose filters cover the topic.
THEOREM DispatchIsExact == Spec => []DispatchByCover
<1>1. ASSUME IInv, pc = "slot", slot \notin Slots
      PROVE  called = {s \in Slots : Wanted(s)}
  <2>1. slot - 1 = MaxHandlers
    BY <1>1 DEF IInv, TypeOK, Slots
  <2>2. QED
    BY <1>1, <2>1 DEF IInv, SlotInv, Slots
<1>2. IInv => DispatchByCover
  BY <1>1 DEF DispatchByCover, Wanted
<1>3. QED
  BY <1>2, IInvHolds, PTL

\* For every topic and every filter in the form isTopicMatched assumes,
\* deliverMessage calls a handler exactly when the levels of its filter stand
\* for the levels of the topic, one after the other.  That is the rule of MQTT
\* without the level above a '#' and without empty levels under a wildcard: on
\* those two, and on nothing else, the library and MQTT part.
THEOREM DispatchFollowsRule == Spec => []MatchesByLevels
<1>1. ASSUME IInv, DispatchByCover, pc = "slot", slot \notin Slots,
             NEW s \in Slots, handlers[s] # NoFilter,
             WellFormedFilter(handlers[s])
      PROVE  s \in called <=> OnLevels(handlers[s], topic)
  <2>1. Len(topic) \in Nat
    BY <1>1, Lengths DEF IInv
  <2>2. handlers[s] \in Seq(Characters)
    BY <1>1 DEF IInv, TypeOK, Slots
  <2>3. Len(handlers[s]) \in Nat
    BY <2>2
  <2>4. s \in called <=> Delivers(handlers[s], topic)
    BY <1>1 DEF DispatchByCover
  <2>5. QED
    BY <1>1, <2>1, <2>3, <2>4, DeliversByLevels
<1>2. IInv /\ DispatchByCover => MatchesByLevels
  BY <1>1 DEF MatchesByLevels
<1>3. QED
  BY <1>2, IInvHolds, DispatchIsExact, PTL

=============================================================================
