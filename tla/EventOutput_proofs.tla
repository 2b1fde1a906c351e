-------------------------- MODULE EventOutput_proofs --------------------------
(***************************************************************************)
(* What WCDigitizer and EventOutput promise, for every histogram, every    *)
(* threshold and gate, every set of hits collections and any number of     *)
(* events.                                                                 *)
(*                                                                         *)
(* The argument: the times of a hit are ranked, so that SortHitTimes orders*)
(* them (Ordered); the bins of the histogram partition the times, so that  *)
(* the entries of a window of bins are the times of the window (Counted);  *)
(* the bins that the trigger loop has passed do not trigger (Searched);    *)
(* the digits made so far are of the hits passed, one each at most         *)
(* (Digitized); the rows written so far are those of the first hits and    *)
(* digits, and the entry is a copy of them (Written).                      *)
(***************************************************************************)
EXTENDS EventOutput, FiniteSetTheorems, SequenceTheorems, TLAPS

(***************************************************************************)
(* The invariant.                                                          *)
(***************************************************************************)
Hit   == [tubeID : Nat, time : Seq(Nat)]
Digit == [tubeID : Nat, time : Nat \ {0}, totalPe : Nat]

\* The times of every hit are in order, and no two hits are of one tube.
Sorted(s) == \A a, b \in DOMAIN s : a <= b => s[a] <= s[b]
Ordered ==
  /\ OneHitPerTube(hits)
  /\ \A h \in DOMAIN hits : Sorted(hits[h].time)

\* The histogram is of the hits, and the bins passed do not trigger.
Counted ==
  phase = "trigger" => \A b \in 0 .. TimeHistoMaxBin - 1 :
                         triggerhisto[b] = Cardinality(Entries(hits, b))
Searched ==
  phase = "trigger" => /\ RealOffset = offset
                       /\ \A b \in 1 .. j - 1 : b \notin TriggerBins(GlobalThreshold + 1)

\* A digit is of a hit that the loop has passed, and no two are of one tube.
IsDigitOf(digit, hit, t0) ==
  digit.tubeID = hit.tubeID /\ digit.time - t0 - hit.time[1] \in Noise
Digitized ==
  /\ 1 <= i /\ (phase \in {"idle", "trigger"} => digits = <<>>)
  /\ \A k \in DOMAIN digits :
       \E h \in DOMAIN hits : h < i /\ IsDigitOf(digits[k], hits[h], RealOffset)
  /\ \A k, l \in DOMAIN digits : digits[k].tubeID = digits[l].tubeID => k = l

DigitizerInv ==
  TypeOK /\ Ordered /\ Counted /\ Searched /\ TriggerIsFirstWindow /\ Digitized

\* The times written of a hit, and the rows written of the event.
Shown(hit) ==
  SubSeq(hit.time, 1, IF Len(hit.time) < MaxTimes THEN Len(hit.time) ELSE MaxTimes)
Rows ==
  /\ Len(hit_tree) = nHits /\ Len(digit_tree) = nDigits
  /\ \A r \in 1 .. nHits : hit_tree[r] = HitRow(hits[r], Shown(hits[r]))
  /\ \A d \in 1 .. nDigits : digit_tree[d] = DigitRow(digits[d])
Written ==
  /\ phase # "stored" => nHits = 0 /\ nDigits = 0 /\ ~entry.filled
  /\ phase # "idle" => Rows
  /\ entry.filled =>
       /\ nHits = Len(hits) /\ nDigits = Len(digits)
       /\ entry = [nHits |-> nHits, nDigits |-> nDigits, hit |-> hit_tree,
                   digit |-> digit_tree, filled |-> TRUE]

OutputInv == DigitizerInv /\ OutputTypeOK /\ Written
(***************************************************************************)
(* Sorting.                                                                *)
(***************************************************************************)
\* k comes before m in the order of the times.
Precedes(s, k, m) == s[k] < s[m] \/ (s[k] = s[m] /\ k < m)
Rank(s, k) == Cardinality(Earlier(s, k))

\* Less than all the times come before one.
LEMMA RankType ==
  ASSUME NEW s \in Seq(Nat), NEW k \in DOMAIN s
  PROVE  IsFiniteSet(Earlier(s, k)) /\ Rank(s, k) \in 0 .. Len(s) - 1
<1> DEFINE D == 1 .. Len(s)
           E == Earlier(s, k)
           l == Len(s)
<1>1. l \in Nat /\ DOMAIN s = D /\ k \in D /\ k \notin E /\ E \subseteq D
  BY DEF Earlier
<1>2. IsFiniteSet(D) /\ Cardinality(D) = l
  <2>1. l \in Nat
    OBVIOUS
  <2> HIDE DEF l
  <2>2. IsFiniteSet(1 .. l) /\ Cardinality(1 .. l) = l
    BY <2>1, FS_Interval
  <2> QED  BY <2>2 DEF l
<1> HIDE DEF D, E
<1>3. /\ IsFiniteSet(E) /\ Cardinality(E) <= Cardinality(D)
      /\ Cardinality(D) = Cardinality(E) => D = E
  BY <1>1, <1>2, FS_Subset
<1>4. Cardinality(E) \in Nat
  BY <1>3, FS_CardinalityType
<1>5. Cardinality(E) # Cardinality(D)
  BY <1>1, <1>3
<1> HIDE DEF l
<1>6. Cardinality(E) \in 0 .. l - 1
  BY <1>1, <1>2, <1>3, <1>4, <1>5
<1> QED  BY <1>3, <1>6 DEF E, l, Rank

\* What comes before has the smaller rank.
LEMMA RankOrder ==
  ASSUME NEW s \in Seq(Nat), NEW k \in DOMAIN s, NEW m \in DOMAIN s, Precedes(s, k, m)
  PROVE  Rank(s, k) < Rank(s, m)
<1>1. /\ IsFiniteSet(Earlier(s, m)) /\ Rank(s, m) \in 0 .. Len(s) - 1
      /\ Rank(s, k) \in 0 .. Len(s) - 1 /\ Len(s) \in Nat
  BY RankType
<1>2. \A n \in DOMAIN s : s[n] \in Nat /\ n \in Nat
  OBVIOUS
<1>3. Earlier(s, k) \subseteq Earlier(s, m)
  BY <1>2 DEF Earlier, Precedes
<1>4. k \in Earlier(s, m) /\ k \notin Earlier(s, k)
  BY <1>2 DEF Earlier, Precedes
<1>5. /\ Rank(s, k) <= Rank(s, m)
      /\ Rank(s, m) = Rank(s, k) => Earlier(s, m) = Earlier(s, k)
  BY <1>1, <1>3, FS_Subset DEF Rank
<1>6. Rank(s, k) # Rank(s, m)
  BY <1>4, <1>5
<1> QED  BY <1>1, <1>5, <1>6

\* Two times are in order.
LEMMA PrecedesTotal ==
  ASSUME NEW s \in Seq(Nat), NEW k \in DOMAIN s, NEW m \in DOMAIN s
  PROVE  k = m \/ Precedes(s, k, m) \/ Precedes(s, m, k)
<1>1. \A n \in DOMAIN s : s[n] \in Nat /\ n \in Nat
  OBVIOUS
<1> QED  BY <1>1 DEF Precedes

\* The time that is put at a place.
Place(s, n) == CHOOSE k \in DOMAIN s : Cardinality(Earlier(s, k)) = n - 1
\* Each place of the sorted times has its time.
LEMMA PlaceIs ==
  ASSUME NEW s \in Seq(Nat), NEW n \in DOMAIN s
  PROVE  Place(s, n) \in DOMAIN s /\ Rank(s, Place(s, n)) = n - 1
<1> DEFINE l == Len(s)
           T == 0 .. l - 1
           D == DOMAIN s
           f == [k \in D |-> Rank(s, k)]
<1>1. l \in Nat /\ D = 1 .. l /\ n \in 1 .. l
  OBVIOUS
<1>2. \A k \in D : Rank(s, k) \in T
  BY RankType
<1>3. ASSUME NEW k \in D, NEW m \in D, Rank(s, k) = Rank(s, m)
      PROVE  k = m
  <2>1. Rank(s, k) \in T /\ Rank(s, m) \in T /\ l \in Nat
    BY <1>1, <1>2
  <2>2. Precedes(s, k, m) => Rank(s, k) < Rank(s, m)
    BY RankOrder
  <2>3. Precedes(s, m, k) => Rank(s, m) < Rank(s, k)
    BY RankOrder
  <2>4. k = m \/ Precedes(s, k, m) \/ Precedes(s, m, k)
    BY PrecedesTotal
  <2> HIDE DEF l
  <2> QED  BY <1>3, <2>1, <2>2, <2>3, <2>4
<1>4. f \in [D -> T]
  BY <1>2
<1>5. \A k \in D : f[k] = Rank(s, k)
  OBVIOUS
<1> HIDE DEF l, D, f
<1>6. IsFiniteSet(T) /\ Cardinality(T) = l
  <2> DEFINE m == l - 1
  <2>1. m \in Int /\ (IF 0 > m THEN 0 ELSE m - 0 + 1) = l
    BY <1>1
  <2> HIDE DEF m
  <2>2. IsFiniteSet(0 .. m) /\ Cardinality(0 .. m) = IF 0 > m THEN 0 ELSE m - 0 + 1
    BY <2>1, FS_Interval
  <2>3. IsFiniteSet(0 .. m) /\ Cardinality(0 .. m) = l
    BY <2>1, <2>2
  <2> QED  BY <2>3 DEF m
<1>7. IsFiniteSet(D) /\ Cardinality(D) = l
  BY <1>1, FS_Interval
<1> HIDE DEF T
<1>8. f \in Injection(D, T)
  BY <1>3, <1>4, <1>5 DEF Injection, IsInjective
<1>9. f \in Surjection(D, T)
  BY <1>6, <1>7, <1>8, FS_Injection
<1>10. n - 1 \in T
  BY <1>1 DEF T
<1>11. \E k \in D : Rank(s, k) = n - 1
  BY <1>5, <1>9, <1>10 DEF Surjection
<1> QED  BY <1>11 DEF Place, D, Rank

\* SortHitTimes puts the times of a hit in order: the sorted times are the times of
\* the hit, each as often as it was there, and none comes before a smaller one.
THEOREM TimesAreSorted ==
  ASSUME NEW s \in Seq(Nat)
  PROVE  /\ Increasing(s) \in Seq(Nat) /\ Len(Increasing(s)) = Len(s)
         /\ Sorted(Increasing(s))
         /\ \E p \in Bijection(DOMAIN s, DOMAIN s) :
              \A n \in DOMAIN s : Increasing(s)[n] = s[p[n]]
<1> DEFINE D == DOMAIN s
           w == Increasing(s)
           p == [n \in D |-> Place(s, n)]
<1>1. D = 1 .. Len(s) /\ Len(s) \in Nat /\ \A k \in D : s[k] \in Nat
  OBVIOUS
<1>2. \A n \in D : Place(s, n) \in D /\ Rank(s, Place(s, n)) = n - 1
  BY PlaceIs
<1>3. DOMAIN w = D /\ \A n \in D : w[n] = s[Place(s, n)]
  BY DEF Increasing, Place
<1>4. w \in [D -> Nat]
  <2>1. w = [n \in D |-> s[Place(s, n)]]
    BY DEF Increasing, Place
  <2> HIDE DEF w
  <2> QED  BY <1>1, <1>2, <2>1
<1> HIDE DEF w
<1>5. w \in Seq(Nat) /\ Len(w) = Len(s)
  BY <1>1, <1>4
<1>6. ASSUME NEW a \in D, NEW b \in D, a <= b PROVE w[a] <= w[b]
  <2> DEFINE k == Place(s, a)
             m == Place(s, b)
  <2>1. k \in D /\ m \in D /\ Rank(s, k) = a - 1 /\ Rank(s, m) = b - 1
    BY <1>2
  <2>2. w[a] = s[k] /\ w[b] = s[m] /\ a \in Nat /\ b \in Nat
    BY <1>1, <1>3
  <2> HIDE DEF k, m
  <2>3. s[k] \in Nat /\ s[m] \in Nat
    BY <1>1, <2>1
  <2>4. CASE s[m] < s[k]
    <3>1. Precedes(s, m, k)
      BY <2>4 DEF Precedes
    <3>2. Rank(s, m) < Rank(s, k)
      BY <2>1, <3>1, RankOrder
    <3> QED  BY <1>6, <2>1, <2>2, <3>2
  <2>5. CASE s[k] <= s[m]
    BY <2>2, <2>5
  <2> QED  BY <2>3, <2>4, <2>5
<1>7. Sorted(w)
  BY <1>3, <1>6 DEF Sorted
<1>8. p \in [D -> D]
  BY <1>2
<1>9. \A n \in D : p[n] = Place(s, n)
  OBVIOUS
<1> HIDE DEF p
<1>10. ASSUME NEW a \in D, NEW b \in D, p[a] = p[b] PROVE a = b
  <2>1. a - 1 = b - 1
    BY <1>2, <1>9, <1>10
  <2>2. a \in Nat /\ b \in Nat
    BY <1>1
  <2> QED  BY <2>1, <2>2
<1>11. IsFiniteSet(D)
  <2> DEFINE l == Len(s)
  <2>1. D = 1 .. l /\ l \in Nat
    BY <1>1
  <2> HIDE DEF D, l
  <2> QED  BY <2>1, FS_Interval
<1> HIDE DEF D
<1>12. p \in Injection(D, D)
  BY <1>8, <1>10 DEF Injection, IsInjective
<1>13. p \in Bijection(D, D)
  BY <1>11, <1>12, FS_Injection DEF Bijection
<1>14. \A n \in D : w[n] = s[p[n]]
  BY <1>3, <1>9
<1> QED  BY <1>5, <1>7, <1>13, <1>14 DEF D, w
(***************************************************************************)
(* The histogram.                                                          *)
(***************************************************************************)
\* The times of a collection, each by its hit and its place there.
Times(c) == UNION {{h} \X DOMAIN c[h].time : h \in DOMAIN c}
TimeOf(c, ht) == c[ht[1]].time[ht[2]]

\* The times can be counted.
LEMMA TimesAre ==
  ASSUME NEW c \in Seq(Hit)
  PROVE  /\ IsFiniteSet(Times(c))
         /\ \A ht \in Times(c) : TimeOf(c, ht) \in Nat
<1>1. \A h \in DOMAIN c : c[h] \in Hit
  OBVIOUS
<1>2. \A h \in DOMAIN c : c[h].time \in Seq(Nat)
  BY <1>1 DEF Hit
<1>3. \A h \in DOMAIN c : \A k \in DOMAIN c[h].time : c[h].time[k] \in Nat
  BY <1>2
<1>4. \A ht \in Times(c) : \E h \in DOMAIN c : ht \in {h} \X DOMAIN c[h].time
  BY DEF Times
<1>5. \A ht \in Times(c) : ht[1] \in DOMAIN c /\ ht[2] \in DOMAIN c[ht[1]].time
  BY <1>4
<1>6. \A ht \in Times(c) : TimeOf(c, ht) \in Nat
  BY <1>3, <1>5 DEF TimeOf
<1> DEFINE row(h) == {h} \X DOMAIN c[h].time
           R == {row(h) : h \in DOMAIN c}
           l == Len(c)
<1>7. \A h \in DOMAIN c : IsFiniteSet(row(h))
  <2> SUFFICES ASSUME NEW h \in DOMAIN c PROVE IsFiniteSet(row(h))
    OBVIOUS
  <2> DEFINE n == Len(c[h].time)
             K == DOMAIN c[h].time
  <2>1. n \in Nat /\ K = 1 .. n
    BY <1>2
  <2> HIDE DEF n, K
  <2>2. IsFiniteSet(K)
    BY <2>1, FS_Interval
  <2>3. IsFiniteSet({h})
    BY FS_Singleton
  <2>4. IsFiniteSet({h} \X K)
    BY <2>2, <2>3, FS_Product
  <2> QED  BY <2>4 DEF K
<1>8. IsFiniteSet(R)
  <2> DEFINE D == DOMAIN c
             f == [h \in D |-> row(h)]
  <2>1. D = 1 .. l /\ l \in Nat
    OBVIOUS
  <2>2. f \in Surjection(D, R)
    <3>1. \A h \in D : f[h] = row(h)
      OBVIOUS
    <3>2. \A x \in R : \E h \in D : x = row(h)
      OBVIOUS
    <3>3. \A h \in D : row(h) \in R
      OBVIOUS
    <3>4. f \in [D -> R]
      BY <3>3
    <3> HIDE DEF f, D, R, row
    <3> QED  BY <3>1, <3>2, <3>4 DEF Surjection
  <2> HIDE DEF f, D, l, R
  <2>3. IsFiniteSet(D)
    BY <2>1, FS_Interval
  <2> QED  BY <2>2, <2>3, FS_Surjection
<1> HIDE DEF row, l
<1>9. \A x \in R : IsFiniteSet(x)
  BY <1>7
<1>10. Times(c) = UNION R
  BY DEF Times, row
<1> HIDE DEF R
<1>11. IsFiniteSet(UNION R)
  BY <1>8, <1>9, FS_UNION
<1> QED  BY <1>6, <1>10, <1>11

\* A time lies in the bin of its quotient.
LEMMA BinOf ==
  ASSUME NEW t \in Nat, NEW k \in Int
  PROVE  t \div TimeHistoStep = k <=> TimeHistoStep * k <= t /\ t < TimeHistoStep * (k + 1)
<1> DEFINE s == TimeHistoStep
           q == t \div s
           r == t % s
<1>1. s \in Nat /\ s > 0
  BY WCDigitizerAssumption
<1> HIDE DEF s
<1>2. q \in Int /\ r \in 0 .. s - 1 /\ t = s * q + r
  BY <1>1
<1> HIDE DEF q, r
<1>3. CASE q = k
  <2>1. s * (k + 1) = s * k + s
    BY <1>1
  <2> QED  BY <1>1, <1>2, <1>3, <2>1 DEF s, q
<1>4. CASE q < k
  <2>1. s * (q + 1) <= s * k /\ s * (q + 1) = s * q + s
    BY <1>1, <1>2, <1>4
  <2>2. s * k \in Int /\ s * q \in Int
    BY <1>1, <1>2
  <2>3. ~(s * k <= t)
    BY <1>1, <1>2, <2>1, <2>2
  <2> QED  BY <1>4, <1>2, <2>3 DEF s, q
<1>5. CASE k < q
  <2>1. s * (k + 1) <= s * q
    BY <1>1, <1>2, <1>5
  <2>2. s * (k + 1) \in Int /\ s * q \in Int
    BY <1>1, <1>2
  <2>3. ~(t < s * (k + 1))
    BY <1>1, <1>2, <2>1, <2>2
  <2> QED  BY <1>5, <1>2, <2>3 DEF s, q
<1> QED  BY <1>2, <1>3, <1>4, <1>5

\* The ends of the bins are in order.
LEMMA BinOrder ==
  ASSUME NEW k \in Int, NEW m \in Int, k <= m
  PROVE  TimeHistoStep * k \in Int /\ TimeHistoStep * m \in Int
         /\ TimeHistoStep * k <= TimeHistoStep * m
BY WCDigitizerAssumption

\* A time is in a window if and only if its bin is one of the window's.
LEMMA WindowOf ==
  ASSUME NEW t \in Nat, NEW b \in 1 .. TimeHistoMaxBin
  PROVE  /\ (/\ TimeHistoStep * (b - TimeHistoStepBin) <= t
             /\ t < TimeHistoStep * b)
            <=> \E k \in Beginning(b) .. b : t < LongTime /\ t \div TimeHistoStep = k - 1
<1> DEFINE k == t \div TimeHistoStep + 1
           s == TimeHistoStep
           w == TimeHistoStepBin
           m == TimeHistoMaxBin
           from == b - w
<1>1. s \in Nat /\ w \in Nat /\ w > 0 /\ m \in Nat /\ b \in Int /\ 1 <= b /\ b <= m
  BY WCDigitizerAssumption
<1>2. k \in Int /\ t \div s = k - 1
  <2> DEFINE q == t \div s
  <2>1. q \in Int
    <3>1. s \in Nat /\ s > 0
      BY WCDigitizerAssumption
    <3> HIDE DEF s
    <3> QED  BY <3>1
  <2> HIDE DEF s
  <2>2. k = q + 1
    BY DEF s
  <2> HIDE DEF k, q
  <2>3. k \in Int /\ q = k - 1
    BY <2>1, <2>2
  <2> QED  BY <2>3 DEF q
<1>3. s * (k - 1) <= t /\ t < s * k
  <2>1. t \div s = k - 1 /\ k - 1 \in Int
    BY <1>2
  <2> HIDE DEF k
  <2>2. (k - 1) + 1 = k
    BY <1>2
  <2> DEFINE l == k - 1
  <2>3. l \in Int /\ t \div s = l
    BY <2>1
  <2> HIDE DEF l
  <2>4. s * l <= t /\ t < s * (l + 1)
    BY <2>3, BinOf
  <2> QED  BY <2>2, <2>4 DEF l
<1>4. \A n \in Int : t \div s = n - 1 <=> n = k
  <2> HIDE DEF k
  <2> QED  BY <1>2
<1>5. Beginning(b) \in Int /\ Beginning(b) >= 1 /\ Beginning(b) >= b + 1 - w /\ Beginning(b) <= b
      /\ (Beginning(b) = 1 \/ Beginning(b) = (b + 1) - w)
  BY <1>1 DEF Beginning
<1> HIDE DEF k
<1>6. s * from \in Int /\ s * b \in Int /\ s * k \in Int /\ s * (k - 1) \in Int /\ from \in Int
  BY <1>1, <1>2
<1>7. ASSUME s * from <= t, t < s * b
      PROVE  k \in Beginning(b) .. b /\ t < LongTime /\ t \div s = k - 1
  <2>1. k <= b
    <3>1. k > b => s * b <= s * (k - 1)
      BY <1>1, <1>2, BinOrder
    <3> QED  BY <1>1, <1>2, <1>3, <1>6, <1>7, <3>1
  <2>2. k > from
    <3>1. k <= from => s * k <= s * from
      BY <1>2, <1>6, BinOrder
    <3> QED  BY <1>2, <1>3, <1>6, <1>7, <3>1
  <2>3. k >= 1
    <3>1. k < 1 => s * k <= s * 0
      BY <1>2, BinOrder
    <3>2. s * 0 = 0
      BY <1>1
    <3> QED  BY <1>2, <1>3, <1>6, <3>1, <3>2
  <2>4. k \in Beginning(b) .. b
    BY <1>1, <1>2, <1>5, <2>1, <2>2, <2>3
  <2>5. s * b <= s * m /\ s * m \in Int
    BY <1>1, BinOrder
  <2>6. t < LongTime
    BY <1>6, <1>7, <2>5 DEF LongTime
  <2> QED  BY <1>2, <1>4, <2>4, <2>6
<1>8. ASSUME NEW n \in Beginning(b) .. b, t \div s = n - 1
      PROVE  s * from <= t /\ t < s * b
  <2>1. n = k /\ n \in Int
    BY <1>4, <1>5, <1>1, <1>8
  <2>2. k <= b /\ from <= k - 1
    BY <1>1, <1>2, <1>5, <2>1
  <2>3. s * k <= s * b
    BY <1>1, <1>2, <2>2, BinOrder
  <2>4. s * from <= s * (k - 1)
    <3> DEFINE l == k - 1
    <3>1. l \in Int /\ from <= l
      BY <1>2, <2>2
    <3> HIDE DEF l, from
    <3>2. s * from <= s * l
      BY <1>6, <3>1, BinOrder
    <3> QED  BY <3>2 DEF l
  <2> QED  BY <1>3, <1>6, <2>3, <2>4
<1> QED  BY <1>7, <1>8
\* The entries of a bin are those of the times that lie there.
LEMMA EntriesAre ==
  ASSUME NEW c \in Seq(Hit), NEW b
  PROVE  /\ IsFiniteSet(Entries(c, b))
         /\ \A ht : ht \in Entries(c, b) <=>
              /\ ht \in Times(c) /\ TimeOf(c, ht) < LongTime
              /\ TimeOf(c, ht) \div TimeHistoStep = b
<1>1. Entries(c, b) = {ht \in Times(c) : TimeOf(c, ht) < LongTime
                                           /\ TimeOf(c, ht) \div TimeHistoStep = b}
  BY DEF Entries, Times, TimeOf
<1>2. IsFiniteSet(Times(c))
  BY TimesAre
<1>3. Entries(c, b) \in SUBSET Times(c)
  BY <1>1
<1>4. IsFiniteSet(Entries(c, b))
  BY <1>2, <1>3, FS_Subset
<1> QED  BY <1>1, <1>4

\* The times of a window are those of its bins.
LEMMA WindowIs ==
  ASSUME hits \in Seq(Hit), NEW b \in 1 .. TimeHistoMaxBin, NEW ht
  PROVE  ht \in InWindow(b) <=> \E k \in Beginning(b) .. b : ht \in Entries(hits, k - 1)
<1> DEFINE t == TimeOf(hits, ht)
<1>1. InWindow(b) = {x \in Times(hits) :
                       /\ TimeHistoStep * (b - TimeHistoStepBin) <= TimeOf(hits, x)
                       /\ TimeOf(hits, x) < TimeHistoStep * b}
  BY DEF InWindow, Times, TimeOf
<1>2. ht \in InWindow(b) <=>
        /\ ht \in Times(hits)
        /\ TimeHistoStep * (b - TimeHistoStepBin) <= t /\ t < TimeHistoStep * b
  BY <1>1
<1>3. \A n : ht \in Entries(hits, n) <=>
               ht \in Times(hits) /\ t < LongTime /\ t \div TimeHistoStep = n
  BY EntriesAre
<1> HIDE DEF t
<1>4. CASE ht \notin Times(hits)
  BY <1>2, <1>3, <1>4
<1>5. CASE ht \in Times(hits)
  <2>1. t \in Nat
    BY <1>5, TimesAre DEF t
  <2>2. (/\ TimeHistoStep * (b - TimeHistoStepBin) <= t
         /\ t < TimeHistoStep * b)
        <=> \E k \in Beginning(b) .. b : t < LongTime /\ t \div TimeHistoStep = k - 1
    BY <2>1, WindowOf
  <2>3. \A k : ht \in Entries(hits, k - 1) <=> t < LongTime /\ t \div TimeHistoStep = k - 1
    BY <1>3, <1>5
  <2>4. (\E k \in Beginning(b) .. b : t < LongTime /\ t \div TimeHistoStep = k - 1)
        <=> \E k \in Beginning(b) .. b : ht \in Entries(hits, k - 1)
    BY <2>3
  <2> QED  BY <1>2, <1>5, <2>2, <2>4
<1> QED  BY <1>4, <1>5

\* The window of a bin begins in the histogram.
LEMMA BeginningIs ==
  ASSUME NEW b \in 1 .. TimeHistoMaxBin, NEW k \in Beginning(b) .. b
  PROVE  k \in Int /\ k \in 1 .. TimeHistoMaxBin /\ k - 1 \in 0 .. TimeHistoMaxBin - 1
<1>1. /\ TimeHistoMaxBin \in Nat /\ TimeHistoStepBin \in Nat
      /\ b \in Int /\ 1 <= b /\ b <= TimeHistoMaxBin
  BY WCDigitizerAssumption
<1>2. Beginning(b) \in Int /\ Beginning(b) >= 1
  BY <1>1 DEF Beginning
<1> QED  BY <1>1, <1>2

\* What the loop accumulates of the histogram is the number of the times of the window:
\* each entry of a bin stands for one time of that bin, and no time lies in two bins.
LEMMA CountIsWindow ==
  ASSUME hits \in Seq(Hit), NEW b \in 1 .. TimeHistoMaxBin,
         \A n \in 0 .. TimeHistoMaxBin - 1 : triggerhisto[n] = Cardinality(Entries(hits, n))
  PROVE  acc(b) = Cardinality(InWindow(b)) /\ acc(b) \in Nat
<1> DEFINE K == Beginning(b) .. b
           N(k) == triggerhisto[k - 1]
           E(k) == Entries(hits, k - 1)
           U == UNION {{k} \X (1 .. N(k)) : k \in K}
           W == InWindow(b)
           F == [k \in K |-> CHOOSE f : f \in Bijection(1 .. N(k), E(k))]
           g == [x \in U |-> F[x[1]][x[2]]]
<1>1. \A k \in K : N(k) = Cardinality(E(k)) /\ k \in Int
  BY BeginningIs
<1>2. \A k \in K : IsFiniteSet(E(k))
  BY EntriesAre
<1>3. \A ht : ht \in W <=> \E k \in K : ht \in E(k)
  BY WindowIs
<1>4. ASSUME NEW k \in K, NEW l \in K, NEW ht, ht \in E(k), ht \in E(l)
      PROVE  k = l
  <2>1. TimeOf(hits, ht) \div TimeHistoStep = k - 1 /\ TimeOf(hits, ht) \div TimeHistoStep = l - 1
    BY <1>4, EntriesAre
  <2>2. k \in Int /\ l \in Int
    BY <1>1
  <2> QED  BY <2>1, <2>2
<1>5. IsFiniteSet(W)
  <2>1. W \in SUBSET Times(hits)
    BY DEF InWindow, Times
  <2>2. IsFiniteSet(Times(hits))
    BY TimesAre
  <2> HIDE DEF W
  <2> QED  BY <2>1, <2>2, FS_Subset
<1>6. acc(b) = Cardinality(U)
  BY DEF acc
<1> HIDE DEF K, N, E, W
<1>7. \A x \in U : x[1] \in K /\ x[2] \in 1 .. N(x[1]) /\ x = <<x[1], x[2]>>
  <2>1. \A x \in U : \E k \in K : x \in {k} \X (1 .. N(k))
    OBVIOUS
  <2> HIDE DEF U
  <2>2. ASSUME NEW x \in U PROVE x[1] \in K /\ x[2] \in 1 .. N(x[1]) /\ x = <<x[1], x[2]>>
    <3>1. PICK k \in K : x \in {k} \X (1 .. N(k))
      BY <2>1
    <3>2. x[1] = k /\ x[2] \in 1 .. N(k) /\ x = <<x[1], x[2]>>
      BY <3>1
    <3> QED  BY <3>2
  <2> QED  BY <2>2
<1>8. \A k \in K : \A n \in 1 .. N(k) : <<k, n>> \in U
  OBVIOUS
<1>9. \A k \in K : F[k] \in Bijection(1 .. N(k), E(k))
  <2> SUFFICES ASSUME NEW k \in K PROVE F[k] \in Bijection(1 .. N(k), E(k))
    OBVIOUS
  <2>1. ExistsBijection(1 .. N(k), E(k))
    BY <1>1, <1>2, FS_CardinalityType
  <2>2. \E f : f \in Bijection(1 .. N(k), E(k))
    BY <2>1 DEF ExistsBijection
  <2> QED  BY <2>2
<1>10. \A x \in U : g[x] = F[x[1]][x[2]] /\ g[x] \in E(x[1])
  <2> SUFFICES ASSUME NEW x \in U PROVE g[x] = F[x[1]][x[2]] /\ g[x] \in E(x[1])
    OBVIOUS
  <2>1. g[x] = F[x[1]][x[2]]
    OBVIOUS
  <2>2. x[1] \in K /\ x[2] \in 1 .. N(x[1])
    BY <1>7
  <2> HIDE DEF g, F, U
  <2>3. F[x[1]] \in [1 .. N(x[1]) -> E(x[1])]
    BY <1>9, <2>2 DEF Bijection, Injection
  <2> QED  BY <2>1, <2>2, <2>3
<1>11. DOMAIN g = U
  OBVIOUS
<1>12. g \in [U -> W]
  <2>1. \A x \in U : F[x[1]][x[2]] \in W
    BY <1>3, <1>7, <1>10
  <2> HIDE DEF F, U
  <2> QED  BY <2>1
<1> HIDE DEF g, F, U
<1>13. ASSUME NEW x \in U, NEW y \in U, g[x] = g[y] PROVE x = y
  <2>1. x[1] \in K /\ y[1] \in K /\ g[x] \in E(x[1]) /\ g[x] \in E(y[1])
    BY <1>7, <1>10, <1>13
  <2>2. x[1] = y[1]
    BY <1>4, <2>1
  <2>3. F[x[1]] \in Injection(1 .. N(x[1]), E(x[1]))
    BY <1>9, <2>1 DEF Bijection
  <2>4. x[2] \in 1 .. N(x[1]) /\ y[2] \in 1 .. N(x[1]) /\ F[x[1]][x[2]] = F[x[1]][y[2]]
    BY <1>7, <1>10, <1>13, <2>2
  <2>5. x[2] = y[2]
    BY <2>3, <2>4 DEF Injection, IsInjective
  <2> QED  BY <1>7, <2>2, <2>5
<1>14. ASSUME NEW ht \in W PROVE \E x \in U : g[x] = ht
  <2>1. PICK k \in K : ht \in E(k)
    BY <1>3
  <2>2. F[k] \in Surjection(1 .. N(k), E(k))
    BY <1>9 DEF Bijection
  <2>3. PICK n \in 1 .. N(k) : F[k][n] = ht
    BY <2>1, <2>2 DEF Surjection
  <2>4. <<k, n>> \in U
    BY <1>8
  <2>5. g[<<k, n>>] = F[k][n]
    BY <1>10, <2>4
  <2> QED  BY <2>3, <2>4, <2>5
<1>15. g \in Injection(U, W)
  BY <1>11, <1>12, <1>13 DEF Injection, IsInjective
<1>16. g \in Surjection(U, W)
  BY <1>12, <1>14 DEF Surjection
<1>17. Cardinality(U) = Cardinality(W)
  BY <1>5, <1>15, <1>16, FS_Injection
<1>18. Cardinality(W) \in Nat
  BY <1>5, FS_CardinalityType
<1> QED  BY <1>6, <1>17, <1>18 DEF W
(***************************************************************************)
(* The digitizer.                                                          *)
(***************************************************************************)
\* Sorting leaves the tubes of the hits.
LEMMA HitsAreOrdered ==
  ASSUME NEW c \in Hits
  PROVE  LET w == SortHitTimes(c)
         IN  w \in Seq(Hit) /\ OneHitPerTube(w) /\ \A h \in DOMAIN w : Sorted(w[h].time)
<1> DEFINE w == SortHitTimes(c)
           D == DOMAIN c
           l == Len(c)
<1>1. c \in Seq(Hit) /\ OneHitPerTube(c)
  BY WCDigitizerAssumption DEF Hit
<1>2. D = 1 .. l /\ l \in Nat /\ \A h \in D : c[h] \in Hit
  BY <1>1
<1>3. DOMAIN w = D
  BY DEF SortHitTimes
<1>4. ASSUME NEW h \in D
      PROVE  /\ w[h] \in Hit /\ w[h].tubeID = c[h].tubeID
             /\ Sorted(w[h].time) /\ w[h].time # <<>>
  <2> DEFINE hit == c[h]
             s == hit.time
  <2>1. w[h] = [hit EXCEPT !.time = Increasing(s)]
    BY DEF SortHitTimes
  <2>2. hit \in Hit /\ s \in Seq(Nat) /\ s # <<>>
    BY <1>1, <1>2 DEF Hit, OneHitPerTube
  <2> HIDE DEF s
  <2>3. /\ Increasing(s) \in Seq(Nat) /\ Sorted(Increasing(s))
        /\ Len(Increasing(s)) = Len(s)
    BY <2>2, TimesAreSorted
  <2>4. Increasing(s) # <<>>
    BY <2>2, <2>3
  <2> HIDE DEF w, hit
  <2>5. /\ w[h] \in Hit /\ w[h].tubeID = hit.tubeID
        /\ w[h].time = Increasing(s)
    BY <2>1, <2>2, <2>3 DEF Hit
  <2> QED  BY <2>3, <2>4, <2>5 DEF hit
<1> HIDE DEF w, D, l
<1>5. w \in [1 .. l -> Hit]
  <2>1. w = [h \in DOMAIN w |-> w[h]]
    BY DEF w, SortHitTimes
  <2> QED  BY <1>2, <1>3, <1>4, <2>1
<1>6. w \in Seq(Hit)
  BY <1>2, <1>5
<1>7. OneHitPerTube(w)
  BY <1>1, <1>3, <1>4 DEF OneHitPerTube, D
<1> QED  BY <1>3, <1>4, <1>6, <1>7 DEF w

\* The windows are of the hits alone.
LEMMA WindowsKept ==
  ASSUME hits' = hits, NEW n
  PROVE  TriggerBins(n)' = TriggerBins(n) /\ OffsetFor(n)' = OffsetFor(n)
<1>1. \A b : InWindow(b)' = InWindow(b)
  BY DEF InWindow
<1>2. TriggerBins(n)' = TriggerBins(n)
  BY <1>1 DEF TriggerBins
<1> QED  BY <1>2 DEF OffsetFor

\* The trigger loop's condition is that of the windows.
LEMMA TriggersIf ==
  ASSUME TypeOK, Counted, phase = "trigger", j <= TimeHistoMaxBin
  PROVE  acc(j) > GlobalThreshold <=> j \in TriggerBins(GlobalThreshold + 1)
<1>1. hits \in Seq(Hit) /\ j \in 1 .. TimeHistoMaxBin
  <2>1. j \in 1 .. TimeHistoMaxBin + 1 /\ TimeHistoMaxBin \in Nat /\ hits \in Seq(Hit)
    BY WCDigitizerAssumption DEF TypeOK, Hit
  <2> QED  BY <2>1
<1>2. \A n \in 0 .. TimeHistoMaxBin - 1 : triggerhisto[n] = Cardinality(Entries(hits, n))
  BY DEF Counted
<1>3. acc(j) = Cardinality(InWindow(j)) /\ acc(j) \in Nat
  BY <1>1, <1>2, CountIsWindow
<1>4. GlobalThreshold \in Nat
  BY WCDigitizerAssumption
<1>5. acc(j) > GlobalThreshold <=> Cardinality(InWindow(j)) >= GlobalThreshold + 1
  BY <1>3, <1>4
<1> QED  BY <1>1, <1>5 DEF TriggerBins

\* The first bin that triggers.
LEMMA FirstBin ==
  ASSUME NEW n, NEW b \in 1 .. TimeHistoMaxBin, b \in TriggerBins(n),
         \A c \in 1 .. b - 1 : c \notin TriggerBins(n)
  PROVE  OffsetFor(n) = offset - TimeHistoStep * b
<1> DEFINE B == TriggerBins(n)
           first == CHOOSE m \in B : \A c \in B : m <= c
<1>1. TimeHistoMaxBin \in Nat /\ b \in Int
  BY WCDigitizerAssumption
<1>2. \A c \in B : c \in 1 .. TimeHistoMaxBin /\ c \in Int
  BY <1>1 DEF TriggerBins
<1> HIDE DEF B
<1>3. \A c \in B : b <= c
  <2> SUFFICES ASSUME NEW c \in B, c < b PROVE FALSE
    BY <1>1, <1>2
  <2>1. c \in 1 .. b - 1
    BY <1>1, <1>2
  <2> QED  BY <2>1 DEF B
<1>4. \A m \in B : (\A c \in B : m <= c) => m = b
  <2>1. b \in B
    BY DEF B
  <2> QED  BY <1>1, <1>2, <1>3, <2>1
<1>5. first = b
  <2>1. b \in B
    BY DEF B
  <2> QED  BY <1>3, <1>4, <2>1
<1> HIDE DEF first
<1>6. B # {}
  BY DEF B
<1>7. OffsetFor(n) = offset - TimeHistoStep * first
  BY <1>6 DEF OffsetFor, first, B
<1> QED  BY <1>5, <1>7

\* A new event is sorted, and its histogram forgets the last one.
LEMMA FillTriggerHistoInv == DigitizerInv /\ FillTriggerHisto => DigitizerInv'
<1> SUFFICES ASSUME TypeOK, FillTriggerHisto PROVE DigitizerInv'
  BY DEF DigitizerInv
<1>1. PICK c \in Hits : hits' = SortHitTimes(c)
  BY DEF FillTriggerHisto
<1>2. /\ hits' \in Seq(Hit) /\ OneHitPerTube(hits')
      /\ \A h \in DOMAIN hits' : Sorted(hits'[h].time)
  BY <1>1, HitsAreOrdered
<1>3. triggerhisto' = [b \in 0 .. TimeHistoMaxBin - 1 |-> Cardinality(Entries(hits', b))]
  BY DEF FillTriggerHisto
<1>4. /\ event' = event + 1 /\ RealOffset' = offset /\ j' = 1 /\ i' = 1
      /\ digits' = <<>> /\ phase' = "trigger"
  BY DEF FillTriggerHisto
<1>5. \A b \in 0 .. TimeHistoMaxBin - 1 : Cardinality(Entries(hits', b)) \in Nat
  <2>1. \A b : IsFiniteSet(Entries(hits', b))
    BY <1>2, EntriesAre
  <2> QED  BY <2>1, FS_CardinalityType
<1>6. TypeOK'
  <2>1. offset \in Nat /\ TimeHistoMaxBin \in Nat
    BY WCDigitizerAssumption
  <2>2. hits' \in Seq([tubeID : Nat, time : Seq(Nat)])
    BY <1>2 DEF Hit
  <2>3. triggerhisto' \in [0 .. TimeHistoMaxBin - 1 -> Nat]
    BY <1>3, <1>5
  <2>4. event \in Nat
    BY DEF TypeOK
  <2> QED  BY <1>4, <2>1, <2>2, <2>3, <2>4 DEF TypeOK
<1>7. Ordered'
  BY <1>2 DEF Ordered
<1>8. Counted'
  BY <1>3 DEF Counted
<1>9. Searched' /\ TriggerIsFirstWindow' /\ Digitized'
  BY <1>4 DEF Searched, TriggerIsFirstWindow, Digitized
<1> QED  BY <1>6, <1>7, <1>8, <1>9 DEF DigitizerInv

\* The loop stops at the first bin that triggers.
LEMMA FindTriggerInv == DigitizerInv /\ FindTrigger => DigitizerInv'
<1> DEFINE n == GlobalThreshold + 1
<1> SUFFICES ASSUME DigitizerInv, FindTrigger PROVE DigitizerInv'
  OBVIOUS
<1>1. TypeOK /\ Ordered /\ Counted /\ Searched /\ Digitized
  BY DEF DigitizerInv
<1>2. /\ phase = "trigger" /\ j <= TimeHistoMaxBin
      /\ UNCHANGED <<event, hits, triggerhisto, i, digits>>
  BY DEF FindTrigger
<1>3. RealOffset = offset /\ \A b \in 1 .. j - 1 : b \notin TriggerBins(n)
  BY <1>1, <1>2 DEF Searched
<1>4. acc(j) > GlobalThreshold <=> j \in TriggerBins(n)
  BY <1>1, <1>2, TriggersIf
<1>5. /\ TimeHistoMaxBin \in Nat /\ offset \in Nat /\ TimeHistoStep \in Nat
      /\ j \in 1 .. TimeHistoMaxBin
  <2>1. j \in 1 .. TimeHistoMaxBin + 1 /\ {TimeHistoMaxBin, offset, TimeHistoStep} \subseteq Nat
    BY <1>1, WCDigitizerAssumption DEF TypeOK
  <2> QED  BY <1>2, <2>1
<1>6. TriggerBins(n)' = TriggerBins(n) /\ OffsetFor(n)' = OffsetFor(n)
  BY <1>2, WindowsKept
<1>7. Ordered' /\ digits = <<>> /\ digits' = <<>> /\ 1 <= i'
  BY <1>1, <1>2 DEF Ordered, Digitized
<1> HIDE DEF n
<1>8. CASE acc(j) > GlobalThreshold
  <2>1. RealOffset' = offset - TimeHistoStep * j /\ phase' = "digitize" /\ j' = j
    BY <1>3, <1>8 DEF FindTrigger
  <2>2. OffsetFor(n) = offset - TimeHistoStep * j
    BY <1>3, <1>4, <1>5, <1>8, FirstBin
  <2>3. TriggerIsFirstWindow'
    BY <1>6, <2>1, <2>2 DEF TriggerIsFirstWindow, n
  <2>4. TypeOK'
    <3>1. RealOffset' \in Int
      BY <1>5, <2>1
    <3> QED  BY <1>1, <1>2, <2>1, <3>1 DEF TypeOK
  <2>5. Counted' /\ Searched' /\ Digitized'
    BY <1>7, <2>1 DEF Counted, Searched, Digitized
  <2> QED  BY <1>7, <2>3, <2>4, <2>5 DEF DigitizerInv
<1>9. CASE ~(acc(j) > GlobalThreshold)
  <2>1. RealOffset' = RealOffset /\ phase' = "trigger" /\ j' = j + 1
    BY <1>2, <1>9 DEF FindTrigger
  <2>2. \A b \in 1 .. j' - 1 : b \notin TriggerBins(n)
    BY <1>3, <1>4, <1>5, <1>9, <2>1
  <2>3. Searched'
    <3>1. \A b \in 1 .. j' - 1 : b \notin TriggerBins(n)'
      BY <1>6, <2>2
    <3> QED  BY <1>3, <2>1, <3>1 DEF Searched, n
  <2>4. TypeOK'
    <3>1. j' \in 1 .. TimeHistoMaxBin + 1
      BY <1>5, <2>1
    <3> QED  BY <1>1, <1>2, <2>1, <3>1 DEF TypeOK
  <2>5. Counted'
    BY <1>1, <1>2 DEF Counted
  <2>6. TriggerIsFirstWindow' /\ Digitized'
    BY <1>7, <2>1 DEF TriggerIsFirstWindow, Digitized
  <2> QED  BY <1>7, <2>3, <2>4, <2>5, <2>6 DEF DigitizerInv
<1> QED  BY <1>8, <1>9

\* Without a window the offset stays.
LEMMA NoTriggerInv == DigitizerInv /\ NoTrigger => DigitizerInv'
<1> DEFINE n == GlobalThreshold + 1
<1> SUFFICES ASSUME DigitizerInv, NoTrigger PROVE DigitizerInv'
  OBVIOUS
<1>1. TypeOK /\ Ordered /\ Searched /\ Digitized
  BY DEF DigitizerInv
<1>2. /\ phase = "trigger" /\ j > TimeHistoMaxBin /\ phase' = "digitize"
      /\ UNCHANGED <<event, hits, triggerhisto, RealOffset, j, i, digits>>
  BY DEF NoTrigger
<1>3. TriggerBins(n) = {}
  <2>1. \A b \in 1 .. TimeHistoMaxBin : b \notin TriggerBins(n)
    <3>1. j \in 1 .. TimeHistoMaxBin + 1 /\ TimeHistoMaxBin \in Nat
      BY <1>1, WCDigitizerAssumption DEF TypeOK
    <3>2. \A b \in 1 .. j - 1 : b \notin TriggerBins(n)
      BY <1>1, <1>2 DEF Searched
    <3>3. \A b \in 1 .. TimeHistoMaxBin : b \in 1 .. j - 1
      BY <1>2, <3>1
    <3> QED  BY <3>2, <3>3
  <2>2. TriggerBins(n) \subseteq 1 .. TimeHistoMaxBin
    BY DEF TriggerBins
  <2> QED  BY <2>1, <2>2
<1>4. OffsetFor(n)' = offset
  <2>1. OffsetFor(n) = offset
    BY <1>3 DEF OffsetFor
  <2> QED  BY <1>2, <2>1, WindowsKept
<1>5. RealOffset' = offset /\ digits = <<>>
  BY <1>1, <1>2 DEF Searched, Digitized
<1>6. TypeOK'
  BY <1>1, <1>2 DEF TypeOK
<1>7. TriggerIsFirstWindow'
  BY <1>4, <1>5 DEF TriggerIsFirstWindow
<1>8. Ordered' /\ Counted' /\ Searched' /\ Digitized'
  BY <1>1, <1>2, <1>5 DEF Ordered, Counted, Searched, Digitized
<1> QED  BY <1>6, <1>7, <1>8 DEF DigitizerInv
\* The photo-electrons in the gate can be counted.
LEMMA PeInGateIs ==
  ASSUME NEW hit \in Hit
  PROVE  PeInGate(hit) \in Nat
<1> DEFINE s == hit.time
           D == DOMAIN s
           l == Len(s)
           mintime == IF bound1 < bound2(hit) THEN bound1 ELSE bound2(hit)
           G == {k \in D : s[k] <= mintime}
<1>1. D = 1 .. l /\ l \in Nat
  BY DEF Hit
<1>2. PeInGate(hit) = Cardinality(G)
  BY DEF PeInGate
<1>3. G \in SUBSET D
  OBVIOUS
<1> HIDE DEF D, l, G
<1>4. IsFiniteSet(D)
  BY <1>1, FS_Interval
<1>5. IsFiniteSet(G)
  BY <1>3, <1>4, FS_Subset
<1> QED  BY <1>2, <1>5, FS_CardinalityType

\* The hit makes no second digit of a tube: the digits so far are of hits that the loop has
\* passed.
LEMMA DigitizeHitInv == DigitizerInv /\ DigitizeHit => DigitizerInv'
<1> SUFFICES ASSUME DigitizerInv, DigitizeHit PROVE DigitizerInv'
  OBVIOUS
<1> DEFINE hit == hits[i]
           D == digits'
<1>1. TypeOK /\ Ordered /\ Digitized /\ TriggerIsFirstWindow
  BY DEF DigitizerInv
<1>2. /\ phase = "digitize" /\ i <= Len(hits) /\ i' = i + 1
      /\ UNCHANGED <<event, phase, hits, triggerhisto, RealOffset, j>>
  BY DEF DigitizeHit
<1>3. /\ hits \in Seq(Hit) /\ i \in Nat /\ 1 <= i /\ digits \in Seq(Digit)
      /\ RealOffset \in Int /\ Noise \subseteq Int
  BY <1>1, WCDigitizerAssumption DEF TypeOK, Hit, Digit, Digitized
<1>4. /\ \A k \in DOMAIN digits :
           \E h \in DOMAIN hits : h < i /\ IsDigitOf(digits[k], hits[h], RealOffset)
      /\ \A k, l \in DOMAIN digits : digits[k].tubeID = digits[l].tubeID => k = l
  BY <1>1 DEF Digitized
<1>5. \A h \in DOMAIN hits : h \in Nat
  BY <1>3
<1>6. i \in DOMAIN hits /\ hit \in Hit
  <2>1. i \in 1 .. Len(hits) /\ DOMAIN hits = 1 .. Len(hits)
    BY <1>2, <1>3
  <2> QED  BY <1>3, <2>1
<1>7. \A g, h \in DOMAIN hits : hits[g].tubeID = hits[h].tubeID => g = h
  BY <1>1 DEF Ordered, OneHitPerTube
<1>8. hit.time[1] \in Nat /\ hit.tubeID \in Nat
  <2>1. hit.time \in Seq(Nat) /\ hit.time # <<>>
    BY <1>1, <1>6 DEF Ordered, OneHitPerTube, Hit
  <2>2. hit.time[1] \in Nat
    <3> DEFINE s == hit.time
    <3> HIDE DEF s
    <3>1. s \in Seq(Nat) /\ s # <<>>
      BY <2>1 DEF s
    <3>2. 1 \in DOMAIN s /\ s[1] \in Nat
      BY <3>1
    <3> QED  BY <3>2 DEF s
  <2> QED  BY <1>6, <2>2 DEF Hit
<1>9. PeInGate(hit) \in Nat
  BY <1>6, PeInGateIs
<1>10. \A h \in DOMAIN hits : h < i => h < i + 1
  BY <1>3, <1>5
<1>11. /\ D \in Seq(Digit)
       /\ \A k \in DOMAIN D :
            \E h \in DOMAIN hits : h < i + 1 /\ IsDigitOf(D[k], hits[h], RealOffset)
       /\ \A k, l \in DOMAIN D : D[k].tubeID = D[l].tubeID => k = l
  <2>1. PICK pe \in SmearedPe(PeInGate(hit)), error \in Noise :
          LET digihittime == RealOffset + hit.time[1] + error
          IN digits' = IF Accepted(pe, digihittime)
                       THEN Append(digits, [tubeID |-> hit.tubeID,
                              time |-> digihittime, totalPe |-> PeInGate(hit)])
                       ELSE digits
    BY DEF DigitizeHit
  <2> DEFINE t == RealOffset + hit.time[1] + error
             d == [tubeID |-> hit.tubeID, time |-> t, totalPe |-> PeInGate(hit)]
             l == Len(digits)
  <2>2. CASE Accepted(pe, t)
    <3>1. D = Append(digits, d)
      BY <2>1, <2>2
    <3>2. d.tubeID = hit.tubeID /\ d.time = t
      OBVIOUS
    <3>3. t \in Nat \ {0} /\ t - RealOffset - hit.time[1] = error
      <4> DEFINE first == hit.time[1]
      <4>1. first \in Nat /\ RealOffset \in Int /\ error \in Int /\ t > 0
        BY <1>3, <1>8, <2>2 DEF Accepted
      <4>2. t = RealOffset + first + error
        OBVIOUS
      <4> HIDE DEF first, t
      <4>3. t \in Nat \ {0} /\ t - RealOffset - first = error
        BY <4>1, <4>2
      <4> QED  BY <4>3 DEF first
    <3>4. d \in Digit
      BY <1>8, <1>9, <3>3 DEF Digit
    <3>5. IsDigitOf(d, hit, RealOffset)
      BY <3>2, <3>3 DEF IsDigitOf
    <3> HIDE DEF d, t, hit, D
    <3>6. /\ D \in Seq(Digit) /\ l \in Nat /\ DOMAIN D = 1 .. l + 1 /\ DOMAIN digits = 1 .. l
          /\ D[l + 1] = d /\ \A k \in 1 .. l : D[k] = digits[k]
      BY <1>3, <3>1, <3>4, AppendProperties
    <3> HIDE DEF l
    <3>7. \A k \in DOMAIN D : k = l + 1 \/ k \in DOMAIN digits
      BY <3>6
    <3>8. ASSUME NEW k \in DOMAIN D
          PROVE  \E h \in DOMAIN hits : h < i + 1 /\ IsDigitOf(D[k], hits[h], RealOffset)
      <4>1. CASE k = l + 1
        <5>1. i < i + 1
          BY <1>3
        <5> QED  BY <1>6, <3>5, <3>6, <4>1, <5>1 DEF hit
      <4>2. CASE k \in DOMAIN digits
        <5>1. D[k] = digits[k]
          BY <3>6, <4>2
        <5> QED  BY <1>4, <1>10, <4>2, <5>1
      <4> QED  BY <3>7, <4>1, <4>2
    <3>9. ASSUME NEW k \in DOMAIN digits PROVE digits[k].tubeID # d.tubeID
      <4>1. PICK h \in DOMAIN hits : h < i /\ digits[k].tubeID = hits[h].tubeID
        BY <1>4 DEF IsDigitOf
      <4>2. h # i
        BY <1>3, <1>5, <4>1
      <4>3. hits[h].tubeID # hits[i].tubeID
        BY <1>6, <1>7, <4>2
      <4> QED  BY <3>2, <4>1, <4>3 DEF hit
    <3>10. ASSUME NEW k \in DOMAIN D, NEW m \in DOMAIN D, D[k].tubeID = D[m].tubeID
           PROVE  k = m
      <4>1. CASE k \in DOMAIN digits /\ m \in DOMAIN digits
        BY <1>4, <3>6, <3>10, <4>1
      <4>2. CASE k \in DOMAIN digits /\ m = l + 1
        BY <3>6, <3>9, <3>10, <4>2
      <4>3. CASE k = l + 1 /\ m \in DOMAIN digits
        BY <3>6, <3>9, <3>10, <4>3
      <4> QED  BY <3>7, <4>1, <4>2, <4>3
    <3> QED  BY <3>6, <3>8, <3>10
  <2>3. CASE ~Accepted(pe, t)
    <3>1. D = digits
      BY <2>1, <2>3
    <3> QED  BY <1>3, <1>4, <1>10, <3>1
  <2> QED  BY <2>2, <2>3
<1> HIDE DEF D
<1>12. TypeOK'
  <2>1. D \in Seq([tubeID : Nat, time : Nat \ {0}, totalPe : Nat])
    BY <1>11 DEF Digit
  <2> QED  BY <1>1, <1>2, <1>3, <2>1 DEF TypeOK, D
<1>13. Digitized'
  <2>1. phase' \notin {"idle", "trigger"} /\ 1 <= i'
    BY <1>2, <1>3
  <2> QED  BY <1>2, <1>11, <2>1 DEF Digitized, D
<1>14. TriggerIsFirstWindow'
  BY <1>1, <1>2, WindowsKept DEF TriggerIsFirstWindow
<1>15. Ordered' /\ Counted' /\ Searched'
  BY <1>1, <1>2 DEF Ordered, Counted, Searched
<1> QED  BY <1>12, <1>13, <1>14, <1>15 DEF DigitizerInv

\* The digits are handed over as they are.
LEMMA StoreDigiCollectionInv == DigitizerInv /\ StoreDigiCollection => DigitizerInv'
<1> SUFFICES ASSUME DigitizerInv, StoreDigiCollection PROVE DigitizerInv'
  OBVIOUS
<1>1. TypeOK /\ Ordered /\ Digitized /\ TriggerIsFirstWindow
  BY DEF DigitizerInv
<1>2. /\ phase = "digitize" /\ phase' = "stored"
      /\ UNCHANGED <<event, hits, triggerhisto, RealOffset, j, i, digits>>
  BY DEF StoreDigiCollection
<1>3. TypeOK'
  BY <1>1, <1>2 DEF TypeOK
<1>4. TriggerIsFirstWindow'
  BY <1>1, <1>2, WindowsKept DEF TriggerIsFirstWindow
<1>5. Ordered' /\ Counted' /\ Searched' /\ Digitized'
  BY <1>1, <1>2 DEF Ordered, Counted, Searched, Digitized
<1> QED  BY <1>3, <1>4, <1>5 DEF DigitizerInv

\* The hits and the digits go together.
LEMMA DeleteEventInv == DigitizerInv /\ DeleteEvent => DigitizerInv'
<1> SUFFICES ASSUME TypeOK, DeleteEvent PROVE DigitizerInv'
  BY DEF DigitizerInv
<1>1. /\ phase' = "idle" /\ hits' = <<>> /\ digits' = <<>> /\ j' = 1 /\ i' = 1
      /\ UNCHANGED <<event, triggerhisto, RealOffset>>
  BY DEF DeleteEvent
<1>2. TypeOK'
  <2>1. TimeHistoMaxBin \in Nat
    BY WCDigitizerAssumption
  <2>2. j' \in 1 .. TimeHistoMaxBin + 1
    BY <1>1, <2>1
  <2>3. hits' \in Seq([tubeID : Nat, time : Seq(Nat)])
        /\ digits' \in Seq([tubeID : Nat, time : Nat \ {0}, totalPe : Nat])
    BY <1>1
  <2> QED  BY <1>1, <2>2, <2>3 DEF TypeOK
<1>3. Ordered'
  BY <1>1 DEF Ordered, OneHitPerTube
<1>4. Counted' /\ Searched' /\ TriggerIsFirstWindow' /\ Digitized'
  BY <1>1 DEF Counted, Searched, TriggerIsFirstWindow, Digitized
<1> QED  BY <1>2, <1>3, <1>4 DEF DigitizerInv

\* At the start there is no event.
LEMMA DigitizerInit == Init => DigitizerInv
<1> SUFFICES ASSUME Init PROVE DigitizerInv
  OBVIOUS
<1>1. TypeOK
  <2>1. TimeHistoMaxBin \in Nat
    BY WCDigitizerAssumption
  <2>2. j \in 1 .. TimeHistoMaxBin + 1
    BY <2>1 DEF Init
  <2>3. hits \in Seq([tubeID : Nat, time : Seq(Nat)])
        /\ digits \in Seq([tubeID : Nat, time : Nat \ {0}, totalPe : Nat])
    BY DEF Init
  <2> QED  BY <2>2, <2>3 DEF Init, TypeOK
<1>2. Ordered
  BY DEF Init, Ordered, OneHitPerTube
<1>3. Counted /\ Searched /\ TriggerIsFirstWindow /\ Digitized
  BY DEF Init, Counted, Searched, TriggerIsFirstWindow, Digitized
<1> QED  BY <1>1, <1>2, <1>3 DEF DigitizerInv

\* Nothing of the digitizer changes, but for the number of the event.
LEMMA DigitizerStutters ==
  ASSUME DigitizerInv, event' \in Nat,
         UNCHANGED <<phase, hits, triggerhisto, RealOffset, j, i, digits>>
  PROVE  DigitizerInv'
<1>1. TypeOK /\ Ordered /\ Counted /\ Searched /\ TriggerIsFirstWindow /\ Digitized
  BY DEF DigitizerInv
<1>2. /\ event' \in Nat
      /\ UNCHANGED <<phase, hits, triggerhisto, RealOffset, j, i, digits>>
  OBVIOUS
<1>3. TypeOK'
  BY <1>1, <1>2 DEF TypeOK
<1>4. \A n : TriggerBins(n)' = TriggerBins(n) /\ OffsetFor(n)' = OffsetFor(n)
  BY <1>2, WindowsKept
<1>5. Searched' /\ TriggerIsFirstWindow'
  BY <1>1, <1>2, <1>4 DEF Searched, TriggerIsFirstWindow
<1>6. Ordered' /\ Counted' /\ Digitized'
  BY <1>1, <1>2 DEF Ordered, Counted, Digitized
<1> QED  BY <1>3, <1>5, <1>6 DEF DigitizerInv
(***************************************************************************)
(* The rows.                                                               *)
(***************************************************************************)
HitRowType   == [tubeId : Nat, totalPE : Nat, pe : Seq(Nat)]
DigitRowType == [tubeId : Nat, time : Nat \ {0}]

\* The times written of a hit are its first.
LEMMA ShownIs ==
  ASSUME NEW hit \in Hit
  PROVE  LET s == hit.time
             w == Shown(hit)
             n == IF Len(s) < MaxTimes THEN Len(s) ELSE MaxTimes
         IN  /\ s \in Seq(Nat) /\ Len(s) \in Nat /\ DOMAIN s = 1 .. Len(s)
             /\ n \in 0 .. Len(s) /\ w \in Seq(Nat) /\ Len(w) = n /\ DOMAIN w = 1 .. n
             /\ \A k \in 1 .. n : w[k] = s[k]
<1> DEFINE s == hit.time
           n == IF Len(s) < MaxTimes THEN Len(s) ELSE MaxTimes
<1>1. s \in Seq(Nat)
  BY DEF Hit
<1>2. Shown(hit) = SubSeq(s, 1, n)
  BY DEF Shown
<1> HIDE DEF s
<1>3. Len(s) \in Nat /\ DOMAIN s = 1 .. Len(s) /\ MaxTimes \in Nat
  BY <1>1, EventOutputAssumption
<1>4. n \in 0 .. Len(s)
  <2> DEFINE l == Len(s)
  <2> HIDE DEF l
  <2>1. l \in Nat /\ n = IF l < MaxTimes THEN l ELSE MaxTimes
    BY <1>3 DEF l
  <2>2. n \in 0 .. l
    BY <1>3, <2>1
  <2> QED  BY <2>2 DEF l
<1> DEFINE w == SubSeq(s, 1, n)
<1> HIDE DEF n
<1>5. /\ w \in Seq(Nat) /\ Len(w) = n /\ DOMAIN w = 1 .. n
      /\ \A k \in 1 .. n : w[k] = s[k]
  <2>1. w = [k \in 1 .. n |-> s[k]]
    <3>1. \A k \in 1 .. n : s[1 + k - 1] = s[k]
      BY <1>3, <1>4
    <3>2. n \in Int
      BY <1>3, <1>4
    <3> QED  BY <1>1, <1>3, <1>4, <3>1, <3>2
  <2>2. \A k \in 1 .. n : s[k] \in Nat
    BY <1>1, <1>3, <1>4
  <2>3. n \in Nat
    BY <1>3, <1>4
  <2> HIDE DEF w
  <2> QED  BY <2>1, <2>2, <2>3
<1> HIDE DEF w
<1>6. Shown(hit) = w
  BY <1>2 DEF w
<1>7. /\ s \in Seq(Nat) /\ Len(s) \in Nat /\ DOMAIN s = 1 .. Len(s)
      /\ n \in 0 .. Len(s) /\ Shown(hit) \in Seq(Nat) /\ Len(Shown(hit)) = n
      /\ DOMAIN Shown(hit) = 1 .. n /\ \A k \in 1 .. n : Shown(hit)[k] = s[k]
  BY <1>1, <1>3, <1>4, <1>5, <1>6
<1> QED  BY <1>7 DEF n, s

\* An event that ends early leaves nothing of the last one's rows.
LEMMA UnknownTargetInv == OutputInv /\ UnknownTarget => OutputInv'
<1> SUFFICES ASSUME OutputInv, UnknownTarget PROVE OutputInv'
  OBVIOUS
<1>1. DigitizerInv /\ OutputTypeOK /\ Written
  BY DEF OutputInv
<1>2. /\ phase = "idle" /\ event' = event + 1
      /\ hit_tree' = <<>> /\ digit_tree' = <<>>
      /\ UNCHANGED <<phase, hits, triggerhisto, RealOffset, j, i, digits>>
      /\ UNCHANGED <<hit_pe_vec, nHits, nDigits, entry>>
  BY DEF UnknownTarget, ResetTrees
<1>3. DigitizerInv'
  <2>1. event' \in Nat
    BY <1>1, <1>2 DEF DigitizerInv, TypeOK
  <2> QED  BY <1>1, <1>2, <2>1, DigitizerStutters
<1>4. OutputTypeOK'
  <2>1. TypeOK'
    BY <1>3 DEF DigitizerInv
  <2>2. /\ hit_tree' \in Seq([tubeId : Nat, totalPE : Nat, pe : Seq(Nat)])
        /\ digit_tree' \in Seq([tubeId : Nat, time : Nat \ {0}])
    BY <1>2
  <2> QED  BY <1>1, <1>2, <2>1, <2>2 DEF OutputTypeOK
<1>5. Written'
  BY <1>1, <1>2 DEF Written
<1> QED  BY <1>3, <1>4, <1>5 DEF OutputInv

\* The sub-trees are empty when the event is digitized.
LEMMA BeginDigitizeInv == OutputInv /\ BeginDigitize => OutputInv'
<1> SUFFICES ASSUME OutputInv, BeginDigitize PROVE OutputInv'
  OBVIOUS
<1>1. DigitizerInv /\ OutputTypeOK /\ Written
  BY DEF OutputInv
<1>2. /\ FillTriggerHisto /\ phase = "idle" /\ phase' = "trigger" /\ digits' = <<>>
      /\ hit_tree' = <<>> /\ digit_tree' = <<>> /\ nHits' = 0 /\ nDigits' = 0
      /\ UNCHANGED <<hit_pe_vec, entry>>
  BY DEF BeginDigitize, FillTriggerHisto, ResetTrees
<1>3. DigitizerInv'
  BY <1>1, <1>2, FillTriggerHistoInv
<1>4. OutputTypeOK'
  <2>1. TypeOK'
    BY <1>3 DEF DigitizerInv
  <2>2. /\ hit_tree' \in Seq([tubeId : Nat, totalPE : Nat, pe : Seq(Nat)])
        /\ digit_tree' \in Seq([tubeId : Nat, time : Nat \ {0}])
    BY <1>2
  <2>3. nHits' \in 0 .. Len(hits') /\ nDigits' \in 0 .. Len(digits')
    <3>1. Len(hits') \in Nat /\ Len(digits') \in Nat
      BY <2>1 DEF TypeOK
    <3> QED  BY <1>2, <3>1
  <2> QED  BY <1>1, <1>2, <2>1, <2>2, <2>3 DEF OutputTypeOK
<1>5. Written'
  <2>1. Rows'
    BY <1>2 DEF Rows
  <2>2. ~entry'.filled
    BY <1>1, <1>2 DEF Written
  <2> QED  BY <1>2, <2>1, <2>2 DEF Written
<1> QED  BY <1>3, <1>4, <1>5 DEF OutputInv

\* The digitizer writes no row.
LEMMA DigitizeInv == OutputInv /\ Digitize => OutputInv'
<1> SUFFICES ASSUME OutputInv, Digitize PROVE OutputInv'
  OBVIOUS
<1>1. DigitizerInv /\ OutputTypeOK /\ Written
  BY DEF OutputInv
<1>2. /\ FindTrigger \/ NoTrigger \/ DigitizeHit \/ StoreDigiCollection
      /\ UNCHANGED <<hit_tree, digit_tree, hit_pe_vec, nHits, nDigits, entry>>
  BY DEF Digitize, outVars
<1>3. DigitizerInv'
  BY <1>1, <1>2, FindTriggerInv, NoTriggerInv, DigitizeHitInv, StoreDigiCollectionInv
<1>4. phase \in {"trigger", "digitize"}
  BY <1>2 DEF FindTrigger, NoTrigger, DigitizeHit, StoreDigiCollection
<1>5. nHits = 0 /\ nDigits = 0 /\ ~entry.filled /\ Len(hit_tree) = 0 /\ Len(digit_tree) = 0
  BY <1>1, <1>4 DEF Written, Rows
<1>6. OutputTypeOK'
  <2>1. TypeOK'
    BY <1>3 DEF DigitizerInv
  <2>2. nHits' \in 0 .. Len(hits') /\ nDigits' \in 0 .. Len(digits')
    <3>1. Len(hits') \in Nat /\ Len(digits') \in Nat
      BY <2>1 DEF TypeOK
    <3> QED  BY <1>2, <1>5, <3>1
  <2> QED  BY <1>1, <1>2, <2>1, <2>2 DEF OutputTypeOK
<1>7. Written'
  <2>1. Rows'
    BY <1>2, <1>5 DEF Rows
  <2> QED  BY <1>2, <1>5, <2>1 DEF Written
<1> QED  BY <1>3, <1>6, <1>7 DEF OutputInv

\* The row of the next hit is written after those before it.
LEMMA fill_hitInv == OutputInv /\ fill_hit => OutputInv'
<1> SUFFICES ASSUME OutputInv, fill_hit PROVE OutputInv'
  OBVIOUS
<1> DEFINE n == nHits + 1
           hit == hits[n]
           row == HitRow(hit, Shown(hit))
<1>1. DigitizerInv /\ OutputTypeOK /\ Written
  BY DEF OutputInv
<1>2. /\ phase = "stored" /\ nHits < Len(hits)
      /\ hit_pe_vec' = Shown(hit) /\ hit_tree' = Append(hit_tree, row) /\ nHits' = n
      /\ UNCHANGED <<vars, digit_tree, nDigits, entry>>
  BY DEF fill_hit, Shown
<1>3. UNCHANGED <<event, phase, hits, triggerhisto, RealOffset, j, i, digits>>
  BY <1>2 DEF vars
<1>4. /\ hits \in Seq(Hit) /\ nHits \in Nat /\ Len(hits) \in Nat
      /\ hit_tree \in Seq(HitRowType) /\ Len(hit_tree) = nHits
      /\ \A r \in 1 .. nHits : hit_tree[r] = HitRow(hits[r], Shown(hits[r]))
  <2>1. hits \in Seq(Hit) /\ nHits \in 0 .. Len(hits) /\ hit_tree \in Seq(HitRowType)
    BY <1>1 DEF OutputTypeOK, TypeOK, Hit, HitRowType
  <2>2. Rows
    BY <1>1, <1>2 DEF Written
  <2> QED  BY <2>1, <2>2 DEF Rows
<1>5. hit \in Hit /\ n \in 1 .. Len(hits)
  <2>1. n \in 1 .. Len(hits) /\ DOMAIN hits = 1 .. Len(hits)
    BY <1>2, <1>4
  <2> QED  BY <1>4, <2>1
<1>6. row \in HitRowType /\ Shown(hit) \in Seq(Nat)
  <2>1. Shown(hit) \in Seq(Nat) /\ Len(hit.time) \in Nat
    BY <1>5, ShownIs
  <2>2. hit.tubeID \in Nat
    BY <1>5 DEF Hit
  <2> QED  BY <2>1, <2>2 DEF HitRow, HitRowType
<1>7. DigitizerInv'
  <2>1. event' \in Nat
    BY <1>1, <1>3 DEF DigitizerInv, TypeOK
  <2> QED  BY <1>1, <1>3, <2>1, DigitizerStutters
<1> HIDE DEF row, hit
<1>8. /\ hit_tree' \in Seq(HitRowType) /\ Len(hit_tree') = n /\ hit_tree'[n] = row
      /\ \A r \in 1 .. nHits : hit_tree'[r] = hit_tree[r]
  BY <1>2, <1>4, <1>6, AppendProperties
<1>9. OutputTypeOK'
  <2>1. TypeOK'
    BY <1>7 DEF DigitizerInv
  <2>2. nHits' \in 0 .. Len(hits') /\ nDigits' \in 0 .. Len(digits')
    <3>1. nHits' \in 0 .. Len(hits)
      BY <1>2, <1>4, <1>5
    <3>2. nDigits \in 0 .. Len(digits)
      BY <1>1 DEF OutputTypeOK
    <3> QED  BY <1>2, <1>3, <3>1, <3>2
  <2> QED  BY <1>1, <1>2, <1>6, <1>8, <2>1, <2>2 DEF OutputTypeOK, HitRowType
<1>10. \A r \in 1 .. n : hit_tree'[r] = HitRow(hits[r], Shown(hits[r]))
  <2> SUFFICES ASSUME NEW r \in 1 .. n PROVE hit_tree'[r] = HitRow(hits[r], Shown(hits[r]))
    OBVIOUS
  <2>1. r = n \/ r \in 1 .. nHits
    BY <1>4
  <2>2. CASE r = n
    BY <1>8, <2>2 DEF row, hit
  <2>3. CASE r \in 1 .. nHits
    BY <1>4, <1>8, <2>3
  <2> QED  BY <2>1, <2>2, <2>3
<1>11. Written'
  <2>1. Len(digit_tree) = nDigits /\ \A d \in 1 .. nDigits : digit_tree[d] = DigitRow(digits[d])
    BY <1>1, <1>2 DEF Written, Rows
  <2>2. Rows'
    BY <1>2, <1>3, <1>8, <1>10, <2>1 DEF Rows, Shown
  <2>3. ~entry'.filled
    <3>1. entry.filled => nHits = Len(hits)
      BY <1>1 DEF Written
    <3>2. nHits # Len(hits)
      BY <1>2, <1>4
    <3> QED  BY <1>2, <3>1, <3>2
  <2> QED  BY <1>2, <1>3, <2>2, <2>3 DEF Written
<1> QED  BY <1>7, <1>9, <1>11 DEF OutputInv
\* The row of the next digit is written after those before it.
LEMMA fill_digitInv == OutputInv /\ fill_digit => OutputInv'
<1> SUFFICES ASSUME OutputInv, fill_digit PROVE OutputInv'
  OBVIOUS
<1> DEFINE n == nDigits + 1
           digit == digits[n]
           row == DigitRow(digit)
<1>1. DigitizerInv /\ OutputTypeOK /\ Written
  BY DEF OutputInv
<1>2. /\ phase = "stored" /\ nDigits < Len(digits)
      /\ digit_tree' = Append(digit_tree, row) /\ nDigits' = n
      /\ UNCHANGED <<vars, hit_tree, hit_pe_vec, nHits, entry>>
  BY DEF fill_digit
<1>3. UNCHANGED <<event, phase, hits, triggerhisto, RealOffset, j, i, digits>>
  BY <1>2 DEF vars
<1>4. /\ digits \in Seq(Digit) /\ nDigits \in Nat /\ Len(digits) \in Nat
      /\ digit_tree \in Seq(DigitRowType) /\ Len(digit_tree) = nDigits
      /\ \A d \in 1 .. nDigits : digit_tree[d] = DigitRow(digits[d])
  <2>1. digits \in Seq(Digit) /\ nDigits \in 0 .. Len(digits) /\ digit_tree \in Seq(DigitRowType)
    BY <1>1 DEF OutputTypeOK, TypeOK, Digit, DigitRowType
  <2>2. Rows
    BY <1>1, <1>2 DEF Written
  <2> QED  BY <2>1, <2>2 DEF Rows
<1>5. digit \in Digit /\ n \in 1 .. Len(digits)
  <2>1. n \in 1 .. Len(digits) /\ DOMAIN digits = 1 .. Len(digits)
    BY <1>2, <1>4
  <2> QED  BY <1>4, <2>1
<1>6. row \in DigitRowType
  BY <1>5 DEF Digit, DigitRow, DigitRowType
<1>7. DigitizerInv'
  <2>1. event' \in Nat
    BY <1>1, <1>3 DEF DigitizerInv, TypeOK
  <2> QED  BY <1>1, <1>3, <2>1, DigitizerStutters
<1> HIDE DEF row, digit
<1>8. /\ digit_tree' \in Seq(DigitRowType) /\ Len(digit_tree') = n /\ digit_tree'[n] = row
      /\ \A d \in 1 .. nDigits : digit_tree'[d] = digit_tree[d]
  BY <1>2, <1>4, <1>6, AppendProperties
<1>9. OutputTypeOK'
  <2>1. TypeOK'
    BY <1>7 DEF DigitizerInv
  <2>2. nHits' \in 0 .. Len(hits') /\ nDigits' \in 0 .. Len(digits')
    <3>1. nDigits' \in 0 .. Len(digits)
      BY <1>2, <1>4, <1>5
    <3>2. nHits \in 0 .. Len(hits)
      BY <1>1 DEF OutputTypeOK
    <3> QED  BY <1>2, <1>3, <3>1, <3>2
  <2> QED  BY <1>1, <1>2, <1>8, <2>1, <2>2 DEF OutputTypeOK, DigitRowType
<1>10. \A d \in 1 .. n : digit_tree'[d] = DigitRow(digits[d])
  <2> SUFFICES ASSUME NEW d \in 1 .. n PROVE digit_tree'[d] = DigitRow(digits[d])
    OBVIOUS
  <2>1. d = n \/ d \in 1 .. nDigits
    BY <1>4
  <2>2. CASE d = n
    BY <1>8, <2>2 DEF row, digit
  <2>3. CASE d \in 1 .. nDigits
    BY <1>4, <1>8, <2>3
  <2> QED  BY <2>1, <2>2, <2>3
<1>11. Written'
  <2>1. Len(hit_tree) = nHits /\ \A r \in 1 .. nHits : hit_tree[r] = HitRow(hits[r], Shown(hits[r]))
    BY <1>1, <1>2 DEF Written, Rows
  <2>2. Rows'
    BY <1>2, <1>3, <1>8, <1>10, <2>1 DEF Rows, Shown
  <2>3. ~entry'.filled
    <3>1. entry.filled => nDigits = Len(digits)
      BY <1>1 DEF Written
    <3>2. nDigits # Len(digits)
      BY <1>2, <1>4
    <3> QED  BY <1>2, <3>1, <3>2
  <2> QED  BY <1>2, <1>3, <2>2, <2>3 DEF Written
<1> QED  BY <1>7, <1>9, <1>11 DEF OutputInv

\* The entry copies the rows of all the hits and digits.
LEMMA fill_eventInv == OutputInv /\ fill_event => OutputInv'
<1> SUFFICES ASSUME OutputInv, fill_event PROVE OutputInv'
  OBVIOUS
<1> DEFINE e == [nHits |-> nHits, nDigits |-> nDigits, hit |-> hit_tree,
                 digit |-> digit_tree, filled |-> TRUE]
<1>1. DigitizerInv /\ OutputTypeOK /\ Written
  BY DEF OutputInv
<1>2. /\ phase = "stored" /\ nHits = Len(hits) /\ nDigits = Len(digits) /\ entry' = e
      /\ UNCHANGED <<vars, hit_tree, digit_tree, hit_pe_vec, nHits, nDigits>>
  BY DEF fill_event
<1>3. UNCHANGED <<event, phase, hits, triggerhisto, RealOffset, j, i, digits>>
  BY <1>2 DEF vars
<1>4. DigitizerInv'
  <2>1. event' \in Nat
    BY <1>1, <1>3 DEF DigitizerInv, TypeOK
  <2> QED  BY <1>1, <1>3, <2>1, DigitizerStutters
<1>5. OutputTypeOK'
  <2>1. TypeOK'
    BY <1>4 DEF DigitizerInv
  <2>2. e.filled \in BOOLEAN
    OBVIOUS
  <2> HIDE DEF e
  <2>3. entry'.filled \in BOOLEAN
    BY <1>2, <2>2
  <2> QED  BY <1>1, <1>2, <1>3, <2>1, <2>3 DEF OutputTypeOK
<1>6. Rows'
  <2>1. Rows
    BY <1>1, <1>2 DEF Written
  <2> QED  BY <1>2, <1>3, <2>1 DEF Rows, Shown
<1>7. entry' = e'
  BY <1>2
<1>8. Written'
  BY <1>2, <1>3, <1>6, <1>7 DEF Written
<1> QED  BY <1>4, <1>5, <1>8 DEF OutputInv

\* The rows stay in the sub-trees until the next event resets them.
LEMMA EndEventInv == OutputInv /\ EndEvent => OutputInv'
<1> SUFFICES ASSUME OutputInv, EndEvent PROVE OutputInv'
  OBVIOUS
<1>1. DigitizerInv /\ OutputTypeOK
  BY DEF OutputInv
<1>2. /\ DeleteEvent /\ phase' = "idle" /\ entry' = NoEntry /\ nHits' = 0 /\ nDigits' = 0
      /\ UNCHANGED <<hit_tree, digit_tree, hit_pe_vec>>
  BY DEF EndEvent, DeleteEvent
<1>3. DigitizerInv'
  BY <1>1, <1>2, DeleteEventInv
<1>4. entry'.filled = FALSE
  BY <1>2 DEF NoEntry
<1>5. OutputTypeOK'
  <2>1. TypeOK'
    BY <1>3 DEF DigitizerInv
  <2>2. nHits' \in 0 .. Len(hits') /\ nDigits' \in 0 .. Len(digits')
    <3>1. Len(hits') \in Nat /\ Len(digits') \in Nat
      BY <2>1 DEF TypeOK
    <3> QED  BY <1>2, <3>1
  <2> QED  BY <1>1, <1>2, <1>4, <2>1, <2>2 DEF OutputTypeOK
<1>6. Written'
  BY <1>2, <1>4 DEF Written
<1> QED  BY <1>3, <1>5, <1>6 DEF OutputInv

\* Nothing changes.
LEMMA OutputStutters == OutputInv /\ UNCHANGED <<vars, outVars>> => OutputInv'
<1> SUFFICES ASSUME OutputInv, UNCHANGED <<vars, outVars>> PROVE OutputInv'
  OBVIOUS
<1>1. DigitizerInv /\ OutputTypeOK /\ Written
  BY DEF OutputInv
<1>2. /\ UNCHANGED <<event, phase, hits, triggerhisto, RealOffset, j, i, digits>>
      /\ UNCHANGED <<hit_tree, digit_tree, hit_pe_vec, nHits, nDigits, entry>>
  BY DEF vars, outVars
<1>3. DigitizerInv'
  <2>1. event' \in Nat
    BY <1>1, <1>2 DEF DigitizerInv, TypeOK
  <2> QED  BY <1>1, <1>2, <2>1, DigitizerStutters
<1>4. OutputTypeOK'
  <2>1. TypeOK'
    BY <1>3 DEF DigitizerInv
  <2> QED  BY <1>1, <1>2, <2>1 DEF OutputTypeOK
<1>5. Written'
  <2>1. phase # "idle" => Rows'
    BY <1>1, <1>2 DEF Written, Rows, Shown
  <2> QED  BY <1>1, <1>2, <2>1 DEF Written
<1> QED  BY <1>3, <1>4, <1>5 DEF OutputInv

\* At the start nothing is written.
LEMMA OutputInitInv == OutputInit => OutputInv
<1> SUFFICES ASSUME OutputInit PROVE OutputInv
  OBVIOUS
<1>1. /\ Init /\ phase = "idle" /\ hits = <<>> /\ digits = <<>>
      /\ hit_tree = <<>> /\ digit_tree = <<>> /\ hit_pe_vec = <<>>
      /\ nHits = 0 /\ nDigits = 0 /\ entry = NoEntry
  BY DEF OutputInit, Init
<1>2. DigitizerInv
  BY <1>1, DigitizerInit
<1>3. entry.filled = FALSE
  BY <1>1 DEF NoEntry
<1>4. OutputTypeOK
  <2>1. TypeOK
    BY <1>2 DEF DigitizerInv
  <2>2. /\ hit_tree \in Seq([tubeId : Nat, totalPE : Nat, pe : Seq(Nat)])
        /\ digit_tree \in Seq([tubeId : Nat, time : Nat \ {0}])
        /\ hit_pe_vec \in Seq(Nat)
    BY <1>1
  <2>3. nHits \in 0 .. Len(hits) /\ nDigits \in 0 .. Len(digits)
    BY <1>1
  <2> QED  BY <1>3, <2>1, <2>2, <2>3 DEF OutputTypeOK
<1>5. Written
  BY <1>1, <1>3 DEF Written
<1> QED  BY <1>2, <1>4, <1>5 DEF OutputInv

\* The hits in order, the histogram of them, the bins passed without a trigger, the
\* digits of the hits passed and the rows of what is written, at every point of an event,
\* for every histogram, threshold and gate, any hits collections and any number of events.
THEOREM OutputInvariant == OutputSpec => []OutputInv
<1>1. OutputInv /\ [OutputNext]_<<vars, outVars>> => OutputInv'
  BY UnknownTargetInv, BeginDigitizeInv, DigitizeInv, fill_hitInv, fill_digitInv,
     fill_eventInv, EndEventInv, OutputStutters DEF OutputNext
<1> QED  BY OutputInitInv, <1>1, PTL DEF OutputSpec

(***************************************************************************)
(* What a reader of the file relies on.                                    *)
(***************************************************************************)
\* The rows have their types and are never more than the hits and the digits
\* (EndOfEventAction).
THEOREM OutputTypes == OutputSpec => []OutputTypeOK
<1>1. OutputInv => OutputTypeOK
  BY DEF OutputInv
<1> QED  BY <1>1, OutputInvariant, PTL

\* The trigger time is the end of the first window with more than GlobalThreshold hits,
\* counted on the times (FindNumberOfHits, Digitize).
THEOREM TriggerIsFirst == OutputSpec => []TriggerIsFirstWindow
<1>1. OutputInv => TriggerIsFirstWindow
  BY DEF OutputInv, DigitizerInv
<1> QED  BY <1>1, OutputInvariant, PTL

\* The first time of a tube is that at the front of its only hit.
LEMMA FirstTimeIs ==
  ASSUME hits \in Seq(Hit), Ordered, NEW h \in DOMAIN hits
  PROVE  FirstTime(hits[h].tubeID) = hits[h].time[1]
<1> DEFINE s == hits[h].time
           tube == hits[h].tubeID
           G == {g \in DOMAIN hits : hits[g].tubeID = tube}
           times == UNION {{hits[g].time[k] : k \in DOMAIN hits[g].time} : g \in G}
<1>1. G = {h}
  BY DEF Ordered, OneHitPerTube
<1>2. times = {s[k] : k \in DOMAIN s}
  BY <1>1
<1>3. s \in Seq(Nat) /\ s # <<>> /\ Sorted(s)
  <2>1. hits[h] \in Hit
    OBVIOUS
  <2>2. s \in Seq(Nat)
    BY <2>1 DEF Hit
  <2> QED  BY <2>2 DEF Ordered, OneHitPerTube
<1>4. FirstTime(tube) = CHOOSE t \in times : \A u \in times : t <= u
  BY DEF FirstTime
<1> HIDE DEF s, tube, G, times
<1>5. 1 \in DOMAIN s /\ \A k \in DOMAIN s : k \in Nat /\ 1 <= k /\ s[k] \in Nat
  BY <1>3
<1>6. \A k \in DOMAIN s : s[1] <= s[k]
  BY <1>3, <1>5 DEF Sorted
<1>7. s[1] \in times /\ (\A u \in times : s[1] <= u) /\ \A u \in times : u \in Nat
  BY <1>2, <1>5, <1>6
<1>8. \A t \in times : (\A u \in times : t <= u) => t = s[1]
  BY <1>7
<1> QED  BY <1>4, <1>7, <1>8 DEF s, tube

\* A digit is of a tube of its own, and is timed by the tube's earliest photo-electron
\* (Digitize; SortHitTimes comes first).
THEOREM DigitsFromFirstTimes == OutputSpec => []DigitFromFirstTime
<1>1. OutputInv => DigitFromFirstTime
  <2> SUFFICES ASSUME OutputInv PROVE DigitFromFirstTime
    OBVIOUS
  <2>1. hits \in Seq(Hit) /\ Ordered /\ Digitized
    BY DEF OutputInv, DigitizerInv, TypeOK, Hit
  <2>2. ASSUME NEW k \in DOMAIN digits
        PROVE  digits[k].time - RealOffset - FirstTime(digits[k].tubeID) \in Noise
    <3>1. PICK h \in DOMAIN hits : IsDigitOf(digits[k], hits[h], RealOffset)
      BY <2>1 DEF Digitized
    <3>2. FirstTime(hits[h].tubeID) = hits[h].time[1]
      BY <2>1, FirstTimeIs
    <3> QED  BY <3>1, <3>2 DEF IsDigitOf
  <2>3. \A k, l \in DOMAIN digits : digits[k].tubeID = digits[l].tubeID => k = l
    BY <2>1 DEF Digitized
  <2> QED  BY <2>2, <2>3 DEF DigitFromFirstTime
<1> QED  BY <1>1, OutputInvariant, PTL

\* The first times of a sorted hit are its earliest.
LEMMA ShownAreEarliest ==
  ASSUME NEW hit \in Hit, Sorted(hit.time)
  PROVE  EarliestTimes(HitRow(hit, Shown(hit)), hit)
<1> DEFINE s == hit.time
           w == Shown(hit)
           l == Len(s)
           n == IF l < MaxTimes THEN l ELSE MaxTimes
           row == HitRow(hit, w)
           At(q, u) == {k \in DOMAIN q : q[k] = u}
<1>1. /\ s \in Seq(Nat) /\ l \in Nat /\ DOMAIN s = 1 .. l
      /\ n \in 0 .. l /\ Len(w) = n /\ DOMAIN w = 1 .. n
      /\ \A k \in 1 .. n : w[k] = s[k]
  BY ShownIs
<1>2. row.totalPE = l /\ row.pe = w
  BY DEF HitRow
<1>3. n = l \/ (n = MaxTimes /\ n < l)
  <2>1. MaxTimes \in Nat
    BY EventOutputAssumption
  <2> HIDE DEF l
  <2>2. l \in Nat
    BY <1>1
  <2> QED  BY <2>1, <2>2
<1>4. \A k \in 1 .. l : s[k] \in Nat
  BY <1>1
<1>5. \A a, b \in 1 .. l : a <= b => s[a] <= s[b]
  BY <1>1 DEF Sorted
<1> HIDE DEF s, w, l, n, row
<1>6. n \in Nat /\ l \in Nat /\ n <= l
  BY <1>1
<1>7. \A a, b \in 1 .. n : a < b => w[a] <= w[b]
  BY <1>1, <1>5, <1>6
<1>8. ASSUME NEW t
      PROVE  /\ Cardinality(At(w, t)) <= Cardinality(At(s, t))
             /\ Cardinality(At(w, t)) < Cardinality(At(s, t)) => \A k \in 1 .. n : w[k] <= t
  <2>1. IsFiniteSet(1 .. l)
    BY <1>6, FS_Interval
  <2>2. At(s, t) \in SUBSET (1 .. l) /\ At(w, t) \subseteq At(s, t)
    BY <1>1, <1>6
  <2>3. IsFiniteSet(At(s, t)) /\ Cardinality(At(w, t)) <= Cardinality(At(s, t))
    BY <2>1, <2>2, FS_Subset
  <2>4. ASSUME Cardinality(At(w, t)) < Cardinality(At(s, t)), NEW k \in 1 .. n
        PROVE  w[k] <= t
    <3>1. At(w, t) # At(s, t)
      <4>1. Cardinality(At(s, t)) \in Nat
        BY <2>3, FS_CardinalityType
      <4> QED  BY <2>4, <4>1
    <3>2. PICK m \in 1 .. l : s[m] = t /\ m \notin At(w, t)
      BY <1>1, <2>2, <3>1
    <3>3. ~(m \in 1 .. n)
      BY <1>1, <3>2
    <3>4. k \in 1 .. l /\ k <= m
      BY <1>6, <3>3
    <3> QED  BY <1>1, <1>5, <3>2, <3>4
  <2> QED  BY <2>3, <2>4
<1>9. \A t : LET Count(q, u) == Cardinality({k \in DOMAIN q : q[k] = u})
             IN /\ Count(w, t) <= Count(s, t)
                /\ Count(w, t) < Count(s, t) => \A k \in 1 .. n : w[k] <= t
  BY <1>8
<1>10. /\ row.totalPE = Len(hit.time)
       /\ Len(row.pe) = row.totalPE \/ (Len(row.pe) = MaxTimes /\ Len(row.pe) < row.totalPE)
       /\ \A a, b \in 1 .. Len(row.pe) : a < b => row.pe[a] <= row.pe[b]
  BY <1>1, <1>2, <1>3, <1>7 DEF s, l
<1>11. \A t \in {hit.time[k] : k \in DOMAIN hit.time} :
         LET Count(q, u) == Cardinality({k \in DOMAIN q : q[k] = u})
         IN /\ Count(row.pe, t) <= Count(hit.time, t)
            /\ Count(row.pe, t) < Count(hit.time, t) => \A k \in 1 .. Len(row.pe) : row.pe[k] <= t
  BY <1>1, <1>2, <1>9 DEF s
<1> QED  BY <1>10, <1>11 DEF EarliestTimes, row, w

\* The entry of an event is that of its hits and digits alone (EndOfEventAction).
THEOREM EntryIsOfItsEvent == OutputSpec => []EntryIsEvent
<1>1. OutputInv => EntryIsEvent
  <2> SUFFICES ASSUME OutputInv, entry.filled
               PROVE  /\ entry.nHits = Len(entry.hit) /\ entry.nDigits = Len(entry.digit)
                      /\ \A h \in DOMAIN hits :
                           \E r \in DOMAIN entry.hit :
                             /\ entry.hit[r].tubeId = hits[h].tubeID
                             /\ EarliestTimes(entry.hit[r], hits[h])
                      /\ Len(entry.hit) = Len(hits) /\ Len(entry.digit) = Len(digits)
                      /\ \A d \in DOMAIN entry.digit :
                           \E r \in DOMAIN entry.hit :
                             /\ entry.hit[r].tubeId = entry.digit[d].tubeId
                             /\ entry.hit[r].pe # <<>> =>
                                  entry.digit[d].time - RealOffset - entry.hit[r].pe[1] \in Noise
    BY DEF EntryIsEvent
  <2> DEFINE e == [nHits |-> nHits, nDigits |-> nDigits, hit |-> hit_tree,
                   digit |-> digit_tree, filled |-> TRUE]
  <2>1. DigitizerInv /\ OutputTypeOK /\ Written /\ Ordered /\ Digitized
    BY DEF OutputInv, DigitizerInv
  <2>2. /\ hits \in Seq(Hit) /\ digits \in Seq(Digit)
        /\ hit_tree \in Seq(HitRowType) /\ digit_tree \in Seq(DigitRowType)
    BY <2>1 DEF OutputTypeOK, TypeOK, Hit, Digit, HitRowType, DigitRowType
  <2>3. nHits = Len(hits) /\ nDigits = Len(digits) /\ entry = e /\ Rows
    BY <2>1 DEF Written
  <2>4. entry.nHits = nHits /\ entry.nDigits = nDigits /\ entry.hit = hit_tree
        /\ entry.digit = digit_tree
    BY <2>3
  <2>5. /\ Len(hit_tree) = Len(hits) /\ Len(digit_tree) = Len(digits)
        /\ DOMAIN hits = DOMAIN hit_tree /\ DOMAIN digits = DOMAIN digit_tree
    BY <2>2, <2>3 DEF Rows
  <2>6. /\ \A h \in DOMAIN hits : hit_tree[h] = HitRow(hits[h], Shown(hits[h]))
        /\ \A d \in DOMAIN digits : digit_tree[d] = DigitRow(digits[d])
    BY <2>2, <2>3 DEF Rows
  <2> HIDE DEF e
  <2>7. ASSUME NEW h \in DOMAIN hits
        PROVE  hit_tree[h].tubeId = hits[h].tubeID /\ EarliestTimes(hit_tree[h], hits[h])
    <3>1. hits[h] \in Hit /\ Sorted(hits[h].time)
      BY <2>1, <2>2 DEF Ordered
    <3>2. EarliestTimes(HitRow(hits[h], Shown(hits[h])), hits[h])
      BY <3>1, ShownAreEarliest
    <3> QED  BY <2>6, <3>2 DEF HitRow
  <2>8. ASSUME NEW d \in DOMAIN digits
        PROVE  \E r \in DOMAIN hit_tree :
                 /\ hit_tree[r].tubeId = digit_tree[d].tubeId
                 /\ hit_tree[r].pe # <<>> =>
                      digit_tree[d].time - RealOffset - hit_tree[r].pe[1] \in Noise
    <3>1. PICK h \in DOMAIN hits : IsDigitOf(digits[d], hits[h], RealOffset)
      BY <2>1 DEF Digitized
    <3> DEFINE hit == hits[h]
               w == Shown(hit)
    <3>2. /\ hit_tree[h].tubeId = hit.tubeID /\ hit_tree[h].pe = w
          /\ digit_tree[d].tubeId = digits[d].tubeID /\ digit_tree[d].time = digits[d].time
      <4>1. hit_tree[h] = HitRow(hit, w) /\ digit_tree[d] = DigitRow(digits[d])
        BY <2>6
      <4> HIDE DEF hit, w
      <4>2. HitRow(hit, w).tubeId = hit.tubeID /\ HitRow(hit, w).pe = w
        BY DEF HitRow
      <4>3. /\ DigitRow(digits[d]).tubeId = digits[d].tubeID
            /\ DigitRow(digits[d]).time = digits[d].time
        BY DEF DigitRow
      <4> QED  BY <4>1, <4>2, <4>3
    <3>3. w # <<>> => w[1] = hit.time[1]
      <4> DEFINE n == IF Len(hit.time) < MaxTimes THEN Len(hit.time) ELSE MaxTimes
      <4>1. hit \in Hit
        BY <2>2
      <4> HIDE DEF hit
      <4>2. /\ w \in Seq(Nat) /\ Len(w) = n /\ Len(hit.time) \in Nat /\ n \in 0 .. Len(hit.time)
            /\ \A k \in 1 .. n : w[k] = hit.time[k]
        BY <4>1, ShownIs
      <4> HIDE DEF n, w
      <4>3. w # <<>> => n # 0
        BY <4>2
      <4>4. n # 0 => 1 \in 1 .. n
        BY <4>2
      <4> QED  BY <4>2, <4>3, <4>4
    <3> HIDE DEF w
    <3>4. w # <<>> => digit_tree[d].time - RealOffset - w[1] \in Noise
      BY <3>1, <3>2, <3>3 DEF IsDigitOf
    <3> QED  BY <2>5, <3>1, <3>2, <3>4 DEF IsDigitOf
  <2> QED  BY <2>3, <2>4, <2>5, <2>7, <2>8
<1> QED  BY <1>1, OutputInvariant, PTL

=============================================================================
