--------------------------- MODULE VectorFile_proofs ---------------------------
(***************************************************************************)
(* What VectorFile promises, for every set of files that nuance may write, *)
(* damaged or not, and any number of events and commands.                  *)
(*                                                                         *)
(* The argument: a record that is read to its end is read exactly to the   *)
(* last of its lines (RecordEnds), so that the lines read by position are  *)
(* those that its number finds, and the next line is behind it.  So the    *)
(* number of records read since the file was opened is that of the records *)
(* before the cursor, a whole number of rounds left aside (Places); and    *)
(* the stream fails only behind a line that is too long or at the end of   *)
(* the file (FailsBehind).                                                 *)
(***************************************************************************)
EXTENDS VectorFile, FiniteSetTheorems, TLAPS

(***************************************************************************)
(* The lines of a set, counted.                                            *)
(***************************************************************************)
\* The lines before line k are finitely many.
LEMMA LinesBefore ==
  ASSUME NEW lines \in SUBSET Int, IsFiniteSet(lines), NEW k \in Int
  PROVE  /\ IsFiniteSet({l \in lines : l < k})
         /\ Cardinality({l \in lines : l < k}) \in Nat
<1> DEFINE S == {l \in lines : l < k}
<1>1. S \in SUBSET lines
  OBVIOUS
<1> HIDE DEF S
<1>2. IsFiniteSet(S)
  BY <1>1, FS_Subset
<1>3. Cardinality(S) \in Nat
  BY <1>2, FS_CardinalityType
<1> QED  BY <1>2, <1>3 DEF S

\* They are some of the lines, and all if none is behind line k.
LEMMA BeforeType ==
  ASSUME NEW lines \in SUBSET Int, IsFiniteSet(lines), NEW k \in Int
  PROVE  /\ Cardinality(lines) \in Nat
         /\ Before(lines, k) \in 0 .. Cardinality(lines)
         /\ k \in lines => Before(lines, k) < Cardinality(lines)
         /\ (\A l \in lines : l < k) => Before(lines, k) = Cardinality(lines)
         /\ (\A l \in lines : k <= l) => Before(lines, k) = 0
<1> DEFINE S == {l \in lines : l < k}
<1>1. S \in SUBSET lines /\ (k \in lines => lines # S)
  OBVIOUS
<1>a. ASSUME \A l \in lines : l < k PROVE S = lines
  BY <1>a
<1>2. ASSUME \A l \in lines : k <= l PROVE S = {}
  <2>1. \A l \in lines : l \in Int /\ ~(l < k)
    BY <1>2
  <2> QED  BY <2>1
<1>3. Before(lines, k) = Cardinality(S)
  BY DEF Before
<1> HIDE DEF S
<1>4. /\ IsFiniteSet(S) /\ Cardinality(S) <= Cardinality(lines)
      /\ Cardinality(lines) = Cardinality(S) => lines = S
  BY <1>1, FS_Subset
<1>5. Cardinality(lines) \in Nat /\ Cardinality(S) \in Nat
  BY <1>4, FS_CardinalityType
<1>6. Cardinality({}) = 0
  BY FS_EmptySet
<1>7. k \in lines => Before(lines, k) < Cardinality(lines)
  <2>1. k \in lines => Cardinality(S) # Cardinality(lines)
    BY <1>1, <1>4
  <2> QED  BY <1>3, <1>4, <1>5, <2>1
<1>8. (\A l \in lines : l < k) => Before(lines, k) = Cardinality(lines)
  BY <1>3, <1>a
<1>9. (\A l \in lines : k <= l) => Before(lines, k) = 0
  BY <1>2, <1>3, <1>6
<1> QED  BY <1>3, <1>4, <1>5, <1>7, <1>8, <1>9

\* From k to m there is one more line before, or none, if only k may be one.
LEMMA BeforeNext ==
  ASSUME NEW lines \in SUBSET Int, IsFiniteSet(lines), NEW k \in Int, NEW m \in Int, k < m,
         \A l \in lines : k < l => m <= l
  PROVE  Before(lines, m) = IF k \in lines THEN Before(lines, k) + 1 ELSE Before(lines, k)
<1> DEFINE S == {l \in lines : l < k}
           T == {l \in lines : l < m}
<1>1. Before(lines, k) = Cardinality(S) /\ Before(lines, m) = Cardinality(T)
  BY DEF Before
<1>2. IsFiniteSet(S)
  BY LinesBefore
<1>3. k \notin S
  OBVIOUS
<1>4. ASSUME NEW l \in lines PROVE l < m <=> l < k \/ l = k
  BY <1>4
<1>5. k \in lines => T = S \cup {k}
  BY <1>4
<1>6. k \notin lines => T = S
  BY <1>4
<1> HIDE DEF S, T
<1>7. Cardinality(S \cup {k}) = Cardinality(S) + 1
  BY <1>2, <1>3, FS_AddElement
<1> QED  BY <1>1, <1>5, <1>6, <1>7

\* Of two lines the earlier one has fewer before it.
LEMMA BeforeOrder ==
  ASSUME NEW lines \in SUBSET Int, IsFiniteSet(lines), NEW k \in lines, NEW m \in lines, k < m
  PROVE  Before(lines, k) < Before(lines, m)
<1> DEFINE S == {l \in lines : l < k}
           T == {l \in lines : l < m}
<1>1. Before(lines, k) = Cardinality(S) /\ Before(lines, m) = Cardinality(T)
  BY DEF Before
<1>2. k \in Int /\ m \in Int
  OBVIOUS
<1>3. /\ IsFiniteSet(S) /\ Cardinality(S) \in Nat
      /\ IsFiniteSet(T) /\ Cardinality(T) \in Nat
  BY <1>2, LinesBefore
<1>4. S \in SUBSET T
  <2>1. \A l \in lines : l < k => l < m
    <3>1. \A l \in lines : l \in Int
      OBVIOUS
    <3> QED  BY <1>2, <3>1
  <2> QED  BY <2>1
<1>5. k \in T /\ k \notin S
  BY <1>2
<1> HIDE DEF S, T
<1>6. Cardinality(S) <= Cardinality(T) /\ (Cardinality(T) = Cardinality(S) => T = S)
  BY <1>3, <1>4, FS_Subset
<1> QED  BY <1>1, <1>3, <1>5, <1>6

\* Distinct lines have distinct numbers of lines before them.
LEMMA BeforeDiffers ==
  ASSUME NEW lines \in SUBSET Int, IsFiniteSet(lines), NEW k \in lines, NEW m \in lines, k # m
  PROVE  Before(lines, k) # Before(lines, m)
<1>1. k \in Int /\ m \in Int
  OBVIOUS
<1>2. Before(lines, k) \in Int /\ Before(lines, m) \in Int
  <2>1. /\ Before(lines, k) \in 0 .. Cardinality(lines)
        /\ Before(lines, m) \in 0 .. Cardinality(lines) /\ Cardinality(lines) \in Nat
    BY <1>1, BeforeType
  <2> QED  BY <2>1
<1>3. k < m \/ m < k
  BY <1>1
<1>4. k < m => Before(lines, k) < Before(lines, m)
  BY BeforeOrder
<1>5. m < k => Before(lines, m) < Before(lines, k)
  BY BeforeOrder
<1> QED  BY <1>2, <1>3, <1>4, <1>5

\* A line is the n-th if n - 1 are before it, and each number has its line.
LEMMA NthOfBefore ==
  ASSUME NEW lines \in SUBSET Int, IsFiniteSet(lines), NEW k \in lines
  PROVE  Nth(lines, Before(lines, k) + 1) = k
<1> DEFINE n == Before(lines, k) + 1
<1>1. k \in Int
  OBVIOUS
<1>2. Before(lines, k) \in Int
  BY <1>1, BeforeType
<1>3. Before(lines, k) = n - 1
  BY <1>2
<1>4. \A l \in lines : Before(lines, l) = n - 1 => l = k
  BY <1>3, BeforeDiffers
<1> HIDE DEF n
<1>5. Nth(lines, n) = k
  BY <1>3, <1>4 DEF Nth
<1> QED  BY <1>5 DEF n

\* Each number up to that of the lines has its line.
LEMMA NthIsLine ==
  ASSUME NEW lines \in SUBSET Int, IsFiniteSet(lines), NEW n \in 1 .. Cardinality(lines)
  PROVE  Nth(lines, n) \in lines /\ Before(lines, Nth(lines, n)) = n - 1
<1> DEFINE N == Cardinality(lines)
           T == 0 .. N - 1
           f == [k \in lines |-> Before(lines, k)]
<1>1. N \in Nat
  BY FS_CardinalityType
<1>2. ASSUME NEW k \in lines PROVE Before(lines, k) \in T
  <2>1. k \in Int
    OBVIOUS
  <2>2. Before(lines, k) \in 0 .. N /\ Before(lines, k) < N
    BY <2>1, BeforeType
  <2> QED  BY <1>1, <2>2
<1>3. \A k, m \in lines : Before(lines, k) = Before(lines, m) => k = m
  BY BeforeDiffers
<1>4. f \in [lines -> T]
  BY <1>2
<1>5. f \in Injection(lines, T)
  BY <1>3, <1>4 DEF Injection, IsInjective
<1>6. n - 1 \in T
  BY <1>1
<1>7. \A k \in lines : f[k] = Before(lines, k)
  OBVIOUS
<1>8. IsFiniteSet(T) /\ Cardinality(T) = N
  <2> DEFINE m == N - 1
  <2>1. m \in Int /\ (IF 0 > m THEN 0 ELSE m - 0 + 1) = N
    BY <1>1
  <2> HIDE DEF m
  <2>2. /\ IsFiniteSet(0 .. m)
        /\ Cardinality(0 .. m) = IF 0 > m THEN 0 ELSE m - 0 + 1
    BY <2>1, FS_Interval
  <2>3. IsFiniteSet(0 .. m) /\ Cardinality(0 .. m) = N
    BY <2>1, <2>2
  <2> QED  BY <2>3 DEF m
<1> HIDE DEF T, f
<1>9. f \in Surjection(lines, T)
  BY <1>5, <1>8, FS_Injection
<1>10. \E k \in lines : f[k] = n - 1
  BY <1>6, <1>9 DEF Surjection
<1> QED  BY <1>7, <1>10 DEF Nth

(***************************************************************************)
(* The invariant.                                                          *)
(***************************************************************************)
\* The stream has failed only behind a line too long or at the end.
FailsBehind == ~good => HiddenByLongLine \/ cursor > Len(inputFile)

\* What RecordsInOrder leaves out.
Promised == ~(m_rewind /\ (BlankInside \/ ~Undamaged))

\* The records read are those before line k, after q rounds.
ReadUpTo(k, q) ==
  /\ Len(delivered) = q * Cardinality(Begins) + Before(Begins, k)
  /\ ~m_rewind => q = 0

Places ==
  Promised =>
    /\ \A n \in DOMAIN delivered : \E b \in Begins :
         /\ delivered[n] = inputFile[b].record
         /\ Before(Begins, b) = (n - 1) % Cardinality(Begins)
    /\ good \/ Undamaged => \E q \in Nat : ReadUpTo(cursor, q)
    /\ ~m_rewind => Len(delivered) <= Cardinality(Begins)

IInv == TypeOK /\ WellFormed(inputFile) /\ FailsBehind /\ Places

(***************************************************************************)
(* Lines and records.                                                      *)
(***************************************************************************)
Said0 == [record : Nat, role : Role]

\* The lines of the file.
LEMMA FileLines ==
  ASSUME TypeOK
  PROVE  /\ Len(inputFile) \in Nat /\ DOMAIN inputFile = 1 .. Len(inputFile)
         /\ \A n \in DOMAIN inputFile : inputFile[n] \in Line
         /\ \A k : LineAt(k) \in Line /\ Value(LineAt(k)) \in Said0
<1>1. inputFile \in Seq(Line)
  BY DEF TypeOK
<1>2. /\ Len(inputFile) \in Nat /\ DOMAIN inputFile = 1 .. Len(inputFile)
      /\ \A n \in DOMAIN inputFile : inputFile[n] \in Line
  BY <1>1
<1>3. Blank \in Line
  BY DEF Blank, Line, Role
<1>4. \A k : LineAt(k) \in Line
  BY <1>2, <1>3 DEF LineAt
<1>5. \A l \in Line : Value(l) \in Said0
  BY DEF Value, Line, Said0
<1> QED  BY <1>2, <1>4, <1>5

\* Any lines of the file are finitely many.
LEMMA SomeLines ==
  ASSUME TypeOK, NEW lines \in SUBSET DOMAIN inputFile
  PROVE  lines \in SUBSET Int /\ IsFiniteSet(lines) /\ Cardinality(lines) \in Nat
<1>1. Len(inputFile) \in Nat /\ DOMAIN inputFile = 1 .. Len(inputFile)
  BY FileLines
<1>2. IsFiniteSet(1 .. Len(inputFile))
  BY <1>1, FS_Interval
<1>3. IsFiniteSet(lines)
  BY <1>1, <1>2, FS_Subset
<1>4. Cardinality(lines) \in Nat
  BY <1>3, FS_CardinalityType
<1> QED  BY <1>1, <1>3, <1>4

\* What lines say, in their order, is a sequence; it ends with the last one.
LEMMA InOrderType ==
  ASSUME TypeOK, NEW lines \in SUBSET DOMAIN inputFile
  PROVE  /\ InOrder(lines) \in Seq(Said0)
         /\ lines # {} => Nth(lines, Cardinality(lines)) \in lines
<1> DEFINE N == Cardinality(lines)
<1>1. lines \in SUBSET Int /\ IsFiniteSet(lines) /\ N \in Nat
  BY SomeLines
<1>2. ASSUME NEW n \in 1 .. N PROVE Nth(lines, n) \in lines
  BY <1>1, NthIsLine
<1>3. ASSUME NEW n \in 1 .. N PROVE Value(inputFile[Nth(lines, n)]) \in Said0
  <2>1. Nth(lines, n) \in DOMAIN inputFile
    BY <1>2
  <2>2. Value(LineAt(Nth(lines, n))) \in Said0
    BY FileLines
  <2> QED  BY <2>1, <2>2 DEF LineAt
<1>4. InOrder(lines) = [n \in 1 .. N |-> Value(inputFile[Nth(lines, n)])]
  BY DEF InOrder
<1>5. InOrder(lines) \in [1 .. N -> Said0]
  BY <1>3, <1>4
<1>6. InOrder(lines) \in Seq(Said0)
  BY <1>1, <1>5
<1>7. lines # {} => N \in 1 .. N
  <2>1. lines # {} => N # 0
    BY <1>1, FS_EmptySet
  <2> QED  BY <1>1, <2>1
<1> QED  BY <1>2, <1>6, <1>7

\* The lines on which records begin are finitely many.
LEMMA BeginsType ==
  ASSUME TypeOK
  PROVE  /\ Begins \in SUBSET DOMAIN inputFile /\ Begins \in SUBSET Int
         /\ IsFiniteSet(Begins) /\ Cardinality(Begins) \in Nat
<1>1. Begins \in SUBSET DOMAIN inputFile
  BY DEF Begins
<1> QED  BY <1>1, SomeLines

\* A record that is read to its end ends with the line that ends its tracks.
LEMMA RecordEnds ==
  ASSUME TypeOK, WellFormed(inputFile), NEW k \in Begins, TracksEnd(k) # {}
  PROVE  LET e == EndOfTracks(k) IN
         /\ e \in k + 6 .. Len(inputFile) /\ inputFile[e].word # "track"
         /\ IsRecord(inputFile, k, e)
<1> DEFINE e == EndOfTracks(k)
<1>1. e \in TracksEnd(k)
  BY DEF EndOfTracks
<1>2. k \in DOMAIN inputFile /\ inputFile[k].word = "begin"
  BY DEF Begins
<1>3. Len(inputFile) \in Nat /\ DOMAIN inputFile = 1 .. Len(inputFile)
  BY FileLines
<1>4. /\ e \in k + 6 .. Len(inputFile) /\ inputFile[e].word # "track"
      /\ \A n \in k + 6 .. e - 1 : inputFile[n].word = "track"
  BY <1>1 DEF TracksEnd
<1>5. PICK x \in k .. Len(inputFile) : IsRecord(inputFile, k, x)
  BY <1>2 DEF WellFormed
<1> HIDE DEF e
<1>b. k \in Int /\ x \in Int /\ e \in Int /\ e <= Len(inputFile)
  BY <1>2, <1>3, <1>4, <1>5
<1>6. ~(e < x)
  <2>1. SUFFICES ASSUME e < x PROVE FALSE
    OBVIOUS
  <2>2. e \in k + 6 .. x - 1
    BY <1>2, <1>3, <1>4, <1>5, <2>1
  <2> QED  BY <1>4, <1>5, <2>2 DEF IsRecord
<1>7. ~(x < e)
  <2>1. SUFFICES ASSUME x < e PROVE FALSE
    OBVIOUS
  <2>2. x < Len(inputFile)
    BY <1>3, <1>b, <2>1
  <2>3. x >= k + 6 /\ inputFile[x].word # "track"
    BY <1>5, <2>2 DEF IsRecord
  <2>4. x \in k + 6 .. e - 1
    BY <1>2, <1>3, <1>4, <1>5, <2>1, <2>3
  <2> QED  BY <1>4, <2>3, <2>4
<1>8. e = x
  BY <1>2, <1>3, <1>4, <1>5, <1>6, <1>7
<1> QED  BY <1>4, <1>5, <1>8 DEF e

\* No other record begins on the lines of a record.
LEMMA NextBegin ==
  ASSUME TypeOK, WellFormed(inputFile), NEW k \in Begins, NEW e \in k .. Len(inputFile),
         IsRecord(inputFile, k, e), NEW b \in Begins, k < b
  PROVE  e + 1 <= b
<1>1. /\ k \in DOMAIN inputFile
      /\ b \in DOMAIN inputFile /\ inputFile[b].word = "begin"
  BY DEF Begins
<1>2. Len(inputFile) \in Nat /\ DOMAIN inputFile = 1 .. Len(inputFile)
  BY FileLines
<1>3. PICK x \in b .. Len(inputFile) : IsRecord(inputFile, b, x)
  BY <1>1 DEF WellFormed
<1>4. SUFFICES ASSUME b \in k .. e PROVE FALSE
  BY <1>1, <1>2
<1>5. inputFile[b].record = inputFile[k].record
  BY <1>1, <1>4 DEF IsRecord
<1>6. k \in b .. x
  BY <1>1, <1>3, <1>5 DEF IsRecord
<1> QED  BY <1>1, <1>2, <1>6

(***************************************************************************)
(* Where an event begins to read.                                          *)
(***************************************************************************)
\* The line and the state of the stream that reading starts with.
LEMMA StartFacts ==
  ASSUME TypeOK
  PROVE  /\ StartLine \in 1 .. Len(inputFile) + 1 /\ StartGood \in BOOLEAN
         /\ ~Rewinds => StartLine = cursor /\ StartGood = good
         /\ Rewinds => /\ StartLine = 1 /\ StartGood = TRUE
                       /\ m_rewind = TRUE /\ (good => LineAt(cursor).word = "")
         /\ FirstWord # "" => StartGood = TRUE /\ StartLine \in DOMAIN inputFile
                              /\ FirstWord = inputFile[StartLine].word
         /\ FirstWord = "begin" => StartLine \in Begins
         /\ FirstWord # "begin" /\ StartGood => StartLine \notin Begins
<1>1. Len(inputFile) \in Nat /\ DOMAIN inputFile = 1 .. Len(inputFile)
  BY FileLines
<1>2. /\ cursor \in 1 .. Len(inputFile) + 1 /\ good \in BOOLEAN /\ m_rewind \in BOOLEAN
  BY DEF TypeOK
<1>3. 1 \in 1 .. Len(inputFile) + 1
  BY <1>1
<1>4. StartLine \in 1 .. Len(inputFile) + 1
  BY <1>2, <1>3 DEF StartLine
<1>5. /\ StartGood \in BOOLEAN
      /\ ~Rewinds => StartLine = cursor /\ StartGood = good
  BY <1>2 DEF StartLine, StartGood
<1>6. Rewinds => /\ StartLine = 1 /\ StartGood = TRUE
                 /\ m_rewind = TRUE /\ (good => LineAt(cursor).word = "")
  BY <1>2 DEF StartLine, StartGood, Rewinds, LineRead
<1>7. Blank.word = "" /\ "begin" # ""
  BY DEF Blank
<1>8. FirstWord # "" => StartGood = TRUE /\ StartLine \in DOMAIN inputFile
                        /\ FirstWord = inputFile[StartLine].word
  BY <1>5, <1>7 DEF FirstWord, LineRead, LineAt
<1>9. FirstWord = "begin" => StartLine \in Begins
  BY <1>7, <1>8 DEF Begins
<1>10. FirstWord # "begin" /\ StartGood => StartLine \notin Begins
  BY DEF Begins, FirstWord, LineRead, LineAt
<1> QED  BY <1>4, <1>5, <1>6, <1>8, <1>9, <1>10

\* At the end of the file, or before the first line, whole rounds were read.
LEMMA StartPlace ==
  ASSUME IInv, Promised, StartGood \/ Undamaged
  PROVE  \E q \in Nat : ReadUpTo(StartLine, q)
<1>1. TypeOK /\ FailsBehind /\ Places
  BY DEF IInv
<1>2. /\ ~Rewinds => StartLine = cursor /\ StartGood = good
      /\ Rewinds => StartLine = 1 /\ m_rewind = TRUE /\ (good => LineAt(cursor).word = "")
  BY <1>1, StartFacts
<1>3. CASE ~Rewinds
  <2>a. StartGood = good
    BY <1>2, <1>3
  <2>1. good \/ Undamaged
    BY <2>a
  <2>2. \E q \in Nat : ReadUpTo(cursor, q)
    BY <1>1, <2>1 DEF Places
  <2> QED  BY <1>2, <1>3, <2>2
<1>4. CASE Rewinds
  <2>1. Undamaged /\ ~BlankInside
    BY <1>2, <1>4 DEF Promised
  <2>2. PICK q \in Nat : ReadUpTo(cursor, q)
    BY <1>1, <2>1 DEF Places
  <2>3. Len(inputFile) \in Nat /\ DOMAIN inputFile = 1 .. Len(inputFile)
    BY <1>1, FileLines
  <2>4. cursor \in 1 .. Len(inputFile) + 1
    BY <1>1 DEF TypeOK
  <2>5. /\ Begins \in SUBSET DOMAIN inputFile /\ Begins \in SUBSET Int
        /\ IsFiniteSet(Begins) /\ Cardinality(Begins) \in Nat
    BY <1>1, BeginsType
  <2>6. ASSUME NEW b \in Begins PROVE b < cursor
    <3>1. b \in 1 .. Len(inputFile) /\ inputFile[b].word = "begin"
      BY <2>3, <2>5 DEF Begins
    <3>2. CASE cursor > Len(inputFile)
      BY <2>3, <2>4, <3>1, <3>2
    <3>3. CASE ~(cursor > Len(inputFile))
      <4>1. cursor \in DOMAIN inputFile
        BY <2>3, <2>4, <3>3
      <4>2. ~HiddenByLongLine
        <5>1. \A l \in 1 .. cursor - 1 : l \in DOMAIN inputFile
          BY <2>3, <2>4, <4>1
        <5> QED  BY <2>1, <5>1 DEF HiddenByLongLine, Undamaged
      <4>3. good
        BY <1>1, <3>3, <4>2 DEF FailsBehind
      <4>4. inputFile[cursor].word = ""
        BY <1>2, <1>4, <4>1, <4>3 DEF LineAt
      <4>5. ~(cursor < b)
        BY <2>1, <2>3, <3>1, <4>1, <4>4 DEF BlankInside
      <4>6. cursor # b
        BY <3>1, <4>4
      <4> QED  BY <2>4, <3>1, <4>5, <4>6
    <3> QED  BY <3>2, <3>3
  <2>7. Before(Begins, cursor) = Cardinality(Begins)
    BY <2>4, <2>5, <2>6, BeforeType
  <2>8. \A b \in Begins : 1 <= b
    BY <2>3, <2>5
  <2>9. Before(Begins, 1) = 0
    BY <2>5, <2>8, BeforeType
  <2> HIDE DEF Rewinds
  <2>10. Len(delivered) = q * Cardinality(Begins) + Cardinality(Begins)
    BY <2>2, <2>7 DEF ReadUpTo
  <2>11. q * Cardinality(Begins) + Cardinality(Begins) = (q + 1) * Cardinality(Begins) + 0
    BY <2>5
  <2>12. ReadUpTo(StartLine, q + 1)
    BY <1>2, <1>4, <2>9, <2>10, <2>11 DEF ReadUpTo
  <2> QED  BY <2>12
<1> QED  BY <1>3, <1>4

(***************************************************************************)
(* Reading.                                                                *)
(***************************************************************************)
\* What is said of the file stays as long as the file does.
LEMMA FileStays ==
  ASSUME inputFile' = inputFile
  PROVE  /\ Begins' = Begins /\ (Undamaged' <=> Undamaged)
         /\ m_rewind' = m_rewind => (Promised' <=> Promised)
<1>1. Begins' = Begins
  BY DEF Begins
<1>2. Undamaged' <=> Undamaged
  BY DEF Undamaged, CutAt, LineAt, TracksEnd
<1>3. BlankInside' <=> BlankInside
  BY DEF BlankInside
<1> QED  BY <1>1, <1>2, <1>3 DEF Promised

\* One line on, or none.
LEMMA ReadOnType ==
  ASSUME TypeOK, NEW k \in 1 .. Len(inputFile) + 1, NEW ok \in BOOLEAN, ReadOn(k, ok),
         inputFile' = inputFile,
         ~ok => k = cursor /\ FailsBehind /\ ~good
  PROVE  /\ cursor' \in 1 .. Len(inputFile) + 1 /\ good' \in BOOLEAN
         /\ FailsBehind' /\ (good' => ok)
         /\ cursor' = IF ok /\ k \in DOMAIN inputFile THEN k + 1 ELSE k
<1>1. Len(inputFile) \in Nat /\ DOMAIN inputFile = 1 .. Len(inputFile)
  BY FileLines
<1>2. cursor' = IF ok /\ k \in DOMAIN inputFile THEN k + 1 ELSE k
  BY DEF ReadOn, After
<1>3. cursor' \in 1 .. Len(inputFile) + 1
  BY <1>1, <1>2
<1>4. good' = StaysGood(k, ok)
  BY DEF ReadOn
<1>5. good' \in BOOLEAN /\ (good' => ok)
  BY <1>4 DEF StaysGood
<1>6. FailsBehind'
  <2>1. SUFFICES ASSUME ~good' PROVE HiddenByLongLine' \/ cursor' > Len(inputFile)
    BY DEF FailsBehind
  <2>2. CASE ok = FALSE
    <3>1. cursor' = cursor
      BY <1>2, <2>2
    <3>2. HiddenByLongLine \/ cursor > Len(inputFile)
      BY <2>2 DEF FailsBehind
    <3> QED  BY <3>1, <3>2 DEF HiddenByLongLine
  <2>3. CASE ok = TRUE /\ k \notin DOMAIN inputFile
    BY <1>1, <1>2, <2>3
  <2>4. CASE ok = TRUE /\ k \in DOMAIN inputFile
    <3>1. inputFile[k].long
      BY <1>4, <2>1, <2>4 DEF StaysGood
    <3>2. k \in 1 .. cursor' - 1
      BY <1>1, <1>2, <2>4
    <3> QED  BY <3>1, <3>2 DEF HiddenByLongLine
  <2> QED  BY <2>2, <2>3, <2>4
<1> QED  BY <1>2, <1>3, <1>5, <1>6

(***************************************************************************)
(* The actions that read nothing.                                          *)
(***************************************************************************)
\* No record has been read of a file just opened.
Fresh == delivered = <<>> /\ cursor = 1

\* Before the first line no record is behind, and none was read.
LEMMA FreshPlaces == TypeOK /\ Fresh => Places
<1> SUFFICES ASSUME TypeOK, delivered = <<>>, cursor = 1 PROVE Places
  BY DEF Fresh
<1>1. /\ Begins \in SUBSET DOMAIN inputFile /\ Begins \in SUBSET Int
      /\ IsFiniteSet(Begins) /\ Cardinality(Begins) \in Nat
  BY BeginsType
<1>2. DOMAIN inputFile = 1 .. Len(inputFile)
  BY FileLines
<1>3. \A b \in Begins : 1 <= b
  BY <1>1, <1>2
<1>4. Before(Begins, 1) = 0
  BY <1>1, <1>3, BeforeType
<1>5. Len(delivered) = 0 /\ DOMAIN delivered = {}
  OBVIOUS
<1>6. ReadUpTo(cursor, 0)
  BY <1>1, <1>4, <1>5 DEF ReadUpTo
<1>7. \E q \in Nat : ReadUpTo(cursor, q)
  BY <1>6
<1> QED  BY <1>1, <1>5, <1>7 DEF Places

\* The file before the first was opened, and the one not found.
LEMMA EmptyFile == WellFormed(<<>>)
<1>1. DOMAIN <<>> = {}
  OBVIOUS
<1> QED  BY <1>1 DEF WellFormed

\* Before the first command (the constructor).
LEMMA InitIInv == Init => IInv
<1> SUFFICES ASSUME Init PROVE IInv
  OBVIOUS
<1>1. NothingRead \in [record : Nat, role : Role]
  BY DEF NothingRead, Role
<1>2. TypeOK
  <2>1. <<>> \in Seq(Line) /\ Len(<<>>) = 0 /\ <<>> \in Seq(Nat)
        /\ <<>> \in Seq([record : Nat, role : Role])
    OBVIOUS
  <2>2. columns \in [Column -> [record : Nat, role : Role]]
    BY <1>1 DEF Init
  <2>3. cursor \in 1 .. Len(inputFile) + 1
    BY <2>1 DEF Init
  <2> QED  BY <1>1, <2>1, <2>2, <2>3 DEF Init, TypeOK
<1>3. Places
  BY <1>2, FreshPlaces DEF Init, Fresh
<1>4. WellFormed(inputFile)
  BY EmptyFile DEF Init
<1>5. FailsBehind
  BY DEF Init, FailsBehind
<1> QED  BY <1>2, <1>3, <1>4, <1>5 DEF IInv

\* Nothing is said of the file and of what was read of it but this.
LEMMA FileUntouched ==
  ASSUME IInv, UNCHANGED <<m_rewind, fileVars, delivered>>, TypeOK'
  PROVE  IInv'
<1>1. /\ inputFile' = inputFile /\ cursor' = cursor /\ good' = good /\ m_rewind' = m_rewind
      /\ delivered' = delivered
  BY DEF fileVars
<1>2. /\ Begins' = Begins /\ (Undamaged' <=> Undamaged) /\ (Promised' <=> Promised)
  BY <1>1, FileStays
<1>3. WellFormed(inputFile')
  BY <1>1 DEF IInv
<1>4. FailsBehind'
  BY <1>1 DEF IInv, FailsBehind, HiddenByLongLine
<1>5. Places'
  <2>1. \A q : ReadUpTo(cursor, q)' <=> ReadUpTo(cursor, q)
    BY <1>1, <1>2 DEF ReadUpTo
  <2>2. Places
    BY DEF IInv
  <2> QED  BY <1>1, <1>2, <2>1, <2>2 DEF Places, ReadUpTo
<1> QED  BY <1>3, <1>4, <1>5 DEF IInv

\* Changing the generator leaves the file and the place in it.
LEMMA SelectGeneratorIInv == IInv /\ SelectGenerator => IInv'
<1> SUFFICES ASSUME IInv, SelectGenerator PROVE IInv'
  OBVIOUS
<1>1. TypeOK'
  BY DEF IInv, TypeOK, SelectGenerator, fileVars
<1>2. UNCHANGED <<m_rewind, fileVars, delivered>>
  BY DEF SelectGenerator
<1> QED  BY <1>1, <1>2, FileUntouched

\* Opening a file, again or another, starts it from its first line.
LEMMA OpenVectorFileIInv == IInv /\ OpenVectorFile => IInv'
<1> SUFFICES ASSUME IInv, OpenVectorFile PROVE IInv'
  OBVIOUS
<1>1. inputFile' \in Seq(Line) /\ WellFormed(inputFile')
  BY VectorFileAssumption DEF OpenVectorFile
<1>2. cursor' = 1 /\ good' = TRUE /\ delivered' = <<>>
  BY DEF OpenVectorFile, FirstLine, Opened
<1>3. TypeOK'
  <2>1. cursor' \in 1 .. Len(inputFile') + 1
    <3>1. Len(inputFile') \in Nat
      BY <1>1
    <3> QED  BY <1>2, <3>1
  <2>2. delivered' \in Seq(Nat)
    BY <1>2
  <2> QED  BY <1>1, <1>2, <2>1, <2>2 DEF IInv, TypeOK, OpenVectorFile
<1>a. Fresh'
  BY <1>2 DEF Fresh
<1>4. Places'
  BY <1>a, <1>3, FreshPlaces, PTL
<1>5. FailsBehind'
  BY <1>2 DEF FailsBehind
<1> QED  BY <1>1, <1>3, <1>4, <1>5 DEF IInv

\* A file that is not found leaves an empty one.
LEMMA VectorFileNotFoundIInv == IInv /\ VectorFileNotFound => IInv'
<1> SUFFICES ASSUME IInv, VectorFileNotFound PROVE IInv'
  OBVIOUS
<1>1. inputFile' = <<>> /\ cursor' = 1 /\ good' = FALSE /\ delivered' = <<>>
  BY DEF VectorFileNotFound
<1>2. <<>> \in Seq(Line) /\ Len(<<>>) = 0 /\ <<>> \in Seq(Nat)
  OBVIOUS
<1>3. TypeOK'
  <2>1. cursor' \in 1 .. Len(inputFile') + 1
    BY <1>1, <1>2
  <2>2. inputFile' \in Seq(Line) /\ delivered' \in Seq(Nat)
    BY <1>1, <1>2
  <2>3. /\ program' = "exited" /\ good' = FALSE /\ isOpen' = FALSE /\ commands' = commands + 1
        /\ UNCHANGED <<event, m_rewind, useMulineEvt, gun, columns, primaries>>
    BY DEF VectorFileNotFound
  <2>4. TypeOK
    BY DEF IInv
  <2>5. program' \in {"running", "looping", "crashed", "exited"} /\ good' \in BOOLEAN
        /\ isOpen' \in BOOLEAN
    BY <2>3
  <2>6. event' \in Nat /\ commands' \in Nat
    BY <2>3, <2>4 DEF TypeOK
  <2>7. m_rewind' \in BOOLEAN /\ useMulineEvt' \in BOOLEAN
    BY <2>3, <2>4 DEF TypeOK
  <2>8. /\ gun' \in [record : Nat, role : Role]
        /\ columns' \in [Column -> [record : Nat, role : Role]]
        /\ primaries' \in Seq([record : Nat, role : Role])
    BY <2>3, <2>4 DEF TypeOK
  <2> QED  BY <2>1, <2>2, <2>5, <2>6, <2>7, <2>8 DEF TypeOK
<1>a. Fresh'
  BY <1>1 DEF Fresh
<1>4. Places'
  BY <1>a, <1>3, FreshPlaces, PTL
<1>5. FailsBehind'
  BY <1>1, <1>2 DEF FailsBehind
<1>6. WellFormed(inputFile')
  BY <1>1, EmptyFile
<1> QED  BY <1>3, <1>4, <1>5, <1>6 DEF IInv

\* An event without a file reads nothing.
LEMMA NoFileIInv == IInv /\ NoFile => IInv'
<1> SUFFICES ASSUME IInv, NoFile PROVE IInv'
  OBVIOUS
<1>1. TypeOK'
  BY DEF IInv, TypeOK, NoFile, NothingShot, NextEvent
<1>2. UNCHANGED <<m_rewind, fileVars, delivered>>
  BY DEF NoFile, NothingShot, NextEvent, fileVars
<1> QED  BY <1>1, <1>2, FileUntouched

\* An event of the gun reads nothing.
LEMMA ShootGunIInv == IInv /\ ShootGun => IInv'
<1> SUFFICES ASSUME IInv, ShootGun PROVE IInv'
  OBVIOUS
<1>1. gun \in [record : Nat, role : Role]
      /\ columns \in [Column -> [record : Nat, role : Role]]
  BY DEF IInv, TypeOK
<1>2. <<gun>> \in Seq([record : Nat, role : Role])
  BY <1>1
<1>3. [columns EXCEPT !.vtx = gun, !.beam = gun] \in [Column -> [record : Nat, role : Role]]
  BY <1>1
<1>4. TypeOK'
  BY <1>2, <1>3 DEF IInv, TypeOK, ShootGun, NextEvent
<1>5. UNCHANGED <<m_rewind, fileVars, delivered>>
  BY DEF ShootGun, NextEvent, fileVars
<1> QED  BY <1>4, <1>5, FileUntouched

\* An event that finds no record moves over one line that begins none.
LEMMA NoRecordIInv ==
  ASSUME IInv, FirstWord # "begin", NothingShot, ReadOn(StartLine, StartGood), NextEvent
  PROVE  IInv'
<1>1. TypeOK /\ FailsBehind /\ Places /\ WellFormed(inputFile)
  BY DEF IInv
<1>2. inputFile' = inputFile /\ m_rewind' = m_rewind /\ delivered' = delivered
  BY DEF NextEvent, NothingShot
<1>a. /\ StartLine \in 1 .. Len(inputFile) + 1 /\ StartGood \in BOOLEAN
      /\ ~Rewinds => StartLine = cursor /\ StartGood = good
      /\ Rewinds => StartGood = TRUE
      /\ StartGood => StartLine \notin Begins
  BY <1>1, StartFacts
<1>3. /\ StartLine \in 1 .. Len(inputFile) + 1 /\ StartGood \in BOOLEAN
      /\ ~StartGood => StartLine = cursor /\ ~good
      /\ StartGood => StartLine \notin Begins
  BY <1>a
<1>4. /\ cursor' \in 1 .. Len(inputFile) + 1 /\ good' \in BOOLEAN
      /\ FailsBehind' /\ (good' => StartGood)
      /\ cursor' = IF StartGood /\ StartLine \in DOMAIN inputFile THEN StartLine + 1
                                                                  ELSE StartLine
  BY <1>1, <1>2, <1>3, ReadOnType
<1>5. TypeOK'
  <2>1. primaries' = <<>> /\ <<>> \in Seq([record : Nat, role : Role])
    BY DEF NothingShot
  <2> QED  BY <1>1, <1>2, <1>4, <2>1 DEF TypeOK, NothingShot, NextEvent
<1>6. Before(Begins, cursor') = Before(Begins, StartLine)
  <2>1. CASE cursor' = StartLine
    BY <2>1
  <2>2. CASE cursor' = StartLine + 1 /\ StartGood
    <3>1. StartLine \in Int /\ StartLine + 1 \in Int /\ StartLine < StartLine + 1
      BY <1>3
    <3>2. Begins \in SUBSET Int /\ IsFiniteSet(Begins)
      BY <1>1, BeginsType
    <3>3. \A l \in Begins : StartLine < l => StartLine + 1 <= l
      BY <3>1, <3>2
    <3> HIDE DEF StartLine
    <3>4. Before(Begins, StartLine + 1) =
            IF StartLine \in Begins THEN Before(Begins, StartLine) + 1
                                    ELSE Before(Begins, StartLine)
      BY <3>1, <3>2, <3>3, BeforeNext
    <3> QED  BY <1>3, <2>2, <3>4
  <2> QED  BY <1>4, <2>1, <2>2
<1>7. Places'
  <2>1. Begins' = Begins /\ (Undamaged' <=> Undamaged) /\ (Promised' <=> Promised)
    BY <1>2, FileStays
  <2>2. SUFFICES ASSUME Promised PROVE
          /\ \A n \in DOMAIN delivered : \E b \in Begins :
               /\ delivered[n] = inputFile[b].record
               /\ Before(Begins, b) = (n - 1) % Cardinality(Begins)
          /\ good' \/ Undamaged => \E q \in Nat : ReadUpTo(cursor, q)'
          /\ ~m_rewind => Len(delivered) <= Cardinality(Begins)
    BY <1>2, <2>1 DEF Places, ReadUpTo
  <2>3. ASSUME good' \/ Undamaged PROVE \E q \in Nat : ReadUpTo(cursor, q)'
    <3>1. StartGood \/ Undamaged
      BY <1>4, <2>3
    <3>2. PICK q \in Nat : ReadUpTo(StartLine, q)
      BY <2>2, <3>1, StartPlace
    <3>3. Len(delivered) = q * Cardinality(Begins) + Before(Begins, cursor')
          /\ (~m_rewind => q = 0)
      BY <1>6, <3>2 DEF ReadUpTo
    <3>4. ReadUpTo(cursor, q)'
      BY <1>2, <2>1, <3>3 DEF ReadUpTo
    <3> QED  BY <3>4
  <2> QED  BY <1>1, <2>2, <2>3 DEF Places
<1> QED  BY <1>1, <1>2, <1>4, <1>5, <1>7 DEF IInv

\* The remainder of a number that lies n behind q whole rounds.
LEMMA Remainder ==
  ASSUME NEW n \in Nat \ {0}, NEW q \in Nat, NEW r \in 0 .. n - 1
  PROVE  (q * n + r) % n = r
OBVIOUS

(***************************************************************************)
(* The actions that read a record.                                         *)
(***************************************************************************)
\* The columns of a record are of its lines.
LEMMA HeaderType ==
  ASSUME NEW value, \A n \in 1 .. 5 : value[n] \in Said0, HeaderColumns(value)
  PROVE  columns' \in [Column -> Said0]
<1>1. /\ value[1] \in Said0 /\ value[2] \in Said0 /\ value[3] \in Said0
      /\ value[4] \in Said0 /\ value[5] \in Said0
  OBVIOUS
<1>2. columns' = [mode |-> value[1], vtx |-> value[2], beam |-> value[3],
                  target |-> value[4], vecRecNumber |-> value[5]]
  BY DEF HeaderColumns
<1>3. columns' = [c \in Column |-> columns'[c]]
  BY <1>2 DEF Column
<1>4. \A c \in Column : columns'[c] \in Said0
  BY <1>1, <1>2 DEF Column
<1> QED  BY <1>3, <1>4

\* What is shot, and the gun after it, are particles of the file.
LEMMA ShootType ==
  ASSUME TypeOK, NEW first \in Nat \ {0}, NEW last \in Int, last <= Len(inputFile),
         Shoot(first, last)
  PROVE  primaries' \in Seq(Said0) /\ gun' \in Said0
<1> DEFINE shot == {n \in first .. last : IsShot(inputFile[n])}
<1>1. DOMAIN inputFile = 1 .. Len(inputFile) /\ Len(inputFile) \in Nat
  BY FileLines
<1>2. shot \in SUBSET DOMAIN inputFile
  BY <1>1
<1>3. /\ primaries' = InOrder(shot)
      /\ gun' = IF shot = {} THEN gun ELSE Value(inputFile[Nth(shot, Cardinality(shot))])
  BY DEF Shoot
<1> HIDE DEF shot
<1>4. InOrder(shot) \in Seq(Said0)
  BY <1>2, InOrderType
<1>5. ASSUME shot # {} PROVE Value(inputFile[Nth(shot, Cardinality(shot))]) \in Said0
  <2>1. Nth(shot, Cardinality(shot)) \in DOMAIN inputFile
    BY <1>2, <1>5, InOrderType
  <2>2. Value(LineAt(Nth(shot, Cardinality(shot)))) \in Said0
    BY FileLines
  <2> QED  BY <2>1, <2>2 DEF LineAt
<1>6. gun \in Said0
  BY DEF TypeOK, Said0
<1> QED  BY <1>3, <1>4, <1>5, <1>6

\* A record that is read is the next one, or the first of the next round.
LEMMA ReadRecordIInv == IInv /\ ReadRecord => IInv'
<1> SUFFICES ASSUME IInv, ReadRecord PROVE IInv'
  OBVIOUS
<1> DEFINE s == StartLine
           e == EndOfTracks(StartLine)
           n == Cardinality(Begins)
<1>1. TypeOK /\ FailsBehind /\ Places /\ WellFormed(inputFile)
  BY DEF IInv
<1>2. inputFile' = inputFile /\ m_rewind' = m_rewind
  BY DEF ReadRecord, NextEvent
<1>3. Len(inputFile) \in Nat /\ DOMAIN inputFile = 1 .. Len(inputFile)
  BY <1>1, FileLines
<1>4. s \in Begins /\ StartGood = TRUE
  BY <1>1, StartFacts DEF ReadRecord
<1>5. /\ Begins \in SUBSET DOMAIN inputFile /\ Begins \in SUBSET Int
      /\ IsFiniteSet(Begins) /\ n \in Nat
  BY <1>1, BeginsType
<1>6. e \in s + 6 .. Len(inputFile) /\ IsRecord(inputFile, s, e)
  BY <1>1, <1>4, RecordEnds DEF ReadRecord
<1>7. delivered' = Append(delivered, inputFile[s].record) /\ ReadOn(e, TRUE)
  BY DEF ReadRecord
<1> HIDE DEF s, e
<1>8. s \in 1 .. Len(inputFile) /\ e \in 1 .. Len(inputFile) + 1 /\ e \in DOMAIN inputFile
      /\ e \in s .. Len(inputFile)
  BY <1>3, <1>4, <1>5, <1>6
<1>9. /\ cursor' \in 1 .. Len(inputFile) + 1 /\ good' \in BOOLEAN
      /\ FailsBehind' /\ cursor' = e + 1
  BY <1>1, <1>2, <1>7, <1>8, ReadOnType
<1>10. inputFile[s].record \in Nat
  BY <1>1, <1>3, <1>8, FileLines DEF Line
<1>11. TypeOK'
  <2>1. columns' \in [Column -> Said0]
    <3>1. HeaderColumns([k \in 1 .. 5 |-> Value(LineAt(StartLine + k))])
      BY DEF ReadRecord
    <3>2. \A k \in 1 .. 5 : [m \in 1 .. 5 |-> Value(LineAt(StartLine + m))][k] \in Said0
      BY <1>1, FileLines
    <3> QED  BY <3>1, <3>2, HeaderType
  <2>2. primaries' \in Seq(Said0) /\ gun' \in Said0
    <3>1. Shoot(s + 6, e - 1)
      BY DEF ReadRecord, s, e
    <3>2. s + 6 \in Nat \ {0} /\ e - 1 \in Int /\ e - 1 <= Len(inputFile)
      BY <1>3, <1>8
    <3> QED  BY <1>1, <3>1, <3>2, ShootType
  <2>3. delivered' \in Seq(Nat)
    BY <1>1, <1>7, <1>10 DEF TypeOK
  <2>4. /\ UNCHANGED <<program, commands, m_rewind, useMulineEvt, isOpen, inputFile>>
        /\ event' = event + 1
    BY DEF ReadRecord, NextEvent
  <2> QED  BY <1>1, <1>9, <2>1, <2>2, <2>3, <2>4 DEF TypeOK, Said0
<1>12. Before(Begins, cursor') = Before(Begins, s) + 1
  <2>1. \A b \in Begins : s < b => e + 1 <= b
    BY <1>1, <1>4, <1>6, <1>8, NextBegin
  <2>2. s \in Int /\ e + 1 \in Int /\ s < e + 1
    BY <1>8
  <2> QED  BY <1>4, <1>5, <1>9, <2>1, <2>2, BeforeNext
<1>13. Places'
  <2>1. Begins' = Begins /\ (Undamaged' <=> Undamaged) /\ (Promised' <=> Promised)
    BY <1>2, FileStays
  <2>2. SUFFICES ASSUME Promised PROVE
          /\ \A k \in DOMAIN delivered' : \E b \in Begins :
               /\ delivered'[k] = inputFile[b].record
               /\ Before(Begins, b) = (k - 1) % Cardinality(Begins)
          /\ good' \/ Undamaged => \E q \in Nat : ReadUpTo(cursor, q)'
          /\ ~m_rewind => Len(delivered') <= Cardinality(Begins)
    BY <1>2, <2>1 DEF Places, ReadUpTo
  <2>3. PICK q \in Nat : ReadUpTo(s, q)
    BY <1>4, <2>2, StartPlace DEF s
  <2>4. Before(Begins, s) \in 0 .. n - 1 /\ n \in Nat \ {0}
    <3>1. s \in Int
      BY <1>8
    <3>2. Before(Begins, s) \in 0 .. n /\ Before(Begins, s) < n
      BY <1>4, <1>5, <3>1, BeforeType
    <3> QED  BY <1>5, <3>2
  <2>5. Len(delivered) = q * n + Before(Begins, s) /\ (~m_rewind => q = 0)
    BY <2>3 DEF ReadUpTo
  <2>6. /\ Len(delivered) \in Nat /\ DOMAIN delivered = 1 .. Len(delivered)
        /\ Len(delivered') = Len(delivered) + 1
        /\ DOMAIN delivered' = 1 .. Len(delivered) + 1
        /\ \A k \in 1 .. Len(delivered) : delivered'[k] = delivered[k]
        /\ delivered'[Len(delivered) + 1] = inputFile[s].record
    <3>1. delivered \in Seq(Nat)
      BY <1>1 DEF TypeOK
    <3> QED  BY <1>7, <1>10, <3>1
  <2> HIDE DEF n
  <2>7. Len(delivered) % n = Before(Begins, s)
    BY <2>4, <2>5, Remainder
  <2>8. ASSUME NEW k \in DOMAIN delivered'
        PROVE  \E b \in Begins : /\ delivered'[k] = inputFile[b].record
                                 /\ Before(Begins, b) = (k - 1) % Cardinality(Begins)
    <3>1. CASE k \in DOMAIN delivered
      BY <1>1, <2>2, <2>6, <3>1 DEF Places
    <3>2. CASE k = Len(delivered) + 1
      <4>1. k - 1 = Len(delivered)
        BY <2>6, <3>2
      <4>2. Before(Begins, s) = (k - 1) % Cardinality(Begins)
        BY <2>7, <4>1 DEF n
      <4> QED  BY <1>4, <2>6, <3>2, <4>2
    <3> QED  BY <2>6, <3>1, <3>2
  <2>9. ReadUpTo(cursor, q)'
    <3>1. Len(delivered') = q * n + Before(Begins, cursor')
      <4>1. q * n \in Int /\ Before(Begins, s) \in Int
        BY <2>4
      <4> QED  BY <1>12, <2>5, <2>6, <4>1
    <3> QED  BY <1>2, <2>1, <2>5, <3>1 DEF ReadUpTo, n
  <2>10. ASSUME ~m_rewind PROVE Len(delivered') <= Cardinality(Begins)
    <3>1. q * n = 0
      BY <2>4, <2>5, <2>10
    <3> QED  BY <2>4, <2>5, <2>6, <3>1 DEF n
  <2> QED  BY <2>8, <2>9, <2>10
<1> QED  BY <1>1, <1>2, <1>9, <1>11, <1>13 DEF IInv

\* The last line that is read of a record is too long, or the last of all.
LEMMA LastReadType ==
  ASSUME TypeOK, NEW k \in DOMAIN inputFile
  PROVE  LET m == LastRead(k) IN
         m \in k .. Len(inputFile) /\ (inputFile[m].long \/ m = Len(inputFile))
<1> DEFINE lines == {m \in k .. Len(inputFile) : inputFile[m].long \/ m = Len(inputFile)}
           m == Nth(lines, 1)
<1>1. Len(inputFile) \in Nat /\ DOMAIN inputFile = 1 .. Len(inputFile)
  BY FileLines
<1>2. lines \in SUBSET DOMAIN inputFile
  BY <1>1
<1>3. Len(inputFile) \in lines
  BY <1>1
<1>4. \A l \in k .. Len(inputFile) : inputFile[l].long => l \in lines
  OBVIOUS
<1>5. \A l \in lines : l \in k .. Len(inputFile) /\ (inputFile[l].long \/ l = Len(inputFile))
  OBVIOUS
<1> HIDE DEF lines
<1>6. lines \in SUBSET Int /\ IsFiniteSet(lines) /\ Cardinality(lines) \in Nat
  BY <1>2, SomeLines
<1>7. Cardinality(lines) # 0
  BY <1>3, <1>6, FS_EmptySet
<1>8. 1 \in 1 .. Cardinality(lines)
  BY <1>6, <1>7
<1>9. m \in lines /\ Before(lines, m) = 1 - 1
  BY <1>6, <1>8, NthIsLine
<1> HIDE DEF m
<1>10. ASSUME NEW l \in lines, l < m PROVE FALSE
  <2>1. Before(lines, l) < Before(lines, m)
    BY <1>6, <1>9, <1>10, BeforeOrder
  <2>2. Before(lines, l) \in 0 .. Cardinality(lines)
    BY <1>6, BeforeType
  <2> QED  BY <1>6, <1>9, <2>1, <2>2
<1>11. \A l \in k .. m - 1 : ~inputFile[l].long
  <2>1. \A l \in k .. m - 1 : l \in k .. Len(inputFile) /\ l < m
    BY <1>1, <1>5, <1>9
  <2> QED  BY <1>4, <1>10, <2>1
<1>12. \E x \in k .. Len(inputFile) :
         /\ inputFile[x].long \/ x = Len(inputFile)
         /\ \A l \in k .. x - 1 : ~inputFile[l].long
  BY <1>5, <1>9, <1>11
<1> QED  BY <1>12 DEF LastRead

\* A record that is cut off is the last thing that is read of the file.
LEMMA ReadCutRecordIInv == IInv /\ ReadCutRecord => IInv'
<1> SUFFICES ASSUME IInv, ReadCutRecord PROVE IInv'
  OBVIOUS
<1> DEFINE s == StartLine
           m == LastRead(StartLine)
<1>1. TypeOK /\ FailsBehind /\ Places /\ WellFormed(inputFile)
  BY DEF IInv
<1>2. /\ UNCHANGED <<commands, m_rewind, useMulineEvt, isOpen, inputFile, delivered>>
      /\ event' = event + 1
  BY DEF ReadCutRecord, NextEvent
<1>3. Len(inputFile) \in Nat /\ DOMAIN inputFile = 1 .. Len(inputFile)
  BY <1>1, FileLines
<1>4. s \in Begins /\ s \in DOMAIN inputFile
  BY <1>1, StartFacts DEF ReadCutRecord, Begins
<1>5. inputFile[m].long \/ m = Len(inputFile)
  BY <1>1, <1>4, LastReadType
<1>a. m \in s .. Len(inputFile)
  BY <1>1, <1>4, LastReadType
<1>6. cursor' = m + 1 /\ good' = FALSE
  BY DEF ReadCutRecord
<1>7. Shoot(s + 6, m)
  BY DEF ReadCutRecord
<1>8. PICK left \in {Value(LineAt(m)), NothingRead} :
        HeaderColumns([n \in 1 .. 5 |->
          IF StartLine + n <= m THEN Value(LineAt(StartLine + n)) ELSE left])
  BY DEF ReadCutRecord
<1>9. program' \in {"running", "looping", "crashed", "exited"}
  BY DEF ReadCutRecord
<1> HIDE DEF s, m
<1>10. s \in 1 .. Len(inputFile) /\ m \in 1 .. Len(inputFile)
  BY <1>3, <1>4, <1>a
<1>11. TypeOK'
  <2>1. cursor' \in 1 .. Len(inputFile') + 1
    BY <1>2, <1>3, <1>6, <1>10
  <2>2. columns' \in [Column -> Said0]
    <3>1. NothingRead \in Said0
      BY DEF NothingRead, Said0, Role
    <3>2. \A k : Value(LineAt(k)) \in Said0
      BY <1>1, FileLines
    <3>3. left \in Said0
      BY <3>1, <3>2
    <3>4. \A k \in 1 .. 5 :
            [n \in 1 .. 5 |->
              IF StartLine + n <= m THEN Value(LineAt(StartLine + n)) ELSE left][k] \in Said0
      BY <3>2, <3>3
    <3> QED  BY <1>8, <3>4, HeaderType
  <2>3. primaries' \in Seq(Said0) /\ gun' \in Said0
    <3>1. s + 6 \in Nat \ {0} /\ m \in Int /\ m <= Len(inputFile)
      BY <1>3, <1>10
    <3> QED  BY <1>1, <1>7, <3>1, ShootType
  <2>a. event \in Nat /\ commands \in Nat
    BY <1>1 DEF TypeOK
  <2>4. event' \in Nat /\ commands' \in Nat
    BY <1>2, <2>a
  <2>b. good' \in BOOLEAN
    BY <1>6
  <2>5. /\ m_rewind' \in BOOLEAN /\ useMulineEvt' \in BOOLEAN /\ isOpen' \in BOOLEAN
        /\ inputFile' \in Seq(Line) /\ delivered' \in Seq(Nat)
    BY <1>1, <1>2 DEF TypeOK
  <2> QED  BY <1>9, <2>1, <2>2, <2>3, <2>4, <2>b, <2>5 DEF TypeOK, Said0
<1>12. FailsBehind'
  <2>1. CASE m = Len(inputFile)
    BY <1>2, <1>3, <1>6, <2>1 DEF FailsBehind
  <2>2. CASE inputFile[m].long
    <3>1. m \in 1 .. cursor' - 1
      BY <1>6, <1>10
    <3> QED  BY <1>2, <2>2, <3>1 DEF FailsBehind, HiddenByLongLine
  <2> QED  BY <1>5, <2>1, <2>2
<1>13. ~Undamaged
  <2>1. CutAt(s)
    BY <1>4 DEF ReadCutRecord, CutAt, Begins, LineAt, s
  <2> QED  BY <1>4, <2>1 DEF Undamaged
<1>14. Places'
  <2>1. Begins' = Begins /\ (Undamaged' <=> Undamaged) /\ (Promised' <=> Promised)
    BY <1>2, FileStays
  <2>2. ~(good' \/ Undamaged')
    BY <1>6, <1>13, <2>1
  <2> QED  BY <1>1, <1>2, <2>1, <2>2 DEF Places, ReadUpTo
<1> QED  BY <1>1, <1>2, <1>11, <1>12, <1>14 DEF IInv

\* Every step keeps the invariant.
LEMMA NextIInv == IInv /\ [Next]_vars => IInv'
<1>1. IInv /\ (EndOfFile \/ UnexpectedLine) => IInv'
  <2> SUFFICES ASSUME IInv, EndOfFile \/ UnexpectedLine PROVE IInv'
    OBVIOUS
  <2>1. /\ FirstWord # "begin" /\ NothingShot /\ ReadOn(StartLine, StartGood)
        /\ NextEvent
    BY DEF EndOfFile, UnexpectedLine
  <2> QED  BY <2>1, NoRecordIInv
<1>2. IInv /\ UNCHANGED vars => IInv'
  <2> SUFFICES ASSUME IInv, UNCHANGED vars PROVE IInv'
    OBVIOUS
  <2>1. TypeOK'
    BY DEF IInv, TypeOK, vars, fileVars
  <2> QED  BY <2>1, FileUntouched DEF vars
<1> QED
  BY <1>1, <1>2, SelectGeneratorIInv, OpenVectorFileIInv, VectorFileNotFoundIInv, NoFileIInv,
     ReadRecordIInv, ReadCutRecordIInv, ShootGunIInv DEF Next

\* The invariant always holds.
LEMMA InvariantHolds == Spec => []IInv
BY InitIInv, NextIInv, PTL DEF Spec

(***************************************************************************)
(* The theorems.                                                           *)
(***************************************************************************)
\* The generator's variables keep their types, whatever the files
\* (PrimaryGeneratorAction).
THEOREM TypesHold == Spec => []TypeOK
<1>1. IInv => TypeOK
  BY DEF IInv
<1> QED  BY <1>1, InvariantHolds, PTL

\* The places of the records read are those that RecordsInOrder gives them.
LEMMA PlacesInOrder == IInv => RecordsInOrder
<1> DEFINE n == Cardinality(Begins)
<1> SUFFICES ASSUME IInv, Promised
    PROVE  /\ \A k \in DOMAIN delivered : delivered[k] = RecordNumbers[1 + ((k - 1) % n)]
           /\ ~m_rewind => Len(delivered) <= n
           /\ isOpen /\ Undamaged /\ cursor > Len(inputFile) =>
                \E rounds \in 0 .. Len(delivered) : Len(delivered) = rounds * n
  BY DEF RecordsInOrder, Promised
<1>1. TypeOK /\ Places
  BY DEF IInv
<1>2. /\ Begins \in SUBSET DOMAIN inputFile /\ Begins \in SUBSET Int
      /\ IsFiniteSet(Begins) /\ n \in Nat
  BY <1>1, BeginsType
<1>3. Len(inputFile) \in Nat /\ DOMAIN inputFile = 1 .. Len(inputFile)
  BY <1>1, FileLines
<1>4. ASSUME NEW k \in DOMAIN delivered
      PROVE  delivered[k] = RecordNumbers[1 + ((k - 1) % n)]
  <2>1. PICK b \in Begins : /\ delivered[k] = inputFile[b].record
                            /\ Before(Begins, b) = (k - 1) % n
    BY <1>1, <1>4 DEF Places
  <2>2. Nth(Begins, Before(Begins, b) + 1) = b
    BY <1>2, NthOfBefore
  <2>3. Before(Begins, b) + 1 \in 1 .. n /\ Before(Begins, b) \in Int
    <3>1. b \in Int
      BY <1>2
    <3>2. Before(Begins, b) \in 0 .. n /\ Before(Begins, b) < n
      BY <1>2, <3>1, BeforeType
    <3> QED  BY <1>2, <3>2
  <2>4. RecordNumbers[Before(Begins, b) + 1] = inputFile[b].record
    BY <2>2, <2>3 DEF RecordNumbers
  <2>5. 1 + Before(Begins, b) = Before(Begins, b) + 1
    BY <2>3
  <2> QED  BY <2>1, <2>4, <2>5
<1>5. ~m_rewind => Len(delivered) <= n
  BY <1>1 DEF Places
<1>6. ASSUME isOpen, Undamaged, cursor > Len(inputFile)
      PROVE  \E rounds \in 0 .. Len(delivered) : Len(delivered) = rounds * n
  <2>1. PICK q \in Nat : ReadUpTo(cursor, q)
    BY <1>1, <1>6 DEF Places
  <2>2. cursor \in Int
    BY <1>1, <1>3 DEF TypeOK
  <2>3. \A b \in Begins : b < cursor
    BY <1>2, <1>3, <1>6, <2>2
  <2>4. Before(Begins, cursor) = n
    BY <1>2, <2>2, <2>3, BeforeType
  <2>5. Len(delivered) = q * n + n
    BY <2>1, <2>4 DEF ReadUpTo
  <2> HIDE DEF n
  <2>6. CASE n = 0
    <3>1. Len(delivered) = 0 * n
      BY <2>5, <2>6
    <3> QED  BY <2>5, <2>6, <3>1
  <2>7. CASE n # 0
    <3>1. Len(delivered) = (q + 1) * n
      BY <1>2, <2>5
    <3>2. q + 1 <= (q + 1) * n
      BY <1>2, <2>7
    <3> QED  BY <1>2, <3>1, <3>2
  <2> QED  BY <2>6, <2>7
<1> QED  BY <1>4, <1>5, <1>6

\* The events of a file go through its records in their order, none skipped
\* and none read twice before the file begins again, however often the
\* generator is changed between them (GeneratePrimaries, OpenVectorFile).
THEOREM RecordsStayInOrder == Spec => []RecordsInOrder
BY PlacesInOrder, InvariantHolds, PTL

\* What the record that begins at StartLine says, found by its number.
LEMMA RecordIsWhole ==
  ASSUME IInv, ReadRecord
  PROVE  LET r == columns'.vecRecNumber.record IN
         /\ columns' = [mode |-> Said(r, "nuance"), vtx |-> Said(r, "vertex"),
                        beam |-> Said(r, "beam"), target |-> Said(r, "target"),
                        vecRecNumber |-> Said(r, "info")]
         /\ primaries' = FinalState(r)
<1> DEFINE s == StartLine
           e == EndOfTracks(StartLine)
           r == inputFile[s].record
           shot == {n \in s + 6 .. e - 1 : IsShot(inputFile[n])}
           known == {n \in DOMAIN inputFile : inputFile[n].record = r /\ inputFile[n].role = "known"}
<1>1. TypeOK /\ WellFormed(inputFile)
  BY DEF IInv
<1>2. Len(inputFile) \in Nat /\ DOMAIN inputFile = 1 .. Len(inputFile)
  BY <1>1, FileLines
<1>3. s \in Begins /\ s \in DOMAIN inputFile
  BY <1>1, StartFacts DEF ReadRecord, Begins
<1>4. /\ e \in s + 6 .. Len(inputFile) /\ inputFile[e].word # "track"
      /\ IsRecord(inputFile, s, e)
  BY <1>1, <1>3, RecordEnds DEF ReadRecord
<1>5. HeaderColumns([n \in 1 .. 5 |-> Value(LineAt(s + n))]) /\ Shoot(s + 6, e - 1)
  BY DEF ReadRecord
<1> HIDE DEF s, e
<1>6. s \in Nat /\ e \in Nat /\ s + 6 <= e /\ e <= Len(inputFile) /\ 1 <= s
  BY <1>2, <1>3, <1>4
<1>15. \A m \in s .. e : m < s + 6 => inputFile[m].role = Header[m - s + 1]
  BY <1>4 DEF IsRecord
<1>7. ASSUME NEW n \in 1 .. 5 PROVE Value(LineAt(s + n)) = Said(r, Header[n + 1])
  <2>1. s + n \in DOMAIN inputFile /\ s + n \in s .. e /\ s \in s .. e /\ s + n < s + 6
        /\ s + n - s + 1 = n + 1
    BY <1>2, <1>6
  <2>2. inputFile[s + n].record = inputFile[s].record
    BY <1>3, <1>4, <2>1 DEF IsRecord
  <2>3. inputFile[s + n].role = Header[n + 1]
    <3>1. inputFile[s + n].role = Header[s + n - s + 1]
      BY <1>15, <2>1
    <3> QED  BY <2>1, <3>1
  <2> QED  BY <2>1, <2>2, <2>3 DEF LineAt, Value, Said
<1>8. columns' = [mode |-> Said(r, "nuance"), vtx |-> Said(r, "vertex"),
                  beam |-> Said(r, "beam"), target |-> Said(r, "target"),
                  vecRecNumber |-> Said(r, "info")]
  <2>1. /\ Value(LineAt(s + 1)) = Said(r, Header[2]) /\ Value(LineAt(s + 2)) = Said(r, Header[3])
        /\ Value(LineAt(s + 3)) = Said(r, Header[4]) /\ Value(LineAt(s + 4)) = Said(r, Header[5])
        /\ Value(LineAt(s + 5)) = Said(r, Header[6])
    <3>1. /\ Value(LineAt(s + 1)) = Said(r, Header[1 + 1])
          /\ Value(LineAt(s + 2)) = Said(r, Header[2 + 1])
          /\ Value(LineAt(s + 3)) = Said(r, Header[3 + 1])
          /\ Value(LineAt(s + 4)) = Said(r, Header[4 + 1])
          /\ Value(LineAt(s + 5)) = Said(r, Header[5 + 1])
      BY <1>7
    <3> QED  BY <3>1
  <2>2. /\ Header[2] = "nuance" /\ Header[3] = "vertex" /\ Header[4] = "beam"
        /\ Header[5] = "target" /\ Header[6] = "info"
    BY DEF Header
  <2>3. columns' = [mode |-> Value(LineAt(s + 1)), vtx |-> Value(LineAt(s + 2)),
                    beam |-> Value(LineAt(s + 3)), target |-> Value(LineAt(s + 4)),
                    vecRecNumber |-> Value(LineAt(s + 5))]
    BY <1>5 DEF HeaderColumns
  <2> QED  BY <2>1, <2>2, <2>3
<1>9. columns'.vecRecNumber.record = r
  BY <1>8 DEF Said
<1>10. ASSUME NEW n \in DOMAIN inputFile, inputFile[n].record = r, inputFile[n].role = "known"
       PROVE  n \in s + 6 .. e - 1
  <2>1. s \in s .. e
    BY <1>6
  <2>2. n \in s .. e
    BY <1>3, <1>4, <1>10 DEF IsRecord
  <2>3. n # e
    BY <1>1, <1>4, <1>10 DEF WellFormed
  <2>4. ~(n < s + 6)
    <3>1. SUFFICES ASSUME n < s + 6 PROVE FALSE
      OBVIOUS
    <3>2. inputFile[n].role = Header[n - s + 1]
      BY <1>15, <2>2, <3>1, Zenon
    <3>3. n - s + 1 \in 1 .. 6
      BY <1>6, <2>2, <3>1
    <3>4. \A m \in 1 .. 6 : Header[m] # "known"
      BY DEF Header
    <3> QED  BY <1>10, <3>2, <3>3, <3>4
  <2> QED  BY <1>6, <2>2, <2>3, <2>4
<1>11. ASSUME NEW n \in s + 6 .. e - 1
       PROVE  n \in DOMAIN inputFile /\ inputFile[n].record = r
  <2>1. n \in DOMAIN inputFile /\ n \in s .. e
    BY <1>2, <1>6
  <2> QED  BY <1>4, <2>1 DEF IsRecord
<1>12. shot = known
  BY <1>10, <1>11 DEF IsShot
<1>13. primaries' = InOrder(shot)
  BY <1>5 DEF Shoot
<1>14. FinalState(r) = InOrder(known)
  BY DEF FinalState
<1> QED  BY <1>8, <1>9, <1>12, <1>13, <1>14

\* An event of the vector file is written as the one record that it was read
\* from, or shoots nothing and changes no column; only a record that is cut
\* off can be written otherwise (GeneratePrimaries).
THEOREM EventsAreRecords == Spec => EventIsRecord
<1>1. IInv /\ [Next]_vars =>
        [event' # event /\ useMulineEvt =>
           LET r == columns'.vecRecNumber.record
           IN \/ primaries' = <<>> /\ columns' = columns
              \/ /\ columns' = [mode |-> Said(r, "nuance"), vtx |-> Said(r, "vertex"),
                                beam |-> Said(r, "beam"), target |-> Said(r, "target"),
                                vecRecNumber |-> Said(r, "info")]
                 /\ primaries' = FinalState(r)
              \/ CutAt(StartLine)]_vars
  <2> SUFFICES ASSUME IInv, Next, event' # event, useMulineEvt,
                      ~(primaries' = <<>> /\ columns' = columns), ~CutAt(StartLine)
               PROVE  LET r == columns'.vecRecNumber.record
                      IN /\ columns' = [mode |-> Said(r, "nuance"), vtx |-> Said(r, "vertex"),
                                        beam |-> Said(r, "beam"), target |-> Said(r, "target"),
                                        vecRecNumber |-> Said(r, "info")]
                         /\ primaries' = FinalState(r)
    OBVIOUS
  <2>1. ~NoFile /\ ~EndOfFile /\ ~UnexpectedLine
    BY DEF NoFile, EndOfFile, UnexpectedLine, NothingShot
  <2>2. ~ShootGun
    BY DEF ShootGun
  <2>3. ~SelectGenerator /\ ~OpenVectorFile /\ ~VectorFileNotFound
    BY DEF SelectGenerator, OpenVectorFile, VectorFileNotFound
  <2>4. ~ReadCutRecord
    <3>1. SUFFICES ASSUME ReadCutRecord PROVE FALSE
      OBVIOUS
    <3>2. FirstWord = "begin" /\ TracksEnd(StartLine) = {}
      BY <3>1 DEF ReadCutRecord
    <3>3. StartLine \in Begins
      BY <3>2, StartFacts DEF IInv
    <3>4. LineAt(StartLine).word = "begin"
      BY <3>3 DEF LineAt, Begins
    <3> QED  BY <3>2, <3>4 DEF CutAt
  <2>5. ReadRecord
    BY <2>1, <2>2, <2>3, <2>4 DEF Next
  <2> QED  BY <2>5, RecordIsWhole
<1> QED  BY <1>1, InvariantHolds, PTL DEF Spec, EventIsRecord

\* An event goes without its record only if the next line begins none, or
\* lies behind a line too long for the buffer; with m_rewind only if the file
\* begins with no record (readInLine, GeneratePrimaries).
THEOREM RecordsReachTheirEvents == Spec => RecordsAreDelivered
<1>1. IInv /\ [Next]_vars =>
        [event' # event /\ useMulineEvt /\ isOpen /\ primaries' = <<>> /\ columns' = columns =>
           \/ LineAt(cursor).word # "begin" /\ (m_rewind => LineAt(cursor).word # "")
           \/ HiddenByLongLine /\ ~m_rewind
           \/ m_rewind /\ LineAt(1).word # "begin"
           \/ delivered' # delivered \/ CutAt(StartLine)]_vars
  <2> SUFFICES ASSUME IInv, Next, event' # event, useMulineEvt, isOpen
               PROVE  \/ LineAt(cursor).word # "begin" /\ (m_rewind => LineAt(cursor).word # "")
                      \/ HiddenByLongLine /\ ~m_rewind
                      \/ m_rewind /\ LineAt(1).word # "begin"
                      \/ delivered' # delivered \/ CutAt(StartLine)
    OBVIOUS
  <2>1. TypeOK /\ FailsBehind
    BY DEF IInv
  <2>2. ~NoFile /\ ~ShootGun /\ ~SelectGenerator /\ ~OpenVectorFile /\ ~VectorFileNotFound
    BY DEF NoFile, ShootGun, SelectGenerator, OpenVectorFile, VectorFileNotFound
  <2>3. CASE ReadRecord
    <3>1. delivered \in Seq(Nat) /\ delivered' = Append(delivered, inputFile[StartLine].record)
      BY <2>1, <2>3 DEF TypeOK, ReadRecord
    <3>2. Len(delivered) \in Nat /\ Len(delivered') = Len(delivered) + 1
      BY <3>1
    <3>3. delivered' # delivered
      BY <3>2
    <3> QED  BY <3>3, Zenon
  <2>4. CASE ReadCutRecord
    <3>1. FirstWord = "begin" /\ TracksEnd(StartLine) = {}
      BY <2>4 DEF ReadCutRecord
    <3>2. StartLine \in Begins
      BY <2>1, <3>1, StartFacts
    <3>3. LineAt(StartLine).word = "begin"
      BY <3>2 DEF LineAt, Begins
    <3> QED  BY <3>1, <3>3 DEF CutAt
  <2>5. CASE FirstWord # "begin"
    <3>1. FirstWord = LineRead(StartLine, StartGood).word
      BY DEF FirstWord
    <3>2. CASE Rewinds
      <4>1. StartLine = 1 /\ StartGood = TRUE /\ m_rewind
        BY <2>1, <3>2, StartFacts
      <4>2. FirstWord = LineAt(1).word
        BY <3>1, <4>1 DEF LineRead
      <4> QED  BY <2>5, <4>1, <4>2
    <3>3. CASE ~Rewinds
      <4>1. StartLine = cursor /\ StartGood = good /\ good \in BOOLEAN
        BY <2>1, <3>3, StartFacts DEF TypeOK
      <4>2. CASE good = TRUE
        <5>1. FirstWord = LineAt(cursor).word
          BY <3>1, <4>1, <4>2 DEF LineRead
        <5>2. m_rewind => LineAt(cursor).word # ""
          BY <3>3, <4>2 DEF Rewinds, LineRead
        <5> QED  BY <2>5, <5>1, <5>2
      <4>3. CASE good = FALSE
        <5>1. ~m_rewind
          BY <3>3, <4>3 DEF Rewinds, LineRead, Blank
        <5>2. CASE HiddenByLongLine
          <6>1. HiddenByLongLine /\ ~m_rewind
            BY <5>1, <5>2
          <6> QED  BY <6>1
        <5>3. CASE cursor > Len(inputFile)
          <6>1. cursor \notin DOMAIN inputFile
            <7>1. DOMAIN inputFile = 1 .. Len(inputFile) /\ Len(inputFile) \in Nat
              BY <2>1, FileLines
            <7> QED  BY <5>3, <7>1
          <6>2. LineAt(cursor).word # "begin"
            BY <6>1 DEF LineAt, Blank
          <6> QED  BY <5>1, <6>2
        <5> QED  BY <2>1, <4>3, <5>2, <5>3 DEF FailsBehind
      <4> QED  BY <4>1, <4>2, <4>3
    <3> QED  BY <3>2, <3>3
  <2>6. EndOfFile \/ UnexpectedLine => FirstWord # "begin"
    BY DEF EndOfFile, UnexpectedLine
  <2> QED  BY <2>2, <2>3, <2>4, <2>5, <2>6 DEF Next
<1> QED  BY <1>1, InvariantHolds, PTL DEF Spec, RecordsAreDelivered
=============================================================================
