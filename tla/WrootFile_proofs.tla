---------------------------- MODULE WrootFile_proofs ----------------------------
(***************************************************************************)
(* Proofs about WrootFile, for every list of objects, all sizes of records *)
(* and any number of writes that fail: the directory on the disk resolves, *)
(* nothing a reader reaches is ever overwritten, the free segments are     *)
(* sound, a closed file is complete, and the file implements ObjectStore.  *)
(*                                                                         *)
(* The argument: the records lie apart and before END, so that a record    *)
(* written at END tears nothing, and the mark of make_free_seg() falls on  *)
(* the old record of the free segments and on nothing else.  No reader     *)
(* reaches such a record.  The rest is the order of the writes: the        *)
(* directory is pointed to keys only once they are whole, and the keys     *)
(* name objects that are whole, or a write has failed.                     *)
(***************************************************************************)
EXTENDS WrootFile, FiniteSetTheorems, SequenceTheorems, TLAPS

-----------------------------------------------------------------------------
(* The inductive invariant *)

Names == ToSet(Objects)
Key == [name : Names, seek : Nat, big : BOOLEAN]
Seg == [first : Nat, last : Nat]
Record ==
  [kind : {"directory", "basket", "object", "keys", "infos", "free"},
   size : Nat \ {0}, body : Seq(Key) \cup Seq(Seg) \cup Names, whole : BOOLEAN]

Types ==
  /\ end \in Nat /\ BEGIN + KeyLength + DirectorySize <= end
  /\ segs \in Seq(Seg) /\ segs # <<>>
  /\ seekFree \in Nat /\ nbytesFree \in Nat /\ seekInfo \in Nat /\ seekKeys \in Nat
  /\ keys \in Seq(Key) /\ Len(keys) <= Len(Objects)
  /\ DOMAIN disk \subseteq Nat /\ disk \in [DOMAIN disk -> Record]
  /\ header \in [written : BOOLEAN, end : Nat, free : Nat, info : Nat]
  /\ directory \in Nat /\ errors \in Nat /\ refused \in BOOLEAN

\* The phases, their writes, and what is not there before its time.
Control ==
  /\ phase \in {"making", "running", "writing", "closing", "closed", "killed"}
  /\ phase = "making" => step \in {"header", "directory"} /\ disk = <<>>
  /\ phase = "running" => step = "none"
  /\ phase = "writing" => step \in {"object", "keys", "pointer", "infos", "free", "header"}
  /\ phase = "closing" => step \in {"keys", "pointer", "gap", "free", "header"}
  /\ phase \in {"closed", "killed"} => step = "none"
  /\ phase \in {"making", "running"} => keys = <<>> /\ directory = NoSeek
  /\ phase \in {"making", "running"} \/ (phase = "writing" /\ step # "header")
       => seekFree = NoSeek
  /\ step \in {"object", "keys", "pointer"} /\ phase = "writing" => directory = NoSeek
  /\ step = "object" => Len(keys) < Len(Objects)
  /\ step = "gap" => seekFree # NoSeek

\* The records lie apart and before END.
Layout ==
  /\ \A s \in DOMAIN disk : BEGIN <= s /\ s + disk[s].size <= end
  /\ \A s, t \in DOMAIN disk : s < t => s + disk[s].size <= t

HasKind(seek, kind) == seek \in DOMAIN disk /\ disk[seek].kind = kind

\* These keys name objects in their order, and lead to them.
KeysLead(ks) ==
  /\ ks \in Seq(Key) /\ Len(ks) <= Len(Objects)
  /\ \A i \in DOMAIN ks :
       /\ ks[i].name = Objects[i] /\ HasKind(ks[i].seek, "object")
       /\ disk[ks[i].seek].body = ks[i].name
       /\ errors = 0 => disk[ks[i].seek].whole

\* What the seeks lead to.
Seeks ==
  /\ \A s \in DOMAIN disk : disk[s].kind = "directory" <=> s = BEGIN
  /\ \A s \in DOMAIN disk : disk[s].kind = "keys" => KeysLead(disk[s].body)
  /\ phase # "killed" => KeysLead(keys)
  /\ seekInfo # NoSeek => HasKind(seekInfo, "infos")
  /\ header.info # NoSeek => HasKind(header.info, "infos")
  /\ directory # NoSeek => IsWhole(directory, "keys")

\* The record of the free segments, and where it lies once keys are behind it.
FreeRecord ==
  seekFree # NoSeek =>
    /\ HasKind(seekFree, "free") /\ disk[seekFree].size = nbytesFree
    /\ KeyLength <= nbytesFree
    /\ phase = "closing" /\ step \in {"pointer", "gap"} => seekFree + nbytesFree < end

\* close() has yet to write the keys and to point to them.
KeysToCome == phase = "closing" /\ step \in {"keys", "pointer"}

\* The keys the directory points to, or is about to point to.
Pointers ==
  /\ step = "pointer" => IsWhole(seekKeys, "keys") /\ disk[seekKeys].body = keys
  /\ directory # NoSeek /\ (phase = "writing" \/ KeysToCome)
       => disk[directory].body = keys

\* The free segments: what follows END; a freed record and what follows END;
\* or, behind START_BIG_FILE, one segment that no longer ends the file.
Ending == [first |-> end, last |-> START_BIG_FILE]
Freed(a, b) ==
  /\ HasKind(a, "free") /\ a + disk[a].size = b + 1 /\ b + 1 < end
  /\ segs = <<[first |-> a, last |-> b], Ending>>
AfterGapStep ==
  phase \in {"closed", "killed"} \/ (phase = "closing" /\ step \in {"free", "header"})
Segments ==
  \/ segs = <<Ending>>
  \/ AfterGapStep /\ \E a, b \in Nat : Freed(a, b)
  \/ AfterGapStep /\ Len(segs) = 1 /\ segs[1].last > START_BIG_FILE /\ end > START_BIG_FILE

\* What is on the disk if nothing has gone wrong.
Good == errors = 0 /\ ~refused /\ phase # "killed"
Closing == phase \in {"closing", "closed"}
Complete ==
  Good =>
    /\ ~(phase = "making" /\ step = "header") => header.written
    /\ phase # "making" => IsWhole(BEGIN, "directory")
    /\ (phase = "writing" /\ step # "object") \/ KeysToCome => Len(keys) = Len(Objects)
    /\ (phase = "writing" /\ step \in {"infos", "free", "header"}) \/ Closing
         => directory # NoSeek /\ Len(disk[directory].body) = Len(Objects)
    /\ (phase = "writing" /\ step \in {"free", "header"}) \/ Closing
         => IsWhole(seekInfo, "infos")
    /\ (phase = "closing" /\ step = "header") \/ phase = "closed"
         => (end <= START_BIG_FILE =>
               IsWhole(seekFree, "free") /\ disk[seekFree].body = segs)
    /\ phase = "closed"
         => header = [written |-> TRUE, end |-> end, free |-> seekFree, info |-> seekInfo]

IInv ==
  Types /\ Control /\ Layout /\ Seeks /\ FreeRecord /\ Pointers /\ Segments /\ Complete

-----------------------------------------------------------------------------
(* Sizes *)

LEMMA Sizes ==
  /\ BEGIN \in Nat \ {0} /\ KeyLength \in Nat \ {0} /\ BigExtra \in Nat \ {0}
  /\ DirectorySize \in Nat \ {0} /\ InfosSize \in Nat \ {0} /\ Segment \in Nat \ {0}
  /\ BigSegment \in Nat \ {0} /\ GapWord \in Nat \ {0} /\ START_BIG_FILE \in Nat \ {0}
  /\ ObjectSizes \subseteq Nat \ {0} /\ BasketSizes \subseteq Nat \ {0}
  /\ BEGIN < START_BIG_FILE /\ Segment < BigSegment /\ GapWord <= KeyLength
BY WrootFileAssumption DEF WrootFileAssumption

LEMMA HeadSizeType ==
  ASSUME Types
  PROVE  HeadSize \in Nat /\ KeyLength <= HeadSize /\ HeadSize > 0
<1>1. end \in Nat
  BY DEF Types
<1>2. /\ KeyLength \in Nat /\ KeyLength > 0 /\ BigExtra \in Nat /\ BigExtra > 0
      /\ START_BIG_FILE \in Nat
  BY Sizes
<1> QED
  BY <1>1, <1>2 DEF HeadSize

\* The part of a sequence that has a property can be counted.
LEMMA CountType ==
  ASSUME NEW S, NEW sq \in Seq(S), NEW T \in SUBSET DOMAIN sq
  PROVE  Cardinality(T) \in Nat
<1>1. DOMAIN sq = 1 .. Len(sq) /\ Len(sq) \in Nat
  BY LenProperties
<1>2. IsFiniteSet(1 .. Len(sq))
  BY <1>1, FS_Interval
<1>3. IsFiniteSet(T)
  BY <1>1, <1>2, FS_Subset
<1> QED
  BY <1>3, FS_CardinalityType

LEMMA KeysSizeType ==
  ASSUME Types
  PROVE  KeysSize \in Nat /\ KeysSize > 0
<1> DEFINE c == Cardinality({i \in DOMAIN keys : keys[i].big})
<1>1. c \in Nat /\ Len(keys) \in Nat
  BY CountType, LenProperties DEF Types
<1>2. /\ Len(keys) * KeyLength \in Nat /\ BigExtra * c \in Nat
  BY <1>1, Sizes
<1> QED
  BY <1>1, <1>2 DEF KeysSize

LEMMA ListSizeType ==
  ASSUME NEW sg \in Seq(Seg)
  PROVE  ListSize(sg) \in Nat
<1> DEFINE c == Cardinality({i \in DOMAIN sg : IsBig(sg[i])})
<1>1. c \in Nat /\ Len(sg) \in Nat
  BY CountType, LenProperties
<1>2. /\ Len(sg) * Segment \in Nat /\ BigSegment - Segment \in Nat
  BY <1>1, Sizes
<1>3. (BigSegment - Segment) * c \in Nat
  BY <1>1, <1>2
<1> QED
  BY <1>1, <1>2, <1>3 DEF ListSize

-----------------------------------------------------------------------------
(* Records written and records torn *)

\* The records stay where they are and what they are, and whole if they were
\* whole: all but those of the free segments.
Kept ==
  \A s \in DOMAIN disk :
    /\ s \in DOMAIN disk' /\ disk'[s].kind = disk[s].kind
    /\ disk'[s].size = disk[s].size /\ disk'[s].body = disk[s].body
    /\ disk[s].kind # "free" => disk'[s].whole = disk[s].whole

\* Keys lead where they led while the records are kept.
LEMMA KeysLeadOn ==
  ASSUME Types, errors' \in Nat, errors <= errors', Kept, NEW ks, KeysLead(ks)
  PROVE  KeysLead(ks)'
<1>1. errors' = 0 => errors = 0
  BY DEF Types
<1>2. ASSUME NEW i \in DOMAIN ks
      PROVE  /\ ks[i].name = Objects[i]
             /\ ks[i].seek \in DOMAIN disk' /\ disk'[ks[i].seek].kind = "object"
             /\ disk'[ks[i].seek].body = ks[i].name
             /\ errors' = 0 => disk'[ks[i].seek].whole
  <2>1. /\ ks[i].name = Objects[i]
        /\ ks[i].seek \in DOMAIN disk /\ disk[ks[i].seek].kind = "object"
        /\ disk[ks[i].seek].body = ks[i].name
        /\ errors = 0 => disk[ks[i].seek].whole
    BY DEF KeysLead, HasKind
  <2> QED
    BY <1>1, <2>1 DEF Kept
<1> QED
  BY <1>2 DEF KeysLead, HasKind

\* A record written at END tears no other.
LEMMA PutAtEnd ==
  ASSUME Types, Layout, NEW rec \in Record, disk' = Put(end, rec), end' = end + rec.size
  PROVE  /\ end \notin DOMAIN disk /\ DOMAIN disk' = DOMAIN disk \cup {end}
         /\ disk'[end] = rec /\ \A s \in DOMAIN disk : disk'[s] = disk[s]
         /\ Kept /\ Layout'
         /\ DOMAIN disk' \subseteq Nat /\ disk' \in [DOMAIN disk' -> Record]
<1>d. /\ end \in Nat /\ DOMAIN disk \subseteq Nat /\ BEGIN <= end
      /\ disk \in [DOMAIN disk -> Record]
  <2>1. /\ end \in Nat /\ BEGIN + KeyLength + DirectorySize <= end
        /\ DOMAIN disk \subseteq Nat /\ disk \in [DOMAIN disk -> Record]
    BY DEF Types
  <2>2. BEGIN \in Nat /\ KeyLength \in Nat /\ DirectorySize \in Nat
    BY Sizes
  <2> QED
    BY <2>1, <2>2
<1>r. \A r \in Record : r.size \in Nat \ {0}
  BY DEF Record
<1>t. /\ end \in Nat /\ DOMAIN disk \subseteq Nat /\ BEGIN <= end
      /\ \A s \in DOMAIN disk : disk[s] \in Record /\ disk[s].size \in Nat \ {0} /\ s \in Nat
      /\ rec.size \in Nat \ {0}
  BY <1>d, <1>r
<1>l. /\ \A s \in DOMAIN disk : BEGIN <= s /\ s + disk[s].size <= end
      /\ \A s, t \in DOMAIN disk : s < t => s + disk[s].size <= t
  BY DEF Layout
<1>1. end \notin DOMAIN disk
  BY <1>t, <1>l
<1>2. \A s \in DOMAIN disk : ~Overlap(end, rec.size, s)
  BY <1>t, <1>l DEF Overlap
<1>3. DOMAIN disk' = DOMAIN disk \cup {end}
  BY DEF Put
<1>4. disk'[end] = rec /\ \A s \in DOMAIN disk : disk'[s] = disk[s]
  BY <1>1, <1>2 DEF Put
<1>5. DOMAIN disk' \subseteq Nat /\ disk' \in [DOMAIN disk' -> Record]
  <2>1. disk' = [s \in DOMAIN disk' |-> disk'[s]]
    BY <1>3 DEF Put
  <2>2. \A s \in DOMAIN disk' : s \in Nat /\ disk'[s] \in Record
    BY <1>3, <1>4, <1>t
  <2> QED
    BY <2>1, <2>2
<1>6. Layout'
  <2>1. \A s \in DOMAIN disk' : BEGIN <= s /\ s + disk'[s].size <= end'
    BY <1>3, <1>4, <1>t, <1>l, Sizes
  <2>2. \A s, t \in DOMAIN disk' : s < t => s + disk'[s].size <= t
    BY <1>3, <1>4, <1>t, <1>l
  <2> QED
    BY <2>1, <2>2 DEF Layout
<1>7. Kept
  BY <1>3, <1>4 DEF Kept
<1> QED
  BY <1>1, <1>3, <1>4, <1>5, <1>6, <1>7

\* What a record written at END leaves of what the seeks lead to.
LEMMA AppendLeads ==
  ASSUME Types, Layout, Seeks, NEW rec \in Record, disk' = Put(end, rec),
         end' = end + rec.size, errors' \in Nat, errors <= errors',
         rec.kind # "directory", rec.kind = "keys" => KeysLead(rec.body),
         UNCHANGED <<header, directory>>
  PROVE  /\ \A s \in DOMAIN disk' : disk'[s].kind = "directory" <=> s = BEGIN
         /\ \A s \in DOMAIN disk' : disk'[s].kind = "keys" => KeysLead(disk[s].body)'
         /\ header'.info # NoSeek => HasKind(header.info, "infos")'
         /\ directory' # NoSeek => IsWhole(directory, "keys")'
<1>1. /\ end \notin DOMAIN disk /\ DOMAIN disk' = DOMAIN disk \cup {end}
      /\ disk'[end] = rec /\ \A s \in DOMAIN disk : disk'[s] = disk[s]
      /\ Kept
  BY PutAtEnd
<1>2. BEGIN # end
  <2>1. /\ end \in Nat /\ BEGIN + KeyLength + DirectorySize <= end
    BY DEF Types
  <2>2. BEGIN \in Nat /\ KeyLength \in Nat \ {0} /\ DirectorySize \in Nat
    BY Sizes
  <2> QED
    BY <2>1, <2>2
<1>3. /\ \A s \in DOMAIN disk : disk[s].kind = "directory" <=> s = BEGIN
      /\ \A s \in DOMAIN disk : disk[s].kind = "keys" => KeysLead(disk[s].body)
      /\ header.info # NoSeek => HasKind(header.info, "infos")
      /\ directory # NoSeek => IsWhole(directory, "keys")
  BY DEF Seeks
<1>4. \A s \in DOMAIN disk' : disk'[s].kind = "directory" <=> s = BEGIN
  BY <1>1, <1>2, <1>3
<1>5. ASSUME NEW s \in DOMAIN disk', disk'[s].kind = "keys"
      PROVE  KeysLead(disk[s].body)'
  <2>1. PICK ks : ks = disk'[s].body
    OBVIOUS
  <2>2. KeysLead(ks)
    BY <1>1, <1>3, <1>5, <2>1
  <2>3. KeysLead(ks)'
    BY <1>1, <2>2, KeysLeadOn
  <2> QED
    BY <2>1, <2>3 DEF KeysLead, HasKind
<1>6. header'.info # NoSeek => HasKind(header.info, "infos")'
  BY <1>1, <1>3 DEF HasKind
<1>7. directory' # NoSeek => IsWhole(directory, "keys")'
  BY <1>1, <1>3 DEF IsWhole
<1> QED
  BY <1>4, <1>5, <1>6, <1>7

\* A seek in memory leads on to where it led.
LEMMA SeekLeadsOn ==
  ASSUME Kept, NEW seek, NEW kind, HasKind(seek, kind)
  PROVE  HasKind(seek, kind)' /\ disk'[seek].size = disk[seek].size
BY DEF Kept, HasKind

LEMMA WholeStaysWhole ==
  ASSUME Kept, NEW seek, NEW kind \in {"directory", "basket", "object", "keys", "infos"},
         IsWhole(seek, kind)
  PROVE  IsWhole(seek, kind)' /\ disk'[seek].body = disk[seek].body
BY DEF Kept, IsWhole

-----------------------------------------------------------------------------
(* The free segments *)

LEMMA WithEndType ==
  ASSUME NEW sg \in Seq(Seg), sg # <<>>, NEW e \in Nat
  PROVE  /\ WithEnd(sg, e) \in Seq(Seg) /\ Len(WithEnd(sg, e)) = Len(sg)
         /\ \A i \in 1 .. Len(sg) - 1 : WithEnd(sg, e)[i] = sg[i]
         /\ WithEnd(sg, e)[Len(sg)] =
              IF sg[Len(sg)].last = START_BIG_FILE
              THEN [first |-> e, last |-> START_BIG_FILE] ELSE sg[Len(sg)]
<1>1. Len(sg) \in Nat \ {0} /\ Len(sg) \in 1 .. Len(sg) /\ sg[Len(sg)] \in Seg
  BY LenProperties, EmptySeq
<1>2. CASE sg[Len(sg)].last = START_BIG_FILE
  <2> DEFINE x == [first |-> e, last |-> START_BIG_FILE]
  <2>1. x \in Seg
    BY Sizes DEF Seg
  <2> DEFINE new == [sg EXCEPT ![Len(sg)] = x]
  <2>2. WithEnd(sg, e) = new
    BY <1>2 DEF WithEnd, WithFirst, EndsFile, Last
  <2> HIDE DEF x
  <2>3. /\ new \in Seq(Seg) /\ Len(new) = Len(sg)
        /\ \A j \in 1 .. Len(sg) : new[j] = IF j = Len(sg) THEN x ELSE sg[j]
    BY <1>1, <2>1, ExceptSeq
  <2> HIDE DEF new
  <2>4. /\ \A j \in 1 .. Len(sg) - 1 : new[j] = sg[j]
        /\ new[Len(sg)] = x
    BY <1>1, <2>3
  <2> QED
    BY <1>2, <2>2, <2>3, <2>4 DEF x
<1>3. CASE sg[Len(sg)].last # START_BIG_FILE
  BY <1>1, <1>3 DEF WithEnd, EndsFile, Last
<1> QED
  BY <1>2, <1>3

\* set_END() a second time replaces the first.
LEMMA WithEndTwice ==
  ASSUME NEW sg \in Seq(Seg), sg # <<>>, NEW d \in Nat, NEW e \in Nat
  PROVE  WithEnd(WithEnd(sg, d), e) = WithEnd(sg, e)
<1> DEFINE one == WithEnd(sg, d)
           two == WithEnd(one, e)
           new == WithEnd(sg, e)
<1>1. Len(sg) \in Nat \ {0} /\ Len(sg) \in 1 .. Len(sg)
  BY LenProperties, EmptySeq
<1>2. /\ one \in Seq(Seg) /\ Len(one) = Len(sg)
      /\ \A i \in 1 .. Len(sg) - 1 : one[i] = sg[i]
      /\ one[Len(sg)] = IF sg[Len(sg)].last = START_BIG_FILE
                        THEN [first |-> d, last |-> START_BIG_FILE] ELSE sg[Len(sg)]
  BY WithEndType
<1>3. /\ new \in Seq(Seg) /\ Len(new) = Len(sg)
      /\ \A i \in 1 .. Len(sg) - 1 : new[i] = sg[i]
      /\ new[Len(sg)] = IF sg[Len(sg)].last = START_BIG_FILE
                        THEN [first |-> e, last |-> START_BIG_FILE] ELSE sg[Len(sg)]
  BY WithEndType
<1> HIDE DEF one
<1>4. one # <<>>
  BY <1>1, <1>2, EmptySeq
<1>5. /\ two \in Seq(Seg) /\ Len(two) = Len(one)
      /\ \A i \in 1 .. Len(one) - 1 : two[i] = one[i]
      /\ two[Len(one)] = IF one[Len(one)].last = START_BIG_FILE
                         THEN [first |-> e, last |-> START_BIG_FILE] ELSE one[Len(one)]
  BY <1>2, <1>4, WithEndType
<1> HIDE DEF two, new
<1>6. ASSUME NEW i \in 1 .. Len(sg)
      PROVE  two[i] = new[i]
  <2>1. CASE i = Len(sg)
    <3>1. CASE sg[Len(sg)].last = START_BIG_FILE
      BY <1>2, <1>3, <1>5, <2>1, <3>1
    <3>2. CASE sg[Len(sg)].last # START_BIG_FILE
      BY <1>2, <1>3, <1>5, <2>1, <3>2
    <3> QED
      BY <3>1, <3>2
  <2>2. CASE i \in 1 .. Len(sg) - 1
    BY <1>2, <1>3, <1>5, <2>2
  <2> QED
    BY <1>1, <2>1, <2>2
<1>7. two = new
  BY <1>2, <1>3, <1>5, <1>6, SeqEqual
<1> QED
  BY <1>7 DEF one, two, new

\* What the free segments are once END has moved on (set_END).
LEMMA ClaimSegments ==
  ASSUME Types, Segments, Kept, NEW e \in Nat, end <= e, end' = e,
         segs' = WithEnd(segs, e), AfterGapStep => AfterGapStep'
  PROVE  segs' \in Seq(Seg) /\ segs' # <<>> /\ Segments'
<1>1. /\ end \in Nat /\ segs \in Seq(Seg) /\ segs # <<>> /\ Len(segs) \in Nat \ {0}
  BY EmptySeq DEF Types
<1>2. /\ segs' \in Seq(Seg) /\ Len(segs') = Len(segs)
      /\ \A i \in 1 .. Len(segs) - 1 : segs'[i] = segs[i]
      /\ segs'[Len(segs)] = IF segs[Len(segs)].last = START_BIG_FILE
                            THEN [first |-> e, last |-> START_BIG_FILE] ELSE segs[Len(segs)]
  BY <1>1, WithEndType
<1>3. segs' # <<>>
  BY <1>1, <1>2, EmptySeq
<1>4. Ending' = [first |-> e, last |-> START_BIG_FILE]
  BY DEF Ending
<1>5. CASE segs = <<Ending>>
  <2>1. Len(segs) = 1 /\ segs[1].last = START_BIG_FILE
    BY <1>5 DEF Ending
  <2>2. Len(segs') = 1 /\ segs'[1] = Ending'
    BY <1>2, <1>4, <2>1
  <2>3. segs' = <<Ending'>>
    BY <1>2, <2>2
  <2> QED
    BY <1>2, <1>3, <2>3 DEF Segments
<1>6. CASE AfterGapStep /\ \E a, b \in Nat : Freed(a, b)
  <2>1. PICK a \in Nat, b \in Nat : Freed(a, b)
    BY <1>6
  <2>2. /\ HasKind(a, "free") /\ a + disk[a].size = b + 1 /\ b + 1 < end
        /\ segs = <<[first |-> a, last |-> b], Ending>>
    BY <2>1 DEF Freed
  <2>3. /\ Len(segs) = 2 /\ segs[1] = [first |-> a, last |-> b]
        /\ segs[2].last = START_BIG_FILE
    BY <2>2 DEF Ending
  <2>4. Len(segs') = 2 /\ segs'[1] = [first |-> a, last |-> b] /\ segs'[2] = Ending'
    BY <1>2, <1>4, <2>3
  <2>5. segs' = <<[first |-> a, last |-> b], Ending'>>
    BY <1>2, <2>4
  <2>6. HasKind(a, "free")' /\ a + disk'[a].size = b + 1 /\ b + 1 < end'
    BY <1>1, <2>2, SeekLeadsOn
  <2>7. Freed(a, b)'
    BY <2>5, <2>6 DEF Freed
  <2> QED
    BY <1>2, <1>3, <1>6, <2>7 DEF Segments
<1>7. CASE /\ AfterGapStep /\ Len(segs) = 1 /\ segs[1].last > START_BIG_FILE
           /\ end > START_BIG_FILE
  <2>1. START_BIG_FILE \in Nat /\ segs[1].last \in Nat
    <3>1. segs[1] \in Seg
      BY <1>1, <1>7
    <3> QED
      BY <3>1, Sizes DEF Seg
  <2>2. Len(segs') = 1 /\ segs'[1] = segs[1]
    BY <1>2, <1>7, <2>1
  <2> QED
    BY <1>1, <1>2, <1>3, <1>7, <2>1, <2>2 DEF Segments
<1> QED
  BY <1>5, <1>6, <1>7 DEF Segments

-----------------------------------------------------------------------------
(* The steps that write a record at END *)

LEMMA ContinueMeans ==
  ASSUME NEW outcome, Continue(outcome)
  PROVE  IF outcome = "killed" THEN phase' = "killed" /\ step' = "none"
         ELSE \E ok \in BOOLEAN :
                /\ ok <=> outcome = "done"
                /\ phase' = Following(ok)[1] /\ step' = Following(ok)[2]
<1>1. CASE outcome = "killed"
  BY <1>1 DEF Continue
<1>2. CASE outcome # "killed"
  BY <1>2 DEF Continue
<1> QED
  BY <1>1, <1>2

LEMMA WriteRecordMeans ==
  ASSUME Types, NEW outcome \in Outcomes, NEW seek, NEW size, NEW kind, NEW body,
         WriteRecord(seek, size, kind, body, outcome)
  PROVE  /\ disk' = Put(seek, [kind |-> kind, size |-> size, body |-> body,
                               whole |-> outcome = "done"])
         /\ errors' \in Nat /\ errors <= errors'
         /\ outcome \in {"done", "killed", "error"}
         /\ errors' = 0 => errors = 0 /\ outcome # "error"
<1>1. errors \in Nat
  BY DEF Types
<1>2. outcome \in {"done", "killed", "error"}
  BY DEF Outcomes
<1> QED
  BY <1>1, <1>2 DEF WriteRecord

\* What a write at END has done before its own members are set.
Appends(rec) ==
  /\ rec \in Record /\ rec.kind # "directory"
  /\ rec.kind = "keys" => KeysLead(rec.body)
  /\ disk' = Put(end, rec) /\ end' = end + rec.size /\ segs' = WithEnd(segs, end')
  /\ errors' \in Nat /\ errors <= errors'
  /\ AfterGapStep => AfterGapStep'
  /\ UNCHANGED <<header, directory>>

LEMMA Appended ==
  ASSUME IInv, NEW rec, Appends(rec)
  PROVE  /\ end' \in Nat /\ end < end' /\ BEGIN + KeyLength + DirectorySize <= end'
         /\ segs' \in Seq(Seg) /\ segs' # <<>> /\ Segments'
         /\ DOMAIN disk' \subseteq Nat /\ disk' \in [DOMAIN disk' -> Record]
         /\ end \in DOMAIN disk' /\ disk'[end] = rec
         /\ \A s \in DOMAIN disk : disk'[s] = disk[s]
         /\ Kept /\ Layout'
         /\ \A ks : KeysLead(ks) => KeysLead(ks)'
         /\ \A s \in DOMAIN disk' : disk'[s].kind = "directory" <=> s = BEGIN
         /\ \A s \in DOMAIN disk' : disk'[s].kind = "keys" => KeysLead(disk[s].body)'
         /\ header'.info # NoSeek => HasKind(header.info, "infos")'
         /\ directory' # NoSeek => IsWhole(directory, "keys")'
         /\ seekInfo # NoSeek => seekInfo \in DOMAIN disk' /\ disk'[seekInfo].kind = "infos"
         /\ seekFree # NoSeek => /\ seekFree \in DOMAIN disk' /\ disk'[seekFree].kind = "free"
                                 /\ disk'[seekFree].size = nbytesFree
                                 /\ KeyLength <= nbytesFree
                                 /\ seekFree + nbytesFree < end'
<1>1. /\ Types /\ Layout /\ Seeks /\ FreeRecord /\ Segments
  BY DEF IInv
<1>2. /\ rec \in Record /\ rec.kind # "directory"
      /\ rec.kind = "keys" => KeysLead(rec.body)
      /\ disk' = Put(end, rec) /\ end' = end + rec.size /\ segs' = WithEnd(segs, end')
      /\ errors' \in Nat /\ errors <= errors'
      /\ AfterGapStep => AfterGapStep'
      /\ UNCHANGED <<header, directory>>
  BY DEF Appends
<1>3. /\ end \notin DOMAIN disk /\ DOMAIN disk' = DOMAIN disk \cup {end}
      /\ disk'[end] = rec /\ \A s \in DOMAIN disk : disk'[s] = disk[s]
      /\ Kept /\ Layout'
      /\ DOMAIN disk' \subseteq Nat /\ disk' \in [DOMAIN disk' -> Record]
  BY <1>1, <1>2, PutAtEnd
<1>4. /\ \A s \in DOMAIN disk' : disk'[s].kind = "directory" <=> s = BEGIN
      /\ \A s \in DOMAIN disk' : disk'[s].kind = "keys" => KeysLead(disk[s].body)'
      /\ header'.info # NoSeek => HasKind(header.info, "infos")'
      /\ directory' # NoSeek => IsWhole(directory, "keys")'
  BY <1>1, <1>2, AppendLeads
<1>5. end' \in Nat /\ end < end' /\ BEGIN + KeyLength + DirectorySize <= end'
  <2>1. end \in Nat /\ BEGIN + KeyLength + DirectorySize <= end
    BY <1>1 DEF Types
  <2>2. BEGIN \in Nat /\ KeyLength \in Nat /\ DirectorySize \in Nat
    BY Sizes
  <2>3. rec.size \in Nat \ {0}
    BY <1>2 DEF Record
  <2> QED
    BY <1>2, <2>1, <2>2, <2>3
<1>6. segs' \in Seq(Seg) /\ segs' # <<>> /\ Segments'
  <2>1. end \in Nat
    BY <1>1 DEF Types
  <2>2. PICK e \in Nat : e = end'
    BY <1>5
  <2>3. end <= e
    BY <1>5, <2>1, <2>2
  <2> QED
    BY <1>1, <1>2, <1>3, <2>2, <2>3, ClaimSegments
<1>7. ASSUME NEW ks, KeysLead(ks)
      PROVE  KeysLead(ks)'
  BY <1>1, <1>2, <1>3, <1>7, KeysLeadOn
<1>8. seekInfo # NoSeek => seekInfo \in DOMAIN disk' /\ disk'[seekInfo].kind = "infos"
  BY <1>1, <1>3 DEF Seeks, HasKind
<1>9. ASSUME seekFree # NoSeek
      PROVE  /\ seekFree \in DOMAIN disk' /\ disk'[seekFree].kind = "free"
             /\ disk'[seekFree].size = nbytesFree
             /\ KeyLength <= nbytesFree
             /\ seekFree + nbytesFree < end'
  <2>1. /\ seekFree \in DOMAIN disk /\ disk[seekFree].kind = "free"
        /\ disk[seekFree].size = nbytesFree /\ KeyLength <= nbytesFree
    BY <1>1, <1>9 DEF FreeRecord, HasKind
  <2>2. seekFree + disk[seekFree].size <= end
    BY <1>1, <2>1 DEF Layout
  <2>3. seekFree \in Nat /\ nbytesFree \in Nat /\ end \in Nat
    BY <1>1 DEF Types
  <2> QED
    BY <1>3, <1>5, <2>1, <2>2, <2>3
<1> QED
  BY <1>3, <1>4, <1>5, <1>6, <1>7, <1>8, <1>9

LEMMA BasketKeeps ==
  ASSUME IInv, WriteBasket
  PROVE  IInv' /\ Kept
<1>1. PICK size \in BasketSizes, outcome \in Outcomes :
        /\ WriteRecord(end, BasketKey + size, "basket", <<>>, outcome)
        /\ Claim(BasketKey + size) /\ Continue(outcome)
  BY DEF WriteBasket
<1>2. Types /\ phase = "running"
  BY DEF IInv, WriteBasket
<1> DEFINE rec == [kind |-> "basket", size |-> BasketKey + size, body |-> <<>>,
                   whole |-> outcome = "done"]
<1>3. /\ disk' = Put(end, rec) /\ errors' \in Nat /\ errors <= errors'
      /\ outcome \in {"done", "killed", "error"}
      /\ errors' = 0 => errors = 0 /\ outcome # "error"
  BY <1>1, <1>2, WriteRecordMeans
<1>4. /\ phase' \in {"running", "killed"} /\ step' = "none"
      /\ phase' = "killed" <=> outcome = "killed"
  <2>1. \A ok \in BOOLEAN : Following(ok) = <<"running", "none">>
    BY <1>2 DEF Following
  <2> QED
    BY <1>1, <2>1, ContinueMeans
<1>5. rec \in Record /\ rec.kind = "basket"
  <2>1. BasketKey + size \in Nat \ {0}
    BY Sizes DEF BasketKey
  <2>2. <<>> \in Seq(Key)
    OBVIOUS
  <2> QED
    BY <2>1, <2>2 DEF Record
<1>6. Appends(rec)
  <2>1. end' = end + rec.size /\ segs' = WithEnd(segs, end')
    BY <1>1 DEF Claim
  <2>2. ~AfterGapStep
    BY <1>2 DEF AfterGapStep
  <2>3. UNCHANGED <<header, directory>>
    BY DEF WriteBasket
  <2> QED
    BY <1>3, <1>5, <2>1, <2>2, <2>3 DEF Appends
<1> HIDE DEF rec
<1>7. UNCHANGED <<seekFree, nbytesFree, seekInfo, seekKeys, keys, header, directory, refused>>
  BY DEF WriteBasket
<1>a. /\ end' \in Nat /\ end < end' /\ BEGIN + KeyLength + DirectorySize <= end'
      /\ segs' \in Seq(Seg) /\ segs' # <<>> /\ Segments'
      /\ DOMAIN disk' \subseteq Nat /\ disk' \in [DOMAIN disk' -> Record]
      /\ Kept /\ Layout'
  BY <1>6, Appended
<1>8. Types'
  BY <1>2, <1>3, <1>7, <1>a DEF Types
<1>9. Control'
  BY <1>2, <1>4, <1>7 DEF IInv, Control
<1>10. Seeks'
  <2>1. KeysLead(keys)
    BY <1>2 DEF IInv, Seeks
  <2>2. KeysLead(keys)'
    BY <1>6, <1>7, <2>1, Appended
  <2>3. seekInfo # NoSeek => HasKind(seekInfo, "infos")'
    BY <1>6, <1>7, Appended DEF HasKind
  <2> QED
    BY <1>6, <2>2, <2>3, <1>7, Appended DEF Seeks
<1>11. FreeRecord'
  BY <1>2, <1>7 DEF IInv, Control, FreeRecord
<1>12. Pointers'
  BY <1>2, <1>4, <1>7 DEF IInv, Control, Pointers, KeysToCome
<1>13. Complete'
  <2>1. errors' = 0 /\ ~refused' /\ phase' # "killed" => header.written /\ IsWhole(BEGIN, "directory")
    BY <1>2, <1>3, <1>7 DEF IInv, Complete, Good
  <2>2. IsWhole(BEGIN, "directory") => IsWhole(BEGIN, "directory")'
    BY <1>a, WholeStaysWhole
  <2> QED
    BY <1>4, <1>7, <2>1, <2>2 DEF Complete, Good, KeysToCome, Closing
<1> QED
  BY <1>a, <1>8, <1>9, <1>10, <1>11, <1>12, <1>13 DEF IInv

\* The order of the writes of write() and close().
LEMMA StepOrder ==
  ASSUME NEW outcome, Continue(outcome), outcome # "killed", phase \in {"writing", "closing"}
  PROVE
    /\ phase = "writing" /\ outcome # "done" => phase' = "closing" /\ step' = "keys"
    /\ phase = "writing" /\ outcome = "done" =>
         /\ step \in {"object", "keys", "pointer", "infos", "free"} => phase' = "writing"
         /\ step = "object" => step' = IF Len(keys) + 1 < Len(Objects) THEN "object" ELSE "keys"
         /\ step = "keys" => step' = "pointer"
         /\ step = "pointer" => step' = "infos"
         /\ step = "infos" => step' = FreeStep
         /\ step = "free" => step' = "header"
         /\ step = "header" => phase' = "closing" /\ step' = "keys"
    /\ phase = "closing" =>
         /\ step \in {"keys", "pointer", "gap", "free"} => phase' = "closing"
         /\ step = "keys" => step' = IF outcome = "done" THEN "pointer" ELSE FreeStep
         /\ step = "pointer" => step' = FreeStep
         /\ step = "gap" => step' = IF outcome = "done" THEN "free" ELSE "header"
         /\ step = "free" => step' = "header"
         /\ step = "header" => phase' = "closed" /\ step' = "none"
<1>1. PICK ok \in BOOLEAN : /\ ok <=> outcome = "done"
                            /\ phase' = Following(ok)[1] /\ step' = Following(ok)[2]
  BY ContinueMeans
<1>2. CASE phase = "writing" /\ ~ok
  <2>1. Following(ok) = <<"closing", "keys">>
    BY <1>2 DEF Following, AfterFailedWrite
  <2> QED
    BY <1>1, <1>2, <2>1
<1>3. CASE phase = "writing" /\ ok
  <2>1. /\ step = "object" => Following(ok) = <<"writing", IF Len(keys) + 1 < Len(Objects) THEN "object" ELSE "keys">>
        /\ step = "keys" => Following(ok) = <<"writing", "pointer">>
        /\ step = "pointer" => Following(ok) = <<"writing", "infos">>
        /\ step = "infos" => Following(ok) = <<"writing", FreeStep>>
        /\ step = "free" => Following(ok) = <<"writing", "header">>
        /\ step = "header" => Following(ok) = <<"closing", "keys">>
    BY <1>3 DEF Following, AfterObject, AfterKeys, AfterFree
  <2>2. /\ step = "object" => /\ phase' = "writing"
                              /\ step' = IF Len(keys) + 1 < Len(Objects) THEN "object" ELSE "keys"
        /\ step = "keys" => phase' = "writing" /\ step' = "pointer"
        /\ step = "pointer" => phase' = "writing" /\ step' = "infos"
        /\ step = "infos" => phase' = "writing" /\ step' = FreeStep
        /\ step = "free" => phase' = "writing" /\ step' = "header"
        /\ step = "header" => phase' = "closing" /\ step' = "keys"
    BY <1>1, <2>1
  <2> QED
    BY <1>1, <1>3, <2>2
<1>4. CASE phase = "closing"
  <2>1. /\ step = "keys" => Following(ok) = <<"closing", IF ok THEN "pointer" ELSE FreeStep>>
        /\ step = "pointer" => Following(ok) = <<"closing", FreeStep>>
        /\ step = "gap" => Following(ok) = <<"closing", IF ok THEN "free" ELSE "header">>
        /\ step = "free" => Following(ok) = <<"closing", "header">>
        /\ step = "header" => Following(ok) = <<"closed", "none">>
    BY <1>4 DEF Following, AfterKeys, AfterGap, AfterFree
  <2> QED
    BY <1>1, <1>4, <2>1
<1> QED
  BY <1>2, <1>3, <1>4

LEMMA ObjectKeeps ==
  ASSUME IInv, WriteObject
  PROVE  IInv' /\ Kept
<1> DEFINE name == Objects[Len(keys) + 1]
           key == [name |-> name, seek |-> end, big |-> end > START_BIG_FILE]
<1>1. PICK size \in ObjectSizes, kept \in ObjectSizes, outcome \in Outcomes :
        /\ WriteRecord(end, HeadSize + kept, "object", name, outcome)
        /\ keys' = Append(keys, key) /\ end' = end + HeadSize + kept
        /\ segs' = WithEnd(WithEnd(segs, end + HeadSize + size), end')
        /\ Continue(outcome)
  BY DEF WriteObject
<1>2. /\ Types /\ phase = "writing" /\ step = "object" /\ directory = NoSeek
      /\ seekFree = NoSeek /\ Len(keys) < Len(Objects) /\ KeysLead(keys)
  BY DEF IInv, WriteObject, Control, Seeks
<1>3. /\ end \in Nat /\ HeadSize \in Nat /\ HeadSize > 0 /\ size \in Nat /\ kept \in Nat
      /\ keys \in Seq(Key) /\ Len(keys) \in Nat /\ Len(Objects) \in Nat
      /\ segs \in Seq(Seg) /\ segs # <<>>
  <2>1. Objects \in Seq(Names)
    BY WrootFileAssumption DEF WrootFileAssumption, Names
  <2> QED
    BY <1>2, <2>1, HeadSizeType, Sizes, LenProperties DEF Types
<1>4. name \in Names
  BY <1>2, <1>3, WrootFileAssumption DEF WrootFileAssumption, Names
<1> HIDE DEF name
<1>5. key \in Key /\ key.name = name /\ key.seek = end
  BY <1>3, <1>4 DEF Key
<1> HIDE DEF key
<1> DEFINE rec == [kind |-> "object", size |-> HeadSize + kept, body |-> name,
                   whole |-> outcome = "done"]
<1>6. /\ disk' = Put(end, rec) /\ errors' \in Nat /\ errors <= errors'
      /\ outcome \in {"done", "killed", "error"}
      /\ errors' = 0 => errors = 0 /\ outcome # "error"
  BY <1>1, <1>2, WriteRecordMeans
<1>7. /\ outcome = "killed" => phase' = "killed" /\ step' = "none"
      /\ outcome = "error" => phase' = "closing" /\ step' = "keys"
      /\ outcome = "done" =>
           /\ phase' = "writing"
           /\ step' = IF Len(keys) + 1 < Len(Objects) THEN "object" ELSE "keys"
  BY <1>1, <1>2, ContinueMeans, StepOrder
<1>8. /\ rec \in Record /\ rec.kind = "object" /\ rec.body = name /\ rec.size = HeadSize + kept
      /\ rec.whole <=> outcome = "done"
  <2>1. HeadSize + kept \in Nat \ {0}
    BY <1>3
  <2>2. rec \in Record
    BY <1>4, <2>1 DEF Record
  <2> QED
    BY <2>2
<1> HIDE DEF rec
<1>9. Appends(rec)
  <2>1. end' = end + rec.size
    BY <1>1, <1>3, <1>8
  <2>2. end + HeadSize + size \in Nat /\ end + HeadSize + kept \in Nat
    BY <1>3
  <2>3. segs' = WithEnd(segs, end')
    BY <1>1, <1>3, <2>2, WithEndTwice
  <2>4. ~AfterGapStep
    BY <1>2 DEF AfterGapStep
  <2>5. UNCHANGED <<header, directory>>
    BY DEF WriteObject
  <2> QED
    BY <1>6, <1>8, <2>1, <2>3, <2>4, <2>5 DEF Appends
<1>10. UNCHANGED <<seekFree, nbytesFree, seekInfo, seekKeys, header, directory, refused>>
  BY DEF WriteObject
<1>a. /\ end' \in Nat /\ end < end' /\ BEGIN + KeyLength + DirectorySize <= end'
      /\ segs' \in Seq(Seg) /\ segs' # <<>> /\ Segments'
      /\ DOMAIN disk' \subseteq Nat /\ disk' \in [DOMAIN disk' -> Record]
      /\ end \in DOMAIN disk' /\ disk'[end] = rec
      /\ Kept /\ Layout'
  BY <1>9, Appended
<1>b. /\ keys' \in Seq(Key) /\ Len(keys') = Len(keys) + 1
      /\ \A i \in 1 .. Len(keys) : keys'[i] = keys[i]
      /\ keys'[Len(keys) + 1] = key /\ DOMAIN keys' = 1 .. Len(keys) + 1
  BY <1>1, <1>3, <1>5
<1>11. Types'
  <2>1. keys' \in Seq(Key) /\ Len(keys') <= Len(Objects)
    BY <1>2, <1>3, <1>b
  <2> QED
    BY <1>2, <1>6, <1>10, <1>a, <2>1 DEF Types
<1>12. Control'
  BY <1>2, <1>3, <1>6, <1>7, <1>10, <1>b DEF Control
<1>13. Seeks'
  <2>1. KeysLead(keys)' \/ phase' = "killed"
    <3> SUFFICES ASSUME phase' # "killed"
                 PROVE  KeysLead(keys)'
      OBVIOUS
    <3>1. PICK ks : ks = keys
      OBVIOUS
    <3>2. KeysLead(ks)' /\ DOMAIN ks = 1 .. Len(keys)
      BY <1>2, <1>3, <1>9, <3>1, Appended
    <3>3. ASSUME NEW i \in 1 .. Len(keys)
          PROVE  /\ keys'[i].name = Objects[i] /\ HasKind(keys[i].seek, "object")'
                 /\ disk'[keys'[i].seek].body = keys'[i].name
                 /\ errors' = 0 => disk'[keys'[i].seek].whole
      BY <1>b, <3>1, <3>2 DEF KeysLead, HasKind
    <3>4. /\ key.name = Objects[Len(keys) + 1] /\ key.seek \in DOMAIN disk'
          /\ disk'[key.seek].kind = "object" /\ disk'[key.seek].body = key.name
          /\ errors' = 0 => disk'[key.seek].whole
      BY <1>5, <1>6, <1>7, <1>8, <1>a DEF name
    <3>5. ASSUME NEW i \in DOMAIN keys'
          PROVE  /\ keys'[i].name = Objects[i] /\ HasKind(keys[i].seek, "object")'
                 /\ disk'[keys'[i].seek].body = keys'[i].name
                 /\ errors' = 0 => disk'[keys'[i].seek].whole
      <4>1. CASE i = Len(keys) + 1
        BY <1>b, <3>4, <4>1 DEF HasKind
      <4>2. CASE i \in 1 .. Len(keys)
        BY <3>3, <4>2
      <4> QED
        BY <1>3, <1>b, <4>1, <4>2
    <3>6. Len(keys') <= Len(Objects)
      BY <1>2, <1>3, <1>b
    <3> QED
      BY <1>b, <3>5, <3>6 DEF KeysLead
  <2>2. seekInfo # NoSeek => HasKind(seekInfo, "infos")'
    BY <1>9, <1>10, Appended DEF HasKind
  <2> QED
    BY <1>9, <1>10, <2>1, <2>2, Appended DEF Seeks
<1>14. FreeRecord'
  BY <1>2, <1>10 DEF FreeRecord
<1>15. Pointers'
  BY <1>2, <1>6, <1>7, <1>10 DEF Pointers
<1>16. Complete'
  <2>1. errors' = 0 /\ ~refused' /\ phase' # "killed" =>
          /\ header.written /\ IsWhole(BEGIN, "directory") /\ outcome = "done"
    BY <1>2, <1>6, <1>7, <1>10 DEF IInv, Complete, Good
  <2>2. IsWhole(BEGIN, "directory") => IsWhole(BEGIN, "directory")'
    BY <1>a, WholeStaysWhole
  <2>3. phase' = "writing" /\ step' # "object" => Len(keys') = Len(Objects)
    BY <1>2, <1>3, <1>6, <1>7, <1>b
  <2> QED
    BY <1>7, <1>10, <2>1, <2>2, <2>3 DEF Complete, Good, KeysToCome, Closing
<1> QED
  BY <1>a, <1>11, <1>12, <1>13, <1>14, <1>15, <1>16 DEF IInv

LEMMA KeysKeep ==
  ASSUME IInv, WriteKeys
  PROVE  IInv' /\ Kept
<1>1. PICK outcome \in Outcomes :
        /\ WriteRecord(end, HeadSize + KeysSize, "keys", keys, outcome)
        /\ Claim(HeadSize + KeysSize) /\ seekKeys' = end /\ Continue(outcome)
  BY DEF WriteKeys
<1>2. /\ Types /\ phase \in {"writing", "closing"} /\ step = "keys" /\ KeysLead(keys)
      /\ phase = "writing" => seekFree = NoSeek /\ directory = NoSeek
  BY DEF IInv, WriteKeys, Control, Seeks
<1> DEFINE rec == [kind |-> "keys", size |-> HeadSize + KeysSize, body |-> keys,
                   whole |-> outcome = "done"]
<1>3. /\ disk' = Put(end, rec) /\ errors' \in Nat /\ errors <= errors'
      /\ outcome \in {"done", "killed", "error"}
      /\ errors' = 0 => errors = 0 /\ outcome # "error"
  BY <1>1, <1>2, WriteRecordMeans
<1>4. /\ outcome = "killed" => phase' = "killed" /\ step' = "none"
      /\ outcome = "error" =>
           /\ phase' = "closing"
           /\ step' = IF phase = "writing" THEN "keys" ELSE FreeStep
      /\ outcome = "done" => phase' = phase /\ step' = "pointer"
  BY <1>1, <1>2, ContinueMeans, StepOrder
<1>5. /\ rec \in Record /\ rec.kind = "keys" /\ rec.body = keys
      /\ rec.size = HeadSize + KeysSize
      /\ rec.whole <=> outcome = "done"
  <2>1. HeadSize + KeysSize \in Nat \ {0}
    BY <1>2, HeadSizeType, KeysSizeType
  <2>2. keys \in Seq(Key)
    BY <1>2 DEF Types
  <2>3. rec \in Record
    BY <2>1, <2>2 DEF Record
  <2> QED
    BY <2>3
<1> HIDE DEF rec
<1>6. Appends(rec)
  <2>1. end' = end + rec.size /\ segs' = WithEnd(segs, end')
    BY <1>1, <1>5 DEF Claim
  <2>2. ~AfterGapStep
    BY <1>2 DEF AfterGapStep
  <2>3. UNCHANGED <<header, directory>>
    BY DEF WriteKeys
  <2> QED
    BY <1>2, <1>3, <1>5, <2>1, <2>2, <2>3 DEF Appends
<1>7. UNCHANGED <<seekFree, nbytesFree, seekInfo, keys, header, directory, refused>>
  BY DEF WriteKeys
<1>a. /\ end' \in Nat /\ end < end' /\ BEGIN + KeyLength + DirectorySize <= end'
      /\ segs' \in Seq(Seg) /\ segs' # <<>> /\ Segments'
      /\ DOMAIN disk' \subseteq Nat /\ disk' \in [DOMAIN disk' -> Record]
      /\ end \in DOMAIN disk' /\ disk'[end] = rec
      /\ Kept /\ Layout'
  BY <1>6, Appended
<1>8. Types'
  BY <1>1, <1>2, <1>3, <1>7, <1>a DEF Types
<1>9. Control'
  BY <1>2, <1>3, <1>4, <1>7 DEF Control, FreeStep
<1>10. Seeks'
  <2>1. KeysLead(keys)'
    BY <1>2, <1>6, <1>7, Appended
  <2>2. seekInfo # NoSeek => HasKind(seekInfo, "infos")'
    BY <1>6, <1>7, Appended DEF HasKind
  <2> QED
    BY <1>6, <1>7, <2>1, <2>2, Appended DEF Seeks
<1>11. FreeRecord'
  BY <1>6, <1>7, Appended DEF FreeRecord, HasKind
<1>b. directory # NoSeek =>
        /\ phase = "closing" /\ disk[directory].body = keys
        /\ disk'[directory].body = disk[directory].body
  <2>1. directory # NoSeek => IsWhole(directory, "keys") /\ disk[directory].body = keys
    BY <1>2 DEF IInv, Seeks, Pointers, KeysToCome
  <2> QED
    BY <1>2, <1>a, <2>1, WholeStaysWhole
<1>12. Pointers'
  <2>1. step' = "pointer" => IsWhole(seekKeys, "keys")' /\ disk'[seekKeys'].body = keys'
    BY <1>1, <1>2, <1>3, <1>4, <1>5, <1>7, <1>a DEF IsWhole, FreeStep
  <2>2. directory' # NoSeek => disk'[directory'].body = keys'
    BY <1>7, <1>b
  <2> QED
    BY <2>1, <2>2 DEF Pointers
<1>13. Complete'
  <2>1. errors' = 0 /\ ~refused' /\ phase' # "killed" =>
          /\ header.written /\ IsWhole(BEGIN, "directory") /\ Len(keys) = Len(Objects)
          /\ phase' = phase /\ step' = "pointer"
          /\ phase = "closing" =>
               /\ directory # NoSeek /\ Len(disk[directory].body) = Len(Objects)
               /\ IsWhole(seekInfo, "infos")
    BY <1>2, <1>3, <1>4, <1>7 DEF IInv, Complete, Good, KeysToCome, Closing
  <2>2. /\ IsWhole(BEGIN, "directory") => IsWhole(BEGIN, "directory")'
        /\ IsWhole(seekInfo, "infos") => IsWhole(seekInfo, "infos")'
    <3>1. PICK info : info = seekInfo
      OBVIOUS
    <3>2. IsWhole(info, "infos") => IsWhole(info, "infos")'
      BY <1>a, WholeStaysWhole
    <3> QED
      BY <1>7, <1>a, <3>1, <3>2, WholeStaysWhole DEF IsWhole
  <2>3. SUFFICES ASSUME Good'
                 PROVE  /\ header'.written /\ IsWhole(BEGIN, "directory")'
                        /\ phase' = phase /\ step' = "pointer" /\ Len(keys') = Len(Objects)
                        /\ phase = "closing" =>
                             /\ directory' # NoSeek
                             /\ Len(disk'[directory'].body) = Len(Objects)
                             /\ IsWhole(seekInfo, "infos")'
    BY <1>2 DEF Complete, KeysToCome, Closing
  <2>4. errors' = 0 /\ ~refused' /\ phase' # "killed"
    BY <2>3 DEF Good
  <2> QED
    BY <1>7, <1>b, <2>1, <2>2, <2>4
<1> QED
  BY <1>a, <1>8, <1>9, <1>10, <1>11, <1>12, <1>13 DEF IInv

LEMMA InfosKeep ==
  ASSUME IInv, WriteInfos
  PROVE  IInv' /\ Kept
<1>1. PICK outcome \in Outcomes :
        /\ WriteRecord(end, HeadSize + InfosSize, "infos", <<>>, outcome)
        /\ Claim(HeadSize + InfosSize) /\ seekInfo' = end /\ Continue(outcome)
  BY DEF WriteInfos
<1>2. /\ Types /\ phase = "writing" /\ step = "infos" /\ KeysLead(keys)
      /\ seekFree = NoSeek
  BY DEF IInv, WriteInfos, Control, Seeks
<1> DEFINE rec == [kind |-> "infos", size |-> HeadSize + InfosSize, body |-> <<>>,
                   whole |-> outcome = "done"]
<1>3. /\ disk' = Put(end, rec) /\ errors' \in Nat /\ errors <= errors'
      /\ outcome \in {"done", "killed", "error"}
      /\ errors' = 0 => errors = 0 /\ outcome # "error"
  BY <1>1, <1>2, WriteRecordMeans
<1>4. /\ outcome = "killed" => phase' = "killed" /\ step' = "none"
      /\ outcome = "error" => phase' = "closing" /\ step' = "keys"
      /\ outcome = "done" => phase' = "writing" /\ step' = "free"
  BY <1>1, <1>2, ContinueMeans, StepOrder DEF FreeStep
<1>5. /\ rec \in Record /\ rec.kind = "infos"
      /\ rec.size = HeadSize + InfosSize
      /\ rec.whole <=> outcome = "done"
  <2>1. HeadSize + InfosSize \in Nat \ {0}
    BY <1>2, HeadSizeType, Sizes
  <2>2. <<>> \in Seq(Key)
    OBVIOUS
  <2>3. rec \in Record
    BY <2>1, <2>2 DEF Record
  <2> QED
    BY <2>3
<1> HIDE DEF rec
<1>6. Appends(rec)
  <2>1. end' = end + rec.size /\ segs' = WithEnd(segs, end')
    BY <1>1, <1>5 DEF Claim
  <2>2. ~AfterGapStep
    BY <1>2 DEF AfterGapStep
  <2>3. UNCHANGED <<header, directory>>
    BY DEF WriteInfos
  <2> QED
    BY <1>3, <1>5, <2>1, <2>2, <2>3 DEF Appends
<1>7. UNCHANGED <<seekFree, nbytesFree, seekKeys, keys, header, directory, refused>>
  BY DEF WriteInfos
<1>a. /\ end' \in Nat /\ end < end' /\ BEGIN + KeyLength + DirectorySize <= end'
      /\ segs' \in Seq(Seg) /\ segs' # <<>> /\ Segments'
      /\ DOMAIN disk' \subseteq Nat /\ disk' \in [DOMAIN disk' -> Record]
      /\ end \in DOMAIN disk' /\ disk'[end] = rec
      /\ Kept /\ Layout'
  BY <1>6, Appended
<1>8. Types'
  BY <1>1, <1>2, <1>3, <1>7, <1>a DEF Types
<1>9. Control'
  BY <1>2, <1>3, <1>4, <1>7 DEF Control
<1>10. Seeks'
  <2>1. KeysLead(keys)'
    BY <1>2, <1>6, <1>7, Appended
  <2>2. HasKind(seekInfo, "infos")'
    BY <1>1, <1>5, <1>a DEF HasKind
  <2> QED
    BY <1>6, <1>7, <2>1, <2>2, Appended DEF Seeks
<1>11. FreeRecord'
  BY <1>2, <1>7 DEF FreeRecord
<1>b. directory # NoSeek =>
        /\ disk[directory].body = keys
        /\ disk'[directory].body = disk[directory].body
  <2>1. directory # NoSeek => IsWhole(directory, "keys") /\ disk[directory].body = keys
    BY <1>2 DEF IInv, Seeks, Pointers
  <2> QED
    BY <1>a, <2>1, WholeStaysWhole
<1>12. Pointers'
  BY <1>3, <1>4, <1>7, <1>b DEF Pointers
<1>13. Complete'
  <2>1. errors' = 0 /\ ~refused' /\ phase' # "killed" =>
          /\ header.written /\ IsWhole(BEGIN, "directory") /\ Len(keys) = Len(Objects)
          /\ phase' = "writing" /\ step' = "free" /\ outcome = "done"
          /\ directory # NoSeek /\ Len(disk[directory].body) = Len(Objects)
    BY <1>2, <1>3, <1>4, <1>7 DEF IInv, Complete, Good, KeysToCome, Closing
  <2>2. IsWhole(BEGIN, "directory") => IsWhole(BEGIN, "directory")'
    BY <1>a, WholeStaysWhole
  <2>3. outcome = "done" => IsWhole(seekInfo, "infos")'
    BY <1>1, <1>5, <1>a DEF IsWhole
  <2>4. SUFFICES ASSUME Good'
                 PROVE  /\ header'.written /\ IsWhole(BEGIN, "directory")'
                        /\ phase' = "writing" /\ step' = "free" /\ Len(keys') = Len(Objects)
                        /\ directory' # NoSeek
                        /\ Len(disk'[directory'].body) = Len(Objects)
                        /\ IsWhole(seekInfo, "infos")'
    BY DEF Complete, KeysToCome, Closing
  <2>5. errors' = 0 /\ ~refused' /\ phase' # "killed"
    BY <2>4 DEF Good
  <2> QED
    BY <1>7, <1>b, <2>1, <2>2, <2>3, <2>5
<1> QED
  BY <1>a, <1>8, <1>9, <1>10, <1>11, <1>12, <1>13 DEF IInv

-----------------------------------------------------------------------------
(* The list of free segments *)

\* Before START_BIG_FILE the list is written in the size that was counted.
LEMMA ListFits ==
  ASSUME Types, Segments, NEW e \in Nat, end <= e, e <= START_BIG_FILE
  PROVE  ListSize(WithEnd(segs, e)) = ListSize(segs)
<1> DEFINE list == WithEnd(segs, e)
<1>1. /\ segs \in Seq(Seg) /\ segs # <<>> /\ end \in Nat /\ Len(segs) \in Nat \ {0}
      /\ START_BIG_FILE \in Nat
  BY EmptySeq, Sizes DEF Types
<1>2. /\ list \in Seq(Seg) /\ Len(list) = Len(segs)
      /\ \A i \in 1 .. Len(segs) - 1 : list[i] = segs[i]
      /\ list[Len(segs)] = IF segs[Len(segs)].last = START_BIG_FILE
                           THEN [first |-> e, last |-> START_BIG_FILE] ELSE segs[Len(segs)]
  BY <1>1, WithEndType
<1> HIDE DEF list
<1>3. segs[Len(segs)].last = START_BIG_FILE => segs[Len(segs)].first <= START_BIG_FILE
  <2>1. CASE segs = <<Ending>>
    <3>1. Len(segs) = 1 /\ segs[1].first = end
      BY <2>1 DEF Ending
    <3> QED
      BY <1>1, <3>1
  <2>2. CASE \E a, b \in Nat : Freed(a, b)
    <3>1. PICK a \in Nat, b \in Nat : segs = <<[first |-> a, last |-> b], Ending>>
      BY <2>2 DEF Freed
    <3>2. Len(segs) = 2 /\ segs[2].first = end
      BY <3>1 DEF Ending
    <3> QED
      BY <1>1, <3>2
  <2>3. CASE end > START_BIG_FILE
    BY <1>1, <2>3
  <2> QED
    BY <2>1, <2>2, <2>3 DEF Segments
<1>4. IsBig(list[Len(segs)]) <=> IsBig(segs[Len(segs)])
  <2>1. CASE segs[Len(segs)].last = START_BIG_FILE
    <3>1. /\ list[Len(segs)].first = e /\ list[Len(segs)].last = START_BIG_FILE
      BY <1>2, <2>1
    <3>2. segs[Len(segs)] \in Seg
      BY <1>1
    <3>3. ~IsBig(list[Len(segs)])
      BY <1>1, <3>1 DEF IsBig
    <3>4. ~IsBig(segs[Len(segs)])
      BY <1>1, <1>3, <2>1, <3>2 DEF IsBig, Seg
    <3> QED
      BY <3>3, <3>4
  <2>2. CASE segs[Len(segs)].last # START_BIG_FILE
    BY <1>2, <2>2
  <2> QED
    BY <2>1, <2>2
<1>5. \A i \in 1 .. Len(segs) : IsBig(list[i]) <=> IsBig(segs[i])
  <2> SUFFICES ASSUME NEW i \in 1 .. Len(segs)
               PROVE  IsBig(list[i]) <=> IsBig(segs[i])
    OBVIOUS
  <2>1. CASE i = Len(segs)
    BY <1>4, <2>1
  <2>2. CASE i \in 1 .. Len(segs) - 1
    BY <1>2, <2>2
  <2> QED
    BY <1>1, <2>1, <2>2
<1>6. DOMAIN list = 1 .. Len(segs) /\ DOMAIN segs = 1 .. Len(segs)
  BY <1>1, <1>2, LenProperties
<1>7. {i \in DOMAIN list : IsBig(list[i])} = {i \in DOMAIN segs : IsBig(segs[i])}
  BY <1>5, <1>6
<1>8. ListSize(list) = ListSize(segs)
  BY <1>2, <1>7 DEF ListSize
<1> QED
  BY <1>8 DEF list

\* The list does not fit.
LEMMA FreeFailsKeeps ==
  ASSUME IInv, step = "free", Claim(HeadSize + ListSize(segs)),
         ListSize(WithEnd(segs, end + HeadSize + ListSize(segs))) > ListSize(segs),
         Continue("error"), UNCHANGED <<disk, errors, seekFree, nbytesFree, seekInfo, seekKeys,
                                        keys, header, directory, refused>>
  PROVE  IInv' /\ Kept
<1>1. /\ Types /\ phase \in {"writing", "closing"} /\ Segments
  BY DEF IInv, Control
<1>2. /\ phase' = "closing" /\ step' = IF phase = "writing" THEN "keys" ELSE "header"
  BY <1>1, StepOrder
<1>3. /\ HeadSize \in Nat /\ ListSize(segs) \in Nat /\ HeadSize > 0 /\ end \in Nat
      /\ BEGIN + KeyLength + DirectorySize <= end
      /\ BEGIN \in Nat /\ KeyLength \in Nat /\ DirectorySize \in Nat /\ START_BIG_FILE \in Nat
  BY <1>1, HeadSizeType, ListSizeType, Sizes DEF Types
<1> DEFINE e == end + HeadSize + ListSize(segs)
<1>4. e \in Nat /\ end < e /\ end' = e /\ segs' = WithEnd(segs, e)
  BY <1>3 DEF Claim
<1>5. ListSize(WithEnd(segs, e)) \in Nat
  <2>1. WithEnd(segs, e) \in Seq(Seg)
    BY <1>1, <1>4, WithEndType DEF Types
  <2> QED
    BY <2>1, ListSizeType
<1>6. ~(e <= START_BIG_FILE)
  <2>1. ListSize(WithEnd(segs, e)) # ListSize(segs)
    BY <1>3, <1>5
  <2> QED
    BY <1>1, <1>3, <1>4, <2>1, ListFits
<1> HIDE DEF e
<1>7. Kept
  BY DEF Kept
<1>8. segs' \in Seq(Seg) /\ segs' # <<>> /\ Segments'
  <2>1. AfterGapStep => AfterGapStep'
    BY <1>1, <1>2 DEF AfterGapStep
  <2>2. end <= e
    BY <1>3, <1>4
  <2> QED
    BY <1>1, <1>4, <1>7, <2>1, <2>2, ClaimSegments
<1>9. Types'
  <2>1. end' \in Nat /\ BEGIN + KeyLength + DirectorySize <= end'
    BY <1>3, <1>4
  <2> QED
    BY <1>1, <1>8, <2>1 DEF Types
<1>10. Control'
  BY <1>1, <1>2 DEF IInv, Control
<1>11. Layout'
  <2>1. \A s \in DOMAIN disk : s \in Nat /\ disk[s].size \in Nat
    BY <1>1 DEF Types, Record
  <2> QED
    BY <1>3, <1>4, <2>1 DEF IInv, Layout
<1>12. Seeks'
  <2>1. \A ks : KeysLead(ks) => KeysLead(ks)'
    BY DEF KeysLead, HasKind
  <2> QED
    BY <1>1, <2>1 DEF IInv, Seeks, HasKind, IsWhole
<1>13. FreeRecord'
  <2>1. step' \notin {"pointer", "gap"}
    BY <1>2
  <2> QED
    BY <2>1 DEF IInv, FreeRecord, HasKind
<1>14. Pointers'
  BY <1>1, <1>2 DEF IInv, Pointers, KeysToCome
<1>15. Complete'
  <2>1. SUFFICES ASSUME Good'
                 PROVE  /\ header'.written /\ IsWhole(BEGIN, "directory")'
                        /\ step' = "keys" => Len(keys') = Len(Objects)
                        /\ directory' # NoSeek /\ Len(disk'[directory'].body) = Len(Objects)
                        /\ IsWhole(seekInfo, "infos")'
    BY <1>2, <1>3, <1>4, <1>6 DEF Complete, KeysToCome, Closing
  <2>2. Good
    BY <1>1, <2>1 DEF Good
  <2> QED
    BY <1>1, <1>2, <2>2 DEF IInv, Complete, IsWhole, Closing
<1> QED
  BY <1>7, <1>8, <1>9, <1>10, <1>11, <1>12, <1>13, <1>14, <1>15 DEF IInv

LEMMA FreeKeeps ==
  ASSUME IInv, WriteFree
  PROVE  IInv' /\ Kept
<1> DEFINE size == ListSize(segs)
           list == WithEnd(segs, end + HeadSize + size)
<1>1. CASE ListSize(list) > size
  <2>1. /\ step = "free" /\ Claim(HeadSize + size) /\ Continue("error")
        /\ UNCHANGED <<disk, errors, seekFree, nbytesFree, seekInfo, seekKeys, keys, header,
                       directory, refused>>
    BY <1>1 DEF WriteFree
  <2> QED
    BY <1>1, <2>1, FreeFailsKeeps
<1>2. CASE ~(ListSize(list) > size)
  <2>1. PICK outcome \in Outcomes :
          /\ WriteRecord(end, HeadSize + size, "free", list, outcome)
          /\ Claim(HeadSize + size) /\ seekFree' = end /\ nbytesFree' = HeadSize + size
          /\ Continue(outcome)
    BY <1>2 DEF WriteFree
  <2>2. /\ Types /\ phase \in {"writing", "closing"} /\ step = "free" /\ KeysLead(keys)
    BY DEF IInv, WriteFree, Control, Seeks
  <2>3. /\ HeadSize \in Nat /\ KeyLength <= HeadSize /\ HeadSize > 0 /\ size \in Nat
        /\ end \in Nat /\ KeyLength \in Nat
        /\ segs \in Seq(Seg) /\ segs # <<>>
    BY <2>2, HeadSizeType, ListSizeType, Sizes DEF Types
  <2> HIDE DEF size
  <2>4. list \in Seq(Seg)
    <3>1. end + HeadSize + size \in Nat
      BY <2>3
    <3> QED
      BY <2>3, <3>1, WithEndType
  <2> HIDE DEF list
  <2> DEFINE rec == [kind |-> "free", size |-> HeadSize + size, body |-> list,
                     whole |-> outcome = "done"]
  <2>5. /\ disk' = Put(end, rec) /\ errors' \in Nat /\ errors <= errors'
        /\ outcome \in {"done", "killed", "error"}
        /\ errors' = 0 => errors = 0 /\ outcome # "error"
    BY <2>1, <2>2, WriteRecordMeans
  <2>6. /\ outcome = "killed" => phase' = "killed" /\ step' = "none"
        /\ outcome = "error" =>
             phase' = "closing" /\ step' = IF phase = "writing" THEN "keys" ELSE "header"
        /\ outcome = "done" => phase' = phase /\ step' = "header"
    BY <2>1, <2>2, ContinueMeans, StepOrder
  <2>7. /\ rec \in Record /\ rec.kind = "free" /\ rec.body = list /\ rec.size = HeadSize + size
        /\ rec.whole <=> outcome = "done"
    <3>1. HeadSize + size \in Nat \ {0}
      BY <2>3
    <3>2. rec \in Record
      BY <2>4, <3>1 DEF Record
    <3> QED
      BY <3>2
  <2> HIDE DEF rec
  <2>8. end' = end + rec.size /\ segs' = WithEnd(segs, end') /\ segs' = list
    <3>1. end' = end + (HeadSize + size) /\ segs' = WithEnd(segs, end')
      BY <2>1, <2>7 DEF Claim
    <3>2. end + (HeadSize + size) = end + HeadSize + size
      BY <2>3
    <3> QED
      BY <2>7, <3>1, <3>2 DEF list, size
  <2>9. Appends(rec)
    <3>1. AfterGapStep => AfterGapStep'
      BY <2>2, <2>5, <2>6 DEF AfterGapStep
    <3>2. UNCHANGED <<header, directory>>
      BY DEF WriteFree
    <3> QED
      BY <2>5, <2>7, <2>8, <3>1, <3>2 DEF Appends
  <2>10. UNCHANGED <<seekInfo, seekKeys, keys, header, directory, refused>>
    BY DEF WriteFree
  <2>a. /\ end' \in Nat /\ end < end' /\ BEGIN + KeyLength + DirectorySize <= end'
        /\ segs' \in Seq(Seg) /\ segs' # <<>> /\ Segments'
        /\ DOMAIN disk' \subseteq Nat /\ disk' \in [DOMAIN disk' -> Record]
        /\ end \in DOMAIN disk' /\ disk'[end] = rec
        /\ Kept /\ Layout'
    BY <2>9, Appended
  <2>11. Types'
    <3>1. seekFree' \in Nat /\ nbytesFree' \in Nat
      BY <2>1, <2>3
    <3> QED
      BY <2>2, <2>5, <2>10, <2>a, <3>1 DEF Types
  <2>12. Control'
    BY <2>2, <2>5, <2>6, <2>10 DEF IInv, Control
  <2>13. Seeks'
    <3>1. KeysLead(keys)'
      BY <2>2, <2>9, <2>10, Appended
    <3>2. seekInfo # NoSeek => HasKind(seekInfo, "infos")'
      BY <2>9, <2>10, Appended DEF HasKind
    <3> QED
      BY <2>9, <2>10, <3>1, <3>2, Appended DEF Seeks
  <2>14. FreeRecord'
    <3>1. HasKind(seekFree, "free")' /\ disk'[seekFree'].size = nbytesFree'
      BY <2>1, <2>7, <2>a DEF HasKind
    <3>2. KeyLength <= nbytesFree'
      BY <2>1, <2>3
    <3>3. step' \notin {"pointer", "gap"}
      BY <2>2, <2>5, <2>6
    <3> QED
      BY <3>1, <3>2, <3>3 DEF FreeRecord
  <2>b. directory # NoSeek => disk'[directory].body = disk[directory].body
    <3>1. directory # NoSeek => IsWhole(directory, "keys")
      BY DEF IInv, Seeks
    <3> QED
      BY <2>a, <3>1, WholeStaysWhole
  <2>15. Pointers'
    <3>1. directory # NoSeek /\ phase = "writing" => disk[directory].body = keys
      BY DEF IInv, Pointers
    <3> QED
      BY <2>2, <2>5, <2>6, <2>10, <2>b, <3>1 DEF Pointers, KeysToCome
  <2>16. Complete'
    <3>1. errors' = 0 /\ ~refused' /\ phase' # "killed" =>
            /\ header.written /\ IsWhole(BEGIN, "directory")
            /\ phase = "writing" => Len(keys) = Len(Objects)
            /\ phase' = phase /\ step' = "header" /\ outcome = "done"
            /\ directory # NoSeek /\ Len(disk[directory].body) = Len(Objects)
            /\ IsWhole(seekInfo, "infos")
      BY <2>2, <2>5, <2>6, <2>10 DEF IInv, Complete, Good, KeysToCome, Closing
    <3>2. /\ IsWhole(BEGIN, "directory") => IsWhole(BEGIN, "directory")'
          /\ IsWhole(seekInfo, "infos") => IsWhole(seekInfo, "infos")'
      <4>1. PICK info : info = seekInfo
        OBVIOUS
      <4>2. IsWhole(info, "infos") => IsWhole(info, "infos")'
        BY <2>a, WholeStaysWhole
      <4> QED
        BY <2>10, <2>a, <4>1, <4>2, WholeStaysWhole DEF IsWhole
    <3>3. outcome = "done" => IsWhole(seekFree, "free")' /\ disk'[seekFree'].body = segs'
      BY <2>1, <2>7, <2>8, <2>a DEF IsWhole
    <3>4. SUFFICES ASSUME Good'
                   PROVE  /\ header'.written /\ IsWhole(BEGIN, "directory")'
                          /\ phase' \in {"writing", "closing"} /\ step' = "header"
                          /\ phase' = "writing" => Len(keys') = Len(Objects)
                          /\ directory' # NoSeek /\ Len(disk'[directory'].body) = Len(Objects)
                          /\ IsWhole(seekInfo, "infos")'
                          /\ IsWhole(seekFree, "free")' /\ disk'[seekFree'].body = segs'
      BY DEF Complete, KeysToCome, Closing
    <3>5. errors' = 0 /\ ~refused' /\ phase' # "killed"
      BY <3>4 DEF Good
    <3> QED
      BY <2>2, <2>10, <2>b, <3>1, <3>2, <3>3, <3>5
  <2> QED
    BY <2>a, <2>11, <2>12, <2>13, <2>14, <2>15, <2>16 DEF IInv
<1> QED
  BY <1>1, <1>2

-----------------------------------------------------------------------------
(* The steps that write in place *)

LEMMA NothingWritten ==
  ASSUME Seeks, UNCHANGED <<disk, errors>>
  PROVE  Kept /\ (\A ks : KeysLead(ks) => KeysLead(ks)')
BY DEF Kept, KeysLead, HasKind

LEMMA NoKeysLead == KeysLead(<<>>)
<1>1. <<>> \in Seq(Key) /\ Len(<<>>) = 0 /\ DOMAIN <<>> = {}
  BY EmptySeq
<1>2. Len(Objects) \in Nat
  BY WrootFileAssumption, LenProperties DEF WrootFileAssumption
<1> QED
  BY <1>1, <1>2 DEF KeysLead

LEMMA PointerKeeps ==
  ASSUME IInv, WritePointer
  PROVE  IInv' /\ Kept
<1>1. PICK outcome \in Outcomes \ {"killed"} :
        /\ IF outcome = "done" THEN directory' = seekKeys ELSE directory' \in {seekKeys, directory}
        /\ errors' = IF outcome = "done" THEN errors ELSE errors + 1
        /\ keys' = IF outcome = "done" /\ phase = "closing" THEN <<>> ELSE keys
        /\ Continue(outcome)
  BY DEF WritePointer, InPlace
<1>2. /\ Types /\ Seeks /\ phase \in {"writing", "closing"} /\ step = "pointer" /\ KeysLead(keys)
      /\ phase = "writing" => seekFree = NoSeek /\ directory = NoSeek
      /\ IsWhole(seekKeys, "keys") /\ disk[seekKeys].body = keys
  BY DEF IInv, WritePointer, Control, Seeks, Pointers
<1>3. UNCHANGED <<end, segs, seekFree, nbytesFree, seekInfo, seekKeys, disk, header, refused>>
  BY DEF WritePointer
<1>4. /\ outcome \in {"done", "error"} /\ errors' \in Nat /\ errors <= errors'
      /\ errors' = 0 => errors = 0 /\ outcome = "done"
  <2>1. outcome \in {"done", "error"}
    BY <1>1 DEF Outcomes
  <2>2. errors \in Nat
    BY <1>2 DEF Types
  <2> QED
    BY <1>1, <2>1, <2>2
<1>5. /\ phase = "writing" /\ outcome = "done" => phase' = "writing" /\ step' = "infos"
      /\ phase = "writing" /\ outcome = "error" => phase' = "closing" /\ step' = "keys"
      /\ phase = "closing" => phase' = "closing" /\ step' = FreeStep
  BY <1>1, <1>2, <1>4, StepOrder
<1>6. Kept
  BY <1>3 DEF Kept
<1>7. KeysLead(keys)'
  <2>1. PICK ks : ks = keys'
    OBVIOUS
  <2>2. KeysLead(ks)
    BY <1>1, <1>2, <2>1, NoKeysLead
  <2>3. KeysLead(ks)'
    BY <1>2, <1>4, <1>6, <2>2, KeysLeadOn
  <2> QED
    BY <2>1, <2>3 DEF KeysLead, HasKind
<1>8. seekKeys # NoSeek /\ seekKeys \in Nat
  <2>1. seekKeys \in DOMAIN disk
    BY <1>2 DEF IsWhole
  <2>2. BEGIN <= seekKeys /\ seekKeys \in Nat
    BY <2>1 DEF IInv, Layout, Types
  <2> QED
    BY <2>2, Sizes DEF NoSeek
<1>9. Types'
  <2>1. keys' \in Seq(Key) /\ Len(keys') <= Len(Objects)
    BY <1>7 DEF KeysLead
  <2>2. directory' \in Nat
    BY <1>1, <1>2, <1>8 DEF Types
  <2> QED
    BY <1>2, <1>3, <1>4, <2>1, <2>2 DEF Types
<1>10. Control'
  BY <1>1, <1>2, <1>3, <1>4, <1>5 DEF Control, FreeStep
<1>11. Layout'
  BY <1>3 DEF IInv, Layout
<1>12. Seeks'
  <2>2. \A s \in DOMAIN disk' : disk'[s].kind = "keys" => KeysLead(disk[s].body)'
    <3> SUFFICES ASSUME NEW s \in DOMAIN disk', disk'[s].kind = "keys"
                 PROVE  KeysLead(disk[s].body)'
      OBVIOUS
    <3>1. PICK ks : ks = disk[s].body
      OBVIOUS
    <3>2. KeysLead(ks)
      BY <1>2, <1>3, <3>1 DEF Seeks
    <3>3. KeysLead(ks)'
      BY <1>2, <1>4, <1>6, <3>2, KeysLeadOn
    <3> QED
      BY <1>3, <3>1, <3>3 DEF KeysLead, HasKind
  <2>3. directory' # NoSeek => IsWhole(directory, "keys")'
    BY <1>1, <1>2, <1>3 DEF Seeks, IsWhole
  <2> QED
    BY <1>2, <1>3, <1>7, <2>2, <2>3 DEF Seeks, HasKind
<1>13. FreeRecord'
  BY <1>2, <1>3, <1>4, <1>5 DEF IInv, FreeRecord, HasKind
<1>14. Pointers'
  BY <1>1, <1>2, <1>3, <1>4, <1>5 DEF Pointers, KeysToCome, FreeStep
<1>15. Segments'
  <2>1. ~AfterGapStep
    BY <1>2 DEF AfterGapStep
  <2> QED
    BY <1>3, <2>1 DEF IInv, Segments, Ending
<1>16. Complete'
  <2>1. SUFFICES ASSUME Good'
                 PROVE  /\ header'.written /\ IsWhole(BEGIN, "directory")'
                        /\ phase' \in {"writing", "closing"}
                        /\ phase' = "writing" => step' = "infos" /\ Len(keys') = Len(Objects)
                        /\ phase' = "closing" => /\ step' \in {"gap", "free"}
                                                 /\ IsWhole(seekInfo, "infos")'
                        /\ directory' # NoSeek /\ Len(disk'[directory'].body) = Len(Objects)
    BY DEF Complete, KeysToCome, Closing
  <2>2. Good /\ outcome = "done" /\ errors' = 0
    BY <1>2, <1>3, <1>4, <2>1 DEF Good
  <2>3. /\ header.written /\ IsWhole(BEGIN, "directory") /\ Len(keys) = Len(Objects)
        /\ phase = "closing" => IsWhole(seekInfo, "infos")
    BY <1>2, <2>2 DEF IInv, Complete, Closing, KeysToCome
  <2> QED
    BY <1>1, <1>2, <1>3, <1>5, <1>8, <2>2, <2>3 DEF IsWhole, FreeStep
<1> QED
  BY <1>6, <1>9, <1>10, <1>11, <1>12, <1>13, <1>14, <1>15, <1>16 DEF IInv

LEMMA HeaderKeeps ==
  ASSUME IInv, WriteHeader
  PROVE  IInv' /\ Kept
<1>1. PICK outcome \in Outcomes \ {"killed"} :
        /\ \/ header' = [written |-> TRUE, end |-> end, free |-> seekFree, info |-> seekInfo]
           \/ outcome # "done" /\ header' = header
        /\ errors' = IF outcome = "done" THEN errors ELSE errors + 1
        /\ Continue(outcome)
  BY DEF WriteHeader, InPlace
<1>2. /\ Types /\ Seeks /\ phase \in {"making", "writing", "closing"} /\ step = "header"
      /\ KeysLead(keys)
      /\ phase = "making" => disk = <<>> /\ keys = <<>> /\ directory = NoSeek /\ seekFree = NoSeek
  BY DEF IInv, WriteHeader, Control, Seeks
<1>3. UNCHANGED <<end, segs, seekFree, nbytesFree, seekInfo, seekKeys, keys, disk, directory,
                  refused>>
  BY DEF WriteHeader, memory
<1>4. /\ outcome \in {"done", "error"} /\ errors' \in Nat /\ errors <= errors'
      /\ errors' = 0 => errors = 0 /\ outcome = "done"
  <2>1. outcome \in {"done", "error"}
    BY <1>1 DEF Outcomes
  <2>2. errors \in Nat
    BY <1>2 DEF Types
  <2> QED
    BY <1>1, <2>1, <2>2
<1>5. /\ phase = "making" /\ outcome = "done" => phase' = "making" /\ step' = "directory"
      /\ phase = "making" /\ outcome = "error" => phase' = "running" /\ step' = "none"
      /\ phase = "writing" => phase' = "closing" /\ step' = "keys"
      /\ phase = "closing" => phase' = "closed" /\ step' = "none"
  <2>1. CASE phase = "making"
    <3>1. \A ok \in BOOLEAN : Following(ok) = IF ok THEN <<"making", "directory">>
                                              ELSE <<"running", "none">>
      BY <1>2, <2>1 DEF Following
    <3>2. PICK ok \in BOOLEAN : /\ ok <=> outcome = "done"
                                /\ phase' = Following(ok)[1] /\ step' = Following(ok)[2]
      BY <1>1, <1>4, ContinueMeans
    <3> QED
      BY <1>4, <2>1, <3>1, <3>2
  <2>2. CASE phase \in {"writing", "closing"}
    BY <1>1, <1>2, <1>4, <2>2, StepOrder
  <2> QED
    BY <1>2, <2>1, <2>2
<1>6. Kept
  BY <1>3 DEF Kept
<1>7. \A ks : KeysLead(ks) => KeysLead(ks)'
  <2> SUFFICES ASSUME NEW ks, KeysLead(ks)
               PROVE  KeysLead(ks)'
    OBVIOUS
  <2> QED
    BY <1>2, <1>4, <1>6, KeysLeadOn
<1>8. header'.info = header.info \/ header'.info = seekInfo
  BY <1>1
<1>9. Types'
  <2> DEFINE H == [written : BOOLEAN, end : Nat, free : Nat, info : Nat]
  <2>1. header' \in H
    <3>1. header \in H
      BY <1>2 DEF Types
    <3>2. [written |-> TRUE, end |-> end, free |-> seekFree, info |-> seekInfo] \in H
      BY <1>2 DEF Types
    <3> HIDE DEF H
    <3> QED
      BY <1>1, <3>1, <3>2
  <2> QED
    BY <1>2, <1>3, <1>4, <2>1 DEF Types
<1>10. Control'
  BY <1>2, <1>3, <1>4, <1>5 DEF IInv, Control
<1>11. Layout'
  BY <1>3 DEF IInv, Layout
<1>12. Seeks'
  <2>1. KeysLead(keys)'
    BY <1>2, <1>3, <1>7
  <2>2. \A s \in DOMAIN disk' : disk'[s].kind = "keys" => KeysLead(disk[s].body)'
    BY <1>2, <1>3, <1>7 DEF Seeks
  <2> QED
    BY <1>2, <1>3, <1>8, <2>1, <2>2 DEF Seeks, HasKind, IsWhole
<1>13. FreeRecord'
  <2>1. step' \notin {"pointer", "gap"}
    BY <1>2, <1>4, <1>5
  <2> QED
    BY <1>3, <2>1 DEF IInv, FreeRecord, HasKind
<1>14. Pointers'
  <2>1. directory # NoSeek /\ phase = "writing" => disk[directory].body = keys
    BY DEF IInv, Pointers
  <2> QED
    BY <1>2, <1>3, <1>4, <1>5, <2>1 DEF Pointers, KeysToCome
<1>15. Segments'
  <2>1. AfterGapStep => AfterGapStep'
    BY <1>2, <1>5 DEF AfterGapStep
  <2> QED
    BY <1>3, <2>1 DEF IInv, Segments, Ending, Freed, HasKind
<1>16. Complete'
  <2>1. SUFFICES ASSUME Good'
                 PROVE  /\ header'.written
                        /\ phase' # "making" => IsWhole(BEGIN, "directory")'
                        /\ \/ phase' = "making" /\ step' = "directory"
                           \/ /\ phase' = "closing" /\ step' = "keys" /\ Len(keys') = Len(Objects)
                              /\ directory' # NoSeek
                              /\ Len(disk'[directory'].body) = Len(Objects)
                              /\ IsWhole(seekInfo, "infos")'
                           \/ /\ phase' = "closed"
                              /\ directory' # NoSeek
                              /\ Len(disk'[directory'].body) = Len(Objects)
                              /\ IsWhole(seekInfo, "infos")'
                              /\ end' <= START_BIG_FILE =>
                                   IsWhole(seekFree, "free")' /\ disk'[seekFree'].body = segs'
                              /\ header' = [written |-> TRUE, end |-> end', free |-> seekFree',
                                            info |-> seekInfo']
    BY DEF Complete, KeysToCome, Closing
  <2>2. Good /\ outcome = "done" /\ errors' = 0
    BY <1>2, <1>3, <1>4, <2>1 DEF Good
  <2>3. header' = [written |-> TRUE, end |-> end', free |-> seekFree', info |-> seekInfo']
    BY <1>1, <1>3, <2>2
  <2>4. CASE phase = "making"
    BY <1>5, <2>2, <2>3, <2>4
  <2>5. CASE phase = "writing"
    <3>1. /\ IsWhole(BEGIN, "directory") /\ Len(keys) = Len(Objects)
          /\ directory # NoSeek /\ Len(disk[directory].body) = Len(Objects)
          /\ IsWhole(seekInfo, "infos")
      BY <1>2, <2>2, <2>5 DEF IInv, Complete
    <3> QED
      BY <1>3, <1>5, <2>3, <2>5, <3>1 DEF IsWhole
  <2>6. CASE phase = "closing"
    <3>1. /\ IsWhole(BEGIN, "directory")
          /\ directory # NoSeek /\ Len(disk[directory].body) = Len(Objects)
          /\ IsWhole(seekInfo, "infos")
          /\ end <= START_BIG_FILE => IsWhole(seekFree, "free") /\ disk[seekFree].body = segs
      BY <1>2, <2>2, <2>6 DEF IInv, Complete, Closing
    <3> QED
      BY <1>3, <1>5, <2>3, <2>6, <3>1 DEF IsWhole
  <2> QED
    BY <1>2, <2>4, <2>5, <2>6
<1> QED
  BY <1>6, <1>9, <1>10, <1>11, <1>12, <1>13, <1>14, <1>15, <1>16 DEF IInv

LEMMA DirectoryKeeps ==
  ASSUME IInv, WriteDirectory
  PROVE  IInv' /\ Kept
<1> DEFINE size == KeyLength + DirectorySize
<1>1. PICK outcome \in Outcomes :
        WriteRecord(BEGIN, size, "directory", <<>>, outcome) /\ Continue(outcome)
  BY DEF WriteDirectory
<1>2. /\ Types /\ phase = "making" /\ disk = <<>> /\ keys = <<>> /\ directory = NoSeek
      /\ seekFree = NoSeek /\ step = "directory"
  BY DEF IInv, WriteDirectory, Control
<1>s. /\ BEGIN \in Nat /\ size \in Nat \ {0} /\ BEGIN + size <= end /\ end \in Nat
  <2>1. end \in Nat /\ BEGIN + KeyLength + DirectorySize <= end
    BY <1>2 DEF Types
  <2>2. BEGIN \in Nat /\ KeyLength \in Nat \ {0} /\ DirectorySize \in Nat \ {0}
    BY Sizes
  <2> QED
    BY <2>1, <2>2
<1> HIDE DEF size
<1> DEFINE rec == [kind |-> "directory", size |-> size, body |-> <<>>, whole |-> outcome = "done"]
<1>3. /\ disk' = Put(BEGIN, rec) /\ errors' \in Nat /\ errors <= errors'
      /\ outcome \in {"done", "killed", "error"}
      /\ errors' = 0 => errors = 0 /\ outcome # "error"
  BY <1>1, <1>2, WriteRecordMeans
<1>4. /\ phase' \in {"running", "killed"} /\ step' = "none"
      /\ phase' = "killed" <=> outcome = "killed"
  <2>1. \A ok \in BOOLEAN : Following(ok) = <<"running", "none">>
    BY <1>2 DEF Following
  <2> QED
    BY <1>1, <2>1, ContinueMeans
<1>5. /\ rec \in Record /\ rec.kind = "directory" /\ rec.size = size
      /\ rec.whole <=> outcome = "done"
  <2>1. <<>> \in Seq(Key)
    OBVIOUS
  <2>2. rec \in Record
    BY <1>s, <2>1 DEF Record
  <2> QED
    BY <2>2
<1> HIDE DEF rec
<1>6. DOMAIN disk' = {BEGIN} /\ disk'[BEGIN] = rec /\ DOMAIN disk = {}
  BY <1>2, <1>3 DEF Put
<1>7. UNCHANGED <<end, segs, seekFree, nbytesFree, seekInfo, seekKeys, keys, header, directory,
                  refused>>
  BY DEF WriteDirectory, memory
<1>8. Kept
  BY <1>6 DEF Kept
<1>9. Types'
  <2>1. disk' = [s \in {BEGIN} |-> rec]
    BY <1>2, <1>3, <1>6 DEF Put
  <2>2. DOMAIN disk' \subseteq Nat /\ disk' \in [DOMAIN disk' -> Record]
    BY <1>5, <1>6, <1>s, <2>1
  <2> QED
    BY <1>2, <1>3, <1>7, <2>2 DEF Types
<1>10. Control'
  BY <1>2, <1>4, <1>7 DEF IInv, Control
<1>11. Layout'
  BY <1>5, <1>6, <1>7, <1>s DEF Layout
<1>12. Seeks'
  <2>1. KeysLead(keys)'
    <3>1. PICK ks : ks = <<>>
      OBVIOUS
    <3>2. KeysLead(ks)'
      BY <1>2, <1>3, <1>8, <3>1, NoKeysLead, KeysLeadOn
    <3> QED
      BY <1>2, <1>7, <3>1, <3>2 DEF KeysLead
  <2>2. seekInfo' = NoSeek /\ header'.info = NoSeek
    BY <1>2, <1>6, <1>7 DEF IInv, Seeks, HasKind
  <2> QED
    BY <1>2, <1>5, <1>6, <1>7, <2>1, <2>2 DEF Seeks
<1>13. FreeRecord'
  BY <1>2, <1>7 DEF FreeRecord
<1>14. Pointers'
  BY <1>2, <1>4, <1>7 DEF Pointers
<1>15. Segments'
  <2>1. ~AfterGapStep
    BY <1>2 DEF AfterGapStep
  <2> QED
    BY <1>7, <2>1 DEF IInv, Segments, Ending
<1>16. Complete'
  <2>1. errors' = 0 /\ ~refused' /\ phase' # "killed" => header.written /\ outcome = "done"
    BY <1>2, <1>3, <1>4, <1>7 DEF IInv, Complete, Good
  <2>2. outcome = "done" => IsWhole(BEGIN, "directory")'
    BY <1>5, <1>6 DEF IsWhole
  <2> QED
    BY <1>4, <1>7, <2>1, <2>2 DEF Complete, Good, KeysToCome, Closing
<1> QED
  BY <1>8, <1>9, <1>10, <1>11, <1>12, <1>13, <1>14, <1>15, <1>16 DEF IInv

-----------------------------------------------------------------------------
(* make_free_seg() *)

\* The old record comes before the one segment that follows END: it gets a
\* segment of its own, before that one, unless it begins where START_BIG_FILE
\* ends.
LEMMA AddFreeMeans ==
  ASSUME NEW a \in Nat, NEW b \in Nat, NEW e \in Nat, a <= b, b + 1 < e,
         NEW sg, sg = <<[first |-> e, last |-> START_BIG_FILE]>>
  PROVE  /\ AddFree(sg, a, b).at = 1
         /\ IF START_BIG_FILE = a - 1
            THEN AddFree(sg, a, b).segs = <<[first |-> e, last |-> b]>>
            ELSE AddFree(sg, a, b).segs = <<[first |-> a, last |-> b],
                                            [first |-> e, last |-> START_BIG_FILE]>>
<1> DEFINE old == [first |-> e, last |-> START_BIG_FILE]
           new == [first |-> a, last |-> b]
<1>1. /\ Len(sg) = 1 /\ DOMAIN sg = {1} /\ sg[1] = old
      /\ sg[1].first = e /\ sg[1].last = START_BIG_FILE
  BY DEF old
<1>2. START_BIG_FILE \in Nat /\ a < e /\ e # b + 1
  BY Sizes
<1>3. Takers(sg, a, b) = {1}
  BY <1>1, <1>2 DEF Takers
<1>4. FirstTaker(sg, a, b) = 1
  BY <1>3 DEF FirstTaker
<1>5. CASE START_BIG_FILE = a - 1
  <2>1. AddFree(sg, a, b) = [at |-> 1, segs |-> Joined(sg, 1, b)]
    BY <1>1, <1>3, <1>4, <1>5 DEF AddFree
  <2>2. Joined(sg, 1, b) = <<[first |-> e, last |-> b]>>
    BY <1>1 DEF Joined, WithLast
  <2> QED
    BY <1>5, <2>1, <2>2
<1>6. CASE START_BIG_FILE # a - 1
  <2>1. AddFree(sg, a, b) = [at |-> 1, segs |-> InsertAt(sg, 1, new)]
    BY <1>1, <1>2, <1>3, <1>4, <1>6 DEF AddFree
  <2>2. InsertAt(sg, 1, new) = <<new, old>>
    <3>1. SubSeq(sg, 1, 0) = <<>> /\ SubSeq(sg, 1, 1) = sg
      <4>1. sg \in Seq({old})
        BY <1>1
      <4>2. SubSeq(sg, 1, Len(sg)) = sg
        BY <4>1, SubSeqFull
      <4>3. SubSeq(sg, 1, 0) = <<>>
        BY SubSeqEmpty
      <4> QED
        BY <1>1, <4>2, <4>3
    <3>2. InsertAt(sg, 1, new) = (<<>> \o <<new>>) \o <<old>>
      BY <1>1, <3>1 DEF InsertAt
    <3> HIDE DEF new, old
    <3>3. <<>> \o <<new>> = <<new>>
      BY ConcatEmptySeq
    <3>4. <<new>> \o <<old>> = <<new, old>>
      <4> DEFINE S == {new, old}
                 both == <<new>> \o <<old>>
      <4>1. /\ both \in Seq(S) /\ Len(both) = 2
            /\ \A i \in 1 .. 2 : both[i] = IF i <= 1 THEN <<new>>[i] ELSE <<old>>[i - 1]
        <5>1. <<new>> \in Seq(S) /\ <<old>> \in Seq(S) /\ Len(<<new>>) = 1 /\ Len(<<old>>) = 1
          OBVIOUS
        <5> QED
          BY <5>1, ConcatProperties
      <4> HIDE DEF both
      <4>2. both[1] = new /\ both[2] = old
        BY <4>1
      <4>3. both = <<new, old>>
        BY <4>1, <4>2
      <4> QED
        BY <4>3 DEF both
    <3> QED
      BY <3>2, <3>3, <3>4
  <2> QED
    BY <1>6, <2>1, <2>2
<1> QED
  BY <1>5, <1>6

\* The mark tears the records it falls on.
LEMMA MarkedMeans ==
  ASSUME Types, Layout, NEW seek \in Nat, disk' = Marked(seek),
         seek < end => HasKind(seek, "free") /\ GapWord <= disk[seek].size
  PROVE  /\ Kept /\ DOMAIN disk' = DOMAIN disk
         /\ disk' \in [DOMAIN disk' -> Record]
<1>1. /\ end \in Nat /\ DOMAIN disk \subseteq Nat /\ disk \in [DOMAIN disk -> Record]
      /\ GapWord \in Nat \ {0}
  BY Sizes DEF Types
<1>2. \A s \in DOMAIN disk : s \in Nat /\ disk[s] \in Record /\ disk[s].size \in Nat
  BY <1>1 DEF Record
<1>3. ASSUME NEW s \in DOMAIN disk
      PROVE  Overlap(seek, GapWord, s) => disk[s].kind = "free"
  <2>1. CASE seek < end
    <3>1. seek \in DOMAIN disk /\ disk[seek].kind = "free" /\ GapWord <= disk[seek].size
      BY <2>1 DEF HasKind
    <3>2. /\ s < seek => s + disk[s].size <= seek
          /\ seek < s => seek + disk[seek].size <= s
      BY <3>1 DEF Layout
    <3>3. s # seek => ~Overlap(seek, GapWord, s)
      BY <1>1, <1>2, <3>1, <3>2 DEF Overlap
    <3> QED
      BY <3>1, <3>3
  <2>2. CASE ~(seek < end)
    <3>1. s + disk[s].size <= end
      BY DEF Layout
    <3>2. ~Overlap(seek, GapWord, s)
      BY <1>1, <1>2, <2>2, <3>1 DEF Overlap
    <3> QED
      BY <3>2
  <2> QED
    BY <2>1, <2>2
<1>4. DOMAIN disk' = DOMAIN disk
  BY DEF Marked
<1>5. ASSUME NEW s \in DOMAIN disk
      PROVE  /\ disk'[s] \in Record /\ disk'[s].kind = disk[s].kind
             /\ disk'[s].size = disk[s].size /\ disk'[s].body = disk[s].body
             /\ disk[s].kind # "free" => disk'[s] = disk[s]
  <2>1. CASE Overlap(seek, GapWord, s)
    <3>1. disk'[s] = [disk[s] EXCEPT !.whole = FALSE]
      BY <2>1 DEF Marked
    <3> QED
      BY <1>2, <1>3, <2>1, <3>1 DEF Record
  <2>2. CASE ~Overlap(seek, GapWord, s)
    BY <1>2, <2>2 DEF Marked
  <2> QED
    BY <2>1, <2>2
<1>6. disk' = [s \in DOMAIN disk' |-> disk'[s]]
  BY DEF Marked
<1>7. disk' \in [DOMAIN disk' -> Record]
  BY <1>4, <1>5, <1>6
<1> QED
  BY <1>4, <1>5, <1>7 DEF Kept

LEMMA GapKeeps ==
  ASSUME IInv, FreeOldRecord
  PROVE  IInv' /\ Kept
<1>1. /\ Types /\ Layout /\ Seeks /\ Control /\ FreeRecord /\ Segments
      /\ phase = "closing" /\ step = "gap" /\ seekFree # NoSeek /\ KeysLead(keys)
  BY DEF IInv, FreeOldRecord, Control, Seeks
<1>2. /\ HasKind(seekFree, "free") /\ disk[seekFree].size = nbytesFree
      /\ KeyLength <= nbytesFree /\ seekFree + nbytesFree < end
  BY <1>1 DEF FreeRecord
<1>3. /\ seekFree \in Nat /\ nbytesFree \in Nat /\ end \in Nat
      /\ KeyLength \in Nat \ {0} /\ GapWord \in Nat \ {0} /\ GapWord <= KeyLength
      /\ START_BIG_FILE \in Nat
  BY <1>1, Sizes DEF Types
<1>4. PICK a \in Nat, b \in Nat :
        /\ a = seekFree /\ b = seekFree + nbytesFree - 1
        /\ a <= b /\ b + 1 < end /\ a + nbytesFree = b + 1
  <2>1. /\ seekFree + nbytesFree - 1 \in Nat /\ seekFree <= seekFree + nbytesFree - 1
        /\ seekFree + nbytesFree - 1 + 1 < end
        /\ seekFree + nbytesFree = seekFree + nbytesFree - 1 + 1
    BY <1>2, <1>3
  <2> QED
    BY <1>3, <2>1
<1> DEFINE freed == AddFree(segs, a, b)
<1>5. segs = <<[first |-> end, last |-> START_BIG_FILE]>>
  BY <1>1 DEF Segments, AfterGapStep, Ending
<1>6. /\ freed.at = 1
      /\ IF START_BIG_FILE = a - 1
         THEN freed.segs = <<[first |-> end, last |-> b]>>
         ELSE freed.segs = <<[first |-> a, last |-> b],
                             [first |-> end, last |-> START_BIG_FILE]>>
  BY <1>3, <1>4, <1>5, AddFreeMeans
<1>7. PICK outcome \in Outcomes \ {"killed"}, seg \in {freed.segs[freed.at]} :
        /\ segs' = freed.segs
        /\ end' = IF seg.last = end - 1 THEN seg.first ELSE end
        /\ disk' = Marked(seg.first) \/ (outcome # "done" /\ disk' = disk)
        /\ errors' = IF outcome = "done" THEN errors ELSE errors + 1
        /\ Continue(outcome)
  BY <1>4, <1>6 DEF FreeOldRecord, InPlace
<1> HIDE DEF freed
<1>8. /\ seg.last = b
      /\ seg.first = IF START_BIG_FILE = a - 1 THEN end ELSE a
  BY <1>6, <1>7
<1>9. end' = end
  BY <1>3, <1>4, <1>7, <1>8
<1>10. /\ outcome \in {"done", "error"} /\ errors' \in Nat /\ errors <= errors'
       /\ errors' = 0 => errors = 0 /\ outcome = "done"
  <2>1. outcome \in {"done", "error"}
    BY <1>7 DEF Outcomes
  <2>2. errors \in Nat
    BY <1>1 DEF Types
  <2> QED
    BY <1>7, <2>1, <2>2
<1>11. phase' = "closing" /\ step' = IF outcome = "done" THEN "free" ELSE "header"
  BY <1>1, <1>7, <1>10, StepOrder
<1>12. /\ Kept /\ DOMAIN disk' = DOMAIN disk
       /\ disk' \in [DOMAIN disk' -> Record]
  <2>1. CASE disk' = disk
    BY <1>1, <2>1 DEF Kept, Types
  <2>2. CASE disk' = Marked(seg.first)
    <3>1. PICK seek \in Nat : seek = seg.first
      BY <1>3, <1>4, <1>8
    <3>2. seek < end => HasKind(seek, "free") /\ GapWord <= disk[seek].size
      BY <1>2, <1>3, <1>4, <1>8, <3>1
    <3> QED
      BY <1>1, <2>2, <3>1, <3>2, MarkedMeans
  <2> QED
    BY <1>7, <2>1, <2>2
<1>13. UNCHANGED <<seekFree, nbytesFree, seekInfo, seekKeys, keys, header, directory, refused>>
  BY DEF FreeOldRecord
<1>14. \A ks : KeysLead(ks) => KeysLead(ks)'
  <2> SUFFICES ASSUME NEW ks, KeysLead(ks)
               PROVE  KeysLead(ks)'
    OBVIOUS
  <2> QED
    BY <1>1, <1>10, <1>12, KeysLeadOn
<1>15. segs' \in Seq(Seg) /\ segs' # <<>> /\ Segments'
  <2>1. AfterGapStep'
    BY <1>11 DEF AfterGapStep
  <2>2. CASE START_BIG_FILE = a - 1
    <3>1. segs' = <<[first |-> end, last |-> b]>>
      BY <1>6, <1>7, <2>2
    <3>2. b > START_BIG_FILE /\ end' > START_BIG_FILE
      BY <1>3, <1>4, <1>9, <2>2
    <3>3. [first |-> end, last |-> b] \in Seg
      BY <1>3, <1>4 DEF Seg
    <3>4. Len(segs') = 1 /\ segs'[1].last = b /\ segs' \in Seq(Seg) /\ segs' # <<>>
      BY <3>1, <3>3
    <3> QED
      BY <2>1, <3>2, <3>4 DEF Segments
  <2>3. CASE START_BIG_FILE # a - 1
    <3>1. segs' = <<[first |-> a, last |-> b], [first |-> end', last |-> START_BIG_FILE]>>
      BY <1>6, <1>7, <1>9, <2>3
    <3>2. /\ [first |-> a, last |-> b] \in Seg
          /\ [first |-> end', last |-> START_BIG_FILE] \in Seg
      BY <1>3, <1>4, <1>9 DEF Seg
    <3>3. segs' \in Seq(Seg) /\ segs' # <<>>
      BY <3>1, <3>2
    <3>4. Freed(a, b)'
      BY <1>2, <1>4, <1>9, <1>12, <1>13, <3>1 DEF Freed, Ending, HasKind, Kept
    <3> QED
      BY <2>1, <3>3, <3>4 DEF Segments
  <2> QED
    BY <2>2, <2>3
<1>16. Types'
  BY <1>1, <1>9, <1>10, <1>12, <1>13, <1>15 DEF Types
<1>17. Control'
  BY <1>1, <1>11, <1>13 DEF Control
<1>18. Layout'
  BY <1>1, <1>9, <1>12 DEF Layout, Kept
<1>19. Seeks'
  <2>1. directory' # NoSeek => IsWhole(directory, "keys")'
    BY <1>1, <1>12, <1>13 DEF Seeks, IsWhole, Kept
  <2>2. /\ \A s \in DOMAIN disk' : disk'[s].kind = "directory" <=> s = BEGIN
        /\ \A s \in DOMAIN disk' : disk'[s].kind = "keys" => KeysLead(disk[s].body)'
    <3>1. \A s \in DOMAIN disk : disk[s].kind = "keys" => KeysLead(disk[s].body)
      BY <1>1 DEF Seeks
    <3>2. ASSUME NEW s \in DOMAIN disk', disk'[s].kind = "keys"
          PROVE  KeysLead(disk[s].body)'
      <4>1. PICK ks : ks = disk[s].body
        OBVIOUS
      <4>2. KeysLead(ks)'
        BY <1>12, <1>14, <3>1, <3>2, <4>1 DEF Kept
      <4> QED
        BY <1>12, <4>1, <4>2 DEF KeysLead, HasKind, Kept
    <3> QED
      BY <1>1, <1>12, <3>2 DEF Seeks, Kept
  <2>3. KeysLead(keys)'
    BY <1>1, <1>13, <1>14
  <2> QED
    BY <1>1, <1>12, <1>13, <2>1, <2>2, <2>3 DEF Seeks, HasKind, Kept
<1>20. FreeRecord'
  <2>1. step' \notin {"pointer", "gap"}
    BY <1>11
  <2> QED
    BY <1>2, <1>12, <1>13, <2>1 DEF FreeRecord, HasKind, Kept
<1>21. Pointers'
  BY <1>11 DEF Pointers, KeysToCome
<1>22. Complete'
  <2>1. SUFFICES ASSUME Good'
                 PROVE  /\ header'.written /\ IsWhole(BEGIN, "directory")' /\ step' = "free"
                        /\ directory' # NoSeek /\ Len(disk'[directory'].body) = Len(Objects)
                        /\ IsWhole(seekInfo, "infos")'
    BY <1>11 DEF Complete, KeysToCome, Closing
  <2>2. Good /\ outcome = "done"
    BY <1>1, <1>10, <1>13, <2>1 DEF Good
  <2>3. /\ header.written /\ IsWhole(BEGIN, "directory")
        /\ directory # NoSeek /\ Len(disk[directory].body) = Len(Objects)
        /\ IsWhole(seekInfo, "infos") /\ IsWhole(directory, "keys")
    BY <1>1, <2>2 DEF IInv, Complete, Closing, Seeks
  <2> QED
    BY <1>11, <1>12, <1>13, <2>2, <2>3 DEF IsWhole, Kept
<1> QED
  BY <1>12, <1>15, <1>16, <1>17, <1>18, <1>19, <1>20, <1>21, <1>22 DEF IInv

-----------------------------------------------------------------------------
(* The steps that write nothing *)

LEMMA EndOfJobKeeps ==
  ASSUME IInv, EndOfJob
  PROVE  IInv' /\ Kept
<1>1. /\ phase = "running" /\ phase' = "writing" /\ step' = "object" /\ step = "none"
      /\ Types /\ Seeks /\ keys = <<>> /\ directory = NoSeek /\ seekFree = NoSeek
  BY DEF EndOfJob, IInv, Control
<1>2. UNCHANGED <<end, segs, seekFree, nbytesFree, seekInfo, seekKeys, keys, disk, header,
                  directory, errors, refused>>
  BY DEF EndOfJob, memory
<1>3. Len(keys) < Len(Objects)
  <2>1. Objects \in Seq(Names) /\ Objects # <<>>
    BY WrootFileAssumption DEF WrootFileAssumption, Names
  <2>2. Len(Objects) \in Nat \ {0} /\ Len(<<>>) = 0
    BY <2>1, EmptySeq
  <2> QED
    BY <1>1, <2>2
<1>4. Kept /\ (\A ks : KeysLead(ks) => KeysLead(ks)')
  BY <1>1, <1>2, NothingWritten
<1>5. Types' /\ Layout'
  BY <1>1, <1>2 DEF IInv, Types, Layout
<1>6. Control'
  BY <1>1, <1>2, <1>3 DEF Control
<1>7. Seeks'
  BY <1>1, <1>2, <1>4 DEF Seeks, HasKind, IsWhole
<1>8. FreeRecord' /\ Pointers'
  BY <1>1, <1>2 DEF FreeRecord, Pointers
<1>9. Segments'
  BY <1>1, <1>2 DEF IInv, Segments, Ending, AfterGapStep
<1>10. Complete'
  BY <1>1, <1>2 DEF IInv, Complete, Good, IsWhole, KeysToCome, Closing
<1> QED
  BY <1>4, <1>5, <1>6, <1>7, <1>8, <1>9, <1>10 DEF IInv

LEMMA RefuseKeeps ==
  ASSUME IInv, RefuseObject
  PROVE  IInv' /\ Kept
<1>1. /\ phase = "writing" /\ phase' = "closing" /\ step' = "keys" /\ step = "object"
      /\ Types /\ Seeks /\ Control /\ directory = NoSeek /\ seekFree = NoSeek /\ refused' = TRUE
  BY DEF RefuseObject, IInv, Control
<1>2. UNCHANGED <<end, segs, seekFree, nbytesFree, seekInfo, seekKeys, keys, disk, header,
                  directory, errors>>
  BY DEF RefuseObject, memory
<1>4. Kept /\ (\A ks : KeysLead(ks) => KeysLead(ks)')
  BY <1>1, <1>2, NothingWritten
<1>5. Types' /\ Layout'
  BY <1>1, <1>2 DEF IInv, Types, Layout
<1>6. Control'
  BY <1>1, <1>2 DEF Control
<1>7. Seeks'
  BY <1>1, <1>2, <1>4 DEF Seeks, HasKind, IsWhole
<1>8. FreeRecord' /\ Pointers'
  BY <1>1, <1>2 DEF FreeRecord, Pointers
<1>9. Segments'
  BY <1>1, <1>2 DEF IInv, Segments, Ending, AfterGapStep
<1>10. Complete'
  BY <1>1 DEF Complete, Good
<1> QED
  BY <1>4, <1>5, <1>6, <1>7, <1>8, <1>9, <1>10 DEF IInv

LEMMA KillKeeps ==
  ASSUME IInv, Kill
  PROVE  IInv' /\ Kept
<1>1. /\ phase' = "killed" /\ step' = "none" /\ Types /\ Seeks /\ Control
  BY DEF Kill, IInv
<1>2. UNCHANGED <<end, segs, seekFree, nbytesFree, seekInfo, seekKeys, keys, disk, header,
                  directory, errors, refused>>
  BY DEF Kill, memory
<1>4. Kept /\ (\A ks : KeysLead(ks) => KeysLead(ks)')
  BY <1>1, <1>2, NothingWritten
<1>5. Types' /\ Layout'
  BY <1>1, <1>2 DEF IInv, Types, Layout
<1>6. Control'
  BY <1>1, <1>2 DEF Control
<1>7. Seeks'
  BY <1>1, <1>2, <1>4 DEF Seeks, HasKind, IsWhole
<1>8. FreeRecord' /\ Pointers'
  BY <1>1, <1>2 DEF IInv, FreeRecord, Pointers, HasKind, KeysToCome
<1>9. Segments'
  <2>1. AfterGapStep'
    BY <1>1 DEF AfterGapStep
  <2> QED
    BY <1>1, <1>2, <2>1 DEF IInv, Segments, Ending, Freed, HasKind
<1>10. Complete'
  BY <1>1 DEF Complete, Good
<1> QED
  BY <1>4, <1>5, <1>6, <1>7, <1>8, <1>9, <1>10 DEF IInv

LEMMA StutterKeeps ==
  ASSUME IInv, UNCHANGED vars
  PROVE  IInv' /\ Kept
<1>1. UNCHANGED <<end, segs, seekFree, nbytesFree, seekInfo, seekKeys, keys, disk, header,
                  directory, phase, step, errors, refused>>
  BY DEF vars, memory
<1>2. Types' /\ Layout' /\ Control'
  BY <1>1 DEF IInv, Types, Layout, Control
<1>3. Kept /\ (\A ks : KeysLead(ks) => KeysLead(ks)')
  BY <1>1, NothingWritten DEF IInv
<1>4. Seeks'
  BY <1>1, <1>3 DEF IInv, Seeks, HasKind, IsWhole
<1>5. FreeRecord' /\ Pointers'
  BY <1>1 DEF IInv, FreeRecord, Pointers, HasKind, IsWhole, KeysToCome
<1>6. Segments'
  BY <1>1 DEF IInv, Segments, Ending, Freed, HasKind, AfterGapStep
<1>7. Complete'
  BY <1>1 DEF IInv, Complete, Good, IsWhole, KeysToCome, Closing
<1> QED
  BY <1>2, <1>3, <1>4, <1>5, <1>6, <1>7 DEF IInv

-----------------------------------------------------------------------------
(* The invariant *)

LEMMA InitInvariant == Init => IInv
<1> SUFFICES ASSUME Init
             PROVE  IInv
  OBVIOUS
<1>1. /\ end = BEGIN + KeyLength + DirectorySize
      /\ segs = <<[first |-> end, last |-> START_BIG_FILE]>>
      /\ seekFree = NoSeek /\ nbytesFree = 0 /\ seekInfo = NoSeek /\ seekKeys = NoSeek
      /\ keys = <<>> /\ disk = <<>> /\ directory = NoSeek
      /\ header = [written |-> FALSE, end |-> 0, free |-> NoSeek, info |-> NoSeek]
      /\ phase = "making" /\ step = "header" /\ errors = 0 /\ refused = FALSE
  BY DEF Init, NoHeader
<1>2. end \in Nat /\ START_BIG_FILE \in Nat
  BY <1>1, Sizes
<1>3. DOMAIN disk = {} /\ disk \in [DOMAIN disk -> Record]
  <2>1. DOMAIN <<>> = {}
    OBVIOUS
  <2>2. <<>> = [s \in {} |-> 0]
    OBVIOUS
  <2> QED
    BY <1>1, <2>1, <2>2
<1>4. Types
  <2>1. segs \in Seq(Seg) /\ segs # <<>>
    <3>1. [first |-> end, last |-> START_BIG_FILE] \in Seg
      BY <1>2 DEF Seg
    <3> QED
      BY <1>1, <3>1
  <2>2. keys \in Seq(Key) /\ Len(keys) <= Len(Objects)
    BY <1>1, NoKeysLead DEF KeysLead
  <2>3. header \in [written : BOOLEAN, end : Nat, free : Nat, info : Nat]
    BY <1>1 DEF NoSeek
  <2>4. BEGIN + KeyLength + DirectorySize <= end /\ DOMAIN disk \subseteq Nat
    BY <1>1, <1>2, <1>3
  <2> QED
    BY <1>1, <1>2, <1>3, <2>1, <2>2, <2>3, <2>4 DEF Types, NoSeek
<1>5. Control
  BY <1>1 DEF Control
<1>6. Layout /\ Seeks
  BY <1>1, <1>3, NoKeysLead DEF Layout, Seeks
<1>7. FreeRecord /\ Pointers
  BY <1>1 DEF FreeRecord, Pointers
<1>8. Segments
  BY <1>1 DEF Segments, Ending
<1>9. Complete
  BY <1>1 DEF Complete, KeysToCome, Closing
<1> QED
  BY <1>4, <1>5, <1>6, <1>7, <1>8, <1>9 DEF IInv

LEMMA NextInvariant == IInv /\ [Next]_vars => IInv' /\ Kept
<1> SUFFICES ASSUME IInv, [Next]_vars
             PROVE  IInv' /\ Kept
  OBVIOUS
<1>1. CASE WriteDirectory
  BY <1>1, DirectoryKeeps
<1>2. CASE WriteBasket
  BY <1>2, BasketKeeps
<1>3. CASE WriteObject
  BY <1>3, ObjectKeeps
<1>4. CASE WriteKeys
  BY <1>4, KeysKeep
<1>5. CASE WritePointer
  BY <1>5, PointerKeeps
<1>6. CASE WriteInfos
  BY <1>6, InfosKeep
<1>7. CASE FreeOldRecord
  BY <1>7, GapKeeps
<1>8. CASE WriteFree
  BY <1>8, FreeKeeps
<1>9. CASE WriteHeader
  BY <1>9, HeaderKeeps
<1>10. CASE EndOfJob
  BY <1>10, EndOfJobKeeps
<1>11. CASE RefuseObject
  BY <1>11, RefuseKeeps
<1>12. CASE Kill
  BY <1>12, KillKeeps
<1>13. CASE UNCHANGED vars
  BY <1>13, StutterKeeps
<1> QED
  BY <1>1, <1>2, <1>3, <1>4, <1>5, <1>6, <1>7, <1>8, <1>9, <1>10, <1>11, <1>12, <1>13
     DEF Next, Write

LEMMA Invariant == Spec => []IInv
BY InitInvariant, NextInvariant, PTL DEF Spec

-----------------------------------------------------------------------------
(* The theorems *)

\* The directory on the disk leads to whole keys, and they to whole objects.
LEMMA DirectoryFollows == IInv => DirectoryResolves
<1> SUFFICES ASSUME IInv, directory # NoSeek
             PROVE  /\ IsWhole(directory, "keys")
                    /\ errors = 0 => \A k \in KeysRead :
                         IsWhole(k.seek, "object") /\ disk[k.seek].body = k.name
  BY DEF DirectoryResolves
<1>1. IsWhole(directory, "keys") /\ KeysLead(disk[directory].body)
  BY DEF IInv, Seeks, IsWhole
<1>2. KeysRead = {disk[directory].body[i] : i \in DOMAIN disk[directory].body}
  BY <1>1 DEF KeysRead, ToSet
<1> QED
  BY <1>1, <1>2 DEF KeysLead, HasKind, IsWhole

\* Wherever the program is killed, the directory on the disk points to whole
\* keys, and they to the objects they name (wroot::directory::write_keys and
\* write_header come after the objects).
THEOREM DirectoryAlwaysResolves == Spec => []DirectoryResolves
BY Invariant, DirectoryFollows, PTL

\* What a reader may reach is not of the free segments.
LEMMA ReachableIsNotFree ==
  ASSUME IInv, NEW s \in Reachable \cap DOMAIN disk
  PROVE  disk[s].kind # "free"
<1>1. Seeks
  BY DEF IInv
<1>2. NoSeek \notin DOMAIN disk
  <2>1. \A t \in DOMAIN disk : BEGIN <= t /\ t \in Nat
    BY DEF IInv, Layout, Types
  <2> QED
    BY <2>1, Sizes DEF NoSeek
<1>3. CASE s = BEGIN
  BY <1>1, <1>3 DEF Seeks
<1>4. CASE s = directory
  BY <1>1, <1>2, <1>4 DEF Seeks, IsWhole
<1>5. CASE s = header.info
  BY <1>1, <1>2, <1>5 DEF Seeks, HasKind
<1>6. CASE s \in {k.seek : k \in KeysRead}
  <2>1. PICK k \in KeysRead : s = k.seek
    BY <1>6
  <2>2. IsWhole(directory, "keys") /\ k \in ToSet(disk[directory].body)
    BY <2>1 DEF KeysRead
  <2>3. KeysLead(disk[directory].body)
    BY <1>1, <2>2 DEF Seeks, IsWhole
  <2>4. PICK i \in DOMAIN disk[directory].body : k = disk[directory].body[i]
    BY <2>2 DEF ToSet
  <2>5. HasKind(k.seek, "object")
    BY <2>3, <2>4 DEF KeysLead
  <2> QED
    BY <2>1, <2>5 DEF HasKind
<1>7. CASE s \in {t \in DOMAIN disk : disk[t].kind = "basket"}
  BY <1>7
<1> QED
  BY <1>3, <1>4, <1>5, <1>6, <1>7 DEF Reachable

\* No write ever touches a record that a reader can reach (file::set_END,
\* key::write_file, file::make_free_seg).
THEOREM ReachableIsNeverTorn == Spec => ReachableStaysWhole
<1>1. IInv /\ [Next]_vars =>
        [\A s \in Reachable : s \in DOMAIN disk /\ disk[s].whole => disk'[s].whole]_vars
  <2> SUFFICES ASSUME IInv, [Next]_vars, NEW s \in Reachable, s \in DOMAIN disk, disk[s].whole
               PROVE  disk'[s].whole
    OBVIOUS
  <2>1. disk[s].kind # "free"
    BY ReachableIsNotFree
  <2>2. Kept
    BY NextInvariant
  <2> QED
    BY <2>1, <2>2 DEF Kept
<1> QED
  BY <1>1, Invariant, PTL DEF Spec, ReachableStaysWhole

LEMMA FreeListFollows == IInv => FreeListIsSound
<1> SUFFICES ASSUME IInv, end <= START_BIG_FILE
             PROVE  /\ Last(segs).first = end /\ EndsFile(segs)
                    /\ \A i \in 1..Len(segs) - 1 : /\ segs[i].first <= segs[i].last
                                                   /\ segs[i].last + 1 < segs[i + 1].first
                    /\ \A i \in DOMAIN segs, s \in Reachable \cap DOMAIN disk :
                         segs[i].last < s \/ segs[i].first >= s + disk[s].size
  BY DEF FreeListIsSound
<1>1. /\ end \in Nat /\ START_BIG_FILE \in Nat /\ Layout /\ Segments
      /\ \A s \in DOMAIN disk : s \in Nat /\ disk[s].size \in Nat \ {0}
  BY Sizes DEF IInv, Types, Record
<1>2. \A s \in DOMAIN disk : s + disk[s].size <= end
  BY <1>1 DEF Layout
<1>3. CASE segs = <<Ending>>
  <2>1. /\ Len(segs) = 1 /\ DOMAIN segs = {1}
        /\ segs[1].first = end /\ segs[1].last = START_BIG_FILE
    BY <1>3 DEF Ending
  <2> QED
    BY <1>1, <1>2, <2>1 DEF Last, EndsFile
<1>4. CASE \E a, b \in Nat : Freed(a, b)
  <2>1. PICK a \in Nat, b \in Nat :
          /\ HasKind(a, "free") /\ a + disk[a].size = b + 1 /\ b + 1 < end
          /\ segs = <<[first |-> a, last |-> b], Ending>>
    BY <1>4 DEF Freed
  <2>2. /\ Len(segs) = 2 /\ DOMAIN segs = {1, 2}
        /\ segs[1].first = a /\ segs[1].last = b
        /\ segs[2].first = end /\ segs[2].last = START_BIG_FILE
    BY <2>1 DEF Ending
  <2>3. a \in DOMAIN disk /\ disk[a].size \in Nat \ {0}
    BY <1>1, <2>1 DEF HasKind
  <2>4. a <= b
    BY <2>1, <2>3
  <2>5. ASSUME NEW s \in Reachable \cap DOMAIN disk
        PROVE  (b < s \/ a >= s + disk[s].size) /\ end >= s + disk[s].size
    <3>1. s # a
      BY <2>1, ReachableIsNotFree DEF HasKind
    <3>2. s < a => s + disk[s].size <= a
      BY <1>1, <2>3 DEF Layout
    <3>3. a < s => a + disk[a].size <= s
      BY <1>1, <2>3 DEF Layout
    <3> QED
      BY <1>1, <1>2, <2>1, <2>3, <3>1, <3>2, <3>3
  <2> QED
    BY <1>1, <2>1, <2>2, <2>4, <2>5 DEF Last, EndsFile
<1>5. CASE end > START_BIG_FILE
  BY <1>1, <1>5
<1> QED
  BY <1>1, <1>3, <1>4, <1>5 DEF Segments

\* Before START_BIG_FILE the free segments are in order and apart, the last
\* follows END, and no record that can be reached is in them (set_END,
\* add_free).
THEOREM FreeListStaysSound == Spec => []FreeListIsSound
BY Invariant, FreeListFollows, PTL

-----------------------------------------------------------------------------
(* What a reader finds *)

\* The directory on the disk leads to keys, they lead to objects.
LEMMA DirectoryKeys ==
  ASSUME IInv, directory # NoSeek
  PROVE  \E ks : /\ ks = disk[directory].body /\ KeysLead(ks)
                 /\ IsWhole(directory, "keys")
                 /\ KeysRead = {ks[i] : i \in DOMAIN ks}
<1>1. IsWhole(directory, "keys") /\ KeysLead(disk[directory].body)
  BY DEF IInv, Seeks, IsWhole
<1> QED
  BY <1>1 DEF KeysRead, ToSet

LEMMA FoundNothing ==
  ASSUME directory = NoSeek \/ ~header.written
  PROVE  Found = {}
BY DEF Found, Opens

LEMMA FoundBounded ==
  ASSUME IInv
  PROVE  Found \subseteq ToSet(Objects)
<1>1. CASE directory = NoSeek
  BY <1>1, FoundNothing
<1>2. CASE directory # NoSeek
  <2>1. PICK ks : KeysLead(ks) /\ KeysRead = {ks[i] : i \in DOMAIN ks}
    BY <1>2, DirectoryKeys
  <2>2. ASSUME NEW k \in KeysRead
        PROVE  k.name \in ToSet(Objects)
    <3>1. PICK i \in DOMAIN ks : k = ks[i]
      BY <2>1
    <3>2. ks \in Seq(Key) /\ i \in 1 .. Len(ks)
      BY <2>1, LenProperties DEF KeysLead
    <3>3. ks[i] \in Key
      BY <3>2
    <3> QED
      BY <3>1, <3>3 DEF Key, Names
  <2> QED
    BY <2>2 DEF Found
<1> QED
  BY <1>1, <1>2

AllWritten ==
  /\ errors = 0 /\ header.written /\ IsWhole(BEGIN, "directory") /\ directory # NoSeek
  /\ Len(disk[directory].body) = Len(Objects)

LEMMA FoundAll ==
  ASSUME IInv, AllWritten
  PROVE  Found = ToSet(Objects)
<1>1. PICK ks : /\ ks = disk[directory].body /\ KeysLead(ks)
                /\ KeysRead = {ks[i] : i \in DOMAIN ks}
  BY DirectoryKeys DEF AllWritten
<1>2. Found = {k.name : k \in {kk \in KeysRead : IsWhole(kk.seek, "object")}}
  BY DEF Found, Opens, AllWritten
<1>3. ks \in Seq(Key) /\ Objects \in Seq(Names) /\ Len(ks) = Len(Objects)
  BY <1>1, WrootFileAssumption DEF WrootFileAssumption, Names, KeysLead, AllWritten
<1>4. DOMAIN ks = DOMAIN Objects
  BY <1>3, LenProperties
<1>5. \A i \in DOMAIN ks : ks[i].name = Objects[i] /\ IsWhole(ks[i].seek, "object")
  BY <1>1 DEF KeysLead, HasKind, IsWhole, AllWritten
<1>6. \A k \in KeysRead : IsWhole(k.seek, "object")
  BY <1>1, <1>5
<1>7. Found = {k.name : k \in KeysRead}
  BY <1>2, <1>6
<1>8. Found = {ks[i].name : i \in DOMAIN ks}
  BY <1>1, <1>7
<1> QED
  BY <1>4, <1>5, <1>8 DEF ToSet

\* Keys that lead to objects find the same objects while records are kept.
LEMMA WholeObjects ==
  ASSUME Kept, NEW ks, KeysLead(ks), NEW i \in DOMAIN ks
  PROVE  IsWhole(ks[i].seek, "object")' <=> IsWhole(ks[i].seek, "object")
BY DEF KeysLead, HasKind, IsWhole, Kept

LEMMA FoundKept ==
  ASSUME IInv, Kept, header'.written = header.written, directory' = directory,
         directory # NoSeek => (BEGIN \in DOMAIN disk' => BEGIN \in DOMAIN disk)
  PROVE  Found' = Found
<1>1. CASE directory = NoSeek
  BY <1>1 DEF Found, Opens
<1>2. CASE directory # NoSeek
  <2>1. PICK ks : /\ ks = disk[directory].body /\ KeysLead(ks)
                  /\ IsWhole(directory, "keys")
                  /\ KeysRead = {ks[i] : i \in DOMAIN ks}
    BY <1>2, DirectoryKeys
  <2>2. IsWhole(BEGIN, "directory")' <=> IsWhole(BEGIN, "directory")
    BY <1>2 DEF IsWhole, Kept
  <2>3. Opens' <=> Opens
    BY <2>2 DEF Opens
  <2>4. KeysRead' = {ks[i] : i \in DOMAIN ks}
    <3>1. IsWhole(directory, "keys")' /\ disk'[directory'].body = ks
      BY <2>1 DEF IsWhole, Kept
    <3> QED
      BY <3>1 DEF KeysRead, ToSet
  <2>5. \A k \in KeysRead : IsWhole(k.seek, "object")' <=> IsWhole(k.seek, "object")
    BY <2>1, WholeObjects
  <2>6. {k \in KeysRead : IsWhole(k.seek, "object")}'
          = {k \in KeysRead : IsWhole(k.seek, "object")}
    BY <2>1, <2>4, <2>5
  <2> QED
    BY <2>3, <2>6 DEF Found
<1> QED
  BY <1>1, <1>2

\* A file that was closed and where nothing failed is complete.
LEMMA ClosedFollows == IInv => ClosedFileIsComplete
<1> SUFFICES ASSUME IInv, phase = "closed", errors = 0, ~refused
             PROVE  /\ Found = ToSet(Objects) /\ IsWhole(header.info, "infos")
                    /\ header.end <= end
                    /\ end <= START_BIG_FILE =>
                         /\ header.end = end
                         /\ IsWhole(header.free, "free") /\ disk[header.free].body = segs
  BY DEF ClosedFileIsComplete
<1>1. /\ header.written /\ IsWhole(BEGIN, "directory")
      /\ directory # NoSeek /\ Len(disk[directory].body) = Len(Objects)
      /\ IsWhole(seekInfo, "infos")
      /\ end <= START_BIG_FILE => IsWhole(seekFree, "free") /\ disk[seekFree].body = segs
      /\ header = [written |-> TRUE, end |-> end, free |-> seekFree, info |-> seekInfo]
  BY DEF IInv, Complete, Good, Closing
<1>2. Found = ToSet(Objects)
  BY <1>1, FoundAll DEF AllWritten
<1>3. header.info = seekInfo /\ header.end = end /\ header.free = seekFree /\ end \in Nat
  BY <1>1 DEF IInv, Types
<1> QED
  BY <1>1, <1>2, <1>3

\* A file that was closed, and where no write has failed, has all its objects
\* and describes itself (file::write, file::close).
THEOREM ClosedFileStaysComplete == Spec => []ClosedFileIsComplete
BY Invariant, ClosedFollows, PTL

-----------------------------------------------------------------------------
(* The file implements ObjectStore *)

Intact == errors = 0 /\ ~refused

\* Failures are never forgotten.
LEMMA FailuresStay ==
  ASSUME IInv, [Next]_vars
  PROVE  Intact' => Intact
<1>1. /\ Types /\ errors \in Nat
  BY DEF IInv, Types
<1>2. /\ errors' = errors \/ errors' = errors + 1
      /\ refused' = refused \/ refused' = TRUE
  BY DEF Next, Write, WriteDirectory, WriteBasket, WriteObject, WriteKeys, WritePointer,
         WriteInfos, FreeOldRecord, WriteFree, WriteHeader, EndOfJob, RefuseObject, Kill,
         WriteRecord, vars
<1> QED
  BY <1>1, <1>2 DEF Intact

\* The first record is written by the constructor or not at all.
LEMMA FirstRecord ==
  ASSUME IInv, [Next]_vars, phase # "making", BEGIN \in DOMAIN disk'
  PROVE  BEGIN \in DOMAIN disk
<1>1. BEGIN # end
  <2>1. end \in Nat /\ BEGIN + KeyLength + DirectorySize <= end
    BY DEF IInv, Types
  <2> QED
    BY <2>1, Sizes
<1>2. DOMAIN disk' \subseteq DOMAIN disk \cup {end}
  BY DEF Next, Write, WriteDirectory, WriteBasket, WriteObject, WriteKeys, WritePointer,
         WriteInfos, FreeOldRecord, WriteFree, WriteHeader, EndOfJob, RefuseObject, Kill,
         WriteRecord, Put, Marked, InPlace, vars
<1> QED
  BY <1>1, <1>2

LEMMA StoreInitial == Init => Store!StoreInit
<1>1. Init => ~header.written /\ errors = 0 /\ refused = FALSE
  BY DEF Init, NoHeader
<1>2. Init => Found = {}
  BY <1>1, FoundNothing
<1> QED
  BY <1>1, <1>2 DEF Store!StoreInit

LEMMA StoreKept ==
  ASSUME Found' = Found, Intact' => Intact
  PROVE  [Store!StoreNext]_Store!storeVars
<1>1. CASE Intact' <=> Intact
  <2>1. (errors = 0 /\ ~refused)' = (errors = 0 /\ ~refused)
    BY <1>1 DEF Intact
  <2> QED
    BY <2>1 DEF Store!storeVars
<1>2. CASE ~Intact'
  <2>1. (errors = 0 /\ ~refused)' = FALSE
    BY <1>2 DEF Intact
  <2>2. {} \in SUBSET ToSet(Objects) /\ Found' = Found \cup {}
    OBVIOUS
  <2>3. Store!Degrade
    BY <2>1, <2>2 DEF Store!Degrade
  <2> QED
    BY <2>3 DEF Store!StoreNext
<1> QED
  BY <1>1, <1>2

LEMMA StoreDegrades ==
  ASSUME ~Intact', Found \subseteq Found', Found' \subseteq ToSet(Objects)
  PROVE  [Store!StoreNext]_Store!storeVars
<1>1. (errors = 0 /\ ~refused)' = FALSE
  BY DEF Intact
<1>2. Found' \in SUBSET ToSet(Objects) /\ Found' = Found \cup Found'
  OBVIOUS
<1>3. Store!Degrade
  BY <1>1, <1>2 DEF Store!Degrade
<1> QED
  BY <1>3 DEF Store!StoreNext

LEMMA StorePublishes ==
  ASSUME Intact, Intact', Found' = ToSet(Objects)
  PROVE  [Store!StoreNext]_Store!storeVars
<1>1. Store!Publish
  BY DEF Intact, Store!Publish
<1> QED
  BY <1>1 DEF Store!StoreNext

\* The objects appear when the directory is pointed to their keys.
LEMMA PointerStores ==
  ASSUME IInv, IInv', [Next]_vars, WritePointer
  PROVE  [Store!StoreNext]_Store!storeVars
<1>1. PICK outcome \in Outcomes \ {"killed"} :
        /\ directory' \in {seekKeys, directory}
        /\ errors' = IF outcome = "done" THEN errors ELSE errors + 1
  BY DEF WritePointer, InPlace
<1>2. /\ UNCHANGED <<disk, header, refused>>
      /\ step = "pointer" /\ phase \in {"writing", "closing"}
      /\ IsWhole(seekKeys, "keys") /\ disk[seekKeys].body = keys /\ KeysLead(keys)
      /\ phase = "writing" => directory = NoSeek
      /\ directory # NoSeek => IsWhole(directory, "keys") /\ disk[directory].body = keys
      /\ errors \in Nat
  BY DEF WritePointer, IInv, Pointers, Control, Seeks, KeysToCome, Types
<1>3. Kept /\ (Intact' => Intact) /\ Found' \subseteq ToSet(Objects)
  <2>1. Kept /\ (Intact' => Intact)
    BY NextInvariant, FailuresStay
  <2>2. (Found \subseteq ToSet(Objects))'
    BY FoundBounded, PTL
  <2> QED
    BY <2>1, <2>2
<1>4. CASE directory' = directory
  <2>1. Found' = Found
    BY <1>1, <1>2, <1>3, <1>4, FoundKept
  <2> QED
    BY <1>3, <2>1, StoreKept
<1>5. CASE directory' = seekKeys /\ directory # NoSeek
  <2>1. KeysRead' = KeysRead
    BY <1>1, <1>2, <1>5 DEF KeysRead, IsWhole
  <2>2. seekKeys # NoSeek
    <3>1. seekKeys \in DOMAIN disk
      BY <1>2 DEF IsWhole
    <3>2. BEGIN <= seekKeys
      BY <3>1 DEF IInv, Layout
    <3> QED
      BY <3>2, Sizes DEF NoSeek
  <2>3. Found' = Found
    BY <1>1, <1>2, <1>5, <2>1, <2>2 DEF Found, Opens, IsWhole
  <2> QED
    BY <1>3, <2>3, StoreKept
<1>6. CASE directory' = seekKeys /\ directory = NoSeek
  <2>1. Found = {}
    BY <1>6, FoundNothing
  <2>2. CASE ~Intact'
    BY <1>3, <2>1, <2>2, StoreDegrades
  <2>3. CASE Intact'
    <3>1. Good
      BY <1>2, <1>3, <2>3 DEF Good, Intact
    <3>2. /\ header.written /\ IsWhole(BEGIN, "directory") /\ Len(keys) = Len(Objects)
          /\ phase = "writing"
      BY <1>2, <1>6, <3>1 DEF IInv, Complete, KeysToCome, Closing
    <3>3. seekKeys # NoSeek
      <4>1. seekKeys \in DOMAIN disk
        BY <1>2 DEF IsWhole
      <4>2. BEGIN <= seekKeys
        BY <4>1 DEF IInv, Layout
      <4> QED
        BY <4>2, Sizes DEF NoSeek
    <3>4. AllWritten'
      BY <1>1, <1>2, <1>6, <2>3, <3>2, <3>3 DEF Intact, IsWhole, AllWritten
    <3>5. (Found = ToSet(Objects))'
      BY <3>4, FoundAll, PTL
    <3> QED
      BY <1>3, <2>3, <3>5, StorePublishes
  <2> QED
    BY <2>2, <2>3
<1> QED
  BY <1>1, <1>4, <1>5, <1>6

LEMMA HeaderStores ==
  ASSUME IInv, IInv', [Next]_vars, WriteHeader
  PROVE  [Store!StoreNext]_Store!storeVars
<1>1. PICK outcome \in Outcomes \ {"killed"} :
        /\ \/ header' = [written |-> TRUE, end |-> end, free |-> seekFree, info |-> seekInfo]
           \/ outcome # "done" /\ header' = header
        /\ errors' = IF outcome = "done" THEN errors ELSE errors + 1
  BY DEF WriteHeader, InPlace
<1>2. /\ UNCHANGED <<disk, directory, refused>>
      /\ step = "header" /\ phase \in {"making", "writing", "closing"}
      /\ phase = "making" => directory = NoSeek
      /\ errors \in Nat
  BY DEF WriteHeader, IInv, Control, Types
<1>3. Kept /\ (Intact' => Intact) /\ Found' \subseteq ToSet(Objects)
  <2>1. Kept /\ (Intact' => Intact)
    BY NextInvariant, FailuresStay
  <2>2. (Found \subseteq ToSet(Objects))'
    BY FoundBounded, PTL
  <2> QED
    BY <2>1, <2>2
<1>4. CASE directory = NoSeek
  <2>1. Found = {} /\ Found' = {}
    BY <1>2, <1>4 DEF Found, Opens
  <2> QED
    BY <1>3, <2>1, StoreKept
<1>5. CASE header'.written = header.written
  <2>1. Found' = Found
    BY <1>2, <1>3, <1>5, FoundKept
  <2> QED
    BY <1>3, <2>1, StoreKept
<1>6. CASE directory # NoSeek /\ header'.written # header.written
  <2>1. ~header.written
    <3>1. header.written \in BOOLEAN
      BY DEF IInv, Types
    <3>2. header' = [written |-> TRUE, end |-> end, free |-> seekFree, info |-> seekInfo]
      BY <1>1, <1>6
    <3>3. header'.written = TRUE
      BY <3>2
    <3> QED
      BY <1>6, <3>1, <3>3
  <2>2. Found = {}
    BY <2>1, FoundNothing
  <2>3. ~Intact
    BY <1>2, <1>6, <2>1 DEF IInv, Complete, Good, Intact
  <2> QED
    BY <1>3, <2>2, <2>3, StoreDegrades
<1> QED
  BY <1>4, <1>5, <1>6

LEMMA StoreStep ==
  ASSUME IInv, IInv', [Next]_vars
  PROVE  [Store!StoreNext]_Store!storeVars
<1>1. CASE WritePointer
  BY <1>1, PointerStores
<1>2. CASE WriteHeader
  BY <1>2, HeaderStores
<1>3. CASE ~WritePointer /\ ~WriteHeader
  <2>1. UNCHANGED <<header, directory>>
    BY <1>3 DEF Next, Write, WriteDirectory, WriteBasket, WriteObject, WriteKeys, WriteInfos,
                FreeOldRecord, WriteFree, EndOfJob, RefuseObject, Kill, vars
  <2>2. directory # NoSeek => phase # "making"
    BY DEF IInv, Control
  <2>3. Found' = Found
    BY <2>1, <2>2, NextInvariant, FirstRecord, FoundKept
  <2> QED
    BY <2>3, FailuresStay, StoreKept
<1> QED
  BY <1>1, <1>2, <1>3

\* The file implements ObjectStore: the objects of the program appear in it
\* all at once, and none ever disappears (directory::write_header).
THEOREM StoreIsImplemented == Spec => ImplementsStore
<1>1. IInv /\ IInv' /\ [Next]_vars => [Store!StoreNext]_Store!storeVars
  BY StoreStep
<1> QED
  BY <1>1, StoreInitial, Invariant, PTL DEF Spec, ImplementsStore, Store!StoreSpec

=============================================================================
