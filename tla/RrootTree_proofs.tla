-------------------------- MODULE RrootTree_proofs --------------------------
(***************************************************************************)
(* What WrootTree and RrootTree promise, for every size of a basket, of    *)
(* its arrays and of the leaves, for any number of events, of rows and of  *)
(* writes and reads that fail, and for any order in which the entries are  *)
(* read.                                                                   *)
(*                                                                         *)
(* The argument for the writer: the baskets of a branch share its entries  *)
(* out, and each holds its own, one chunk behind the other (IsImage), so   *)
(* that an entry lies in one window and reads as the chunk at its offset.  *)
(* Taking an entry, opening the next basket, growing the file and marking  *)
(* a basket as streamed change no entry that was there. Hence a step of    *)
(* tree::fill either appends the leaf to its branch or gives the branch    *)
(* up, after a write that failed (Takes, Breaks, FillStepIs). It follows   *)
(* that the hit tree holds the rows of the event so far unless a basket    *)
(* was given up, that the leaf is therefore the event's, that a fill of    *)
(* the Event tree succeeds only when each of its branches took such a      *)
(* leaf, and, the trees of the event being reset first, that no basket is  *)
(* streamed twice.                                                         *)
(*                                                                         *)
(* For the reader: the first basket whose bounds hold an entry is the one  *)
(* whose window holds it. A branch that is read keeps at most that basket  *)
(* (IsReader), hence what find_entry(n) leaves is the entry n. The Event   *)
(* tree counts no entry that some branch lacks (EntriesCovered), and every *)
(* object of its hit column is a whole tree whose images are new           *)
(* (ObjectIsTree), so the same holds of the rows. The first fill that      *)
(* failed left an entry without an object right behind the good ones       *)
(* (LossIsMarked): a reader that goes in order has only read good entries  *)
(* when it comes there, and stops.                                         *)
(***************************************************************************)
EXTENDS RrootTree, SequenceTheorems, FiniteSetTheorems, TLAPS

(***************************************************************************)
(* What a basket, a branch and a tree hold.                                *)
(***************************************************************************)
IsSequence(s) == s \in Seq({s[k] : k \in DOMAIN s})

\* The entries of a basket: one chunk each, one behind the other, and the
\* offsets at which they start.
Readable(rec) ==
  /\ rec.nev \in Nat
  /\ IsSequence(rec.data) /\ Len(rec.data) = rec.nev
  /\ IsSequence(rec.offset) /\ Len(rec.offset) = rec.nev
  /\ \A k \in 1..rec.nev :
       /\ rec.data[k].at \in Nat /\ rec.data[k].size \in Nat \ {0}
       /\ rec.offset[k] = KeyLength + rec.data[k].at
       /\ rec.data[k].val # Garbage
  /\ \A k, m \in 1..rec.nev : k < m => rec.data[k].at + rec.data[k].size <= rec.data[m].at

\* Is n an entry of the i-th basket?
InWindow(img, i, n) ==
  /\ i \in 0..img.writeBasket /\ img.basketEntry[i] <= n
  /\ i # img.writeBasket => n < img.basketEntry[i + 1]

\* The baskets share the entries out, and hold them.
IsImage(img, fl) ==
  /\ img.writeBasket \in Nat /\ img.entryNumber \in Nat
  /\ \A i \in 0..img.writeBasket : img.basketEntry[i] \in Nat
  /\ \A i, j \in 0..img.writeBasket : i < j => img.basketEntry[i] < img.basketEntry[j]
  /\ \A n \in 0..img.entryNumber - 1 : \E i \in 0..img.writeBasket : InWindow(img, i, n)
  /\ \A i \in 0..img.writeBasket - 1 :
       /\ img.basketSeek[i] \in DOMAIN fl
       /\ Readable(fl[img.basketSeek[i]])
       /\ fl[img.basketSeek[i]].nev = img.basketEntry[i + 1] - img.basketEntry[i]
  /\ Readable(img.open)
  /\ img.basketEntry[img.writeBasket] + img.open.nev = img.entryNumber

\* The fields of a basket, a branch and a tree.
BasketFields == {"data", "offset", "tables", "nev", "room", "seekKey", "last"}
BranchFields ==
  {"writeBasket", "entryNumber", "maxBaskets", "basketEntry", "basketSeek", "open"}
TreeFields == {"entries", "branch"}

\* What the arrays of a branch and of its open basket always are.
IsBranch(br) ==
  /\ DOMAIN br = BranchFields /\ DOMAIN br.open = BasketFields
  /\ br.maxBaskets \in Nat /\ br.maxBaskets > 1
  /\ br.writeBasket \in 0..br.maxBaskets - 1
  /\ br.entryNumber \in Nat
  /\ DOMAIN br.basketEntry = 0..br.maxBaskets - 1
  /\ DOMAIN br.basketSeek = 0..br.maxBaskets - 1
  /\ \A i \in 0..br.maxBaskets - 1 : br.basketSeek[i] # NoSeek <=> i < br.writeBasket
  /\ br.open.nev \in Nat /\ br.open.room \in Nat /\ br.open.last \in Nat
  /\ br.open.tables \in BOOLEAN
  /\ br.open.tables <=> br.open.seekKey = NoSeek
  /\ br.open.tables => br.open.nev + 1 <= br.open.room

\* Has no basket of the tree met a failing write?
Sound(t) == \A b \in DOMAIN t.branch : t.branch[b].open.tables

Width(name) == Len(Columns(name))
Trees == {"Event", "hit"}

Shape ==
  /\ DOMAIN tree = Trees
  /\ \A t \in Trees :
       /\ DOMAIN tree[t] = TreeFields
       /\ tree[t].entries \in Nat
       /\ DOMAIN tree[t].branch = 1..Width(t)
       /\ \A b \in 1..Width(t) :
            /\ IsBranch(tree[t].branch[b])
            /\ tree[t].branch[b].open.seekKey \in 0..Len(file)
            /\ tree[t].branch[b].open.tables => IsImage(tree[t].branch[b], file)

(***************************************************************************)
(* Where the event is.                                                     *)
(***************************************************************************)
Control ==
  /\ stage \in {"idle", "rows", "written", "lost"}
  /\ event \in 0..MaxEvents /\ rows \in 0..MaxRows /\ errors \in 0..MaxWriteErrors
  /\ IsSequence(file) /\ IsSequence(filled)
  /\ filling \in Trees \cup {"none"}
  /\ filling # "none" => stage = "rows" /\ column \in 1..Width(filling)
  /\ filling = "none" => column = 1
  /\ filling = "hit" => rows > 0
  /\ failed \subseteq 1..event
  /\ \A n \in DOMAIN filled :
       /\ filled[n].event \in 1..event /\ filled[n].rows \in 0..MaxRows
       /\ filled[n] \in ContentsSet
  /\ stage = "rows" =>
       event > 0 /\ event \notin failed /\ \A n \in DOMAIN filled : filled[n].event # event
  /\ Len(filled) + Cardinality(failed) <= event
  /\ stage = "rows" => Len(filled) + Cardinality(failed) < event

\* A basket is not written twice, nor streamed twice.
Marks ==
  /\ \A b \in 1..Width("Event") :
       stage \in {"idle", "rows"} /\ tree["Event"].branch[b].open.tables =>
         tree["Event"].branch[b].open.last = 0
  /\ \A b \in 1..Width("hit") :
       stage = "rows" /\ ~(filling = "Event" /\ column > 2)
         /\ tree["hit"].branch[b].open.tables => tree["hit"].branch[b].open.last = 0

Causes ==
  /\ \A t \in Trees : Sound(tree[t]) \/ errors > 0
  /\ Sound(tree["Event"]) \/ failed # {}
  /\ failed # {} => errors > 0
  /\ stage = "lost" => failed # {}

(***************************************************************************)
(* What the entries are.                                                   *)
(***************************************************************************)
\* The rows of the event so far, until one cannot be stored.
HitRows ==
  stage = "rows" /\ Sound(tree["hit"]) =>
    /\ tree["hit"].entries = IF filling = "hit" THEN rows - 1 ELSE rows
    /\ \A b \in 1..Width("hit") :
         /\ tree["hit"].branch[b].entryNumber =
              IF filling = "hit" /\ b >= column THEN rows - 1 ELSE rows
         /\ \A r \in 1..tree["hit"].branch[b].entryNumber :
              EntryOf(tree["hit"].branch[b], file, r - 1) = <<"row", event, r>>

\* A tree that can be read: of that event, with those rows.
IsTreeOf(t, f, fl) ==
  /\ t.entries = f.rows /\ DOMAIN t.branch = 1..Width("hit")
  /\ \A b \in 1..Width("hit") :
       /\ IsImage(t.branch[b], fl) /\ t.branch[b].entryNumber = f.rows
       /\ \A r \in 1..f.rows : EntryOf(t.branch[b], fl, r - 1) = <<"row", f.event, r>>

IsEntryOf(val, b, f, fl) ==
  IF b = 2 THEN val[1] = "tree" /\ val = <<"tree", val[2]>> /\ IsTreeOf(val[2], f, fl)
  ELSE val = <<"event", f.event>>

EventEntry(b, n) == EntryOf(tree["Event"].branch[b], file, n - 1)
Current == [event |-> event, rows |-> rows]

GoodEntriesHold ==
  Sound(tree["Event"]) => \A n \in GoodEntries : \A b \in 1..Width("Event") :
    /\ n <= tree["Event"].branch[b].entryNumber
    /\ IsEntryOf(EventEntry(b, n), b, filled[n], file)

\* As long as no fill has failed.
EntriesInStep ==
  failed = {} =>
    /\ tree["Event"].entries = Len(filled)
    /\ \A b \in 1..Width("Event") :
         IF filling = "Event" /\ b < column
         THEN /\ tree["Event"].branch[b].entryNumber = Len(filled) + 1
              /\ IsEntryOf(EventEntry(b, Len(filled) + 1), b, Current, file)
         ELSE tree["Event"].branch[b].entryNumber = Len(filled)

\* A tree in the column of the hits is that of a fill that succeeded, or of
\* the one that goes on.
TreesAreWhole ==
  Sound(tree["Event"]) =>
    \A n \in 1..tree["Event"].branch[2].entryNumber :
      \/ EventEntry(2, n) = Partial
      \/ \E m \in DOMAIN filled : IsEntryOf(EventEntry(2, n), 2, filled[m], file)
      \/ filling = "Event" /\ column = 3 /\ IsEntryOf(EventEntry(2, n), 2, Current, file)

\* The tree that was written is the tree in memory.
ImageIsTree ==
  stage = "written" =>
    /\ Sound(tree["Event"]) /\ image.entries = tree["Event"].entries
    /\ DOMAIN image.branch = 1..Width("Event")
    /\ \A b \in 1..Width("Event") : image.branch[b] = BranchImage(tree["Event"].branch[b])
-----------------------------------------------------------------------------
(***************************************************************************)
(* Lemmas about baskets.                                                   *)
(***************************************************************************)
\* A sequence of anything is longer by what is appended.
LEMMA AppendAny ==
  ASSUME NEW s, IsSequence(s), NEW e
  PROVE  /\ Len(s) \in Nat /\ DOMAIN s = 1..Len(s)
         /\ IsSequence(Append(s, e)) /\ Len(Append(s, e)) = Len(s) + 1
         /\ DOMAIN Append(s, e) = 1..Len(s) + 1
         /\ \A k \in 1..Len(s) : Append(s, e)[k] = s[k]
         /\ Append(s, e)[Len(s) + 1] = e
<1> DEFINE S == {s[k] : k \in DOMAIN s}
           T == S \cup {e}
           u == Append(s, e)
<1>1. s \in Seq(S)
  BY DEF IsSequence
<1>2. s \in Seq(T)
  BY <1>1, SeqMonotonic
<1>3. /\ Len(s) \in Nat /\ DOMAIN s = 1..Len(s)
      /\ u \in Seq(T) /\ Len(u) = Len(s) + 1 /\ DOMAIN u = 1..Len(s) + 1
      /\ \A k \in 1..Len(s) : u[k] = s[k]
      /\ u[Len(s) + 1] = e
  BY <1>2, AppendProperties, LenProperties
<1> HIDE DEF u
<1>4. IsSequence(u)
  <2> DEFINE U == {u[k] : k \in DOMAIN u}
  <2>1. u = [k \in 1..Len(u) |-> u[k]]
    BY <1>3
  <2>2. \A k \in 1..Len(u) : u[k] \in U
    BY <1>3
  <2>3. [k \in 1..Len(u) |-> u[k]] \in Seq(U)
    <3> HIDE DEF U
    <3> QED  BY <1>3, <2>2, IsASeq
  <2> QED  BY <2>1, <2>3 DEF IsSequence
<1> QED  BY <1>3, <1>4 DEF u

\* The empty sequence is one.
LEMMA EmptyIsSequence == IsSequence(<<>>) /\ Len(<<>>) = 0 /\ DOMAIN <<>> = {}
<1>1. <<>> \in Seq({<<>>[k] : k \in DOMAIN <<>>})
  BY EmptySeq
<1> QED  BY <1>1, EmptySeq DEF IsSequence

\* An offset leads to its entry (rroot::branch::find_entry, read_leaves).
LEMMA ReadValue ==
  ASSUME NEW rec, Readable(rec), NEW k \in 1..rec.nev
  PROVE  ValueAt(rec, k) = rec.data[k].val /\ rec.data[k].val # Garbage
<1> DEFINE start == rec.offset[k] - KeyLength
           found == {j \in DOMAIN rec.data : rec.data[j].at = start}
<1>1. /\ rec.nev \in Nat /\ Len(rec.offset) = rec.nev /\ DOMAIN rec.data = 1..rec.nev
      /\ rec.data[k].val # Garbage
      /\ \A m \in 1..rec.nev : /\ rec.data[m].at \in Nat /\ rec.data[m].size \in Nat \ {0}
                               /\ rec.offset[m] = KeyLength + rec.data[m].at
      /\ \A m, n \in 1..rec.nev : m < n => rec.data[m].at + rec.data[m].size <= rec.data[n].at
  BY AppendAny DEF Readable
<1>2. KeyLength \in Nat
  BY WrootBranchAssumption DEF WrootBranchAssumption
<1>3. start = rec.data[k].at
  BY <1>1, <1>2
<1>4. \A j \in 1..rec.nev : rec.data[j].at = rec.data[k].at => j = k
  <2>1. \A m \in 1..rec.nev, n \in 1..rec.nev : m < n => rec.data[m].at # rec.data[n].at
    <3> SUFFICES ASSUME NEW m \in 1..rec.nev, NEW n \in 1..rec.nev, m < n
                 PROVE  rec.data[m].at # rec.data[n].at
      OBVIOUS
    <3>1. /\ rec.data[m].at \in Nat /\ rec.data[m].size \in Nat \ {0}
          /\ rec.data[n].at \in Nat
          /\ rec.data[m].at + rec.data[m].size <= rec.data[n].at
      BY <1>1
    <3> QED  BY <3>1
  <2>2. rec.nev \in Nat
    BY <1>1
  <2> QED  BY <2>1, <2>2
<1>5. found = {k}
  BY <1>1, <1>3, <1>4
<1>6. ~(k > rec.nev \/ k > Len(rec.offset))
  BY <1>1
<1>7. ValueAt(rec, k) =
        IF k > rec.nev \/ k > Len(rec.offset) THEN Garbage
        ELSE IF found = {} THEN Garbage ELSE rec.data[CHOOSE j \in found : TRUE].val
  BY DEF ValueAt
<1> QED  BY <1>1, <1>5, <1>6, <1>7

\* The bytes of a basket end behind its last entry.
LEMMA LengthOfData ==
  ASSUME NEW rec, Readable(rec)
  PROVE  /\ LengthOf(rec.data) \in Nat
         /\ \A k \in 1..rec.nev : rec.data[k].at + rec.data[k].size <= LengthOf(rec.data)
<1>1. /\ rec.nev \in Nat /\ Len(rec.data) = rec.nev /\ DOMAIN rec.data = 1..rec.nev
      /\ \A m \in 1..rec.nev : rec.data[m].at \in Nat /\ rec.data[m].size \in Nat \ {0}
      /\ \A m, n \in 1..rec.nev : m < n => rec.data[m].at + rec.data[m].size <= rec.data[n].at
  BY AppendAny DEF Readable
<1>2. CASE rec.data = <<>>
  BY <1>1, <1>2, EmptyIsSequence DEF LengthOf
<1>3. CASE rec.data # <<>>
  <2>1. rec.nev # 0
    <3>1. rec.data \in Seq({rec.data[k] : k \in DOMAIN rec.data})
      BY DEF Readable, IsSequence
    <3> QED  BY <1>1, <1>3, <3>1, EmptySeq
  <2>2. LengthOf(rec.data) = rec.data[rec.nev].at + rec.data[rec.nev].size
    BY <1>1, <1>3 DEF LengthOf
  <2>3. rec.nev \in 1..rec.nev
    BY <1>1, <2>1
  <2>4. ASSUME NEW k \in 1..rec.nev
        PROVE  rec.data[k].at + rec.data[k].size <= rec.data[rec.nev].at + rec.data[rec.nev].size
    <3>1. CASE k = rec.nev
      BY <1>1, <3>1
    <3>2. CASE k < rec.nev
      <4>1. \A n \in 1..rec.nev :
              k < n => rec.data[k].at + rec.data[k].size <= rec.data[n].at
        BY <1>1
      <4>2. rec.data[k].at + rec.data[k].size <= rec.data[rec.nev].at
        BY <2>3, <3>2, <4>1
      <4>3. /\ rec.data[k].at \in Nat /\ rec.data[k].size \in Nat
            /\ rec.data[rec.nev].at \in Nat /\ rec.data[rec.nev].size \in Nat
        BY <1>1, <2>3
      <4> QED  BY <4>2, <4>3
    <3>3. k = rec.nev \/ k < rec.nev
      <4>1. rec.nev \in Nat
        BY <1>1
      <4> QED  BY <4>1
    <3> QED  BY <3>1, <3>2, <3>3
  <2> QED  BY <1>1, <2>2, <2>3, <2>4
<1> QED  BY <1>2, <1>3
-----------------------------------------------------------------------------
(***************************************************************************)
(* Lemmas about branches.                                                  *)
(***************************************************************************)
\* The baskets share the entries out: an entry is in one window only, and the
\* basket of that window holds it.
LEMMA EntryInWindow ==
  ASSUME NEW img, NEW fl, IsImage(img, fl),
         NEW n \in 0..img.entryNumber - 1, NEW i, InWindow(img, i, n)
  PROVE  /\ n - img.basketEntry[i] + 1 \in 1..BasketAt(img, fl, i).nev
         /\ EntryOf(img, fl, n) = BasketAt(img, fl, i).data[n - img.basketEntry[i] + 1].val
         /\ EntryOf(img, fl, n) = ValueAt(BasketAt(img, fl, i), n - img.basketEntry[i] + 1)
         /\ EntryOf(img, fl, n) # Garbage
<1> DEFINE w  == img.writeBasket
           be == img.basketEntry
           rec == BasketAt(img, fl, i)
           k   == n - be[i] + 1
           windows == {j \in Windows(img) : HoldsEntry(img, j, n)}
           found == {ValueAt(BasketAt(img, fl, j), n - FirstEntry(img, j) + 1) : j \in windows}
<1>1. /\ w \in Nat /\ img.entryNumber \in Nat /\ n \in Nat /\ n < img.entryNumber
      /\ \A j \in 0..w : be[j] \in Nat
      /\ \A j, m \in 0..w : j < m => be[j] < be[m]
      /\ be[w] + img.open.nev = img.entryNumber
      /\ Readable(img.open)
      /\ i \in 0..w /\ be[i] <= n /\ (i # w => n < be[i + 1])
  BY DEF IsImage, InWindow
<1>2. Readable(rec) /\ k \in 1..rec.nev
  <2>1. CASE i = w
    <3>1. rec = img.open
      BY <2>1 DEF BasketAt
    <3>2. img.open.nev \in Nat
      BY <1>1 DEF Readable
    <3> QED  BY <1>1, <2>1, <3>1, <3>2
  <2>2. CASE i # w
    <3>1. i \in 0..w - 1 /\ i + 1 \in 0..w
      BY <1>1, <2>2
    <3>2. /\ img.basketSeek[i] \in DOMAIN fl
          /\ Readable(fl[img.basketSeek[i]])
          /\ fl[img.basketSeek[i]].nev = be[i + 1] - be[i]
      BY <3>1 DEF IsImage
    <3>3. rec = fl[img.basketSeek[i]]
      BY <2>2, <3>2 DEF BasketAt
    <3>4. k \in 1..be[i + 1] - be[i]
      <4>1. be[i] \in Nat /\ be[i + 1] \in Nat /\ n < be[i + 1]
        BY <1>1, <2>2, <3>1
      <4> QED  BY <1>1, <4>1
    <3> QED  BY <3>2, <3>3, <3>4
  <2> QED  BY <2>1, <2>2
<1>3. ValueAt(rec, k) = rec.data[k].val /\ rec.data[k].val # Garbage
  BY <1>2, ReadValue
<1>4. windows = {i}
  <2>1. Windows(img) = 0..w
    BY <1>1 DEF Windows
  <2>2. HoldsEntry(img, i, n)
    <3>1. CASE i = w
      BY <1>1, <3>1 DEF HoldsEntry, FirstEntry, LastEntry
    <3>2. CASE i # w
      <4>1. i + 1 \in 0..w /\ n < be[i + 1]
        BY <1>1, <3>2
      <4>2. be[i + 1] \in Nat
        BY <1>1, <4>1
      <4> QED  BY <1>1, <3>2, <4>1, <4>2 DEF HoldsEntry, FirstEntry, LastEntry
    <3> QED  BY <3>1, <3>2
  <2>3. ASSUME NEW j \in 0..w, HoldsEntry(img, j, n), j # i
        PROVE  FALSE
    <3>1. be[j] <= n /\ (j # w => n < be[j + 1])
      <4>1. be[j] <= n
        BY <2>3 DEF HoldsEntry, FirstEntry
      <4>2. CASE j # w
        <5>1. j + 1 \in 0..w
          BY <1>1, <4>2
        <5>2. be[j + 1] \in Nat
          BY <1>1, <5>1
        <5>3. n <= be[j + 1] - 1
          BY <2>3, <4>2 DEF HoldsEntry, LastEntry
        <5> QED  BY <1>1, <4>1, <5>2, <5>3
      <4> QED  BY <4>1, <4>2
    <3>2. CASE j < i
      <4>1. j + 1 \in 0..w /\ n < be[j + 1] /\ (j + 1 = i \/ j + 1 < i)
        BY <1>1, <3>1, <3>2
      <4>2. be[j + 1] \in Nat /\ be[i] \in Nat /\ be[j + 1] <= be[i]
        BY <1>1, <4>1
      <4> QED  BY <1>1, <4>1, <4>2
    <3>3. CASE i < j
      <4>1. i + 1 \in 0..w /\ n < be[i + 1] /\ (i + 1 = j \/ i + 1 < j)
        BY <1>1, <3>3
      <4>2. be[i + 1] \in Nat /\ be[j] \in Nat /\ be[i + 1] <= be[j]
        BY <1>1, <4>1
      <4> QED  BY <1>1, <3>1, <4>1, <4>2
    <3> QED  BY <1>1, <2>3, <3>2, <3>3
  <2> QED  BY <1>1, <2>1, <2>2, <2>3
<1>5. found = {rec.data[k].val}
  <2>1. found = {ValueAt(rec, k)}
    BY <1>4 DEF FirstEntry
  <2> QED  BY <1>3, <2>1
<1>6. EntryOf(img, fl, n) = IF windows = {} THEN Garbage ELSE CHOOSE val \in found : TRUE
  BY DEF EntryOf
<1>7. EntryOf(img, fl, n) = rec.data[k].val
  <2> HIDE DEF windows, found, rec, k
  <2> QED  BY <1>4, <1>5, <1>6
<1> QED  BY <1>2, <1>3, <1>7

\* fl2 has what fl has.
Extends(fl, fl2) ==
  DOMAIN fl \subseteq DOMAIN fl2 /\ \A k \in DOMAIN fl : fl2[k] = fl[k]

LEMMA AppendExtends ==
  ASSUME NEW fl, IsSequence(fl), NEW e
  PROVE  Extends(fl, Append(fl, e)) /\ Extends(fl, fl)
BY AppendAny DEF Extends

\* The entries of a branch are those they were.
SameEntries(a, fl, b, fl2) ==
  \A n \in 0..a.entryNumber - 1 : EntryOf(b, fl2, n) = EntryOf(a, fl, n)

\* A record that comes to the file leaves the entries alone.
LEMMA GrownFile ==
  ASSUME NEW img, NEW fl, NEW fl2, IsImage(img, fl), Extends(fl, fl2)
  PROVE  /\ IsImage(img, fl2)
         /\ SameEntries(img, fl, img, fl2)
<1>1. IsImage(img, fl2)
  BY DEF IsImage, Extends, InWindow
<1>2. ASSUME NEW n \in 0..img.entryNumber - 1
      PROVE  EntryOf(img, fl2, n) = EntryOf(img, fl, n)
  <2>1. PICK i \in 0..img.writeBasket : InWindow(img, i, n)
    BY DEF IsImage
  <2>2. BasketAt(img, fl2, i) = BasketAt(img, fl, i)
    <3>1. CASE i = img.writeBasket
      BY <3>1 DEF BasketAt
    <3>2. CASE i # img.writeBasket
      <4>1. i \in 0..img.writeBasket - 1
        BY <3>2 DEF IsImage
      <4>2. img.basketSeek[i] \in DOMAIN fl
        BY <4>1 DEF IsImage
      <4> QED  BY <3>2, <4>2 DEF BasketAt, Extends
    <3> QED  BY <3>1, <3>2
  <2> QED  BY <1>1, <2>1, <2>2, EntryInWindow
<1> QED  BY <1>1, <1>2 DEF SameEntries

\* What a reader looks at.
ReadsAs(a, b) ==
  /\ a.writeBasket = b.writeBasket /\ a.entryNumber = b.entryNumber
  /\ a.basketEntry = b.basketEntry /\ a.basketSeek = b.basketSeek
  /\ a.open.data = b.open.data /\ a.open.offset = b.open.offset
  /\ a.open.nev = b.open.nev

\* The reader sees no other field of a branch.
LEMMA SameReading ==
  ASSUME NEW a, NEW b, NEW fl, ReadsAs(a, b), IsImage(a, fl)
  PROVE  /\ IsImage(b, fl)
         /\ SameEntries(a, fl, b, fl)
<1>1. Readable(b.open)
  <2>1. Readable(a.open)
    BY DEF IsImage
  <2> QED  BY <2>1 DEF Readable, ReadsAs
<1>2. IsImage(b, fl)
  <2> USE DEF ReadsAs
  <2>1. /\ b.writeBasket \in Nat /\ b.entryNumber \in Nat
        /\ \A i \in 0..b.writeBasket : b.basketEntry[i] \in Nat
        /\ \A i, j \in 0..b.writeBasket : i < j => b.basketEntry[i] < b.basketEntry[j]
    BY DEF IsImage
  <2>2. \A n \in 0..b.entryNumber - 1 : \E i \in 0..b.writeBasket : InWindow(b, i, n)
    BY DEF IsImage, InWindow
  <2>3. \A i \in 0..b.writeBasket - 1 :
         /\ b.basketSeek[i] \in DOMAIN fl
         /\ Readable(fl[b.basketSeek[i]])
         /\ fl[b.basketSeek[i]].nev = b.basketEntry[i + 1] - b.basketEntry[i]
    BY DEF IsImage
  <2>4. b.basketEntry[b.writeBasket] + b.open.nev = b.entryNumber
    BY DEF IsImage
  <2> QED  BY <1>1, <2>1, <2>2, <2>3, <2>4 DEF IsImage
<1>3. ASSUME NEW n \in 0..a.entryNumber - 1
      PROVE  EntryOf(b, fl, n) = EntryOf(a, fl, n)
  <2>1. PICK i \in 0..a.writeBasket : InWindow(a, i, n)
    BY DEF IsImage
  <2>2. InWindow(b, i, n) /\ b.entryNumber = a.entryNumber /\ b.basketEntry = a.basketEntry
    BY <2>1 DEF InWindow, ReadsAs
  <2>3. BasketAt(b, fl, i).data = BasketAt(a, fl, i).data
    BY DEF BasketAt, ReadsAs
  <2>4. /\ EntryOf(a, fl, n) = BasketAt(a, fl, i).data[n - a.basketEntry[i] + 1].val
        /\ EntryOf(b, fl, n) = BasketAt(b, fl, i).data[n - b.basketEntry[i] + 1].val
    BY <1>2, <2>1, <2>2, EntryInWindow
  <2> QED  BY <2>2, <2>3, <2>4
<1> QED  BY <1>2, <1>3 DEF SameEntries
-----------------------------------------------------------------------------
(***************************************************************************)
(* Lemmas about branch::fill.                                              *)
(***************************************************************************)
\* The bytes of the entry that comes next.
Chunk(data, val, size) == [at |-> LengthOf(data), size |-> size, val |-> val]

LEMMA FieldsOfEntered ==
  ASSUME NEW br, DOMAIN br = BranchFields, DOMAIN br.open = BasketFields,
         NEW val, NEW size, NEW e, e = Entered(br, val, size)
  PROVE  /\ DOMAIN e = BranchFields /\ DOMAIN e.open = BasketFields
         /\ e.writeBasket = br.writeBasket /\ e.entryNumber = br.entryNumber + 1
         /\ e.maxBaskets = br.maxBaskets
         /\ e.basketEntry = br.basketEntry /\ e.basketSeek = br.basketSeek
         /\ e.open.data = Append(br.open.data, Chunk(br.open.data, val, size))
         /\ br.open.tables =>
              e.open.offset = Append(br.open.offset, EntryOffset(br.open))
         /\ e.open.tables = br.open.tables /\ e.open.seekKey = br.open.seekKey
         /\ e.open.nev = br.open.nev + 1 /\ e.open.last = br.open.last
         /\ e.open.room = Room(br.open)
<1>1. PICK bk : bk = br.open
  OBVIOUS
<1>2. PICK op : op = e.open
  OBVIOUS
<1>3. /\ DOMAIN e = BranchFields
      /\ e.writeBasket = br.writeBasket /\ e.entryNumber = br.entryNumber + 1
      /\ e.maxBaskets = br.maxBaskets
      /\ e.basketEntry = br.basketEntry /\ e.basketSeek = br.basketSeek
      /\ op = WithEntry(bk, val, size)
  BY <1>1, <1>2 DEF BranchFields, Entered
<1>4. PICK u : u = Updated(bk)
  OBVIOUS
<1>5. /\ DOMAIN u = BasketFields /\ u.data = bk.data
      /\ u.tables = bk.tables /\ u.seekKey = bk.seekKey
      /\ u.nev = bk.nev + 1 /\ u.last = bk.last /\ u.room = Room(bk)
  BY <1>1, <1>4 DEF BasketFields, Updated
<1>6. bk.tables => u.offset = Append(bk.offset, EntryOffset(bk))
  BY <1>1, <1>4 DEF BasketFields, Updated
<1>7. /\ DOMAIN op = BasketFields /\ op.offset = u.offset
      /\ op.data = Append(bk.data, Chunk(bk.data, val, size))
      /\ op.tables = bk.tables /\ op.seekKey = bk.seekKey
      /\ op.nev = bk.nev + 1 /\ op.last = bk.last /\ op.room = Room(bk)
  BY <1>3, <1>4, <1>5 DEF BasketFields, WithEntry, Chunk
<1>8. br.open.tables => e.open.offset = Append(br.open.offset, EntryOffset(br.open))
  BY <1>1, <1>2, <1>6, <1>7
<1> QED  BY <1>1, <1>2, <1>3, <1>7, <1>8

Took(rec, r, val, size) ==
  /\ r.nev = rec.nev + 1
  /\ r.data = Append(rec.data, Chunk(rec.data, val, size))
  /\ r.offset = Append(rec.offset, KeyLength + LengthOf(rec.data))

\* An entry more in the basket, and the others as they were.
LEMMA EnteredReadable ==
  ASSUME NEW rec, Readable(rec), NEW val, val # Garbage, NEW size \in Nat \ {0},
         NEW r, Took(rec, r, val, size)
  PROVE  /\ Readable(r)
         /\ \A k \in 1..rec.nev : r.data[k].val = rec.data[k].val
         /\ r.data[rec.nev + 1].val = val
<1> DEFINE chunk == Chunk(rec.data, val, size)
<1>1. /\ rec.nev \in Nat /\ r.nev = rec.nev + 1
      /\ IsSequence(rec.data) /\ Len(rec.data) = rec.nev
      /\ IsSequence(rec.offset) /\ Len(rec.offset) = rec.nev
  BY DEF Readable, Took
<1>2. /\ IsSequence(r.data) /\ Len(r.data) = r.nev
      /\ \A k \in 1..rec.nev : r.data[k] = rec.data[k]
      /\ r.data[rec.nev + 1] = chunk
  BY <1>1, AppendAny DEF Took
<1>3. /\ IsSequence(r.offset) /\ Len(r.offset) = r.nev
      /\ \A k \in 1..rec.nev : r.offset[k] = rec.offset[k]
      /\ r.offset[rec.nev + 1] = KeyLength + LengthOf(rec.data)
  BY <1>1, AppendAny DEF Took
<1>4. /\ chunk.at = LengthOf(rec.data) /\ chunk.size = size /\ chunk.val = val
  BY DEF Chunk
<1>5. /\ LengthOf(rec.data) \in Nat
      /\ \A k \in 1..rec.nev : rec.data[k].at + rec.data[k].size <= LengthOf(rec.data)
  BY LengthOfData
<1> HIDE DEF chunk
<1>6. \A k \in 1..rec.nev :
        /\ rec.data[k].at \in Nat /\ rec.data[k].size \in Nat \ {0}
        /\ rec.offset[k] = KeyLength + rec.data[k].at
        /\ rec.data[k].val # Garbage
  BY DEF Readable
<1>7. ASSUME NEW k \in 1..r.nev
      PROVE  /\ r.data[k].at \in Nat /\ r.data[k].size \in Nat \ {0}
             /\ r.offset[k] = KeyLength + r.data[k].at
             /\ r.data[k].val # Garbage
  <2>1. CASE k \in 1..rec.nev
    BY <1>2, <1>3, <1>6, <2>1
  <2>2. CASE k = rec.nev + 1
    BY <1>2, <1>3, <1>4, <1>5, <2>2
  <2> QED  BY <1>1, <2>1, <2>2
<1>8. ASSUME NEW k \in 1..r.nev, NEW m \in 1..r.nev, k < m
      PROVE  r.data[k].at + r.data[k].size <= r.data[m].at
  <2>1. k \in 1..rec.nev /\ (m \in 1..rec.nev \/ m = rec.nev + 1)
    BY <1>1, <1>8
  <2>2. CASE m \in 1..rec.nev
    <3>1. \A j \in 1..rec.nev : k < j => rec.data[k].at + rec.data[k].size <= rec.data[j].at
      BY <2>1 DEF Readable
    <3>2. rec.data[k].at + rec.data[k].size <= rec.data[m].at
      BY <1>8, <2>2, <3>1
    <3> QED  BY <1>2, <2>1, <2>2, <3>2
  <2>3. CASE m = rec.nev + 1
    BY <1>2, <1>4, <1>5, <2>1, <2>3
  <2> QED  BY <2>1, <2>2, <2>3
<1>9. Readable(r)
  <2>1. r.nev \in Nat
    BY <1>1
  <2> QED  BY <1>2, <1>3, <1>7, <1>8, <2>1 DEF Readable
<1> QED  BY <1>2, <1>4, <1>9

\* An entry more in the branch, and the others as they were.
LEMMA EnteredImage ==
  ASSUME NEW br, IsBranch(br), br.open.tables, NEW fl, IsImage(br, fl),
         NEW val, val # Garbage, NEW size \in Nat \ {0},
         NEW e, e = Entered(br, val, size)
  PROVE  /\ IsImage(e, fl)
         /\ EntryOf(e, fl, br.entryNumber) = val
         /\ \A n \in 0..br.entryNumber - 1 : EntryOf(e, fl, n) = EntryOf(br, fl, n)
<1> DEFINE w  == br.writeBasket
           be == br.basketEntry
<1>1. /\ e.writeBasket = w /\ e.entryNumber = br.entryNumber + 1
      /\ e.basketEntry = be /\ e.basketSeek = br.basketSeek
      /\ e.open.data = Append(br.open.data, Chunk(br.open.data, val, size))
      /\ e.open.offset = Append(br.open.offset, EntryOffset(br.open))
      /\ e.open.nev = br.open.nev + 1
  <2>1. DOMAIN br = BranchFields /\ DOMAIN br.open = BasketFields
    BY DEF IsBranch
  <2> QED  BY <2>1, FieldsOfEntered
<1>2. Readable(br.open)
  BY DEF IsImage
<1>3. EntryOffset(br.open) = KeyLength + LengthOf(br.open.data)
  BY DEF EntryOffset
<1>4. /\ Readable(e.open)
      /\ \A k \in 1..br.open.nev : e.open.data[k].val = br.open.data[k].val
      /\ e.open.data[br.open.nev + 1].val = val
  <2>1. /\ e.open.data = Append(br.open.data, Chunk(br.open.data, val, size))
        /\ e.open.offset = Append(br.open.offset, KeyLength + LengthOf(br.open.data))
        /\ e.open.nev = br.open.nev + 1
    BY <1>1, <1>3
  <2>2. Took(br.open, e.open, val, size)
    BY <2>1 DEF Took
  <2>3. \A rec, r : Readable(rec) /\ Took(rec, r, val, size) =>
          /\ Readable(r)
          /\ \A k \in 1..rec.nev : r.data[k].val = rec.data[k].val
          /\ r.data[rec.nev + 1].val = val
    BY EnteredReadable
  <2> QED  BY <1>2, <2>2, <2>3
<1>5. /\ w \in Nat /\ br.entryNumber \in Nat /\ br.open.nev \in Nat
      /\ \A i \in 0..w : be[i] \in Nat
      /\ \A i, j \in 0..w : i < j => be[i] < be[j]
      /\ be[w] + br.open.nev = br.entryNumber
      /\ be[w] \in Nat
  <2>1. w \in Nat /\ \A i \in 0..w : be[i] \in Nat
    BY DEF IsImage
  <2>2. w \in 0..w
    BY <2>1
  <2>3. be[w] \in Nat
    BY <2>1, <2>2
  <2> QED  BY <1>2, <2>1, <2>3 DEF IsImage, Readable
<1>6. InWindow(e, w, br.entryNumber)
  BY <1>1, <1>5 DEF InWindow
<1>7. \A i \in 0..w : \A n : InWindow(br, i, n) <=> InWindow(e, i, n)
  BY <1>1 DEF InWindow
<1>8. IsImage(e, fl)
  <2>1. \A n \in 0..e.entryNumber - 1 : \E i \in 0..e.writeBasket : InWindow(e, i, n)
    <3> SUFFICES ASSUME NEW n \in 0..e.entryNumber - 1
                 PROVE  \E i \in 0..w : InWindow(e, i, n)
      BY <1>1
    <3>1. CASE n = br.entryNumber
      <4>1. w \in 0..w
        BY <1>5
      <4> QED  BY <1>6, <3>1, <4>1
    <3>2. CASE n # br.entryNumber
      <4>1. n \in 0..br.entryNumber - 1
        BY <1>1, <1>5, <3>2
      <4>2. PICK i \in 0..w : InWindow(br, i, n)
        BY <4>1 DEF IsImage
      <4> QED  BY <1>7, <4>2
    <3> QED  BY <3>1, <3>2
  <2>2. \A i \in 0..e.writeBasket - 1 :
         /\ e.basketSeek[i] \in DOMAIN fl
         /\ Readable(fl[e.basketSeek[i]])
         /\ fl[e.basketSeek[i]].nev = e.basketEntry[i + 1] - e.basketEntry[i]
    BY <1>1 DEF IsImage
  <2>3. e.basketEntry[e.writeBasket] + e.open.nev = e.entryNumber
    BY <1>1, <1>5
  <2>4. e.writeBasket \in Nat /\ e.entryNumber \in Nat
    BY <1>1, <1>5
  <2>5. /\ \A i \in 0..e.writeBasket : e.basketEntry[i] \in Nat
        /\ \A i, j \in 0..e.writeBasket : i < j => e.basketEntry[i] < e.basketEntry[j]
    BY <1>1, <1>5
  <2> QED  BY <1>4, <2>1, <2>2, <2>3, <2>4, <2>5 DEF IsImage
<1>9. EntryOf(e, fl, br.entryNumber) = val
  <2>1. br.entryNumber \in 0..e.entryNumber - 1
    BY <1>1, <1>5
  <2>2. EntryOf(e, fl, br.entryNumber)
          = BasketAt(e, fl, w).data[br.entryNumber - e.basketEntry[w] + 1].val
    BY <1>6, <1>8, <2>1, EntryInWindow
  <2>3. BasketAt(e, fl, w) = e.open
    BY <1>1 DEF BasketAt
  <2>4. br.entryNumber - e.basketEntry[w] + 1 = br.open.nev + 1
    BY <1>1, <1>5
  <2> QED  BY <1>4, <2>2, <2>3, <2>4
<1>10. ASSUME NEW n \in 0..br.entryNumber - 1
       PROVE  EntryOf(e, fl, n) = EntryOf(br, fl, n)
  <2>1. PICK i \in 0..w : InWindow(br, i, n)
    BY DEF IsImage
  <2>2. InWindow(e, i, n) /\ n \in 0..e.entryNumber - 1
    BY <1>1, <1>5, <1>7, <2>1
  <2>3. /\ EntryOf(br, fl, n) = BasketAt(br, fl, i).data[n - be[i] + 1].val
        /\ n - be[i] + 1 \in 1..BasketAt(br, fl, i).nev
    BY <2>1, EntryInWindow
  <2>4. EntryOf(e, fl, n) = BasketAt(e, fl, i).data[n - e.basketEntry[i] + 1].val
    BY <1>8, <2>2, EntryInWindow
  <2>5. CASE i = w
    <3>1. BasketAt(br, fl, i) = br.open /\ BasketAt(e, fl, i) = e.open
      BY <1>1, <2>5 DEF BasketAt
    <3>2. n - be[i] + 1 \in 1..br.open.nev
      BY <2>3, <3>1
    <3>3. e.open.data[n - be[i] + 1].val = br.open.data[n - be[i] + 1].val
      BY <1>4, <3>2
    <3> QED  BY <1>1, <2>3, <2>4, <3>1, <3>3
  <2>6. CASE i # w
    <3>1. BasketAt(br, fl, i) = BasketAt(e, fl, i)
      BY <1>1, <2>6 DEF BasketAt
    <3> QED  BY <1>1, <2>3, <2>4, <3>1
  <2> QED  BY <2>5, <2>6
<1> QED  BY <1>8, <1>9, <1>10
-----------------------------------------------------------------------------
(***************************************************************************)
(* Lemmas about a basket that is full, claimed or streamed.                *)
(***************************************************************************)
LEMMA EnteredIsBranch ==
  ASSUME NEW br, IsBranch(br), NEW val, NEW size, NEW e, e = Entered(br, val, size)
  PROVE  IsBranch(e)
<1>1. DOMAIN br = BranchFields /\ DOMAIN br.open = BasketFields
  BY DEF IsBranch
<1>2. /\ DOMAIN e = BranchFields /\ DOMAIN e.open = BasketFields
      /\ e.writeBasket = br.writeBasket /\ e.entryNumber = br.entryNumber + 1
      /\ e.maxBaskets = br.maxBaskets
      /\ e.basketEntry = br.basketEntry /\ e.basketSeek = br.basketSeek
      /\ e.open.tables = br.open.tables /\ e.open.seekKey = br.open.seekKey
      /\ e.open.nev = br.open.nev + 1 /\ e.open.last = br.open.last
      /\ e.open.room = Room(br.open)
  BY <1>1, FieldsOfEntered
<1>3. /\ e.open.room \in Nat /\ e.open.nev \in Nat
      /\ e.open.tables => e.open.nev + 1 <= e.open.room
  <2>1. /\ br.open.nev \in Nat /\ br.open.room \in Nat
        /\ br.open.tables => br.open.nev + 1 <= br.open.room
    BY DEF IsBranch
  <2>2. CASE br.open.tables /\ br.open.nev + 1 >= br.open.room
    <3>1. Room(br.open) = 2 * br.open.room
      BY <2>2 DEF Room
    <3> QED  BY <1>2, <2>1, <2>2, <3>1
  <2>3. CASE ~(br.open.tables /\ br.open.nev + 1 >= br.open.room)
    <3>1. Room(br.open) = br.open.room
      BY <2>3 DEF Room
    <3> QED  BY <1>2, <2>1, <2>3, <3>1
  <2> QED  BY <2>2, <2>3
<1> QED  BY <1>2, <1>3 DEF IsBranch

\* The arrays grow before the slot of the next basket is used.
LEMMA FieldsOfNext ==
  ASSUME NEW br, IsBranch(br), NEW seek \in Nat \ {NoSeek},
         NEW x, x = NextBasket(br, seek)
  PROVE  /\ IsBranch(x) /\ x.open = NewBasket
         /\ x.writeBasket = br.writeBasket + 1 /\ x.entryNumber = br.entryNumber
         /\ x.basketEntry[br.writeBasket + 1] = br.entryNumber
         /\ x.basketSeek[br.writeBasket] = seek
         /\ \A i \in 0..br.writeBasket : x.basketEntry[i] = br.basketEntry[i]
         /\ \A i \in 0..br.writeBasket - 1 : x.basketSeek[i] = br.basketSeek[i]
<1> DEFINE w0 == br.writeBasket
           w  == br.writeBasket + 1
           m  == br.maxBaskets
           n  == IF NeedsRoom(w, m) THEN Larger(m) ELSE m
           seeks == [br.basketSeek EXCEPT ![w0] = seek]
           bs == Extended(seeks, n)
           be == [Extended(br.basketEntry, n) EXCEPT ![w] = br.entryNumber]
<1>1. /\ m \in Nat /\ m > 1 /\ w0 \in 0..m - 1 /\ br.entryNumber \in Nat
      /\ DOMAIN br.basketEntry = 0..m - 1 /\ DOMAIN br.basketSeek = 0..m - 1
      /\ \A i \in 0..m - 1 : br.basketSeek[i] # NoSeek <=> i < w0
      /\ DOMAIN br = BranchFields
  BY DEF IsBranch
<1>2. n \in Nat /\ n > 1 /\ n >= m /\ w \in 0..n - 1 /\ w0 \in 0..n - 1
  <2>1. CASE w >= m
    <3>1. n = IF (3 * m) \div 2 > InitialBaskets THEN (3 * m) \div 2 ELSE InitialBaskets
      BY <2>1 DEF NeedsRoom, Larger
    <3>2. (3 * m) \div 2 \in Nat /\ (3 * m) \div 2 >= m + 1
      <4>1. \A k \in Nat : k > 1 => (3 * k) \div 2 \in Nat /\ (3 * k) \div 2 >= k + 1
        OBVIOUS
      <4> HIDE DEF m
      <4> QED  BY <1>1, <4>1
    <3>3. InitialBaskets \in Nat
      BY WrootBranchAssumption DEF WrootBranchAssumption
    <3>4. n \in Nat /\ n >= m + 1
      <4> HIDE DEF m
      <4>1. PICK q : q = (3 * m) \div 2
        OBVIOUS
      <4> HIDE DEF n
      <4> QED  BY <1>1, <3>1, <3>2, <3>3, <4>1
    <3> HIDE DEF n
    <3> QED  BY <1>1, <2>1, <3>4
  <2>2. CASE ~(w >= m)
    BY <1>1, <2>2 DEF NeedsRoom
  <2> QED  BY <2>1, <2>2
<1>3. /\ DOMAIN x = BranchFields /\ x.open = NewBasket
      /\ x.writeBasket = w /\ x.entryNumber = br.entryNumber /\ x.maxBaskets = n
      /\ x.basketSeek = bs /\ x.basketEntry = be
  <2>1. x = [br EXCEPT !.writeBasket = w, !.maxBaskets = n, !.open = NewBasket,
                       !.basketSeek = bs, !.basketEntry = be]
    BY DEF NextBasket, FirstOfNext
  <2> HIDE DEF w, n, bs, be
  <2> QED  BY <1>1, <2>1 DEF BranchFields
<1>4. /\ DOMAIN bs = 0..n - 1
      /\ \A i \in 0..n - 1 : bs[i] = IF i = w0 THEN seek
                                     ELSE IF i \in 0..m - 1 THEN br.basketSeek[i] ELSE 0
  <2>1. bs = [i \in 0..n - 1 |-> IF i \in DOMAIN seeks THEN seeks[i] ELSE 0]
    BY DEF Extended
  <2>2. /\ DOMAIN seeks = 0..m - 1
        /\ \A i \in 0..m - 1 : seeks[i] = IF i = w0 THEN seek ELSE br.basketSeek[i]
    BY <1>1
  <2> HIDE DEF n, bs, seeks, m
  <2> QED  BY <1>1, <2>1, <2>2
<1>5. /\ DOMAIN be = 0..n - 1
      /\ \A i \in 0..n - 1 : be[i] = IF i = w THEN br.entryNumber
                                     ELSE IF i \in 0..m - 1 THEN br.basketEntry[i] ELSE 0
  <2>1. Extended(br.basketEntry, n)
          = [i \in 0..n - 1 |-> IF i \in 0..m - 1 THEN br.basketEntry[i] ELSE 0]
    BY <1>1 DEF Extended
  <2>2. PICK ex : ex = Extended(br.basketEntry, n)
    OBVIOUS
  <2>3. be = [ex EXCEPT ![w] = br.entryNumber]
    BY <2>2
  <2> HIDE DEF be, n, m, w
  <2>4. /\ DOMAIN ex = 0..n - 1
        /\ \A i \in 0..n - 1 : ex[i] = IF i \in 0..m - 1 THEN br.basketEntry[i] ELSE 0
    BY <2>1, <2>2
  <2> QED  BY <2>3, <2>4
<1> HIDE DEF n, bs, be
<1>6. ASSUME NEW i \in 0..n - 1
      PROVE  bs[i] # NoSeek <=> i < w
  <2>1. NoSeek = 0 /\ seek # 0
    BY DEF NoSeek
  <2>2. CASE i = w0
    BY <1>1, <1>4, <2>1, <2>2
  <2>3. CASE i # w0 /\ i \in 0..m - 1
    <3>1. bs[i] = br.basketSeek[i] /\ (br.basketSeek[i] # NoSeek <=> i < w0)
      BY <1>1, <1>4, <2>3
    <3> QED  BY <1>1, <2>3, <3>1
  <2>4. CASE i # w0 /\ i \notin 0..m - 1
    <3>1. bs[i] = 0 /\ ~(i < w)
      BY <1>1, <1>2, <1>4, <2>4
    <3> QED  BY <2>1, <3>1
  <2> QED  BY <2>2, <2>3, <2>4
<1>7. IsBranch(x)
  <2>1. /\ DOMAIN NewBasket = BasketFields /\ NewBasket.nev = 0
        /\ NewBasket.room = InitialOffsets /\ NewBasket.last = 0
        /\ NewBasket.tables = TRUE /\ NewBasket.seekKey = NoSeek
    BY DEF NewBasket, BasketFields
  <2>2. InitialOffsets \in Nat /\ InitialOffsets > 1
    BY WrootBranchAssumption DEF WrootBranchAssumption
  <2>3. /\ x.open.nev \in Nat /\ x.open.room \in Nat /\ x.open.last \in Nat
        /\ x.open.tables \in BOOLEAN
        /\ x.open.tables <=> x.open.seekKey = NoSeek
        /\ x.open.tables => x.open.nev + 1 <= x.open.room
    <3>1. /\ x.open.nev = 0 /\ x.open.room = InitialOffsets /\ x.open.last = 0
          /\ x.open.tables = TRUE /\ x.open.seekKey = NoSeek
      BY <1>3, <2>1
    <3>2. x.open.tables <=> x.open.seekKey = NoSeek
      BY <3>1
    <3>3. /\ x.open.nev \in Nat /\ x.open.room \in Nat /\ x.open.last \in Nat
          /\ x.open.nev + 1 <= x.open.room
      BY <2>2, <3>1
    <3>4. x.open.tables \in BOOLEAN
      BY <3>1
    <3> QED  BY <3>2, <3>3, <3>4
  <2>4. /\ x.maxBaskets \in Nat /\ x.maxBaskets > 1
        /\ x.writeBasket \in 0..x.maxBaskets - 1 /\ x.entryNumber \in Nat
        /\ DOMAIN x.basketEntry = 0..x.maxBaskets - 1
        /\ DOMAIN x.basketSeek = 0..x.maxBaskets - 1
        /\ \A i \in 0..x.maxBaskets - 1 : x.basketSeek[i] # NoSeek <=> i < x.writeBasket
    BY <1>1, <1>2, <1>3, <1>4, <1>5, <1>6
  <2> QED  BY <1>3, <2>1, <2>3, <2>4 DEF IsBranch
<1>8. /\ x.basketEntry[w] = br.entryNumber /\ x.basketSeek[w0] = seek
      /\ \A i \in 0..w0 : x.basketEntry[i] = br.basketEntry[i]
      /\ \A i \in 0..w0 - 1 : x.basketSeek[i] = br.basketSeek[i]
  <2>1. be[w] = br.entryNumber /\ bs[w0] = seek
    BY <1>2, <1>4, <1>5
  <2>2. \A i \in 0..w0 : be[i] = br.basketEntry[i]
    <3> SUFFICES ASSUME NEW i \in 0..w0
                 PROVE  be[i] = br.basketEntry[i]
      OBVIOUS
    <3>1. i \in 0..n - 1 /\ i \in 0..m - 1 /\ i # w
      BY <1>1, <1>2
    <3> QED  BY <1>5, <3>1
  <2>3. \A i \in 0..w0 - 1 : bs[i] = br.basketSeek[i]
    <3> SUFFICES ASSUME NEW i \in 0..w0 - 1
                 PROVE  bs[i] = br.basketSeek[i]
      OBVIOUS
    <3>1. i \in 0..n - 1 /\ i \in 0..m - 1 /\ i # w0
      BY <1>1, <1>2
    <3> QED  BY <1>4, <3>1
  <2> QED  BY <1>3, <2>1, <2>2, <2>3
<1> QED  BY <1>3, <1>7, <1>8

\* The basket that was full is found in the file.
LEMMA NextImage ==
  ASSUME NEW br, IsBranch(br), br.open.tables, br.open.nev > 0,
         NEW fl, IsSequence(fl), IsImage(br, fl),
         NEW x, x = NextBasket(br, Len(fl) + 1),
         NEW fl2, fl2 = Append(fl, Record(br.open))
  PROVE  /\ IsBranch(x) /\ IsImage(x, fl2)
         /\ x.entryNumber = br.entryNumber /\ x.open.tables /\ x.open.last = 0
         /\ SameEntries(br, fl, x, fl2)
<1> DEFINE w  == br.writeBasket
           be == br.basketEntry
           rec == Record(br.open)
           seek == Len(fl) + 1
<1>1. /\ Len(fl) \in Nat /\ DOMAIN fl = 1..Len(fl) /\ DOMAIN fl2 = 1..Len(fl) + 1
      /\ \A k \in 1..Len(fl) : fl2[k] = fl[k]
      /\ fl2[seek] = rec
  BY AppendAny
<1>2. /\ IsBranch(x) /\ x.open = NewBasket
      /\ x.writeBasket = w + 1 /\ x.entryNumber = br.entryNumber
      /\ x.basketEntry[w + 1] = br.entryNumber /\ x.basketSeek[w] = seek
      /\ \A i \in 0..w : x.basketEntry[i] = be[i]
      /\ \A i \in 0..w - 1 : x.basketSeek[i] = br.basketSeek[i]
  <2>1. seek \in Nat \ {NoSeek}
    BY <1>1 DEF NoSeek
  <2> QED  BY <2>1, FieldsOfNext
<1>3. rec.data = br.open.data /\ rec.offset = br.open.offset /\ rec.nev = br.open.nev
  BY DEF Record
<1> HIDE DEF rec
<1>4. Readable(br.open)
  BY DEF IsImage
<1>5. Readable(rec)
  BY <1>3, <1>4 DEF Readable
<1>6. /\ w \in Nat /\ br.entryNumber \in Nat /\ br.open.nev \in Nat
      /\ \A i \in 0..w : be[i] \in Nat
      /\ \A i, j \in 0..w : i < j => be[i] < be[j]
      /\ be[w] + br.open.nev = br.entryNumber
      /\ be[w] \in Nat
  <2>1. w \in Nat /\ \A i \in 0..w : be[i] \in Nat
    BY DEF IsImage
  <2>2. w \in 0..w
    BY <2>1
  <2>3. be[w] \in Nat
    BY <2>1, <2>2
  <2> QED  BY <1>4, <2>1, <2>3 DEF IsImage, Readable
<1>7. /\ NewBasket.tables = TRUE /\ NewBasket.last = 0 /\ NewBasket.nev = 0
      /\ NewBasket.data = <<>> /\ NewBasket.offset = <<>>
  BY DEF NewBasket
<1>8. Readable(x.open)
  <2>1. PICK op : op = x.open
    OBVIOUS
  <2>2. op.nev = 0 /\ op.data = <<>> /\ op.offset = <<>>
    BY <1>2, <1>7, <2>1
  <2>3. Readable(op)
    BY <2>2, EmptyIsSequence DEF Readable
  <2> QED  BY <2>1, <2>3
<1>9. \A i \in 0..w : \A n \in 0..br.entryNumber - 1 :
        InWindow(br, i, n) => InWindow(x, i, n)
  <2> SUFFICES ASSUME NEW i \in 0..w, NEW n \in 0..br.entryNumber - 1, InWindow(br, i, n)
               PROVE  x.basketEntry[i] <= n /\ n < x.basketEntry[i + 1]
    <3>1. x.writeBasket = w + 1 /\ \A i \in 0..w : i \in 0..x.writeBasket
      BY <1>2, <1>6
    <3> QED  BY <3>1 DEF InWindow
  <2>1. CASE i = w
    BY <1>2, <1>6, <2>1 DEF InWindow
  <2>2. CASE i # w
    <3>1. i + 1 \in 0..w
      BY <1>6, <2>2
    <3> QED  BY <1>2, <2>2, <3>1 DEF InWindow
  <2> QED  BY <2>1, <2>2
<1>10. IsImage(x, fl2)
  <2>1. x.writeBasket \in Nat /\ x.entryNumber \in Nat
    BY <1>2, <1>6
  <2>2. ASSUME NEW i \in 0..x.writeBasket
        PROVE  x.basketEntry[i] \in Nat
    <3>1. i \in 0..w \/ i = w + 1
      BY <1>2, <1>6
    <3>2. CASE i \in 0..w
      BY <1>2, <1>6, <3>2
    <3>3. CASE i = w + 1
      BY <1>2, <1>6, <3>3
    <3> QED  BY <3>1, <3>2, <3>3
  <2>3. ASSUME NEW i \in 0..x.writeBasket, NEW j \in 0..x.writeBasket, i < j
        PROVE  x.basketEntry[i] < x.basketEntry[j]
    <3>1. i \in 0..w /\ (j \in 0..w \/ j = w + 1)
      BY <1>2, <1>6, <2>3
    <3>2. CASE j \in 0..w
      BY <1>2, <1>6, <2>3, <3>1, <3>2
    <3>3. CASE j = w + 1
      <4>1. w \in 0..w /\ (i = w \/ i < w)
        BY <1>6, <3>1
      <4>2. be[i] \in Nat /\ be[i] <= be[w]
        BY <1>6, <3>1, <4>1
      <4>3. /\ be[w] + br.open.nev = br.entryNumber /\ br.open.nev > 0
            /\ be[w] \in Nat /\ br.open.nev \in Nat
        BY <1>6
      <4>4. x.basketEntry[i] = be[i] /\ x.basketEntry[j] = br.entryNumber
        BY <1>2, <3>1, <3>3
      <4> QED  BY <4>2, <4>3, <4>4
    <3> QED  BY <3>1, <3>2, <3>3
  <2>4. ASSUME NEW n \in 0..x.entryNumber - 1
        PROVE  \E i \in 0..x.writeBasket : InWindow(x, i, n)
    <3>1. n \in 0..br.entryNumber - 1
      BY <1>2
    <3>2. PICK i \in 0..w : InWindow(br, i, n)
      BY <3>1 DEF IsImage
    <3>3. InWindow(x, i, n) /\ i \in 0..x.writeBasket
      BY <1>2, <1>6, <1>9, <3>1, <3>2
    <3> QED  BY <3>3
  <2>5. ASSUME NEW i \in 0..x.writeBasket - 1
        PROVE  /\ x.basketSeek[i] \in DOMAIN fl2
               /\ Readable(fl2[x.basketSeek[i]])
               /\ fl2[x.basketSeek[i]].nev = x.basketEntry[i + 1] - x.basketEntry[i]
    <3>1. CASE i = w
      <4>1. x.basketSeek[i] = seek /\ seek \in DOMAIN fl2 /\ fl2[seek] = rec
        BY <1>1, <1>2, <3>1
      <4>2. x.basketEntry[i + 1] = br.entryNumber /\ x.basketEntry[i] = be[w]
        <5>1. w \in 0..w
          BY <1>6
        <5> QED  BY <1>2, <3>1, <5>1
      <4>3. rec.nev = x.basketEntry[i + 1] - x.basketEntry[i]
        BY <1>3, <1>6, <4>2
      <4> QED  BY <1>5, <4>1, <4>3
    <3>2. CASE i # w
      <4>1. i \in 0..w - 1 /\ i + 1 \in 0..w /\ i \in 0..w
        BY <1>2, <1>6, <3>2
      <4>2. /\ br.basketSeek[i] \in DOMAIN fl
            /\ Readable(fl[br.basketSeek[i]])
            /\ fl[br.basketSeek[i]].nev = be[i + 1] - be[i]
        BY <4>1 DEF IsImage
      <4>3. br.basketSeek[i] \in DOMAIN fl2 /\ fl2[br.basketSeek[i]] = fl[br.basketSeek[i]]
        BY <1>1, <4>2
      <4> QED  BY <1>2, <4>1, <4>2, <4>3
    <3> QED  BY <3>1, <3>2
  <2>6. x.basketEntry[x.writeBasket] + x.open.nev = x.entryNumber
    BY <1>2, <1>6, <1>7
  <2> QED  BY <1>8, <2>1, <2>2, <2>3, <2>4, <2>5, <2>6 DEF IsImage
<1>11. ASSUME NEW n \in 0..br.entryNumber - 1
       PROVE  EntryOf(x, fl2, n) = EntryOf(br, fl, n)
  <2>1. PICK i \in 0..w : InWindow(br, i, n)
    BY DEF IsImage
  <2>2. InWindow(x, i, n) /\ n \in 0..x.entryNumber - 1
    BY <1>2, <1>9, <2>1
  <2>3. EntryOf(br, fl, n) = BasketAt(br, fl, i).data[n - be[i] + 1].val
    BY <2>1, EntryInWindow
  <2>4. EntryOf(x, fl2, n) = BasketAt(x, fl2, i).data[n - x.basketEntry[i] + 1].val
    BY <1>10, <2>2, EntryInWindow
  <2>5. BasketAt(x, fl2, i) = fl2[x.basketSeek[i]]
    <3>1. i # x.writeBasket /\ i \in 0..x.writeBasket - 1
      BY <1>2, <1>6
    <3>2. x.basketSeek[i] \in DOMAIN fl2
      BY <1>10, <3>1 DEF IsImage
    <3> QED  BY <3>1, <3>2 DEF BasketAt
  <2>6. CASE i = w
    <3>1. BasketAt(br, fl, i) = br.open
      BY <2>6 DEF BasketAt
    <3>2. BasketAt(x, fl2, i) = rec
      BY <1>1, <1>2, <2>5, <2>6
    <3> QED  BY <1>2, <1>3, <2>3, <2>4, <3>1, <3>2
  <2>7. CASE i # w
    <3>1. i \in 0..w - 1
      BY <1>6, <2>7
    <3>2. br.basketSeek[i] \in DOMAIN fl
      BY <3>1 DEF IsImage
    <3>3. BasketAt(br, fl, i) = fl[br.basketSeek[i]]
      BY <2>7, <3>2 DEF BasketAt
    <3>4. fl2[x.basketSeek[i]] = fl[br.basketSeek[i]]
      BY <1>1, <1>2, <3>1, <3>2
    <3> QED  BY <1>2, <2>3, <2>4, <2>5, <3>3, <3>4
  <2> QED  BY <2>6, <2>7
<1> QED  BY <1>2, <1>7, <1>10, <1>11 DEF SameEntries
\* A basket that was claimed is given up.
GivenUp(x, seek) == IsBranch(x) /\ x.open.tables = FALSE /\ x.open.seekKey = seek

LEMMA ClaimedIsBranch ==
  ASSUME NEW br, IsBranch(br), Readable(br.open), NEW seek \in Nat \ {NoSeek},
         NEW x, x = [br EXCEPT !.open = Claimed(@, seek)]
  PROVE  GivenUp(x, seek)
<1>1. /\ DOMAIN br = BranchFields /\ DOMAIN br.open = BasketFields
      /\ br.open.nev \in Nat /\ br.open.room \in Nat
  BY DEF IsBranch
<1>2. KeyLength + LengthOf(br.open.data) \in Nat
  BY LengthOfData, WrootBranchAssumption DEF WrootBranchAssumption
<1>3. ASSUME NEW bk, DOMAIN bk = BasketFields, NEW c, c = Claimed(bk, seek)
      PROVE  /\ DOMAIN c = BasketFields /\ c.tables = FALSE /\ c.seekKey = seek
             /\ c.nev = bk.nev /\ c.room = bk.room
             /\ c.last = KeyLength + LengthOf(bk.data)
  BY <1>3 DEF Claimed, BasketFields
<1>4. /\ DOMAIN x = BranchFields /\ x.open = Claimed(br.open, seek)
      /\ x.writeBasket = br.writeBasket /\ x.entryNumber = br.entryNumber
      /\ x.maxBaskets = br.maxBaskets
      /\ x.basketEntry = br.basketEntry /\ x.basketSeek = br.basketSeek
  BY <1>1 DEF BranchFields
<1>5. /\ DOMAIN x.open = BasketFields /\ x.open.tables = FALSE /\ x.open.seekKey = seek
      /\ x.open.nev = br.open.nev /\ x.open.room = br.open.room
      /\ x.open.last = KeyLength + LengthOf(br.open.data)
  BY <1>1, <1>3, <1>4
<1>6. IsBranch(x)
  <2>1. /\ x.open.nev \in Nat /\ x.open.room \in Nat /\ x.open.last \in Nat
        /\ x.open.tables \in BOOLEAN
        /\ x.open.tables => x.open.nev + 1 <= x.open.room
    BY <1>1, <1>2, <1>5
  <2>2. x.open.tables <=> x.open.seekKey = NoSeek
    BY <1>5
  <2> QED  BY <1>4, <1>5, <2>1, <2>2 DEF IsBranch
<1> QED  BY <1>5, <1>6 DEF GivenUp

\* What streaming the tree that owns the branch leaves alone.
IsMarked(br, x) ==
  /\ ReadsAs(br, x) /\ x.maxBaskets = br.maxBaskets
  /\ DOMAIN x = BranchFields /\ DOMAIN x.open = BasketFields
  /\ x.open.tables = br.open.tables /\ x.open.seekKey = br.open.seekKey
  /\ x.open.room = br.open.room /\ x.open.last \in Nat

LEMMA MarkedIsBranch ==
  ASSUME NEW br, IsBranch(br), NEW x, IsMarked(br, x)
  PROVE  IsBranch(x)
BY DEF IsBranch, IsMarked, ReadsAs

\* A tree that was streamed: the baskets are marked, up to the first that
\* refuses.
LEMMA StreamedTreeIsMarked ==
  ASSUME NEW t, DOMAIN t = TreeFields, NEW n \in Nat, DOMAIN t.branch = 1..n,
         NEW fl,
         \A b \in 1..n : IsBranch(t.branch[b])
                           /\ (t.branch[b].open.tables => IsImage(t.branch[b], fl)),
         NEW s, s = StreamedTree(t)
  PROVE  /\ DOMAIN s = TreeFields /\ s.entries = t.entries /\ DOMAIN s.branch = 1..n
         /\ \A b \in 1..n : IsMarked(t.branch[b], s.branch[b])
<1> DEFINE brs == [b \in 1..n |->
                    IF \A a \in 1..b : CanStream(t.branch[a].open)
                    THEN [t.branch[b] EXCEPT !.open = Streamed(@)] ELSE t.branch[b]]
<1>1. DOMAIN s = TreeFields /\ s.entries = t.entries /\ s.branch = brs
  <2>1. s = [t EXCEPT !.branch = brs]
    BY DEF StreamedTree
  <2> HIDE DEF brs
  <2> QED  BY <2>1 DEF TreeFields
<1>2. ASSUME NEW b \in 1..n
      PROVE  IsMarked(t.branch[b], brs[b])
  <2>1. PICK br : br = t.branch[b]
    OBVIOUS
  <2>2. IsBranch(br) /\ (br.open.tables => IsImage(br, fl))
    BY <2>1
  <2>3. /\ DOMAIN br = BranchFields /\ DOMAIN br.open = BasketFields
        /\ br.open.last \in Nat
    BY <2>2 DEF IsBranch
  <2>4. CASE brs[b] = br
    BY <2>1, <2>3, <2>4 DEF IsMarked, ReadsAs
  <2>5. CASE brs[b] # br
    <3>1. CanStream(br.open) /\ brs[b] = [br EXCEPT !.open = Streamed(@)]
      <4>1. b \in 1..b
        OBVIOUS
      <4> QED  BY <2>1, <2>5, <4>1
    <3>2. KeyLength + LengthOf(br.open.data) \in Nat
      <4>1. Readable(br.open)
        BY <2>2, <3>1 DEF CanStream, IsImage
      <4> QED  BY <4>1, LengthOfData, WrootBranchAssumption DEF WrootBranchAssumption
    <3>3. PICK x : x = brs[b]
      OBVIOUS
    <3> HIDE DEF brs
    <3>4. ASSUME NEW bk, DOMAIN bk = BasketFields, NEW c, c = Streamed(bk)
          PROVE  /\ DOMAIN c = BasketFields /\ c.tables = bk.tables
                 /\ c.seekKey = bk.seekKey /\ c.nev = bk.nev /\ c.room = bk.room
                 /\ c.data = bk.data /\ c.offset = bk.offset
                 /\ c.last = KeyLength + LengthOf(bk.data)
      BY <3>4 DEF Streamed, BasketFields
    <3>5. /\ DOMAIN x = BranchFields /\ x.open = Streamed(br.open)
          /\ x.writeBasket = br.writeBasket /\ x.entryNumber = br.entryNumber
          /\ x.maxBaskets = br.maxBaskets
          /\ x.basketEntry = br.basketEntry /\ x.basketSeek = br.basketSeek
      BY <2>3, <3>1, <3>3 DEF BranchFields
    <3>6. /\ DOMAIN x.open = BasketFields /\ x.open.tables = br.open.tables
          /\ x.open.seekKey = br.open.seekKey /\ x.open.nev = br.open.nev
          /\ x.open.room = br.open.room
          /\ x.open.data = br.open.data /\ x.open.offset = br.open.offset
          /\ x.open.last = KeyLength + LengthOf(br.open.data)
      BY <2>3, <3>4, <3>5
    <3> QED  BY <2>1, <3>2, <3>3, <3>5, <3>6 DEF IsMarked, ReadsAs
  <2> QED  BY <2>4, <2>5
<1> QED  BY <1>1, <1>2

\* The record of a branch reads as the branch.
LEMMA ImageReadsAs ==
  ASSUME NEW br, NEW img, img = BranchImage(br), br.open.tables
  PROVE  ReadsAs(br, img)
<1>1. /\ img.writeBasket = br.writeBasket /\ img.entryNumber = br.entryNumber
      /\ img.basketEntry = br.basketEntry /\ img.basketSeek = br.basketSeek
      /\ img.open = Record(br.open)
  BY DEF BranchImage
<1>2. /\ Record(br.open).data = br.open.data /\ Record(br.open).offset = br.open.offset
      /\ Record(br.open).nev = br.open.nev
  BY DEF Record
<1> QED  BY <1>1, <1>2 DEF ReadsAs

\* rroot::branch::stream accepts the seeks.
LEMMA ImageSeeks ==
  ASSUME NEW br, IsBranch(br), NEW img, img = BranchImage(br)
  PROVE  SeeksAreConsistent(img)
<1> DEFINE set == {i \in DOMAIN img.basketSeek : img.basketSeek[i] # NoSeek}
           w   == br.writeBasket
<1>1. img.writeBasket = w /\ img.basketSeek = br.basketSeek
  BY DEF BranchImage
<1>2. /\ w \in 0..br.maxBaskets - 1 /\ br.maxBaskets \in Nat
      /\ DOMAIN br.basketSeek = 0..br.maxBaskets - 1
      /\ \A i \in 0..br.maxBaskets - 1 : br.basketSeek[i] # NoSeek <=> i < w
  BY DEF IsBranch
<1>3. set = 0..w - 1
  BY <1>1, <1>2
<1>4. w > 0 => Cardinality(0..w - 1) = w
  BY <1>2, FS_Interval
<1>5. \A i \in set : i <= w - 1
  BY <1>2, <1>3
<1> QED  BY <1>1, <1>3, <1>4, <1>5 DEF SeeksAreConsistent
-----------------------------------------------------------------------------
(***************************************************************************)
(* The steps of tree::fill.                                                *)
(***************************************************************************)
\* The fill of a branch did its work: new is old with the leaf as its last
\* entry, unless the branch had been given up.
Takes(old, new) ==
  /\ IsBranch(new) /\ new.open.tables = old.open.tables
  /\ new.open.seekKey \in 0..Len(file')
  /\ new.entryNumber = old.entryNumber + 1
  /\ old.open.last = 0 => new.open.last = 0
  /\ old.open.tables =>
       /\ IsImage(new, file')
       /\ EntryOf(new, file', old.entryNumber) = Leaf
       /\ \A n \in 0..old.entryNumber - 1 : EntryOf(new, file', n) = EntryOf(old, file, n)

\* A write failed: the branch is given up.
Breaks(old, new) ==
  /\ IsBranch(new) /\ new.open.tables = FALSE
  /\ new.entryNumber = old.entryNumber + 1
  /\ new.open.seekKey \in 0..Len(file') /\ errors' > 0

\* The branches of the trees T once new is in its place.
Placed(T, new) ==
  /\ DOMAIN T = Trees
  /\ \A t \in Trees :
       /\ DOMAIN T[t] = TreeFields /\ DOMAIN T[t].branch = 1..Width(t)
       /\ t = filling => T[t].branch[column] = new
       /\ \A b \in 1..Width(t) : t # filling \/ b # column =>
            IF IsObject /\ t = "hit" THEN IsMarked(tree[t].branch[b], T[t].branch[b])
            ELSE T[t].branch[b] = tree[t].branch[b]

IsLast == column = Width(filling)

\* fill() went on to the next branch, or returned.
FillOutcome(new, ok) ==
  /\ Placed(tree', new)
  /\ \A t \in Trees : tree'[t].entries =
       IF ok /\ IsLast /\ t = filling THEN tree[t].entries + 1 ELSE tree[t].entries
  /\ ok /\ ~IsLast => column' = column + 1 /\ UNCHANGED <<filling, stage, filled, failed>>
  /\ ~ok \/ IsLast => Return(ok)
  /\ IsSequence(file') /\ Extends(file, file') /\ Len(file) <= Len(file')
  /\ errors' \in errors..MaxWriteErrors
  /\ UNCHANGED <<event, rows, image>>
LEMMA WidthIs == Width("Event") = 3 /\ Width("hit") = 2
BY DEF Width, Columns

LEMMA LeafIsEntry == Leaf # Garbage
<1>1. <<"event", event>> # Garbage /\ <<"row", event, rows>> # Garbage /\ Partial # Garbage
  BY DEF Garbage, Partial
<1>2. ASSUME NEW t
      PROVE  <<"tree", t>> # Garbage
  BY DEF Garbage
<1>3. \/ Leaf = <<"event", event>> \/ Leaf = <<"row", event, rows>> \/ Leaf = Partial
      \/ Leaf = <<"tree", TreeImage(tree["hit"])>>
  BY DEF Leaf
<1> QED  BY <1>1, <1>2, <1>3

LEMMA PlacedTrees ==
  ASSUME Shape, Control, filling # "none", NEW new, NEW T, T = TreesWith(new)
  PROVE  Placed(T, new) /\ \A t \in Trees : T[t].entries = tree[t].entries
<1> DEFINE S == IF IsObject THEN [tree EXCEPT !["hit"] = StreamedTree(@)] ELSE tree
<1>1. /\ DOMAIN tree = Trees /\ filling \in Trees /\ column \in 1..Width(filling)
      /\ \A t \in Trees : DOMAIN tree[t] = TreeFields /\ DOMAIN tree[t].branch = 1..Width(t)
  BY DEF Shape, Control
<1>2. /\ DOMAIN S = Trees
      /\ IsObject => S["hit"] = StreamedTree(tree["hit"])
      /\ \A t \in Trees : ~(IsObject /\ t = "hit") => S[t] = tree[t]
  BY <1>1 DEF Trees
<1>3. ASSUME IsObject
      PROVE  /\ filling = "Event"
             /\ DOMAIN S["hit"] = TreeFields /\ S["hit"].entries = tree["hit"].entries
             /\ DOMAIN S["hit"].branch = 1..Width("hit")
             /\ \A b \in 1..Width("hit") : IsMarked(tree["hit"].branch[b], S["hit"].branch[b])
  <2>1. "hit" \in Trees /\ Width("hit") \in Nat
    BY WidthIs DEF Trees
  <2>2. \A b \in 1..Width("hit") :
          /\ IsBranch(tree["hit"].branch[b])
          /\ tree["hit"].branch[b].open.tables => IsImage(tree["hit"].branch[b], file)
    BY <2>1 DEF Shape
  <2>3. S["hit"] = StreamedTree(tree["hit"])
    BY <1>2, <1>3
  <2>4. filling = "Event"
    BY <1>3 DEF IsObject
  <2> HIDE DEF S
  <2>5. PICK t : t = tree["hit"]
    OBVIOUS
  <2>6. /\ DOMAIN t = TreeFields /\ DOMAIN t.branch = 1..Width("hit")
        /\ \A b \in 1..Width("hit") :
             IsBranch(t.branch[b]) /\ (t.branch[b].open.tables => IsImage(t.branch[b], file))
    BY <2>1, <2>2, <2>5 DEF Shape
  <2>7. /\ DOMAIN StreamedTree(t) = TreeFields /\ StreamedTree(t).entries = t.entries
        /\ DOMAIN StreamedTree(t).branch = 1..Width("hit")
        /\ \A b \in 1..Width("hit") : IsMarked(t.branch[b], StreamedTree(t).branch[b])
    BY <2>1, <2>6, StreamedTreeIsMarked
  <2> QED  BY <1>1, <2>3, <2>4, <2>5, <2>7
<1>4. T = [S EXCEPT ![filling] = WithBranch(S[filling], column, new)]
  BY DEF TreesWith
<1> HIDE DEF S
<1>5. S[filling] = tree[filling]
  BY <1>1, <1>2, <1>3
<1>6. PICK W : W = WithBranch(S[filling], column, new)
  OBVIOUS
<1>7. /\ DOMAIN W = TreeFields /\ W.entries = tree[filling].entries
      /\ DOMAIN W.branch = 1..Width(filling) /\ W.branch[column] = new
      /\ \A b \in 1..Width(filling) : b # column => W.branch[b] = tree[filling].branch[b]
  BY <1>1, <1>5, <1>6 DEF WithBranch, TreeFields
<1>8. DOMAIN T = Trees /\ T[filling] = W /\ \A t \in Trees : t # filling => T[t] = S[t]
  BY <1>1, <1>2, <1>4, <1>6
<1>9. ASSUME NEW t \in Trees
      PROVE  /\ DOMAIN T[t] = TreeFields /\ DOMAIN T[t].branch = 1..Width(t)
             /\ T[t].entries = tree[t].entries
             /\ t = filling => T[t].branch[column] = new
             /\ \A b \in 1..Width(t) : t # filling \/ b # column =>
                  IF IsObject /\ t = "hit" THEN IsMarked(tree[t].branch[b], T[t].branch[b])
                  ELSE T[t].branch[b] = tree[t].branch[b]
  <2>1. CASE t = filling
    <3>1. ~(IsObject /\ t = "hit")
      BY <1>3, <2>1
    <3> QED  BY <1>7, <1>8, <2>1, <3>1
  <2>2. CASE t # filling /\ IsObject /\ t = "hit"
    BY <1>3, <1>8, <2>2
  <2>3. CASE t # filling /\ ~(IsObject /\ t = "hit")
    BY <1>1, <1>2, <1>8, <2>3
  <2> QED  BY <2>1, <2>2, <2>3
<1> QED  BY <1>8, <1>9 DEF Placed

\* What Advance and Return leave of the trees.
LEMMA AdvancedTrees ==
  ASSUME Shape, Control, filling # "none", NEW new, NEW ok \in BOOLEAN,
         NEW T, T = TreesWith(new),
         IF ok THEN Advance(T) ELSE tree' = T /\ Return(FALSE)
  PROVE  /\ Placed(tree', new)
         /\ \A t \in Trees : tree'[t].entries =
              IF ok /\ IsLast /\ t = filling THEN tree[t].entries + 1 ELSE tree[t].entries
         /\ ok /\ ~IsLast => column' = column + 1 /\ UNCHANGED <<filling, stage, filled, failed>>
         /\ ~ok \/ IsLast => Return(ok)
<1>1. Placed(T, new) /\ \A t \in Trees : T[t].entries = tree[t].entries
  BY PlacedTrees
<1>2. filling \in Trees /\ column \in 1..Width(filling) /\ Width(filling) \in Nat
  BY WidthIs DEF Control, Trees
<1>3. column < Width(filling) <=> ~IsLast
  BY <1>2 DEF IsLast
<1>4. CASE ~ok \/ ~IsLast
  <2>1. tree' = T
    BY <1>3, <1>4 DEF Advance, Width
  <2>2. IF ok THEN column' = column + 1 /\ UNCHANGED <<filling, stage, filled, failed>>
        ELSE Return(ok)
    BY <1>3, <1>4 DEF Advance, Width
  <2> QED  BY <1>1, <1>4, <2>1, <2>2
<1>5. CASE ok /\ IsLast
  <2>1. tree' = [T EXCEPT ![filling] = Counted(@)] /\ Return(ok)
    BY <1>3, <1>5 DEF Advance, Width
  <2>2. DOMAIN T = Trees /\ DOMAIN T[filling] = TreeFields
    BY <1>1, <1>2 DEF Placed
  <2>3. PICK C : C = Counted(T[filling])
    OBVIOUS
  <2>4. /\ DOMAIN C = TreeFields /\ C.entries = T[filling].entries + 1
        /\ C.branch = T[filling].branch
    BY <2>2, <2>3 DEF Counted, TreeFields
  <2>5. DOMAIN tree' = Trees /\ tree'[filling] = C /\ \A t \in Trees : t # filling => tree'[t] = T[t]
    BY <1>2, <2>1, <2>2, <2>3
  <2>6. PICK T2 : T2 = tree'
    OBVIOUS
  <2>7. /\ DOMAIN T2 = Trees
        /\ \A t \in Trees : DOMAIN T2[t] = TreeFields /\ T2[t].branch = T[t].branch
    BY <1>1, <2>2, <2>4, <2>5, <2>6 DEF Placed
  <2>8. Placed(T2, new)
    BY <1>1, <2>7 DEF Placed
  <2>9. \A t \in Trees : tree'[t].entries =
              IF ok /\ IsLast /\ t = filling THEN tree[t].entries + 1 ELSE tree[t].entries
    BY <1>1, <1>2, <1>5, <2>4, <2>5
  <2> QED  BY <1>5, <2>1, <2>6, <2>8, <2>9
<1> QED  BY <1>4, <1>5

\* A step of fill() is one of the two, and fails for a reason.
LEMMA FillStepIs ==
  ASSUME Shape, Control, Causes, FillStep
  PROVE  \E new, ok :
           /\ ok \in BOOLEAN /\ FillOutcome(new, ok)
           /\ \/ (ok <=> ~LeafFails) /\ Takes(tree[filling].branch[column], new)
              \/ ok = FALSE /\ ~LeafFails /\ Breaks(tree[filling].branch[column], new)
<1> DEFINE old == tree[filling].branch[column]
<1>1. /\ filling # "none" /\ filling \in Trees /\ column \in 1..Width(filling)
      /\ UNCHANGED <<event, rows, image>>
  BY DEF FillStep, Control
<1>2. PICK size \in IF IsObject THEN ObjectSizes ELSE {ScalarSize} : FillBranch(size)
  <2>1. HasSlot(tree[filling].branch[column])
    <3>1. IsBranch(tree[filling].branch[column])
      BY <1>1 DEF Shape
    <3> QED  BY <3>1 DEF IsBranch, HasSlot
  <2> QED  BY <2>1 DEF FillStep
<1>3. size \in Nat \ {0}
  BY <1>2, WrootTreeAssumption DEF WrootTreeAssumption
<1>4. PICK br : br = Entered(old, Leaf, size)
  OBVIOUS
<1>5. /\ IsSequence(file) /\ errors \in 0..MaxWriteErrors /\ MaxWriteErrors \in Nat
      /\ Len(file) \in Nat
  BY AppendAny, WrootTreeAssumption DEF Control, WrootTreeAssumption
<1>6. /\ IsBranch(old) /\ old.open.seekKey \in 0..Len(file)
      /\ old.open.tables => IsImage(old, file)
      /\ old.open.tables \/ errors > 0
      /\ old.entryNumber \in Nat
      /\ DOMAIN old = BranchFields /\ DOMAIN old.open = BasketFields
      /\ old.open.nev \in Nat /\ old.open.tables \in BOOLEAN
      /\ old.open.tables <=> old.open.seekKey = NoSeek
  <2>1. /\ IsBranch(old) /\ old.open.seekKey \in 0..Len(file)
        /\ old.open.tables => IsImage(old, file)
    BY <1>1 DEF Shape
  <2>2. old.open.tables \/ errors > 0
    <3>1. DOMAIN tree[filling].branch = 1..Width(filling)
      BY <1>1 DEF Shape
    <3> QED  BY <1>1, <3>1 DEF Causes, Sound
  <2> HIDE DEF old
  <2> QED  BY <2>1, <2>2 DEF IsBranch
<1> HIDE DEF old
<1>7. Leaf # Garbage
  BY LeafIsEntry
<1>8. /\ IsBranch(br) /\ br.entryNumber = old.entryNumber + 1
      /\ br.open.tables = old.open.tables /\ br.open.seekKey = old.open.seekKey
      /\ br.open.last = old.open.last /\ br.open.nev = old.open.nev + 1
  BY <1>4, <1>6, EnteredIsBranch, FieldsOfEntered
<1>9. old.open.tables =>
        /\ IsImage(br, file)
        /\ EntryOf(br, file, old.entryNumber) = Leaf
        /\ \A n \in 0..old.entryNumber - 1 : EntryOf(br, file, n) = EntryOf(old, file, n)
  BY <1>3, <1>4, <1>6, <1>7, EnteredImage
<1>10. ASSUME NEW new, NEW ok \in BOOLEAN,
              IF ok THEN Advance(TreesWith(new)) ELSE tree' = TreesWith(new) /\ Return(FALSE),
              IsSequence(file'), Extends(file, file'), Len(file) <= Len(file'),
              errors' \in errors..MaxWriteErrors
       PROVE  FillOutcome(new, ok)
  <2>1. PICK T : T = TreesWith(new)
    OBVIOUS
  <2>2. IF ok THEN Advance(T) ELSE tree' = T /\ Return(FALSE)
    BY <1>10, <2>1
  <2> QED  BY <1>1, <1>10, <2>1, <2>2, AdvancedTrees DEF FillOutcome
<1>11. /\ Extends(file, file)
       /\ file' = file => IsSequence(file') /\ Extends(file, file') /\ Len(file) <= Len(file')
       /\ errors' = errors => errors' \in errors..MaxWriteErrors
       /\ Takes(old, br) \/ file' # file
  <2>1. file' = file => Takes(old, br)
    BY <1>5, <1>6, <1>8, <1>9 DEF Takes
  <2> QED  BY <1>5, <2>1, AppendExtends
<1>12. ASSUME NEW rec, file' = Append(file, rec)
       PROVE  /\ IsSequence(file') /\ Extends(file, file') /\ Len(file') = Len(file) + 1
              /\ Len(file) <= Len(file')
  BY <1>5, <1>12, AppendAny, AppendExtends
<1> DEFINE seek == Len(file) + 1
           full == IsFull(br.open, size)
<1>13. \/ LeafFails /\ tree' = TreesWith(br) /\ Return(FALSE)
            /\ UNCHANGED <<file, errors>>
       \/ ~LeafFails /\ ~full /\ Advance(TreesWith(br)) /\ UNCHANGED <<file, errors>>
       \/ ~LeafFails /\ full /\ br.open.seekKey # NoSeek
            /\ tree' = TreesWith(br) /\ Return(FALSE) /\ UNCHANGED <<file, errors>>
       \/ ~LeafFails /\ full /\ br.open.seekKey = NoSeek
            /\ file' = Append(file, Record(br.open)) /\ errors' = errors
            /\ Advance(TreesWith(NextBasket(br, seek)))
       \/ ~LeafFails /\ full /\ br.open.seekKey = NoSeek /\ errors < MaxWriteErrors
            /\ file' = Append(file, Torn) /\ errors' = errors + 1
            /\ tree' = TreesWith([br EXCEPT !.open = Claimed(@, seek)])
            /\ Return(FALSE)
  BY <1>2, <1>4 DEF FillBranch, old
<1> HIDE DEF full
<1>14. CASE LeafFails /\ tree' = TreesWith(br) /\ Return(FALSE) /\ UNCHANGED <<file, errors>>
  <2>1. FillOutcome(br, FALSE)
    BY <1>10, <1>11, <1>14
  <2> QED  BY <1>11, <1>14, <2>1 DEF old
<1>15. CASE ~LeafFails /\ ~full /\ Advance(TreesWith(br)) /\ UNCHANGED <<file, errors>>
  <2>1. FillOutcome(br, TRUE)
    BY <1>10, <1>11, <1>15
  <2> QED  BY <1>11, <1>15, <2>1 DEF old
<1>16. CASE ~LeafFails /\ full /\ br.open.seekKey # NoSeek
            /\ tree' = TreesWith(br) /\ Return(FALSE) /\ UNCHANGED <<file, errors>>
  <2>1. FillOutcome(br, FALSE)
    BY <1>10, <1>11, <1>16
  <2>2. Breaks(old, br)
    BY <1>6, <1>8, <1>16 DEF Breaks
  <2> QED  BY <1>16, <2>1, <2>2 DEF old
<1>17. CASE ~LeafFails /\ full /\ br.open.seekKey = NoSeek
            /\ file' = Append(file, Record(br.open)) /\ errors' = errors
            /\ Advance(TreesWith(NextBasket(br, seek)))
  <2>1. PICK new : new = NextBasket(br, seek)
    OBVIOUS
  <2>2. FillOutcome(new, TRUE)
    BY <1>10, <1>11, <1>12, <1>17, <2>1
  <2>3. br.open.tables /\ br.open.nev > 0 /\ old.open.tables
    BY <1>6, <1>8, <1>17
  <2>4. PICK fl2 : fl2 = Append(file, Record(br.open))
    OBVIOUS
  <2>5. /\ IsBranch(new) /\ IsImage(new, fl2)
        /\ new.entryNumber = br.entryNumber /\ new.open.tables /\ new.open.last = 0
        /\ \A n \in 0..br.entryNumber - 1 : EntryOf(new, fl2, n) = EntryOf(br, file, n)
    <3>1. IsSequence(file) /\ IsBranch(br) /\ IsImage(br, file)
      BY <1>5, <1>8, <1>9, <2>3
    <3>2. \A x, f : x = NextBasket(br, Len(file) + 1) /\ f = Append(file, Record(br.open)) =>
            /\ IsBranch(x) /\ IsImage(x, f)
            /\ x.entryNumber = br.entryNumber /\ x.open.tables /\ x.open.last = 0
            /\ SameEntries(br, file, x, f)
      BY <2>3, <3>1, NextImage
    <3> QED  BY <2>1, <2>4, <3>2 DEF SameEntries
  <2>6. new.open.seekKey \in 0..Len(fl2)
    <3>1. new.open.seekKey = NoSeek
      BY <2>5 DEF IsBranch
    <3>2. Len(fl2) \in Nat
      BY <1>5, <1>12, <1>17, <2>4
    <3> QED  BY <3>1, <3>2 DEF NoSeek
  <2>7. /\ EntryOf(new, fl2, old.entryNumber) = Leaf
        /\ \A n \in 0..old.entryNumber - 1 : EntryOf(new, fl2, n) = EntryOf(old, file, n)
    BY <1>6, <1>8, <1>9, <2>3, <2>5
  <2>8. new.open.tables = old.open.tables
    <3>1. new.open.tables \in BOOLEAN
      BY <2>5 DEF IsBranch
    <3> QED  BY <1>6, <2>3, <2>5, <3>1
  <2>9. Takes(old, new)
    BY <1>8, <1>17, <2>4, <2>5, <2>6, <2>7, <2>8 DEF Takes
  <2> QED  BY <1>17, <2>2, <2>9 DEF old
<1>18. CASE ~LeafFails /\ full /\ br.open.seekKey = NoSeek /\ errors < MaxWriteErrors
            /\ file' = Append(file, Torn) /\ errors' = errors + 1
            /\ tree' = TreesWith([br EXCEPT !.open = Claimed(@, seek)])
            /\ Return(FALSE)
  <2>1. PICK new : new = [br EXCEPT !.open = Claimed(@, seek)]
    OBVIOUS
  <2>2. FillOutcome(new, FALSE)
    <3>1. errors' \in errors..MaxWriteErrors
      BY <1>5, <1>18
    <3> QED  BY <1>10, <1>12, <1>18, <2>1, <3>1
  <2>3. Readable(br.open)
    BY <1>6, <1>8, <1>9, <1>18 DEF IsImage
  <2>4. IsBranch(new) /\ new.open.tables = FALSE /\ new.open.seekKey = seek
    <3>1. seek \in Nat \ {NoSeek}
      BY <1>5 DEF NoSeek
    <3>2. \A x, k : k \in Nat \ {NoSeek} /\ x = [br EXCEPT !.open = Claimed(@, k)] =>
            GivenUp(x, k)
      BY <1>8, <2>3, ClaimedIsBranch
    <3> QED  BY <2>1, <3>1, <3>2 DEF GivenUp
  <2>5. new.entryNumber = old.entryNumber + 1
    BY <1>8, <2>1 DEF IsBranch, BranchFields
  <2>6. Breaks(old, new)
    BY <1>5, <1>12, <1>18, <2>4, <2>5 DEF Breaks
  <2> QED  BY <1>18, <2>2, <2>6 DEF old
<1> QED  BY <1>13, <1>14, <1>15, <1>16, <1>17, <1>18
-----------------------------------------------------------------------------
(***************************************************************************)
(* The inductive invariant.                                                *)
(***************************************************************************)
Inv == /\ Shape /\ Control /\ Marks /\ Causes
       /\ HitRows /\ GoodEntriesHold /\ EntriesInStep /\ TreesAreWhole /\ ImageIsTree

(***************************************************************************)
(* A step of tree::fill keeps it.                                          *)
(***************************************************************************)
StepIs(new, ok) ==
  /\ filling # "none" /\ ok \in BOOLEAN /\ FillOutcome(new, ok)
  /\ \/ (ok <=> ~LeafFails) /\ Takes(tree[filling].branch[column], new)
     \/ ok = FALSE /\ ~LeafFails /\ Breaks(tree[filling].branch[column], new)

\* A branch that the step does not reach.
Kept(y, x) ==
  /\ IsBranch(x) /\ x.open.tables = y.open.tables /\ x.open.seekKey = y.open.seekKey
  /\ x.entryNumber = y.entryNumber
  /\ y.open.tables => IsImage(x, file') /\ SameEntries(y, file, x, file')

LEMMA BranchesKept ==
  ASSUME Shape, Control, NEW new, NEW ok, StepIs(new, ok)
  PROVE  /\ filling \in Trees /\ column \in 1..Width(filling)
         /\ tree'[filling].branch[column] = new
         /\ \A t \in Trees : \A b \in 1..Width(t) : t # filling \/ b # column =>
              /\ Kept(tree[t].branch[b], tree'[t].branch[b])
              /\ ~(IsObject /\ t = "hit") => tree'[t].branch[b] = tree[t].branch[b]
<1>1. /\ filling \in Trees /\ column \in 1..Width(filling)
      /\ Placed(tree', new) /\ Extends(file, file')
  BY DEF StepIs, FillOutcome, Control
<1>2. tree'[filling].branch[column] = new
  BY <1>1 DEF Placed
<1>3. ASSUME NEW t \in Trees, NEW b \in 1..Width(t), t # filling \/ b # column
      PROVE  /\ Kept(tree[t].branch[b], tree'[t].branch[b])
             /\ ~(IsObject /\ t = "hit") => tree'[t].branch[b] = tree[t].branch[b]
  <2>1. IF IsObject /\ t = "hit" THEN IsMarked(tree[t].branch[b], tree'[t].branch[b])
        ELSE tree'[t].branch[b] = tree[t].branch[b]
    BY <1>1, <1>3 DEF Placed
  <2>2. PICK y : y = tree[t].branch[b]
    OBVIOUS
  <2>3. PICK x : x = tree'[t].branch[b]
    OBVIOUS
  <2>4. IsBranch(y) /\ (y.open.tables => IsImage(y, file))
    BY <2>2 DEF Shape
  <2>5. IsMarked(y, x)
    <3>1. CASE x = y
      BY <2>4, <3>1 DEF IsMarked, ReadsAs, IsBranch
    <3> QED  BY <2>1, <2>2, <2>3, <3>1
  <2>6. /\ IsBranch(x) /\ x.open.tables = y.open.tables /\ x.open.seekKey = y.open.seekKey
        /\ x.entryNumber = y.entryNumber /\ ReadsAs(y, x)
    BY <2>4, <2>5, MarkedIsBranch DEF IsMarked, ReadsAs
  <2>7. ASSUME y.open.tables
        PROVE  IsImage(x, file') /\ SameEntries(y, file, x, file')
    <3>1. /\ IsImage(x, file)
          /\ SameEntries(y, file, x, file)
      BY <2>4, <2>6, <2>7, SameReading
    <3>2. /\ IsImage(x, file')
          /\ SameEntries(x, file, x, file')
      BY <1>1, <3>1, GrownFile
    <3> QED  BY <2>6, <3>1, <3>2 DEF SameEntries
  <2>8. Kept(y, x)
    BY <2>6, <2>7 DEF Kept
  <2> QED  BY <2>1, <2>2, <2>3, <2>8
<1> QED  BY <1>1, <1>2, <1>3

LEMMA FillShape ==
  ASSUME Shape, Control, NEW new, NEW ok, StepIs(new, ok)
  PROVE  Shape'
<1>1. /\ Placed(tree', new)
      /\ \A t \in Trees : tree'[t].entries =
           IF ok /\ IsLast /\ t = filling THEN tree[t].entries + 1 ELSE tree[t].entries
      /\ Len(file) <= Len(file') /\ IsSequence(file')
  BY DEF StepIs, FillOutcome
<1>2. Len(file) \in Nat /\ Len(file') \in Nat
  BY <1>1, AppendAny DEF Control
<1>3. ASSUME NEW t \in Trees, NEW b \in 1..Width(t)
      PROVE  /\ IsBranch(tree'[t].branch[b])
             /\ tree'[t].branch[b].open.seekKey \in 0..Len(file')
             /\ tree'[t].branch[b].open.tables => IsImage(tree'[t].branch[b], file')
  <2>1. CASE t = filling /\ b = column
    <3>1. tree'[t].branch[b] = new
      BY <2>1, BranchesKept
    <3>2. CASE Takes(tree[filling].branch[column], new)
      BY <3>1, <3>2 DEF Takes
    <3>3. CASE Breaks(tree[filling].branch[column], new)
      BY <3>1, <3>3 DEF Breaks
    <3> QED  BY <3>2, <3>3 DEF StepIs
  <2>2. CASE ~(t = filling /\ b = column)
    <3>1. Kept(tree[t].branch[b], tree'[t].branch[b])
      BY <2>2, BranchesKept
    <3>2. tree[t].branch[b].open.seekKey \in 0..Len(file)
      BY DEF Shape
    <3> QED  BY <1>1, <1>2, <3>1, <3>2 DEF Kept
  <2> QED  BY <2>1, <2>2
<1>4. \A t \in Trees : tree'[t].entries \in Nat
  BY <1>1 DEF Shape
<1> QED  BY <1>1, <1>3, <1>4 DEF Shape, Placed

LEMMA FillMarks ==
  ASSUME Shape, Control, Marks, NEW new, NEW ok, StepIs(new, ok)
  PROVE  Marks'
<1>1. /\ stage = "rows" /\ filling \in Trees /\ column \in 1..Width(filling)
      /\ ok \in BOOLEAN
  BY DEF Control, StepIs
<1>2. ASSUME NEW t \in Trees, NEW b \in 1..Width(t), tree'[t].branch[b].open.tables,
             tree[t].branch[b].open.tables => tree[t].branch[b].open.last = 0,
             ~(IsObject /\ t = "hit")
      PROVE  tree'[t].branch[b].open.last = 0
  <2>1. CASE t = filling /\ b = column
    <3>1. tree'[t].branch[b] = new
      BY <2>1, BranchesKept
    <3>2. Takes(tree[t].branch[b], new)
      BY <1>2, <2>1, <3>1 DEF StepIs, Breaks
    <3> QED  BY <1>2, <3>1, <3>2 DEF Takes
  <2>2. CASE ~(t = filling /\ b = column)
    BY <1>2, <2>2, BranchesKept
  <2> QED  BY <2>1, <2>2
<1>3. "Event" \in Trees /\ "hit" \in Trees
  BY DEF Trees
<1>4. ASSUME NEW b \in 1..Width("Event"), tree'["Event"].branch[b].open.tables
      PROVE  tree'["Event"].branch[b].open.last = 0
  BY <1>1, <1>2, <1>3, <1>4 DEF Marks
<1>5. ASSUME NEW b \in 1..Width("hit"), tree'["hit"].branch[b].open.tables,
             stage' = "rows", ~(filling' = "Event" /\ column' > 2)
      PROVE  tree'["hit"].branch[b].open.last = 0
  <2>1. CASE filling = "hit"
    <3>1. ~IsObject
      BY <2>1 DEF IsObject
    <3> QED  BY <1>1, <1>2, <1>3, <1>5, <2>1, <3>1 DEF Marks
  <2>2. CASE filling = "Event"
    <3>1. ~Return(ok)
      BY <1>5, <2>2 DEF Return
    <3>2. column' = column + 1 /\ filling' = filling
      BY <3>1 DEF StepIs, FillOutcome
    <3>3. column = 1
      BY <1>1, <1>5, <2>2, <3>2, WidthIs
    <3>4. ~IsObject
      BY <3>3 DEF IsObject, Columns
    <3> QED  BY <1>1, <1>2, <1>3, <1>5, <3>3, <3>4 DEF Marks
  <2> QED  BY <1>1, <2>1, <2>2 DEF Trees
<1> QED  BY <1>4, <1>5 DEF Marks

\* Streaming the hit tree fails only if one of its baskets was given up.
LEMMA LeafFailure ==
  ASSUME Shape, Control, Marks, Causes, LeafFails
  PROVE  filling = "Event" /\ column = 2 /\ Leaf = Partial /\ errors > 0
<1>1. /\ filling = "Event" /\ Columns(filling)[column] = "hit"
      /\ ~TreeStreams(tree["hit"])
  BY DEF LeafFails, IsObject
<1>2. column = 2 /\ stage = "rows"
  <2>1. column \in 1..3 /\ stage = "rows"
    BY <1>1, WidthIs DEF Control
  <2> QED  BY <1>1, <2>1 DEF Columns
<1>3. Leaf = Partial
  BY <1>1 DEF Leaf, IsObject
<1>4. "hit" \in Trees /\ DOMAIN tree["hit"].branch = 1..Width("hit")
  BY DEF Shape, Trees
<1>5. PICK b \in 1..Width("hit") : ~CanStream(tree["hit"].branch[b].open)
  BY <1>1, <1>4 DEF TreeStreams
<1>6. IsBranch(tree["hit"].branch[b])
  BY <1>4 DEF Shape
<1>7. ~tree["hit"].branch[b].open.tables
  <2>1. tree["hit"].branch[b].open.tables => tree["hit"].branch[b].open.last = 0
    BY <1>2 DEF Marks
  <2> QED  BY <1>5, <1>6, <2>1 DEF CanStream, IsBranch
<1>8. ~Sound(tree["hit"])
  BY <1>4, <1>7 DEF Sound
<1> QED  BY <1>1, <1>2, <1>3, <1>4, <1>8 DEF Causes

LEMMA FillCauses ==
  ASSUME Shape, Control, Marks, Causes, NEW new, NEW ok, StepIs(new, ok)
  PROVE  Causes'
<1>1. /\ filling \in Trees /\ column \in 1..Width(filling) /\ stage = "rows"
      /\ ok \in BOOLEAN /\ Placed(tree', new)
      /\ errors' \in errors..MaxWriteErrors /\ errors \in 0..MaxWriteErrors
  BY DEF Control, StepIs, FillOutcome
<1>2. errors \in Nat /\ errors' \in Nat /\ errors <= errors'
  BY <1>1, WrootTreeAssumption DEF WrootTreeAssumption
<1>3. DOMAIN tree = Trees /\ \A t \in Trees : DOMAIN tree[t].branch = 1..Width(t)
  BY DEF Shape
<1>4. ASSUME NEW t \in Trees, Sound(tree[t]), ~Sound(tree'[t])
      PROVE  t = filling /\ ok = FALSE /\ errors' > 0
  <2>1. PICK b \in 1..Width(t) : ~tree'[t].branch[b].open.tables
    BY <1>1, <1>4 DEF Sound, Placed
  <2>2. tree[t].branch[b].open.tables
    BY <1>3, <1>4 DEF Sound
  <2>3. t = filling /\ b = column
    <3>1. ASSUME ~(t = filling /\ b = column)
          PROVE  FALSE
      <4>1. Kept(tree[t].branch[b], tree'[t].branch[b])
        BY <3>1, BranchesKept
      <4> QED  BY <2>1, <2>2, <4>1 DEF Kept
    <3> QED  BY <3>1
  <2>4. tree'[t].branch[b] = new
    BY <2>3, BranchesKept
  <2>5. ~Takes(tree[filling].branch[column], new)
    BY <2>1, <2>2, <2>3, <2>4 DEF Takes
  <2> QED  BY <2>3, <2>5 DEF StepIs, Breaks
<1>5. ASSUME NEW t \in Trees
      PROVE  Sound(tree'[t]) \/ errors' > 0
  <2>1. Sound(tree[t]) \/ errors > 0
    BY DEF Causes
  <2>2. CASE errors > 0
    BY <1>2, <2>2
  <2>3. CASE Sound(tree[t])
    BY <1>4, <2>3
  <2> QED  BY <2>1, <2>2, <2>3
<1>6. /\ failed \subseteq failed'
      /\ failed' # failed => ok = FALSE
      /\ ok = FALSE /\ filling = "Event" => failed' # {}
      /\ stage' # "lost"
  <2>1. CASE Return(ok)
    BY <1>1, <2>1 DEF Return
  <2>2. CASE ~Return(ok)
    BY <1>1, <2>2 DEF StepIs, FillOutcome
  <2> QED  BY <2>1, <2>2
<1>7. Sound(tree'["Event"]) \/ failed' # {}
  <2>1. "Event" \in Trees
    BY DEF Trees
  <2> QED  BY <1>4, <1>6, <2>1 DEF Causes
<1>8. ok = FALSE => errors' > 0
  <2>1. ok = FALSE => LeafFails \/ Breaks(tree[filling].branch[column], new)
    BY <1>1 DEF StepIs
  <2>2. LeafFails => errors > 0
    BY LeafFailure
  <2>3. Breaks(tree[filling].branch[column], new) => errors' > 0
    BY DEF Breaks
  <2> QED  BY <1>2, <2>1, <2>2, <2>3
<1>9. failed' # {} => errors' > 0
  BY <1>2, <1>6, <1>8 DEF Causes
<1> QED  BY <1>5, <1>6, <1>7, <1>9 DEF Causes
\* The entry that a fill of the Event tree adds.
LEMMA FilledAppends ==
  ASSUME Control, stage = "rows"
  PROVE  LET longer == Append(filled, Current) IN
         /\ IsSequence(filled) /\ IsSequence(longer)
         /\ Len(filled) \in Nat /\ Len(longer) = Len(filled) + 1
         /\ DOMAIN filled = 1..Len(filled) /\ DOMAIN longer = 1..Len(filled) + 1
         /\ \A n \in 1..Len(filled) : longer[n] = filled[n]
         /\ longer[Len(filled) + 1] = Current
BY AppendAny DEF Control

LEMMA FailedGrows ==
  ASSUME Control, stage = "rows"
  PROVE  /\ Cardinality(failed) \in Nat
         /\ Cardinality(failed \cup {event}) = Cardinality(failed) + 1
<1>1. failed \subseteq 1..event /\ event \notin failed /\ event \in 0..MaxEvents
  BY DEF Control
<1>2. MaxEvents \in Nat
  BY WrootTreeAssumption DEF WrootTreeAssumption
<1>3. IsFiniteSet(1..event)
  BY <1>1, <1>2, FS_Interval
<1>4. IsFiniteSet(failed)
  BY <1>1, <1>3, FS_Subset
<1> QED  BY <1>1, <1>4, FS_AddElement, FS_CardinalityType

LEMMA FillControl ==
  ASSUME Shape, Control, NEW new, NEW ok, StepIs(new, ok)
  PROVE  Control'
<1>1. /\ filling \in Trees /\ column \in 1..Width(filling) /\ stage = "rows"
      /\ ok \in BOOLEAN /\ Width(filling) \in Nat
      /\ errors' \in errors..MaxWriteErrors /\ errors \in 0..MaxWriteErrors
      /\ IsSequence(file')
      /\ event' = event /\ rows' = rows
  BY WidthIs DEF Control, StepIs, FillOutcome, Trees
<1>2. errors' \in 0..MaxWriteErrors
  BY <1>1, WrootTreeAssumption DEF WrootTreeAssumption
<1>3. /\ event \in 0..MaxEvents /\ rows \in 0..MaxRows
      /\ filling = "hit" => rows > 0
      /\ failed \subseteq 1..event
      /\ \A n \in DOMAIN filled :
           /\ filled[n].event \in 1..event /\ filled[n].rows \in 0..MaxRows
           /\ filled[n] \in ContentsSet
      /\ event > 0 /\ event \notin failed
      /\ \A n \in DOMAIN filled : filled[n].event # event
      /\ Len(filled) + Cardinality(failed) < event
      /\ IsSequence(filled) /\ event \in Nat
  BY <1>1, WrootTreeAssumption DEF Control, WrootTreeAssumption
<1>4. /\ Cardinality(failed) \in Nat
      /\ Cardinality(failed \cup {event}) = Cardinality(failed) + 1
  BY <1>1, FailedGrows
<1>5. PICK longer : longer = Append(filled, Current)
  OBVIOUS
<1>6. /\ IsSequence(longer) /\ Len(longer) = Len(filled) + 1 /\ Len(filled) \in Nat
      /\ DOMAIN filled = 1..Len(filled) /\ DOMAIN longer = 1..Len(filled) + 1
      /\ \A n \in 1..Len(filled) : longer[n] = filled[n]
      /\ longer[Len(filled) + 1] = Current
  BY <1>1, <1>5, FilledAppends
<1>7. /\ Current.event = event /\ Current.rows = rows /\ Current \in ContentsSet
  BY <1>3 DEF Current, ContentsSet
<1>8. \A n \in DOMAIN longer :
        /\ longer[n].event \in 1..event /\ longer[n].rows \in 0..MaxRows
        /\ longer[n] \in ContentsSet
  <2> SUFFICES ASSUME NEW n \in 1..Len(filled) + 1
               PROVE  /\ longer[n].event \in 1..event /\ longer[n].rows \in 0..MaxRows
                      /\ longer[n] \in ContentsSet
    BY <1>6
  <2>1. CASE n = Len(filled) + 1
    BY <1>3, <1>6, <1>7, <2>1
  <2>2. CASE n # Len(filled) + 1
    BY <1>3, <1>6, <2>2
  <2> QED  BY <2>1, <2>2
<1>9. CASE ok /\ ~IsLast
  <2>1. column' = column + 1 /\ UNCHANGED <<filling, stage, filled, failed>>
    BY <1>9 DEF StepIs, FillOutcome
  <2>2. column' \in 1..Width(filling)
    BY <1>1, <1>9, <2>1 DEF IsLast
  <2> QED  BY <1>1, <1>2, <1>3, <1>4, <1>6, <2>1, <2>2 DEF Control, Trees
<1>10. CASE Return(ok)
  <2>1. filling' = "none" /\ column' = 1
    BY <1>10 DEF Return
  <2>2. CASE filling # "Event"
    <3>1. UNCHANGED <<stage, filled, failed>>
      BY <1>10, <2>2 DEF Return
    <3> QED  BY <1>1, <1>2, <1>3, <1>4, <1>6, <2>1, <3>1 DEF Control, Trees
  <2>3. CASE filling = "Event" /\ ok
    <3>1. stage' = "idle" /\ filled' = longer /\ failed' = failed
      BY <1>5, <1>10, <2>3 DEF Return, Current
    <3>2. Len(filled') + Cardinality(failed') <= event' /\ IsSequence(filled')
      BY <1>1, <1>3, <1>4, <1>6, <3>1
    <3>3. \A n \in DOMAIN filled' :
            /\ filled'[n].event \in 1..event' /\ filled'[n].rows \in 0..MaxRows
            /\ filled'[n] \in ContentsSet
      BY <1>1, <1>8, <3>1
    <3> QED  BY <1>1, <1>2, <1>3, <2>1, <3>1, <3>2, <3>3 DEF Control, Trees
  <2>4. CASE filling = "Event" /\ ~ok
    <3>1. stage' = "idle" /\ filled' = filled /\ failed' = failed \cup {event}
      BY <1>10, <2>4 DEF Return
    <3>2. failed' \subseteq 1..event
      BY <1>3, <3>1
    <3>3. Len(filled') + Cardinality(failed') <= event'
      BY <1>1, <1>3, <1>4, <1>6, <3>1
    <3> QED  BY <1>1, <1>2, <1>3, <2>1, <3>1, <3>2, <3>3 DEF Control, Trees
  <2> QED  BY <1>1, <2>2, <2>3, <2>4
<1> QED  BY <1>1, <1>9, <1>10 DEF StepIs, FillOutcome

\* What was stored stays stored when the file grows.
LEMMA EntryOfGrown ==
  ASSUME NEW val, NEW b, NEW f, NEW fl, NEW fl2, IsEntryOf(val, b, f, fl), Extends(fl, fl2),
         f.rows \in Nat
  PROVE  IsEntryOf(val, b, f, fl2)
<1>1. CASE b = 2
  <2>1. val[1] = "tree" /\ val = <<"tree", val[2]>> /\ IsTreeOf(val[2], f, fl)
    BY <1>1 DEF IsEntryOf
  <2>2. PICK t : t = val[2]
    OBVIOUS
  <2>3. t.entries = f.rows /\ DOMAIN t.branch = 1..Width("hit")
    BY <2>1, <2>2 DEF IsTreeOf
  <2>4. ASSUME NEW c \in 1..Width("hit")
        PROVE  /\ IsImage(t.branch[c], fl2) /\ t.branch[c].entryNumber = f.rows
               /\ \A r \in 1..f.rows :
                    EntryOf(t.branch[c], fl2, r - 1) = <<"row", f.event, r>>
    <3>1. PICK img : img = t.branch[c]
      OBVIOUS
    <3>2. /\ IsImage(img, fl) /\ img.entryNumber = f.rows
          /\ \A r \in 1..f.rows : EntryOf(img, fl, r - 1) = <<"row", f.event, r>>
      BY <2>1, <2>2, <3>1 DEF IsTreeOf
    <3>3. /\ IsImage(img, fl2)
          /\ SameEntries(img, fl, img, fl2)
      BY <3>2, GrownFile
    <3>4. \A r \in 1..f.rows : r - 1 \in 0..img.entryNumber - 1
      BY <3>2
    <3> QED  BY <3>1, <3>2, <3>3, <3>4 DEF SameEntries
  <2>5. IsTreeOf(t, f, fl2)
    BY <2>3, <2>4 DEF IsTreeOf
  <2> QED  BY <1>1, <2>1, <2>2, <2>5 DEF IsEntryOf
<1>2. CASE b # 2
  BY <1>2 DEF IsEntryOf
<1> QED  BY <1>1, <1>2

\* What the leaf of a column of the Event tree holds.
LEMMA LeafIsCurrent ==
  ASSUME Shape, Control, HitRows, filling = "Event", ~LeafFails
  PROVE  IsEntryOf(Leaf, column, Current, file)
<1>1. column \in 1..3 /\ stage = "rows" /\ rows \in Nat
  BY WidthIs, WrootTreeAssumption DEF Control, WrootTreeAssumption
<1>2. Current.event = event /\ Current.rows = rows
  BY DEF Current
<1>3. IsObject <=> column = 2
  BY <1>1 DEF IsObject, Columns
<1>4. CASE column # 2
  <2>1. Leaf = <<"event", event>>
    BY <1>3, <1>4 DEF Leaf
  <2> QED  BY <1>2, <1>4, <2>1 DEF IsEntryOf
<1>5. CASE column = 2
  <2>1. TreeStreams(tree["hit"])
    BY <1>3, <1>5 DEF LeafFails
  <2>2. PICK t : t = TreeImage(tree["hit"])
    OBVIOUS
  <2>3. Leaf = <<"tree", t>>
    BY <1>3, <1>5, <2>1, <2>2 DEF Leaf
  <2>4. DOMAIN tree["hit"].branch = 1..Width("hit") /\ "hit" \in Trees
    BY DEF Shape, Trees
  <2>5. /\ t.entries = tree["hit"].entries /\ DOMAIN t.branch = 1..Width("hit")
        /\ \A b \in 1..Width("hit") : t.branch[b] = BranchImage(tree["hit"].branch[b])
    BY <2>2, <2>4 DEF TreeImage
  <2>6. \A b \in 1..Width("hit") : tree["hit"].branch[b].open.tables
    BY <2>1, <2>4 DEF TreeStreams, CanStream
  <2>7. Sound(tree["hit"])
    BY <2>4, <2>6 DEF Sound
  <2>8. /\ tree["hit"].entries = rows
        /\ \A b \in 1..Width("hit") :
             /\ tree["hit"].branch[b].entryNumber = rows
             /\ \A r \in 1..rows : EntryOf(tree["hit"].branch[b], file, r - 1) = <<"row", event, r>>
    BY <1>1, <2>7 DEF HitRows
  <2>9. ASSUME NEW b \in 1..Width("hit")
        PROVE  /\ IsImage(t.branch[b], file) /\ t.branch[b].entryNumber = rows
               /\ \A r \in 1..rows : EntryOf(t.branch[b], file, r - 1) = <<"row", event, r>>
    <3>1. PICK br : br = tree["hit"].branch[b]
      OBVIOUS
    <3>2. PICK img : img = t.branch[b]
      OBVIOUS
    <3>3. IsImage(br, file) /\ br.open.tables
      BY <2>4, <2>6, <3>1 DEF Shape
    <3>4. ReadsAs(br, img)
      BY <2>5, <3>1, <3>2, <3>3, ImageReadsAs
    <3>5. /\ IsImage(img, file) /\ img.entryNumber = br.entryNumber
          /\ SameEntries(br, file, img, file)
      BY <3>3, <3>4, SameReading DEF ReadsAs
    <3>6. br.entryNumber = rows /\ \A r \in 1..rows : r - 1 \in 0..br.entryNumber - 1
      BY <1>1, <2>8, <3>1
    <3> QED  BY <2>8, <3>1, <3>2, <3>5, <3>6 DEF SameEntries
  <2>10. IsTreeOf(t, Current, file)
    BY <1>2, <2>5, <2>8, <2>9 DEF IsTreeOf
  <2>11. Leaf[1] = "tree" /\ Leaf[2] = t
    BY <2>3
  <2> QED  BY <1>5, <2>3, <2>10, <2>11 DEF IsEntryOf
<1> QED  BY <1>4, <1>5
\* The entries of a tree whose baskets are all sound after the step: those it
\* had, and the leaf in the branch that was filled.
LEMMA EntriesAfterFill ==
  ASSUME Shape, Control, NEW new, NEW ok, StepIs(new, ok), NEW t \in Trees, Sound(tree'[t])
  PROVE  /\ Sound(tree[t])
         /\ t = filling => (ok <=> ~LeafFails)
         /\ \A b \in 1..Width(t) :
              LET y == tree[t].branch[b]
                  x == tree'[t].branch[b]
              IN  /\ y.entryNumber \in Nat
                  /\ SameEntries(y, file, x, file')
                  /\ x.entryNumber = IF t = filling /\ b = column THEN y.entryNumber + 1
                                     ELSE y.entryNumber
                  /\ t = filling /\ b = column => EntryOf(x, file', y.entryNumber) = Leaf
<1>1. /\ Placed(tree', new) /\ \A b \in 1..Width(t) : tree'[t].branch[b].open.tables
      /\ DOMAIN tree[t].branch = 1..Width(t)
      /\ \A b \in 1..Width(t) : IsBranch(tree[t].branch[b])
  BY DEF StepIs, FillOutcome, Placed, Sound, Shape
<1>2. ASSUME NEW b \in 1..Width(t), t = filling, b = column
      PROVE  Takes(tree[t].branch[b], new) /\ tree'[t].branch[b] = new /\ (ok <=> ~LeafFails)
  <2>1. tree'[t].branch[b] = new
    BY <1>2, BranchesKept
  <2>2. ~Breaks(tree[filling].branch[column], new)
    BY <1>1, <2>1 DEF Breaks
  <2> QED  BY <1>2, <2>1, <2>2 DEF StepIs
<1>3. ASSUME NEW b \in 1..Width(t), ~(t = filling /\ b = column)
      PROVE  Kept(tree[t].branch[b], tree'[t].branch[b])
  BY <1>3, BranchesKept
<1>4. \A b \in 1..Width(t) : tree[t].branch[b].open.tables
  <2> SUFFICES ASSUME NEW b \in 1..Width(t)
               PROVE  tree[t].branch[b].open.tables
    OBVIOUS
  <2>1. tree'[t].branch[b].open.tables = tree[t].branch[b].open.tables
    BY <1>2, <1>3 DEF Takes, Kept
  <2> QED  BY <1>1, <2>1
<1>5. Sound(tree[t])
  BY <1>1, <1>4 DEF Sound
<1>6. t = filling => (ok <=> ~LeafFails)
  <2>1. column \in 1..Width(filling)
    BY BranchesKept
  <2> QED  BY <1>2, <2>1
<1>7. ASSUME NEW b \in 1..Width(t)
      PROVE  LET y == tree[t].branch[b]
                 x == tree'[t].branch[b]
             IN  /\ y.entryNumber \in Nat
                 /\ SameEntries(y, file, x, file')
                 /\ x.entryNumber = IF t = filling /\ b = column THEN y.entryNumber + 1
                                    ELSE y.entryNumber
                 /\ t = filling /\ b = column => EntryOf(x, file', y.entryNumber) = Leaf
  <2>1. PICK y : y = tree[t].branch[b]
    OBVIOUS
  <2>2. PICK x : x = tree'[t].branch[b]
    OBVIOUS
  <2>3. y.entryNumber \in Nat /\ y.open.tables
    BY <1>1, <1>4, <2>1 DEF IsBranch
  <2>4. CASE t = filling /\ b = column
    <3>1. Takes(y, x)
      BY <1>2, <2>1, <2>2, <2>4
    <3>2. /\ x.entryNumber = y.entryNumber + 1
          /\ EntryOf(x, file', y.entryNumber) = Leaf
          /\ \A n \in 0..y.entryNumber - 1 : EntryOf(x, file', n) = EntryOf(y, file, n)
      BY <2>3, <3>1 DEF Takes
    <3> QED  BY <2>1, <2>2, <2>3, <2>4, <3>2 DEF SameEntries
  <2>5. CASE ~(t = filling /\ b = column)
    <3>1. Kept(y, x)
      BY <1>3, <2>1, <2>2, <2>5
    <3> QED  BY <2>1, <2>2, <2>3, <2>5, <3>1 DEF Kept
  <2> QED  BY <2>4, <2>5
<1> QED  BY <1>5, <1>6, <1>7

LEMMA FillHitRows ==
  ASSUME Shape, Control, HitRows, NEW new, NEW ok, StepIs(new, ok)
  PROVE  HitRows'
<1> SUFFICES ASSUME stage' = "rows", Sound(tree'["hit"])
             PROVE  /\ tree'["hit"].entries = IF filling' = "hit" THEN rows - 1 ELSE rows
                    /\ \A b \in 1..Width("hit") :
                         /\ tree'["hit"].branch[b].entryNumber =
                              IF filling' = "hit" /\ b >= column' THEN rows - 1 ELSE rows
                         /\ \A r \in 1..tree'["hit"].branch[b].entryNumber :
                              EntryOf(tree'["hit"].branch[b], file', r - 1) = <<"row", event, r>>
  <2>1. rows' = rows /\ event' = event
    BY DEF StepIs, FillOutcome
  <2> QED  BY <2>1 DEF HitRows
<1>1. /\ filling \in Trees /\ column \in 1..Width(filling) /\ stage = "rows" /\ "hit" \in Trees
      /\ ok \in BOOLEAN /\ rows \in Nat
      /\ \A t \in Trees : tree'[t].entries =
           IF ok /\ IsLast /\ t = filling THEN tree[t].entries + 1 ELSE tree[t].entries
  BY WrootTreeAssumption DEF WrootTreeAssumption, Control, StepIs, FillOutcome, Trees
<1>2. /\ Sound(tree["hit"])
      /\ "hit" = filling => (ok <=> ~LeafFails)
      /\ \A b \in 1..2 :
           LET y == tree["hit"].branch[b]
               x == tree'["hit"].branch[b]
           IN  /\ y.entryNumber \in Nat
               /\ SameEntries(y, file, x, file')
               /\ x.entryNumber = IF "hit" = filling /\ b = column THEN y.entryNumber + 1
                                  ELSE y.entryNumber
               /\ "hit" = filling /\ b = column => EntryOf(x, file', y.entryNumber) = Leaf
  BY <1>1, EntriesAfterFill, WidthIs
<1>3. /\ tree["hit"].entries = IF filling = "hit" THEN rows - 1 ELSE rows
      /\ \A b \in 1..2 :
           /\ tree["hit"].branch[b].entryNumber =
                IF filling = "hit" /\ b >= column THEN rows - 1 ELSE rows
           /\ \A r \in 1..tree["hit"].branch[b].entryNumber :
                EntryOf(tree["hit"].branch[b], file, r - 1) = <<"row", event, r>>
  BY <1>1, <1>2, WidthIs DEF HitRows
<1>4. ASSUME NEW b \in 1..2, ~("hit" = filling /\ b = column)
      PROVE  /\ tree'["hit"].branch[b].entryNumber = tree["hit"].branch[b].entryNumber
             /\ \A r \in 1..tree["hit"].branch[b].entryNumber :
                  EntryOf(tree'["hit"].branch[b], file', r - 1) = <<"row", event, r>>
  <2>1. PICK y : y = tree["hit"].branch[b]
    OBVIOUS
  <2>2. PICK x : x = tree'["hit"].branch[b]
    OBVIOUS
  <2>3. y.entryNumber \in Nat /\ SameEntries(y, file, x, file') /\ x.entryNumber = y.entryNumber
    BY <1>2, <1>4, <2>1, <2>2
  <2>4. ASSUME NEW r \in 1..y.entryNumber
        PROVE  EntryOf(x, file', r - 1) = <<"row", event, r>>
    <3>1. r - 1 \in 0..y.entryNumber - 1
      BY <2>3
    <3>2. EntryOf(x, file', r - 1) = EntryOf(y, file, r - 1)
      BY <2>3, <3>1 DEF SameEntries
    <3>3. EntryOf(y, file, r - 1) = <<"row", event, r>>
      BY <1>3, <2>1
    <3> QED  BY <3>2, <3>3
  <2> QED  BY <2>1, <2>2, <2>3, <2>4
<1>5. CASE filling = "Event"
  <2>1. ~Return(ok)
    BY <1>5 DEF Return
  <2>2. ok /\ ~IsLast /\ filling' = filling
    BY <1>1, <2>1 DEF StepIs, FillOutcome
  <2> QED  BY <1>1, <1>3, <1>4, <1>5, <2>2, WidthIs
<1>6. CASE filling = "hit"
  <2>1. ok
    BY <1>2, <1>6 DEF LeafFails, IsObject
  <2>2. Leaf = <<"row", event, rows>>
    BY <1>6 DEF Leaf, IsObject
  <2>3. column \in 1..2 /\ (IsLast <=> column = 2) /\ rows > 0
    BY <1>1, <1>6, WidthIs DEF IsLast, Control
  <2>4. /\ tree'["hit"].branch[column].entryNumber = rows
        /\ \A r \in 1..rows :
             EntryOf(tree'["hit"].branch[column], file', r - 1) = <<"row", event, r>>
    <3>1. PICK y : y = tree["hit"].branch[column]
      OBVIOUS
    <3>2. PICK x : x = tree'["hit"].branch[column]
      OBVIOUS
    <3>3. /\ y.entryNumber = rows - 1 /\ x.entryNumber = y.entryNumber + 1
          /\ SameEntries(y, file, x, file') /\ EntryOf(x, file', y.entryNumber) = Leaf
      BY <1>2, <1>3, <1>6, <2>3, <3>1, <3>2
    <3>4. ASSUME NEW r \in 1..rows
          PROVE  EntryOf(x, file', r - 1) = <<"row", event, r>>
      <4>1. CASE r = rows
        BY <2>2, <3>3, <4>1
      <4>2. CASE r # rows
        <5>1. r \in 1..y.entryNumber /\ r - 1 \in 0..y.entryNumber - 1
          BY <1>1, <3>3, <4>2
        <5>2. EntryOf(x, file', r - 1) = EntryOf(y, file, r - 1)
          BY <3>3, <5>1 DEF SameEntries
        <5>3. EntryOf(y, file, r - 1) = <<"row", event, r>>
          BY <1>3, <2>3, <3>1, <5>1
        <5> QED  BY <5>2, <5>3
      <4> QED  BY <4>1, <4>2
    <3> QED  BY <1>1, <3>2, <3>3, <3>4
  <2>5. CASE ~IsLast
    <3>1. column = 1 /\ column' = 2 /\ filling' = "hit"
      BY <1>6, <2>1, <2>3, <2>5 DEF StepIs, FillOutcome
    <3>2. tree'["hit"].entries = rows - 1
      BY <1>1, <1>3, <1>6, <2>5
    <3>3. tree'["hit"].branch[2].entryNumber = rows - 1
      BY <1>3, <1>4, <1>6, <3>1
    <3>4. tree'["hit"].branch[1].entryNumber = rows
      BY <2>4, <3>1
    <3>5. \A b \in 1..2 : \A r \in 1..tree'["hit"].branch[b].entryNumber :
            EntryOf(tree'["hit"].branch[b], file', r - 1) = <<"row", event, r>>
      BY <1>4, <2>4, <3>1, <3>4
    <3> QED  BY <3>1, <3>2, <3>3, <3>4, <3>5, WidthIs
  <2>6. CASE IsLast
    <3>1. column = 2 /\ filling' = "none"
      BY <2>1, <2>3, <2>6 DEF StepIs, FillOutcome, Return
    <3>2. tree'["hit"].entries = rows
      BY <1>1, <1>3, <1>6, <2>1, <2>6
    <3>3. tree'["hit"].branch[1].entryNumber = rows
      BY <1>3, <1>4, <1>6, <3>1
    <3>4. tree'["hit"].branch[2].entryNumber = rows
      BY <2>4, <3>1
    <3>5. \A b \in 1..2 : \A r \in 1..tree'["hit"].branch[b].entryNumber :
            EntryOf(tree'["hit"].branch[b], file', r - 1) = <<"row", event, r>>
      BY <1>4, <2>4, <3>1, <3>4
    <3> QED  BY <3>1, <3>2, <3>3, <3>4, <3>5, WidthIs
  <2> QED  BY <2>5, <2>6
<1> QED  BY <1>1, <1>5, <1>6 DEF Trees
\* The n-th entry of a branch of the Event tree after the step.
EntryAfter(b, n) == EntryOf(tree'["Event"].branch[b], file', n - 1)

LEMMA EventEntriesAfterFill ==
  ASSUME Shape, Control, NEW new, NEW ok, StepIs(new, ok), Sound(tree'["Event"])
  PROVE  /\ Sound(tree["Event"])
         /\ filling = "Event" => (ok <=> ~LeafFails)
         /\ \A b \in 1..3 :
              LET n == tree["Event"].branch[b].entryNumber
              IN  /\ n \in Nat
                  /\ tree'["Event"].branch[b].entryNumber =
                       IF filling = "Event" /\ b = column THEN n + 1 ELSE n
                  /\ \A k \in 1..n : EntryAfter(b, k) = EventEntry(b, k)
                  /\ filling = "Event" /\ b = column => EntryAfter(b, n + 1) = Leaf
<1>1. "Event" \in Trees
  BY DEF Trees
<1>2. /\ Sound(tree["Event"])
      /\ "Event" = filling => (ok <=> ~LeafFails)
      /\ \A b \in 1..3 :
           LET y == tree["Event"].branch[b]
               x == tree'["Event"].branch[b]
           IN  /\ y.entryNumber \in Nat
               /\ SameEntries(y, file, x, file')
               /\ x.entryNumber = IF "Event" = filling /\ b = column THEN y.entryNumber + 1
                                  ELSE y.entryNumber
               /\ "Event" = filling /\ b = column => EntryOf(x, file', y.entryNumber) = Leaf
  BY <1>1, EntriesAfterFill, WidthIs
<1>3. ASSUME NEW b \in 1..3
      PROVE  LET n == tree["Event"].branch[b].entryNumber
             IN  /\ n \in Nat
                 /\ tree'["Event"].branch[b].entryNumber =
                      IF filling = "Event" /\ b = column THEN n + 1 ELSE n
                 /\ \A k \in 1..n : EntryAfter(b, k) = EventEntry(b, k)
                 /\ filling = "Event" /\ b = column => EntryAfter(b, n + 1) = Leaf
  <2>1. PICK y : y = tree["Event"].branch[b]
    OBVIOUS
  <2>2. PICK x : x = tree'["Event"].branch[b]
    OBVIOUS
  <2>3. /\ y.entryNumber \in Nat
        /\ SameEntries(y, file, x, file')
        /\ x.entryNumber = IF "Event" = filling /\ b = column THEN y.entryNumber + 1
                           ELSE y.entryNumber
        /\ "Event" = filling /\ b = column => EntryOf(x, file', y.entryNumber) = Leaf
    BY <1>2, <2>1, <2>2
  <2>4. \A k : /\ EventEntry(b, k) = EntryOf(y, file, k - 1)
               /\ EntryAfter(b, k) = EntryOf(x, file', k - 1)
    BY <2>1, <2>2 DEF EventEntry, EntryAfter
  <2>5. \A k \in 1..y.entryNumber : EntryAfter(b, k) = EventEntry(b, k)
    BY <2>3, <2>4 DEF SameEntries
  <2>6. "Event" = filling /\ b = column => EntryAfter(b, y.entryNumber + 1) = Leaf
    <3>1. y.entryNumber + 1 - 1 = y.entryNumber
      BY <2>3
    <3> QED  BY <2>3, <2>4, <3>1
  <2> QED  BY <2>1, <2>2, <2>3, <2>5, <2>6
<1> QED  BY <1>2, <1>3

\* The log of the fills after the step.
LEMMA FillsAfter ==
  ASSUME Shape, Control, NEW new, NEW ok, StepIs(new, ok)
  PROVE  /\ event' = event /\ rows' = rows /\ Extends(file, file')
         /\ IF ok /\ IsLast /\ filling = "Event"
            THEN /\ DOMAIN filled' = 1..Len(filled) + 1 /\ Len(filled') = Len(filled) + 1
                 /\ filled'[Len(filled) + 1] = Current
                 /\ filled' = Append(filled, Current)
            ELSE filled' = filled
         /\ failed' = IF ~ok /\ filling = "Event" THEN failed \cup {event} ELSE failed
         /\ DOMAIN filled = 1..Len(filled) /\ Len(filled) \in Nat
         /\ \A n \in 1..Len(filled) : n \in DOMAIN filled' /\ filled'[n] = filled[n]
         /\ ok /\ ~IsLast => filling' = filling /\ column' = column + 1
         /\ ~ok \/ IsLast => filling' = "none"
         /\ stage' # "written"
<1>1. /\ filling \in Trees /\ stage = "rows" /\ ok \in BOOLEAN
      /\ event' = event /\ rows' = rows /\ Extends(file, file')
      /\ ok /\ ~IsLast => column' = column + 1 /\ UNCHANGED <<filling, stage, filled, failed>>
      /\ ~ok \/ IsLast => Return(ok)
  BY DEF Control, StepIs, FillOutcome
<1>2. PICK longer : longer = Append(filled, Current)
  OBVIOUS
<1>3. /\ Len(filled) \in Nat /\ Len(longer) = Len(filled) + 1
      /\ DOMAIN filled = 1..Len(filled) /\ DOMAIN longer = 1..Len(filled) + 1
      /\ \A n \in 1..Len(filled) : longer[n] = filled[n]
      /\ longer[Len(filled) + 1] = Current
  BY <1>1, <1>2, FilledAppends
<1>4. \A n \in 1..Len(filled) : n \in DOMAIN longer
  BY <1>3
<1>5. CASE ok /\ ~IsLast
  BY <1>1, <1>3, <1>5
<1>6. CASE ~ok \/ IsLast
  <2>1. Return(ok)
    BY <1>1, <1>6
  <2>2. CASE ok /\ filling = "Event"
    <3>1. filled' = longer /\ failed' = failed /\ stage' = "idle" /\ filling' = "none"
      BY <1>2, <2>1, <2>2 DEF Return, Current
    <3> QED  BY <1>1, <1>2, <1>3, <1>4, <1>6, <2>2, <3>1
  <2>3. CASE ~ok /\ filling = "Event"
    <3>1. filled' = filled /\ failed' = failed \cup {event} /\ stage' = "idle" /\ filling' = "none"
      BY <2>1, <2>3 DEF Return
    <3> QED  BY <1>1, <1>3, <2>3, <3>1
  <2>4. CASE filling # "Event"
    <3>1. filled' = filled /\ failed' = failed /\ stage' = stage /\ filling' = "none"
      BY <2>1, <2>4 DEF Return
    <3> QED  BY <1>1, <1>3, <1>6, <2>4, <3>1
  <2> QED  BY <1>1, <2>2, <2>3, <2>4
<1> QED  BY <1>1, <1>5, <1>6

\* The last branch has taken its leaf: the entry is whole.
LEMMA LastColumn ==
  ASSUME Shape, Control, HitRows, EntriesInStep, NEW new, NEW ok, StepIs(new, ok),
         Sound(tree'["Event"]), failed = {}, filling = "Event", ok,
         NEW b \in 1..column
  PROVE  /\ tree'["Event"].branch[b].entryNumber = Len(filled) + 1
         /\ IsEntryOf(EntryAfter(b, Len(filled) + 1), b, Current, file')
<1>1. /\ column \in 1..3 /\ Extends(file, file') /\ Current.rows \in Nat
      /\ Len(filled) \in Nat
  <2>1. rows \in Nat
    BY WrootTreeAssumption DEF WrootTreeAssumption, Control
  <2> QED  BY <2>1, WidthIs, FillsAfter DEF Control, Current
<1>2. b \in 1..3 /\ (b = column \/ b < column)
  BY <1>1
<1> DEFINE n == tree["Event"].branch[b].entryNumber
<1>3. /\ n \in Nat
      /\ tree'["Event"].branch[b].entryNumber = IF b = column THEN n + 1 ELSE n
      /\ \A k \in 1..n : EntryAfter(b, k) = EventEntry(b, k)
      /\ b = column => EntryAfter(b, n + 1) = Leaf
      /\ ~LeafFails
  BY <1>2, EventEntriesAfterFill
<1>4. CASE b = column
  <2>1. n = Len(filled)
    BY <1>1, <1>4, WidthIs DEF EntriesInStep
  <2>2. EntryAfter(b, Len(filled) + 1) = Leaf
    BY <1>3, <1>4, <2>1
  <2>3. IsEntryOf(Leaf, b, Current, file)
    BY <1>3, <1>4, LeafIsCurrent
  <2>4. IsEntryOf(Leaf, b, Current, file')
    BY <1>1, <2>3, EntryOfGrown
  <2> QED  BY <1>3, <1>4, <2>1, <2>2, <2>4
<1>5. CASE b < column
  <2>1. n = Len(filled) + 1 /\ IsEntryOf(EventEntry(b, Len(filled) + 1), b, Current, file)
    BY <1>2, <1>5, WidthIs DEF EntriesInStep
  <2>2. PICK val : val = EventEntry(b, Len(filled) + 1)
    OBVIOUS
  <2>3. IsEntryOf(val, b, Current, file')
    BY <1>1, <2>1, <2>2, EntryOfGrown
  <2>4. EntryAfter(b, Len(filled) + 1) = val
    BY <1>1, <1>3, <2>1, <2>2
  <2>5. b # column
    BY <1>1, <1>5
  <2> QED  BY <1>3, <2>1, <2>3, <2>4, <2>5
<1> QED  BY <1>2, <1>4, <1>5

LEMMA FillGoodEntries ==
  ASSUME Shape, Control, HitRows, GoodEntriesHold, EntriesInStep,
         NEW new, NEW ok, StepIs(new, ok)
  PROVE  GoodEntriesHold'
<1> SUFFICES ASSUME Sound(tree'["Event"]), NEW n, n \in GoodEntries', NEW b \in 1..3
             PROVE  /\ n <= tree'["Event"].branch[b].entryNumber
                    /\ IsEntryOf(EntryAfter(b, n), b, filled'[n], file')
  BY WidthIs DEF GoodEntriesHold, EventEntry, EntryAfter
<1>1. n \in DOMAIN filled' /\ \A e \in failed' : filled'[n].event < e
  BY DEF GoodEntries
<1>2. /\ Extends(file, file')
      /\ IF ok /\ IsLast /\ filling = "Event"
         THEN /\ DOMAIN filled' = 1..Len(filled) + 1 /\ Len(filled') = Len(filled) + 1
              /\ filled'[Len(filled) + 1] = Current
         ELSE filled' = filled
      /\ failed' = IF ~ok /\ filling = "Event" THEN failed \cup {event} ELSE failed
      /\ DOMAIN filled = 1..Len(filled) /\ Len(filled) \in Nat
      /\ \A m \in 1..Len(filled) : m \in DOMAIN filled' /\ filled'[m] = filled[m]
      /\ failed \subseteq failed'
  BY FillsAfter
<1>3. CASE n \in 1..Len(filled)
  <2>1. n \in GoodEntries /\ filled'[n] = filled[n] /\ filled[n].rows \in Nat
    BY <1>1, <1>2, <1>3, WrootTreeAssumption DEF GoodEntries, Control, WrootTreeAssumption
  <2>2. PICK m : m = tree["Event"].branch[b].entryNumber
    OBVIOUS
  <2>3. /\ Sound(tree["Event"]) /\ m \in Nat
        /\ tree'["Event"].branch[b].entryNumber = m \/ tree'["Event"].branch[b].entryNumber = m + 1
        /\ \A k \in 1..m : EntryAfter(b, k) = EventEntry(b, k)
    BY <2>2, EventEntriesAfterFill
  <2>4. n <= m /\ IsEntryOf(EventEntry(b, n), b, filled[n], file)
    BY <2>1, <2>2, <2>3, WidthIs DEF GoodEntriesHold
  <2>5. PICK val : val = EventEntry(b, n)
    OBVIOUS
  <2>6. IsEntryOf(val, b, filled[n], file')
    BY <1>2, <2>1, <2>4, <2>5, EntryOfGrown
  <2>7. EntryAfter(b, n) = val
    BY <1>2, <1>3, <2>3, <2>4, <2>5
  <2> QED  BY <1>2, <1>3, <2>1, <2>3, <2>4, <2>6, <2>7
<1>4. CASE n \notin 1..Len(filled)
  <2>1. ok /\ IsLast /\ filling = "Event" /\ n = Len(filled) + 1 /\ filled'[n] = Current
    BY <1>1, <1>2, <1>4
  <2>2. failed = {}
    <3>1. \A e \in failed : event < e
      BY <1>1, <1>2, <2>1 DEF Current
    <3>2. failed \subseteq 1..event /\ event \in Nat
      BY WrootTreeAssumption DEF Control, WrootTreeAssumption
    <3> QED  BY <3>1, <3>2
  <2>3. b \in 1..column
    BY <2>1, WidthIs DEF IsLast
  <2>4. /\ tree'["Event"].branch[b].entryNumber = Len(filled) + 1
        /\ IsEntryOf(EntryAfter(b, Len(filled) + 1), b, Current, file')
    BY <2>1, <2>2, <2>3, LastColumn
  <2> QED  BY <1>2, <2>1, <2>4
<1> QED  BY <1>3, <1>4
LEMMA FillEntriesInStep ==
  ASSUME Shape, Control, Marks, Causes, HitRows, EntriesInStep,
         NEW new, NEW ok, StepIs(new, ok)
  PROVE  EntriesInStep'
<1> SUFFICES ASSUME failed' = {}
             PROVE  /\ tree'["Event"].entries = Len(filled')
                    /\ \A b \in 1..3 :
                         IF filling' = "Event" /\ b < column'
                         THEN /\ tree'["Event"].branch[b].entryNumber = Len(filled') + 1
                              /\ IsEntryOf(EntryAfter(b, Len(filled') + 1), b, Current', file')
                         ELSE tree'["Event"].branch[b].entryNumber = Len(filled')
  BY WidthIs DEF EntriesInStep, EventEntry, EntryAfter
<1>1. /\ failed = {} /\ (filling = "Event" => ok)
      /\ Current' = Current /\ Extends(file, file')
      /\ IF ok /\ IsLast /\ filling = "Event" THEN Len(filled') = Len(filled) + 1
         ELSE filled' = filled
      /\ Len(filled) \in Nat
      /\ ok /\ ~IsLast => filling' = filling /\ column' = column + 1
      /\ ~ok \/ IsLast => filling' = "none"
      /\ filling \in Trees /\ column \in 1..Width(filling)
  <2>1. filling \in Trees /\ column \in 1..Width(filling)
    BY DEF Control, StepIs
  <2>2. ok \in BOOLEAN
    BY DEF StepIs
  <2> QED  BY <2>1, <2>2, FillsAfter DEF Current
<1>2. Sound(tree'["Event"])
  <2>1. Causes'
    BY FillCauses
  <2> QED  BY <2>1 DEF Causes
<1>3. /\ tree["Event"].entries = Len(filled)
      /\ \A b \in 1..3 : ~(filling = "Event" /\ b < column) =>
           tree["Event"].branch[b].entryNumber = Len(filled)
  BY <1>1, WidthIs DEF EntriesInStep
<1>4. tree'["Event"].entries =
        IF ok /\ IsLast /\ "Event" = filling THEN tree["Event"].entries + 1
        ELSE tree["Event"].entries
  BY DEF StepIs, FillOutcome, Trees
<1>5. ASSUME NEW b \in 1..3, ~(filling = "Event" /\ b <= column)
      PROVE  tree'["Event"].branch[b].entryNumber = Len(filled)
  <2>1. ~(filling = "Event" /\ b < column) /\ ~(filling = "Event" /\ b = column)
    <3>1. filling = "Event" => column \in 1..3
      BY <1>1, WidthIs
    <3> QED  BY <1>5, <3>1
  <2> QED  BY <1>2, <1>3, <2>1, EventEntriesAfterFill
<1>6. CASE filling = "hit"
  <2>1. filling' # "Event"
    BY <1>1, <1>6 DEF StepIs
  <2>2. filled' = filled
    BY <1>1, <1>6
  <2> QED  BY <1>3, <1>4, <1>5, <1>6, <2>1, <2>2
<1>7. CASE filling = "Event"
  <2>1. column \in 1..3 /\ (IsLast <=> column = 3)
    BY <1>1, <1>7, WidthIs DEF IsLast
  <2>2. \A b \in 1..column :
          /\ tree'["Event"].branch[b].entryNumber = Len(filled) + 1
          /\ IsEntryOf(EntryAfter(b, Len(filled) + 1), b, Current, file')
    BY <1>1, <1>2, <1>7, LastColumn
  <2>3. CASE IsLast
    <3>1. filling' = "none" /\ Len(filled') = Len(filled) + 1
      BY <1>1, <1>7, <2>3
    <3>2. \A b \in 1..3 : tree'["Event"].branch[b].entryNumber = Len(filled')
      BY <2>1, <2>2, <2>3, <3>1
    <3> QED  BY <1>1, <1>3, <1>4, <1>7, <2>3, <3>1, <3>2
  <2>4. CASE ~IsLast
    <3>1. filling' = "Event" /\ filled' = filled /\ column' = column + 1
      BY <1>1, <1>7, <2>4
    <3>2. \A b \in 1..3 : b < column' => b \in 1..column
      BY <2>1, <3>1
    <3>3. \A b \in 1..3 : ~(b < column') =>
            tree'["Event"].branch[b].entryNumber = Len(filled)
      BY <1>5, <2>1, <3>1
    <3> QED  BY <1>1, <1>3, <1>4, <2>2, <2>4, <3>1, <3>2, <3>3
  <2> QED  BY <2>3, <2>4
<1> QED  BY <1>1, <1>6, <1>7 DEF Trees

LEMMA FillTreesAreWhole ==
  ASSUME Shape, Control, Marks, Causes, HitRows, TreesAreWhole,
         NEW new, NEW ok, StepIs(new, ok)
  PROVE  TreesAreWhole'
<1> SUFFICES ASSUME Sound(tree'["Event"]), NEW n \in 1..tree'["Event"].branch[2].entryNumber
             PROVE  \/ EntryAfter(2, n) = Partial
                    \/ \E m \in DOMAIN filled' :
                         IsEntryOf(EntryAfter(2, n), 2, filled'[m], file')
                    \/ /\ filling' = "Event" /\ column' = 3
                       /\ IsEntryOf(EntryAfter(2, n), 2, Current', file')
  BY DEF TreesAreWhole, EventEntry, EntryAfter
<1>1. /\ Current' = Current /\ Extends(file, file') /\ Current.rows \in Nat
      /\ IF ok /\ IsLast /\ filling = "Event"
         THEN /\ DOMAIN filled' = 1..Len(filled) + 1
              /\ filled'[Len(filled) + 1] = Current
         ELSE filled' = filled
      /\ DOMAIN filled = 1..Len(filled) /\ Len(filled) \in Nat
      /\ \A m \in 1..Len(filled) : m \in DOMAIN filled' /\ filled'[m] = filled[m]
      /\ ok /\ ~IsLast => filling' = filling /\ column' = column + 1
      /\ filling \in Trees /\ column \in 1..Width(filling) /\ ok \in BOOLEAN
      /\ \A m \in DOMAIN filled : filled[m].rows \in Nat
  <2>1. filling \in Trees /\ column \in 1..Width(filling) /\ ok \in BOOLEAN
    BY DEF Control, StepIs
  <2>2. rows \in Nat /\ \A m \in DOMAIN filled : filled[m].rows \in Nat
    BY WrootTreeAssumption DEF Control, WrootTreeAssumption
  <2> QED  BY <2>1, <2>2, FillsAfter DEF Current
<1>2. PICK k : k = tree["Event"].branch[2].entryNumber
  OBVIOUS
<1>3. /\ k \in Nat /\ Sound(tree["Event"])
      /\ filling = "Event" => (ok <=> ~LeafFails)
      /\ tree'["Event"].branch[2].entryNumber =
           IF filling = "Event" /\ 2 = column THEN k + 1 ELSE k
      /\ \A m \in 1..k : EntryAfter(2, m) = EventEntry(2, m)
      /\ filling = "Event" /\ 2 = column => EntryAfter(2, k + 1) = Leaf
  BY <1>2, EventEntriesAfterFill
<1>4. CASE n \in 1..k
  <2>1. PICK val : val = EventEntry(2, n)
    OBVIOUS
  <2>2. EntryAfter(2, n) = val
    BY <1>3, <1>4, <2>1
  <2>3. \/ val = Partial
        \/ \E m \in DOMAIN filled : IsEntryOf(val, 2, filled[m], file)
        \/ filling = "Event" /\ column = 3 /\ IsEntryOf(val, 2, Current, file)
    BY <1>2, <1>3, <1>4, <2>1 DEF TreesAreWhole
  <2>4. ASSUME NEW m \in DOMAIN filled, IsEntryOf(val, 2, filled[m], file)
        PROVE  \E j \in DOMAIN filled' : IsEntryOf(val, 2, filled'[j], file')
    <3>1. m \in DOMAIN filled' /\ filled'[m] = filled[m] /\ filled[m].rows \in Nat
      BY <1>1
    <3>2. IsEntryOf(val, 2, filled[m], file')
      BY <1>1, <2>4, <3>1, EntryOfGrown
    <3> QED  BY <3>1, <3>2
  <2>5. ASSUME filling = "Event", column = 3, IsEntryOf(val, 2, Current, file)
        PROVE  \E j \in DOMAIN filled' : IsEntryOf(val, 2, filled'[j], file')
    <3>1. IsEntryOf(val, 2, Current, file')
      BY <1>1, <2>5, EntryOfGrown
    <3>2. ~LeafFails
      BY <2>5, LeafFailure
    <3>3. ok /\ IsLast
      BY <1>3, <2>5, <3>2, WidthIs DEF IsLast
    <3>4. Len(filled) + 1 \in DOMAIN filled' /\ filled'[Len(filled) + 1] = Current
      BY <1>1, <2>5, <3>3
    <3> QED  BY <3>1, <3>4
  <2> QED  BY <2>2, <2>3, <2>4, <2>5
<1>5. CASE n \notin 1..k
  <2>1. filling = "Event" /\ column = 2 /\ n = k + 1 /\ EntryAfter(2, n) = Leaf
    BY <1>3, <1>5
  <2>2. CASE LeafFails
    BY <2>1, <2>2, LeafFailure
  <2>3. CASE ~LeafFails
    <3>1. IsEntryOf(Leaf, 2, Current, file)
      BY <2>1, <2>3, LeafIsCurrent
    <3>2. IsEntryOf(Leaf, 2, Current, file')
      BY <1>1, <3>1, EntryOfGrown
    <3>3. ok /\ ~IsLast
      BY <1>3, <2>1, <2>3, WidthIs DEF IsLast
    <3>4. filling' = "Event" /\ column' = 3
      BY <1>1, <2>1, <3>3
    <3> QED  BY <1>1, <2>1, <3>2, <3>4
  <2> QED  BY <2>2, <2>3
<1> QED  BY <1>4, <1>5

LEMMA StepOfFill ==
  ASSUME Shape, Control, Causes, FillStep
  PROVE  \E new, ok : StepIs(new, ok)
<1>1. PICK new, ok :
        /\ ok \in BOOLEAN /\ FillOutcome(new, ok)
        /\ \/ (ok <=> ~LeafFails) /\ Takes(tree[filling].branch[column], new)
           \/ ok = FALSE /\ ~LeafFails /\ Breaks(tree[filling].branch[column], new)
  BY FillStepIs
<1>2. filling # "none"
  BY DEF FillStep
<1> QED  BY <1>1, <1>2 DEF StepIs

LEMMA FillInv ==
  ASSUME Inv, FillStep
  PROVE  Inv'
<1>1. /\ Shape /\ Control /\ Marks /\ Causes
      /\ HitRows /\ GoodEntriesHold /\ EntriesInStep /\ TreesAreWhole
  BY DEF Inv
<1>2. PICK new, ok : StepIs(new, ok)
  BY <1>1, StepOfFill
<1>3. Shape' /\ Control' /\ Marks' /\ Causes'
  BY <1>1, <1>2, FillShape, FillControl, FillMarks, FillCauses
<1>4. HitRows' /\ GoodEntriesHold' /\ EntriesInStep' /\ TreesAreWhole'
  BY <1>1, <1>2, FillHitRows, FillGoodEntries, FillEntriesInStep, FillTreesAreWhole
<1>5. ImageIsTree'
  <2>1. stage' # "written"
    BY <1>1, <1>2, FillsAfter
  <2> QED  BY <2>1 DEF ImageIsTree
<1> QED  BY <1>3, <1>4, <1>5 DEF Inv
-----------------------------------------------------------------------------
(***************************************************************************)
(* The other steps keep it, and it holds at first.                         *)
(***************************************************************************)
\* A branch that was just made.
LEMMA NewBranchIs ==
  ASSUME NEW fl
  PROVE  /\ IsBranch(NewBranch) /\ IsImage(NewBranch, fl) /\ NewBranch.entryNumber = 0
         /\ NewBranch.open.tables = TRUE /\ NewBranch.open.last = 0
         /\ NewBranch.open.seekKey = NoSeek
<1>1. /\ DOMAIN NewBasket = BasketFields /\ NewBasket.data = <<>> /\ NewBasket.offset = <<>>
      /\ NewBasket.tables = TRUE /\ NewBasket.nev = 0 /\ NewBasket.last = 0
      /\ NewBasket.seekKey = NoSeek /\ NewBasket.room = InitialOffsets
  BY DEF NewBasket, BasketFields
<1>2. /\ DOMAIN NewBranch = BranchFields /\ NewBranch.writeBasket = 0
      /\ NewBranch.entryNumber = 0 /\ NewBranch.maxBaskets = InitialBaskets
      /\ NewBranch.basketEntry = [i \in 0..InitialBaskets - 1 |-> 0]
      /\ NewBranch.basketSeek = [i \in 0..InitialBaskets - 1 |-> NoSeek]
      /\ NewBranch.open = NewBasket
  BY DEF NewBranch, BranchFields
<1>3. /\ InitialBaskets \in Nat /\ InitialBaskets > 1
      /\ InitialOffsets \in Nat /\ InitialOffsets > 1
  BY WrootBranchAssumption DEF WrootBranchAssumption
<1>4. Readable(NewBasket)
  BY <1>1, EmptyIsSequence DEF Readable
<1>5. IsBranch(NewBranch)
  <2>1. /\ \A i \in 0..NewBranch.maxBaskets - 1 :
             NewBranch.basketSeek[i] # NoSeek <=> i < NewBranch.writeBasket
        /\ DOMAIN NewBranch.basketEntry = 0..NewBranch.maxBaskets - 1
        /\ DOMAIN NewBranch.basketSeek = 0..NewBranch.maxBaskets - 1
    BY <1>2, <1>3
  <2>2. /\ NewBranch.open.nev \in Nat /\ NewBranch.open.room \in Nat
        /\ NewBranch.open.last \in Nat /\ NewBranch.open.nev + 1 <= NewBranch.open.room
    BY <1>1, <1>2, <1>3
  <2>3. NewBranch.open.tables = TRUE /\ NewBranch.open.seekKey = NoSeek
    BY <1>1, <1>2
  <2>4. /\ NewBranch.maxBaskets \in Nat /\ NewBranch.maxBaskets > 1
        /\ NewBranch.writeBasket \in 0..NewBranch.maxBaskets - 1
        /\ NewBranch.entryNumber \in Nat
        /\ DOMAIN NewBranch = BranchFields /\ DOMAIN NewBranch.open = BasketFields
    BY <1>1, <1>2, <1>3
  <2> QED  BY <2>1, <2>2, <2>3, <2>4 DEF IsBranch
<1>6. IsImage(NewBranch, fl)
  <2>1. NewBranch.basketEntry[0] = 0
    BY <1>2, <1>3
  <2>2. \A i \in 0..NewBranch.writeBasket : i = 0
    BY <1>2
  <2>3. /\ \A n \in 0..NewBranch.entryNumber - 1 :
             \E i \in 0..NewBranch.writeBasket : InWindow(NewBranch, i, n)
        /\ 0..NewBranch.writeBasket - 1 = {}
    BY <1>2
  <2>4. NewBranch.basketEntry[NewBranch.writeBasket] + NewBranch.open.nev
          = NewBranch.entryNumber
    BY <1>1, <1>2, <2>1
  <2> QED  BY <1>2, <1>4, <2>1, <2>2, <2>3, <2>4 DEF IsImage
<1> QED  BY <1>1, <1>2, <1>5, <1>6

LEMMA NewTreeIs ==
  ASSUME NEW t \in Trees
  PROVE  /\ DOMAIN NewTree(t) = TreeFields /\ NewTree(t).entries = 0
         /\ DOMAIN NewTree(t).branch = 1..Width(t)
         /\ \A b \in 1..Width(t) : NewTree(t).branch[b] = NewBranch
BY DEF NewTree, TreeFields, Width

LEMMA InitInv == Init => Inv
<1> SUFFICES ASSUME Init
             PROVE  Inv
  OBVIOUS
<1>1. /\ DOMAIN tree = Trees /\ \A t \in Trees : tree[t] = NewTree(t)
      /\ file = <<>> /\ stage = "idle" /\ filling = "none" /\ column = 1
      /\ event = 0 /\ rows = 0 /\ filled = <<>> /\ failed = {} /\ errors = 0
  BY DEF Init, Trees
<1>2. \A t \in Trees :
        /\ DOMAIN tree[t] = TreeFields /\ tree[t].entries = 0
        /\ DOMAIN tree[t].branch = 1..Width(t)
        /\ \A b \in 1..Width(t) : tree[t].branch[b] = NewBranch
  BY <1>1, NewTreeIs
<1>3. /\ IsSequence(file) /\ Len(file) = 0 /\ IsSequence(filled) /\ Len(filled) = 0
      /\ DOMAIN filled = {} /\ Cardinality(failed) = 0
  BY <1>1, EmptyIsSequence, FS_EmptySet
<1>4. Shape
  <2>1. /\ IsBranch(NewBranch) /\ IsImage(NewBranch, file)
        /\ NewBranch.open.seekKey = NoSeek
    BY NewBranchIs
  <2>2. NewBranch.open.seekKey \in 0..Len(file)
    BY <1>3, <2>1 DEF NoSeek
  <2> QED  BY <1>1, <1>2, <2>1, <2>2 DEF Shape
<1>5. Control
  BY <1>1, <1>3, WrootTreeAssumption DEF Control, WrootTreeAssumption
<1>6. "Event" \in Trees /\ "hit" \in Trees
  BY DEF Trees
<1>7. Marks
  BY <1>1, <1>2, <1>6, NewBranchIs DEF Marks
<1>8. \A t \in Trees : Sound(tree[t])
  BY <1>2, NewBranchIs DEF Sound
<1>9. Causes
  BY <1>1, <1>6, <1>8 DEF Causes
<1>10. HitRows /\ ImageIsTree
  BY <1>1 DEF HitRows, ImageIsTree
<1>11. GoodEntriesHold
  BY <1>3 DEF GoodEntriesHold, GoodEntries
<1>12. \A b \in 1..3 : tree["Event"].branch[b].entryNumber = 0
  BY <1>2, <1>6, NewBranchIs, WidthIs
<1>13. EntriesInStep
  BY <1>1, <1>2, <1>3, <1>6, <1>12, WidthIs DEF EntriesInStep
<1>14. TreesAreWhole
  <2>1. 1..tree["Event"].branch[2].entryNumber = {}
    BY <1>12
  <2> QED  BY <2>1 DEF TreesAreWhole
<1> QED  BY <1>4, <1>5, <1>7, <1>9, <1>10, <1>11, <1>13, <1>14 DEF Inv

\* A step that leaves the Event tree alone.
LEMMA QuietStep ==
  ASSUME Inv, UNCHANGED <<file, filled, failed>>, tree'["Event"] = tree["Event"],
         filling # "Event", filling' = "Event" => column' = 1, stage' # "written"
  PROVE  GoodEntriesHold' /\ EntriesInStep' /\ TreesAreWhole' /\ ImageIsTree'
<1>1. GoodEntriesHold /\ EntriesInStep /\ TreesAreWhole
  BY DEF Inv
<1>2. \A b, n : EventEntry(b, n)' = EventEntry(b, n)
  BY DEF EventEntry
<1>3. GoodEntriesHold'
  BY <1>1 DEF GoodEntriesHold, GoodEntries, EventEntry
<1>4. EntriesInStep'
  <2>1. \A b \in 1..3 : ~(filling' = "Event" /\ b < column')
    OBVIOUS
  <2>2. \A b \in 1..3 : failed = {} => tree["Event"].branch[b].entryNumber = Len(filled)
    BY <1>1, WidthIs DEF EntriesInStep
  <2>3. failed = {} => tree["Event"].entries = Len(filled)
    BY <1>1 DEF EntriesInStep
  <2> QED  BY <2>1, <2>2, <2>3, WidthIs DEF EntriesInStep
<1>5. TreesAreWhole'
  BY <1>1 DEF TreesAreWhole, EventEntry
<1>6. ImageIsTree'
  BY DEF ImageIsTree
<1> QED  BY <1>3, <1>4, <1>5, <1>6

LEMMA BeginInv ==
  ASSUME Inv, BeginEvent
  PROVE  Inv'
<1>1. /\ Shape /\ Control /\ Marks /\ Causes
  BY DEF Inv
<1>2. /\ stage = "idle" /\ event < MaxEvents
      /\ event' = event + 1 /\ rows' = 0 /\ stage' = "rows"
      /\ tree' = [tree EXCEPT !["hit"] = NewTree("hit")]
      /\ UNCHANGED <<file, filling, column, filled, failed, image, errors>>
  BY DEF BeginEvent, ResetTree
<1>3. filling = "none" /\ column = 1
  BY <1>1, <1>2 DEF Control
<1>4. /\ "hit" \in Trees /\ "Event" \in Trees /\ DOMAIN tree' = Trees
      /\ tree'["Event"] = tree["Event"] /\ tree'["hit"] = NewTree("hit")
  BY <1>1, <1>2 DEF Shape, Trees
<1>5. /\ DOMAIN tree'["hit"] = TreeFields /\ tree'["hit"].entries = 0
      /\ DOMAIN tree'["hit"].branch = 1..Width("hit")
      /\ \A b \in 1..Width("hit") :
           /\ IsBranch(tree'["hit"].branch[b]) /\ IsImage(tree'["hit"].branch[b], file)
           /\ tree'["hit"].branch[b].entryNumber = 0
           /\ tree'["hit"].branch[b].open.tables = TRUE
           /\ tree'["hit"].branch[b].open.last = 0
           /\ tree'["hit"].branch[b].open.seekKey = NoSeek
  BY <1>4, NewTreeIs, NewBranchIs
<1>6. Shape'
  <2>1. Len(file) \in Nat
    BY <1>1, AppendAny DEF Control
  <2>2. ASSUME NEW t \in Trees
        PROVE  /\ DOMAIN tree'[t] = TreeFields
               /\ tree'[t].entries \in Nat
               /\ DOMAIN tree'[t].branch = 1..Width(t)
               /\ \A b \in 1..Width(t) :
                    /\ IsBranch(tree'[t].branch[b])
                    /\ tree'[t].branch[b].open.seekKey \in 0..Len(file')
                    /\ tree'[t].branch[b].open.tables => IsImage(tree'[t].branch[b], file')
    <3>1. CASE t = "hit"
      BY <1>2, <1>5, <2>1, <3>1 DEF NoSeek
    <3>2. CASE t = "Event"
      BY <1>1, <1>2, <1>4, <3>2 DEF Shape
    <3> QED  BY <3>1, <3>2 DEF Trees
  <2> QED  BY <1>4, <2>2 DEF Shape
<1>7. Control'
  <2>1. event \in Nat /\ MaxEvents \in Nat /\ event' \in 1..MaxEvents /\ event' \in 0..MaxEvents
    BY <1>1, <1>2, WrootTreeAssumption DEF Control, WrootTreeAssumption
  <2>2. 0 \in 0..MaxRows
    BY WrootTreeAssumption DEF WrootTreeAssumption
  <2>3. failed' \subseteq 1..event' /\ event' \notin failed'
    BY <1>1, <1>2, <2>1 DEF Control
  <2>4. \A n \in DOMAIN filled' :
          /\ filled'[n].event \in 1..event' /\ filled'[n].event # event'
          /\ filled'[n].rows \in 0..MaxRows /\ filled'[n] \in ContentsSet
    BY <1>1, <1>2, <2>1 DEF Control
  <2>5. Len(filled') + Cardinality(failed') < event'
    <3>1. Len(filled) \in Nat
      BY <1>1, AppendAny DEF Control
    <3>2. Cardinality(failed) \in Nat
      <4>1. failed \subseteq 1..event
        BY <1>1 DEF Control
      <4>2. IsFiniteSet(1..event)
        BY <2>1, FS_Interval
      <4> QED  BY <4>1, <4>2, FS_Subset, FS_CardinalityType
    <3> QED  BY <1>1, <1>2, <2>1, <3>1, <3>2 DEF Control
  <2>6. /\ IsSequence(file') /\ IsSequence(filled') /\ errors' \in 0..MaxWriteErrors
        /\ filling' = "none" /\ column' = 1 /\ stage' = "rows" /\ rows' = 0
    BY <1>1, <1>2, <1>3 DEF Control
  <2>7. Len(filled') + Cardinality(failed') <= event'
    <3>1. Len(filled') \in Nat
      BY <2>6, AppendAny
    <3>2. Cardinality(failed') \in Nat
      <4>1. IsFiniteSet(1..event')
        BY <2>1, FS_Interval
      <4> QED  BY <2>3, <4>1, FS_Subset, FS_CardinalityType
    <3> QED  BY <2>1, <2>5, <3>1, <3>2
  <2> QED  BY <2>1, <2>2, <2>3, <2>4, <2>5, <2>6, <2>7 DEF Control
<1>8. Marks'
  BY <1>1, <1>2, <1>4, <1>5 DEF Marks
<1>9. Causes'
  <2>1. Sound(tree'["hit"])
    BY <1>5 DEF Sound
  <2>2. /\ Sound(tree["Event"]) \/ errors > 0
        /\ Sound(tree["Event"]) \/ failed # {}
    BY <1>1, <1>4 DEF Causes
  <2>3. \A t \in Trees : Sound(tree'[t]) \/ errors' > 0
    BY <1>2, <1>4, <2>1, <2>2 DEF Trees
  <2> QED  BY <1>1, <1>2, <1>4, <2>2, <2>3 DEF Causes
<1>10. HitRows'
  BY <1>2, <1>3, <1>5, WidthIs DEF HitRows
<1> QED  BY <1>2, <1>3, <1>4, <1>6, <1>7, <1>8, <1>9, <1>10, QuietStep DEF Inv

LEMMA StartInv ==
  ASSUME Inv, FillHit \/ FillEvent
  PROVE  Inv'
<1>1. /\ Shape /\ Control /\ Marks /\ Causes /\ HitRows
  BY DEF Inv
<1>2. /\ stage = "rows" /\ filling = "none" /\ column' = 1
      /\ UNCHANGED <<tree, file, stage, event, filled, failed, image, errors>>
      /\ \/ rows < MaxRows /\ filling' = "hit" /\ rows' = rows + 1
         \/ filling' = "Event" /\ rows' = rows
  BY DEF FillHit, FillEvent
<1>3. rows \in Nat /\ MaxRows \in Nat /\ rows' \in 0..MaxRows
  BY <1>1, <1>2, WrootTreeAssumption DEF Control, WrootTreeAssumption
<1>4. Shape'
  BY <1>1, <1>2 DEF Shape
<1>5. Control'
  BY <1>1, <1>2, <1>3, WidthIs DEF Control, Trees
<1>6. Marks'
  BY <1>1, <1>2 DEF Marks
<1>7. Causes'
  BY <1>1, <1>2 DEF Causes
<1>8. HitRows'
  <2>1. Sound(tree["hit"]) =>
          /\ tree["hit"].entries = rows
          /\ \A b \in 1..2 :
               /\ tree["hit"].branch[b].entryNumber = rows
               /\ \A r \in 1..tree["hit"].branch[b].entryNumber :
                    EntryOf(tree["hit"].branch[b], file, r - 1) = <<"row", event, r>>
    BY <1>1, <1>2, WidthIs DEF HitRows
  <2>2. \A b \in 1..2 : b >= column'
    BY <1>2
  <2>3. CASE filling' = "hit" /\ rows' = rows + 1
    <3>1. rows' - 1 = rows
      BY <1>3, <2>3
    <3> QED  BY <1>2, <2>1, <2>2, <2>3, <3>1, WidthIs DEF HitRows
  <2>4. CASE filling' = "Event" /\ rows' = rows
    BY <1>2, <2>1, <2>4, WidthIs DEF HitRows
  <2> QED  BY <1>2, <2>3, <2>4
<1>9. filling # "Event" /\ stage' # "written" /\ tree'["Event"] = tree["Event"]
  BY <1>2
<1> QED  BY <1>2, <1>4, <1>5, <1>6, <1>7, <1>8, <1>9, QuietStep DEF Inv
\* The record of a basket that streaming marked is the basket's.
LEMMA MarkedImage ==
  ASSUME NEW br, NEW x, IsMarked(br, x)
  PROVE  BranchImage(x) = BranchImage(br)
<1>1. Record(x.open) = Record(br.open)
  BY DEF IsMarked, ReadsAs, Record
<1> QED  BY <1>1 DEF IsMarked, ReadsAs, BranchImage

WrittenBranch(old, new) ==
  /\ IsBranch(old) /\ IsBranch(new) /\ IsMarked(old, new)
  /\ new.open.tables = old.open.tables /\ new.open.seekKey = old.open.seekKey
  /\ new.entryNumber = old.entryNumber
  /\ old.open.tables => IsImage(new, file) /\ SameEntries(old, file, new, file)

\* The Event tree once it was streamed: its baskets are marked, its entries
\* are what they were.
LEMMA WrittenTree ==
  ASSUME Shape, Control, WriteTree
  PROVE  /\ DOMAIN tree' = Trees /\ tree'["hit"] = tree["hit"]
         /\ DOMAIN tree'["Event"] = TreeFields
         /\ tree'["Event"].entries = tree["Event"].entries
         /\ DOMAIN tree'["Event"].branch = 1..3
         /\ Sound(tree'["Event"]) <=> Sound(tree["Event"])
         /\ \A b \in 1..3 : WrittenBranch(tree["Event"].branch[b], tree'["Event"].branch[b])
<1>1. /\ tree' = [tree EXCEPT !["Event"] = StreamedTree(tree["Event"])] /\ file' = file
  BY DEF WriteTree
<1>2. /\ "hit" \in Trees /\ "Event" \in Trees /\ DOMAIN tree' = Trees
      /\ tree'["hit"] = tree["hit"] /\ tree'["Event"] = StreamedTree(tree["Event"])
      /\ DOMAIN tree["Event"] = TreeFields /\ DOMAIN tree["Event"].branch = 1..3
  BY <1>1, WidthIs DEF Shape, Trees
<1>3. \A b \in 1..3 :
        /\ IsBranch(tree["Event"].branch[b])
        /\ tree["Event"].branch[b].open.tables => IsImage(tree["Event"].branch[b], file)
  BY <1>2, WidthIs DEF Shape
<1>4. /\ DOMAIN tree'["Event"] = TreeFields /\ tree'["Event"].entries = tree["Event"].entries
      /\ DOMAIN tree'["Event"].branch = 1..3
      /\ \A b \in 1..3 : IsMarked(tree["Event"].branch[b], tree'["Event"].branch[b])
  <2>1. PICK s : s = StreamedTree(tree["Event"])
    OBVIOUS
  <2>2. PICK t : t = tree["Event"]
    OBVIOUS
  <2>3. /\ DOMAIN s = TreeFields /\ s.entries = t.entries /\ DOMAIN s.branch = 1..3
        /\ \A b \in 1..3 : IsMarked(t.branch[b], s.branch[b])
    <3>1. DOMAIN t = TreeFields /\ DOMAIN t.branch = 1..3
      BY <1>2, <2>2
    <3>2. \A b \in 1..3 : /\ IsBranch(t.branch[b])
                          /\ t.branch[b].open.tables => IsImage(t.branch[b], file)
      BY <1>3, <2>2
    <3>3. s = StreamedTree(t)
      BY <2>1, <2>2
    <3> QED  BY <3>1, <3>2, <3>3, StreamedTreeIsMarked
  <2>4. s = tree'["Event"]
    BY <1>2, <2>1
  <2> QED  BY <2>2, <2>3, <2>4
<1>5. ASSUME NEW b \in 1..3
      PROVE  WrittenBranch(tree["Event"].branch[b], tree'["Event"].branch[b])
  <2>1. PICK y : y = tree["Event"].branch[b]
    OBVIOUS
  <2>2. PICK x : x = tree'["Event"].branch[b]
    OBVIOUS
  <2>3. IsBranch(y) /\ (y.open.tables => IsImage(y, file)) /\ IsMarked(y, x)
    BY <1>3, <1>4, <2>1, <2>2
  <2>4. /\ IsBranch(x) /\ ReadsAs(y, x) /\ x.open.tables = y.open.tables
        /\ x.open.seekKey = y.open.seekKey /\ x.entryNumber = y.entryNumber
    BY <2>3, MarkedIsBranch DEF IsMarked, ReadsAs
  <2>5. y.open.tables => IsImage(x, file) /\ SameEntries(y, file, x, file)
    BY <2>3, <2>4, SameReading
  <2> QED  BY <2>1, <2>2, <2>3, <2>4, <2>5 DEF WrittenBranch
<1>6. Sound(tree'["Event"]) <=> Sound(tree["Event"])
  BY <1>2, <1>4, <1>5 DEF Sound, WrittenBranch
<1> QED  BY <1>2, <1>4, <1>5, <1>6

LEMMA WrittenEntries ==
  ASSUME Shape, Control, WriteTree, Sound(tree["Event"]), NEW b \in 1..3,
         NEW n \in 1..tree["Event"].branch[b].entryNumber
  PROVE  EntryAfter(b, n) = EventEntry(b, n)
<1>1. PICK y : y = tree["Event"].branch[b]
  OBVIOUS
<1>2. PICK x : x = tree'["Event"].branch[b]
  OBVIOUS
<1>3. WrittenBranch(y, x)
  BY <1>1, <1>2, WrittenTree
<1>4. y.open.tables
  BY <1>1, WidthIs DEF Shape, Sound, Trees
<1>5. SameEntries(y, file, x, file) /\ y.entryNumber \in Nat
  BY <1>3, <1>4 DEF WrittenBranch, IsBranch
<1>6. n - 1 \in 0..y.entryNumber - 1
  BY <1>1, <1>5
<1>7. file' = file
  BY DEF WriteTree
<1> QED  BY <1>1, <1>2, <1>5, <1>6, <1>7 DEF SameEntries, EntryAfter, EventEntry

LEMMA WriteInv ==
  ASSUME Inv, WriteTree
  PROVE  Inv'
<1>1. /\ Shape /\ Control /\ Marks /\ Causes
      /\ GoodEntriesHold /\ EntriesInStep /\ TreesAreWhole
  BY DEF Inv
<1>2. /\ stage = "idle"
      /\ IF TreeStreams(tree["Event"])
         THEN stage' = "written" /\ image' = TreeImage(tree["Event"])
         ELSE stage' = "lost" /\ image' = image
      /\ tree' = [tree EXCEPT !["Event"] = StreamedTree(tree["Event"])]
      /\ UNCHANGED <<file, filling, column, event, rows, filled, failed, errors>>
  BY DEF WriteTree
<1>3. filling = "none" /\ column = 1 /\ stage' \in {"written", "lost"}
  BY <1>1, <1>2 DEF Control
<1>4. /\ "hit" \in Trees /\ "Event" \in Trees /\ DOMAIN tree' = Trees
      /\ tree'["hit"] = tree["hit"] /\ tree'["Event"] = StreamedTree(tree["Event"])
      /\ DOMAIN tree["Event"] = TreeFields /\ DOMAIN tree["Event"].branch = 1..3
      /\ DOMAIN tree["hit"].branch = 1..Width("hit")
  BY <1>1, <1>2, WidthIs DEF Shape, Trees
<1>5. \A b \in 1..3 :
        /\ IsBranch(tree["Event"].branch[b])
        /\ tree["Event"].branch[b].open.tables => IsImage(tree["Event"].branch[b], file)
  BY <1>1, <1>4, WidthIs DEF Shape
<1>6. /\ DOMAIN tree'["Event"] = TreeFields /\ tree'["Event"].entries = tree["Event"].entries
      /\ DOMAIN tree'["Event"].branch = 1..3
      /\ \A b \in 1..3 : IsMarked(tree["Event"].branch[b], tree'["Event"].branch[b])
  BY <1>1, WrittenTree DEF WrittenBranch
<1>7. ASSUME NEW b \in 1..3
      PROVE  /\ IsBranch(tree'["Event"].branch[b])
             /\ tree'["Event"].branch[b].open.tables = tree["Event"].branch[b].open.tables
             /\ tree'["Event"].branch[b].open.seekKey = tree["Event"].branch[b].open.seekKey
             /\ tree'["Event"].branch[b].entryNumber = tree["Event"].branch[b].entryNumber
             /\ tree["Event"].branch[b].open.tables =>
                  /\ IsImage(tree'["Event"].branch[b], file)
                  /\ SameEntries(tree["Event"].branch[b], file, tree'["Event"].branch[b], file)
  <2>1. PICK y : y = tree["Event"].branch[b]
    OBVIOUS
  <2>2. PICK x : x = tree'["Event"].branch[b]
    OBVIOUS
  <2>3. WrittenBranch(y, x)
    BY <1>1, <2>1, <2>2, WrittenTree
  <2> QED  BY <2>1, <2>2, <2>3 DEF WrittenBranch
<1>8. Shape'
  <2>1. ASSUME NEW t \in Trees
        PROVE  /\ DOMAIN tree'[t] = TreeFields
               /\ tree'[t].entries \in Nat
               /\ DOMAIN tree'[t].branch = 1..Width(t)
               /\ \A b \in 1..Width(t) :
                    /\ IsBranch(tree'[t].branch[b])
                    /\ tree'[t].branch[b].open.seekKey \in 0..Len(file')
                    /\ tree'[t].branch[b].open.tables => IsImage(tree'[t].branch[b], file')
    <3>1. CASE t = "hit"
      BY <1>1, <1>2, <1>4, <3>1 DEF Shape
    <3>2. CASE t = "Event"
      <4>1. /\ tree["Event"].entries \in Nat
            /\ \A b \in 1..3 : tree["Event"].branch[b].open.seekKey \in 0..Len(file)
        BY <1>1, <1>4, WidthIs DEF Shape
      <4>2. \A b \in 1..3 :
              /\ IsBranch(tree'["Event"].branch[b])
              /\ tree'["Event"].branch[b].open.seekKey \in 0..Len(file)
              /\ tree'["Event"].branch[b].open.tables => IsImage(tree'["Event"].branch[b], file)
        BY <1>7, <4>1
      <4> QED  BY <1>2, <1>6, <3>2, <4>1, <4>2, WidthIs
    <3> QED  BY <3>1, <3>2 DEF Trees
  <2> QED  BY <1>4, <2>1 DEF Shape
<1>9. Control'
  BY <1>1, <1>2, <1>3 DEF Control, Trees
<1>10. Marks'
  BY <1>3 DEF Marks
<1>11. Sound(tree'["Event"]) <=> Sound(tree["Event"])
  BY <1>1, WrittenTree
<1>12. Causes'
  <2>1. ASSUME ~TreeStreams(tree["Event"])
        PROVE  ~Sound(tree["Event"])
    <3>1. PICK b \in 1..3 : ~CanStream(tree["Event"].branch[b].open)
      BY <1>4, <2>1 DEF TreeStreams
    <3>2. tree["Event"].branch[b].open.tables => tree["Event"].branch[b].open.last = 0
      BY <1>1, <1>2, WidthIs DEF Marks
    <3>3. ~tree["Event"].branch[b].open.tables
      BY <1>5, <3>1, <3>2 DEF CanStream, IsBranch
    <3> QED  BY <1>4, <3>3 DEF Sound
  <2>2. stage' = "lost" => failed' # {}
    BY <1>1, <1>2, <2>1 DEF Causes
  <2>3. ASSUME NEW t \in Trees
        PROVE  Sound(tree'[t]) \/ errors' > 0
    <3>1. Sound(tree'[t]) <=> Sound(tree[t])
      BY <1>4, <1>11 DEF Trees
    <3> QED  BY <1>1, <1>2, <3>1 DEF Causes
  <2> QED  BY <1>1, <1>2, <1>11, <2>2, <2>3 DEF Causes
<1>13. HitRows'
  BY <1>3 DEF HitRows
<1>14. ASSUME Sound(tree["Event"]), NEW b \in 1..3,
              NEW n \in 1..tree["Event"].branch[b].entryNumber
       PROVE  EntryAfter(b, n) = EventEntry(b, n)
  BY <1>1, <1>14, WrittenEntries
<1>15. GoodEntriesHold'
  <2> SUFFICES ASSUME Sound(tree'["Event"]), NEW n \in GoodEntries, NEW b \in 1..3
               PROVE  /\ n <= tree'["Event"].branch[b].entryNumber
                      /\ IsEntryOf(EntryAfter(b, n), b, filled[n], file)
    BY <1>2, WidthIs DEF GoodEntriesHold, GoodEntries, EventEntry, EntryAfter
  <2>1. /\ n <= tree["Event"].branch[b].entryNumber
        /\ IsEntryOf(EventEntry(b, n), b, filled[n], file)
    BY <1>1, <1>11, WidthIs DEF GoodEntriesHold
  <2>2. n \in 1..tree["Event"].branch[b].entryNumber
    <3>1. DOMAIN filled = 1..Len(filled)
      BY <1>1, AppendAny DEF Control
    <3>2. tree["Event"].branch[b].entryNumber \in Nat
      BY <1>5 DEF IsBranch
    <3> QED  BY <2>1, <3>1, <3>2 DEF GoodEntries
  <2> QED  BY <1>7, <1>11, <1>14, <2>1, <2>2
<1>16. EntriesInStep'
  <2>1. failed = {} =>
          /\ tree["Event"].entries = Len(filled)
          /\ \A b \in 1..3 : tree["Event"].branch[b].entryNumber = Len(filled)
    BY <1>1, <1>3, WidthIs DEF EntriesInStep
  <2> QED  BY <1>2, <1>3, <1>6, <1>7, <2>1, WidthIs DEF EntriesInStep
<1>17. TreesAreWhole'
  <2> SUFFICES ASSUME Sound(tree'["Event"]), NEW n \in 1..tree'["Event"].branch[2].entryNumber
               PROVE  \/ EntryAfter(2, n) = Partial
                      \/ \E m \in DOMAIN filled : IsEntryOf(EntryAfter(2, n), 2, filled[m], file)
    BY <1>2 DEF TreesAreWhole, EventEntry, EntryAfter
  <2>1. n \in 1..tree["Event"].branch[2].entryNumber
    BY <1>7
  <2>2. EntryAfter(2, n) = EventEntry(2, n)
    BY <1>11, <1>14, <2>1
  <2> QED  BY <1>1, <1>3, <1>11, <2>1, <2>2 DEF TreesAreWhole
<1>18. ImageIsTree'
  <2> SUFFICES ASSUME stage' = "written"
               PROVE  /\ Sound(tree'["Event"]) /\ image'.entries = tree'["Event"].entries
                      /\ DOMAIN image'.branch = 1..3
                      /\ \A b \in 1..3 : image'.branch[b] = BranchImage(tree'["Event"].branch[b])
    BY WidthIs DEF ImageIsTree
  <2>1. TreeStreams(tree["Event"]) /\ image' = TreeImage(tree["Event"])
    BY <1>2
  <2>2. PICK img : img = image'
    OBVIOUS
  <2>3. /\ img.entries = tree["Event"].entries /\ DOMAIN img.branch = 1..3
        /\ \A b \in 1..3 : img.branch[b] = BranchImage(tree["Event"].branch[b])
    BY <1>4, <2>1, <2>2 DEF TreeImage
  <2>4. Sound(tree["Event"])
    BY <1>4, <2>1 DEF TreeStreams, CanStream, Sound
  <2>5. \A b \in 1..3 :
          BranchImage(tree'["Event"].branch[b]) = BranchImage(tree["Event"].branch[b])
    BY <1>6, MarkedImage
  <2> QED  BY <1>6, <1>11, <2>2, <2>3, <2>4, <2>5
<1> QED  BY <1>8, <1>9, <1>10, <1>12, <1>13, <1>15, <1>16, <1>17, <1>18 DEF Inv

LEMMA NextInv == Inv /\ [Next]_vars => Inv'
<1>1. ASSUME Inv, UNCHANGED vars
      PROVE  Inv'
  BY <1>1 DEF vars, Inv, Shape, Control, Marks, Causes, HitRows, GoodEntriesHold,
     GoodEntries, EntriesInStep, TreesAreWhole, ImageIsTree, EventEntry, Current
<1> QED  BY <1>1, BeginInv, StartInv, FillInv, WriteInv DEF Next

LEMMA InvHolds == Spec => []Inv
BY InitInv, NextInv, PTL DEF Spec
-----------------------------------------------------------------------------
(***************************************************************************)
(* The theorems.                                                           *)
(***************************************************************************)
\* The trees, their branches and their baskets are always what wroot::tree,
\* wroot::branch and wroot::basket hold: arrays as long as they are said to
\* be, one offset per entry of the open basket (basket::update).
THEOREM TypesHold == Spec => []TypeOK
<1>1. Inv => TypeOK
  <2> SUFFICES ASSUME Inv
               PROVE  TypeOK
    OBVIOUS
  <2>1. Shape /\ Control
    BY DEF Inv
  <2>2. ASSUME NEW t \in Trees, NEW b \in DOMAIN tree[t].branch
        PROVE  BranchOK(tree[t].branch[b])
    <3>1. PICK br : br = tree[t].branch[b]
      OBVIOUS
    <3>2. /\ IsBranch(br) /\ br.open.seekKey \in 0..Len(file)
          /\ br.open.tables => IsImage(br, file)
      BY <2>1, <3>1 DEF Shape
    <3>3. br.open.tables => Len(br.open.offset) = br.open.nev
      BY <3>2 DEF IsImage, Readable
    <3>4. BasketOK(br.open)
      BY <3>2, <3>3 DEF IsBranch, BasketOK
    <3>5. br.writeBasket \in Nat
      BY <3>2 DEF IsBranch
    <3> QED  BY <3>1, <3>2, <3>4, <3>5 DEF IsBranch, BranchOK
  <2>3. \A t \in Trees : tree[t].entries \in Nat
    BY <2>1 DEF Shape
  <2> QED  BY <2>1, <2>2, <2>3 DEF TypeOK, Control, Trees
<1> QED  BY <1>1, InvHolds, PTL

\* The arrays always suffice: write_on_file() finds nev + 1 offsets, and the
\* open basket has a slot (branch::fill, check_alloc_fBasketXxx).
THEOREM ArraysAlwaysFit == Spec => []ArraysFit
<1>1. Inv => ArraysFit
  <2> SUFFICES ASSUME Inv, NEW t \in Trees, NEW b \in DOMAIN tree[t].branch
               PROVE  LET br == tree[t].branch[b]
                      IN  /\ br.open.tables => br.open.nev + 1 <= br.open.room
                          /\ HasSlot(br)
    BY DEF ArraysFit, Trees
  <2>1. PICK br : br = tree[t].branch[b]
    OBVIOUS
  <2>2. IsBranch(br)
    BY <2>1 DEF Inv, Shape
  <2>3. HasSlot(br)
    BY <2>2 DEF IsBranch, HasSlot
  <2> QED  BY <2>1, <2>2, <2>3 DEF IsBranch
<1> QED  BY <1>1, InvHolds, PTL

\* A fill of the Event tree fails, and the file goes without its tree, only
\* if a write to the file has failed (tree::fill, basket::stream).
THEOREM OnlyWritesFail == Spec => []FailuresHaveACause
<1>1. Inv => FailuresHaveACause
  BY DEF Inv, Causes, FailuresHaveACause
<1> QED  BY <1>1, InvHolds, PTL

\* The tree in memory and the tree in the file have the same entries.
LEMMA LiveEntries ==
  ASSUME Inv, Sound(tree["Event"])
  PROVE  /\ DOMAIN LiveImage.branch = 1..3 /\ LiveImage.entries = tree["Event"].entries
         /\ \A b \in 1..3 :
              /\ IsImage(LiveImage.branch[b], file)
              /\ tree["Event"].branch[b].entryNumber \in Nat
              /\ LiveImage.branch[b].entryNumber = tree["Event"].branch[b].entryNumber
              /\ \A n \in 1..tree["Event"].branch[b].entryNumber :
                   EntryOf(LiveImage.branch[b], file, n - 1) = EventEntry(b, n)
<1>1. /\ Shape /\ ImageIsTree /\ "Event" \in Trees
  BY DEF Inv, Trees
<1>2. /\ DOMAIN tree["Event"].branch = 1..3
      /\ \A b \in 1..3 : /\ tree["Event"].branch[b].open.tables
                         /\ IsBranch(tree["Event"].branch[b])
                         /\ IsImage(tree["Event"].branch[b], file)
  BY <1>1, WidthIs DEF Shape, Sound
<1>3. PICK img : img = LiveImage
  OBVIOUS
<1>4. /\ DOMAIN img.branch = 1..3 /\ img.entries = tree["Event"].entries
      /\ \A b \in 1..3 : \/ img.branch[b] = tree["Event"].branch[b]
                         \/ img.branch[b] = BranchImage(tree["Event"].branch[b])
  BY <1>1, <1>2, <1>3, WidthIs DEF LiveImage, ImageIsTree
<1>5. ASSUME NEW b \in 1..3
      PROVE  /\ IsImage(img.branch[b], file)
             /\ tree["Event"].branch[b].entryNumber \in Nat
             /\ img.branch[b].entryNumber = tree["Event"].branch[b].entryNumber
             /\ \A n \in 1..tree["Event"].branch[b].entryNumber :
                  EntryOf(img.branch[b], file, n - 1) = EventEntry(b, n)
  <2>1. PICK y : y = tree["Event"].branch[b]
    OBVIOUS
  <2>2. PICK x : x = img.branch[b]
    OBVIOUS
  <2>3. y.open.tables /\ IsImage(y, file) /\ y.entryNumber \in Nat
    BY <1>2, <2>1 DEF IsBranch
  <2>4. ReadsAs(y, x)
    <3>1. CASE x = y
      BY <3>1 DEF ReadsAs
    <3>2. CASE x = BranchImage(y)
      BY <2>3, <3>2, ImageReadsAs
    <3> QED  BY <1>4, <2>1, <2>2, <3>1, <3>2
  <2>5. IsImage(x, file) /\ SameEntries(y, file, x, file)
    BY <2>3, <2>4, SameReading
  <2>6. \A n \in 1..y.entryNumber : EntryOf(x, file, n - 1) = EventEntry(b, n)
    <3>1. \A n \in 1..y.entryNumber : n - 1 \in 0..y.entryNumber - 1
      BY <2>3
    <3> QED  BY <2>1, <2>5, <3>1 DEF SameEntries, EventEntry
  <2> QED  BY <2>1, <2>2, <2>3, <2>4, <2>5, <2>6 DEF ReadsAs
<1> QED  BY <1>3, <1>4, <1>5

\* If the Event tree could be written then rroot::branch::stream accepts it
\* and finds every entry its branches count.
THEOREM TreeCanBeRead == Spec => []ReaderAcceptsTree
<1>1. Inv => ReaderAcceptsTree
  <2> SUFFICES ASSUME Inv, stage = "written", NEW b \in DOMAIN image.branch
               PROVE  /\ SeeksAreConsistent(image.branch[b])
                      /\ \A n \in 0..image.branch[b].entryNumber - 1 :
                           EntryOf(image.branch[b], file, n) # Garbage
    BY DEF ReaderAcceptsTree
  <2>1. /\ Sound(tree["Event"]) /\ LiveImage = image /\ b \in 1..3 /\ "Event" \in Trees
        /\ image.branch[b] = BranchImage(tree["Event"].branch[b])
    BY WidthIs DEF Inv, ImageIsTree, LiveImage, Trees
  <2>2. PICK img : img = image.branch[b]
    OBVIOUS
  <2>3. IsBranch(tree["Event"].branch[b])
    BY <2>1, WidthIs DEF Inv, Shape
  <2>4. SeeksAreConsistent(img)
    BY <2>1, <2>2, <2>3, ImageSeeks
  <2>5. IsImage(img, file)
    BY <2>1, <2>2, LiveEntries
  <2>6. ASSUME NEW n \in 0..img.entryNumber - 1
        PROVE  EntryOf(img, file, n) # Garbage
    <3>1. PICK i \in 0..img.writeBasket : InWindow(img, i, n)
      BY <2>5 DEF IsImage
    <3> QED  BY <2>5, <3>1, EntryInWindow
  <2> QED  BY <2>2, <2>4, <2>6
<1> QED  BY <1>1, InvHolds, PTL

\* The object holds the rows of its event.
LEMMA ObjectHoldsRows ==
  ASSUME NEW val, NEW f, IsEntryOf(val, 2, f, file)
  PROVE  val[1] = "tree" /\ val[2].entries = f.rows /\ HoldsRows(val[2], f)
<1>1. val[1] = "tree" /\ IsTreeOf(val[2], f, file)
  BY DEF IsEntryOf
<1>2. PICK t : t = val[2]
  OBVIOUS
<1>3. t.entries = f.rows /\ HoldsRows(t, f)
  BY <1>1, <1>2 DEF IsTreeOf, HoldsRows
<1> QED  BY <1>1, <1>2, <1>3

LEMMA EntryIsHeld ==
  ASSUME Inv, Sound(tree["Event"]), NEW n \in GoodEntries
  PROVE  /\ EntryHolds(LiveImage, n, filled[n])
         /\ \A b \in 1..3 :
              /\ EntryOf(LiveImage.branch[b], file, n - 1) = EventEntry(b, n)
              /\ IsEntryOf(EventEntry(b, n), b, filled[n], file)
<1>1. DOMAIN filled = 1..Len(filled) /\ Len(filled) \in Nat
  BY AppendAny DEF Inv, Control
<1>2. n \in 1..Len(filled)
  BY <1>1 DEF GoodEntries
<1>3. ASSUME NEW b \in 1..3
      PROVE  /\ EntryOf(LiveImage.branch[b], file, n - 1) = EventEntry(b, n)
             /\ IsEntryOf(EventEntry(b, n), b, filled[n], file)
  <2>1. /\ n <= tree["Event"].branch[b].entryNumber
        /\ IsEntryOf(EventEntry(b, n), b, filled[n], file)
    BY WidthIs DEF Inv, GoodEntriesHold
  <2>2. tree["Event"].branch[b].entryNumber \in Nat
    BY LiveEntries
  <2>3. n \in 1..tree["Event"].branch[b].entryNumber
    BY <1>2, <2>1, <2>2
  <2> QED  BY <2>1, <2>3, LiveEntries
<1>4. ASSUME NEW b \in 1..3
      PROVE  LET val == EntryOf(LiveImage.branch[b], file, n - 1)
             IN  IF Columns("Event")[b] = "hit"
                 THEN val[1] = "tree" /\ \E t \in {val[2]} : HoldsRows(t, filled[n])
                 ELSE val = <<"event", filled[n].event>>
  <2>1. PICK val : val = EntryOf(LiveImage.branch[b], file, n - 1)
    OBVIOUS
  <2>2. IsEntryOf(val, b, filled[n], file)
    BY <1>3, <2>1
  <2>3. CASE b = 2
    <3>1. val[1] = "tree" /\ HoldsRows(val[2], filled[n])
      BY <2>2, <2>3, ObjectHoldsRows
    <3>2. Columns("Event")[b] = "hit"
      BY <2>3 DEF Columns
    <3> QED  BY <2>1, <3>1, <3>2
  <2>4. CASE b # 2
    <3>1. Columns("Event")[b] # "hit"
      BY <2>4 DEF Columns
    <3>2. val = <<"event", filled[n].event>>
      BY <2>2, <2>4 DEF IsEntryOf
    <3> QED  BY <2>1, <3>1, <3>2
  <2> QED  BY <2>3, <2>4
<1>5. EntryHolds(LiveImage, n, filled[n])
  <2>1. DOMAIN LiveImage.branch = 1..3
    BY LiveEntries
  <2> QED  BY <1>4, <2>1 DEF EntryHolds
<1> QED  BY <1>3, <1>5

\* An entry filled before the first fill that failed reads back with all of
\* its event, whatever happens afterwards (branch::fill, write_on_file).
THEOREM EntriesAlwaysReadBack == Spec => []EntriesReadBack
<1>1. Inv => EntriesReadBack
  <2>1. ASSUME Inv, \A b \in DOMAIN tree["Event"].branch : tree["Event"].branch[b].open.tables
        PROVE  \A n \in GoodEntries : EntryHolds(LiveImage, n, filled[n])
    BY <2>1, EntryIsHeld DEF Sound
  <2> QED  BY <2>1 DEF EntriesReadBack
<1> QED  BY <1>1, InvHolds, PTL

\* A tree in the column of the hits has all the rows of an event whose fill
\* succeeded: no row is lost without a fill that fails (tree::fill).
THEOREM NoRowIsEverLostSilently == Spec => []NoRowIsLostSilently
<1>1. Inv => NoRowIsLostSilently
  <2> SUFFICES ASSUME Inv, stage = "written",
                      NEW n \in 0..image.branch[2].entryNumber - 1,
                      EntryOf(image.branch[2], file, n)[1] = "tree"
               PROVE  \E m \in DOMAIN filled :
                        /\ EntryOf(image.branch[2], file, n)[2].entries = filled[m].rows
                        /\ HoldsRows(EntryOf(image.branch[2], file, n)[2], filled[m])
    BY DEF NoRowIsLostSilently
  <2>1. Sound(tree["Event"]) /\ LiveImage = image /\ filling # "Event"
    BY DEF Inv, ImageIsTree, LiveImage, Control
  <2>2. PICK k : k = n + 1
    OBVIOUS
  <2>3. /\ k \in 1..tree["Event"].branch[2].entryNumber
        /\ EntryOf(image.branch[2], file, n) = EventEntry(2, k)
    <3>1. /\ tree["Event"].branch[2].entryNumber \in Nat
          /\ image.branch[2].entryNumber = tree["Event"].branch[2].entryNumber
          /\ \A m \in 1..tree["Event"].branch[2].entryNumber :
               EntryOf(image.branch[2], file, m - 1) = EventEntry(2, m)
      BY <2>1, LiveEntries
    <3>2. k \in 1..tree["Event"].branch[2].entryNumber /\ k - 1 = n
      BY <2>2, <3>1
    <3> QED  BY <3>1, <3>2
  <2>4. PICK val : val = EventEntry(2, k)
    OBVIOUS
  <2>5. val # Partial
    <3>1. Partial[1] # "tree"
      BY DEF Partial
    <3> QED  BY <2>3, <2>4, <3>1
  <2>6. PICK m \in DOMAIN filled : IsEntryOf(val, 2, filled[m], file)
    BY <2>1, <2>3, <2>4, <2>5 DEF Inv, TreesAreWhole
  <2>7. val[2].entries = filled[m].rows /\ HoldsRows(val[2], filled[m])
    BY <2>6, ObjectHoldsRows
  <2> QED  BY <2>3, <2>4, <2>7
<1> QED  BY <1>1, InvHolds, PTL
-----------------------------------------------------------------------------
(***************************************************************************)
(* The log of entries: as long as every fill succeeded, filled is what can *)
(* be read.                                                                *)
(***************************************************************************)
TheLog == [n \in 1..tree["Event"].entries |-> ReadContents(LiveImage, n)]
MappedLog == IF failed # {} THEN <<>> ELSE TheLog
FilledLog == IF failed # {} THEN <<>> ELSE filled

\* What an entry that is held reads as.
LEMMA ReadIsHeld ==
  ASSUME Inv, Sound(tree["Event"]), NEW n \in GoodEntries
  PROVE  ReadContents(LiveImage, n) = filled[n]
<1>1. PICK f : f = filled[n]
  OBVIOUS
<1>2. f \in ContentsSet
  BY <1>1 DEF Inv, Control, GoodEntries
<1>3. EntryHolds(LiveImage, n, f) /\ DOMAIN LiveImage.branch = 1..3
  BY <1>1, EntryIsHeld, LiveEntries
<1>4. PICK number : number = EntryOf(LiveImage.branch[1], file, n - 1)
  OBVIOUS
<1>5. PICK object : object = EntryOf(LiveImage.branch[2], file, n - 1)
  OBVIOUS
<1>6. number = <<"event", f.event>>
  BY <1>3, <1>4 DEF EntryHolds, Columns
<1>7. object[1] = "tree" /\ object[2].entries = f.rows
  BY <1>3, <1>5 DEF EntryHolds, Columns, HoldsRows
<1>8. [event |-> number[2], rows |-> object[2].entries] = f
  BY <1>2, <1>6, <1>7 DEF ContentsSet
<1> QED  BY <1>1, <1>3, <1>4, <1>5, <1>6, <1>7, <1>8 DEF ReadContents

LEMMA LogIsFilled == Inv => MappedLog = FilledLog
<1> SUFFICES ASSUME Inv
             PROVE  MappedLog = FilledLog
  OBVIOUS
<1>1. CASE failed # {}
  BY <1>1 DEF MappedLog, FilledLog
<1>2. CASE failed = {}
  <2>1. Sound(tree["Event"]) /\ tree["Event"].entries = Len(filled)
    BY <1>2 DEF Inv, Causes, EntriesInStep
  <2>2. DOMAIN filled = 1..Len(filled) /\ filled \in Seq({filled[k] : k \in DOMAIN filled})
    BY AppendAny DEF Inv, Control, IsSequence
  <2>3. \A n \in 1..Len(filled) : ReadContents(LiveImage, n) = filled[n]
    BY <1>2, <2>1, <2>2, ReadIsHeld DEF GoodEntries
  <2>4. filled = [n \in 1..Len(filled) |-> filled[n]]
    BY <2>2
  <2>5. TheLog = filled
    BY <2>1, <2>3, <2>4 DEF TheLog
  <2> QED  BY <1>2, <2>5 DEF MappedLog, FilledLog
<1> QED  BY <1>1, <1>2

LEMMA LogInitial == Init => Log!LogInit
<1> SUFFICES ASSUME Init
             PROVE  Log!LogInit
  OBVIOUS
<1>1. MappedLog = FilledLog
  BY InitInv, LogIsFilled
<1>2. failed = {} /\ filled = <<>> /\ event = 0 /\ rows = 0
  BY DEF Init
<1>3. [event |-> event, rows |-> rows] \in ContentsSet
  BY <1>2, WrootTreeAssumption DEF WrootTreeAssumption, ContentsSet
<1> QED  BY <1>1, <1>2, <1>3 DEF Log!LogInit, MappedLog, FilledLog, TheLog

\* What a step does to the log, in terms of filled.
LEMMA LogOfStep ==
  ASSUME Inv, Inv', FilledLog' = FilledLog, failed' = {} <=> failed = {}
  PROVE  /\ event' = event /\ rows' = rows => UNCHANGED Log!logVars
         /\ [event |-> event', rows |-> rows'] \in ContentsSet => Log!Collect
<1>1. MappedLog = FilledLog
  BY LogIsFilled
<1>2. (MappedLog = FilledLog)'
  BY LogIsFilled, PTL
<1>3. MappedLog' = MappedLog
  BY <1>1, <1>2
<1> QED  BY <1>3 DEF Log!logVars, Log!Collect, MappedLog, TheLog

LEMMA FillLogs ==
  ASSUME Inv, Inv', FillStep
  PROVE  [Log!LogNext]_Log!logVars
<1>1. Shape /\ Control /\ Causes
  BY DEF Inv
<1>2. PICK new, ok : StepIs(new, ok)
  BY <1>1, StepOfFill
<1>3. /\ event' = event /\ rows' = rows
      /\ IF ok /\ IsLast /\ filling = "Event"
         THEN filled' = Append(filled, Current)
         ELSE filled' = filled
      /\ failed' = IF ~ok /\ filling = "Event" THEN failed \cup {event} ELSE failed
  BY <1>1, <1>2, FillsAfter
<1>4. MappedLog = FilledLog
  BY LogIsFilled
<1>5. (MappedLog = FilledLog)'
  BY LogIsFilled, PTL
<1>6. CASE FilledLog' = FilledLog /\ (failed' = {} <=> failed = {})
  BY <1>3, <1>6, LogOfStep
<1>7. CASE failed = {} /\ failed' # {}
  <2>1. MappedLog' = <<>>
    BY <1>5, <1>7 DEF FilledLog
  <2> QED  BY <1>3, <1>7, <2>1 DEF Log!LogNext, Log!Lose, MappedLog, TheLog
<1>8. CASE failed = {} /\ failed' = {} /\ filled' = Append(filled, Current)
  <2>1. MappedLog' = Append(MappedLog, Current)
    BY <1>4, <1>5, <1>8 DEF FilledLog
  <2> QED
    BY <1>3, <1>8, <2>1 DEF Log!LogNext, Log!AppendEntry, MappedLog, TheLog, Current
<1> QED  BY <1>3, <1>6, <1>7, <1>8 DEF FilledLog

LEMMA LogStep ==
  ASSUME Inv, Inv', [Next]_vars
  PROVE  [Log!LogNext]_Log!logVars
<1>1. CASE FillStep
  BY <1>1, FillLogs
<1>2. CASE BeginEvent \/ FillHit \/ FillEvent \/ WriteTree \/ UNCHANGED vars
  <2>1. UNCHANGED <<filled, failed>>
    BY <1>2 DEF BeginEvent, FillHit, FillEvent, WriteTree, vars
  <2>2. event' \in 0..MaxEvents /\ rows' \in 0..MaxRows
    BY DEF Inv, Control
  <2>3. [event |-> event', rows |-> rows'] \in ContentsSet
    BY <2>2 DEF ContentsSet
  <2> QED  BY <2>1, <2>3, LogOfStep DEF FilledLog, Log!LogNext
<1> QED  BY <1>1, <1>2 DEF Next

\* The Event tree is a log of entries: it implements TupleLog, an entry is
\* appended whole by the fill that succeeds and never changes as long as
\* every fill succeeds (tree::fill, EventAction::EndOfEventAction).
THEOREM LogIsImplemented == Spec => ImplementsLog
<1>1. Inv /\ Inv' /\ [Next]_vars => [Log!LogNext]_Log!logVars
  BY LogStep
<1> QED  BY <1>1, LogInitial, InvHolds, PTL DEF Spec, ImplementsLog, Log!LogSpec

(***************************************************************************)
(* What the fills leave for the reader.                                    *)
(***************************************************************************)
\* An entry that counts is in every branch.
EntriesCovered ==
  /\ tree["Event"].entries = Len(filled)
  /\ \A b \in 1..3 :
       Len(filled) + (IF filling = "Event" /\ b < column THEN 1 ELSE 0)
         <= tree["Event"].branch[b].entryNumber

\* The entry behind the good ones has no object.
IsFirstLoss(g) ==
  /\ GoodEntries = 1..g /\ g < tree["Event"].branch[2].entryNumber
  /\ EventEntry(2, g + 1) = Partial

LossIsMarked == Sound(tree["Event"]) /\ failed # {} => \E g \in Nat : IsFirstLoss(g)

(***************************************************************************)
(* What the reader has.                                                    *)
(***************************************************************************)
ReaderFields == {"img", "readBasket", "cur", "owned", "leaf"}

\* A branch keeps the basket it read, and no other.
IsReader(rb, fl) ==
  /\ DOMAIN rb = ReaderFields /\ IsImage(rb.img, fl)
  /\ rb.readBasket \in Nat /\ rb.cur \in {rb.readBasket, NoBasket}
  /\ DOMAIN rb.owned \subseteq {rb.readBasket} \ {rb.img.writeBasket}
  /\ \A j \in DOMAIN rb.owned : rb.owned[j] = BasketAt(rb.img, fl, j)
  /\ rb.cur # NoBasket => rb.cur \in Mapped(rb)

AreBranches(f, n) == f = [b \in 1..n |-> f[b]]

Opened ==
  /\ IF branch = <<>> THEN entry = NoEntry /\ ievent = 0
     ELSE stage = "written" /\ AreBranches(branch, 3)
  /\ \A b \in DOMAIN branch : branch[b].img = image.branch[b] /\ IsReader(branch[b], file)

HitReaders ==
  /\ DOMAIN hitTree = {"entries", "branch"} /\ hitTree.entries \in Nat
  /\ \A b \in DOMAIN hitTree.branch : IsReader(hitTree.branch[b], file)
  /\ branch = <<>> => hitTree.branch = <<>>

Loop ==
  /\ reading \in {"event", "rows"} /\ row \in Nat /\ ievent \in Nat
  /\ anyOrder \in BOOLEAN /\ garbled \in BOOLEAN
  /\ at \in 1..IF reading = "rows" THEN 2 ELSE 3
  /\ entry # NoEntry => entry \in 0..image.entries - 1

LeavesAreEntries ==
  \A c \in 1..3 : Done(c) => branch[c].leaf = EntryOf(image.branch[c], file, entry)

\* The object at hand is that of the entry.
HitIsOf(val) ==
  /\ val # Partial /\ hitTree.entries = val[2].entries
  /\ AreBranches(hitTree.branch, 2) /\ (1 < at => row < hitTree.entries)
  /\ \A b \in 1..2 :
       /\ hitTree.branch[b].img = val[2].branch[b]
       /\ b < at => hitTree.branch[b].leaf = EntryOf(val[2].branch[b], file, row)

HitIsTheObject ==
  entry # NoEntry /\ reading = "rows" =>
    \/ garbled /\ hitTree = EmptyTree /\ at = 1
         /\ EntryOf(image.branch[2], file, entry) = Partial
    \/ HitIsOf(EntryOf(image.branch[2], file, entry))

\* read_data() has not passed the first entry without an object.
InOrder ==
  ~anyOrder /\ ~garbled =>
    /\ entry # NoEntry => entry = ievent
    /\ branch # <<>> /\ (entry # NoEntry \/ ievent # image.entries) => 1..ievent \subseteq GoodEntries
    /\ entry # NoEntry /\ reading = "rows" => entry + 1 \in GoodEntries

-----------------------------------------------------------------------------
\* The branches of a tree are counted by Len.
LEMMA BranchesAre ==
  ASSUME NEW n \in Nat \ {0}, NEW f, AreBranches(f, n)
  PROVE  Len(f) = n /\ DOMAIN f = 1..n /\ f # <<>>
<1>1. DOMAIN f = 1..n
  BY DEF AreBranches
<1>2. \A k \in 1..n : f[k] \in {f[b] : b \in 1..n}
  OBVIOUS
<1>3. f \in Seq({f[b] : b \in 1..n})
  BY <1>2, IsASeq DEF AreBranches
<1>4. Len(f) \in Nat /\ DOMAIN f = 1..Len(f)
  BY <1>3, LenProperties
<1>5. Len(f) = n
  BY <1>1, <1>4
<1> QED  BY <1>1, <1>5, EmptyIsSequence

-----------------------------------------------------------------------------
(***************************************************************************)
(* find_entry.                                                             *)
(***************************************************************************)
\* The basket that find_entry() chooses is the one of the entry.
LEMMA ChosenBasket ==
  ASSUME NEW rb, IsImage(rb.img, file), NEW n \in 0..rb.img.entryNumber - 1,
         NEW i \in BasketOf(rb, n)
  PROVE  InWindow(rb.img, i, n)
<1>1. PICK img : img = rb.img
  OBVIOUS
<1>2. /\ img.writeBasket \in Nat /\ img.entryNumber \in Nat
      /\ \A k \in 0..img.writeBasket : img.basketEntry[k] \in Nat
  BY <1>1 DEF IsImage
<1>3. InBasket(rb, i, n)
  BY DEF BasketOf
<1>4. i \in 0..img.writeBasket /\ img.basketEntry[i] <= n /\ n <= LastEntry(img, i)
  BY <1>1, <1>2, <1>3 DEF InBasket, Windows, HoldsEntry, FirstEntry
<1>5. i # img.writeBasket => n < img.basketEntry[i + 1]
  <2> SUFFICES ASSUME i # img.writeBasket
               PROVE  n < img.basketEntry[i + 1]
    OBVIOUS
  <2>1. i + 1 \in 0..img.writeBasket
    BY <1>2, <1>4
  <2>2. img.basketEntry[i + 1] \in Nat /\ n <= img.basketEntry[i + 1] - 1
    BY <1>2, <1>4, <2>1 DEF LastEntry
  <2> QED  BY <1>1, <2>2
<1> QED  BY <1>1, <1>4, <1>5 DEF InWindow

\* Moving to another basket forgets the one that was left.
LEMMA MovedIsReader ==
  ASSUME NEW rb, IsReader(rb, file), NEW i \in Nat, NEW x, x = MovedTo(rb, i)
  PROVE  IsReader(x, file) /\ x.readBasket = i /\ x.img = rb.img
<1>1. CASE i = rb.readBasket
  BY <1>1 DEF MovedTo
<1>2. CASE i # rb.readBasket
  <2>1. PICK o : o = Without(rb.owned, rb.readBasket)
    OBVIOUS
  <2>2. DOMAIN o = {}
    BY <2>1 DEF Without, IsReader
  <2>3. /\ DOMAIN x = ReaderFields /\ x.img = rb.img /\ x.cur = NoBasket
        /\ x.readBasket = i /\ x.owned = o
    BY <1>2, <2>1 DEF MovedTo, IsReader, ReaderFields
  <2> QED  BY <2>2, <2>3 DEF IsReader
<1> QED  BY <1>1, <1>2

\* Then the basket at hand is the basket of the entry.
LEMMA BasketIsAtHand ==
  ASSUME NEW rb, IsReader(rb, file), NEW x, x = WithBasket(rb)
  PROVE  /\ IsReader(x, file) /\ x.readBasket = rb.readBasket /\ x.img = rb.img
         /\ AtHand(x) = BasketAt(x.img, file, x.readBasket)
<1>1. /\ rb.readBasket \in Nat /\ rb.cur \in {rb.readBasket, NoBasket}
      /\ DOMAIN rb.owned \subseteq {rb.readBasket} \ {rb.img.writeBasket}
      /\ rb.cur # NoBasket => rb.cur \in DOMAIN rb.owned \cup {rb.img.writeBasket}
      /\ DOMAIN rb = ReaderFields /\ NoBasket \notin Nat
      /\ \A j \in DOMAIN rb.owned : rb.owned[j] = BasketAt(rb.img, file, j)
  BY DEF IsReader, Mapped, NoBasket
<1>2. PICK bk : bk = BasketAt(rb.img, file, rb.readBasket)
  OBVIOUS
<1>3. PICK o : o = IF NeedsRead(rb) THEN With(rb.owned, rb.readBasket, bk) ELSE rb.owned
  OBVIOUS
<1>4. /\ DOMAIN x = ReaderFields /\ x.img = rb.img /\ x.readBasket = rb.readBasket
      /\ x.cur = rb.readBasket /\ x.owned = o
  BY <1>1, <1>2, <1>3 DEF WithBasket, ReaderFields
<1>5. CASE NeedsRead(rb)
  <2>1. rb.readBasket \notin DOMAIN rb.owned \cup {rb.img.writeBasket}
    BY <1>5 DEF NeedsRead, Mapped
  <2>2. DOMAIN rb.owned = {}
    BY <1>1, <2>1
  <2>3. DOMAIN o = {rb.readBasket} /\ o[rb.readBasket] = bk
    BY <1>3, <1>5, <2>2 DEF With
  <2>4. AtHand(x) = bk
    BY <1>4, <2>3 DEF AtHand
  <2>5. IsReader(x, file)
    BY <1>1, <1>2, <1>4, <2>1, <2>3 DEF IsReader, Mapped
  <2> QED  BY <1>2, <1>4, <2>4, <2>5
<1>6. CASE ~NeedsRead(rb)
  <2>1. o = rb.owned
    BY <1>3, <1>6
  <2>2. rb.readBasket \in DOMAIN rb.owned \cup {rb.img.writeBasket}
    BY <1>1, <1>6 DEF NeedsRead, Mapped
  <2>3. IsReader(x, file)
    BY <1>1, <1>4, <2>1, <2>2 DEF IsReader, Mapped
  <2>4. AtHand(x) = BasketAt(x.img, file, x.readBasket)
    <3>1. CASE rb.readBasket \in DOMAIN rb.owned
      BY <1>1, <1>4, <2>1, <3>1 DEF AtHand
    <3>2. CASE rb.readBasket \notin DOMAIN rb.owned
      BY <1>1, <1>4, <2>1, <2>2, <3>2 DEF AtHand, BasketAt
    <3> QED  BY <3>1, <3>2
  <2> QED  BY <1>4, <2>3, <2>4
<1> QED  BY <1>5, <1>6

\* What find_entry(n) returns.
Found(rb, n, out) ==
  /\ IsReader(out.rb, file) /\ out.rb.img = rb.img
  /\ out.ok /\ n < rb.img.entryNumber => out.rb.leaf = EntryOf(rb.img, file, n)

LEMMA FindEntryFinds ==
  ASSUME NEW rb, IsReader(rb, file), NEW n \in Nat, NEW readable,
         NEW out, out = FindEntry(rb, n, readable)
  PROVE  Found(rb, n, out)
<1>1. rb.img.entryNumber \in Nat /\ IsImage(rb.img, file)
  BY DEF IsReader, IsImage
<1>2. CASE n >= rb.img.entryNumber
  BY <1>1, <1>2 DEF FindEntry, Found
<1>3. CASE ~(n >= rb.img.entryNumber) /\ BasketOf(rb, n) = {}
  <2>1. PICK x : x = [rb EXCEPT !.cur = NoBasket]
    OBVIOUS
  <2>2. IsReader(x, file) /\ x.img = rb.img
    BY <2>1 DEF IsReader, ReaderFields, Mapped
  <2>3. out.rb = x /\ out.ok = FALSE
    BY <1>3, <2>1 DEF FindEntry
  <2> QED  BY <2>2, <2>3 DEF Found
<1>4. CASE ~(n >= rb.img.entryNumber) /\ BasketOf(rb, n) # {}
  <2>1. PICK i : i = CHOOSE j \in BasketOf(rb, n) : TRUE
    OBVIOUS
  <2>2. i \in BasketOf(rb, n)
    BY <1>4, <2>1
  <2>3. n \in 0..rb.img.entryNumber - 1 /\ InWindow(rb.img, i, n)
    BY <1>1, <1>4, <2>2, ChosenBasket
  <2>4. i \in Nat
    BY <1>1, <2>3 DEF InWindow, IsImage
  <2>5. PICK moved : moved = MovedTo(rb, i)
    OBVIOUS
  <2>6. IsReader(moved, file) /\ moved.readBasket = i /\ moved.img = rb.img
    BY <2>4, <2>5, MovedIsReader
  <2>7. PICK held : held = WithBasket(moved)
    OBVIOUS
  <2>8. /\ IsReader(held, file) /\ held.readBasket = i /\ held.img = rb.img
        /\ AtHand(held) = BasketAt(rb.img, file, i)
    BY <2>6, <2>7, BasketIsAtHand
  <2>9. HasOffset(held, n) /\ Index(held, n) = n - rb.img.basketEntry[i] + 1
    <3>1. n - rb.img.basketEntry[i] + 1 \in 1..BasketAt(rb.img, file, i).nev
      BY <1>1, <2>3, EntryInWindow
    <3>2. Index(held, n) = n - rb.img.basketEntry[i] + 1
      BY <2>8 DEF Index, FirstEntry
    <3> QED  BY <2>8, <3>1, <3>2 DEF HasOffset
  <2>10. PICK read : read = WithLeaf(held, n)
    OBVIOUS
  <2>11. /\ IsReader(read, file) /\ read.img = rb.img
         /\ read.leaf = ValueAt(AtHand(held), n - rb.img.basketEntry[i] + 1)
    BY <2>8, <2>9, <2>10 DEF WithLeaf, IsReader, ReaderFields, Mapped
  <2>12. read.leaf = EntryOf(rb.img, file, n)
    <3>1. EntryOf(rb.img, file, n)
            = ValueAt(BasketAt(rb.img, file, i), n - rb.img.basketEntry[i] + 1)
      BY <1>1, <2>3, EntryInWindow
    <3> QED  BY <2>8, <2>11, <3>1
  <2>13. /\ out = IF NeedsRead(moved) /\ ~readable THEN [rb |-> moved, ok |-> FALSE]
                 ELSE [rb |-> read, ok |-> HasOffset(read, n) /\ read.leaf # Garbage]
    BY <1>4, <2>1, <2>5, <2>7, <2>10 DEF FindEntry
  <2> QED  BY <2>6, <2>11, <2>12, <2>13 DEF Found
<1> QED  BY <1>2, <1>3, <1>4
-----------------------------------------------------------------------------
(***************************************************************************)
(* The fills.                                                              *)
(***************************************************************************)
Ledger == EntriesCovered /\ LossIsMarked

\* Every branch that a fill reached counts an entry, even if the fill fails.
LEMMA EventBranchCounts ==
  ASSUME Shape, Control, NEW new, NEW ok, StepIs(new, ok), NEW b \in 1..3
  PROVE  /\ tree["Event"].branch[b].entryNumber \in Nat
         /\ tree'["Event"].branch[b].entryNumber =
              IF filling = "Event" /\ b = column THEN tree["Event"].branch[b].entryNumber + 1
              ELSE tree["Event"].branch[b].entryNumber
<1>1. "Event" \in Trees /\ Width("Event") = 3
  BY WidthIs DEF Trees
<1>2. tree["Event"].branch[b].entryNumber \in Nat
  BY <1>1 DEF Shape, IsBranch
<1>3. CASE filling = "Event" /\ b = column
  <2>1. tree'["Event"].branch[b] = new
    BY <1>3, BranchesKept
  <2>2. new.entryNumber = tree["Event"].branch[b].entryNumber + 1
    BY <1>3 DEF StepIs, Takes, Breaks
  <2> QED  BY <1>2, <1>3, <2>1, <2>2
<1>4. CASE ~(filling = "Event" /\ b = column)
  <2>1. Kept(tree["Event"].branch[b], tree'["Event"].branch[b])
    BY <1>1, <1>4, BranchesKept
  <2> QED  BY <1>2, <1>4, <2>1 DEF Kept
<1> QED  BY <1>3, <1>4

LEMMA FillCovers ==
  ASSUME Shape, Control, EntriesCovered, NEW new, NEW ok, StepIs(new, ok)
  PROVE  EntriesCovered'
<1>1. /\ ok \in BOOLEAN /\ filling \in Trees /\ column \in 1..Width(filling)
      /\ tree'["Event"].entries =
           IF ok /\ IsLast /\ "Event" = filling THEN tree["Event"].entries + 1
           ELSE tree["Event"].entries
  BY DEF StepIs, FillOutcome, Control, Trees
<1>2. /\ Len(filled) \in Nat
      /\ Len(filled') = IF ok /\ IsLast /\ filling = "Event" THEN Len(filled) + 1
                        ELSE Len(filled)
      /\ ok /\ ~IsLast => filling' = filling /\ column' = column + 1
      /\ ~ok \/ IsLast => filling' = "none"
  BY FillsAfter
<1>3. tree'["Event"].entries = Len(filled')
  BY <1>1, <1>2 DEF EntriesCovered
<1>4. ASSUME NEW b \in 1..3
      PROVE  Len(filled') + (IF filling' = "Event" /\ b < column' THEN 1 ELSE 0)
               <= tree'["Event"].branch[b].entryNumber
  <2>1. PICK n : n = tree["Event"].branch[b].entryNumber
    OBVIOUS
  <2>2. /\ n \in Nat
        /\ tree'["Event"].branch[b].entryNumber =
             IF filling = "Event" /\ b = column THEN n + 1 ELSE n
        /\ Len(filled) + (IF filling = "Event" /\ b < column THEN 1 ELSE 0) <= n
    BY <2>1, EventBranchCounts DEF EntriesCovered
  <2>3. CASE filling # "Event"
    BY <1>2, <2>2, <2>3
  <2>4. CASE filling = "Event"
    <3>1. column \in 1..3 /\ (IsLast <=> column = 3)
      BY <1>1, <2>4, WidthIs DEF IsLast
    <3>2. CASE ok /\ ~IsLast
      BY <1>2, <2>2, <2>4, <3>1, <3>2
    <3>3. CASE ok /\ IsLast
      BY <1>2, <2>2, <2>4, <3>1, <3>3
    <3>4. CASE ~ok
      BY <1>2, <2>2, <2>4, <3>1, <3>4
    <3> QED  BY <1>1, <3>2, <3>3, <3>4
  <2> QED  BY <2>3, <2>4
<1> QED  BY <1>3, <1>4 DEF EntriesCovered

\* The good entries are settled by the first fill that fails.
LEMMA GoodEntriesStay ==
  ASSUME Control, stage = "rows", failed # {}, failed' \in {failed, failed \cup {event}},
         filled' \in {filled, Append(filled, Current)}
  PROVE  GoodEntries' = GoodEntries
<1>1. /\ failed \subseteq 1..event /\ event \in Nat /\ event \notin failed
      /\ \A n \in DOMAIN filled : filled[n].event \in 1..event /\ filled[n].event # event
  BY WrootTreeAssumption DEF Control, WrootTreeAssumption
<1>2. PICK longer : longer = Append(filled, Current)
  OBVIOUS
<1>3. /\ Len(filled) \in Nat
      /\ DOMAIN filled = 1..Len(filled) /\ DOMAIN longer = 1..Len(filled) + 1
      /\ \A n \in 1..Len(filled) : longer[n] = filled[n]
      /\ longer[Len(filled) + 1].event = event
  BY <1>2, FilledAppends DEF Current
<1>4. \A n \in DOMAIN filled : n \in DOMAIN filled' /\ filled'[n] = filled[n]
  BY <1>2, <1>3
<1>5. \A n \in DOMAIN filled' : n \notin DOMAIN filled => filled'[n].event = event
  BY <1>2, <1>3
<1>6. PICK e : e \in failed
  OBVIOUS
<1>7. e \in failed' /\ ~(event < e)
  BY <1>1, <1>6
<1>8. ASSUME NEW n
      PROVE  n \in GoodEntries' <=> n \in GoodEntries
  <2>1. CASE n \in DOMAIN filled
    <3>1. filled[n].event < event
      BY <1>1, <2>1
    <3>2. (\A f \in failed' : filled[n].event < f) <=> (\A f \in failed : filled[n].event < f)
      BY <3>1
    <3> QED  BY <1>4, <2>1, <3>2 DEF GoodEntries
  <2>2. CASE n \notin DOMAIN filled
    BY <1>5, <1>7, <2>2 DEF GoodEntries
  <2> QED  BY <2>1, <2>2
<1>9. GoodEntries \subseteq GoodEntries' /\ GoodEntries' \subseteq GoodEntries
  BY <1>8
<1> QED  BY <1>9

LEMMA FillMarksLoss ==
  ASSUME Shape, Control, Marks, Causes, EntriesInStep, LossIsMarked,
         NEW new, NEW ok, StepIs(new, ok)
  PROVE  LossIsMarked'
<1> SUFFICES ASSUME Sound(tree'["Event"]), failed' # {}
             PROVE  \E g \in Nat : /\ GoodEntries' = 1..g
                                   /\ g < tree'["Event"].branch[2].entryNumber
                                   /\ EntryAfter(2, g + 1) = Partial
  BY DEF LossIsMarked, IsFirstLoss, EventEntry, EntryAfter
<1>1. PICK n : n = tree["Event"].branch[2].entryNumber
  OBVIOUS
<1>2. /\ Sound(tree["Event"]) /\ n \in Nat
      /\ filling = "Event" => (ok <=> ~LeafFails)
      /\ tree'["Event"].branch[2].entryNumber =
           IF filling = "Event" /\ 2 = column THEN n + 1 ELSE n
      /\ \A k \in 1..n : EntryAfter(2, k) = EventEntry(2, k)
      /\ filling = "Event" /\ 2 = column => EntryAfter(2, n + 1) = Leaf
  BY <1>1, EventEntriesAfterFill
<1>3. /\ filled' \in {filled, Append(filled, Current)}
      /\ ~ok => filled' = filled
      /\ failed' = IF ~ok /\ filling = "Event" THEN failed \cup {event} ELSE failed
      /\ DOMAIN filled = 1..Len(filled) /\ Len(filled) \in Nat
  BY FillsAfter
<1>4. CASE failed = {}
  <2>1. ~ok /\ filling = "Event" /\ LeafFails /\ filled' = filled /\ failed' = {event}
    BY <1>2, <1>3, <1>4
  <2>2. column = 2 /\ Leaf = Partial
    BY <2>1, LeafFailure
  <2>3. n = Len(filled)
    BY <1>1, <1>4, <2>1, <2>2, WidthIs DEF EntriesInStep
  <2>4. GoodEntries' = 1..n
    <3>1. stage = "rows" /\ event \in Nat
      BY <2>1, WrootTreeAssumption DEF Control, WrootTreeAssumption
    <3>2. \A k \in DOMAIN filled : filled[k].event \in 1..event /\ filled[k].event # event
      BY <3>1 DEF Control
    <3>3. \A k \in DOMAIN filled : filled[k].event < event
      BY <3>1, <3>2
    <3> QED  BY <1>3, <2>1, <2>3, <3>3 DEF GoodEntries
  <2> QED  BY <1>2, <2>1, <2>2, <2>4
<1>5. CASE failed # {}
  <2>1. PICK g \in Nat : IsFirstLoss(g)
    BY <1>2, <1>5 DEF LossIsMarked
  <2>2. GoodEntries' = GoodEntries
    BY <1>3, <1>5, GoodEntriesStay DEF Control, StepIs
  <2>3. g + 1 \in 1..n /\ g < tree'["Event"].branch[2].entryNumber
    BY <1>1, <1>2, <2>1 DEF IsFirstLoss
  <2> QED  BY <1>2, <2>1, <2>2, <2>3 DEF IsFirstLoss
<1> QED  BY <1>4, <1>5

LEMMA LedgerStep ==
  ASSUME Inv, Ledger, Next
  PROVE  Ledger'
<1>1. Shape /\ Control /\ Marks /\ Causes /\ EntriesInStep
  BY DEF Inv
<1>2. CASE FillStep
  <2>1. PICK new, ok : StepIs(new, ok)
    BY <1>1, <1>2, StepOfFill
  <2> QED  BY <1>1, <2>1, FillCovers, FillMarksLoss DEF Ledger
<1>3. CASE BeginEvent \/ FillHit \/ FillEvent
  <2>1. /\ UNCHANGED <<file, filled, failed>> /\ tree'["Event"] = tree["Event"]
        /\ filling # "Event" /\ (filling' = "Event" => column' = 1)
    BY <1>1, <1>3 DEF BeginEvent, FillHit, FillEvent, Shape, Trees, Control
  <2>2. EntriesCovered'
    BY <2>1 DEF Ledger, EntriesCovered
  <2>3. GoodEntries' = GoodEntries
    BY <2>1 DEF GoodEntries
  <2>4. \A n : EntryAfter(2, n) = EventEntry(2, n)
    BY <2>1 DEF EntryAfter, EventEntry
  <2>5. LossIsMarked'
    BY <2>1, <2>3, <2>4 DEF Ledger, LossIsMarked, IsFirstLoss, EntryAfter, EventEntry
  <2> QED  BY <2>2, <2>5 DEF Ledger
<1>4. CASE WriteTree
  <2>1. /\ UNCHANGED <<file, filled, failed, filling, column>> /\ filling = "none"
    BY <1>1, <1>4 DEF WriteTree, Control
  <2>2. /\ tree'["Event"].entries = tree["Event"].entries
        /\ Sound(tree'["Event"]) <=> Sound(tree["Event"])
        /\ \A b \in 1..3 : tree'["Event"].branch[b].entryNumber
                             = tree["Event"].branch[b].entryNumber
    BY <1>1, <1>4, WrittenTree DEF WrittenBranch
  <2>3. EntriesCovered'
    BY <2>1, <2>2 DEF Ledger, EntriesCovered
  <2>4. GoodEntries' = GoodEntries
    BY <2>1 DEF GoodEntries
  <2>5. ASSUME Sound(tree'["Event"]), failed' # {}
        PROVE  \E g \in Nat : /\ GoodEntries' = 1..g
                              /\ g < tree'["Event"].branch[2].entryNumber
                              /\ EntryAfter(2, g + 1) = Partial
    <3>1. PICK g \in Nat : IsFirstLoss(g)
      <4>1. Sound(tree["Event"])
        BY <2>2, <2>5
      <4>2. failed # {}
        BY <2>1, <2>5
      <4> QED  BY <4>1, <4>2 DEF Ledger, LossIsMarked
    <3>2. tree["Event"].branch[2].entryNumber \in Nat
      <4>1. IsBranch(tree["Event"].branch[2])
        BY <1>1, WidthIs DEF Shape, Trees
      <4> QED  BY <4>1 DEF IsBranch
    <3>3. g + 1 \in 1..tree["Event"].branch[2].entryNumber
      BY <3>1, <3>2 DEF IsFirstLoss
    <3>4. EntryAfter(2, g + 1) = EventEntry(2, g + 1)
      BY <1>1, <1>4, <2>2, <2>5, <3>3, WrittenEntries
    <3> QED  BY <2>2, <2>4, <3>1, <3>4 DEF IsFirstLoss
  <2>6. LossIsMarked'
    BY <2>5 DEF LossIsMarked, IsFirstLoss, EventEntry, EntryAfter
  <2> QED  BY <2>3, <2>6 DEF Ledger
<1> QED  BY <1>2, <1>3, <1>4 DEF Next

LEMMA LedgerInit == Init => Ledger
<1> SUFFICES ASSUME Init
             PROVE  Ledger
  OBVIOUS
<1>1. failed = {} /\ filled = <<>> /\ filling = "none"
  BY DEF Init
<1>2. tree["Event"].entries = 0 /\ \A b \in 1..3 : tree["Event"].branch[b].entryNumber \in Nat
  <2>1. tree["Event"].entries = 0
    BY DEF Init, NewTree
  <2>2. Shape
    BY InitInv DEF Inv
  <2> QED  BY <2>1, <2>2, WidthIs DEF Shape, Trees, IsBranch
<1>3. Len(filled) = 0
  BY <1>1, EmptyIsSequence
<1> QED  BY <1>1, <1>2, <1>3 DEF Ledger, EntriesCovered, LossIsMarked

-----------------------------------------------------------------------------
(***************************************************************************)
(* The inductive invariant of the reader.                                  *)
(***************************************************************************)
ReadInv ==
  /\ Inv /\ Ledger /\ Opened /\ HitReaders /\ Loop
  /\ LeavesAreEntries /\ HitIsTheObject /\ InOrder

\* The tree that is read is the one that was written.
LEMMA WrittenImage ==
  ASSUME Inv, Ledger, stage = "written"
  PROVE  /\ Sound(tree["Event"]) /\ LiveImage = image /\ filling = "none"
         /\ image.entries = Len(filled) /\ Len(filled) \in Nat
         /\ DOMAIN filled = 1..Len(filled) /\ DOMAIN image.branch = 1..3
         /\ \A b \in 1..3 :
              /\ IsImage(image.branch[b], file)
              /\ image.branch[b].entryNumber = tree["Event"].branch[b].entryNumber
              /\ image.branch[b].entryNumber \in Nat
              /\ Len(filled) <= image.branch[b].entryNumber
              /\ \A n \in 1..image.branch[b].entryNumber :
                   EntryOf(image.branch[b], file, n - 1) = EventEntry(b, n)
<1>1. Sound(tree["Event"]) /\ LiveImage = image /\ filling = "none"
  BY DEF Inv, ImageIsTree, LiveImage, Control
<1>2. /\ image.entries = tree["Event"].entries /\ DOMAIN image.branch = 1..3
      /\ \A b \in 1..3 :
           /\ IsImage(image.branch[b], file)
           /\ tree["Event"].branch[b].entryNumber \in Nat
           /\ image.branch[b].entryNumber = tree["Event"].branch[b].entryNumber
           /\ \A n \in 1..tree["Event"].branch[b].entryNumber :
                EntryOf(image.branch[b], file, n - 1) = EventEntry(b, n)
  BY <1>1, LiveEntries
<1>3. Len(filled) \in Nat /\ DOMAIN filled = 1..Len(filled)
  BY AppendAny DEF Inv, Control
<1>4. /\ tree["Event"].entries = Len(filled)
      /\ \A b \in 1..3 : Len(filled) <= tree["Event"].branch[b].entryNumber
  BY <1>1, <1>3 DEF Ledger, EntriesCovered
<1> QED  BY <1>1, <1>2, <1>3, <1>4

\* The object of an entry is the tree of an event, or none.
IsWhole(val) ==
  /\ val[2].entries \in Nat /\ DOMAIN val[2].branch = 1..2
  /\ \A b \in 1..2 : /\ IsImage(val[2].branch[b], file)
                     /\ val[2].branch[b].entryNumber = val[2].entries

LEMMA ObjectIsTree ==
  ASSUME Inv, Ledger, stage = "written", NEW n \in 0..image.entries - 1
  PROVE  EntryOf(image.branch[2], file, n) # Partial =>
           IsWhole(EntryOf(image.branch[2], file, n))
<1>1. PICK k : k = n + 1
  OBVIOUS
<1>2. PICK val : val = EntryOf(image.branch[2], file, n)
  OBVIOUS
<1>3. /\ k \in 1..tree["Event"].branch[2].entryNumber /\ k - 1 = n
      /\ val = EventEntry(2, k) /\ filling = "none" /\ Sound(tree["Event"])
  <2>1. /\ image.entries = Len(filled) /\ Len(filled) \in Nat
        /\ Len(filled) <= image.branch[2].entryNumber
        /\ image.branch[2].entryNumber = tree["Event"].branch[2].entryNumber
        /\ image.branch[2].entryNumber \in Nat
        /\ \A m \in 1..image.branch[2].entryNumber :
             EntryOf(image.branch[2], file, m - 1) = EventEntry(2, m)
    BY WrittenImage
  <2>2. k \in 1..image.branch[2].entryNumber /\ k - 1 = n
    BY <1>1, <2>1
  <2> QED  BY <1>2, <2>1, <2>2, WrittenImage
<1> SUFFICES ASSUME val # Partial
             PROVE  IsWhole(val)
  BY <1>2
<1>4. IsWhole(val)
  <2>1. PICK m \in DOMAIN filled : IsEntryOf(val, 2, filled[m], file)
    BY <1>3 DEF Inv, TreesAreWhole
  <2>2. /\ val[2].entries = filled[m].rows /\ DOMAIN val[2].branch = 1..2
        /\ \A b \in 1..2 : /\ IsImage(val[2].branch[b], file)
                           /\ val[2].branch[b].entryNumber = filled[m].rows
    BY <2>1, WidthIs DEF IsEntryOf, IsTreeOf
  <2>3. filled[m].rows \in Nat
    BY WrootTreeAssumption DEF Inv, Control, WrootTreeAssumption
  <2> QED  BY <2>2, <2>3 DEF IsWhole
<1> QED  BY <1>4

\* An image that was just streamed has no basket of the file.
LEMMA NewIsReader ==
  ASSUME NEW img, IsImage(img, file), NEW rb, rb = NewReader(img)
  PROVE  IsReader(rb, file) /\ rb.img = img
<1>1. /\ DOMAIN rb = ReaderFields /\ rb.img = img /\ rb.readBasket = 0
      /\ rb.cur = NoBasket /\ rb.owned = <<>>
  BY DEF NewReader, ReaderFields
<1>2. DOMAIN rb.owned = {}
  BY <1>1, EmptyIsSequence
<1> QED  BY <1>1, <1>2 DEF IsReader
-----------------------------------------------------------------------------
(***************************************************************************)
(* The writer's steps, and opening the tree.                               *)
(***************************************************************************)
LEMMA ReadInitInv == ReadInit => ReadInv
<1> SUFFICES ASSUME ReadInit
             PROVE  ReadInv
  OBVIOUS
<1>1. Inv /\ Ledger
  BY InitInv, LedgerInit DEF ReadInit
<1>2. /\ branch = <<>> /\ hitTree = EmptyTree /\ entry = NoEntry /\ ievent = 0
      /\ reading = "event" /\ at = 1 /\ row = 0 /\ garbled = FALSE /\ anyOrder \in BOOLEAN
  BY RrootTreeAssumption DEF ReadInit, RrootTreeAssumption
<1>3. /\ DOMAIN branch = {} /\ DOMAIN hitTree = {"entries", "branch"}
      /\ hitTree.entries = 0 /\ hitTree.branch = <<>> /\ DOMAIN hitTree.branch = {}
  BY <1>2, EmptyIsSequence DEF EmptyTree
<1>4. Opened /\ HitReaders
  BY <1>2, <1>3 DEF Opened, HitReaders
<1>6. Loop
  <2>1. reading # "rows" /\ 1 \in 1..3 /\ 0 \in Nat
    BY <1>2
  <2>2. at \in 1..IF reading = "rows" THEN 2 ELSE 3
    BY <1>2, <2>1
  <2> QED  BY <1>2, <2>1, <2>2 DEF Loop
<1>5. LeavesAreEntries /\ HitIsTheObject /\ InOrder
  BY <1>2 DEF LeavesAreEntries, HitIsTheObject, InOrder, Done
<1> QED  BY <1>1, <1>4, <1>5, <1>6 DEF ReadInv

\* Once the tree is written the writer has nothing left to do.
LEMMA WriterStepKeeps ==
  ASSUME ReadInv, Next, UNCHANGED readVars
  PROVE  ReadInv'
<1>1. Inv' /\ Ledger'
  BY NextInv, LedgerStep DEF ReadInv
<1>2. stage # "written"
  BY DEF ReadInv, Inv, Control, Next, BeginEvent, FillHit, FillEvent, FillStep, WriteTree
<1>3. branch = <<>> /\ entry = NoEntry /\ ievent = 0 /\ hitTree.branch = <<>>
  BY <1>2 DEF ReadInv, Opened, HitReaders
<1>4. UNCHANGED <<anyOrder, branch, hitTree, entry, ievent, reading, at, row, garbled>>
  BY DEF readVars
<1>5. DOMAIN branch = {} /\ DOMAIN hitTree.branch = {}
  BY <1>3, EmptyIsSequence
<1>6. Opened' /\ HitReaders' /\ Loop'
  BY <1>3, <1>4, <1>5 DEF ReadInv, Opened, HitReaders, Loop
<1>7. LeavesAreEntries' /\ HitIsTheObject' /\ InOrder'
  BY <1>3, <1>4 DEF LeavesAreEntries, HitIsTheObject, InOrder, Done
<1> QED  BY <1>1, <1>6, <1>7 DEF ReadInv

\* The reader changes nothing of the writer.
LEMMA WriterKept ==
  ASSUME Inv, Ledger, UNCHANGED vars
  PROVE  /\ Inv' /\ Ledger' /\ GoodEntries' = GoodEntries
         /\ UNCHANGED <<tree, file, stage, filled, failed, image>>
<1>1. UNCHANGED <<tree, file, stage, filling, column, filled, failed, image>>
  BY DEF vars
<1>2. GoodEntries' = GoodEntries
  BY <1>1 DEF GoodEntries
<1>3. EntriesCovered'
  BY <1>1 DEF Ledger, EntriesCovered
<1>4. \A g : IsFirstLoss(g) => (GoodEntries' = 1..g /\ g < tree'["Event"].branch[2].entryNumber
                                 /\ EntryAfter(2, g + 1) = Partial)
  BY <1>1, <1>2 DEF IsFirstLoss, EntryAfter, EventEntry
<1>5. LossIsMarked'
  BY <1>1, <1>4 DEF Ledger, LossIsMarked, IsFirstLoss, EntryAfter, EventEntry
<1>6. Inv'
  BY NextInv
<1> QED  BY <1>1, <1>2, <1>3, <1>5, <1>6 DEF Ledger

LEMMA IdleStepKeeps ==
  ASSUME ReadInv, UNCHANGED <<vars, readVars>>
  PROVE  ReadInv'
<1>1. /\ Inv' /\ Ledger' /\ GoodEntries' = GoodEntries
      /\ UNCHANGED <<file, stage, image>>
  BY WriterKept DEF ReadInv
<1>2. UNCHANGED <<anyOrder, branch, hitTree, entry, ievent, reading, at, row, garbled>>
  BY DEF readVars
<1>3. Opened' /\ HitReaders' /\ Loop'
  BY <1>1, <1>2 DEF ReadInv, Opened, HitReaders, Loop
<1>4. LeavesAreEntries'
  BY <1>1, <1>2 DEF ReadInv, LeavesAreEntries, Done
<1>5. HitIsTheObject'
  BY <1>1, <1>2 DEF ReadInv, HitIsTheObject, HitIsOf
<1>6. InOrder'
  BY <1>1, <1>2 DEF ReadInv, InOrder
<1> QED  BY <1>1, <1>3, <1>4, <1>5, <1>6 DEF ReadInv

LEMMA OpenKeeps ==
  ASSUME ReadInv, OpenTree, UNCHANGED vars
  PROVE  ReadInv'
<1>1. /\ Inv /\ Ledger /\ stage = "written" /\ branch = <<>>
      /\ branch' = [b \in DOMAIN image.branch |-> NewReader(image.branch[b])]
      /\ UNCHANGED <<anyOrder, hitTree, entry, ievent, reading, at, row, garbled>>
      /\ UNCHANGED <<file, stage, image, failed, filled>>
      /\ Inv' /\ Ledger'
  BY WriterKept DEF ReadInv, OpenTree
<1>2. entry = NoEntry /\ ievent = 0 /\ hitTree.branch = <<>> /\ HitReaders /\ Loop
  BY <1>1 DEF ReadInv, Opened, HitReaders
<1>3. DOMAIN branch' = 1..3 /\ \A b \in 1..3 : IsImage(image.branch[b], file)
  BY <1>1, WrittenImage
<1>4. \A b \in 1..3 : branch'[b].img = image.branch[b] /\ IsReader(branch'[b], file)
  BY <1>1, <1>3, NewIsReader
<1>5. AreBranches(branch', 3) /\ branch' # <<>>
  <2>1. AreBranches(branch', 3)
    BY <1>1, <1>3, WrittenImage DEF AreBranches
  <2> QED  BY <2>1, BranchesAre
<1>6. Opened'
  BY <1>1, <1>3, <1>4, <1>5 DEF Opened
<1>7. HitReaders' /\ Loop'
  BY <1>1, <1>2, <1>5, EmptyIsSequence DEF HitReaders, Loop
<1>8. LeavesAreEntries' /\ HitIsTheObject' /\ InOrder'
  BY <1>1, <1>2 DEF LeavesAreEntries, HitIsTheObject, InOrder, Done
<1> QED  BY <1>1, <1>6, <1>7, <1>8 DEF ReadInv

-----------------------------------------------------------------------------
(***************************************************************************)
(* The reader's steps.                                                     *)
(***************************************************************************)
\* What a step of the reader leaves alone.
Stays ==
  /\ UNCHANGED <<file, stage, image>> /\ Inv' /\ Ledger' /\ GoodEntries' = GoodEntries

LEMMA ReaderStays ==
  ASSUME ReadInv, UNCHANGED vars
  PROVE  Stays
BY WriterKept DEF ReadInv, Stays

LEMMA ReadEntryKeeps ==
  ASSUME ReadInv, NEW n \in Nat, ReadEntry(n), UNCHANGED vars
  PROVE  ReadInv'
<1>1. Stays
  BY ReaderStays
<1>2. /\ branch # <<>> /\ entry = NoEntry /\ n < image.entries /\ (anyOrder \/ n = ievent)
      /\ entry' = n /\ reading' = "event" /\ at' = 1
      /\ UNCHANGED <<anyOrder, branch, hitTree, ievent, row, garbled>>
  BY DEF ReadEntry
<1>3. stage = "written" /\ image.entries \in Nat
  <2>1. stage = "written"
    BY <1>2 DEF ReadInv, Opened
  <2> QED  BY <2>1, WrittenImage DEF ReadInv
<1>4. Opened' /\ HitReaders'
  BY <1>1, <1>2 DEF ReadInv, Opened, HitReaders, Stays
<1>5. Loop'
  <2>1. n \in 0..image.entries - 1
    BY <1>2, <1>3
  <2>2. at' \in 1..IF reading' = "rows" THEN 2 ELSE 3
    BY <1>2
  <2> QED  BY <1>1, <1>2, <2>1, <2>2 DEF ReadInv, Loop, Stays
<1>6. LeavesAreEntries' /\ HitIsTheObject'
  <2>1. \A c : ~Done(c)'
    BY <1>2 DEF Done
  <2> QED  BY <1>2, <2>1 DEF LeavesAreEntries, HitIsTheObject
<1>7. InOrder'
  <2>1. ievent = n => ievent # image.entries
    BY <1>2, <1>3
  <2> QED  BY <1>1, <1>2, <2>1 DEF ReadInv, InOrder, Stays
<1> QED  BY <1>1, <1>4, <1>5, <1>6, <1>7 DEF ReadInv, Stays

LEMMA NextEntryKeeps ==
  ASSUME ReadInv, NextEntry, UNCHANGED vars
  PROVE  ReadInv'
<1>1. Stays
  BY ReaderStays
<1>2. /\ entry # NoEntry /\ reading = "rows"
      /\ entry' = NoEntry /\ ievent' = entry + 1 /\ at' = 1 /\ row' = 0 /\ reading' = "event"
      /\ UNCHANGED <<anyOrder, branch, hitTree, garbled>>
  BY DEF NextEntry
<1>3. branch # <<>> /\ entry \in Nat /\ ievent \in Nat
  BY <1>2 DEF ReadInv, Opened, Loop
<1>4. Opened' /\ HitReaders'
  BY <1>1, <1>2, <1>3 DEF ReadInv, Opened, HitReaders, Stays
<1>5. Loop'
  <2>1. at' \in 1..IF reading' = "rows" THEN 2 ELSE 3
    BY <1>2
  <2> QED  BY <1>1, <1>2, <1>3, <2>1 DEF ReadInv, Loop, Stays
<1>6. LeavesAreEntries' /\ HitIsTheObject'
  BY <1>2 DEF LeavesAreEntries, HitIsTheObject, Done
<1>7. InOrder'
  <2> SUFFICES ASSUME ~anyOrder, ~garbled
               PROVE  1..ievent' \subseteq GoodEntries
    BY <1>1, <1>2 DEF InOrder, Stays
  <2>1. entry = ievent /\ 1..ievent \subseteq GoodEntries /\ entry + 1 \in GoodEntries
    BY <1>2, <1>3 DEF ReadInv, InOrder
  <2> QED  BY <1>2, <1>3, <2>1
<1> QED  BY <1>1, <1>4, <1>5, <1>6, <1>7 DEF ReadInv, Stays

\* The entry cannot be read.
LEMMA GiveUpKeeps ==
  ASSUME ReadInv, Stays, Opened', HitReaders', GiveUp, entry # NoEntry,
         anyOrder' = anyOrder, garbled' = garbled
  PROVE  ReadInv'
<1>1. entry' = NoEntry /\ ievent' = image.entries /\ at' = 1 /\ row' = 0 /\ reading' = "event"
  BY DEF GiveUp
<1>2. image.entries \in Nat
  <2>1. stage = "written"
    BY DEF ReadInv, Opened
  <2> QED  BY <2>1, WrittenImage DEF ReadInv
<1>3. Loop'
  <2>1. at' \in 1..IF reading' = "rows" THEN 2 ELSE 3
    BY <1>1
  <2> QED  BY <1>1, <1>2, <2>1 DEF ReadInv, Loop
<1>4. LeavesAreEntries' /\ HitIsTheObject' /\ InOrder'
  BY <1>1 DEF LeavesAreEntries, HitIsTheObject, InOrder, Done, Stays
<1> QED  BY <1>3, <1>4 DEF ReadInv, Stays

-----------------------------------------------------------------------------
(***************************************************************************)
(* ReadColumn.                                                             *)
(***************************************************************************)
\* The column that is read, and those that were.
LEMMA ColumnOrder ==
  ASSUME NEW k \in 1..3
  PROVE  /\ ReadOrder[k] \in 1..3
         /\ Columns("Event")[ReadOrder[k]] = "hit" <=> k = 3
         /\ ReadOrder[k] = 2 <=> k = 3
<1>1. CASE k = 1
  BY <1>1 DEF ReadOrder, Columns
<1>2. CASE k = 2
  BY <1>2 DEF ReadOrder, Columns
<1>3. CASE k = 3
  BY <1>3 DEF ReadOrder, Columns
<1> QED  BY <1>1, <1>2, <1>3

\* What read_data() finds in a column of the entry.
LEMMA ColumnFound ==
  ASSUME ReadInv, entry # NoEntry, NEW c \in 1..3, NEW out \in Outcomes(branch[c], entry)
  PROVE  /\ IsReader(out.rb, file) /\ out.rb.img = image.branch[c]
         /\ out.ok => out.rb.leaf = EntryOf(image.branch[c], file, entry)
<1>1. PICK rb : rb = branch[c]
  OBVIOUS
<1>2. stage = "written" /\ AreBranches(branch, 3) /\ entry \in 0..image.entries - 1
  BY DEF ReadInv, Opened, Loop
<1>3. DOMAIN branch = 1..3
  BY <1>2 DEF AreBranches
<1>4. rb.img = image.branch[c] /\ IsReader(rb, file)
  BY <1>1, <1>3 DEF ReadInv, Opened
<1>5. /\ image.entries \in Nat /\ image.entries <= image.branch[c].entryNumber
      /\ image.branch[c].entryNumber \in Nat
  <2>1. /\ image.entries = Len(filled) /\ Len(filled) \in Nat
        /\ Len(filled) <= image.branch[c].entryNumber
        /\ image.branch[c].entryNumber \in Nat
    BY <1>2, WrittenImage DEF ReadInv
  <2> QED  BY <2>1
<1>6. entry \in Nat /\ entry < rb.img.entryNumber
  <2>1. PICK n : n = entry
    OBVIOUS
  <2>2. n \in Nat /\ n < image.branch[c].entryNumber
    BY <1>2, <1>5, <2>1
  <2> QED  BY <1>4, <2>1, <2>2
<1>7. PICK readable : out = FindEntry(rb, entry, readable)
  BY <1>1 DEF Outcomes
<1>8. Found(rb, entry, out)
  BY <1>4, <1>6, <1>7, FindEntryFinds
<1> QED  BY <1>4, <1>6, <1>8 DEF Found

\* The branch keeps its reader.
LEMMA ColumnOpened ==
  ASSUME ReadInv, Stays, entry # NoEntry, NEW c \in 1..3, NEW rb,
         IsReader(rb, file), rb.img = image.branch[c], branch' = [branch EXCEPT ![c] = rb]
  PROVE  /\ Opened' /\ branch'[c] = rb /\ branch' # <<>>
         /\ \A b \in 1..3 : b # c => branch'[b] = branch[b]
<1>1. stage = "written" /\ AreBranches(branch, 3) /\ branch # <<>>
  BY DEF ReadInv, Opened
<1>2. PICK f : f = branch
  OBVIOUS
<1>3. PICK g : g = branch'
  OBVIOUS
<1>4. /\ AreBranches(g, 3) /\ g[c] = rb /\ \A b \in 1..3 : b # c => g[b] = f[b]
      /\ DOMAIN g = 1..3 /\ g # <<>> /\ DOMAIN f = 1..3
  <2>1. AreBranches(g, 3) /\ g[c] = rb /\ \A b \in 1..3 : b # c => g[b] = f[b]
    BY <1>1, <1>2, <1>3 DEF AreBranches
  <2>2. DOMAIN g = 1..3 /\ DOMAIN f = 1..3
    BY <1>1, <1>2, <2>1 DEF AreBranches
  <2>3. g # <<>>
    <3>1. 1 \in DOMAIN g
      BY <2>2
    <3> QED  BY <3>1, EmptyIsSequence
  <2> QED  BY <2>1, <2>2, <2>3
<1>5. \A b \in 1..3 : branch'[b].img = image.branch[b] /\ IsReader(branch'[b], file)
  BY <1>2, <1>3, <1>4 DEF ReadInv, Opened
<1>6. Opened'
  BY <1>1, <1>3, <1>4, <1>5 DEF Opened, Stays
<1> QED  BY <1>2, <1>3, <1>4, <1>6

\* The entry behind the good ones has no object.
LEMMA GoodIsNext ==
  ASSUME ReadInv, entry \in 0..image.entries - 1, stage = "written",
         1..entry \subseteq GoodEntries, EntryOf(image.branch[2], file, entry) # Partial
  PROVE  entry + 1 \in GoodEntries
<1>1. /\ image.entries = Len(filled) /\ Len(filled) \in Nat /\ DOMAIN filled = 1..Len(filled)
      /\ Sound(tree["Event"])
      /\ image.branch[2].entryNumber = tree["Event"].branch[2].entryNumber
      /\ image.branch[2].entryNumber \in Nat
      /\ \A n \in 1..image.branch[2].entryNumber :
           EntryOf(image.branch[2], file, n - 1) = EventEntry(2, n)
  BY WrittenImage DEF ReadInv
<1>2. CASE failed = {}
  <2>1. entry + 1 \in DOMAIN filled
    BY <1>1
  <2> QED  BY <1>2, <2>1 DEF GoodEntries
<1>3. CASE failed # {}
  <2>1. PICK g \in Nat : IsFirstLoss(g)
    BY <1>1, <1>3 DEF ReadInv, Ledger, LossIsMarked
  <2>2. GoodEntries = 1..g /\ g < image.branch[2].entryNumber /\ EventEntry(2, g + 1) = Partial
    BY <1>1, <2>1 DEF IsFirstLoss
  <2>3. entry \in Nat /\ entry <= g
    <3>1. entry \in Nat
      BY <1>1
    <3>2. CASE entry = 0
      BY <3>2
    <3>3. CASE entry # 0
      <4>1. entry \in 1..entry
        BY <3>1, <3>3
      <4> QED  BY <2>2, <4>1
    <3> QED  BY <3>1, <3>2, <3>3
  <2>4. entry # g
    <3>1. g + 1 \in 1..image.branch[2].entryNumber /\ g + 1 - 1 = g
      BY <1>1, <2>2
    <3>2. EntryOf(image.branch[2], file, g) = Partial
      BY <1>1, <2>2, <3>1
    <3> QED  BY <3>2
  <2> QED  BY <2>2, <2>3, <2>4
<1> QED  BY <1>2, <1>3

\* The next column, or the rows behind the last.
ColumnStep ==
  /\ entry' = entry /\ ievent' = ievent
  /\ at < 3 => at' = at + 1 /\ reading' = "event" /\ row' = row
  /\ at = 3 => at' = 1 /\ reading' = "rows" /\ row' = 0

LEMMA ColumnAdvances ==
  ASSUME ReadInv, reading = "event", NextColumn(3)
  PROVE  ColumnStep
<1>1. at \in 1..3
  BY DEF ReadInv, Loop
<1> QED  BY <1>1 DEF NextColumn, ColumnStep

\* The column was read: the leaf is the entry, and behind the last column
\* comes the object's first row.
LEMMA ColumnKeeps ==
  ASSUME ReadInv, Stays, entry # NoEntry, reading = "event", ColumnStep,
         Opened', HitReaders', branch' # <<>>, anyOrder' = anyOrder, garbled' \in BOOLEAN,
         \A b \in 1..3 : b # ReadOrder[at] => branch'[b] = branch[b],
         branch'[ReadOrder[at]].leaf = EntryOf(image.branch[ReadOrder[at]], file, entry),
         garbled => garbled',
         at = 3 => \/ garbled' /\ hitTree' = EmptyTree
                      /\ EntryOf(image.branch[2], file, entry) = Partial
                   \/ /\ EntryOf(image.branch[2], file, entry) # Partial
                      /\ hitTree' = TreeRead(EntryOf(image.branch[2], file, entry)[2])
  PROVE  ReadInv'
<1>1. /\ at \in 1..3 /\ entry \in 0..image.entries - 1 /\ row \in Nat /\ ievent \in Nat
      /\ anyOrder \in BOOLEAN /\ garbled \in BOOLEAN
  BY DEF ReadInv, Loop
<1>2. /\ UNCHANGED <<file, image>> /\ GoodEntries' = GoodEntries /\ stage = "written"
      /\ branch # <<>>
  BY DEF Stays, ReadInv, Opened
<1>3. at < 3 \/ at = 3
  BY <1>1
<1>4. Loop'
  <2>1. at' \in 1..IF reading' = "rows" THEN 2 ELSE 3
    <3>1. CASE at < 3
      <4>1. at' = at + 1 /\ reading' # "rows"
        BY <3>1 DEF ColumnStep
      <4> QED  BY <1>1, <3>1, <4>1
    <3>2. CASE at = 3
      BY <3>2 DEF ColumnStep
    <3> QED  BY <1>3, <3>1, <3>2
  <2>2. reading' \in {"event", "rows"} /\ row' \in Nat
    BY <1>1, <1>3 DEF ColumnStep
  <2> QED  BY <1>1, <1>2, <2>1, <2>2 DEF Loop, ColumnStep
<1>5. LeavesAreEntries'
  <2> SUFFICES ASSUME NEW c \in 1..3, Done(c)'
               PROVE  branch'[c].leaf = EntryOf(image.branch[c], file, entry)
    BY <1>2 DEF LeavesAreEntries, ColumnStep
  <2>1. CASE c = ReadOrder[at]
    BY <2>1
  <2>2. CASE c # ReadOrder[at]
    <3>1. \E k \in 1..at - 1 : ReadOrder[k] = c
      <4>1. CASE at < 3
        <5>1. PICK k \in 1..at' - 1 : ReadOrder[k] = c
          BY <4>1 DEF Done, ColumnStep
        <5>2. k \in 1..at /\ k # at
          BY <1>1, <2>2, <4>1, <5>1 DEF ColumnStep
        <5>3. k \in 1..at - 1
          BY <1>1, <5>2
        <5> QED  BY <5>1, <5>3
      <4>2. CASE at = 3
        <5>1. c \in {1, 3}
          BY <2>2, <4>2 DEF ReadOrder
        <5>2. 1 \in 1..at - 1 /\ 2 \in 1..at - 1 /\ ReadOrder[1] = 1 /\ ReadOrder[2] = 3
          BY <4>2 DEF ReadOrder
        <5> QED  BY <5>1, <5>2
      <4> QED  BY <1>3, <4>1, <4>2
    <3>2. Done(c)
      BY <3>1 DEF Done
    <3> QED  BY <2>2, <3>2 DEF ReadInv, LeavesAreEntries
  <2> QED  BY <2>1, <2>2
<1>6. HitIsTheObject'
  <2> SUFFICES ASSUME at = 3
               PROVE  HitIsTheObject'
    BY <1>3 DEF HitIsTheObject, ColumnStep
  <2>1. PICK val : val = EntryOf(image.branch[2], file, entry)
    OBVIOUS
  <2>2. at' = 1 /\ entry' = entry
    BY DEF ColumnStep
  <2>3. CASE val = Partial
    BY <1>2, <2>1, <2>2, <2>3 DEF HitIsTheObject
  <2>4. CASE val # Partial
    <3>1. IsWhole(val)
      BY <1>1, <1>2, <2>1, <2>4, ObjectIsTree DEF ReadInv
    <3>2. PICK t : t = val[2]
      OBVIOUS
    <3>3. DOMAIN t.branch = 1..2 /\ hitTree' = TreeRead(t)
      BY <2>1, <2>4, <3>1, <3>2 DEF IsWhole
    <3>4. hitTree'.entries = t.entries /\ AreBranches(hitTree'.branch, 2)
      BY <3>3 DEF TreeRead, AreBranches
    <3>5. \A b \in 1..2 : hitTree'.branch[b].img = t.branch[b]
      BY <3>3 DEF TreeRead, NewReader
    <3>6. HitIsOf(val)'
      BY <2>2, <2>4, <3>2, <3>4, <3>5 DEF HitIsOf
    <3> QED  BY <1>2, <2>1, <2>2, <3>6 DEF HitIsTheObject
  <2> QED  BY <2>3, <2>4
<1>7. InOrder'
  <2> SUFFICES ASSUME ~anyOrder, ~garbled'
               PROVE  /\ entry = ievent /\ 1..ievent \subseteq GoodEntries
                      /\ reading' = "rows" => entry + 1 \in GoodEntries
    BY <1>2 DEF InOrder, ColumnStep
  <2>1. entry = ievent /\ 1..ievent \subseteq GoodEntries
    BY <1>1, <1>2 DEF ReadInv, InOrder
  <2>2. reading' = "rows" => entry + 1 \in GoodEntries
    <3> SUFFICES ASSUME reading' = "rows"
                 PROVE  entry + 1 \in GoodEntries
      OBVIOUS
    <3>1. at = 3
      BY <1>3 DEF ColumnStep
    <3> QED  BY <1>1, <1>2, <2>1, <3>1, GoodIsNext
  <2> QED  BY <2>1, <2>2
<1> QED  BY <1>4, <1>5, <1>6, <1>7 DEF ReadInv, Stays

LEMMA ReadColumnKeeps ==
  ASSUME ReadInv, ReadColumn, UNCHANGED vars
  PROVE  ReadInv'
<1>1. Stays /\ UNCHANGED file
  BY ReaderStays DEF Stays
<1>2. entry # NoEntry /\ reading = "event" /\ anyOrder' = anyOrder
  BY DEF ReadColumn
<1>3. PICK c : c = ReadOrder[at]
  OBVIOUS
<1>4. at \in 1..3 /\ c \in 1..3 /\ (Columns("Event")[c] = "hit" <=> at = 3) /\ (c = 2 <=> at = 3)
  BY <1>2, <1>3, ColumnOrder DEF ReadInv, Loop
<1>5. stage = "written" /\ AreBranches(branch, 3) /\ branch # <<>> /\ garbled \in BOOLEAN
  BY <1>2 DEF ReadInv, Opened, Loop
<1>6. Len(branch) = 3
  <2>1. AreBranches(branch, 3) /\ 3 \in Nat \ {0}
    BY <1>5
  <2> QED  BY <2>1, BranchesAre
<1>7. PICK out \in Outcomes(branch[c], entry) :
        /\ branch' = [branch EXCEPT ![c] = out.rb]
        /\ \/ /\ out.ok /\ ~(at = 3 /\ out.rb.leaf = Partial)
              /\ hitTree' = IF at = 3 THEN TreeRead(out.rb.leaf[2]) ELSE hitTree
              /\ NextColumn(3) /\ UNCHANGED garbled
           \/ /\ out.ok /\ at = 3 /\ out.rb.leaf = Partial
              /\ hitTree' = EmptyTree /\ garbled' = TRUE /\ NextColumn(3)
           \/ GiveUp /\ UNCHANGED <<hitTree, garbled>>
  BY <1>3, <1>4, <1>6 DEF ReadColumn
<1>8. /\ IsReader(out.rb, file) /\ out.rb.img = image.branch[c]
      /\ out.ok => out.rb.leaf = EntryOf(image.branch[c], file, entry)
  BY <1>2, <1>4, ColumnFound
<1>9. /\ Opened' /\ branch'[c] = out.rb /\ branch' # <<>>
      /\ \A b \in 1..3 : b # c => branch'[b] = branch[b]
  BY <1>1, <1>2, <1>4, <1>7, <1>8, ColumnOpened
<1>10. CASE GiveUp /\ UNCHANGED <<hitTree, garbled>>
  <2>1. HitReaders'
    BY <1>1, <1>5, <1>9, <1>10 DEF ReadInv, HitReaders
  <2> QED  BY <1>1, <1>2, <1>9, <1>10, <2>1, GiveUpKeeps
<1>11. CASE out.ok /\ NextColumn(3) /\ UNCHANGED <<hitTree, garbled>> /\ at # 3
  <2>1. HitReaders'
    BY <1>1, <1>5, <1>9, <1>11 DEF ReadInv, HitReaders
  <2>2. ColumnStep
    BY <1>2, <1>11, ColumnAdvances
  <2> QED  BY <1>1, <1>2, <1>3, <1>5, <1>8, <1>9, <1>11, <2>1, <2>2, ColumnKeeps
<1>12. CASE out.ok /\ NextColumn(3) /\ at = 3 /\ hitTree' = EmptyTree /\ garbled' = TRUE
            /\ out.rb.leaf = Partial
  <2>1. HitReaders'
    <3>1. /\ DOMAIN hitTree' = {"entries", "branch"} /\ hitTree'.entries = 0
          /\ hitTree'.branch = <<>> /\ DOMAIN hitTree'.branch = {}
      BY <1>12, EmptyIsSequence DEF EmptyTree
    <3> QED  BY <3>1 DEF HitReaders
  <2>2. ColumnStep
    BY <1>2, <1>12, ColumnAdvances
  <2>3. EntryOf(image.branch[2], file, entry) = Partial
    BY <1>4, <1>8, <1>12
  <2> QED  BY <1>1, <1>2, <1>3, <1>5, <1>8, <1>9, <1>12, <2>1, <2>2, <2>3, ColumnKeeps
<1>13. CASE out.ok /\ NextColumn(3) /\ at = 3 /\ hitTree' = TreeRead(out.rb.leaf[2])
            /\ garbled' = garbled /\ out.rb.leaf # Partial
  <2>1. PICK val : val = EntryOf(image.branch[2], file, entry)
    OBVIOUS
  <2>2. out.rb.leaf = val /\ val # Partial
    BY <1>4, <1>8, <1>13, <2>1
  <2>3. entry \in 0..image.entries - 1
    BY <1>2 DEF ReadInv, Loop
  <2>4. IsWhole(val)
    BY <1>5, <2>1, <2>2, <2>3, ObjectIsTree DEF ReadInv
  <2>5. PICK t : t = val[2]
    OBVIOUS
  <2>6. /\ hitTree' = TreeRead(t) /\ t.entries \in Nat /\ DOMAIN t.branch = 1..2
        /\ \A b \in 1..2 : IsImage(t.branch[b], file)
    BY <1>13, <2>2, <2>4, <2>5 DEF IsWhole
  <2>7. HitReaders'
    <3>1. /\ DOMAIN hitTree' = {"entries", "branch"} /\ hitTree'.entries = t.entries
          /\ DOMAIN hitTree'.branch = 1..2
          /\ \A b \in 1..2 : hitTree'.branch[b] = NewReader(t.branch[b])
      BY <2>6 DEF TreeRead
    <3>2. \A b \in 1..2 : IsReader(hitTree'.branch[b], file)
      BY <2>6, <3>1, NewIsReader
    <3> QED  BY <1>1, <1>9, <2>6, <3>1, <3>2 DEF HitReaders
  <2>8. ColumnStep
    BY <1>2, <1>13, ColumnAdvances
  <2>9. hitTree' = TreeRead(EntryOf(image.branch[2], file, entry)[2])
    BY <2>1, <2>5, <2>6
  <2> QED  BY <1>1, <1>2, <1>3, <1>5, <1>8, <1>9, <1>13, <2>1, <2>2, <2>7, <2>8, <2>9, ColumnKeeps
<1> QED  BY <1>7, <1>10, <1>11, <1>12, <1>13

-----------------------------------------------------------------------------
(***************************************************************************)
(* ReadRow.                                                                *)
(***************************************************************************)
\* What process_hits() finds in a column of the row.
LEMMA RowFound ==
  ASSUME ReadInv, NEW val, IsWhole(val), HitIsOf(val), at \in 1..2, row \in Nat,
         row < hitTree.entries, NEW out \in Outcomes(hitTree.branch[at], row)
  PROVE  /\ IsReader(out.rb, file) /\ out.rb.img = val[2].branch[at]
         /\ out.ok => out.rb.leaf = EntryOf(val[2].branch[at], file, row)
<1>1. PICK rb : rb = hitTree.branch[at]
  OBVIOUS
<1>2. at \in DOMAIN hitTree.branch
  BY DEF HitIsOf, AreBranches
<1>3. IsReader(rb, file) /\ rb.img = val[2].branch[at]
  BY <1>1, <1>2 DEF ReadInv, HitReaders, HitIsOf
<1>4. row < rb.img.entryNumber
  BY <1>3 DEF IsWhole, HitIsOf
<1>5. PICK readable : out = FindEntry(rb, row, readable)
  BY <1>1 DEF Outcomes
<1>6. Found(rb, row, out)
  BY <1>3, <1>5, FindEntryFinds
<1> QED  BY <1>3, <1>4, <1>6 DEF Found

\* The tree object after a column of the row was read.
RowRead(rb) ==
  /\ DOMAIN hitTree' = {"entries", "branch"} /\ hitTree'.entries = hitTree.entries
  /\ AreBranches(hitTree'.branch, 2) /\ hitTree'.branch[at] = rb
  /\ \A b \in 1..2 : b # at => hitTree'.branch[b] = hitTree.branch[b]

LEMMA RowReadIs ==
  ASSUME HitReaders, AreBranches(hitTree.branch, 2), at \in 1..2, NEW rb,
         hitTree' = WithBranch(hitTree, at, rb)
  PROVE  RowRead(rb)
<1>1. PICK f : f = hitTree.branch
  OBVIOUS
<1>2. PICK g : g = [f EXCEPT ![at] = rb]
  OBVIOUS
<1>3. /\ AreBranches(g, 2) /\ g[at] = rb /\ \A b \in 1..2 : b # at => g[b] = f[b]
  BY <1>1, <1>2 DEF AreBranches
<1>4. /\ DOMAIN hitTree' = {"entries", "branch"} /\ hitTree'.entries = hitTree.entries
      /\ hitTree'.branch = g
  BY <1>1, <1>2 DEF HitReaders, WithBranch
<1> QED  BY <1>1, <1>3, <1>4 DEF RowRead

\* The next column of the row, or the next row.
RowStep ==
  /\ row < hitTree.entries /\ entry' = entry /\ ievent' = ievent /\ reading' = "rows"
  /\ at = 1 => at' = 2 /\ row' = row
  /\ at = 2 => at' = 1 /\ row' = row + 1

LEMMA RowKeeps ==
  ASSUME ReadInv, Stays, entry # NoEntry, reading = "rows", at \in 1..2, RowStep,
         NEW val, val = EntryOf(image.branch[2], file, entry), HitIsOf(val), HitReaders',
         NEW rb, RowRead(rb), rb.img = val[2].branch[at],
         rb.leaf = EntryOf(val[2].branch[at], file, row),
         UNCHANGED <<anyOrder, branch, garbled>>
  PROVE  ReadInv'
<1>1. /\ entry \in 0..image.entries - 1 /\ row \in Nat /\ ievent \in Nat
      /\ anyOrder \in BOOLEAN /\ garbled \in BOOLEAN
  BY DEF ReadInv, Loop
<1>2. UNCHANGED <<file, image, stage>> /\ GoodEntries' = GoodEntries
  BY DEF Stays
<1>3. Opened'
  BY <1>2 DEF ReadInv, Opened, RowStep
<1>4. Loop'
  <2>1. at' \in 1..IF reading' = "rows" THEN 2 ELSE 3
    BY DEF RowStep
  <2>2. row' \in Nat
    BY <1>1 DEF RowStep
  <2> QED  BY <1>1, <1>2, <2>1, <2>2 DEF Loop, RowStep
<1>5. LeavesAreEntries'
  BY <1>2 DEF ReadInv, LeavesAreEntries, Done, RowStep
<1>6. HitIsOf(val)'
  <2>1. \A b \in 1..2 : hitTree'.branch[b].img = val[2].branch[b]
    BY DEF HitIsOf, RowRead
  <2>2. ASSUME NEW b \in 1..2, b < at'
        PROVE  hitTree'.branch[b].leaf = EntryOf(val[2].branch[b], file, row')
    <3>1. at = 1 /\ b = 1 /\ row' = row
      BY <2>2 DEF RowStep
    <3> QED  BY <3>1 DEF RowRead
  <2>3. val # Partial /\ hitTree'.entries = val[2].entries /\ AreBranches(hitTree'.branch, 2)
    BY DEF HitIsOf, RowRead
  <2>4. 1 < at' => row' < hitTree'.entries
    BY DEF RowStep, RowRead
  <2> QED  BY <1>2, <2>1, <2>2, <2>3, <2>4 DEF HitIsOf
<1>7. HitIsTheObject'
  BY <1>2, <1>6 DEF HitIsTheObject, RowStep
<1>8. InOrder'
  BY <1>2 DEF ReadInv, InOrder, RowStep
<1> QED  BY <1>3, <1>4, <1>5, <1>7, <1>8 DEF ReadInv, Stays

LEMMA ReadRowKeeps ==
  ASSUME ReadInv, ReadRow, UNCHANGED vars
  PROVE  ReadInv'
<1>1. Stays /\ UNCHANGED file
  BY ReaderStays DEF Stays
<1>2. /\ entry # NoEntry /\ reading = "rows" /\ row < hitTree.entries
      /\ UNCHANGED <<anyOrder, branch, garbled>>
  BY DEF ReadRow
<1>3. /\ at \in 1..2 /\ row \in Nat /\ entry \in 0..image.entries - 1
      /\ stage = "written" /\ branch # <<>> /\ HitReaders
  BY <1>2 DEF ReadInv, Loop, Opened
<1>4. PICK val : val = EntryOf(image.branch[2], file, entry)
  OBVIOUS
<1>5. HitIsOf(val)
  <2>1. hitTree # EmptyTree
    BY <1>2, <1>3 DEF EmptyTree
  <2> QED  BY <1>2, <1>4, <2>1 DEF ReadInv, HitIsTheObject
<1>6. val # Partial /\ AreBranches(hitTree.branch, 2)
  BY <1>5 DEF HitIsOf
<1>7. IsWhole(val)
  <2>1. Inv /\ Ledger /\ stage = "written" /\ val # Partial
    BY <1>3, <1>6 DEF ReadInv
  <2>2. entry \in 0..image.entries - 1
    BY <1>3
  <2> QED  BY <1>4, <2>1, <2>2, ObjectIsTree
<1>8. Len(hitTree.branch) = 2
  <2>1. AreBranches(hitTree.branch, 2) /\ 2 \in Nat \ {0}
    BY <1>6
  <2> QED  BY <2>1, BranchesAre
<1>9. PICK out \in Outcomes(hitTree.branch[at], row) :
        /\ hitTree' = WithBranch(hitTree, at, out.rb)
        /\ (out.ok /\ NextColumn(2)) \/ GiveUp
  BY <1>8 DEF ReadRow
<1>10. /\ IsReader(out.rb, file) /\ out.rb.img = val[2].branch[at]
       /\ out.ok => out.rb.leaf = EntryOf(val[2].branch[at], file, row)
  BY <1>2, <1>3, <1>5, <1>7, RowFound
<1>11. RowRead(out.rb)
  BY <1>3, <1>6, <1>9, RowReadIs
<1>12. HitReaders'
  <2>1. DOMAIN hitTree'.branch = 1..2 /\ DOMAIN hitTree.branch = 1..2
    BY <1>6, <1>11 DEF RowRead, AreBranches
  <2>2. \A b \in 1..2 : IsReader(hitTree'.branch[b], file)
    BY <1>3, <1>10, <1>11, <2>1 DEF RowRead, HitReaders
  <2> QED  BY <1>1, <1>2, <1>3, <1>11, <2>1, <2>2 DEF HitReaders, RowRead
<1>13. Opened'
  BY <1>1, <1>2, <1>3 DEF ReadInv, Opened, Stays
<1>14. CASE GiveUp
  BY <1>1, <1>2, <1>12, <1>13, <1>14, GiveUpKeeps
<1>15. CASE out.ok /\ NextColumn(2)
  <2>1. RowStep
    BY <1>2, <1>3, <1>15 DEF NextColumn, RowStep
  <2> QED  BY <1>1, <1>2, <1>3, <1>4, <1>5, <1>10, <1>11, <1>12, <1>15, <2>1, RowKeeps
<1> QED  BY <1>9, <1>14, <1>15

-----------------------------------------------------------------------------
(***************************************************************************)
(* The invariant holds, and so do the properties.                          *)
(***************************************************************************)
LEMMA ReadNextInv == ReadInv /\ [ReadNext]_<<vars, readVars>> => ReadInv'
<1> SUFFICES ASSUME ReadInv, [ReadNext]_<<vars, readVars>>
             PROVE  ReadInv'
  OBVIOUS
<1>1. CASE Next /\ UNCHANGED readVars
  BY <1>1, WriterStepKeeps
<1>2. CASE OpenTree /\ UNCHANGED vars
  BY <1>2, OpenKeeps
<1>3. CASE ReadColumn /\ UNCHANGED vars
  BY <1>3, ReadColumnKeeps
<1>4. CASE ReadRow /\ UNCHANGED vars
  BY <1>4, ReadRowKeeps
<1>5. CASE NextEntry /\ UNCHANGED vars
  BY <1>5, NextEntryKeeps
<1>6. CASE UNCHANGED vars /\ \E n \in 0..MaxEvents - 1 : ReadEntry(n)
  <2>1. PICK n \in 0..MaxEvents - 1 : ReadEntry(n)
    BY <1>6
  <2>2. n \in Nat
    BY <2>1, WrootTreeAssumption DEF WrootTreeAssumption
  <2> QED  BY <1>6, <2>1, <2>2, ReadEntryKeeps
<1>7. CASE UNCHANGED <<vars, readVars>>
  BY <1>7, IdleStepKeeps
<1> QED  BY <1>1, <1>2, <1>3, <1>4, <1>5, <1>6, <1>7 DEF ReadNext

LEMMA ReadInvHolds == ReadSpec => []ReadInv
BY ReadInitInv, ReadNextInv, PTL DEF ReadSpec

\* Whichever read fails, a branch points to no basket that it has deleted, and
\* keeps at most one that it read (rroot::branch::find_entry).
THEOREM BasketsStayManaged == ReadSpec => []BasketsAreManaged
<1>1. ASSUME NEW rb, IsReader(rb, file)
      PROVE  rb.cur \in Mapped(rb) \cup {NoBasket} /\ Cardinality(DOMAIN rb.owned) <= 1
  <2>1. rb.cur \in Mapped(rb) \cup {NoBasket}
    BY <1>1 DEF IsReader
  <2>2. IsFiniteSet({rb.readBasket}) /\ Cardinality({rb.readBasket}) = 1
    BY FS_Singleton
  <2>3. DOMAIN rb.owned \subseteq {rb.readBasket}
    BY <1>1 DEF IsReader
  <2>4. Cardinality(DOMAIN rb.owned) <= Cardinality({rb.readBasket})
    BY <2>2, <2>3, FS_Subset
  <2> QED  BY <2>1, <2>2, <2>4
<1>2. ReadInv => BasketsAreManaged
  <2> SUFFICES ASSUME ReadInv, NEW rb \in Readers
               PROVE  /\ rb.cur \in Mapped(rb) \cup {NoBasket}
                      /\ Cardinality(DOMAIN rb.owned) <= 1
    BY DEF BasketsAreManaged
  <2>1. IsReader(rb, file)
    BY DEF ReadInv, Opened, HitReaders, Readers
  <2> QED  BY <1>1, <2>1
<1> QED  BY <1>2, ReadInvHolds, PTL

\* The leaf that find_entry(n) leaves is the entry n of the branch, in whatever
\* order the entries are read (rroot::branch::find_entry, read_leaves).
THEOREM LeavesAreTheEntry == ReadSpec => []LeafIsTheEntry
<1>1. ReadInv => LeafIsTheEntry
  <2> SUFFICES ASSUME ReadInv, NEW c \in DOMAIN branch, Done(c)
               PROVE  branch[c].leaf = EntryOf(branch[c].img, file, entry)
    BY DEF LeafIsTheEntry
  <2>1. branch # <<>>
    BY EmptyIsSequence
  <2>2. c \in 1..3
    BY <2>1 DEF ReadInv, Opened, AreBranches
  <2>3. branch[c].img = image.branch[c]
    BY DEF ReadInv, Opened
  <2> QED  BY <2>2, <2>3 DEF ReadInv, LeavesAreEntries
<1> QED  BY <1>1, ReadInvHolds, PTL

\* The columns of an entry that counts are those of one event, and the rows of
\* its hit tree are that event's (tree::fill, read_data, process_hits).
LEMMA EntryThatCounts ==
  ASSUME ReadInv, entry # NoEntry, reading = "rows", entry + 1 \in GoodEntries
  PROVE  \E e \in 1..MaxEvents :
           /\ branch[1].leaf = <<"event", e>> /\ branch[3].leaf = <<"event", e>>
           /\ \A c \in DOMAIN hitTree.branch :
                c < at => hitTree.branch[c].leaf = <<"row", e, row + 1>>
<1>1. PICK n : n = entry + 1
  OBVIOUS
<1>2. PICK f : f = filled[n]
  OBVIOUS
<1>3. entry \in 0..image.entries - 1 /\ stage = "written" /\ row \in Nat /\ at \in 1..2
  BY DEF ReadInv, Opened, Loop
<1>4. /\ Sound(tree["Event"]) /\ DOMAIN filled = 1..Len(filled) /\ Len(filled) \in Nat
      /\ \A b \in 1..3 :
           /\ tree["Event"].branch[b].entryNumber = image.branch[b].entryNumber
           /\ image.branch[b].entryNumber \in Nat
           /\ \A k \in 1..image.branch[b].entryNumber :
                EntryOf(image.branch[b], file, k - 1) = EventEntry(b, k)
  BY <1>3, WrittenImage DEF ReadInv
<1>5. n \in GoodEntries /\ n \in 1..Len(filled) /\ n - 1 = entry
  BY <1>1, <1>3, <1>4 DEF GoodEntries
<1>6. f.event \in 1..event /\ event \in 0..MaxEvents /\ f.rows \in Nat
  BY <1>2, <1>4, <1>5, WrootTreeAssumption DEF ReadInv, Inv, Control, WrootTreeAssumption
<1>7. f.event \in 1..MaxEvents
  BY <1>6, WrootTreeAssumption DEF WrootTreeAssumption
<1>8. ASSUME NEW b \in 1..3
      PROVE  IsEntryOf(EntryOf(image.branch[b], file, entry), b, f, file)
  <2>1. n <= tree["Event"].branch[b].entryNumber /\ IsEntryOf(EventEntry(b, n), b, f, file)
    BY <1>2, <1>4, <1>5, WidthIs DEF ReadInv, Inv, GoodEntriesHold
  <2>2. n \in 1..image.branch[b].entryNumber
    BY <1>4, <1>5, <2>1
  <2> QED  BY <1>4, <1>5, <2>1, <2>2
<1>9. branch[1].leaf = <<"event", f.event>> /\ branch[3].leaf = <<"event", f.event>>
  <2>1. \A c \in {1, 3} : branch[c].leaf = EntryOf(image.branch[c], file, entry)
    BY DEF ReadInv, LeavesAreEntries, Done
  <2>2. \A c \in {1, 3} : EntryOf(image.branch[c], file, entry) = <<"event", f.event>>
    BY <1>8 DEF IsEntryOf
  <2> QED  BY <2>1, <2>2
<1>10. ASSUME NEW c \in DOMAIN hitTree.branch, c < at
       PROVE  hitTree.branch[c].leaf = <<"row", f.event, row + 1>>
  <2>1. PICK val : val = EntryOf(image.branch[2], file, entry)
    OBVIOUS
  <2>2. val[1] = "tree" /\ IsTreeOf(val[2], f, file)
    BY <1>8, <2>1 DEF IsEntryOf
  <2>3. HitIsOf(val)
    <3>1. hitTree # EmptyTree
      <4>1. CASE hitTree = EmptyTree
        <5>1. hitTree.branch = <<>>
          BY <4>1 DEF EmptyTree
        <5> QED  BY <1>10, <5>1, EmptyIsSequence
      <4> QED  BY <4>1
    <3> QED  BY <2>1, <3>1 DEF ReadInv, HitIsTheObject
  <2>4. /\ c \in 1..2 /\ hitTree.branch[c].leaf = EntryOf(val[2].branch[c], file, row)
    BY <1>10, <2>3 DEF HitIsOf, AreBranches
  <2>5. row + 1 \in 1..f.rows
    BY <1>3, <1>6, <1>10, <2>2, <2>3, <2>4 DEF HitIsOf, IsTreeOf
  <2>6. EntryOf(val[2].branch[c], file, row) = <<"row", f.event, row + 1>>
    <3>1. PICK r : r = row + 1
      OBVIOUS
    <3>2. EntryOf(val[2].branch[c], file, r - 1) = <<"row", f.event, r>>
      BY <2>2, <2>4, <2>5, <3>1, WidthIs DEF IsTreeOf
    <3>3. r - 1 = row
      BY <1>3, <3>1
    <3>4. EntryOf(val[2].branch[c], file, row) = <<"row", f.event, r>>
      BY <3>2, <3>3
    <3> QED  BY <3>1, <3>4
  <2> QED  BY <2>4, <2>6
<1> QED  BY <1>7, <1>9, <1>10

\* The rows that are processed belong to the event whose columns were read, and
\* read_data() goes no further than the first entry without an object.
THEOREM RowsAreTheEvents == ReadSpec => []RowsBelongToTheEvent
<1>1. ReadInv => RowsBelongToTheEvent
  <2> SUFFICES ASSUME ReadInv, entry # NoEntry, reading = "rows"
               PROVE  RowsBelongToTheEvent
    BY DEF RowsBelongToTheEvent
  <2>1. ASSUME entry + 1 \in GoodEntries
        PROVE  /\ \A c \in DOMAIN hitTree.branch : c < at =>
                    \E e \in 1..MaxEvents :
                      /\ branch[1].leaf = <<"event", e>> /\ branch[3].leaf = <<"event", e>>
                      /\ hitTree.branch[c].leaf = <<"row", e, row + 1>>
               /\ branch[1].leaf = branch[3].leaf
    BY <2>1, EntryThatCounts
  <2>2. ~anyOrder /\ ~garbled => entry + 1 \in GoodEntries
    BY DEF ReadInv, InOrder
  <2> QED  BY <2>1, <2>2 DEF RowsBelongToTheEvent
<1> QED  BY <1>1, ReadInvHolds, PTL
=============================================================================
