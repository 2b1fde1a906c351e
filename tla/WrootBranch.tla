------------------------------ MODULE WrootBranch ------------------------------
(***************************************************************************)
(* inlib::wroot::branch and inlib::wroot::basket: one column of a tree,    *)
(* as the simulation writes it, and the same column as inlib::rroot reads  *)
(* it back.                                                                *)
(*                                                                         *)
(* A branch appends what its leaf holds to the OPEN basket, m_baskets at   *)
(* m_write_basket (every other slot of m_baskets is null, so the array is  *)
(* that one basket here).  A basket that could not take another entry of   *)
(* the same size becomes a record of the file, and a new one is opened.    *)
(* The bytes of an entry are a chunk: where it starts, how long it is and  *)
(* the value it stands for.  A seek is the number of a record of the file: *)
(* WrootFile says where the records are.                                   *)
(*                                                                         *)
(* m_entries always equals m_entry_number and is left out, and so are the  *)
(* byte totals.                                                            *)
(***************************************************************************)
EXTENDS Integers, Sequences, FiniteSets

CONSTANTS
  BasketSize,      \* branch::m_basket_size, 32000
  KeyLength,       \* key::m_key_length, the header in front of a basket
  InitialBaskets,  \* branch::m_max_baskets when it is made, 10
  InitialOffsets   \* basket::m_nev_buf_size when it is made, 1000

ASSUME WrootBranchAssumption ==
  /\ BasketSize \in Nat \ {0} /\ KeyLength \in Nat \ {0}
  /\ InitialBaskets \in Nat \ {0, 1}
  /\ InitialOffsets \in Nat \ {0, 1}

NoSeek == 0
Partial == <<"partial">>   \* what is left of an entry whose leaf failed
Garbage == <<"garbage">>   \* bytes no entry starts at

--------------------------------------------------------------------------------
(* Baskets *)

\* `tables' is false once m_entry_offset has been deleted.
NewBasket ==
  [data |-> <<>>, offset |-> <<>>, tables |-> TRUE, nev |-> 0,
   room |-> InitialOffsets, seekKey |-> NoSeek, last |-> 0]

LengthOf(data) ==
  IF data = <<>> THEN 0 ELSE data[Len(data)].at + data[Len(data)].size

\* write_on_file() stores nev + 1 offsets.
Room(bk) == IF bk.tables /\ bk.nev + 1 >= bk.room THEN 2 * bk.room ELSE bk.room

\* The offset of an entry counts from the key, not from the data.
EntryOffsetMutant(bk) == LengthOf(bk.data)
EntryOffset(bk) == KeyLength + LengthOf(bk.data)

Updated(bk) ==
  [bk EXCEPT !.room = Room(bk), !.nev = @ + 1,
             !.offset = IF bk.tables THEN Append(@, EntryOffset(bk)) ELSE @]

WithEntry(bk, val, size) ==
  [Updated(bk) EXCEPT
     !.data = Append(@, [at |-> LengthOf(bk.data), size |-> size, val |-> val])]

\* Would another entry of this size overflow the basket that just took one?
IsFull(bk, size) == LengthOf(bk.data) + size >= BasketSize

\* write_on_file() up to the ::write: the tables are gone and the seek is set
\* whether or not the bytes arrive.
Claimed(bk, seek) ==
  [bk EXCEPT !.tables = FALSE, !.last = KeyLength + LengthOf(bk.data),
             !.seekKey = seek]

Record(bk) ==
  [data |-> bk.data, offset |-> IF bk.tables THEN bk.offset ELSE <<>>, nev |-> bk.nev]
Torn == [data |-> <<>>, offset |-> <<>>, nev |-> 0]

\* basket::stream() refuses a basket that was written or streamed before.
CanStreamMutant(bk) == TRUE
CanStream(bk) == bk.seekKey = NoSeek /\ bk.last = 0 /\ bk.tables
Streamed(bk) == [bk EXCEPT !.last = KeyLength + LengthOf(bk.data)]

--------------------------------------------------------------------------------
(* Branches, as they are written *)

NewBranch ==
  [writeBasket |-> 0, entryNumber |-> 0, maxBaskets |-> InitialBaskets,
   basketEntry |-> [i \in 0..InitialBaskets - 1 |-> 0],
   basketSeek  |-> [i \in 0..InitialBaskets - 1 |-> NoSeek],
   open |-> NewBasket]

\* The entry is counted before its leaf is asked to write it.
Entered(br, val, size) ==
  [br EXCEPT !.entryNumber = @ + 1, !.open = WithEntry(@, val, size)]

\* check_alloc_fBasketXxx(): half as many again.
Larger(n) == IF (3 * n) \div 2 > InitialBaskets THEN (3 * n) \div 2 ELSE InitialBaskets
Extended(array, n) == [i \in 0..n - 1 |-> IF i \in DOMAIN array THEN array[i] ELSE 0]

\* The mutant forgets the growth's off-by-one: it leaves the last slot unused.
NeedsRoomMutant(w, n) == w > n
NeedsRoom(w, n) == w >= n

\* The first entry of the new basket is the number of entries so far.
FirstOfNextMutant(br) == br.entryNumber - 1
FirstOfNext(br) == br.entryNumber

\* What branch::fill() does once the open basket is the record at `seek'.
NextBasket(br, seek) ==
  LET w == br.writeBasket + 1
      n == IF NeedsRoom(w, br.maxBaskets) THEN Larger(br.maxBaskets) ELSE br.maxBaskets
  IN  [br EXCEPT
         !.writeBasket = w, !.maxBaskets = n, !.open = NewBasket,
         !.basketSeek  = Extended([@ EXCEPT ![br.writeBasket] = seek], n),
         !.basketEntry = [Extended(@, n) EXCEPT ![w] = FirstOfNext(br)]]

BranchImage(br) ==
  [writeBasket |-> br.writeBasket, entryNumber |-> br.entryNumber,
   basketEntry |-> br.basketEntry, basketSeek |-> br.basketSeek,
   open |-> Record(br.open)]

--------------------------------------------------------------------------------
(* Branches, as they are read *)

\* m_first_last: the first and the last entry of each basket.
FirstEntry(img, i) == img.basketEntry[i]
LastEntry(img, i) ==
  IF i = img.writeBasket THEN img.entryNumber - 1 ELSE img.basketEntry[i + 1] - 1
Windows(img) ==
  IF img.entryNumber > 0 THEN 0..img.writeBasket ELSE 0..img.writeBasket - 1

\* The checks of rroot::branch::stream() on fBasketSeek.
SeeksAreConsistent(img) ==
  LET set == {i \in DOMAIN img.basketSeek : img.basketSeek[i] # NoSeek}
  IN  img.writeBasket > 0 =>
        /\ Cardinality(set) = img.writeBasket
        /\ \A i \in set : i <= img.writeBasket - 1

HoldsEntry(img, i, n) == FirstEntry(img, i) <= n /\ n <= LastEntry(img, i)

BasketAt(img, file, i) ==
  IF i = img.writeBasket THEN img.open
  ELSE IF img.basketSeek[i] \in DOMAIN file THEN file[img.basketSeek[i]] ELSE Torn

\* The value of the k-th entry of a basket, from its offset.
ValueAt(rec, k) ==
  IF k > rec.nev \/ k > Len(rec.offset) THEN Garbage
  ELSE LET at    == rec.offset[k] - KeyLength
           found == {j \in DOMAIN rec.data : rec.data[j].at = at}
       IN  IF found = {} THEN Garbage ELSE rec.data[CHOOSE j \in found : TRUE].val

\* The n-th entry of a branch, counted from 0.
EntryOf(img, file, n) ==
  LET windows == {i \in Windows(img) : HoldsEntry(img, i, n)}
      found   == {ValueAt(BasketAt(img, file, i), n - FirstEntry(img, i) + 1) : i \in windows}
  IN  IF windows = {} THEN Garbage ELSE CHOOSE val \in found : TRUE

================================================================================
