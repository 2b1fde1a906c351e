------------------------------- MODULE RrootTree -------------------------------
(***************************************************************************)
(* inlib::rroot as applications/read.icc uses it: the Event tree that      *)
(* WrootTree wrote, read back.                                             *)
(*                                                                         *)
(* A branch reads one entry at a time with find_entry().  It keeps the     *)
(* basket of the last entry at hand (m__read_basket, at m_read_basket in   *)
(* m_baskets), looks in the next basket first, then searches, and deletes  *)
(* the basket it leaves if it had read it from the file.  The entry of the *)
(* hit column is a whole tree, streamed into ONE tree object that the      *)
(* reader uses again for every event.                                      *)
(*                                                                         *)
(* read_data() reads the entries in order and ends at the first that it    *)
(* cannot read.  A program that uses find_entry() on its own may read the  *)
(* entries in any order and go on after an error.                          *)
(***************************************************************************)
EXTENDS WrootTree

CONSTANTS
  AnyOrder,        \* may entries be read in any order, must they not?
  MaxReadErrors    \* bound: baskets that cannot be read

ASSUME RrootTreeAssumption == AnyOrder \subseteq BOOLEAN /\ MaxReadErrors \in Nat

VARIABLES
  anyOrder,  \* are the entries read in any order?
  branch,    \* the branches of the Event tree, as rroot holds them
  hitTree,   \* the object of the hit leaf
  entry,     \* the entry being read, or NoEntry
  ievent,    \* the loop of read_data()
  reading,   \* "event", the columns of the entry, or "rows", those of its hits
  at,        \* the column being read
  row,       \* the row of the hit tree being read
  garbled,   \* has a partial object been read as if it were a tree?
  ioErrors   \* baskets that could not be read

readVars ==
  <<anyOrder, branch, hitTree, entry, ievent, reading, at, row, garbled, ioErrors>>

NoEntry == -1
NoBasket == -1

\* A branch that was just streamed.
NewReader(img) ==
  [img |-> img, readBasket |-> 0, cur |-> NoBasket, owned |-> <<>>, leaf |-> Garbage]

EmptyTree == [entries |-> 0, branch |-> <<>>]

ReadInit ==
  /\ Init /\ anyOrder \in AnyOrder
  /\ branch = <<>> /\ hitTree = EmptyTree /\ entry = NoEntry /\ ievent = 0
  /\ reading = "event" /\ at = 1 /\ row = 0 /\ garbled = FALSE /\ ioErrors = 0

--------------------------------------------------------------------------------
(* rroot::branch::find_entry *)

\* m_baskets: what was read from the file (`owned'), what came with the branch.
Mapped(rb) == DOMAIN rb.owned \cup {rb.img.writeBasket}

\* The basket of entry n: the current one, then the next, then the first.
InBasket(rb, i, n) == i \in Windows(rb.img) /\ HoldsEntry(rb.img, i, n)
BasketOf(rb, n) ==
  IF InBasket(rb, rb.readBasket, n) THEN {rb.readBasket}
  ELSE IF InBasket(rb, rb.readBasket + 1, n) THEN {rb.readBasket + 1}
  ELSE {i \in Windows(rb.img) :
          InBasket(rb, i, n) /\ \A j \in 0..i - 1 : ~InBasket(rb, j, n)}

Without(baskets, i) == [j \in DOMAIN baskets \ {i} |-> baskets[j]]
With(baskets, i, bk) ==
  [j \in DOMAIN baskets \cup {i} |-> IF j = i THEN bk ELSE baskets[j]]

\* Leaving a basket forgets it and deletes it if it is owned.  The mutants
\* keep the pointer to it, and keep it in memory.
MovedToStale(rb, i) ==
  IF i = rb.readBasket THEN rb
  ELSE [rb EXCEPT !.readBasket = i, !.owned = Without(@, rb.readBasket)]
MovedToHoarding(rb, i) ==
  IF i = rb.readBasket THEN rb ELSE [rb EXCEPT !.cur = NoBasket, !.readBasket = i]
MovedTo(rb, i) ==
  IF i = rb.readBasket THEN rb
  ELSE [rb EXCEPT !.cur = NoBasket, !.readBasket = i,
                  !.owned = Without(@, rb.readBasket)]

\* The basket at hand, or else the mapped one, or else one read from the file.
NeedsRead(rb) == rb.cur = NoBasket /\ rb.readBasket \notin Mapped(rb)
WithBasket(rb) ==
  [rb EXCEPT !.cur = IF @ = NoBasket THEN rb.readBasket ELSE @,
             !.owned = IF NeedsRead(rb)
                       THEN With(@, rb.readBasket, BasketAt(rb.img, file, rb.readBasket))
                       ELSE @]

\* read_leaves(): the value at the entry's offset.  A basket with too few
\* entries has no offset for it, and the leaf keeps its value.
AtHand(rb) == IF rb.cur \in DOMAIN rb.owned THEN rb.owned[rb.cur] ELSE rb.img.open
Index(rb, n) == n - FirstEntry(rb.img, rb.readBasket) + 1
HasOffset(rb, n) == Index(rb, n) <= AtHand(rb).nev
WithLeaf(rb, n) ==
  IF HasOffset(rb, n) THEN [rb EXCEPT !.leaf = ValueAt(AtHand(rb), Index(rb, n))] ELSE rb

\* The branch after find_entry(n), and whether it returned true.  An entry
\* beyond the last returns true and leaves the leaf as it was.
FindEntry(rb, n, readable) ==
  IF n >= rb.img.entryNumber THEN [rb |-> rb, ok |-> TRUE]
  ELSE IF BasketOf(rb, n) = {} THEN [rb |-> [rb EXCEPT !.cur = NoBasket], ok |-> FALSE]
  ELSE LET moved == MovedTo(rb, CHOOSE i \in BasketOf(rb, n) : TRUE)
           read  == WithLeaf(WithBasket(moved), n)
       IN  IF NeedsRead(moved) /\ ~readable THEN [rb |-> moved, ok |-> FALSE]
           ELSE [rb |-> read, ok |-> HasOffset(read, n) /\ read.leaf # Garbage]

\* A basket may be unreadable, if one has to be read at all.
Outcomes(rb, n) ==
  {FindEntry(rb, n, TRUE)} \cup
  IF ioErrors < MaxReadErrors THEN {FindEntry(rb, n, FALSE)} ELSE {}

--------------------------------------------------------------------------------
(* read_data *)

\* find_tree(): the tree is streamed from its record.
OpenTree ==
  /\ stage = "written" /\ branch = <<>>
  /\ \A b \in DOMAIN image.branch : SeeksAreConsistent(image.branch[b])
  /\ branch' = [b \in DOMAIN image.branch |-> NewReader(image.branch[b])]
  /\ UNCHANGED <<anyOrder, hitTree, entry, ievent, reading, at, row, garbled, ioErrors>>

\* The entries are counted from 0.
ReadEntry(n) ==
  /\ branch # <<>> /\ entry = NoEntry /\ n < image.entries
  /\ anyOrder \/ n = ievent
  /\ entry' = n /\ reading' = "event" /\ at' = 1
  /\ UNCHANGED <<anyOrder, branch, hitTree, ievent, row, garbled, ioErrors>>

\* The entry cannot be read: read_data() returns.
GiveUp ==
  entry' = NoEntry /\ ievent' = image.entries /\ at' = 1 /\ row' = 0 /\ reading' = "event"

NextColumn(last) ==
  /\ IF at < last THEN at' = at + 1 /\ UNCHANGED reading
     ELSE at' = 1 /\ reading' = "rows"
  /\ row' = IF at < last THEN row ELSE IF reading = "rows" THEN row + 1 ELSE 0
  /\ UNCHANGED <<entry, ievent>>

\* Streaming the hit leaf's object deletes the branches of the tree and makes
\* new ones.  The mutant keeps what they know of their baskets.
TreeReadMutant(t) ==
  [entries |-> t.entries,
   branch |-> [b \in DOMAIN t.branch |->
     IF b \in DOMAIN hitTree.branch THEN [hitTree.branch[b] EXCEPT !.img = t.branch[b]]
     ELSE NewReader(t.branch[b])]]
TreeRead(t) ==
  [entries |-> t.entries, branch |-> [b \in DOMAIN t.branch |-> NewReader(t.branch[b])]]

\* The scalar columns are read before the objects.
ReadOrder == <<1, 3, 2>>

\* READ_LEAF and read_leaf_object().  What a failed fill left of an object is
\* refused, or taken for some tree.
ReadColumn ==
  /\ entry # NoEntry /\ reading = "event"
  /\ \E c \in {ReadOrder[at]} : \E out \in Outcomes(branch[c], entry) :
       LET val == out.rb.leaf
           isObject == Columns("Event")[c] = "hit"
       IN  /\ branch' = [branch EXCEPT ![c] = out.rb]
           /\ ioErrors' = IF out.ok THEN ioErrors ELSE ioErrors + 1
           /\ \/ /\ out.ok /\ ~(isObject /\ val = Partial)
                 /\ hitTree' = IF isObject THEN TreeRead(val[2]) ELSE hitTree
                 /\ NextColumn(Len(branch)) /\ UNCHANGED garbled
              \/ /\ out.ok /\ isObject /\ val = Partial
                 /\ hitTree' = EmptyTree /\ garbled' = TRUE
                 /\ NextColumn(Len(branch))
              \/ /\ ~out.ok \/ (isObject /\ val = Partial)
                 /\ GiveUp /\ UNCHANGED <<hitTree, garbled>>
  /\ UNCHANGED anyOrder

\* process_hits(): the rows of the hit tree, in order.
ReadRow ==
  /\ entry # NoEntry /\ reading = "rows" /\ row < hitTree.entries
  /\ \E out \in Outcomes(hitTree.branch[at], row) :
       /\ hitTree' = WithBranch(hitTree, at, out.rb)
       /\ ioErrors' = IF out.ok THEN ioErrors ELSE ioErrors + 1
       /\ IF out.ok THEN NextColumn(Len(hitTree.branch)) ELSE GiveUp
  /\ UNCHANGED <<anyOrder, branch, garbled>>

NextEntry ==
  /\ entry # NoEntry /\ reading = "rows" /\ row >= hitTree.entries
  /\ entry' = NoEntry /\ ievent' = entry + 1 /\ at' = 1 /\ row' = 0 /\ reading' = "event"
  /\ UNCHANGED <<anyOrder, branch, hitTree, garbled, ioErrors>>

ReadNext ==
  \/ Next /\ UNCHANGED readVars
  \/ /\ OpenTree \/ ReadColumn \/ ReadRow \/ NextEntry
        \/ \E n \in 0..MaxEvents - 1 : ReadEntry(n)
     /\ UNCHANGED vars

ReadSpec == ReadInit /\ [][ReadNext]_<<vars, readVars>>

--------------------------------------------------------------------------------
(* Properties *)

ReaderOK(rb) ==
  /\ rb.readBasket \in Nat /\ DOMAIN rb.owned \subseteq Nat /\ rb.cur \in Nat \cup {NoBasket}

\* The state of the reader: rroot::branch's members and read_data's loop.
ReadTypeOK ==
  /\ \A b \in DOMAIN branch : ReaderOK(branch[b])
  /\ \A b \in DOMAIN hitTree.branch : ReaderOK(hitTree.branch[b])
  /\ entry \in 0..MaxEvents - 1 \cup {NoEntry} /\ ievent \in 0..MaxEvents
  /\ entry # NoEntry => entry < image.entries
  /\ garbled \in BOOLEAN /\ ioErrors \in 0..MaxReadErrors

Readers == {branch[b] : b \in DOMAIN branch} \cup
           {hitTree.branch[b] : b \in DOMAIN hitTree.branch}

\* In whatever order the entries are read and whichever read fails,
\* m__read_basket never points to a basket that find_entry() has deleted, and
\* a branch keeps at most one basket it read from the file: find_entry()
\* erases the one it leaves "to avoid having all data in memory".
BasketsAreManaged ==
  \A rb \in Readers : /\ rb.cur \in Mapped(rb) \cup {NoBasket}
                      /\ Cardinality(DOMAIN rb.owned) <= 1

\* The columns of the entry that have been read.
Done(c) ==
  entry # NoEntry /\ (reading = "rows" \/ \E k \in 1..at - 1 : ReadOrder[k] = c)

\* find_entry(n) gives the n-th entry of the branch, whatever was read before
\* and however the basket was found.
LeafIsTheEntry ==
  \A c \in DOMAIN branch : Done(c) /\ ~garbled =>
    branch[c].leaf = EntryOf(branch[c].img, file, entry)

\* Within the entries filled before the first failed fill, the row of hits
\* being processed is one of the event whose number was read, and it is the
\* row of that index, although the tree object is used for every event.  And
\* read_data() never processes an entry whose columns come from different
\* events: it gives up at the entry of the first failed fill, unless it takes
\* what is left of that entry's object for a tree.
RowsBelongToTheEvent ==
  entry # NoEntry /\ reading = "rows" =>
    /\ \A c \in DOMAIN hitTree.branch : c < at /\ entry + 1 \in GoodEntries =>
         \E e \in 1..MaxEvents :
           /\ branch[1].leaf = <<"event", e>> /\ branch[3].leaf = <<"event", e>>
           /\ hitTree.branch[c].leaf = <<"row", e, row + 1>>
    /\ ~anyOrder /\ ~garbled =>
         branch[1].leaf = branch[3].leaf /\ entry + 1 \in GoodEntries

================================================================================
