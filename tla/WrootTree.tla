------------------------------- MODULE WrootTree -------------------------------
(***************************************************************************)
(* inlib::wroot::tree as MEMPHYS uses it: the Event tree, one entry per    *)
(* event, and the hit tree, which is reset for each event, gets one entry  *)
(* per hit tube and is then streamed, as it stands, into ONE entry of the  *)
(* Event tree (the track and digit trees are handled in the same way).     *)
(*                                                                         *)
(* A fill goes through the branches in order and stops at the first that   *)
(* fails; EventAction prints a line and goes on.  A branch fails when its  *)
(* leaf cannot be streamed or when a full basket cannot be written to the  *)
(* file.  Baskets of both trees become records of the same file, between   *)
(* the others, as they fill up; the Event tree itself is written at the    *)
(* end, by the destructor of Analysis.                                     *)
(***************************************************************************)
EXTENDS WrootBranch, SequencesExt

CONSTANTS
  ScalarSize, ObjectSizes,      \* bytes of a scalar, of a streamed tree
  MaxEvents, MaxRows,           \* bounds: events in a run, hits in an event
  MaxWriteErrors                \* bound: writes to the file that fail

ASSUME WrootTreeAssumption ==
  /\ ScalarSize \in Nat \ {0} /\ ObjectSizes \subseteq Nat \ {0}
  /\ MaxEvents \in Nat /\ MaxRows \in Nat /\ MaxWriteErrors \in Nat

VARIABLES
  tree,      \* m_Event_tree and m_Event_hit_tree
  file,      \* the records written so far; the seek of the next is the END
  stage,     \* "idle", "rows" of an event, "written" or "lost"
  filling,   \* the tree whose fill() is running, or "none"
  column,    \* the branch that fill() has reached
  event,     \* number of the event, eventId
  rows,      \* fill_hit() calls in this event
  filled,    \* for each fill of the Event tree that succeeded, its event
  failed,    \* the events whose fill of the Event tree failed
  image,     \* the Event tree as write_object() streamed it
  errors     \* writes that failed

vars == <<tree, file, stage, filling, column, event, rows, filled, failed, image, errors>>

\* The columns, in the order they are created.
Columns(t) ==
  IF t = "Event" THEN <<"nHits", "hit", "nDigits">> ELSE <<"tubeId", "totalPE">>

NewTree(t) == [entries |-> 0, branch |-> [b \in 1..Len(Columns(t)) |-> NewBranch]]

Init ==
  /\ tree = [t \in {"Event", "hit"} |-> NewTree(t)]
  /\ file = <<>> /\ stage = "idle" /\ filling = "none" /\ column = 1
  /\ event = 0 /\ rows = 0 /\ filled = <<>> /\ failed = {}
  /\ image = <<>> /\ errors = 0

--------------------------------------------------------------------------------
(* The leaves *)

TreeImage(t) ==
  [entries |-> t.entries,
   branch |-> [b \in DOMAIN t.branch |-> BranchImage(t.branch[b])]]

TreeStreams(t) == \A b \in DOMAIN t.branch : CanStream(t.branch[b].open)

\* tree::stream() stops at the first basket that refuses.
StreamedTree(t) ==
  [t EXCEPT !.branch =
    [b \in DOMAIN t.branch |->
      IF \A a \in 1..b : CanStream(t.branch[a].open)
      THEN [t.branch[b] EXCEPT !.open = Streamed(@)] ELSE t.branch[b]]]

IsObject == filling = "Event" /\ Columns(filling)[column] = "hit"

\* What the leaf holds: the event's number, the row's, or the hit tree.
Leaf ==
  CASE IsObject -> IF TreeStreams(tree["hit"])
                   THEN <<"tree", TreeImage(tree["hit"])>> ELSE Partial
    [] filling = "hit" -> <<"row", event, rows>>
    [] OTHER -> <<"event", event>>

LeafFails == IsObject /\ ~TreeStreams(tree["hit"])

--------------------------------------------------------------------------------
(* tree::fill *)

\* The trees of the event are emptied before its first row.
ResetTree(t) == NewTree("hit")

\* The mutant leaves the trees as they were.
BeginEventMutant ==
  /\ stage = "idle" /\ event < MaxEvents
  /\ event' = event + 1 /\ rows' = 0 /\ stage' = "rows"
  /\ UNCHANGED <<tree, file, filling, column, filled, failed, image, errors>>
BeginEvent ==
  /\ stage = "idle" /\ event < MaxEvents
  /\ event' = event + 1 /\ rows' = 0 /\ stage' = "rows"
  /\ tree' = [tree EXCEPT !["hit"] = ResetTree(@)]
  /\ UNCHANGED <<file, filling, column, filled, failed, image, errors>>

FillHit ==
  /\ stage = "rows" /\ filling = "none" /\ rows < MaxRows
  /\ filling' = "hit" /\ column' = 1 /\ rows' = rows + 1
  /\ UNCHANGED <<tree, file, stage, event, filled, failed, image, errors>>

FillEvent ==
  /\ stage = "rows" /\ filling = "none"
  /\ filling' = "Event" /\ column' = 1
  /\ UNCHANGED <<tree, file, stage, event, rows, filled, failed, image, errors>>

\* fill() returned: false if `ok' is.  The event is over when it was the
\* Event tree's.
Return(ok) ==
  /\ filling' = "none" /\ column' = 1
  /\ IF filling = "Event"
     THEN /\ stage' = "idle"
          /\ filled' = IF ok THEN Append(filled, [event |-> event, rows |-> rows])
                       ELSE filled
          /\ failed' = IF ok THEN failed ELSE failed \cup {event}
     ELSE UNCHANGED <<stage, filled, failed>>

Counted(t) == [t EXCEPT !.entries = @ + 1]
WithBranch(t, b, br) == [t EXCEPT !.branch = [t.branch EXCEPT ![b] = br]]

\* The fill's loop goes on, or has come to its end: now the entry counts.
Advance(trees) ==
  IF column < Len(Columns(filling))
  THEN /\ column' = column + 1 /\ tree' = trees
       /\ UNCHANGED <<filling, stage, filled, failed>>
  ELSE tree' = [trees EXCEPT ![filling] = Counted(@)] /\ Return(TRUE)

\* The branch that fill() has reached takes its leaf; streaming the hit tree
\* marks its baskets.
TreesWith(br) ==
  LET trees == IF IsObject THEN [tree EXCEPT !["hit"] = StreamedTree(@)] ELSE tree
  IN  [trees EXCEPT ![filling] = WithBranch(@, column, br)]

\* branch::fill(), a step of the loop in tree::fill().
FillBranch(size) ==
  LET br   == Entered(tree[filling].branch[column], Leaf, size)
      seek == Len(file) + 1
      full == IsFull(br.open, size)
  IN  \/ LeafFails /\ tree' = TreesWith(br) /\ Return(FALSE)
         /\ UNCHANGED <<file, errors>>
      \/ ~LeafFails /\ ~full /\ Advance(TreesWith(br)) /\ UNCHANGED <<file, errors>>
      \/ ~LeafFails /\ full /\ br.open.seekKey # NoSeek
         /\ tree' = TreesWith(br) /\ Return(FALSE) /\ UNCHANGED <<file, errors>>
      \/ ~LeafFails /\ full /\ br.open.seekKey = NoSeek
         /\ file' = Append(file, Record(br.open)) /\ errors' = errors
         /\ Advance(TreesWith(NextBasket(br, seek)))
      \/ ~LeafFails /\ full /\ br.open.seekKey = NoSeek /\ errors < MaxWriteErrors
         /\ file' = Append(file, Torn) /\ errors' = errors + 1
         /\ tree' = TreesWith([br EXCEPT !.open = Claimed(@, seek)])
         /\ Return(FALSE)

\* A branch without a slot for its basket refuses the fill.
HasSlot(br) == br.writeBasket < br.maxBaskets
FillStep ==
  /\ filling # "none"
  /\ IF HasSlot(tree[filling].branch[column])
     THEN \E size \in IF IsObject THEN ObjectSizes ELSE {ScalarSize} : FillBranch(size)
     ELSE Return(FALSE) /\ UNCHANGED <<tree, file, errors>>
  /\ UNCHANGED <<event, rows, image>>

\* ~Analysis: file::write() streams the Event tree into its record.
WriteTree ==
  /\ stage = "idle"
  /\ IF TreeStreams(tree["Event"])
     THEN stage' = "written" /\ image' = TreeImage(tree["Event"])
     ELSE stage' = "lost" /\ image' = image
  /\ tree' = [tree EXCEPT !["Event"] = StreamedTree(@)]
  /\ UNCHANGED <<file, filling, column, event, rows, filled, failed, errors>>

Next == BeginEvent \/ FillHit \/ FillEvent \/ FillStep \/ WriteTree

Spec == Init /\ [][Next]_vars

--------------------------------------------------------------------------------
(* Reading the Event tree back *)

\* A branch in memory has the fields of its image.
LiveImage == IF stage = "written" THEN image ELSE tree["Event"]

\* Does the n-th entry hold what was collected for the event f?
HoldsRows(t, f) ==
  /\ t.entries = f.rows
  /\ \A b \in DOMAIN t.branch : \A r \in 1..f.rows :
        EntryOf(t.branch[b], file, r - 1) = <<"row", f.event, r>>

EntryHolds(img, n, f) ==
  \A b \in DOMAIN img.branch :
    LET val == EntryOf(img.branch[b], file, n - 1)
    IN  IF Columns("Event")[b] = "hit"
        THEN val[1] = "tree" /\ \E t \in {val[2]} : HoldsRows(t, f)
        ELSE val = <<"event", f.event>>

\* The entries filled before the first fill that failed.
GoodEntries == {n \in DOMAIN filled : \A e \in failed : filled[n].event < e}

--------------------------------------------------------------------------------
(* Properties *)

BasketOK(bk) ==
  /\ bk.nev \in Nat /\ bk.room \in Nat /\ bk.last \in Nat
  /\ bk.seekKey \in 0..Len(file) /\ bk.tables \in BOOLEAN
  /\ bk.tables => Len(bk.offset) = bk.nev

BranchOK(br) ==
  /\ br.writeBasket \in Nat /\ br.entryNumber \in Nat
  /\ DOMAIN br.basketEntry = 0..br.maxBaskets - 1
  /\ DOMAIN br.basketSeek = 0..br.maxBaskets - 1
  /\ BasketOK(br.open)

\* The trees, their branches and their baskets are what wroot::tree,
\* wroot::branch and wroot::basket hold.
TypeOK ==
  /\ \A t \in {"Event", "hit"} :
       /\ tree[t].entries \in Nat
       /\ \A b \in DOMAIN tree[t].branch : BranchOK(tree[t].branch[b])
  /\ stage \in {"idle", "rows", "written", "lost"}
  /\ filling \in {"none", "Event", "hit"}
  /\ event \in 0..MaxEvents /\ rows \in 0..MaxRows /\ errors \in 0..MaxWriteErrors
  /\ failed \subseteq 1..event /\ Len(filled) + Cardinality(failed) <= event

\* Whatever happens afterwards (other events, resets of the hit tree, other
\* baskets in between), an entry filled before the first failed fill reads
\* back with the event's number in every column and with all the event's
\* rows in its tree: branch::fill, basket::write_on_file, basket::stream.  It
\* holds until a basket of the Event tree itself could not be written.
EntriesReadBack ==
  (\A b \in DOMAIN tree["Event"].branch : tree["Event"].branch[b].open.tables)
  => \A n \in GoodEntries : EntryHolds(LiveImage, n, filled[n])

\* A row that did not reach the file is reported: the fill of an event that
\* lost a row in fill_hit() fails, so that every fill that succeeded stored
\* an object tree with all of the event's rows (or the tree is not written).
NoRowIsLostSilently ==
  stage = "written" =>
    \A n \in 0..image.branch[2].entryNumber - 1 :
      LET val == EntryOf(image.branch[2], file, n)
      IN  val[1] = "tree" => \E m \in DOMAIN filled :
            val[2].entries = filled[m].rows /\ HoldsRows(val[2], filled[m])

\* If the Event tree could be written then rroot::branch::stream accepts it
\* and every entry its branches count can be found through fBasketEntry,
\* fBasketSeek and the entry offsets.
ReaderAcceptsTree ==
  stage = "written" => \A b \in DOMAIN image.branch :
    /\ SeeksAreConsistent(image.branch[b])
    /\ \A n \in 0..image.branch[b].entryNumber - 1 :
         EntryOf(image.branch[b], file, n) # Garbage

\* The arrays always suffice: write_on_file() reads nev + 1 elements of
\* m_entry_offset, and a branch has a slot for the basket being filled (the
\* test for a "potential overflow" in branch::fill never fires).
ArraysFit ==
  \A t \in {"Event", "hit"} : \A b \in DOMAIN tree[t].branch :
    LET br == tree[t].branch[b]
    IN  /\ br.open.tables => br.open.nev + 1 <= br.open.room
        /\ HasSlot(br)

\* A fill of the Event tree fails only if a write has failed in this run: no
\* basket is streamed a second time, or after it was written, because the
\* trees of the event are reset before its rows are filled.  And the file
\* goes without its Event tree only if a fill failed.
FailuresHaveACause ==
  /\ failed # {} => errors > 0
  /\ stage = "lost" => failed # {}

\* The Event tree implements a log of entries.
ContentsSet == [event : 0..MaxEvents, rows : 0..MaxRows]

\* The contents the n-th entry reads as: a mixture of events is none.
ReadContents(img, n) ==
  LET number == EntryOf(img.branch[1], file, n - 1)
      object == EntryOf(img.branch[2], file, n - 1)
  IN  IF number[1] = "event" /\ object[1] = "tree"
         /\ EntryHolds(img, n, [event |-> number[2], rows |-> object[2].entries])
      THEN [event |-> number[2], rows |-> object[2].entries]
      ELSE [event |-> 0, rows |-> 0]

Log == INSTANCE TupleLog WITH
  Contents <- ContentsSet,
  current  <- [event |-> event, rows |-> rows],
  kept     <- failed = {},
  log      <- IF failed # {} THEN <<>>
              ELSE [n \in 1..tree["Event"].entries |-> ReadContents(LiveImage, n)]

\* Every step of the simulation on the trees collects, appends the entry as
\* it was collected, fails, or changes no entry: a refinement.
ImplementsLog == Log!LogSpec

================================================================================
