------------------------------- MODULE WrootFile -------------------------------
(***************************************************************************)
(* inlib::wroot::file, directory, key and free_seg: the file in which the  *)
(* simulation leaves its trees.                                            *)
(*                                                                         *)
(* Records are appended at END.  Only three things are overwritten: the    *)
(* file header, the directory header inside the first record, and the      *)
(* first word of a record that is freed.  The destructor of Analysis calls *)
(* write() and then close(): the objects, the keys that name them, the     *)
(* directory header that points to the keys, the streamer infos, the list  *)
(* of free segments and the file header, each a ::write of its own; then   *)
(* all but the objects and the infos a second time.                        *)
(*                                                                         *)
(* The program may be killed between two writes or in the middle of the    *)
(* write of a record, and a write may fail.  The words that are written in *)
(* place (45 bytes at most) are written whole or not at all.  The contents *)
(* of records are left to WrootTree and WrootZip; every object has a name  *)
(* of its own, so its cycle is 1.                                          *)
(***************************************************************************)
EXTENDS Integers, Sequences, FiniteSets, SequencesExt

CONSTANTS
  Objects,                 \* the names of m_objs, in the order of creation
  BEGIN,                   \* kBegin(), 64
  KeyLength, BigExtra,     \* key::record_size(), and what 64 bits add to it
  DirectorySize, InfosSize,
  Segment, BigSegment,     \* free_seg::record_size(), 10 and 18
  GapWord,                 \* bytes of the mark of a freed record, 4
  START_BIG_FILE,          \* 2000000000
  ObjectSizes, BasketSizes,
  MaxBaskets, MaxWriteErrors   \* bounds

ASSUME WrootFileAssumption ==
  /\ Objects \in Seq(ToSet(Objects)) /\ IsInjective(Objects) /\ Objects # <<>>
  /\ {BEGIN, KeyLength, BigExtra, DirectorySize, InfosSize, Segment, BigSegment,
      GapWord, START_BIG_FILE} \cup ObjectSizes \cup BasketSizes \subseteq Nat \ {0}
  /\ BEGIN < START_BIG_FILE /\ Segment < BigSegment /\ GapWord <= KeyLength
  /\ {MaxBaskets, MaxWriteErrors} \subseteq Nat

VARIABLES
  end,         \* m_END
  segs,        \* m_free_segs
  seekFree, nbytesFree, seekInfo,   \* of the file, in memory
  seekKeys,    \* of the root directory, in memory
  keys,        \* m_keys of the root directory
  disk,        \* the records of the file, by their seek
  header,      \* the header of the file on disk
  directory,   \* seek_keys in the directory header on disk
  phase,       \* "making", "running", "writing", "closing", "closed", "killed"
  step,        \* the next write of the phase
  baskets,     \* baskets written
  errors,      \* writes that failed
  refused      \* has an object refused to be streamed?

memory == <<end, segs, seekFree, nbytesFree, seekInfo, seekKeys, keys>>
vars == <<memory, disk, header, directory, phase, step, baskets, errors, refused>>

NoSeek == 0
NoHeader == [written |-> FALSE, end |-> 0, free |-> NoSeek, info |-> NoSeek]

--------------------------------------------------------------------------------
(* Free segments *)

\* set_END(): the last segment starts at END.  It complains, and leaves the
\* list alone, if the last segment is not the ending one.
EndsFile(sg) == Last(sg).last = START_BIG_FILE
WithFirst(sg, i, a) == [sg EXCEPT ![i] = [first |-> a, last |-> sg[i].last]]
WithLast(sg, i, b) == [sg EXCEPT ![i] = [first |-> sg[i].first, last |-> b]]
WithEnd(sg, e) == IF EndsFile(sg) THEN WithFirst(sg, Len(sg), e) ELSE sg

\* record_size(): a segment beyond START_BIG_FILE takes a big record.
IsBig(seg) == seg.first > START_BIG_FILE \/ seg.last > START_BIG_FILE
ListSize(sg) ==
  Len(sg) * Segment + (BigSegment - Segment) * Cardinality({i \in DOMAIN sg : IsBig(sg[i])})

\* add_free(): the first segment that the freed one follows, precedes or
\* comes before takes it.  The result is the list and the place of the
\* segment that holds the freed one, 0 if there is none.
Takers(sg, a, b) ==
  {i \in DOMAIN sg : sg[i].last = a - 1 \/ sg[i].first = b + 1 \/ a < sg[i].first}
FirstTaker(sg, a, b) ==
  CHOOSE i \in Takers(sg, a, b) : \A j \in Takers(sg, a, b) : i <= j
Joined(sg, i, b) ==
  IF i = Len(sg) \/ sg[i + 1].first > b + 1 THEN WithLast(sg, i, b)
  ELSE RemoveAt(WithLast(sg, i, sg[i + 1].last), i + 1)
AddFreeMutant(sg, a, b) ==   \* puts the segment behind the one it comes before
  [at |-> 2, segs |-> Append(sg, [first |-> a, last |-> b])]
AddFree(sg, a, b) ==
  IF Takers(sg, a, b) = {} THEN [segs |-> sg, at |-> 0]
  ELSE LET i == FirstTaker(sg, a, b) IN
    [at |-> i,
     segs |-> IF sg[i].last = a - 1 THEN Joined(sg, i, b)
              ELSE IF sg[i].first = b + 1 THEN WithFirst(sg, i, a)
              ELSE InsertAt(sg, i, [first |-> a, last |-> b])]

--------------------------------------------------------------------------------
(* Records *)

\* A key made beyond START_BIG_FILE has 64 bit seeks.
HeadSize == IF end > START_BIG_FILE THEN KeyLength + BigExtra ELSE KeyLength

Overlap(seek, size, other) ==
  seek < other + disk[other].size /\ other < seek + size

\* What the disk holds once `rec' was written at `seek', in full or in part.
Put(seek, rec) ==
  [s \in DOMAIN disk \cup {seek} |->
    IF s = seek THEN rec
    ELSE IF Overlap(seek, rec.size, s) THEN [disk[s] EXCEPT !.whole = FALSE]
    ELSE disk[s]]

\* A mark overwrites the first word of what starts there.
Marked(seek) ==
  [s \in DOMAIN disk |->
    IF Overlap(seek, GapWord, s) THEN [disk[s] EXCEPT !.whole = FALSE] ELSE disk[s]]

\* The outcomes of a ::write, and of the synchronize() that follows one in
\* place: if that fails then the words are on the disk all the same.
Outcomes == {"done", "killed"} \cup IF errors < MaxWriteErrors THEN {"error"} ELSE {}

InPlace(outcome, new, old) == IF outcome = "done" THEN {new} ELSE {new, old}

WriteRecord(seek, size, kind, body, outcome) ==
  /\ disk' = Put(seek, [kind |-> kind, size |-> size, body |-> body,
                        whole |-> outcome = "done"])
  /\ errors' = IF outcome = "error" THEN errors + 1 ELSE errors

--------------------------------------------------------------------------------
(* The order of the writes *)

\* write_free_segments() first frees the record of the last time.
FreeStep == IF seekFree # NoSeek THEN "gap" ELSE "free"

\* write() and the constructor return at the first failure, close() goes on
\* and skips only what depends on the write that failed.  The mutants end
\* write() after one object, point to the keys whether they were written or
\* not, and forget the header of the file when they close it.
AfterFailedWrite == <<"closing", "keys">>

AfterObjectMutant == <<"writing", "keys">>
AfterObject ==
  <<"writing", IF Len(keys) + 1 < Len(Objects) THEN "object" ELSE "keys">>

AfterKeysMutant(ok) == <<phase, "pointer">>
AfterKeys(ok) == <<phase, IF ok THEN "pointer" ELSE FreeStep>>

AfterGap(ok) == <<phase, IF ok THEN "free" ELSE "header">>

AfterFreeMutant == IF phase = "writing" THEN <<phase, "header">> ELSE <<"closed", "none">>
AfterFree == <<phase, "header">>

Following(ok) ==
  IF phase = "making"
  THEN IF ok /\ step = "header" THEN <<"making", "directory">> ELSE <<"running", "none">>
  ELSE IF phase = "running" THEN <<"running", "none">>
  ELSE IF phase = "writing" /\ ~ok THEN AfterFailedWrite
  ELSE CASE step = "object"  -> AfterObject
         [] step = "keys"    -> AfterKeys(ok)
         [] step = "pointer" -> <<phase, IF phase = "writing" THEN "infos" ELSE FreeStep>>
         [] step = "infos"   -> <<phase, FreeStep>>
         [] step = "gap"     -> AfterGap(ok)
         [] step = "free"    -> AfterFree
         [] OTHER            -> IF phase = "writing" THEN <<"closing", "keys">>
                                ELSE <<"closed", "none">>

Continue(outcome) ==
  \E next \in {IF outcome = "killed" THEN <<"killed", "none">>
              ELSE Following(outcome = "done")} :
    phase' = next[1] /\ step' = next[2]

\* The constructor has reserved the first record, for the root directory.
Init ==
  /\ end = BEGIN + KeyLength + DirectorySize
  /\ segs = <<[first |-> end, last |-> START_BIG_FILE]>>
  /\ seekFree = NoSeek /\ nbytesFree = 0 /\ seekInfo = NoSeek /\ seekKeys = NoSeek
  /\ keys = <<>> /\ disk = <<>> /\ header = NoHeader /\ directory = NoSeek
  /\ phase = "making" /\ step = "header"
  /\ baskets = 0 /\ errors = 0 /\ refused = FALSE

\* A record of this size now starts at the END.  The mutant forgets set_END().
ClaimMutant(size) == UNCHANGED <<end, segs>>
Claim(size) == end' = end + size /\ segs' = WithEnd(segs, end + size)


--------------------------------------------------------------------------------
(* The writes *)

\* The first record: the key of the file and the root directory.
WriteDirectory ==
  /\ phase = "making" /\ step = "directory"
  /\ \E outcome \in Outcomes :
       /\ WriteRecord(BEGIN, KeyLength + DirectorySize, "directory", <<>>, outcome)
       /\ Continue(outcome)
  /\ UNCHANGED <<memory, header, directory, baskets, refused>>

\* basket::write_on_file(), while the trees are filled.  A basket has the key
\* of 64 bits wherever it lies.
BasketKey == KeyLength + BigExtra
WriteBasket ==
  /\ phase = "running" /\ baskets < MaxBaskets
  /\ \E size \in BasketSizes, outcome \in Outcomes :
       /\ WriteRecord(end, BasketKey + size, "basket", <<>>, outcome)
       /\ Claim(BasketKey + size)
       /\ Continue(outcome)
  /\ baskets' = baskets + 1
  /\ UNCHANGED <<seekFree, nbytesFree, seekInfo, seekKeys, keys, header, directory, refused>>

\* ~Analysis: write(), then close().
EndOfJob ==
  /\ phase = "running" /\ phase' = "writing" /\ step' = "object"
  /\ UNCHANGED <<memory, disk, header, directory, baskets, errors, refused>>

\* write_object(): the key is for the uncompressed size, then END goes back
\* to what compression has kept.  The key is in the list before it is written.
WriteObject ==
  /\ phase = "writing" /\ step = "object"
  /\ \E size \in ObjectSizes : \E kept \in ObjectSizes, outcome \in Outcomes :
       LET name == Objects[Len(keys) + 1]
       IN  /\ kept <= size
           /\ WriteRecord(end, HeadSize + kept, "object", name, outcome)
           /\ keys' = Append(keys, [name |-> name, seek |-> end, big |-> end > START_BIG_FILE])
           /\ end' = end + HeadSize + kept
           /\ segs' = WithEnd(WithEnd(segs, end + HeadSize + size), end')
           /\ Continue(outcome)
  /\ UNCHANGED <<seekFree, nbytesFree, seekInfo, seekKeys, header, directory, baskets,
                 refused>>

\* The object cannot be streamed: write() returns before it has a key.
RefuseObject ==
  /\ phase = "writing" /\ step = "object"
  /\ refused' = TRUE /\ phase' = "closing" /\ step' = "keys"
  /\ UNCHANGED <<memory, disk, header, directory, baskets, errors>>

\* write_keys(): the number of keys and the keys.  The old record stays.
KeysSize ==
  1 + Len(keys) * KeyLength + BigExtra * Cardinality({i \in DOMAIN keys : keys[i].big})
WriteKeys ==
  /\ step = "keys"
  /\ \E outcome \in Outcomes :
       /\ WriteRecord(end, HeadSize + KeysSize, "keys", keys, outcome)
       /\ Claim(HeadSize + KeysSize)
       /\ seekKeys' = end
       /\ Continue(outcome)
  /\ UNCHANGED <<seekFree, nbytesFree, seekInfo, keys, header, directory, baskets, refused>>

\* write_header() of the directory, in place.  It is lost if the first record
\* was not written.  close() then clears the directory.
WritePointer ==
  /\ step = "pointer"
  /\ \E outcome \in Outcomes \ {"killed"} :
       /\ directory' \in InPlace(outcome, seekKeys, directory)
       /\ errors' = IF outcome = "done" THEN errors ELSE errors + 1
       /\ keys' = IF outcome = "done" /\ phase = "closing" THEN <<>> ELSE keys
       /\ Continue(outcome)
  /\ UNCHANGED <<end, segs, seekFree, nbytesFree, seekInfo, seekKeys, disk, header,
                 baskets, refused>>

\* write_streamer_infos()
WriteInfos ==
  /\ step = "infos"
  /\ \E outcome \in Outcomes :
       /\ WriteRecord(end, HeadSize + InfosSize, "infos", <<>>, outcome)
       /\ Claim(HeadSize + InfosSize)
       /\ seekInfo' = end
       /\ Continue(outcome)
  /\ UNCHANGED <<seekFree, nbytesFree, seekKeys, keys, header, directory, baskets, refused>>

\* make_free_seg(): the old record joins the free segments, its first word is
\* overwritten.
FreeOldRecord ==
  /\ step = "gap"
  /\ LET freed == AddFree(segs, seekFree, seekFree + nbytesFree - 1) IN
     IF freed.at = 0
     THEN Continue("error") /\ UNCHANGED <<end, segs, disk, errors>>
     ELSE \E outcome \in Outcomes \ {"killed"}, seg \in {freed.segs[freed.at]} :
            /\ segs' = freed.segs
            /\ end' = IF seg.last = end - 1 THEN seg.first ELSE end
            /\ disk' \in InPlace(outcome, Marked(seg.first), disk)
            /\ errors' = IF outcome = "done" THEN errors ELSE errors + 1
            /\ Continue(outcome)
  /\ UNCHANGED <<seekFree, nbytesFree, seekInfo, seekKeys, keys, header, directory,
                 baskets, refused>>

\* write_free_segments(): the size is counted before the key moves END.  If
\* the ending segment has become a big one then the list does not fit.
WriteFree ==
  /\ step = "free"
  /\ LET size == ListSize(segs)
         list == WithEnd(segs, end + HeadSize + size)
     IN  /\ Claim(HeadSize + size)
         /\ IF ListSize(list) > size
            THEN Continue("error") /\ UNCHANGED <<disk, errors, seekFree, nbytesFree>>
            ELSE \E outcome \in Outcomes :
                   /\ WriteRecord(end, HeadSize + size, "free", list, outcome)
                   /\ seekFree' = end /\ nbytesFree' = HeadSize + size
                   /\ Continue(outcome)
  /\ UNCHANGED <<seekInfo, seekKeys, keys, header, directory, baskets, refused>>

\* write_header() of the file, in place.
WriteHeader ==
  /\ step = "header"
  /\ \E outcome \in Outcomes \ {"killed"} :
       /\ header' \in InPlace(outcome, [written |-> TRUE, end |-> end, free |-> seekFree,
                                       info |-> seekInfo], header)
       /\ errors' = IF outcome = "done" THEN errors ELSE errors + 1
       /\ Continue(outcome)
  /\ UNCHANGED <<memory, disk, directory, baskets, refused>>

Kill ==
  /\ phase \notin {"closed", "killed"} /\ phase' = "killed" /\ step' = "none"
  /\ UNCHANGED <<memory, disk, header, directory, baskets, errors, refused>>

Write == \/ WriteDirectory \/ WriteBasket \/ WriteObject \/ WriteKeys \/ WritePointer
         \/ WriteInfos \/ FreeOldRecord \/ WriteFree \/ WriteHeader

Next == Write \/ EndOfJob \/ RefuseObject \/ Kill

Spec == Init /\ [][Next]_vars

--------------------------------------------------------------------------------
(* Reading the file: rroot::file::initialize and find_tree *)

IsWhole(seek, kind) ==
  seek \in DOMAIN disk /\ disk[seek].whole /\ disk[seek].kind = kind

\* The root directory is read, and points to keys.
Opens == header.written /\ IsWhole(BEGIN, "directory") /\ directory # NoSeek

KeysRead == IF IsWhole(directory, "keys") THEN ToSet(disk[directory].body) ELSE {}

\* The objects a reader finds.
Found ==
  IF Opens THEN {key.name : key \in {k \in KeysRead : IsWhole(k.seek, "object")}}
  ELSE {}

\* The seeks of the records that a reader may reach: the directory, its keys,
\* the objects they name, the baskets the objects point to, the infos.
Reachable ==
  {BEGIN, directory, header.info} \cup {k.seek : k \in KeysRead}
    \cup {s \in DOMAIN disk : disk[s].kind = "basket"}

--------------------------------------------------------------------------------
(* Properties *)

\* The members of the file, its directory and its disk.
TypeOK ==
  /\ end \in Nat /\ nbytesFree \in Nat
  /\ {seekFree, seekInfo, seekKeys, directory} \subseteq 0..end - 1
  /\ segs # <<>> /\ \A i \in DOMAIN segs : segs[i].first \in Nat /\ segs[i].last \in Nat
  /\ Len(keys) <= Len(Objects) /\ DOMAIN disk \subseteq Nat
  /\ phase \in {"making", "running", "writing", "closing", "closed", "killed"}
  /\ step \in {"none", "header", "directory", "object", "keys", "pointer", "infos", "gap",
               "free"}
  /\ baskets \in 0..MaxBaskets /\ errors \in 0..MaxWriteErrors

\* Wherever the program was killed, the directory on the disk points to no
\* keys or to a whole record of keys; and each key leads to the whole object
\* it names, unless a write has failed: write_keys and write_header of
\* wroot::directory come after the objects.
DirectoryResolves ==
  directory # NoSeek =>
    /\ IsWhole(directory, "keys")
    /\ errors = 0 => \A k \in KeysRead :
         IsWhole(k.seek, "object") /\ disk[k.seek].body = k.name

\* No write ever touches a record that a reader can reach, before or behind
\* START_BIG_FILE and whatever failed: set_END, compress_buffer, add_free.
ReachableStaysWhole ==
  [][\A s \in Reachable : s \in DOMAIN disk /\ disk[s].whole => disk'[s].whole]_vars

\* The free segments are in order and apart, leave all that is reachable
\* alone, and the last is what follows END (set_END and add_free).  Behind
\* START_BIG_FILE add_free may join a freed record to the last segment, which
\* then no longer ends the file; no reader uses the list.
FreeListIsSound ==
  end <= START_BIG_FILE =>
    /\ Last(segs).first = end /\ EndsFile(segs)
    /\ \A i \in 1..Len(segs) - 1 : /\ segs[i].first <= segs[i].last
                                   /\ segs[i].last + 1 < segs[i + 1].first
    /\ \A i \in DOMAIN segs, s \in Reachable \cap DOMAIN disk :
         segs[i].last < s \/ segs[i].first >= s + disk[s].size

\* A file that was closed and where no write failed has all its objects, and
\* describes itself: END, the infos and the list of free segments are those in
\* memory.  Where END passes START_BIG_FILE the list may not fit in the size
\* counted for it, so that write() fails and the header points to no list;
\* the objects and infos can be read all the same.
ClosedFileIsComplete ==
  phase = "closed" /\ errors = 0 /\ ~refused =>
    /\ Found = ToSet(Objects) /\ IsWhole(header.info, "infos") /\ header.end <= end
    /\ end <= START_BIG_FILE =>
         /\ header.end = end
         /\ IsWhole(header.free, "free") /\ disk[header.free].body = segs

\* The file implements a store of objects that appear together.
Store == INSTANCE ObjectStore WITH
  Objects <- ToSet(Objects), found <- Found, intact <- errors = 0 /\ ~refused
ImplementsStore == Store!StoreSpec

================================================================================
