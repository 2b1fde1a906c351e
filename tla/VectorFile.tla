----------------------------- MODULE VectorFile -----------------------------
(***************************************************************************)
(* PrimaryGeneratorAction: the primaries of an event, from the records of  *)
(* a NUANCE vector file or from the particle gun, and the columns that     *)
(* EventAction writes for the event (mode, vtx, vecRecNumber and the beam  *)
(* and target rows).                                                       *)
(*                                                                         *)
(* The file is a sequence of lines that are read by their position in the  *)
(* record, whatever their first word: only "begin" and the end of the      *)
(* tracks are recognized.  The columns are members of the generator, so an *)
(* event that reads nothing is written with those of an earlier one.       *)
(*                                                                         *)
(* A line is its word, the number of its record, what the record says      *)
(* there (role) and whether it is longer than the buffer of readInLine; a  *)
(* final-state track also says if its PDG code is known.  A file may be    *)
(* damaged: a line too long sets the failbit of the stream, so that every  *)
(* later read finds no token, and the last record may be cut off.          *)
(* The generator of sim.cpp does not rewind; other programs set m_rewind.  *)
(***************************************************************************)
EXTENDS Integers, Sequences, FiniteSets

CONSTANTS
  Files,      \* the vector files that may be opened
  MaxEvents,  \* bound: events
  MaxCommands \* bound: commands of the messenger

Role == {"begin", "nuance", "vertex", "beam", "target", "info", "initial",
         "known", "unknown", "end", "none"}
Line == [word : {"begin", "nuance", "vertex", "track", "info", "end", "stop", ""},
         record : Nat, role : Role, long : BOOLEAN]
Blank == [word |-> "", record |-> 0, role |-> "none", long |-> FALSE]
NothingRead == [record |-> 0, role |-> "none"]

\* What nuance writes: the lines of a record stand together and have its
\* number, without blank lines, in the order in which GeneratePrimaries
\* expects them, with at least one line after the tracks, which the last
\* record of a file that was cut off lacks.
Header == <<"begin", "nuance", "vertex", "beam", "target", "info">>
IsRecord(f, k, e) ==
  /\ \A n \in DOMAIN f : f[n].record = f[k].record <=> n \in k .. e
  /\ \A n \in k .. e : f[n].word # "" /\ (n < k + 6 => f[n].role = Header[n - k + 1])
  /\ \A n \in k + 6 .. e - 1 : f[n].word = "track"
  /\ e < Len(f) => e >= k + 6 /\ f[e].word # "track"
WellFormed(f) ==
  /\ \A n \in DOMAIN f : f[n].role \in {"initial", "known", "unknown"} => f[n].word = "track"
  /\ \A k \in DOMAIN f : f[k].word = "begin" => \E e \in k .. Len(f) : IsRecord(f, k, e)

ASSUME VectorFileAssumption ==
  /\ Files \subseteq Seq(Line) /\ \A f \in Files : WellFormed(f)
  /\ MaxEvents \in Nat /\ MaxCommands \in Nat

VARIABLES
  program,       \* "running"; "looping" in GeneratePrimaries; "crashed"; "exited"
  event,         \* number of events generated
  commands,      \* number of commands executed
  m_rewind,
  useMulineEvt,  \* useNormalEvt is its negation
  isOpen,        \* inputFile.is_open()
  inputFile,     \* the lines of the file
  cursor,        \* the number of the next line
  good,          \* the stream has no failbit
  gun,           \* the particle that particleGun is set to
  columns,       \* mode, vtx, vecRecNumber, beam... and target...
  primaries,     \* what was shot for the event
  delivered      \* history: the records read since the file was opened

fileVars == <<isOpen, inputFile, cursor, good>>
vars == <<program, event, commands, m_rewind, useMulineEvt, fileVars, gun, columns, primaries,
          delivered>>

Column == {"mode", "vtx", "beam", "target", "vecRecNumber"}

Init ==
  /\ program = "running" /\ event = 0 /\ commands = 0
  /\ m_rewind \in BOOLEAN
  /\ useMulineEvt = FALSE
  /\ isOpen = FALSE /\ inputFile = <<>> /\ cursor = 1 /\ good = TRUE
  /\ gun = NothingRead   \* the constructor's mu+ at the origin
  /\ columns = [c \in Column |-> NothingRead]
  /\ primaries = <<>>
  /\ delivered = <<>>

-----------------------------------------------------------------------------
\* /mygen/generator: muline or normal.
SelectGenerator ==
  /\ program = "running" /\ commands < MaxCommands
  /\ commands' = commands + 1
  /\ useMulineEvt' \in BOOLEAN
  /\ UNCHANGED <<program, event, m_rewind, fileVars, gun, columns, primaries,
                 delivered>>

\* The line where an opened file is read first; the mutant goes on reading at
\* the position in the file that was open.
FirstLineMutant == cursor
FirstLine == 1

\* open() clears the failbit that the file before may have left.  The mutant
\* is a stream whose open() does not, as before C++11.
OpenedMutant == good
Opened == TRUE

\* /mygen/vecfile: the file is opened anew, even if it was open.
OpenVectorFile ==
  /\ program = "running" /\ commands < MaxCommands
  /\ commands' = commands + 1
  /\ inputFile' \in Files
  /\ isOpen' = TRUE
  /\ cursor' = FirstLine /\ good' = Opened
  /\ delivered' = <<>>
  /\ UNCHANGED <<program, event, m_rewind, useMulineEvt, gun, columns, primaries>>

\* "FATAL: ... not found": exit(0).
VectorFileNotFound ==
  /\ program = "running" /\ commands < MaxCommands
  /\ program' = "exited"
  /\ commands' = commands + 1
  /\ isOpen' = FALSE /\ inputFile' = <<>> /\ cursor' = 1 /\ good' = FALSE
  /\ delivered' = <<>>
  /\ UNCHANGED <<event, m_rewind, useMulineEvt, gun, columns, primaries>>

NextEvent ==
  /\ program = "running" /\ event < MaxEvents
  /\ event' = event + 1
  /\ UNCHANGED <<commands, m_rewind, useMulineEvt, isOpen, inputFile>>

LineAt(k) == IF k \in DOMAIN inputFile THEN inputFile[k] ELSE Blank

After(k) == IF k \in DOMAIN inputFile THEN k + 1 ELSE k

\* readInLine: no token if the stream has failed, at the end of the file and
\* on a blank line; the end and a line too long set the failbit.
LineRead(k, ok) == IF ok THEN LineAt(k) ELSE Blank
StaysGood(k, ok) == ok /\ k \in DOMAIN inputFile /\ ~inputFile[k].long
ReadOn(k, ok) ==
  /\ cursor' = IF ok THEN After(k) ELSE k
  /\ good' = StaysGood(k, ok)

\* An event without primaries; the columns are those of an earlier event.
NothingShot ==
  /\ primaries' = <<>>
  /\ UNCHANGED <<program, gun, columns, delivered>>

\* muline without a file: "Set a vector file".
NoFile ==
  /\ useMulineEvt /\ ~isOpen
  /\ NothingShot
  /\ UNCHANGED <<cursor, good>>
  /\ NextEvent

\* The line that an event begins with: if it finds no token and m_rewind is
\* set, the stream is cleared and reading starts again at the first line.
Rewinds == m_rewind /\ LineRead(cursor, good).word = ""
StartLine == IF Rewinds THEN 1 ELSE cursor

StartGood == IF Rewinds THEN TRUE ELSE good
FirstWord == LineRead(StartLine, StartGood).word

\* No token: "end of nuance vector file!"
EndOfFile ==
  /\ useMulineEvt /\ isOpen /\ FirstWord = ""
  /\ NothingShot
  /\ ReadOn(StartLine, StartGood)
  /\ NextEvent

\* A line that is not "begin" is consumed.
UnexpectedLine ==
  /\ useMulineEvt /\ isOpen /\ FirstWord \notin {"begin", ""}
  /\ NothingShot
  /\ ReadOn(StartLine, StartGood)
  /\ NextEvent

Value(line) == [record |-> line.record, role |-> line.role]

\* The lines on which the tracks of the record that begins at line k can
\* end: all the lines before such a one are read, and are tracks.
TracksEnd(k) ==
  {e \in k + 6 .. Len(inputFile) :
     /\ inputFile[e].word # "track"
     /\ \A n \in k + 6 .. e - 1 : inputFile[n].word = "track"
     /\ \A n \in k .. e - 1 : ~inputFile[n].long}
EndOfTracks(k) == CHOOSE e \in TracksEnd(k) : TRUE

\* The last line that can be read of a damaged record.
LastRead(k) ==
  CHOOSE m \in k .. Len(inputFile) :
    /\ inputFile[m].long \/ m = Len(inputFile)
    /\ \A n \in k .. m - 1 : ~inputFile[n].long

\* Mutant: the tracks inside the nucleus are shot too.
IsShotMutant(line) == line.role # "unknown"

\* Tagged "0", it leaves the nucleus; its PDG code is in the particle table.
IsShot(line) == line.role = "known"

\* How many of these lines are before line k, which of them is the n-th, and
\* what they say, in their order.
Before(lines, k) == Cardinality({l \in lines : l < k})
Nth(lines, n) == CHOOSE k \in lines : Before(lines, k) = n - 1
InOrder(lines) == [n \in 1 .. Cardinality(lines) |-> Value(inputFile[Nth(lines, n)])]

\* What the tracks on the lines from first to last shoot, one by one, leaving
\* the gun set to the last of them.
Shoot(first, last) ==
  LET shot == {n \in first .. last : IsShot(inputFile[n])}
  IN  /\ primaries' = InOrder(shot)
      /\ gun' = IF shot = {} THEN gun ELSE Value(inputFile[Nth(shot, Cardinality(shot))])

HeaderColumns(value) ==
  columns' = [mode |-> value[1], vtx |-> value[2], beam |-> value[3],
              target |-> value[4], vecRecNumber |-> value[5]]

\* The record that begins at StartLine is read line by line.
ReadRecord ==
  /\ useMulineEvt /\ isOpen /\ FirstWord = "begin" /\ TracksEnd(StartLine) # {}
  /\ HeaderColumns([n \in 1 .. 5 |-> Value(LineAt(StartLine + n))])
  /\ Shoot(StartLine + 6, EndOfTracks(StartLine) - 1)
  /\ ReadOn(EndOfTracks(StartLine), TRUE)
  /\ delivered' = Append(delivered, inputFile[StartLine].record)
  /\ UNCHANGED program
  /\ NextEvent

\* A record that cannot be read to its end: token is empty, but token[0],
\* token[1], token[2] are used.  The destroyed strings may still be there, as
\* those of the last line, or be something else, or the program crashes.
ReadCutRecord ==
  /\ useMulineEvt /\ isOpen /\ FirstWord = "begin" /\ TracksEnd(StartLine) = {}
  /\ LET m == LastRead(StartLine)
     IN  /\ \E left \in {Value(LineAt(m)), NothingRead} :
              HeaderColumns([n \in 1 .. 5 |->
                IF StartLine + n <= m THEN Value(LineAt(StartLine + n)) ELSE left])
         /\ Shoot(StartLine + 6, m)
         /\ program' \in {"running", "crashed"} \cup
              (IF LineAt(m).word = "track" THEN {"looping"} ELSE {})
         /\ cursor' = m + 1 /\ good' = FALSE
  /\ UNCHANGED delivered
  /\ NextEvent

\* The gun shoots what it is set to, which is the last particle of a vector
\* file if one was read; vertex and beam are those of that particle.
ShootGun ==
  /\ ~useMulineEvt
  /\ primaries' = <<gun>>
  /\ columns' = [columns EXCEPT !.vtx = gun, !.beam = gun]
  /\ UNCHANGED <<program, gun, cursor, good, delivered>>
  /\ NextEvent

Next ==
  \/ SelectGenerator \/ OpenVectorFile \/ VectorFileNotFound
  \/ NoFile \/ EndOfFile \/ UnexpectedLine \/ ReadRecord \/ ReadCutRecord \/ ShootGun

Spec == Init /\ [][Next]_vars
-----------------------------------------------------------------------------
TypeOK ==
  /\ program \in {"running", "looping", "crashed", "exited"} /\ good \in BOOLEAN
  /\ event \in Nat /\ commands \in Nat
  /\ m_rewind \in BOOLEAN /\ useMulineEvt \in BOOLEAN /\ isOpen \in BOOLEAN
  /\ inputFile \in Seq(Line)
  /\ cursor \in 1 .. Len(inputFile) + 1
  /\ gun \in [record : Nat, role : Role]
  /\ columns \in [Column -> [record : Nat, role : Role]]
  /\ primaries \in Seq([record : Nat, role : Role]) /\ delivered \in Seq(Nat)

\* Reference: what a record says, found by its number and not by position.
Said(r, role) == [record |-> r, role |-> role]
FinalState(r) ==
  InOrder({n \in DOMAIN inputFile : inputFile[n].record = r /\ inputFile[n].role = "known"})

\* A record that cannot be read to its end begins at line k.
CutAt(k) == LineAt(k).word = "begin" /\ TracksEnd(k) = {}

\* An event of the vector file is written as the record that it was read from:
\* the columns are those of ONE record, each from the line that is about it,
\* and the primaries are all the known particles that leave its nucleus, in
\* order (PrimaryGeneratorAction.hh:147-285); an event that reads nothing
\* shoots nothing and changes no column.  Only a record that is cut off can
\* be written otherwise.
EventIsRecord ==
  [][event' # event /\ useMulineEvt =>
       LET r == columns'.vecRecNumber.record
       IN \/ primaries' = <<>> /\ columns' = columns
          \/ /\ columns' = [mode |-> Said(r, "nuance"), vtx |-> Said(r, "vertex"),
                            beam |-> Said(r, "beam"), target |-> Said(r, "target"),
                            vecRecNumber |-> Said(r, "info")]
             /\ primaries' = FinalState(r)
          \/ CutAt(StartLine)]_vars

\* The lines on which records begin, and the numbers of the records in the
\* order of the file.
Begins == {k \in DOMAIN inputFile : inputFile[k].word = "begin"}
RecordNumbers == [n \in 1 .. Cardinality(Begins) |-> inputFile[Nth(Begins, n)].record]

\* Is there a blank line before the last record?
BlankInside ==
  \E k, l \in DOMAIN inputFile :
    k < l /\ inputFile[k].word = "" /\ inputFile[l].word = "begin"

\* Can every record be read to its end?
Undamaged ==
  \A k \in DOMAIN inputFile :
    ~inputFile[k].long /\ ~CutAt(k)

\* The events go through the records in the order of the file, none skipped
\* and none read twice before all are read, as often as the generator is
\* changed in between; at the end of the file every record has had its event.
\* A blank line counts as the end of the file: with m_rewind the records
\* after it are never read, so that case is left out, and so are, with
\* m_rewind, the records after a line that is too long.
RecordsInOrder ==
  ~(m_rewind /\ (BlankInside \/ ~Undamaged)) =>
    LET n == Cardinality(Begins) IN
      /\ \A k \in DOMAIN delivered : delivered[k] = RecordNumbers[1 + ((k - 1) % n)]
      /\ ~m_rewind => Len(delivered) <= n
      /\ isOpen /\ Undamaged /\ cursor > Len(inputFile) =>
           \E rounds \in 0 .. Len(delivered) : Len(delivered) = rounds * n

\* Has reading this file met a line that is too long?
HiddenByLongLine == \E k \in 1 .. cursor - 1 : inputFile[k].long

\* An event goes without its record only for a reason in the file that is
\* open: its next line begins no record, or lies behind a line too long for
\* the buffer.  What happened to the file before does not count, and with
\* m_rewind neither the end of the file nor a long line stops the events.
RecordsAreDelivered ==
  [][event' # event /\ useMulineEvt /\ isOpen /\ primaries' = <<>> /\ columns' = columns =>
       \/ LineAt(cursor).word # "begin" /\ (m_rewind => LineAt(cursor).word # "")
       \/ HiddenByLongLine /\ ~m_rewind
       \/ m_rewind /\ LineAt(1).word # "begin"
       \/ delivered' # delivered \/ CutAt(StartLine)]_vars
=============================================================================
