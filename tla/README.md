# MEMPHYS in TLA+

MEMPHYS simulates a water Cherenkov detector with Geant4: a neutrino
interaction is read from a vector file, its particles and their light are
tracked through a tank, the photomultipliers (PMTs) that the light hits are
recorded, digitized, and written to a ROOT file with a table of the particles.

The arithmetic of the physics is not the subject here.  The subject is the
control that decides *which* track, hit, tube, digit, row and column ends up
where: callbacks that Geant4 calls in an order that depends on the event,
objects that live for a step, a leg, an event, a run or the program, indices
into one container that are used for another.  All of it is single-threaded;
its hard behaviours are orderings, stale state and partial failure, not races.

## 1. Inventory

The system's own code is `src/MEMPHYS` (about 6000 lines).  It is driven by
Geant4 10.3, vendored under `src/inexlib/ourex/geant4.10.03.p01`, whose event,
tracking and run categories are modelled where they decide the order in which
the hooks of MEMPHYS run.  Its output is written by inlib
(`src/inexlib/inlib/inlib/wroot`) and read back by its `rroot`, which are
modelled where they decide whether an event that was filled can be read again.
The rest of the million lines around them is vendored: the physics processes,
geometry, interfaces and graphics of Geant4 and the libraries below them, whose
outcomes are choices of an environment here.

| Component | State it keeps | Operations | What makes it correct |
|---|---|---|---|
| Event loop: `G4EventManager`, `G4StackManager`, `G4TrackingManager` with `TrackingAction.hh`, `StackingAction.hh`, `Trajectory.hh` | urgent and waiting stack, the secondaries to be stacked, the track being stepped with the trajectory and `TrackInformation` of its leg, the trajectory container | begin an event, stack, pop, pre/post tracking, step, suspend, kill, abort | no track is lost, doubled or used after deletion; legs merge into complete trajectories; what is worth saving is kept; the event ends |
| Track table: `EventAction.cpp` `EndOfEventAction` | the Event tree's track sub-tree, the local lists of parents, the leading-particle indices, `RunAction`'s counter | beam and target row, one row per saved trajectory, the event row, early return | the table has exactly the saved particles; index and parent columns name the right rows; nothing of an earlier event |
| Photon detection: `WCSD.hh`, `WCHit.hh`, `SteppingAction.hh`, `TrackInformation.hh` | hits collection, `PMTHitMap`, the photon's flags, the boundary process's status | initialize, `ProcessHits` from three callers, flags | each detected photon counts once, in its tube |
| Digitizer and its output: `WCDigitizer.hh`, `EventAction.cpp` | trigger histogram, `RealOffset`, digits | sort, histogram, trigger search, gates, digit per hit; reset, hit, digit and event rows | t0 is the first full window; a digit is timed by its tube's earliest photo-electron; the rows are those of the event |
| Tube identity: `DetectorConstruction.cpp` | tube maps by tag and by ID, the copy-number array, static extremities, the geometry entry | construct, two traversals, geometry tuple, `GetTubeID` | tubes are numbered 1..n without gap; a hit leads to the row of its tube; the entry describes the tank that stands |
| Primary generator: `PrimaryGeneratorAction.hh` | open file and position, gun, mode/vertex/beam/target/record columns | two commands, read a record, end of file, rewind, gun | an event is one record; records in order |
| Run action: `RunAction.hh` | event counters | count, print | the printed number is the number of events |
| Analysis and its trees: `Analysis.hh`, `*_tree_*.icc`, `wroot/tree`, `branch`, `basket` | per column an open basket with its entry offsets, seeks and first entries of the baskets before; entry counts | fill, write a full basket, reset, stream a tree into an entry of another, write the tree | every entry that was filled reads back as it was filled; a lost row is reported; what is written the reader accepts |
| Output file: `wroot/file`, `directory`, `key`, `free_seg` | END, free segments, seeks in memory; records, header and directory header on disk | open, append a record, `write()`, `close()`, free a record | a job killed anywhere leaves nothing dangling; a closed file is complete; no write touches what is reachable |
| Compression: `wroot/file` `compress_buffer`, `rroot/key` `get_object_buffer` | chunks, the two sizes of the key | compress, give up, uncompress | buffers suffice; uncompressing gives the object |
| Reader: `applications/read.icc`, `rroot/branch` | per column the basket at hand; one tree object for all events | `find_entry`, `read_data` | an entry is the entry asked for; rows of one event; no basket used after deletion |
| Physics list, main programs, build | none that matters here | | |

Interaction: `sim.cpp` wires the parts and calls `BeamOn`.  For each event the
run manager asks the generator for primaries, the event manager runs the loop;
inside it Geant4 calls the stacking, tracking and stepping hooks, and the
sensitive detector through the stepping manager, the boundary process and, by
hand, the stepping hook.  At the end of the event `EndOfEventAction` reads the
container, the hits and the digits and asks the generator for its columns.  The
sensitive detector asks the detector construction for tube IDs.  The rows go to
three sub-trees, reset for each event, that are streamed as objects into the
entry of the Event tree; full baskets of all the trees go to the one file as
records.  When `sim.cpp` ends it deletes the analysis last, whose destructor
writes the trees and closes the file.

Hard behaviours:

* *Interleaving of legs.* Cerenkov radiation suspends the radiating track
  after a step and tracks its photons first, so an event is an interleaving of
  the legs of many tracks; each leg has its own trajectory, kept on the stack.
* *Ordering by completion.* Trajectories enter the container when tracks
  finish, and the table is computed in one pass over it.
* *Several callers of one handler.* `ProcessHits` runs up to three times for
  one step.
* *State that outlives its subject.* The boundary status, the generator's
  columns, the tube maps, the digitizer's histogram and offset, static
  variables.
* *Partial failure.* An exception may abort the event in the middle of a step;
  an unknown target returns early from `EndOfEventAction`; the vector file ends
  or is damaged.  A fill stops in the middle of its columns, a write fails, the
  job is killed between two writes of its file.
* *Boundaries.* Arrays that grow when their last slot is taken, a last chunk
  that is empty, two sizes that happen to be equal, a file that grows past the
  32 bits of its header.

`PROJECT.json` lists every hazard at its line with the properties that cover it.

## 2. Modules

| Module | Models | Checked by |
|---|---|---|
| `EventLoop` | the event loop with the MEMPHYS hooks | `MCEventLoop`, run `event_loop` |
| `EventTable` (extends `EventLoop`) | `EndOfEventAction` over the container that the loop leaves | `MCEventTable`, runs `event_table`, `lepton_index` |
| `EventTable_proofs` | safety of the event loop; the table, the index and the parents, proved | TLAPS |
| `PhotonCounting` | abstract: a tube's count is the number of photons detected there, each once | as a property of `WCSD` |
| `WCSD` | sensitive detector, stepping hook, flags | run `wcsd` |
| `WCSD_proofs` | its safety and that it implements `PhotonCounting`, proved | TLAPS |
| `WCDigitizer` | digitizer | with `EventOutput` |
| `EventOutput` (extends `WCDigitizer`) | hit and digit rows of the event, around the digitizer's steps | `MCEventOutput`, run `digitizer` |
| `EventOutput_proofs` | the order of times, the trigger, the digits and the rows, proved | TLAPS |
| `TubeRegistry` | dimensions, geometry tree and traversals, tube maps, volume codes | `MCTubeRegistry`, run `tube_registry` |
| `TubeRegistry_proofs` | its types, the numbering, the entry and the volume codes, proved | TLAPS |
| `VectorFile` | primary generator | `MCVectorFile`, run `vector_file` |
| `VectorFile_proofs` | its types, the order of the records and their events, proved | TLAPS |
| `WrootBranch` | one column: its baskets, arrays and image in the file, and how the reader finds an entry in it | with `WrootTree` |
| `WrootTree` (extends `WrootBranch`) | the Event tree and a sub-tree, filled event by event over failing writes | run `wroot_tree` |
| `TupleLog` | abstract: an append-only log of entries | as a property of `WrootTree` |
| `RrootTree` (extends `WrootTree`) | the reader over the trees as they were written | run `rroot_tree` |
| `RrootTree_proofs` | safety of writer and reader, and that `WrootTree` implements `TupleLog`, proved | TLAPS |
| `WrootFile` | the file, its directory and its free segments, write by write | `MCWrootFile`, run `wroot_file` |
| `ObjectStore` | abstract: the objects of a file appear together and stay | as a property of `WrootFile` |
| `WrootFile_proofs` | its safety and that it implements `ObjectStore`, proved | TLAPS |
| `WrootZip` | compression and uncompression of one record | runs `wroot_zip`, `uncompress` |
| `WrootZip_proofs` | types, buffers and the round trip, proved | TLAPS |

### EventLoop

`phase` is the place in `DoProcessing`: `stack` inside `StackTracks`, `pop`
before `PopNextTrack`, `pre`, `step` and `post` inside `ProcessOneTrack`,
`retire` at the switch on the track's status, `end` when the stacks are empty.
A track is a record in `track`, its ID the index, as the IDs are given from 1
on; `deleted` says that the C++ object is gone (the record stays, so that a use
after deletion can be seen).  `PushOneTrack` is one turn of `StackTracks`
including the classification; `PopNextTrack` includes the refilling of the
urgent stack; `Stepping` is one turn of the loop of `ProcessOneTrack`;
`SuspendTrack`, `KillTrack` and `AbortTrack` are the three branches of the
switch, each with the merge of the trajectory and the reset of the pointers.

A trajectory is its track's ID, the number of its points, its stopping point
(as the number of steps of the track) and its save flag.  Physics is an
environment: `Daughters[p]` says what a step of a particle may create,
`Charged` which particles may radiate, and `StatusAfter` what statuses the
code can leave.  `G4Cerenkov` sets `fSuspend` exactly when it made photons of
an alive track.

Properties: `TrackInOnePlace`, `TrajectoryComplete` (the container's
trajectories have one point per step over all legs and the true stopping
point), `NothingLeftAtEnd`, `SecondariesFirst` (when a track is resumed its
photons are gone), and `EventEnds`.

### EventTable

`FillBeamAndTarget`, one `FillTrack` per turn of the loop, `FillEvent`.  The
parent lists are filled in the same turn as the row, before the parent is
looked up, as in the code.  `i` and the index columns are counted as in the
code, from 0 and with 2 added for the beam and the target.  `ParentKnown` says
that a parent column names a particle's parent or is 999, and 999 for a listed
parent only if that parent may have been suspended: then it may finish, and
enter the container, after its secondary.

### PhotonCounting and WCSD

One `Stepping` is split where a handler runs: the processes (with `InvokeSD`
inside `Detect`), the sensitive detector of the step's start, the user stepping
action.  `boundaryStatus` is a state variable because it belongs to the process
object and survives steps and photons.  A tube stands for its tag.  The
refinement maps the count of a tube to the `totalPe` of its hit, and the counted
photons to the track IDs in the hits.

### WCDigitizer and EventOutput

Times are integers; the window sum, its start and the exit of the loop are the code's.
The sort of a hit's times gives each time the place that its rank says, the number of
times before it (`Earlier`, `Increasing`); the sum over a window of bins is the size
of a disjoint union of the bins' entries (`acc`): so the proofs need no induction over
times or bins. `OneHitPerTube` is what is assumed of a hits collection: the sensitive
detector makes one hit per tube and only for a photo-electron (`MapMatchesCollection`
of `WCSD`). Threshold's polynomial and the Gaussian smearing are a nondeterministic
outcome (`rejected`, `positive`, `negative`), the time error a member of `Noise`.
`EventOutput` puts the steps of the digitizer where `EndOfEventAction` calls
`Digitize`: after the reset of the sub-trees (and after the early return of an unknown
target, `UnknownTarget`), before the rows are written. `fill_hit`, `fill_digit` and
`fill_event` are one call each; an entry holds a copy of the sub-trees, which stay as
they are until the next event's reset. `EntryIsEvent` compares the entry with the
collections it was made from. The photo-electrons of a digit and `sumPE` are left out
of the rows, as only their sign is known.

### TubeRegistry

The recursion of the traversal is the sequence `pending` of visits still owed, so that
a traversal is a sequence of steps and the static array behind the tags is seen at
each of them. `Daughters` is the tree that `ConstructWC` places, in the order of
construction: two volumes per tube with the same copy number, replicated rings and
cells, the black sheets. `Set8inchPMTGeometry` and `Set12inchPMTGeometry` give the
dimensions from the numbers in the code (scaled down for TLC), `CapCells` selects the
cells of a cap that get a tube; square roots are compared by their squares.
`TubeRegistryAssumption` is all that is assumed of the numbers: lengths are in a unit
in which the halves taken along z are whole, and the shield fits into the tank;
numbers of rings, cells and tubes may be 0. The first construction is of the constructor's
geometry or of one that `/MEMPHYS/WCgeom` selected before it, the later ones of selected
ones. `entry` is the entry of the Geometry tree; its offset is divided by `cm` once more
than its other lengths, which only a centred tank survives.
The volume codes of `EventAction` are operators on the names of the tree;
`VolumesKnown` holds them to the tree. A key looked up in a `std::map` is inserted,
and so it is in `GetTubeID`.

### VectorFile

A file is a sequence of lines; a line is its first word, the number of its
record, what the record says there, and whether it is too long for the buffer of
`readInLine`.  The code reads lines by position, and so does the model:
`EventIsRecord` compares with a reference that finds the lines by their record
number.  `WellFormed` says what the program that writes the file promises: the lines of
a record are those with its number and stand together, without blank lines, in the order
the code expects, and a line that is no track follows them unless the file was cut off
there.  The lines of a set are put in order by counting those before each
(`Before`, `Nth`), which the proofs can reason about without induction.  A vertex whose z is 0 gets a random z in the code; its `Value` stands
for that position.

`good` is the stream's failbit: `getline` sets it on a line of more than 99
characters, and from then on every read gives an empty line, until the stream is
opened again (or `GeneratePrimaries` clears it, with `m_rewind`).  A record that
is cut off leaves `token` empty while `token[0]` and `token[1]` are read; what
the program then does is undefined, and `ReadCutRecord` may do any of what the
memory behind an empty vector can make it do: take the tokens of an earlier line,
crash, or go on looking for a track for ever (`program`).  A file that cannot be
opened ends the program (`VectorFileNotFound`).

### WrootBranch, WrootTree and TupleLog

The bytes of a basket are a sequence of chunks, each with where it starts, its
length and the value it stands for, so that an entry that is looked up at a wrong
offset is `Garbage`.  The seek of a basket is the number of its record (where
records lie is the subject of `WrootFile`).  `FillStep` is one turn of the loop
of `tree::fill` over the columns, with the whole of `branch::fill` inside it: a branch
without a slot refuses (`ArraysFit` shows that none does), the entry is counted first, the leaf streamed, the basket updated, and, if another entry
would not fit, the basket written and the next one opened, each of which may
fail.  `EventAction` prints and goes on after a failed fill, and so does the model.
An entry of the hit column is the image of the hit tree, open basket included;
streaming a basket fails if it was written or streamed before.  One sub-tree with
two columns stands for the track, hit and digit trees, which are handled alike,
and three columns of the Event tree for its fourteen.

`EntriesReadBack` reads every entry, at every moment, as the reader would.
`TupleLog` promises an append-only log as long as no fill failed; the refinement
maps its entries to what the reader's functions find in branches and records, so
that a step that disturbs an old entry is no step of the log.

### RrootTree

The reader starts when the tree has been written.  `FindEntry` is the function:
the basket at hand, else the next, else a search from the first; deletion of the
basket that is left; a read of the record, which may fail; the leaf, which keeps its
value if the basket has no offset for the entry.  `hitTree` is
the one object that `read_data` reads every event's rows into.  In a run the
entries come in order, as `read_data` reads them, or in any order (`anyOrder`) as
another program that uses `rroot` may.

### WrootFile and ObjectStore

`disk` maps a seek to the record written there.  Every `::write` of the code is an
action of its own with three outcomes: it succeeds, it fails, the program is
killed in the middle of it (the record is there but not `whole`).  A word that is
rewritten in place and then synchronized is the new one or the old one if that failed
(`InPlace`).  A basket's key has the 64 bit form wherever the basket lies.  `phase` and
`step` are the place in constructor, job, `write()` and `close()`; `Following`
gives the order of the writes.  A write into free space never overlaps another;
`Put` damages whatever it overlaps, so that `ReachableStaysWhole` can fail.
`Found` reads the file as `rroot::file` and `find_tree` do.  `ObjectStore` is what
whoever opens the file at any moment may rely on.

### WrootZip

A chunk is where it starts in the object, how many bytes it has there and how many
it was deflated to, which is any number of bytes up to `MAXBUF`; deflate may also
find no room.  The record does not say whether it is compressed: the reader
compares the object's size with the record's.  Its loop knows the number of bytes it
wants and not where the record ends: `stage` is `overrun` if it went on behind the last
chunk, which `BuffersSuffice` excludes.

## 3. Runs

| Run | Question | Bounds, and why they are enough |
|---|---|---|
| `event_loop` | Is the loop right under suspension, resumption, abort, drawing? | 2 events (a reset matters), 1 primary, 4 tracks, 3 steps, 2 secondaries per step: a muon can be suspended twice with photons between, or decay in its second leg to an electron that radiates and is suspended in turn |
| `event_table` | Is the table right when photons are not drawn? | 2 events, 2 primaries (an energy comparison), 3 tracks, 2 secondaries per step: a parent suspended behind a photon and a second daughter; aborts and unknown targets included |
| `wcsd` | Is each detection counted once? | 3 photons, 2 tubes, 2 events: two photons in a tube and one in another, a stale status and a stale map |
| `digitizer` | Trigger, times and rows | 5 bins, a window of 2 bins, one tube with up to 3 times or two with up to 2, beyond the last bin included; at most 2 times of a hit written (100 in the code), so that a third is left out; 2 events, each of which may have an unknown target; all collections |
| `tube_registry` | Numbering over several constructions | a tank of 35 tubes with an odd number of cap cells, or at once one of 30, then twice one of 30, shorter, with outer parts of different length and with cap cells rejected: the maps keep stale tubes, the extremities a longer tank |
| `vector_file` | Events and records | seven files: complete, with blank lines, without a last line, cut off in a record's header and in its tracks, with a long line in the tracks or at the end of a record; 8 events, 4 commands, with and without rewind: each file is read to its end and another opened after it |
| `wroot_tree` | Is what was filled what is read? | baskets of 3 bytes with scalars of 1, arrays that start with 2 slots: three rows fill a basket, and the arrays grow in an event; 3 events with up to 3 rows; trees of 1 or of 3 bytes, so that the tree column's basket is full after each entry or not; one write fails at any place |
| `rroot_tree` | Is the reader right in any order and after errors? | as before with trees of 3 bytes (a basket per entry), one failing write and one unreadable basket |
| `wroot_file` | Is the file whole whenever it is looked at? | 2 objects of 2 sizes, 2 baskets of 7 sizes, so that the file passes `START_BIG_FILE` (40 small units) in any of its writes, or ends just before it; 2 failing writes (a second one during `close()`); a kill at any step |
| `wroot_zip` | Do buffers suffice, is the object given back? | chunks of 6 bytes, headers of 2, objects of 1 to 20 bytes: up to four chunks, the last of them full, partial or empty; every deflated size |

The other two runs each show a statement of the repository that the code does
not keep (`findings` in `PROJECT.json` quotes them):

* `lepton_index`: with photon drawing on, as `exa_run/init.g4m` asks for, a
  drawn photon's trajectory stands in the container without a row, and
  `leptonIndex` (container index plus 2) names another row or none.
* `uncompress`: an object whose compressed bytes, headers included, are exactly
  as many as its own is taken for an uncompressed one and read back as its
  compressed bytes.

Also seen while modelling, without a run of their own:

* the branch for the outgoing proton (`EventAction.cpp:340`) tests 11 and -11, the
  codes of electron and positron, where the comment at `:260` says proton;
* the parent column of the secondary of a suspended muon may be 999
  (`ParentKnown` has this exception);
* "Number of Events Generated" (`RunAction.hh:42`) counts saved trajectories
  (`EventAction.cpp:297`), and the percentage divides by it, also when it is 0;
* a window with exactly `GlobalThreshold` hits does not trigger
  (`WCDigitizer.hh:71`), though the comment at `:203` says that this is the number
  of hits to trigger; a hit without photo-electrons in the event window may become
  a digit by smearing alone; `WCHit.hh:182` says of the gates "are durations, ie
  not absolute times" while `Digitize` passes absolute times, and the times are
  sorted but not the track IDs beside them;
* the tank's offset is divided by `cm` in `DetectorConstruction.cpp:1305` and again at
  `:1478`; it is 0 in every geometry of the code (`EntryDescribesTank`);
* a photon killed on entering the hall (`SteppingAction.hh:72`) keeps the
  `active` flag; an aborted event is written all the same; volumes looked up in
  `EventAction.cpp:544` may be null;
* with rewind, an empty line inside a vector file hides the records after it; in
  gun mode, target, mode and record number of the last vector-file event stay in
  the columns, and the gun shoots the last particle of the file if it was not set
  since;
* after a failed fill the columns of the Event tree are shifted against each other
  (`wroot/branch:308` counts the entry first, `wroot/tree:209` returns at the first
  failure), and a reader is not told: an entry behind the last of its branch leaves
  the leaf's old value (`rroot/branch:544`).  The properties of `WrootTree` and
  `RrootTree` stop at the first failed fill for that reason;
* `add_free` may join a record freed behind `START_BIG_FILE` to the ending segment
  (`wroot/free_seg:143`, `wroot/file:91`), and the list of free segments is counted
  before its own record moves END past that border (`wroot/file:654`), so that its
  write fails and the header points to no list; no reader uses it.

All passing runs say `CHECK_DEADLOCK FALSE` because the bounds on events,
builds and commands, and the end of a file or a record, stop the system where the
program ends its run too.

### Bounds

`MaxEvents`, `MaxPrimaries`, `MaxTracks`, `MaxSteps`, `MaxPerStep`
(EventLoop), `MaxEvents` (WCSD, WCDigitizer with EventOutput, VectorFile), `MaxBuilds`
(TubeRegistry), `MaxCommands` (VectorFile), `MaxEvents`, `MaxRows` and `MaxWriteErrors`
(WrootTree), `MaxReadErrors` (RrootTree), `MaxBaskets` and `MaxWriteErrors` (WrootFile),
`MaxBytes` (WrootZip).  `MaxSteps` is met by a kill in the
last step, which every particle can suffer, and `MaxTracks` by steps that make
fewer secondaries.

### Fairness

`EventLoop` has weak fairness of `Next` (`EventTable` of `TableNext`): one
thread runs the loop and waits for nothing, so it goes on as long as a step is
possible.  There is no fairness of a particular outcome of the physics; that the
event ends rests on `MaxSteps`, which stands for the energy loss that ends every
real track.

`WrootZip` has weak fairness of `Next` for the same reason: two loops of one thread.
`WrootFile` has none, as a process may be killed, and the safety properties of the
other modules need none.

## 4. Proofs

Each theorem below is proved for every value of the constants that the module's
assumption allows: any number of tracks, photons, events, rows or baskets, any
environment, any sizes.  The assumptions are on constants only, and TLC evaluates
each of them in the runs.  The safety theorems all have the same outline: a named
invariant, one lemma per action that the action keeps it, and a last step that
combines them.  What is said here is why each invariant is needed.

### EventTable_proofs: the event loop

| Theorem | Statement |
|---|---|
| `TypeCorrect` | `Spec => []TypeOK` |
| `TracksAreInOnePlace` | `Spec => []TrackInOnePlace` |
| `TrajectoriesAreComplete` | `Spec => []TrajectoryComplete` |
| `NothingIsLeft` | `Spec => []NothingLeftAtEnd` |
| `PhotonsComeFirst` | `Spec => []SecondariesFirst` |

`TrackInOnePlace` is not inductive by itself.  `IInv` adds `PhaseOK` (a track is in
the tracking manager exactly in the phases `pre` to `retire`; the stacks are empty
between events, without which destroying only the urgent stack in `BeginOfEvent`
would leak tracks; `stack` has something to stack) and `PointsOK` (every trajectory
that exists has at least its first point, without which merging could make a
negative number of points).

The other three need `Inv`, which adds what a leg leaves behind.  `LegsOK`: whether a
track is worth saving is settled when it is created, so that either every leg of it
leaves a trajectory or none does (only a photon that is drawn leaves one that is not
marked); an optical photon cannot radiate and so has one leg; the trajectory of the
leg at hand started where the merged one stops.  `ParentsOK` and `OrderOK`: the
daughters of a track on a stack that nobody has tracked stand above it on the same
stack, so that it cannot be popped before them.  An aborted event has empty stacks.

### EventTable_proofs: the table

| Theorem | Statement |
|---|---|
| `TableTypesHold` | `TableSpec => []TableTypeOK` |
| `TableIsComplete` | `TableSpec => []TableComplete` |
| `LeptonIndexIsRight` | `~DrawOptical` implies `TableSpec => []LeptonIndexIsLepton` |
| `ParentsAreKnown` | `MuonsDecay` implies `TableSpec => []ParentKnown` |
| `TableRunsTheLoop` | `TableSpec => Init /\ [][Next]_vars` |

First what the loop leaves in the container (`LoopOK`, kept by every step of the
loop): a track that lives is stacked; a marked trajectory is that of a stacked track
worth saving, and without drawing of photons every trajectory is marked; a mother
worth saving stands in the container before her daughters unless she has photons
for daughters, which may have suspended her.  Then the table after the first i
trajectories of that container (`TableOK`).

The two hypotheses are on constants and both needed.  With `DrawOptical` the
`lepton_index` run refutes the property.  `MuonsDecay` says that a muon that a step
creates comes from a decay, so that it is saved as `SaveAPriori` says; a muon of
another process below the energy that is saved would be missing from the lists
`EventAction` looks parents up in.  The environment of the `event_table` run has
such a decay (pion to muon).

### WCSD_proofs

| Theorem | Statement |
|---|---|
| `MapIsTrue` | `Spec => []MapMatchesCollection` |
| `DetectionsCountOnce` | `Spec => []CountedOnceIfDetected` |
| `FlagsDoNotContradict` | `Spec => []FlagsConsistent` |
| `CountingIsImplemented` | `Spec => ImplementsCounting` |

`StepInv` carries the argument: while a photon is stepped `active` is its only flag
and no hit holds it.  The call that `InvokeSD` makes in the boundary process finds the
photon still alive and does not count it; the particle change is applied, and the call
that `UserSteppingAction` makes by hand finds it stopped and counts it.  The boundary
status says `Detection` at the user stepping action only if it belongs to the step at hand.  The proof of the
refinement shows that the count of a tube, looked up in the map, goes up by one in
that one step and stays in every other.

### RrootTree_proofs: the trees as they are written

| Theorem | Statement |
|---|---|
| `TypesHold` | `Spec => []TypeOK` |
| `ArraysAlwaysFit` | `Spec => []ArraysFit` |
| `OnlyWritesFail` | `Spec => []FailuresHaveACause` |
| `TreeCanBeRead` | `Spec => []ReaderAcceptsTree` |
| `EntriesAlwaysReadBack` | `Spec => []EntriesReadBack` |
| `NoRowIsEverLostSilently` | `Spec => []NoRowIsLostSilently` |
| `LogIsImplemented` | `Spec => ImplementsLog` |

The baskets of a branch share its entries out in windows, and each holds its own one
behind the other (`IsImage`); an entry lies in exactly one window, and what the reader
finds at its offset there is the chunk that was appended for it (`EntryInWindow`).  Taking
an entry, opening the next basket, growing the file and marking a basket as streamed
each leave every old entry as it was.  So one turn of `tree::fill` either appends the
leaf to its branch or gives the branch up after a write that failed (`FillStepIs`).  From
there: the hit tree holds the rows so far unless one of its baskets was given up;
the leaf is that of the event at hand; a fill that succeeds before any failure has
appended to every branch; and as the sub-trees are reset first, no basket is streamed
twice.  The refinement maps the log to the entries that were filled, and shows that
they are what the reader's functions find.

### RrootTree_proofs: the reader

| Theorem | Statement |
|---|---|
| `BasketsStayManaged` | `ReadSpec => []BasketsAreManaged` |
| `LeavesAreTheEntry` | `ReadSpec => []LeafIsTheEntry` |
| `RowsAreTheEvents` | `ReadSpec => []RowsBelongToTheEvent` |

On top of the writer's invariant: the basket that `find_entry` chooses, the one at hand,
the next or one that it searches for, is the one with the entry in its window; the
reader keeps at most that basket, also after a read that failed (`IsReader`); every
entry that the tree counts is in every branch (`EntriesCovered`); each object in the
hit column is a whole tree whose images are new ones, with no basket left of the
previous event (`ObjectIsTree`); and the entry behind the last good one, where a
failed fill has shifted the columns, has no object, so that `read_data` stops there
(`LossIsMarked`).

### WrootFile_proofs

| Theorem | Statement |
|---|---|
| `DirectoryAlwaysResolves` | `Spec => []DirectoryResolves` |
| `ReachableIsNeverTorn` | `Spec => ReachableStaysWhole` |
| `FreeListStaysSound` | `Spec => []FreeListIsSound` |
| `ClosedFileStaysComplete` | `Spec => []ClosedFileIsComplete` |
| `StoreIsImplemented` | `Spec => ImplementsStore` |

`IInv` has eight parts.  `Layout`: the records lie apart and before END, so that a record
written at END tears nothing.  `FreeRecord`: the mark that `make_free_seg` writes falls
on the old record of the free list and on nothing else, and no reader reaches that
record.  `Segments`: the free segments are in order and apart, below
`START_BIG_FILE`.  `Types`, `Control`, `Seeks`, `Pointers` and `Complete` follow the order
of the writes: what a key or a header points to was written before it, and what
`close()` writes it writes again before it points anywhere new.

### WrootZip_proofs

| Theorem | Statement |
|---|---|
| `TypeCorrect` | `Spec => []TypeOK` |
| `NothingOverflows` | `Spec => []BuffersSuffice` |
| `ReaderGetsTheObject` | `Spec => []AcceptedIsObject` |
| `NeverRefused` | `Spec => [](stage # "refused")` |

The inductive invariant is `TypeOK /\ WriterInv /\ ReaderInv`.  `WriterInv` places the
writer: before chunk k it has passed `k * MAXBUF` bytes, chunk j of the target starts
at `j * MAXBUF`, and, as each chunk with its header is no larger than it was, the
target is no longer than the bytes passed; so there is always room for the next
chunk and its header.  `ReaderInv` says that the pieces read so far are the first
chunks, in place, and that their bytes end where the next chunk starts; it contains
`AcceptedIsObject`.  The products
`k * MAXBUF` need facts about multiplication that stand as lemmas of their own
(`Places`, `EarlierChunkEndsFirst`).

### VectorFile_proofs

| Theorem | Statement |
|---|---|
| `TypesHold` | `Spec => []TypeOK` |
| `RecordsStayInOrder` | `Spec => []RecordsInOrder` |
| `EventsAreRecords` | `Spec => EventIsRecord` |
| `RecordsReachTheirEvents` | `Spec => RecordsAreDelivered` |

A record that is read to its end is read exactly to the last of its lines
(`RecordEnds`): so the lines found by position are those that its number finds
(`RecordIsWhole`), and no other record begins before the next line (`NextBegin`).
`IInv` is `TypeOK /\ WellFormed(inputFile) /\ FailsBehind /\ Places`.  `Places`: the k-th
record read is the one with `(k - 1) % n` of the file's n records before it, and as long
as the stream is good the number of records read is that of the records before
the cursor after some whole rounds, none without rewind; it is what makes the order
inductive, since the next record begins at or behind the cursor.  `FailsBehind`: the stream
has failed only behind a line too long or at the end of the file, so that a rewind comes
when all records have been read.  `WellFormed` of every file is the assumption on the
constants; the files may be cut off and have long lines anywhere.

### TubeRegistry_proofs

| Theorem | Statement |
|---|---|
| `Invariant` | `Spec => []IInv` |
| `TypesHold` | `Spec => []TypeOK` |
| `TubesAreNumbered` | `Spec => []TubesNumbered` |
| `HitsLeadToTheirTubes` | `Spec => []HitLeadsToItsTube` |
| `EntryDescribesTheTank` | `Spec => []EntryDescribesTank` |
| `VolumesAreKnown` | `Spec => []VolumesKnown` |

They hold for tanks of any size, also without tubes, and for any number of calls of
`Construct` with any of the configurations.  A traversal is described by the visits it
still owes: they lie in the tree, come in order of depth, none deeper than those before,
and no two of them lead to the same tube (`Orderly`).  `OnTheWay`: the static array holds
the numbers on the way to every visit owed.  This is what makes the tags right although
the array is never reset: whatever is visited before an owed visit lies at least as
deep and writes only behind the numbers that this one needs.  `Numbered`: a tube that no
owed visit leads to is filed, in all three maps, under an ID given in this traversal,
and every ID given so far belongs to such a tube; what older geometries left in the maps
is either overwritten or lies behind `totalNumPMTs`.  `Measured` is the same for the
second traversal: each extremity is the initial value until the sheet that moves it has
been visited, and as the front cap's comes first, the last visit of a sheet measures the
distance of both.  The number of tubes in the entry is counted with a bijection
between the IDs and the touchables.

### EventOutput_proofs

| Theorem | Statement |
|---|---|
| `TimesAreSorted` | `Increasing(s)` is sorted and has each time as often as `s` |
| `OutputInvariant` | `OutputSpec => []OutputInv` |
| `OutputTypes` | `OutputSpec => []OutputTypeOK` |
| `TriggerIsFirst` | `OutputSpec => []TriggerIsFirstWindow` |
| `DigitsFromFirstTimes` | `OutputSpec => []DigitFromFirstTime` |
| `EntryIsOfItsEvent` | `OutputSpec => []EntryIsEvent` |

They hold for any histogram, window, threshold and gate, any collections with one hit per
tube, any outcome of threshold and smearing, and events with an unknown target between
the others.  Times are ranked by value and place; the ranks of n times are the numbers
0 to n - 1, each once, since less than n times come before one and two times have
different ranks, so that the sort is a permutation (`TimesAreSorted`).  A bin's entries
are the times that fall into it and the bins of a window partition its times
(`CountIsWindow`, a bijection), so that the sum that the trigger loop accumulates is the
number of times in the window; `Searched` says that the bins passed do not trigger.
`Digitized`: a digit is of a hit that the loop has passed and is timed by its first time;
two digits of one tube would be of one hit.  `Written`: the rows so far are those of the
first hits and digits, and a filled entry is a copy of all of them.  `EntryIsEvent`
follows with `Ordered`: the times written of a hit are the first of its times in order, so
that a time that is left out is no earlier than any that is written.

### Only model-checked

* Liveness, which is out of the prover's reach: `EventEnds`, `EveryRecordIsRead`.
* `LeptonIndexIsLepton` with photons drawn and `UncompressGivesTheObject` are false
  of the code and stay the two runs that show it.

## 5. Not modelled

* Physics, shapes, materials, optical surfaces, rock, wavelengths, quantum efficiency values:
  data or an environment choice.
* The kinematic columns of the table, and which volume a point lies in.
* `UpdateColour` and other drawing.
* In `wroot` and `rroot`: several objects of one name (cycles), sub-directories,
  columns of vectors, parallel filling (`add_basket`), the contents of the streamer
  infos, byte swapping; MEMPHYS uses the first four nowhere but for the vector of hit
  times, whose rows are in `EventOutput`.  `m_entries` of a branch always equals its
  entry number and is left out.
* The disk below `::write`: a word written in place is written whole, and a killed
  process loses nothing that it has written; a power failure may.
* Memory that cannot be allocated, and arrays of baskets that would reach 2000000000
  slots (`wroot/branch:517`): no job comes near that number.
* deflate and inflate: `WrootZip` lets the first give any size and the second undo it.
* The 20 inch configuration, which no command selects.
* The counters of `RunAction` other than `numberOfEventsGenerated`.
* Physics list, main programs, plotters, build scripts, vendored libraries (beyond
  the parts of Geant4 and inlib named above): they have no state that these
  properties depend on.

## 6. Plan

Done first, in order of importance: the event loop and its proof, the table,
photon detection with its abstract specification, tube identity, digitizer
with the hit and digit rows, vector file.  Then the output: trees and baskets with
the log they implement, the reader over them, the file under kills and failing
writes with the store it implements, compression with its proofs; and damaged
vector files.

Then the proofs of section 4: the safety of the event loop and of the table, of photon
detection, of the vector file, of the trees, their reader and the file, of the tube
registry, and of the digitizer with the rows of the event, and the refinements of the
three abstract specifications.  Every safety property that a run checks and the code
keeps is proved.

Left of the model: `WCSD` composed with `TubeRegistry` and `EventOutput` into the
data path of an event over a rebuild of the geometry; several runs with
`RunAction`'s counters; an abstract event loop (a set of tracks still to be done)
that `EventLoop` implements.
