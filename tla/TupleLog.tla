------------------------------- MODULE TupleLog -------------------------------
(***************************************************************************)
(* What a tree promises to the code that fills it: it is a log of entries. *)
(* The program collects the entry's contents, a fill appends all of it at  *)
(* once, and nothing that was appended ever changes.  A fill that fails    *)
(* ends the promise: the log is no longer kept.                            *)
(***************************************************************************)
EXTENDS Sequences, Naturals

CONSTANT Contents   \* what an entry may hold

VARIABLES
  current,   \* the contents being collected
  log,       \* the entries, in the order of the fills
  kept       \* has every fill succeeded?

logVars == <<current, log, kept>>

LogInit == current \in Contents /\ log = <<>> /\ kept = TRUE

Collect == current' \in Contents /\ UNCHANGED <<log, kept>>

AppendEntry == kept /\ log' = Append(log, current) /\ UNCHANGED <<current, kept>>

Lose == kept' = FALSE /\ log' = <<>> /\ UNCHANGED current

LogNext == Collect \/ AppendEntry \/ Lose

LogSpec == LogInit /\ [][LogNext]_logVars

===============================================================================
