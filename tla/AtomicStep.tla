----------------------------- MODULE AtomicStep -----------------------------
(***************************************************************************)
(* What a workflow may assume of one of its steps, without attempts,       *)
(* timeouts, backoff or storage: it is the step of module Engine, seen     *)
(* from one instance.  An execution of the closure ends with the result in *)
(* the journal, with a dead letter there, or with nothing at all; a result *)
(* in the journal is the answer for ever, and only without one does the    *)
(* closure run.                                                            *)
(***************************************************************************)
CONSTANTS
  Value,    \* results
  Refused   \* entries that are no result of this step and that it must leave

VARIABLES
  entry,      \* the journal entry: a result, "absent", "Failed" or refused
  executing   \* the closure may be running

AtomicInit ==
  /\ entry \in Refused \cup {"absent"}
  /\ executing = FALSE

\* Engine's StepRun, when there is no result.
StepRun ==
  /\ ~executing
  /\ entry \in {"absent", "Failed"}
  /\ executing' = TRUE
  /\ UNCHANGED entry

StepOk ==
  /\ executing
  /\ entry' \in Value
  /\ executing' = FALSE

StepDeadLetter ==
  /\ executing
  /\ entry' = "Failed"
  /\ executing' = FALSE

\* Engine's StepTimeout and DropTask.
StepLost ==
  /\ executing
  /\ executing' = FALSE
  /\ UNCHANGED entry

AtomicNext == StepRun \/ StepOk \/ StepDeadLetter \/ StepLost

AtomicSpec == AtomicInit /\ [][AtomicNext]_<<entry, executing>>

=============================================================================
