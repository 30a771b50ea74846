-------------------------- MODULE EngineRefinement --------------------------
(***************************************************************************)
(* Engine implements DurableWorkflow: an instance's status is the status   *)
(* in its metadata, and what it has memoised are the completed entries of  *)
(* its journal.  To each of its steps Engine is an AtomicStep.             *)
(***************************************************************************)
EXTENDS Engine

StatusOf == [i \in Instance |-> meta[i].status]
MemoOf ==
  [i \in Instance |->
     [k \in Keys |-> IF steps[i][k] \in Result THEN steps[i][k] ELSE "absent"]]

Durable == INSTANCE DurableWorkflow
             WITH status <- StatusOf, memo <- MemoOf, NoResult <- "absent"

\* Every interleaving of tasks, signals, timers, shutdowns, crashes and restarts
\* looks like a run of the abstract workflow: each result is memoised once, in
\* order, and a payload reaches only a suspended instance, at its frontier.
ImplementsDurable == Durable!DurableSpec

-----------------------------------------------------------------------------
\* Some task of instance i is inside the closure of its step k.
Executing(i, k) ==
  \E t \in Task : tasks[t].phase = "exec" /\ Inst(t) = i /\ Pc(t) = k

AtomicOf(i, k) == INSTANCE AtomicStep
                    WITH entry <- steps[i][k], executing <- Executing(i, k),
                         Refused <- {}

StepAction(i, k) ==
  [AtomicOf(i, k)!AtomicNext]_<<steps[i][k], Executing(i, k)>>

\* A workflow may take each of its steps for atomic, whatever runs around it:
\* no two closures of a step run at a time, a closure runs only while there is
\* no result, and each execution leaves a result, a dead letter or no trace.
\* It rests on SingleRun, since a step does not look at its entry again before
\* it writes.
StepsAreAtomic ==
  /\ \A i \in Instance, k \in Keys :
       Program[k] = "step" => AtomicOf(i, k)!AtomicInit
  /\ [][\A i \in Instance, k \in Keys :
          Program[k] = "step" => StepAction(i, k)]_vars

=============================================================================
