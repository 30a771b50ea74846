-------------------------- MODULE DurableWorkflow --------------------------
(***************************************************************************)
(* What memable promises about a workflow instance, without tasks, tables, *)
(* signallers, pollers or processes: results are memoised one by one in    *)
(* the order of the program and are never replaced, a suspension ends only *)
(* by one delivery to the operation it waits at, and an instance completes *)
(* only with every result memoised.  Crashes and restarts are not visible. *)
(***************************************************************************)
EXTENDS Integers, Sequences

CONSTANTS
  Instance, Result, Program,
  NoResult  \* not in Result

Keys == 1..Len(Program)

VARIABLES
  status,  \* absent, Running, Suspended, Completed or Failed
  memo     \* the result of each operation, or NoResult

Memoised(i, k) == memo[i][k] # NoResult

\* Operation k is the next one of instance i.
Frontier(i, k) ==
  /\ ~Memoised(i, k)
  /\ \A j \in 1..(k - 1) : Memoised(i, j)

DurableInit ==
  /\ status = [i \in Instance |-> "absent"]
  /\ memo = [i \in Instance |-> [k \in Keys |-> NoResult]]

Memoise(i, k) == \E v \in Result : memo' = [memo EXCEPT ![i][k] = v]

\* invoke, resume, or the restart of an instance in any state.
Run(i) ==
  /\ status' = [status EXCEPT ![i] = "Running"]
  /\ UNCHANGED memo

Step(i, k) ==
  /\ status[i] = "Running"
  /\ Program[k] = "step"
  /\ Frontier(i, k)
  /\ Memoise(i, k)
  /\ UNCHANGED status

Wait(i, k) ==
  /\ status[i] = "Running"
  /\ Program[k] # "step"
  /\ Frontier(i, k)
  /\ status' = [status EXCEPT ![i] = "Suspended"]
  /\ UNCHANGED memo

\* A signal or a timer: to a suspended instance, at its frontier, once.
Deliver(i, k) ==
  /\ status[i] = "Suspended"
  /\ Program[k] # "step"
  /\ Frontier(i, k)
  /\ Memoise(i, k)
  /\ status' = [status EXCEPT ![i] = "Running"]

Complete(i) ==
  /\ status[i] = "Running"
  /\ \A k \in Keys : Memoised(i, k)
  /\ status' = [status EXCEPT ![i] = "Completed"]
  /\ UNCHANGED memo

Fail(i) ==
  /\ status[i] = "Running"
  /\ status' = [status EXCEPT ![i] = "Failed"]
  /\ UNCHANGED memo

DurableNext ==
  \E i \in Instance :
    \/ Run(i) \/ Complete(i) \/ Fail(i)
    \/ \E k \in Keys : Step(i, k) \/ Wait(i, k) \/ Deliver(i, k)

DurableSpec == DurableInit /\ [][DurableNext]_<<status, memo>>

=============================================================================
