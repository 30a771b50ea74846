--------------------------- MODULE StatusChannel ---------------------------
(***************************************************************************)
(* How the runs of one instance report to those who watch it: the senders  *)
(* map, the watch channel of each run, Invocation::wait and StatusStream.  *)
(*                                                                         *)
(* The instance's workflow suspends once and then completes; steps and     *)
(* status messages come before and after.  Runs are numbered in the order  *)
(* in which they begin, and a channel has the number of the run that made  *)
(* it.  That an instance is run by one task at a time is SingleRun of      *)
(* module Engine; the last steps of a task, from the metadata on, may      *)
(* still overlap with the next run.                                        *)
(***************************************************************************)
EXTENDS Integers

CONSTANTS
  MaxRuns,   \* bound on the runs of the instance
  Observer,  \* those who hold an Invocation or a StatusStream
  Faults     \* "drop": a run vanishes; "teardown": the engine is dropped

ASSUME MaxRunsAssumption == MaxRuns \in Nat
ASSUME FaultsAssumption == Faults \subseteq {"drop", "teardown"}

Run == 1..MaxRuns
NoChannel == 0

Terminal == {"Completed", "Failed"}
Final == Terminal \cup {"Suspended"}
WorkflowState == Final \cup {"Started", "InProgress"}

VARIABLES
  meta,    \* WORKFLOW_META
  entry,   \* the journal entry of the suspension
  output,  \* the `_output` entry has been written
  run,     \* the runs of the instance
  value,   \* the state in each watch channel
  sender,  \* the channel in EngineShared::senders
  obs      \* the observers

database == <<meta, entry, output>>
vars == <<meta, entry, output, run, value, sender, obs>>

NoRun == [phase |-> "none", chan |-> NoChannel, replaying |-> TRUE,
          result |-> "none"]
Idle == [phase |-> "idle", chan |-> NoChannel, fresh |-> FALSE,
         result |-> "none"]

\* A run begins by making the metadata Running, gets a sender, runs the
\* workflow, and once that has returned records its result in the metadata,
\* sends it on the channel and, if it is terminal, removes the sender.
RunPhase == {"none", "begun", "sender", "run", "returned", "recorded", "sent",
             "gone", "dropped"}
Live(r) == run[r].phase \in {"begun", "sender", "run", "returned"}
Recorded(r) == run[r].phase \in {"recorded", "sent", "gone"}

StatusTypeOK ==
  /\ meta \in Final \cup {"absent", "Running"}
  /\ entry \in {"absent", "Suspended", "Result"}
  /\ output \in BOOLEAN
  /\ run \in [Run -> [phase : RunPhase, chan : Run \cup {NoChannel},
                      replaying : BOOLEAN, result : Final \cup {"none"}]]
  /\ value \in [Run -> WorkflowState]
  /\ sender \in Run \cup {NoChannel}
  /\ obs \in [Observer ->
       [phase : {"idle", "wait", "answered", "stream", "ended"},
        chan : Run \cup {NoChannel}, fresh : BOOLEAN,
        result : WorkflowState \cup {"none", "unreachable"}]]
  /\ \A o \in Observer :
       obs[o].phase = "answered" => obs[o].result \in Final \cup {"unreachable"}

Init ==
  /\ meta = "absent"
  /\ entry = "absent"
  /\ output = FALSE
  /\ run = [r \in Run |-> NoRun]
  /\ value = [c \in Run |-> "Started"]
  /\ sender = NoChannel
  /\ obs = [o \in Observer |-> Idle]

-----------------------------------------------------------------------------
(* The watch channel of tokio.                                             *)

Receivers(c) ==
  {o \in Observer : obs[o].chan = c /\ obs[o].phase \in {"wait", "stream"}}

\* A channel is closed when neither the map nor a run holds a sender.
Closed(c) ==
  /\ sender # c
  /\ \A r \in Run : run[r].chan = c => run[r].phase \in {"gone", "dropped"}

\* The value is stored and nobody is woken.
Send_Bug(c, state) ==
  /\ value' = [value EXCEPT ![c] = state]
  /\ UNCHANGED obs

\* send(): fails, and stores nothing, when there is no receiver.
Send(c, state) ==
  IF Receivers(c) = {}
  THEN UNCHANGED <<value, obs>>
  ELSE /\ value' = [value EXCEPT ![c] = state]
       /\ obs' = [o \in Observer |-> IF o \in Receivers(c)
                                     THEN [obs[o] EXCEPT !.fresh = TRUE]
                                     ELSE obs[o]]

\* send_if_modified() with a closure that answers false: nobody is woken.
SetQuietly(c, state) ==
  /\ value' = [value EXCEPT ![c] = state]
  /\ UNCHANGED obs

-----------------------------------------------------------------------------
(* Beginning a run.                                                        *)

Begin(r) ==
  /\ run[r].phase = "none"
  /\ \A q \in Run : q < r => run[q].phase # "none" /\ ~Live(q)
  /\ run' = [run EXCEPT ![r].phase = "begun"]
  /\ meta' = "Running"
  /\ UNCHANGED <<output, value, sender, obs>>

\* invoke, resume, and the instances that start() resumes.
Rerun(r) == Begin(r) /\ UNCHANGED entry

\* The metadata is not read before the claim.
Claim_Bug(r) ==
  /\ entry = "Suspended"
  /\ Begin(r)
  /\ entry' = "Result"

\* A signal or a timer claims the suspended step.
Claim(r) ==
  /\ meta = "Suspended"
  /\ entry = "Suspended"
  /\ Begin(r)
  /\ entry' = "Result"

\* get_or_create_sender, and its twin in signal_timer: the channel found in
\* the map is reset without waking anybody.
GetSender(r) ==
  /\ run[r].phase = "begun"
  /\ LET c == IF sender = NoChannel THEN r ELSE sender
     IN  /\ run' = [run EXCEPT ![r].phase = "sender", ![r].chan = c]
         /\ sender' = c
         /\ SetQuietly(c, "Started")
  /\ UNCHANGED database

\* The Invocation's receiver is subscribed just before the task is spawned;
\* timers and start() keep none.  `fresh` stands for the look at the channel
\* that wait() takes before it awaits a change.
Spawn(r) ==
  /\ run[r].phase = "sender"
  /\ run' = [run EXCEPT ![r].phase = "run"]
  /\ \/ UNCHANGED obs
     \/ \E o \in Observer :
          /\ obs[o].phase = "idle"
          /\ obs' = [obs EXCEPT ![o] =
               [phase |-> "wait", chan |-> run[r].chan, fresh |-> TRUE,
                result |-> "none"]]
  /\ UNCHANGED <<database, value, sender>>

-----------------------------------------------------------------------------
(* The workflow of a run.                                                  *)

\* A step that is not memoised: the replay is over.
MissStep(r) ==
  /\ run[r].phase = "run"
  /\ run[r].replaying
  /\ run' = [run EXCEPT ![r].replaying = FALSE]
  /\ UNCHANGED <<database, value, sender, obs>>

\* A memoised step with a status message restores the message quietly.
RestoreStatus(r) ==
  /\ run[r].phase = "run"
  /\ SetQuietly(run[r].chan, "InProgress")
  /\ UNCHANGED <<database, run, sender>>

\* Context::set_status.
SetStatus(r) ==
  /\ run[r].phase = "run"
  /\ IF run[r].replaying THEN SetQuietly(run[r].chan, "InProgress")
                         ELSE Send(run[r].chan, "InProgress")
  /\ UNCHANGED <<database, run, sender>>

Return(r, result) ==
  run' = [run EXCEPT ![r].phase = "returned", ![r].result = result]

\* execute_suspend and timer.  Only the run that writes the entry sets the
\* state, quietly and before the metadata says so.
Suspend(r) ==
  /\ run[r].phase = "run"
  /\ \/ /\ entry = "absent"
        /\ entry' = "Suspended"
        /\ SetQuietly(run[r].chan, "Suspended")
        /\ Return(r, "Suspended")
     \/ /\ entry = "Suspended"
        /\ Return(r, "Suspended")
        /\ UNCHANGED <<entry, value, obs>>
     \/ /\ entry = "Result"
        /\ run[r].replaying
        /\ run' = [run EXCEPT ![r].replaying = FALSE]
        /\ UNCHANGED <<entry, value, obs>>
  /\ UNCHANGED <<meta, output, sender>>

\* Completion shows in the channel, as a suspension does, before it is saved.
Finish_Bug(r) ==
  /\ run[r].phase = "run"
  /\ \/ /\ entry = "Result"
        /\ SetQuietly(run[r].chan, "Completed")
        /\ Return(r, "Completed")
     \/ Return(r, "Failed") /\ UNCHANGED <<value, obs>>
  /\ UNCHANGED <<database, sender>>

\* The workflow returns, at its end with its output written, or with an error.
Finish(r) ==
  /\ run[r].phase = "run"
  /\ \/ entry = "Result" /\ output' = TRUE /\ Return(r, "Completed")
     \/ UNCHANGED output /\ Return(r, "Failed")
  /\ UNCHANGED <<meta, entry, value, sender, obs>>

\* handle_workflow_result, first the metadata ...
Record(r) ==
  /\ run[r].phase = "returned"
  /\ meta' = run[r].result
  /\ run' = [run EXCEPT ![r].phase = "recorded"]
  /\ UNCHANGED <<entry, output, value, sender, obs>>

\* The state is sent only when it is a suspension.
Report_Bug(r) ==
  /\ run[r].phase = "recorded"
  /\ IF run[r].result \in Terminal
     THEN UNCHANGED <<value, obs>>
     ELSE Send(run[r].chan, run[r].result)
  /\ run' = [run EXCEPT ![r].phase =
               IF run[r].result \in Terminal THEN "sent" ELSE "gone"]
  /\ UNCHANGED <<database, sender>>

\* ... then the channel; a suspended run ends here and leaves its sender.
Report(r) ==
  /\ run[r].phase = "recorded"
  /\ Send(run[r].chan, run[r].result)
  /\ run' = [run EXCEPT ![r].phase =
               IF run[r].result \in Terminal THEN "sent" ELSE "gone"]
  /\ UNCHANGED <<database, sender>>

\* The sender stays in the map.
RemoveSender_Bug(r) ==
  /\ run[r].phase = "sent"
  /\ run' = [run EXCEPT ![r].phase = "gone"]
  /\ UNCHANGED <<database, value, sender, obs>>

\* The entry of the instance is removed, whichever channel it holds by now.
RemoveSender(r) ==
  /\ run[r].phase = "sent"
  /\ sender' = NoChannel
  /\ run' = [run EXCEPT ![r].phase = "gone"]
  /\ UNCHANGED <<database, value, obs>>

\* User code panics, stop() aborts the task or the poller before its spawn, or
\* signal() returns NotStarted: the metadata stays Running.
DropRun(r) ==
  /\ "drop" \in Faults
  /\ run[r].phase \in {"begun", "sender", "run"}
  /\ run' = [run EXCEPT ![r].phase = "dropped"]
  /\ UNCHANGED <<database, value, sender, obs>>

\* The stopped engine is dropped, with its map; another may open the database.
Teardown ==
  /\ "teardown" \in Faults
  /\ sender # NoChannel
  /\ \A r \in Run : run[r].phase \in {"none", "gone", "dropped"}
  /\ sender' = NoChannel
  /\ UNCHANGED <<database, run, value, obs>>

-----------------------------------------------------------------------------
(* Observers.                                                              *)

\* wait() sees the first state or a change, and answers if it is final.
WaitLook(o) ==
  /\ obs[o].phase = "wait"
  /\ obs[o].fresh
  /\ LET state == value[obs[o].chan]
     IN  obs' = [obs EXCEPT ![o] =
           IF state \in Final
           THEN [@ EXCEPT !.phase = "answered", !.fresh = FALSE, !.result = state]
           ELSE [@ EXCEPT !.fresh = FALSE]]
  /\ UNCHANGED <<database, run, value, sender>>

\* Whatever the closed channel holds is the answer.
WaitClosed_Bug(o) ==
  /\ obs[o].phase = "wait"
  /\ ~obs[o].fresh
  /\ Closed(obs[o].chan)
  /\ obs' = [obs EXCEPT ![o].phase = "answered", ![o].result = value[obs[o].chan]]
  /\ UNCHANGED <<database, run, value, sender>>

\* The channel is closed: wait() takes its last state, and for one that is
\* not final runs into unreachable!().
WaitClosed(o) ==
  /\ obs[o].phase = "wait"
  /\ ~obs[o].fresh
  /\ Closed(obs[o].chan)
  /\ LET state == value[obs[o].chan]
     IN  obs' = [obs EXCEPT ![o].phase = "answered",
           ![o].result = IF state \in Final THEN state ELSE "unreachable"]
  /\ UNCHANGED <<database, run, value, sender>>

\* subscribe() finds a sender.
Subscribe(o) ==
  /\ obs[o].phase = "idle"
  /\ sender # NoChannel
  /\ obs' = [obs EXCEPT ![o] = [phase |-> "stream", chan |-> sender,
               fresh |-> TRUE, result |-> "none"]]
  /\ UNCHANGED <<database, run, value, sender>>

StreamNext(o) ==
  /\ obs[o].phase = "stream"
  /\ obs[o].fresh
  /\ obs' = [obs EXCEPT ![o].fresh = FALSE, ![o].result = value[obs[o].chan]]
  /\ UNCHANGED <<database, run, value, sender>>

StreamEnd(o) ==
  /\ obs[o].phase = "stream"
  /\ ~obs[o].fresh
  /\ Closed(obs[o].chan)
  /\ obs' = [obs EXCEPT ![o].phase = "ended"]
  /\ UNCHANGED <<database, run, value, sender>>

\* The handle or the stream is dropped.
Leave(o) ==
  /\ obs[o].phase # "idle"
  /\ obs' = [obs EXCEPT ![o] = Idle]
  /\ UNCHANGED <<database, run, value, sender>>

-----------------------------------------------------------------------------
\* What a run does of itself once it has begun.
Proceed(r) ==
  \/ GetSender(r) \/ Spawn(r)
  \/ Suspend(r) \/ Finish(r)
  \/ Record(r) \/ Report(r) \/ RemoveSender(r)

Observe(o) == WaitLook(o) \/ WaitClosed(o) \/ StreamNext(o) \/ StreamEnd(o)

Next ==
  \/ \E r \in Run :
       \/ Rerun(r) \/ Claim(r) \/ DropRun(r)
       \/ MissStep(r) \/ RestoreStatus(r) \/ SetStatus(r)
       \/ Proceed(r)
  \/ Teardown
  \/ \E o \in Observer : Subscribe(o) \/ Leave(o) \/ Observe(o)

Spec == Init /\ [][Next]_vars

\* Runs proceed, and observers are woken and look.
FairSpec ==
  /\ Spec
  /\ \A r \in Run : WF_vars(Proceed(r))
  /\ \A o \in Observer : WF_vars(Observe(o))

-----------------------------------------------------------------------------
(* Properties.                                                             *)

NeverDropped == \A r \in Run : run[r].phase # "dropped"

\* When wait() answers Completed, some run has completed in the metadata and
\* its output is in the journal, so Completed::output() will find it.  It is
\* why the metadata is written before the state is sent.
OutputReadable ==
  \A o \in Observer : obs[o].phase = "answered" /\ obs[o].result = "Completed" =>
    output /\ \E r \in Run : Recorded(r) /\ run[r].result = "Completed"

\* wait() never runs into its unreachable!(), however runs overlap and
\* whichever of them removes the sender, unless a run was dropped.
NeverUnreachable ==
  NeverDropped => \A o \in Observer : obs[o].result # "unreachable"

\* A final answer is the result of a run that reported on the channel of the
\* handle, and a terminal one is in the metadata by then: Suspended alone may
\* be seen before the metadata says so, and never unless a run has suspended.
AnswerIsRecorded ==
  \A o \in Observer : obs[o].phase = "answered" /\ obs[o].result \in Final =>
    \E r \in Run :
      /\ run[r].chan = obs[o].chan /\ run[r].result = obs[o].result
      /\ obs[o].result \in Terminal => Recorded(r)

\* The run has the sender of channel c and has yet to report its result.
Reporting == {"sender", "run", "returned", "recorded"}
Reports(r, c) == run[r].chan = c /\ run[r].phase \in Reporting

\* Who waits has been woken and will see a final state, or a run is still to
\* report on that very channel: no reset, quiet change or removal of a sender
\* leaves a wait() with neither.
NoWakeUpLost ==
  NeverDropped => \A o \in Observer : obs[o].phase = "wait" =>
    \/ obs[o].fresh /\ value[obs[o].chan] \in Final
    \/ \E r \in Run : Reports(r, obs[o].chan)

\* What it is for: every wait() is answered, or its handle dropped, although
\* new runs reset the channel without waking anybody and remove each other's
\* senders.
WaitAnswers ==
  []NeverDropped =>
    \A o \in Observer : obs[o].phase = "wait" ~> obs[o].phase # "wait"

\* When the instance has completed or failed for good, every stream ends.
StreamEnds ==
  <>[](meta \in Terminal) /\ []NeverDropped =>
    \A o \in Observer : obs[o].phase = "stream" ~> obs[o].phase # "stream"

\* The instance as module DurableWorkflow sees it: a workflow of one suspension.
Durable == INSTANCE DurableWorkflow WITH
  Instance <- {"instance"}, Result <- {"Result"}, Program <- <<"suspend">>,
  NoResult <- "none",
  status <- [i \in {"instance"} |-> meta],
  memo <- [i \in {"instance"} |->
            [k \in {1} |-> IF entry = "Result" THEN "Result" ELSE "none"]]

\* However the last steps of a run overlap with the next run, the metadata and
\* the journal go through the states of one durable workflow: a run records
\* its result only over Running, and Suspended only while its suspension is
\* pending.
ImplementsDurableWorkflow == Durable!DurableSpec

=============================================================================
