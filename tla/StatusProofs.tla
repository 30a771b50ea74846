---------------------------- MODULE StatusProofs ----------------------------
(***************************************************************************)
(* Theorems about StatusChannel, for every number of runs and observers    *)
(* and all faults.                                                         *)
(***************************************************************************)
EXTENDS StatusChannel, Sequences, TLAPS

-----------------------------------------------------------------------------
(* Type correctness.                                                       *)

RunRecord == [phase : RunPhase, chan : Run \cup {NoChannel},
              replaying : BOOLEAN, result : Final \cup {"none"}]
ObserverRecord ==
  [phase : {"idle", "wait", "answered", "stream", "ended"},
   chan : Run \cup {NoChannel}, fresh : BOOLEAN,
   result : WorkflowState \cup {"none", "unreachable"}]

\* From the phase "sender" on a run has a channel, and from "returned" on it
\* has a result.
RunState ==
  {x \in RunRecord :
     /\ x.phase \in {"sender", "run", "returned", "recorded", "sent"} => x.chan \in Run
     /\ x.phase \in {"returned", "recorded", "sent"} => x.result \in Final}

\* An observer at work has a channel.
ObserverState ==
  {x \in ObserverRecord :
     /\ x.phase \in {"wait", "stream"} => x.chan \in Run
     /\ x.phase = "answered" => x.result \in Final \cup {"unreachable"}}

StatusInv ==
  /\ meta \in Final \cup {"absent", "Running"}
  /\ entry \in {"absent", "Suspended", "Result"}
  /\ output \in BOOLEAN
  /\ run \in [Run -> RunState]
  /\ value \in [Run -> WorkflowState]
  /\ sender \in Run \cup {NoChannel}
  /\ obs \in [Observer -> ObserverState]

LEMMA StatusInvType == StatusInv => StatusTypeOK
BY DEF StatusInv, StatusTypeOK, RunState, RunRecord, ObserverState, ObserverRecord

\* What a send on a channel does to values and observers.
LEMMA SendEffect ==
  ASSUME StatusInv, NEW c, NEW state \in WorkflowState, Send(c, state)
  PROVE  /\ value' \in [Run -> WorkflowState]
         /\ obs' \in [Observer -> ObserverState]
<1> USE DEF StatusInv
<1>1. CASE Receivers(c) = {}
  BY <1>1 DEF Send
<1>2. CASE Receivers(c) # {}
  <2>1. value' = [value EXCEPT ![c] = state]
    BY <1>2 DEF Send
  <2>2. obs' = [o \in Observer |-> IF o \in Receivers(c)
                                   THEN [obs[o] EXCEPT !.fresh = TRUE]
                                   ELSE obs[o]]
    BY <1>2 DEF Send
  <2>3. \A x \in ObserverState : [x EXCEPT !.fresh = TRUE] \in ObserverState
    BY DEF ObserverState, ObserverRecord
  <2> QED BY <2>1, <2>2, <2>3
<1> QED BY <1>1, <1>2

\* The initial state.
LEMMA StatusInit == Init => StatusInv
<1>1. NoRun \in RunState
  BY DEF NoRun, RunState, RunRecord, RunPhase
<1>2. Idle \in ObserverState
  BY DEF Idle, ObserverState, ObserverRecord
<1> QED BY <1>1, <1>2 DEF Init, StatusInv, WorkflowState

\* The steps of a run: each leaves a good record in the place of a good one.
LEMMA StatusRunStep ==
  ASSUME StatusInv, NEW r \in Run,
         \/ Rerun(r) \/ Claim(r) \/ DropRun(r)
         \/ MissStep(r) \/ RestoreStatus(r) \/ SetStatus(r) \/ Proceed(r)
  PROVE  StatusInv'
<1> USE DEF StatusInv, database
<1>0. /\ run[r] \in RunState /\ run[r].result \in Final \cup {"none"}
      /\ \A x : x \in RunState /\ run' = [run EXCEPT ![r] = x] =>
           run' \in [Run -> RunState]
  BY DEF RunState, RunRecord
<1>1. CASE Rerun(r) \/ Claim(r)
  <2>1. [run[r] EXCEPT !.phase = "begun"] \in RunState
    BY <1>0 DEF RunState, RunRecord, RunPhase
  <2>2. run' = [run EXCEPT ![r] = [run[r] EXCEPT !.phase = "begun"]]
    BY <1>1 DEF Rerun, Claim, Begin
  <2> QED BY <1>0, <1>1, <2>1, <2>2 DEF Rerun, Claim, Begin
<1>2. CASE DropRun(r)
  <2>1. [run[r] EXCEPT !.phase = "dropped"] \in RunState
    BY <1>0 DEF RunState, RunRecord, RunPhase
  <2>2. run' = [run EXCEPT ![r] = [run[r] EXCEPT !.phase = "dropped"]]
    BY <1>2 DEF DropRun
  <2> QED BY <1>0, <1>2, <2>1, <2>2 DEF DropRun
<1>3. [run[r] EXCEPT !.replaying = FALSE] \in RunState
  BY <1>0 DEF RunState, RunRecord
<1>4. CASE MissStep(r)
  <2>1. run' = [run EXCEPT ![r] = [run[r] EXCEPT !.replaying = FALSE]]
    BY <1>4 DEF MissStep
  <2> QED BY <1>0, <1>3, <1>4, <2>1 DEF MissStep
<1>5. CASE RestoreStatus(r)
  BY <1>5 DEF RestoreStatus, SetQuietly, WorkflowState
<1>6. CASE SetStatus(r)
  <2>1. CASE run[r].replaying
    BY <1>6, <2>1 DEF SetStatus, SetQuietly, WorkflowState
  <2>2. CASE ~run[r].replaying
    <3>1. Send(run[r].chan, "InProgress") /\ UNCHANGED <<database, run, sender>>
      BY <1>6, <2>2 DEF SetStatus
    <3>2. "InProgress" \in WorkflowState
      BY DEF WorkflowState
    <3> QED BY <3>1, <3>2, SendEffect
  <2> QED BY <2>1, <2>2
<1>7. CASE GetSender(r)
  <2> DEFINE c == IF sender = NoChannel THEN r ELSE sender
             x == [run[r] EXCEPT !.phase = "sender", !.chan = c]
  <2>1. c \in Run /\ sender' = c
    BY <1>7 DEF GetSender
  <2>2. x \in RunState
    BY <1>0, <2>1 DEF RunState, RunRecord, RunPhase
  <2>3. run' = [run EXCEPT ![r] = x]
    BY <1>7 DEF GetSender
  <2>4. value' = [value EXCEPT ![c] = "Started"] /\ UNCHANGED <<database, obs>>
    BY <1>7 DEF GetSender, SetQuietly
  <2> HIDE DEF c, x
  <2> QED BY <1>0, <2>1, <2>2, <2>3, <2>4 DEF WorkflowState
<1>8. CASE Spawn(r)
  <2>1. [run[r] EXCEPT !.phase = "run"] \in RunState
    BY <1>0, <1>8 DEF Spawn, RunState, RunRecord, RunPhase
  <2>2. run' = [run EXCEPT ![r] = [run[r] EXCEPT !.phase = "run"]]
    BY <1>8 DEF Spawn
  <2>3. [phase |-> "wait", chan |-> run[r].chan, fresh |-> TRUE,
         result |-> "none"] \in ObserverState
    BY <1>0, <1>8 DEF Spawn, RunState, RunRecord, ObserverState, ObserverRecord
  <2>4. obs' \in [Observer -> ObserverState]
    BY <1>8, <2>3 DEF Spawn
  <2> QED BY <1>0, <1>8, <2>1, <2>2, <2>4 DEF Spawn
<1>9. ASSUME NEW s \in Final, Return(r, s), run[r].phase = "run"
      PROVE  run' \in [Run -> RunState]
  <2>1. [run[r] EXCEPT !.phase = "returned", !.result = s] \in RunState
    BY <1>0, <1>9 DEF RunState, RunRecord, RunPhase
  <2>2. run' = [run EXCEPT ![r] = [run[r] EXCEPT !.phase = "returned", !.result = s]]
    BY <1>9 DEF Return
  <2> QED BY <1>0, <2>1, <2>2
<1>10. CASE Suspend(r)
  <2>1. CASE Return(r, "Suspended")
    <3>1. run' \in [Run -> RunState]
      BY <1>9, <1>10, <2>1 DEF Suspend, Final
    <3> QED BY <1>10, <3>1 DEF Suspend, SetQuietly, WorkflowState, Final
  <2>2. CASE ~Return(r, "Suspended")
    <3>1. run' = [run EXCEPT ![r] = [run[r] EXCEPT !.replaying = FALSE]]
      BY <1>10, <2>2 DEF Suspend
    <3>2. run' \in [Run -> RunState]
      BY <1>0, <1>3, <3>1
    <3> QED BY <1>10, <2>2, <3>2 DEF Suspend
  <2> QED BY <2>1, <2>2
<1>11. CASE Finish(r)
  <2>1. run' \in [Run -> RunState]
    BY <1>9, <1>11 DEF Finish, Final, Terminal
  <2> QED BY <1>11, <2>1 DEF Finish
<1>12. CASE Record(r)
  <2>1. [run[r] EXCEPT !.phase = "recorded"] \in RunState /\ run[r].result \in Final
    BY <1>0, <1>12 DEF Record, RunState, RunRecord, RunPhase
  <2>2. run' = [run EXCEPT ![r] = [run[r] EXCEPT !.phase = "recorded"]]
    BY <1>12 DEF Record
  <2> QED BY <1>0, <1>12, <2>1, <2>2 DEF Record
<1>13. CASE Report(r)
  <2> DEFINE p == IF run[r].result \in Terminal THEN "sent" ELSE "gone"
  <2>1. Send(run[r].chan, run[r].result) /\ run[r].result \in WorkflowState
    BY <1>0, <1>13 DEF Report, RunState, WorkflowState
  <2>2. [run[r] EXCEPT !.phase = p] \in RunState
    BY <1>0, <1>13 DEF Report, RunState, RunRecord, RunPhase
  <2>3. run' = [run EXCEPT ![r] = [run[r] EXCEPT !.phase = p]]
    BY <1>13 DEF Report
  <2>4. UNCHANGED <<database, sender>>
    BY <1>13 DEF Report
  <2>5. run' \in [Run -> RunState]
    BY <1>0, <2>2, <2>3
  <2> QED BY <2>1, <2>4, <2>5, SendEffect
<1>14. CASE RemoveSender(r)
  <2>1. [run[r] EXCEPT !.phase = "gone"] \in RunState
    BY <1>0 DEF RunState, RunRecord, RunPhase
  <2>2. run' = [run EXCEPT ![r] = [run[r] EXCEPT !.phase = "gone"]]
    BY <1>14 DEF RemoveSender
  <2> QED BY <1>0, <1>14, <2>1, <2>2 DEF RemoveSender
<1> QED
  BY <1>1, <1>2, <1>4, <1>5, <1>6, <1>7, <1>8, <1>10, <1>11, <1>12, <1>13, <1>14
     DEF Proceed

\* The steps of an observer.
LEMMA StatusObserverStep ==
  ASSUME StatusInv, NEW o \in Observer, Subscribe(o) \/ Leave(o) \/ Observe(o)
  PROVE  StatusInv'
<1> USE DEF StatusInv, database
<1>1. /\ UNCHANGED <<database, run, value, sender>>
      /\ \E x : obs' = [obs EXCEPT ![o] = x]
  BY DEF Subscribe, Leave, Observe, WaitLook, WaitClosed, StreamNext, StreamEnd
<1>2. PICK x : obs' = [obs EXCEPT ![o] = x]
  BY <1>1
<1>3. obs'[o] \in ObserverState
  <2>1. obs[o] \in ObserverState
    OBVIOUS
  <2>2. CASE Subscribe(o)
    BY <2>2 DEF Subscribe, ObserverState, ObserverRecord
  <2>3. CASE Leave(o)
    BY <2>3 DEF Leave, Idle, ObserverState, ObserverRecord
  <2>4. CASE WaitLook(o)
    <3>1. value[obs[o].chan] \in WorkflowState
      BY <2>1, <2>4 DEF WaitLook, ObserverState
    <3> QED BY <2>1, <2>4, <3>1 DEF WaitLook, ObserverState, ObserverRecord
  <2>5. CASE WaitClosed(o)
    <3>1. value[obs[o].chan] \in WorkflowState
      BY <2>1, <2>5 DEF WaitClosed, ObserverState
    <3> QED BY <2>1, <2>5, <3>1
            DEF WaitClosed, ObserverState, ObserverRecord, WorkflowState
  <2>6. CASE StreamNext(o)
    <3>1. value[obs[o].chan] \in WorkflowState
      BY <2>1, <2>6 DEF StreamNext, ObserverState
    <3> QED BY <2>1, <2>6, <3>1 DEF StreamNext, ObserverState, ObserverRecord
  <2>7. CASE StreamEnd(o)
    BY <2>1, <2>7 DEF StreamEnd, ObserverState, ObserverRecord
  <2> QED BY <2>2, <2>3, <2>4, <2>5, <2>6, <2>7 DEF Observe
<1> QED BY <1>1, <1>2, <1>3

\* All steps.
LEMMA StatusNext == StatusInv /\ [Next]_vars => StatusInv'
<1> SUFFICES ASSUME StatusInv, [Next]_vars PROVE StatusInv'
  OBVIOUS
<1>1. CASE Teardown
  BY <1>1 DEF Teardown, StatusInv, database
<1>2. CASE UNCHANGED vars
  BY <1>2 DEF vars, StatusInv
<1> QED
  BY <1>1, <1>2, StatusRunStep, StatusObserverStep DEF Next

\* Every variable of the status channel keeps its type; in particular a wait()
\* answers only with a final state, or runs into unreachable!().
THEOREM StatusTypeCorrect == Spec => []StatusTypeOK
BY StatusInit, StatusNext, StatusInvType, PTL DEF Spec

-----------------------------------------------------------------------------
(* What wait() answers has been recorded, and Completed only when the      *)
(* output can be read.                                                     *)

RunStep(r) ==
  \/ Rerun(r) \/ Claim(r) \/ DropRun(r)
  \/ MissStep(r) \/ RestoreStatus(r) \/ SetStatus(r) \/ Proceed(r)

\* A run with this result has reported on the channel, or is about to: that of
\* a suspension shows before it is recorded.
Evidence(s, c) ==
  \E r \in Run : /\ run[r].chan = c /\ run[r].result = s
                 /\ s \in Terminal => Recorded(r)

\* The same after a step.
LaterEvidence(s, c) ==
  \E r \in Run : /\ run'[r].chan = c /\ run'[r].result = s
                 /\ s \in Terminal => Recorded(r)'

\* The evidence travels from the journal to the metadata, to a channel, to an
\* observer; each has it only if the one before has.
EvidenceInv ==
  /\ StatusInv
  /\ \A r \in Run : /\ run[r].result = "Completed" => output
                    /\ run[r].result # "none" =>
                         run[r].phase \in {"returned", "recorded", "sent", "gone"}
  /\ \A c \in Run : value[c] \in Final => Evidence(value[c], c)
  /\ \A o \in Observer : obs[o].phase = "answered" /\ obs[o].result \in Final =>
       Evidence(obs[o].result, obs[o].chan)

LEMMA EvidenceInit == Init => EvidenceInv
BY StatusInit DEF Init, EvidenceInv, NoRun, Idle, Final, Terminal

LEMMA EvidenceUsed == EvidenceInv => AnswerIsRecorded /\ OutputReadable
<1>1. EvidenceInv => AnswerIsRecorded
  BY DEF EvidenceInv, AnswerIsRecorded, Evidence
<1>2. EvidenceInv => OutputReadable
  BY DEF EvidenceInv, OutputReadable, Evidence, Final, Terminal
<1> QED BY <1>1, <1>2

\* A step of a run changes that run alone, a result once returned is final, and
\* the output stays.
LEMMA ResultsLast ==
  ASSUME EvidenceInv, NEW r \in Run, RunStep(r)
  PROVE  /\ output => output'
         /\ \A q \in Run : q # r => run'[q] = run[q]
         /\ run[r].result # "none" =>
              /\ run'[r].chan = run[r].chan /\ run'[r].result = run[r].result
              /\ Recorded(r) => Recorded(r)'
              /\ run'[r].phase \in {"returned", "recorded", "sent", "gone"}
         /\ \A s \in Final, c \in Run : Evidence(s, c) => LaterEvidence(s, c)
<1> USE DEF EvidenceInv, StatusInv, RunStep
<1>1. output => output'
  BY DEF Rerun, Claim, Begin, DropRun, MissStep, RestoreStatus, SetStatus, Proceed,
         GetSender, Spawn, Suspend, Finish, Record, Report, RemoveSender, database
<1>2. \A q \in Run : q # r => run'[q] = run[q]
  BY DEF Rerun, Claim, Begin, DropRun, MissStep, RestoreStatus, SetStatus, Proceed,
         GetSender, Spawn, Suspend, Finish, Record, Report, RemoveSender, Return
<1>3. ASSUME run[r].result # "none"
      PROVE  /\ run'[r].chan = run[r].chan /\ run'[r].result = run[r].result
             /\ Recorded(r) => Recorded(r)'
             /\ run'[r].phase \in {"returned", "recorded", "sent", "gone"}
  <2>1. /\ run \in [Run -> RunRecord] /\ run[r] \in RunRecord
        /\ run[r].phase \in {"returned", "recorded", "sent", "gone"}
    BY <1>3 DEF RunState
  <2>2. Record(r) \/ Report(r) \/ RemoveSender(r)
    BY <2>1 DEF Rerun, Claim, Begin, DropRun, MissStep, RestoreStatus, SetStatus,
                Proceed, GetSender, Spawn, Suspend, Finish
  <2>3. CASE Record(r)
    BY <2>1, <2>3 DEF Record, Recorded, RunRecord
  <2>4. CASE Report(r)
    BY <2>1, <2>4 DEF Report, Recorded, RunRecord
  <2>5. CASE RemoveSender(r)
    BY <2>1, <2>5 DEF RemoveSender, Recorded, RunRecord
  <2> QED BY <2>2, <2>3, <2>4, <2>5
<1>4. ASSUME NEW s \in Final, NEW c \in Run, Evidence(s, c)
      PROVE  LaterEvidence(s, c)
  <2>1. PICK q \in Run : /\ run[q].chan = c /\ run[q].result = s
                         /\ s \in Terminal => Recorded(q)
    BY <1>4 DEF Evidence
  <2>2. s # "none"
    BY DEF Final, Terminal
  <2>3. /\ run'[q].chan = c /\ run'[q].result = s
        /\ Recorded(q) => Recorded(q)'
    BY <1>2, <1>3, <2>1, <2>2 DEF Recorded
  <2> QED BY <2>1, <2>3 DEF LaterEvidence
<1> QED BY <1>1, <1>2, <1>3, <1>4

\* Who waits on a channel stays there when a run sends on it.
LEMMA SendWaits ==
  ASSUME StatusInv, NEW c, NEW state, Send(c, state) \/ SetQuietly(c, state)
  PROVE  \A o \in Observer : /\ obs'[o].phase = obs[o].phase
                             /\ obs'[o].chan = obs[o].chan
                             /\ obs'[o].result = obs[o].result
                             /\ obs[o].fresh => obs'[o].fresh
<1>1. \A o \in Observer : obs[o] \in ObserverRecord
  BY DEF StatusInv, ObserverState
<1> QED
  BY <1>1 DEF Send, SetQuietly, ObserverRecord

LEMMA EvidenceRunStep ==
  ASSUME EvidenceInv, NEW r \in Run, RunStep(r)
  PROVE  EvidenceInv'
<1> USE DEF RunStep
<1>0. StatusInv /\ StatusInv'
  BY StatusRunStep DEF EvidenceInv
<1>1. /\ run[r] \in RunRecord /\ run \in [Run -> RunState]
      /\ run[r].phase \in {"sender", "run", "returned", "recorded", "sent"} =>
           run[r].chan \in Run
      /\ run[r].phase \in {"returned", "recorded", "sent"} => run[r].result \in Final
  BY <1>0 DEF StatusInv, RunState
\* Only Finish gives a run the result Completed, and it writes the output.
<1>2. \A q \in Run :
        /\ run'[q].result = "Completed" => output'
        /\ run'[q].result # "none" =>
             run'[q].phase \in {"returned", "recorded", "sent", "gone"}
  <2> SUFFICES ASSUME run[r].result = "none"
               PROVE  /\ run'[r].result = "Completed" => output'
                      /\ run'[r].result # "none" =>
                           run'[r].phase \in {"returned", "recorded", "sent", "gone"}
    BY ResultsLast DEF EvidenceInv
  <2>1. CASE \/ Rerun(r) \/ Claim(r) \/ DropRun(r) \/ MissStep(r) \/ GetSender(r)
             \/ Spawn(r)
    <3>1. run'[r].result = "none"
      BY <1>1, <2>1 DEF Rerun, Claim, Begin, DropRun, MissStep, GetSender, Spawn,
                        RunRecord
    <3> QED BY <3>1
  <2>2. CASE RestoreStatus(r) \/ SetStatus(r)
    BY <2>2 DEF RestoreStatus, SetStatus
  <2>3. CASE Suspend(r)
    <3>1. \/ run'[r].result = "none"
          \/ run'[r].result = "Suspended" /\ run'[r].phase = "returned"
      BY <1>1, <2>3 DEF Suspend, Return, RunRecord
    <3> QED BY <3>1
  <2>4. CASE Finish(r)
    <3>1. /\ run'[r].phase = "returned"
          /\ run'[r].result = "Completed" => output'
      BY <1>1, <2>4 DEF Finish, Return, RunRecord
    <3> QED BY <3>1
  <2>5. CASE Record(r) \/ Report(r) \/ RemoveSender(r)
    <3>1. /\ run'[r].result = "none"
      BY <1>1, <2>5 DEF Record, Report, RemoveSender, RunRecord
    <3> QED BY <3>1
  <2> QED BY <2>1, <2>2, <2>3, <2>4, <2>5 DEF Proceed
\* A final state gets into the channel of the run that suspends, or by Report,
\* which comes after Record.
<1>3. \A c \in Run : value'[c] \in Final => LaterEvidence(value'[c], c)
  <2>1. ASSUME NEW d \in Run, NEW s \in WorkflowState,
               SetQuietly(d, s) \/ Send(d, s), s \in Final => LaterEvidence(s, d)
        PROVE  \A c \in Run : value'[c] \in Final => LaterEvidence(value'[c], c)
    <3>1. \A c \in Run : value'[c] = value[c] \/ (c = d /\ value'[c] = s)
      BY <1>0, <2>1 DEF SetQuietly, Send, StatusInv
    <3> QED BY <2>1, <3>1, ResultsLast DEF EvidenceInv
  <2>2. CASE value' = value
    BY <2>2, ResultsLast DEF EvidenceInv
  <2>3. CASE Report(r)
    <3>1. Recorded(r) /\ Recorded(r)' /\ run'[r].chan = run[r].chan
          /\ run'[r].result = run[r].result
      BY <1>1, <2>3 DEF Report, Recorded, RunRecord
    <3>2. LaterEvidence(run[r].result, run[r].chan)
      BY <3>1 DEF LaterEvidence
    <3> QED BY <1>1, <2>1, <2>3, <3>2 DEF Report, WorkflowState
  <2>4. CASE RestoreStatus(r) \/ SetStatus(r)
    BY <1>1, <2>1, <2>4 DEF RestoreStatus, SetStatus, WorkflowState, Final, Terminal
  <2>5. CASE GetSender(r)
    <3> DEFINE c == IF sender = NoChannel THEN r ELSE sender
    <3>1. c \in Run /\ SetQuietly(c, "Started")
      BY <1>0, <2>5 DEF GetSender, StatusInv
    <3> QED BY <2>1, <3>1 DEF WorkflowState, Final, Terminal
  <2>6. CASE Suspend(r)
    <3>1. CASE value' = value
      BY <2>2, <3>1
    <3>2. CASE SetQuietly(run[r].chan, "Suspended") /\ Return(r, "Suspended")
      <4>1. run'[r].chan = run[r].chan /\ run'[r].result = "Suspended"
        BY <1>1, <3>2 DEF Return, RunRecord
      <4>2. LaterEvidence("Suspended", run[r].chan)
        BY <4>1 DEF LaterEvidence, Terminal
      <4> QED BY <1>1, <2>1, <2>6, <3>2, <4>2 DEF Suspend, WorkflowState, Final
    <3> QED BY <2>6, <3>1, <3>2 DEF Suspend
  <2> QED BY <2>2, <2>3, <2>4, <2>5, <2>6
          DEF Rerun, Claim, Begin, DropRun, MissStep, Proceed, Spawn, Finish, Record,
              RemoveSender
\* A run leaves an answer alone.
<1>4. \A o \in Observer : obs'[o].phase = "answered" =>
        /\ obs[o].phase = "answered"
        /\ obs'[o].result = obs[o].result /\ obs'[o].chan = obs[o].chan
  <2>1. CASE Spawn(r)
    BY <1>0, <2>1 DEF Spawn, StatusInv
  <2>2. CASE Report(r)
    BY <1>0, <2>2, SendWaits DEF Report
  <2>3. CASE SetStatus(r)
    BY <1>0, <2>3, SendWaits DEF SetStatus
  <2> QED BY <2>1, <2>2, <2>3
          DEF Rerun, Claim, Begin, DropRun, MissStep, RestoreStatus, SetQuietly,
              Proceed, GetSender, Suspend, Finish, Record, RemoveSender
<1>5. \A o \in Observer : obs'[o].phase = "answered" /\ obs'[o].result \in Final =>
        LaterEvidence(obs'[o].result, obs'[o].chan)
  <2> SUFFICES ASSUME NEW o \in Observer, obs[o].phase = "answered",
                      obs[o].result \in Final
               PROVE  LaterEvidence(obs[o].result, obs[o].chan)
    BY <1>4
  <2>1. Evidence(obs[o].result, obs[o].chan)
    BY DEF EvidenceInv
  <2>2. PICK q \in Run : /\ run[q].chan = obs[o].chan /\ run[q].result = obs[o].result
                         /\ obs[o].result \in Terminal => Recorded(q)
    BY <2>1 DEF Evidence
  <2>3. obs[o].result # "none"
    BY DEF Final, Terminal
  <2>4. /\ run'[q].chan = run[q].chan /\ run'[q].result = run[q].result
        /\ Recorded(q) => Recorded(q)'
    BY <2>2, <2>3, ResultsLast DEF Recorded
  <2> QED BY <2>2, <2>4 DEF LaterEvidence
<1> QED
  BY <1>0, <1>2, <1>3, <1>5 DEF EvidenceInv, Evidence, LaterEvidence, Recorded

LEMMA EvidenceObserverStep ==
  ASSUME EvidenceInv, NEW o \in Observer, Subscribe(o) \/ Leave(o) \/ Observe(o)
  PROVE  EvidenceInv'
<1>0. StatusInv /\ StatusInv'
  BY StatusObserverStep DEF EvidenceInv
<1>1. UNCHANGED <<output, run, value>>
  BY DEF Subscribe, Leave, Observe, WaitLook, WaitClosed, StreamNext, StreamEnd,
         database
<1>2. \A p \in Observer : p # o => obs'[p] = obs[p]
  BY <1>0 DEF Subscribe, Leave, Observe, WaitLook, WaitClosed, StreamNext, StreamEnd,
              StatusInv
\* What an observer answers it has learnt from its channel.
<1>3. ASSUME obs'[o].phase = "answered", obs'[o].result \in Final
      PROVE  /\ obs'[o].chan = obs[o].chan /\ obs[o].chan \in Run
             /\ obs'[o].result = value[obs[o].chan]
  <2>1. obs[o] \in ObserverState /\ obs[o] \in ObserverRecord
    BY <1>0 DEF StatusInv, ObserverState
  <2>2. CASE WaitLook(o)
    BY <1>0, <1>3, <2>1, <2>2 DEF WaitLook, StatusInv, ObserverState, ObserverRecord
  <2>3. CASE WaitClosed(o)
    BY <1>0, <1>3, <2>1, <2>3
       DEF WaitClosed, StatusInv, ObserverState, ObserverRecord, Final, Terminal
  <2> QED
    BY <1>0, <1>3, <2>1, <2>2, <2>3
       DEF Subscribe, Leave, Idle, Observe, StreamNext, StreamEnd, StatusInv,
           ObserverRecord
<1> QED
  BY <1>0, <1>1, <1>2, <1>3 DEF EvidenceInv, Evidence, Recorded

LEMMA EvidenceNext == EvidenceInv /\ [Next]_vars => EvidenceInv'
<1> SUFFICES ASSUME EvidenceInv, [Next]_vars PROVE EvidenceInv'
  OBVIOUS
<1>1. StatusInv'
  BY StatusNext DEF EvidenceInv
<1>2. CASE Teardown \/ UNCHANGED vars
  BY <1>1, <1>2 DEF Teardown, vars, database, EvidenceInv, Evidence, Recorded
<1> QED
  BY <1>2, EvidenceRunStep, EvidenceObserverStep DEF Next, RunStep

\* Whoever is answered is answered the result of a run that had its channel,
\* and Completed or Failed only once the metadata says so.
THEOREM AnswersRecorded == Spec => []AnswerIsRecorded
BY EvidenceInit, EvidenceNext, EvidenceUsed, PTL DEF Spec

\* When wait() answers Completed, handle_workflow_result has recorded the end
\* of a completed run and its output is in the journal, whatever overlaps.
THEOREM OutputReadableCorrect == Spec => []OutputReadable
BY EvidenceInit, EvidenceNext, EvidenceUsed, PTL DEF Spec

-----------------------------------------------------------------------------
(* No wake-up is lost, and wait() never runs into its unreachable!().  Who *)
(* waits on a channel has been woken to a final state, or a run is going   *)
(* to report there: a report is stored and wakes because the one who waits *)
(* is a receiver, and whoever overwrites it is a run that reports later.   *)

AnswerDue ==
  \A o \in Observer : obs[o].phase = "wait" =>
    \/ obs[o].fresh /\ value[obs[o].chan] \in Final
    \/ \E r \in Run : Reports(r, obs[o].chan)

AnswerInv ==
  /\ StatusInv
  /\ NeverDropped => AnswerDue
  /\ NeverUnreachable

LEMMA AnswerInit == Init => AnswerInv
BY StatusInit DEF Init, AnswerInv, AnswerDue, NeverUnreachable, Idle

\* A run changes the state of its own channel only, while it is going to report
\* or when it reports a final one.
LEMMA AnswerRunStep ==
  ASSUME AnswerInv, NEW r \in Run,
         \/ Rerun(r) \/ Claim(r) \/ DropRun(r)
         \/ MissStep(r) \/ RestoreStatus(r) \/ SetStatus(r) \/ Proceed(r)
  PROVE  AnswerInv'
<1> USE DEF database
<1>0. StatusInv /\ StatusInv'
  BY StatusRunStep DEF AnswerInv
<1>1. run \in [Run -> RunRecord] /\ value \in [Run -> WorkflowState]
  BY <1>0 DEF StatusInv, RunState
<1>2. \A q \in Run : q # r => run'[q] = run[q]
  BY <1>1 DEF Rerun, Claim, Begin, DropRun, MissStep, RestoreStatus, SetStatus,
         Proceed, GetSender, Spawn, Suspend, Return, Finish, Record, Report,
         RemoveSender
<1>3. NeverDropped' => NeverDropped
  <2>1. run[r].phase # "dropped"
    BY DEF Rerun, Claim, Begin, DropRun, MissStep, RestoreStatus, SetStatus,
           Proceed, GetSender, Spawn, Suspend, Finish, Record, Report,
           RemoveSender
  <2> QED
    BY <1>2, <2>1 DEF NeverDropped
<1>4. NeverUnreachable'
  <2>1. \A o \in Observer : obs'[o].result \in {obs[o].result, "none"}
    <3>1. CASE Spawn(r)
      BY <1>0, <3>1 DEF Spawn, StatusInv
    <3>2. CASE Report(r)
      BY <1>0, <3>2, SendWaits DEF Report
    <3>3. CASE SetStatus(r)
      BY <1>0, <3>3, SendWaits DEF SetStatus
    <3> QED
      BY <3>1, <3>2, <3>3
         DEF Rerun, Claim, Begin, DropRun, MissStep, RestoreStatus, SetQuietly,
             Proceed, GetSender, Suspend, Finish, Record, RemoveSender
  <2> QED
    BY <1>3, <2>1 DEF AnswerInv, NeverUnreachable
<1>5. ASSUME NeverDropped' PROVE AnswerDue'
  <2>0. AnswerDue
    BY <1>3, <1>5 DEF AnswerInv
  \* A step after which the run is going to report on its channel.
  <2>1. ASSUME NEW c, run'[r].chan = c, run'[r].phase \in Reporting,
               run[r].chan = c \/ run[r].phase = "begun",
               \A d \in Run : d # c => value'[d] = value[d],
               \A o \in Observer :
                 obs'[o].phase = "wait" /\ obs'[o].chan # c =>
                   /\ obs[o].phase = "wait" /\ obs[o].chan = obs'[o].chan
                   /\ obs[o].fresh => obs'[o].fresh
        PROVE  AnswerDue'
    <3> SUFFICES ASSUME NEW o \in Observer, NEW d, d = obs'[o].chan,
                        obs'[o].phase = "wait", d # c
                 PROVE  \/ obs'[o].fresh /\ value'[d] \in Final
                        \/ \E q \in Run : run'[q].chan = d
                                          /\ run'[q].phase \in Reporting
      BY <2>1 DEF AnswerDue, Reports
    <3>1. obs[o].phase = "wait" /\ obs[o].chan = d /\ d \in Run
      BY <1>0, <2>1 DEF StatusInv, ObserverState
    <3>2. \/ obs[o].fresh /\ value[d] \in Final
          \/ \E q \in Run : Reports(q, d)
      BY <2>0, <3>1 DEF AnswerDue
    <3>3. ~Reports(r, d)
      BY <2>1 DEF Reports, Reporting
    <3> QED
      BY <1>2, <2>1, <3>1, <3>2, <3>3 DEF Reports
  <2>2. CASE RestoreStatus(r) \/ SetStatus(r)
    <3>1. /\ run'[r].chan = run[r].chan /\ run'[r].phase \in Reporting
          /\ \/ SetQuietly(run[r].chan, "InProgress")
             \/ Send(run[r].chan, "InProgress")
      BY <2>2 DEF RestoreStatus, SetStatus, Reporting
    <3>2. \A d \in Run : d # run[r].chan => value'[d] = value[d]
      BY <1>1, <3>1 DEF Send, SetQuietly
    <3> QED
      BY <1>0, <2>1, <3>1, <3>2, SendWaits
  <2>3. CASE GetSender(r)
    <3>1. PICK c : /\ run' = [run EXCEPT ![r].phase = "sender", ![r].chan = c]
                   /\ SetQuietly(c, "Started") /\ run[r].phase = "begun"
      BY <2>3 DEF GetSender
    <3>2. run'[r].phase = "sender" /\ run'[r].chan = c
      BY <1>1, <3>1 DEF RunRecord
    <3> QED
      BY <1>1, <2>1, <3>1, <3>2 DEF SetQuietly, Reporting
  <2>4. CASE Spawn(r)
    <3>1. /\ run'[r].phase = "run" /\ run'[r].chan = run[r].chan
          /\ UNCHANGED value
      BY <1>1, <2>4 DEF Spawn, RunRecord
    <3>2. \A o \in Observer : obs'[o] = obs[o] \/ obs'[o].chan = run[r].chan
      BY <1>0, <2>4 DEF Spawn, StatusInv
    <3> QED
      BY <2>1, <3>1, <3>2 DEF Reporting
  <2>5. CASE MissStep(r)
    <3>1. run'[r].phase = "run" /\ run'[r].chan = run[r].chan
      BY <1>1, <2>5 DEF MissStep, RunRecord
    <3> QED
      BY <2>1, <2>5, <3>1 DEF MissStep, Reporting
  <2>6. CASE Suspend(r)
    <3>1. run'[r].phase \in {"run", "returned"} /\ run'[r].chan = run[r].chan
      BY <1>1, <2>6 DEF Suspend, Return, RunRecord
    <3>2. UNCHANGED obs /\ \A d \in Run : d # run[r].chan => value'[d] = value[d]
      BY <1>1, <2>6 DEF Suspend, SetQuietly
    <3> QED
      BY <2>1, <3>1, <3>2 DEF Reporting
  <2>7. CASE Finish(r) \/ Record(r)
    <3>1. /\ run'[r].phase \in Reporting /\ run'[r].chan = run[r].chan
          /\ UNCHANGED <<value, obs>>
      BY <1>1, <2>7 DEF Finish, Record, Return, Reporting, RunRecord
    <3> QED
      BY <2>1, <3>1
  <2>8. CASE Report(r)
    <3> DEFINE c == run[r].chan
    <3>1. c \in Run /\ run[r].result \in Final
      BY <1>0, <2>8 DEF Report, StatusInv, RunState
    <3>2. \A o \in Observer : /\ obs'[o].phase = obs[o].phase
                              /\ obs'[o].chan = obs[o].chan
                              /\ obs[o].fresh => obs'[o].fresh
      BY <1>0, <2>8, SendWaits DEF Report
    <3>3. /\ \A d \in Run : d # c => value'[d] = value[d]
          /\ \A o \in Observer : obs[o].phase = "wait" /\ obs[o].chan = c =>
               obs'[o].fresh /\ value'[c] \in Final
      <4>1. \A o \in Observer : obs[o] \in ObserverRecord
        BY <1>0 DEF StatusInv, ObserverState
      <4> QED
        BY <1>1, <2>8, <3>1, <4>1 DEF Report, Send, Receivers, ObserverRecord
    <3> SUFFICES ASSUME NEW o \in Observer, obs[o].phase = "wait",
                        obs[o].chan # c
                 PROVE  \/ obs'[o].fresh /\ value'[obs[o].chan] \in Final
                        \/ \E q \in Run : /\ run'[q].chan = obs[o].chan
                                          /\ run'[q].phase \in Reporting
      BY <3>2, <3>3 DEF AnswerDue, Reports
    <3>4. obs[o].chan \in Run
      BY <1>0 DEF StatusInv, ObserverState
    <3> QED
      BY <1>2, <2>0, <3>2, <3>3, <3>4 DEF AnswerDue, Reports
  <2>9. CASE Rerun(r) \/ Claim(r) \/ RemoveSender(r)
    <3>1. UNCHANGED <<value, obs>> /\ run[r].phase \notin Reporting
      BY <2>9 DEF Rerun, Claim, Begin, RemoveSender, Reporting
    <3> QED
      BY <1>2, <2>0, <3>1 DEF AnswerDue, Reports
  <2>10. CASE DropRun(r)
    BY <1>1, <1>5, <2>10 DEF DropRun, NeverDropped
  <2> QED
    BY <2>2, <2>3, <2>4, <2>5, <2>6, <2>7, <2>8, <2>9, <2>10 DEF Proceed
<1> QED
  BY <1>0, <1>4, <1>5 DEF AnswerInv

LEMMA AnswerObserverStep ==
  ASSUME AnswerInv, NEW o \in Observer, Subscribe(o) \/ Leave(o) \/ Observe(o)
  PROVE  AnswerInv'
<1>0. StatusInv /\ StatusInv'
  BY StatusObserverStep DEF AnswerInv
<1>1. UNCHANGED <<run, value>>
  BY DEF Subscribe, Leave, Observe, WaitLook, WaitClosed, StreamNext, StreamEnd
<1>2. \A p \in Observer : p # o => obs'[p] = obs[p]
  BY <1>0 DEF Subscribe, Leave, Observe, WaitLook, WaitClosed, StreamNext,
              StreamEnd, StatusInv
<1>3. obs[o] \in ObserverState /\ obs[o] \in ObserverRecord
  BY <1>0 DEF StatusInv, ObserverState
<1>4. obs'[o].phase = "wait" => obs[o].phase = "wait" /\ obs'[o].chan = obs[o].chan
  <2>1. CASE WaitLook(o)
    BY <1>0, <1>3, <2>1 DEF WaitLook, StatusInv, ObserverRecord
  <2>2. CASE Subscribe(o) \/ Leave(o)
    BY <1>0, <2>2 DEF Subscribe, Leave, Idle, StatusInv
  <2>3. CASE WaitClosed(o) \/ StreamEnd(o)
    BY <1>0, <1>3, <2>3 DEF WaitClosed, StreamEnd, StatusInv, ObserverRecord
  <2>4. CASE StreamNext(o)
    BY <1>0, <1>3, <2>4 DEF StreamNext, StatusInv, ObserverRecord
  <2> QED
    BY <2>1, <2>2, <2>3, <2>4 DEF Observe
<1>5. NeverDropped => obs'[o].result # "unreachable"
  <2> SUFFICES ASSUME NeverDropped PROVE obs'[o].result # "unreachable"
    OBVIOUS
  <2>1. obs[o].result # "unreachable" /\ AnswerDue
    BY DEF AnswerInv, NeverUnreachable
  <2>2. obs[o].phase \in {"wait", "stream"} =>
          /\ obs[o].chan \in Run
          /\ value[obs[o].chan] \in WorkflowState
    BY <1>0, <1>3 DEF StatusInv, ObserverState
  <2>3. "unreachable" \notin WorkflowState
    BY DEF WorkflowState, Final, Terminal
  <2>4. CASE Subscribe(o) \/ Leave(o) \/ StreamEnd(o)
    BY <1>0, <1>3, <2>1, <2>4
       DEF Subscribe, Leave, Idle, StreamEnd, StatusInv, ObserverRecord
  <2>5. CASE WaitLook(o) \/ StreamNext(o)
    <3>1. obs'[o].result \in {obs[o].result, value[obs[o].chan]}
      <4>1. CASE WaitLook(o)
        BY <1>0, <1>3, <4>1 DEF WaitLook, StatusInv, ObserverRecord
      <4>2. CASE StreamNext(o)
        BY <1>0, <1>3, <4>2 DEF StreamNext, StatusInv, ObserverRecord
      <4> QED
        BY <2>5, <4>1, <4>2
    <3>2. obs[o].phase \in {"wait", "stream"}
      BY <2>5 DEF WaitLook, StreamNext
    <3> QED
      BY <2>1, <2>2, <2>3, <3>1, <3>2
  <2>6. CASE WaitClosed(o)
    <3>1. \A r \in Run : ~Reports(r, obs[o].chan)
      BY <2>6 DEF WaitClosed, Closed, Reports, Reporting
    <3>2. value[obs[o].chan] \in Final
      BY <2>1, <2>6, <3>1 DEF WaitClosed, AnswerDue
    <3>3. obs'[o].result = value[obs[o].chan]
      BY <1>0, <1>3, <2>6, <3>2 DEF WaitClosed, StatusInv, ObserverRecord
    <3> QED
      BY <2>2, <2>3, <2>6, <3>3 DEF WaitClosed
  <2> QED
    BY <2>4, <2>5, <2>6 DEF Observe
<1>6. NeverDropped' <=> NeverDropped
  BY <1>1 DEF NeverDropped
<1>7. NeverUnreachable'
  BY <1>2, <1>5, <1>6 DEF AnswerInv, NeverUnreachable
\* A look at the channel uses the wake-up only when the state is not final.
<1>8. NeverDropped' => AnswerDue'
  <2>1. ASSUME obs'[o].phase = "wait", obs[o].fresh, value[obs[o].chan] \in Final
        PROVE  obs'[o].fresh
    <3>1. CASE WaitLook(o)
      BY <1>0, <1>3, <2>1, <3>1 DEF WaitLook, StatusInv, ObserverRecord
    <3>2. CASE ~WaitLook(o)
      BY <1>0, <1>3, <1>4, <2>1, <3>2
         DEF Subscribe, Leave, Idle, Observe, WaitClosed, StreamNext, StreamEnd,
             StatusInv, ObserverRecord
    <3> QED
      BY <3>1, <3>2
  <2> QED
    BY <1>1, <1>2, <1>4, <1>6, <2>1 DEF AnswerInv, AnswerDue, Reports
<1> QED
  BY <1>0, <1>7, <1>8 DEF AnswerInv

LEMMA AnswerNext == AnswerInv /\ [Next]_vars => AnswerInv'
<1> SUFFICES ASSUME AnswerInv, [Next]_vars PROVE AnswerInv'
  OBVIOUS
<1>1. StatusInv'
  BY StatusNext DEF AnswerInv
<1>2. CASE Teardown \/ UNCHANGED vars
  BY <1>1, <1>2
     DEF Teardown, vars, AnswerInv, AnswerDue, NeverUnreachable, NeverDropped,
         Reports
<1> QED
  BY <1>2, AnswerRunStep, AnswerObserverStep DEF Next

\* Whoever waits has been woken to a final state or a run will report on that
\* channel, for every number of runs and observers: what WaitAnswers rests on.
THEOREM WakeUpsKept == Spec => []NoWakeUpLost
<1>1. AnswerInv => NoWakeUpLost
  BY DEF AnswerInv, NoWakeUpLost, AnswerDue
<1> QED
  BY <1>1, AnswerInit, AnswerNext, PTL DEF Spec

\* wait() has a final state to answer when its channel is closed, however runs
\* overlap and remove each other's senders, as long as none of them is dropped.
THEOREM NeverUnreachableCorrect == Spec => []NeverUnreachable
<1>1. AnswerInv => NeverUnreachable
  BY DEF AnswerInv
<1> QED
  BY <1>1, AnswerInit, AnswerNext, PTL DEF Spec

-----------------------------------------------------------------------------
(* The runs implement a durable workflow of one suspension.  What a run    *)
(* records fits because it is the only one at work: its metadata is still  *)
(* Running, and nobody has touched the suspension it returned from.        *)

LastBegun ==
  \A p \in Run, q \in Run :
    p < q /\ run[q].phase # "none" => run[p].phase # "none" /\ ~Live(p)

LiveIsRunning == \A r \in Run : Live(r) => meta = "Running"

ResultFits ==
  \A r \in Run : run[r].phase = "returned" =>
    /\ run[r].result = "Completed" => entry = "Result"
    /\ run[r].result = "Suspended" => entry = "Suspended"

DurableInv == StatusInv /\ LastBegun /\ LiveIsRunning /\ ResultFits

LEMMA DurableInvInit == Init => DurableInv
BY StatusInit DEF Init, DurableInv, LastBegun, LiveIsRunning, ResultFits, Live, NoRun

LEMMA DurableInvBegin ==
  ASSUME DurableInv, NEW r \in Run, Begin(r)
  PROVE  LastBegun' /\ LiveIsRunning' /\ ResultFits'
<1>1. run \in [Run -> RunRecord] /\ Run \subseteq Int
  BY DEF DurableInv, StatusInv, RunState, Run
<1>2. /\ run'[r].phase = "begun" /\ run[r].phase = "none" /\ meta' = "Running"
      /\ \A q \in Run : q # r => run'[q] = run[q]
      /\ \A q \in Run : q < r => run[q].phase # "none" /\ ~Live(q)
  BY <1>1 DEF Begin, RunRecord
<1>3. \A q \in Run : q # r => ~Live(q)
  BY <1>1, <1>2 DEF DurableInv, LastBegun, Live
<1> QED
  BY <1>1, <1>2, <1>3 DEF DurableInv, LastBegun, LiveIsRunning, ResultFits, Live

LEMMA DurableInvRunStep ==
  ASSUME DurableInv, NEW r \in Run, RunStep(r)
  PROVE  DurableInv'
<1> USE DEF DurableInv, RunStep
<1>1. StatusInv'
  BY StatusRunStep
<1>2. run \in [Run -> RunRecord] /\ run[r] \in RunRecord /\ Run \subseteq Int
  BY DEF StatusInv, RunState, Run
<1>3. CASE Rerun(r) \/ Claim(r)
  BY <1>1, <1>3, DurableInvBegin DEF Rerun, Claim
<1>4. ASSUME \A q \in Run : q # r => run'[q] = run[q],
             run[r].phase # "none" => run'[r].phase # "none",
             Live(r)' => Live(r),
             run[r].phase # "none" \/ run' = run
      PROVE  LastBegun'
  BY <1>2, <1>4 DEF LastBegun, Live
\* A live run is the only one.
<1>5. Live(r) => \A q \in Run : q # r => ~Live(q)
  BY <1>2 DEF LastBegun, Live
<1>6. CASE \/ DropRun(r) \/ MissStep(r) \/ RestoreStatus(r) \/ SetStatus(r)
           \/ GetSender(r) \/ Spawn(r) \/ Report(r) \/ RemoveSender(r)
  <2>1. /\ UNCHANGED <<meta, entry>>
        /\ \A q \in Run : q # r => run'[q] = run[q]
        /\ run[r].phase # "none" /\ run'[r].phase # "none"
        /\ run'[r].phase # "returned"
        /\ Live(r)' => Live(r)
    <3>1. CASE DropRun(r)
      BY <1>2, <3>1 DEF DropRun, database, Live, RunRecord
    <3>2. CASE MissStep(r)
      BY <1>2, <3>2 DEF MissStep, database, Live, RunRecord
    <3>3. CASE RestoreStatus(r) \/ SetStatus(r)
      BY <1>2, <3>3 DEF RestoreStatus, SetStatus, database, Live
    <3>4. CASE GetSender(r)
      BY <1>2, <3>4 DEF GetSender, database, Live, RunRecord
    <3>5. CASE Spawn(r)
      BY <1>2, <3>5 DEF Spawn, database, Live, RunRecord
    <3>6. CASE Report(r)
      BY <1>2, <3>6 DEF Report, database, Live, RunRecord
    <3>7. CASE RemoveSender(r)
      BY <1>2, <3>7 DEF RemoveSender, database, Live, RunRecord
    <3> QED BY <1>6, <3>1, <3>2, <3>3, <3>4, <3>5, <3>6, <3>7
  <2>2. LastBegun'
    BY <1>4, <2>1
  <2>3. LiveIsRunning'
    BY <2>1 DEF LiveIsRunning, Live
  <2>4. ResultFits'
    BY <2>1 DEF ResultFits
  <2> QED BY <1>1, <2>2, <2>3, <2>4
<1>7. CASE Suspend(r) \/ Finish(r)
  <2>1. /\ UNCHANGED meta
        /\ \A q \in Run : q # r => run'[q] = run[q]
        /\ Live(r) /\ run'[r].phase \in {"run", "returned"}
        /\ run[r].phase # "none"
        /\ run'[r].phase = "returned" =>
             \/ run'[r].result = "Suspended" /\ entry' = "Suspended"
             \/ run'[r].result = "Completed" /\ entry' = "Result"
             \/ run'[r].result = "Failed"
    <3>1. CASE Suspend(r)
      BY <1>2, <3>1 DEF Suspend, Return, Live, RunRecord
    <3>2. CASE Finish(r)
      BY <1>2, <3>2 DEF Finish, Return, Live, RunRecord
    <3> QED BY <1>7, <3>1, <3>2
  <2>2. LastBegun'
    BY <1>4, <2>1
  <2>3. LiveIsRunning'
    BY <2>1 DEF LiveIsRunning, Live
  <2>4. ResultFits'
    BY <1>5, <2>1 DEF ResultFits, Live
  <2> QED BY <1>1, <2>2, <2>3, <2>4
<1>8. CASE Record(r)
  <2>1. /\ UNCHANGED entry
        /\ \A q \in Run : q # r => run'[q] = run[q]
        /\ Live(r) /\ run'[r].phase = "recorded" /\ run[r].phase # "none"
    BY <1>2, <1>8 DEF Record, Live, RunRecord
  <2>2. LastBegun'
    BY <1>4, <2>1
  <2>3. LiveIsRunning' /\ ResultFits'
    BY <1>5, <2>1 DEF LiveIsRunning, ResultFits, Live
  <2> QED BY <1>1, <2>2, <2>3
<1> QED BY <1>3, <1>6, <1>7, <1>8 DEF Proceed

LEMMA DurableInvNext == DurableInv /\ [Next]_vars => DurableInv'
<1> SUFFICES ASSUME DurableInv, [Next]_vars PROVE DurableInv'
  OBVIOUS
<1>1. StatusInv'
  BY StatusNext DEF DurableInv
<1>2. CASE \E r \in Run : RunStep(r)
  BY <1>2, DurableInvRunStep
<1>3. CASE UNCHANGED <<meta, entry, run>>
  BY <1>1, <1>3 DEF DurableInv, LastBegun, LiveIsRunning, ResultFits, Live
<1> QED
  BY <1>2, <1>3
     DEF Next, RunStep, Teardown, vars, Subscribe, Leave, Observe, WaitLook,
         WaitClosed, StreamNext, StreamEnd, database

\* What a step does to the metadata and the journal is a step of the workflow.
LEMMA DurableStep ==
  ASSUME DurableInv, [Next]_vars
  PROVE  [Durable!DurableNext]_<<[i \in {"instance"} |-> meta],
            [i \in {"instance"} |->
              [k \in {1} |-> IF entry = "Result" THEN "Result" ELSE "none"]]>>
<1> DEFINE Status == [i \in {"instance"} |-> meta]
           Memo == [i \in {"instance"} |->
                     [k \in {1} |-> IF entry = "Result" THEN "Result" ELSE "none"]]
<1> SUFFICES Durable!DurableNext \/ UNCHANGED <<Status, Memo>>
  OBVIOUS
<1>0. Len(<<"suspend">>) = 1 /\ 1..Len(<<"suspend">>) = {1}
  OBVIOUS
<1> USE DEF Durable!DurableNext
<1>1. ASSUME NEW r \in Run, Rerun(r) PROVE Durable!Run("instance")
  BY <1>1 DEF Rerun, Begin, Durable!Run
<1>2. ASSUME NEW r \in Run, Claim(r) PROVE Durable!Deliver("instance", 1)
  <2>1. meta = "Suspended" /\ meta' = "Running" /\ entry # "Result" /\ entry' = "Result"
    BY <1>2 DEF Claim, Begin
  <2>2. Memo' = [Memo EXCEPT !["instance"][1] = "Result"]
    BY <2>1
  <2>3. Durable!Memoise("instance", 1)
    BY <2>2 DEF Durable!Memoise
  <2>4. Durable!Frontier("instance", 1)
    BY <2>1 DEF Durable!Frontier, Durable!Memoised
  <2> QED BY <2>1, <2>3, <2>4 DEF Durable!Deliver
<1>3. ASSUME NEW r \in Run, Record(r)
      PROVE  \/ Durable!Complete("instance") \/ Durable!Fail("instance")
             \/ Durable!Wait("instance", 1)
  <2>1. /\ meta = "Running" /\ meta' = run[r].result /\ UNCHANGED entry
        /\ run[r].result \in Final
        /\ run[r].result = "Completed" => entry = "Result"
        /\ run[r].result = "Suspended" => entry = "Suspended"
    BY <1>3 DEF Record, DurableInv, LiveIsRunning, ResultFits, Live, StatusInv,
                RunState
  <2>2. CASE run[r].result = "Completed"
    BY <1>0, <2>1, <2>2 DEF Durable!Complete, Durable!Memoised, Durable!Keys
  <2>3. CASE run[r].result = "Failed"
    BY <2>1, <2>3 DEF Durable!Fail
  <2>4. CASE run[r].result = "Suspended"
    BY <1>0, <2>1, <2>4 DEF Durable!Wait, Durable!Frontier, Durable!Memoised
  <2> QED BY <2>1, <2>2, <2>3, <2>4 DEF Final, Terminal
<1>4. ASSUME NEW r \in Run, Suspend(r) PROVE UNCHANGED <<Status, Memo>>
  <2>1. meta' = meta /\ (entry' = "Result" <=> entry = "Result")
    BY <1>4 DEF Suspend
  <2> QED BY <2>1
<1>5. CASE UNCHANGED <<meta, entry>>
  BY <1>5
<1>6. "instance" \in {"instance"} /\ 1 \in Durable!Keys
  BY <1>0 DEF Durable!Keys
<1> QED
  BY <1>1, <1>2, <1>3, <1>4, <1>5, <1>6
     DEF Next, Proceed, DropRun, MissStep, RestoreStatus, SetStatus, GetSender,
         Spawn, Finish, Report, RemoveSender, Teardown, Subscribe, Leave, Observe,
         WaitLook, WaitClosed, StreamNext, StreamEnd, database, vars

\* Any number of runs of an instance, however the last steps of one overlap with
\* the next, take its metadata and its suspension through the states of one
\* durable workflow.
THEOREM RunsAreDurable == Spec => ImplementsDurableWorkflow
<1>1. Init => Durable!DurableInit
  <2>1. Len(<<"suspend">>) = 1 /\ 1..Len(<<"suspend">>) = {1}
    OBVIOUS
  <2> QED BY <2>1 DEF Init, Durable!DurableInit, Durable!Keys
<1> QED
  BY <1>1, DurableInvInit, DurableInvNext, DurableStep, PTL
     DEF Spec, ImplementsDurableWorkflow, Durable!DurableSpec

=============================================================================
