---------------------------- MODULE EngineProofs ----------------------------
(***************************************************************************)
(* Theorems about Engine, for every set of instances, tasks, signallers    *)
(* and values, every program and every environment.                        *)
(***************************************************************************)
EXTENDS Engine, TLAPS

-----------------------------------------------------------------------------
(* Type correctness.                                                       *)

\* Inside an operation the program counter is at an operation.
TasksOK ==
  \A t \in Task : tasks[t].phase \in {"exec", "miss", "susp"} => Pc(t) \in Keys

\* The poller has a row in hand from its removal to the spawn.
PollerOK == poller.phase \in {"held", "claimed"} => poller.row \in Row

TypeInv == TypeOK /\ TasksOK /\ PollerOK

\* What the program's type says of positions.
LEMMA ProgramFacts ==
  /\ N \in Nat
  /\ Program \in [Keys -> OpKind]
  /\ \A k \in Keys : k \in 1..(N + 1) /\ k + 1 \in 1..(N + 1)
  /\ 1 \in 1..(N + 1)
BY ProgramAssumption DEF N, Keys

\* The initial state is well typed.
LEMMA TypeInvInit == Init => TypeInv
<1> SUFFICES ASSUME Init PROVE TypeInv
  OBVIOUS
<1>1. meta \in [Instance -> Metadata] /\ steps \in [Instance -> [Keys -> Entry]]
  BY DEF Init, Metadata, Status, Entry
<1>2. poller \in [phase : {"off", "sleep", "batch", "held", "claimed"},
                  batch : SUBSET Row, row : Row \cup {NoRow}]
  BY DEF Init, PollerOff
<1>3. tasks \in [Task -> TaskState]
  BY DEF Init, TaskState
<1>4. TypeOK
  BY <1>1, <1>2, <1>3 DEF Init, TypeOK
<1>5. TasksOK /\ PollerOK
  BY DEF Init, TasksOK, PollerOK, Free, PollerOff
<1> QED BY <1>4, <1>5 DEF TypeInv

\* The ways in which an action changes the tasks keep them well typed: a task
\* changes its phase, ...
LEMMA GotoType ==
  ASSUME TypeInv, NEW t \in Task, Active(t), NEW p \in TaskPhase,
         p \in {"exec", "miss", "susp"} => Pc(t) \in Keys, Goto(t, p)
  PROVE  tasks' \in [Task -> TaskState] /\ TasksOK'
<1>1. tasks[t] \in [phase : TaskPhase, inst : Instance, pc : 1..(N + 1)]
  BY DEF TypeInv, TypeOK, TaskState, Free, Active
<1>2. /\ tasks'[t] = [tasks[t] EXCEPT !.phase = p]
      /\ \A u \in Task : u # t => tasks'[u] = tasks[u]
      /\ DOMAIN tasks' = Task /\ tasks' = [u \in Task |-> tasks'[u]]
  BY DEF Goto, TypeInv, TypeOK
<1>3. tasks'[t] \in TaskState /\ tasks'[t].phase = p /\ tasks'[t].pc = Pc(t)
  BY <1>1, <1>2 DEF TaskState, Pc
<1>4. tasks' \in [Task -> TaskState]
  BY <1>2, <1>3 DEF TypeInv, TypeOK
<1>5. TasksOK'
  BY <1>2, <1>3 DEF TypeInv, TasksOK, Pc
<1> QED BY <1>4, <1>5

\* ... moves on to the next operation, ...
LEMMA NextOperationType ==
  ASSUME TypeInv, NEW t \in Task, Active(t), Pc(t) \in Keys, NextOperation(t)
  PROVE  tasks' \in [Task -> TaskState] /\ TasksOK'
<1>1. tasks[t] \in [phase : TaskPhase, inst : Instance, pc : 1..(N + 1)]
  BY DEF TypeInv, TypeOK, TaskState, Free, Active
<1>2. /\ tasks'[t] = [tasks[t] EXCEPT !.phase = "run", !.pc = @ + 1]
      /\ \A u \in Task : u # t => tasks'[u] = tasks[u]
      /\ DOMAIN tasks' = Task /\ tasks' = [u \in Task |-> tasks'[u]]
  BY DEF NextOperation, TypeInv, TypeOK
<1>3. tasks'[t] \in TaskState /\ tasks'[t].phase = "run"
  <2>1. tasks[t].pc + 1 \in 1..(N + 1)
    BY <1>1, ProgramFacts DEF Pc
  <2>2. "run" \in TaskPhase
    BY DEF TaskPhase
  <2> QED
    BY <1>1, <1>2, <2>1, <2>2 DEF TaskState
<1>4. tasks' \in [Task -> TaskState]
  BY <1>2, <1>3 DEF TypeInv, TypeOK
<1>5. TasksOK'
  BY <1>2, <1>3 DEF TypeInv, TasksOK, Pc
<1> QED BY <1>4, <1>5

\* ... ends, ...
LEMMA EndType ==
  ASSUME TypeInv, NEW t \in Task, tasks' = [tasks EXCEPT ![t] = Free]
  PROVE  tasks' \in [Task -> TaskState] /\ TasksOK'
BY DEF TypeInv, TypeOK, TasksOK, TaskState, Free, Pc

\* ... or is spawned.
LEMMA SpawnType ==
  ASSUME TypeInv, NEW i \in Instance, SpawnTask(i)
  PROVE  tasks' \in [Task -> TaskState] /\ TasksOK'
<1>1. [phase |-> "run", inst |-> i, pc |-> 1] \in TaskState
  BY ProgramFacts DEF TaskState, TaskPhase
<1> QED BY <1>1 DEF SpawnTask, TypeInv, TypeOK, TasksOK, Pc

\* A journal write keeps the journal well typed.
LEMMA WriteStepType ==
  ASSUME TypeOK, NEW t, NEW e \in Entry, WriteStep(t, e)
  PROVE  steps' \in [Instance -> [Keys -> Entry]]
BY DEF TypeOK, WriteStep

\* Setting a timer keeps the timer table well typed.
LEMMA ArmType ==
  ASSUME TypeOK, NEW i, NEW k, timers' = [timers EXCEPT ![i][k] = "armed"]
  PROVE  timers' \in [Instance -> [Keys -> {"none", "armed", "due"}]]
BY DEF TypeOK

\* A claim keeps the journal and the metadata well typed.
LEMMA ClaimType ==
  ASSUME TypeOK, NEW i, NEW k, NEW e \in Result, Claim(i, k, e)
  PROVE  /\ steps' \in [Instance -> [Keys -> Entry]]
         /\ meta' \in [Instance -> Metadata]
<1>1. steps' \in [Instance -> [Keys -> Entry]]
  BY DEF TypeOK, Claim, Entry
<1>2. meta' \in [Instance -> Metadata]
  <2>1. Status("Running") \in Metadata
    BY DEF Metadata
  <2> QED BY <2>1 DEF TypeOK, Claim
<1> QED BY <1>1, <1>2

\* The actions of the tasks preserve the typing.
LEMMA TypeInvTask ==
  ASSUME TypeInv, NEW t \in Task, TaskStep(t) \/ DropTask(t)
  PROVE  TypeInv'
<1> USE DEF TypeInv, db, lifecycle
<1> DEFINE Kept == /\ tasks' \in [Task -> TaskState]
                   /\ TasksOK'
<1>1. CASE StepRun(t)
  <2>1. Active(t) /\ Pc(t) \in Keys
    BY <1>1 DEF StepRun, AtOperation, Active
  <2>2. Kept
    BY <1>1, <2>1, GotoType, NextOperationType DEF StepRun, TaskPhase
  <2> QED BY <1>1, <2>2 DEF StepRun, TypeOK, PollerOK
<1>2. CASE StepOk(t)
  <2>1. Active(t) /\ Pc(t) \in Keys
    BY <1>2 DEF StepOk, TasksOK, Active
  <2>2. Kept
    BY <1>2, <2>1, NextOperationType DEF StepOk
  <2>3. steps' \in [Instance -> [Keys -> Entry]]
    BY <1>2, WriteStepType DEF StepOk, Entry, Result
  <2> QED BY <1>2, <2>2, <2>3 DEF StepOk, TypeOK, PollerOK
<1>3. CASE StepDeadLetter(t)
  <2>1. Active(t) /\ Pc(t) \in Keys
    BY <1>3 DEF StepDeadLetter, TasksOK, Active
  <2>2. Kept
    BY <1>3, <2>1, GotoType DEF StepDeadLetter, TaskPhase
  <2>3. steps' \in [Instance -> [Keys -> Entry]]
    BY <1>3, WriteStepType DEF StepDeadLetter, Entry
  <2> QED BY <1>3, <2>2, <2>3 DEF StepDeadLetter, TypeOK, PollerOK
<1>4. CASE StepTimeout(t)
  <2>1. Active(t)
    BY <1>4 DEF StepTimeout, Active
  <2>2. Kept
    BY <1>4, <2>1, GotoType DEF StepTimeout, TaskPhase
  <2> QED BY <1>4, <2>2 DEF StepTimeout, TypeOK, PollerOK
<1>5. ASSUME Active(t), Pc(t) \in Keys, ReadSuspension(t)
      PROVE  TypeInv'
  <2>1. Kept
    BY <1>5, GotoType, NextOperationType DEF ReadSuspension, TaskPhase
  <2> QED BY <1>5, <2>1 DEF ReadSuspension, TypeOK, PollerOK
<1>6. CASE Suspend(t)
  <2>1. Active(t) /\ Pc(t) \in Keys
    BY <1>6 DEF Suspend, AtOperation, Active, TasksOK
  <2>2. CASE ReadSuspension(t)
    BY <2>1, <2>2, <1>5
  <2>3. CASE ~ReadSuspension(t)
    <3>1. Kept
      BY <1>6, <2>1, <2>3, GotoType DEF Suspend, TaskPhase
    <3>2. steps' \in [Instance -> [Keys -> Entry]]
      BY <1>6, <2>3, WriteStepType DEF Suspend, Entry
    <3> QED BY <1>6, <2>3, <3>1, <3>2 DEF Suspend, TypeOK, PollerOK
  <2> QED BY <2>2, <2>3
<1>7. CASE Timer(t)
  <2>1. Active(t) /\ Pc(t) \in Keys
    BY <1>7 DEF Timer, AtOperation, Active, TasksOK
  <2>2. CASE ReadSuspension(t)
    BY <2>1, <2>2, <1>5
  <2>3. CASE ~ReadSuspension(t)
    <3>1. Kept
      BY <1>7, <2>1, <2>3, GotoType DEF Timer, TaskPhase
    <3>2. steps' \in [Instance -> [Keys -> Entry]]
      BY <1>7, <2>3, WriteStepType DEF Timer, Entry
    <3>3. timers' \in [Instance -> [Keys -> {"none", "armed", "due"}]]
      <4>1. timers' = [timers EXCEPT ![Inst(t)][Pc(t)] = "armed"]
        BY <1>7, <2>3 DEF Timer
      <4> QED BY <4>1, ArmType
    <3> QED BY <1>7, <2>3, <3>1, <3>2, <3>3 DEF Timer, TypeOK, PollerOK
  <2> QED BY <2>2, <2>3
<1>8. CASE WriteOutput(t)
  <2>1. Active(t) /\ Inst(t) \in Instance
    BY <1>8 DEF WriteOutput, Active, TypeOK, TaskState, Free, Inst
  <2>2. Kept
    BY <1>8, <2>1, GotoType DEF WriteOutput, TaskPhase
  <2> QED BY <1>8, <2>1, <2>2 DEF WriteOutput, TypeOK, PollerOK
<1>9. CASE WorkflowError(t)
  <2>1. Active(t)
    BY <1>9 DEF WorkflowError, Active
  <2>2. Kept
    BY <1>9, <2>1, GotoType DEF WorkflowError, TaskPhase
  <2> QED BY <1>9, <2>2 DEF WorkflowError, TypeOK, PollerOK
<1>10. CASE HandleWorkflowResult(t)
  <2>1. ResultMetadata(t) \in Metadata
    BY <1>10 DEF HandleWorkflowResult, ResultMetadata, Metadata, TasksOK
  <2>2. Kept
    BY <1>10, EndType DEF HandleWorkflowResult
  <2> QED BY <1>10, <2>1, <2>2 DEF HandleWorkflowResult, TypeOK, PollerOK
<1>11. CASE DropTask(t)
  <2>1. Kept
    BY <1>11, EndType DEF DropTask
  <2> QED BY <1>11, <2>1 DEF DropTask, TypeOK, PollerOK
<1> QED
  BY <1>1, <1>2, <1>3, <1>4, <1>6, <1>7, <1>8, <1>9, <1>10, <1>11 DEF TaskStep

\* The other actions preserve the typing.
LEMMA TypeInvNext == TypeInv /\ [Next]_vars => TypeInv'
<1> SUFFICES ASSUME TypeInv, [Next]_vars PROVE TypeInv'
  OBVIOUS
<1> USE DEF TypeInv, db, lifecycle
<1>1. ASSUME NEW i \in Instance, SpawnWorkflow(i), scan' \subseteq Instance
      PROVE  TypeInv'
  <2>1. tasks' \in [Task -> TaskState] /\ TasksOK'
    BY <1>1, SpawnType DEF SpawnWorkflow
  <2>2. meta' \in [Instance -> Metadata]
    <3>1. Status("Running") \in Metadata
      BY DEF Metadata
    <3> QED BY <1>1, <3>1 DEF SpawnWorkflow, TypeOK
  <2> QED BY <1>1, <2>1, <2>2 DEF SpawnWorkflow, TypeOK, PollerOK
<1>2. ASSUME NEW i \in Instance, Invoke(i) \/ Resume(i)
      PROVE  TypeInv'
  BY <1>1, <1>2 DEF Invoke, Resume, TypeOK
<1>3. ASSUME NEW t \in Task, TaskStep(t) \/ DropTask(t)
      PROVE  TypeInv'
  BY <1>3, TypeInvTask
<1>4. ASSUME NEW s \in Signaller, NEW i \in Instance, NEW k \in Keys,
             SignalClaim(s, i, k)
      PROVE  TypeInv'
  <2>1. /\ steps' \in [Instance -> [Keys -> Entry]]
        /\ meta' \in [Instance -> Metadata]
    BY <1>4, ClaimType DEF SignalClaim, Result
  <2> QED BY <1>4, <2>1 DEF SignalClaim, TypeOK, TasksOK, PollerOK, Pc
<1>5. ASSUME NEW s \in Signaller, SignalSpawn(s)
      PROVE  TypeInv'
  <2>1. tasks' \in [Task -> TaskState] /\ TasksOK'
    BY <1>5, SpawnType DEF SignalSpawn, TypeOK
  <2> QED BY <1>5, <2>1 DEF SignalSpawn, TypeOK, PollerOK
<1>6. ASSUME NEW s \in Signaller, SignalAbandon(s)
      PROVE  TypeInv'
  BY <1>6 DEF SignalAbandon, TypeOK, TasksOK, PollerOK, Pc
<1>7. ASSUME NEW i \in Instance, NEW k \in Keys, Expire(i, k)
      PROVE  TypeInv'
  BY <1>7 DEF Expire, TypeOK, TasksOK, PollerOK, Pc
<1>8. CASE PollStep
  <2>1. CASE PollCollect
    BY <2>1 DEF PollCollect, TypeOK, TasksOK, PollerOK, Pc
  <2>2. ASSUME NEW r \in Row, PollRemove(r)
        PROVE  TypeInv'
    BY <2>2 DEF PollRemove, TypeOK, TasksOK, PollerOK, Pc
  <2>3. CASE PollClaim
    <3>1. CASE Claim(poller.row.inst, poller.row.key, "fired")
      <4>1. /\ steps' \in [Instance -> [Keys -> Entry]]
            /\ meta' \in [Instance -> Metadata]
        BY <3>1, ClaimType DEF Result
      <4> QED BY <2>3, <3>1, <4>1
              DEF PollClaim, Claim, TypeOK, TasksOK, PollerOK, Pc
    <3>2. CASE ~Claim(poller.row.inst, poller.row.key, "fired")
      BY <2>3, <3>2 DEF PollClaim, TypeOK, TasksOK, PollerOK, Pc
    <3> QED BY <3>1, <3>2
  <2>4. CASE PollSpawn
    <3>1. poller.row.inst \in Instance
      BY <2>4 DEF PollSpawn, PollerOK, Row
    <3>2. tasks' \in [Task -> TaskState] /\ TasksOK'
      BY <2>4, <3>1, SpawnType DEF PollSpawn
    <3> QED BY <2>4, <3>2 DEF PollSpawn, TypeOK, PollerOK
  <2>5. CASE PollLoop
    BY <2>5 DEF PollLoop, PollerOff, TypeOK, TasksOK, PollerOK, Pc
  <2>6. CASE PollError
    BY <2>6 DEF PollError, TypeOK, TasksOK, PollerOK, Pc
  <2> QED BY <1>8, <2>1, <2>2, <2>3, <2>4, <2>5, <2>6 DEF PollStep
<1>9. CASE PollAbort
  BY <1>9 DEF PollAbort, PollerOff, TypeOK, TasksOK, PollerOK, Pc
<1>10. CASE Start
  BY <1>10 DEF Start, TypeOK, TasksOK, PollerOK, Pc
<1>11. CASE StartStep
  <2>1. CASE StartList
    BY <2>1 DEF StartList, TypeOK, TasksOK, PollerOK, Pc
  <2>2. ASSUME NEW i \in Instance, StartSpawn(i)
        PROVE  TypeInv'
    BY <2>2, <1>1 DEF StartSpawn, TypeOK
  <2>3. CASE StartDone
    BY <2>3 DEF StartDone, TypeOK, TasksOK, PollerOK, Pc
  <2>4. ASSUME NEW i \in Instance, StartSkip(i)
        PROVE  TypeInv'
    BY <2>4 DEF StartSkip, TypeOK, TasksOK, PollerOK, Pc
  <2> QED BY <1>11, <2>1, <2>2, <2>3, <2>4 DEF StartStep
<1>12. CASE Stop \/ WaitAll
  BY <1>12 DEF Stop, WaitAll, Shutdown, TypeOK, TasksOK, PollerOK, Pc
<1>13. CASE StopTimeout \/ Drained
  BY <1>13 DEF StopTimeout, Drained, TypeOK, TasksOK, PollerOK, Pc
<1>14. CASE Crash
  BY <1>14 DEF Crash, PollerOff, TypeOK, TasksOK, PollerOK, Pc, TaskState, Free
<1>15. CASE UNCHANGED vars
  BY <1>15 DEF vars, TypeOK, TasksOK, PollerOK, Pc
<1> QED
  BY <1>2, <1>3, <1>4, <1>5, <1>6, <1>7, <1>8, <1>9, <1>10, <1>11, <1>12,
     <1>13, <1>14, <1>15 DEF Next

\* Every variable keeps its type in every reachable state: tasks never leave
\* their program and metadata never names a step the program does not have.
THEOREM TypeCorrect == Spec => []TypeOK
<1>1. Spec => []TypeInv
  BY TypeInvInit, TypeInvNext, PTL DEF Spec
<1> QED BY <1>1, PTL DEF TypeInv

-----------------------------------------------------------------------------
(* Exclusive execution.  Whoever is about to run an instance, or runs it,  *)
(* holds it: a task, a signaller or the poller past its claim, start()'s   *)
(* list.  The instance is Running as long as it is held, so that a claim,  *)
(* which wants it Suspended, finds it free.                                *)

\* What the life cycle excludes: calls while the process is down or in
\* start(), a second life cycle in progress, tasks after a shutdown.
Quiet ==
  /\ engine = "down" => ~running /\ shutdown = "none"
  /\ engine \in {"starting", "resuming"} =>
       /\ running
       /\ poller.phase = "sleep"
       /\ \A s \in Signaller : signals[s] = "none"
  /\ running => shutdown = "none"
  /\ engine = "up" /\ shutdown = "none" => running
  /\ engine \in {"down", "starting"} \/ shutdown = "done" =>
       \A t \in Task : ~Active(t)
  /\ engine = "down" \/ shutdown = "done" => poller.phase = "off"
  /\ engine # "resuming" => scan = {}

\* Callers resume only what nobody runs, and start() is over before the
\* poller's first sleep.  The code enforces neither.
Exclusive == "resume_live" \notin Allowed /\ "slow_start" \notin Allowed

ExclusiveInv == TypeInv /\ Quiet /\ SingleRun /\ BusyIsRunning

\* A slot of the JoinSet names an instance exactly when it is in use.
LEMMA SlotState ==
  \A x \in TaskState : /\ x.phase # "free" <=> x.inst # "none"
                       /\ x.phase # "free" => x.inst \in Instance
BY InstanceAssumption DEF TaskState, TaskPhase, Free

LEMMA SlotInstance ==
  ASSUME TypeInv
  PROVE  \A t \in Task : /\ Active(t) <=> Inst(t) # "none"
                         /\ Active(t) => Inst(t) \in Instance
BY SlotState DEF TypeInv, TypeOK, Inst, Active

\* The initial state satisfies the invariant.
LEMMA ExclusiveInit == Init => ExclusiveInv
<1> SUFFICES ASSUME Init PROVE ExclusiveInv
  OBVIOUS
<1>1. TypeInv
  BY TypeInvInit
<1>2. Quiet
  BY DEF Init, Quiet, PollerOff, Active, Free
<1>3. SingleRun /\ BusyIsRunning
  BY InstanceAssumption
     DEF Init, SingleRun, BusyIsRunning, Busy, PollerOff, Active, Free, Inst
<1> QED BY <1>1, <1>2, <1>3 DEF ExclusiveInv

\* A step after which nobody holds an instance that he did not hold, and that
\* leaves the metadata alone, keeps execution exclusive.
LEMMA NoNewHolder ==
  ASSUME TypeInv, TypeInv', SingleRun, BusyIsRunning,
         \A t \in Task : Active(t)' => Inst(t)' = Inst(t),
         \A s \in Signaller : signals'[s] \in {signals[s], "none"},
         poller'.phase = "claimed" =>
           poller.phase = "claimed" /\ poller'.row = poller.row,
         scan' \subseteq scan,
         meta' = meta
  PROVE  SingleRun' /\ BusyIsRunning'
<1>1. \A t \in Task : /\ Active(t)' <=> Inst(t)' # "none"
                      /\ Active(t) <=> Inst(t) # "none"
  BY SlotState DEF TypeInv, TypeOK, Inst, Active
<1>2. \A t \in Task : Inst(t)' \in {Inst(t), "none"}
  BY <1>1
<1>3. poller'.phase = "claimed" => poller'.row.inst \in Instance
  BY DEF TypeInv, PollerOK, Row
<1>4. \A i \in scan : i \in Instance
  BY DEF TypeInv, TypeOK
<1>5. \A i \in Instance : i # "none"
  BY InstanceAssumption
<1>6. SingleRun'
  <2>1. \A t, u \in Task : Active(t)' /\ Inst(t)' = Inst(u)' => t = u
    BY <1>1, <1>2 DEF SingleRun
  <2>2. \A s, r \in Signaller :
          signals'[s] # "none" /\ signals'[s] = signals'[r] => s = r
    BY DEF SingleRun
  <2>3. \A t \in Task : \A s \in Signaller : Active(t)' => Inst(t)' # signals'[s]
    BY <1>1, <1>2 DEF SingleRun
  <2>4. poller'.phase = "claimed" =>
          /\ \A t \in Task : Inst(t)' # poller'.row.inst
          /\ \A s \in Signaller : signals'[s] # poller'.row.inst
          /\ poller'.row.inst \notin scan'
    BY <1>2, <1>3, <1>5 DEF SingleRun
  <2>5. \A i \in scan' : /\ \A t \in Task : Inst(t)' # i
                         /\ \A s \in Signaller : signals'[s] # i
    BY <1>2, <1>4, <1>5 DEF SingleRun
  <2> QED BY <2>1, <2>2, <2>3, <2>4, <2>5 DEF SingleRun
<1>7. \A i \in Instance : Busy(i)' => Busy(i)
  BY <1>2, <1>5 DEF Busy, Inst
<1>8. BusyIsRunning'
  BY <1>7 DEF BusyIsRunning
<1> QED BY <1>6, <1>8

\* A spawn hands the instance over: nobody else holds it afterwards.
LEMMA SpawnKeeps ==
  ASSUME TypeInv, TypeInv', SingleRun, BusyIsRunning,
         NEW i \in Instance, SpawnTask(i),
         \A t \in Task : Inst(t) # i,
         \A s \in Signaller : signals'[s] \in {signals[s], "none"} \ {i},
         poller'.phase = "claimed" =>
           poller' = poller /\ poller.row.inst # i,
         scan' \subseteq scan \ {i},
         meta'[i].status = "Running",
         \A j \in Instance : j # i => meta'[j] = meta[j]
  PROVE  SingleRun' /\ BusyIsRunning'
<1>1. PICK n \in Task :
        /\ ~Active(n)
        /\ tasks' = [tasks EXCEPT ![n] = [phase |-> "run", inst |-> i, pc |-> 1]]
  BY DEF SpawnTask
<1>2. /\ Inst(n)' = i
      /\ \A t \in Task : t # n => Inst(t)' = Inst(t) /\ Active(t)' = Active(t)
  BY <1>1 DEF TypeInv, TypeOK, Inst, Active
<1>3. \A t \in Task : /\ Active(t)' <=> Inst(t)' # "none"
                      /\ Active(t) <=> Inst(t) # "none"
  BY SlotState DEF TypeInv, TypeOK, Inst, Active
<1>4. poller'.phase = "claimed" => poller'.row.inst \in Instance
  BY DEF TypeInv, PollerOK, Row
<1>5. \A j \in scan : j \in Instance
  BY DEF TypeInv, TypeOK
<1>6. \A j \in Instance : j # "none"
  BY InstanceAssumption
<1>7. SingleRun'
  <2>1. \A t, u \in Task : Active(t)' /\ Inst(t)' = Inst(u)' => t = u
    BY <1>2, <1>3 DEF SingleRun
  <2>2. \A s, r \in Signaller :
          signals'[s] # "none" /\ signals'[s] = signals'[r] => s = r
    BY DEF SingleRun
  <2>3. \A t \in Task : \A s \in Signaller : Active(t)' => Inst(t)' # signals'[s]
    BY <1>2, <1>3 DEF SingleRun
  <2>4. poller'.phase = "claimed" =>
          /\ \A t \in Task : Inst(t)' # poller'.row.inst
          /\ \A s \in Signaller : signals'[s] # poller'.row.inst
          /\ poller'.row.inst \notin scan'
    BY <1>2, <1>4, <1>6 DEF SingleRun
  <2>5. \A j \in scan' : /\ \A t \in Task : Inst(t)' # j
                         /\ \A s \in Signaller : signals'[s] # j
    BY <1>2, <1>5, <1>6 DEF SingleRun
  <2> QED BY <2>1, <2>2, <2>3, <2>4, <2>5 DEF SingleRun
<1>8. \A j \in Instance : j # i /\ Busy(j)' => Busy(j)
  BY <1>2, <1>6 DEF Busy, Inst
<1>9. BusyIsRunning'
  BY <1>8 DEF BusyIsRunning
<1> QED BY <1>7, <1>9

\* A claim finds its instance Suspended, hence held by nobody, and leaves it
\* Running.
LEMMA ClaimFindsFree ==
  ASSUME TypeInv, BusyIsRunning, NEW i \in Instance, NEW k, NEW e, Claim(i, k, e)
  PROVE  /\ ~Busy(i)
         /\ meta'[i].status = "Running"
         /\ \A j \in Instance : j # i => meta'[j] = meta[j]
<1>1. meta[i].status = "Suspended"
  BY DEF Claim, ClaimResult
<1>2. ~Busy(i)
  BY <1>1 DEF BusyIsRunning
<1> QED BY <1>2 DEF Claim, TypeInv, TypeOK, Status

\* The life cycle keeps its own part of the invariant.
LEMMA QuietNext ==
  ASSUME Exclusive, TypeInv, Quiet, [Next]_vars
  PROVE  Quiet'
<1> USE DEF db, lifecycle
<1>1. ASSUME NEW i \in Instance, SpawnWorkflow(i), engine \in {"up", "resuming"},
             engine = "up" => UNCHANGED scan
      PROVE  Quiet'
  BY <1>1 DEF SpawnWorkflow, Quiet
<1>2. ASSUME NEW i \in Instance, Invoke(i) \/ Resume(i)
      PROVE  Quiet'
  BY <1>2, <1>1 DEF Invoke, Resume
<1>3. ASSUME NEW t \in Task, TaskStep(t) \/ DropTask(t)
      PROVE  Quiet'
  <2>1. Active(t)
    BY <1>3 DEF TaskStep, DropTask, StepRun, StepOk, StepDeadLetter,
         StepTimeout, Suspend, Timer, WriteOutput, WorkflowError,
         HandleWorkflowResult, AtOperation, Active
  <2>2. UNCHANGED <<running, engine, scan, shutdown, signals, poller>>
    BY <1>3 DEF TaskStep, DropTask, StepRun, StepOk, StepDeadLetter,
         StepTimeout, Suspend, ReadSuspension, Timer, WriteOutput,
         WorkflowError, HandleWorkflowResult
  <2> QED BY <2>1, <2>2 DEF Quiet
<1>4. ASSUME NEW s \in Signaller, NEW i \in Instance, NEW k \in Keys,
             SignalClaim(s, i, k)
      PROVE  Quiet'
  BY <1>4 DEF SignalClaim, Quiet, Active
<1>5. ASSUME NEW s \in Signaller, SignalSpawn(s)
      PROVE  Quiet'
  BY <1>5 DEF SignalSpawn, Quiet
<1>6. ASSUME NEW s \in Signaller, SignalAbandon(s)
      PROVE  Quiet'
  BY <1>6 DEF SignalAbandon, Quiet, Active
<1>7. ASSUME NEW i \in Instance, NEW k \in Keys, Expire(i, k)
      PROVE  Quiet'
  BY <1>7 DEF Expire, Quiet, Active
<1>8. CASE PollStep
  <2>1. CASE PollCollect
    BY <2>1 DEF PollCollect, Quiet, Exclusive, Active
  <2>2. ASSUME NEW r \in Row, PollRemove(r)
        PROVE  Quiet'
    BY <2>2 DEF PollRemove, Quiet, Active
  <2>3. CASE PollClaim
    BY <2>3 DEF PollClaim, Quiet, Active
  <2>4. CASE PollSpawn
    BY <2>4 DEF PollSpawn, Quiet
  <2>5. CASE PollLoop
    BY <2>5 DEF PollLoop, PollerOff, Quiet, Active
  <2>6. CASE PollError
    BY <2>6 DEF PollError, Quiet, Active
  <2> QED BY <1>8, <2>1, <2>2, <2>3, <2>4, <2>5, <2>6 DEF PollStep
<1>9. CASE PollAbort
  BY <1>9 DEF PollAbort, PollerOff, Quiet, Active
<1>10. CASE Start
  BY <1>10 DEF Start, Quiet, TasksLockFree, TypeInv, TypeOK, Active
<1>11. CASE StartStep
  BY <1>11, <1>1
     DEF StartStep, StartList, StartSpawn, StartSkip, StartDone, Quiet, Active
<1>12. CASE Stop \/ WaitAll
  BY <1>12 DEF Stop, WaitAll, Shutdown, Quiet, Active
<1>13. CASE StopTimeout \/ Drained
  BY <1>13 DEF StopTimeout, Drained, TasksLockFree, Quiet, Active
<1>14. CASE Crash
  BY <1>14 DEF Crash, PollerOff, Quiet, Active, Free
<1>15. CASE UNCHANGED vars
  BY <1>15 DEF vars, Quiet, Active
<1> QED
  BY <1>2, <1>3, <1>4, <1>5, <1>6, <1>7, <1>8, <1>9, <1>10, <1>11, <1>12,
     <1>13, <1>14, <1>15 DEF Next

\* The steps of a task: it holds what it held, or lets it go.
LEMMA ExclusiveTask ==
  ASSUME TypeInv, TypeInv', SingleRun, BusyIsRunning,
         NEW t \in Task, TaskStep(t) \/ DropTask(t)
  PROVE  SingleRun' /\ BusyIsRunning'
<1> USE DEF db, lifecycle
<1>1. CASE HandleWorkflowResult(t)
  <2>1. Active(t)
    BY <1>1 DEF HandleWorkflowResult, Active
  <2>2. /\ \A u \in Task : Inst(u)' = IF u = t THEN "none" ELSE Inst(u)
        /\ \A u \in Task : Active(u)' => u # t /\ Active(u)
    BY <1>1 DEF HandleWorkflowResult, Inst, Active, Free, TypeInv, TypeOK
  <2>3. /\ UNCHANGED <<signals, poller, scan>>
        /\ \A j \in Instance : j # Inst(t) => meta'[j] = meta[j]
    BY <1>1 DEF HandleWorkflowResult, TypeInv, TypeOK
  <2>4. Inst(t) \in Instance /\ \A j \in Instance : j # "none"
    BY <2>1, SlotInstance, InstanceAssumption
  <2>5. poller.phase = "claimed" => poller.row.inst \in Instance
    BY DEF TypeInv, PollerOK, Row
  <2>6. \A j \in scan : j \in Instance
    BY DEF TypeInv, TypeOK
  <2>7. SingleRun'
    <3>1. \A u, w \in Task : Active(u)' /\ Inst(u)' = Inst(w)' => u = w
      <4>1. \A u \in Task : Active(u) => Inst(u) # "none"
        BY SlotInstance
      <4> QED BY <2>2, <4>1 DEF SingleRun
    <3>2. \A u \in Task : \A s \in Signaller : Active(u)' => Inst(u)' # signals'[s]
      BY <2>2, <2>3 DEF SingleRun
    <3>3. poller'.phase = "claimed" =>
            /\ \A u \in Task : Inst(u)' # poller'.row.inst
            /\ \A s \in Signaller : signals'[s] # poller'.row.inst
            /\ poller'.row.inst \notin scan'
      BY <2>2, <2>3, <2>4, <2>5 DEF SingleRun
    <3>4. \A j \in scan' : /\ \A u \in Task : Inst(u)' # j
                           /\ \A s \in Signaller : signals'[s] # j
      BY <2>2, <2>3, <2>4, <2>6 DEF SingleRun
    <3> QED BY <2>3, <3>1, <3>2, <3>3, <3>4 DEF SingleRun
  <2>8. \A j \in Instance : Busy(j)' => Busy(j)
    BY <2>2, <2>3, <2>4 DEF Busy, Inst
  <2>9. ASSUME NEW j \in Instance, j = Inst(t) PROVE ~Busy(j)'
    <3>1. \A u \in Task : Inst(u)' # j
      BY <2>1, <2>2, <2>4, <2>9 DEF SingleRun
    <3>2. \A s \in Signaller : signals'[s] # j
      BY <2>1, <2>3, <2>9 DEF SingleRun
    <3>3. poller'.phase = "claimed" => poller'.row.inst # j
      BY <2>1, <2>3, <2>9 DEF SingleRun
    <3>4. j \notin scan'
      BY <2>1, <2>3, <2>9 DEF SingleRun
    <3> QED BY <3>1, <3>2, <3>3, <3>4 DEF Busy, Inst
  <2>10. BusyIsRunning'
    BY <2>3, <2>8, <2>9 DEF BusyIsRunning
  <2> QED BY <2>7, <2>10
<1>2. CASE ~HandleWorkflowResult(t)
  <2>1. UNCHANGED <<meta, signals, poller, scan>>
    BY <1>2 DEF TaskStep, DropTask, StepRun, StepOk, StepDeadLetter,
         StepTimeout, Suspend, ReadSuspension, Timer, WriteOutput, WorkflowError
  <2>2. \/ tasks' = [tasks EXCEPT ![t] = Free]
        \/ NextOperation(t) /\ Active(t)
        \/ \E p \in TaskPhase : Goto(t, p) /\ Active(t)
    BY <1>2 DEF TaskStep, DropTask, StepRun, StepOk, StepDeadLetter,
         StepTimeout, Suspend, ReadSuspension, Timer, WriteOutput,
         WorkflowError, AtOperation, Active, TaskPhase
  <2>3. \A u \in Task : Active(u)' => Inst(u)' = Inst(u)
    <3>1. \A u \in Task : u # t => tasks'[u] = tasks[u]
      BY <2>2 DEF NextOperation, Goto, TypeInv, TypeOK
    <3>2. Active(t)' => Inst(t)' = Inst(t)
      BY <2>2 DEF NextOperation, Goto, TypeInv, TypeOK, TaskState, Free, Active, Inst
    <3> QED BY <3>1, <3>2 DEF Active, Inst
  <2>4. \A s \in Signaller : signals'[s] \in {signals[s], "none"}
    BY <2>1
  <2> QED BY <2>1, <2>3, <2>4, NoNewHolder
<1> QED BY <1>1, <1>2

\* All other steps.
LEMMA ExclusiveNext ==
  ASSUME Exclusive
  PROVE  ExclusiveInv /\ [Next]_vars => ExclusiveInv'
<1> SUFFICES ASSUME ExclusiveInv, [Next]_vars PROVE ExclusiveInv'
  OBVIOUS
<1> USE DEF ExclusiveInv, db, lifecycle
<1>1. TypeInv' /\ Quiet'
  BY TypeInvNext, QuietNext
<1> SUFFICES SingleRun' /\ BusyIsRunning'
  BY <1>1
<1>2. /\ \A j \in Instance : j # "none"
      /\ \A t \in Task : Active(t) <=> Inst(t) # "none"
  BY InstanceAssumption, SlotInstance
<1>3. ASSUME UNCHANGED tasks \/ tasks' = [t \in Task |-> Free],
             \A s \in Signaller : signals'[s] \in {signals[s], "none"},
             poller'.phase = "claimed" => UNCHANGED poller,
             scan' \subseteq scan, UNCHANGED meta
      PROVE  SingleRun' /\ BusyIsRunning'
  <2>1. \A t \in Task : Active(t)' => Inst(t)' = Inst(t)
    BY <1>3 DEF Active, Inst, Free
  <2> QED BY <1>1, <1>3, <2>1, NoNewHolder
<1>4. ASSUME NEW i \in Instance, SpawnWorkflow(i), ~Busy(i), scan' = scan
      PROVE  SingleRun' /\ BusyIsRunning'
  <2>1. /\ \A t \in Task : Inst(t) # i
        /\ \A s \in Signaller : signals'[s] \in {signals[s], "none"} \ {i}
        /\ poller'.phase = "claimed" => poller' = poller /\ poller.row.inst # i
        /\ scan' \subseteq scan \ {i}
    BY <1>4 DEF SpawnWorkflow, Busy, Inst
  <2>2. /\ meta'[i].status = "Running"
        /\ \A j \in Instance : j # i => meta'[j] = meta[j]
    BY <1>4 DEF SpawnWorkflow, TypeInv, TypeOK, Status
  <2>3. SpawnTask(i)
    BY <1>4 DEF SpawnWorkflow
  <2> QED BY <1>1, <2>1, <2>2, <2>3, SpawnKeeps
<1>5. ASSUME NEW i \in Instance, Invoke(i) \/ Resume(i)
      PROVE  SingleRun' /\ BusyIsRunning'
  <2>1. ~Busy(i)
    BY <1>5 DEF Invoke, Resume, Exclusive, BusyIsRunning
  <2> QED BY <1>4, <1>5, <2>1 DEF Invoke, Resume
<1>6. ASSUME NEW s \in Signaller, NEW i \in Instance, NEW k \in Keys,
             SignalClaim(s, i, k)
      PROVE  SingleRun' /\ BusyIsRunning'
  <2>1. /\ ~Busy(i)
        /\ meta'[i].status = "Running"
        /\ \A j \in Instance : j # i => meta'[j] = meta[j]
    BY <1>6, ClaimFindsFree DEF SignalClaim
  <2>2. /\ signals[s] = "none" /\ signals'[s] = i
        /\ \A r \in Signaller : r # s => signals'[r] = signals[r]
        /\ UNCHANGED <<tasks, poller, scan>>
    BY <1>6 DEF SignalClaim, TypeInv, TypeOK
  <2>3. /\ \A t \in Task : Inst(t) # i
        /\ \A r \in Signaller : signals[r] # i
        /\ poller.phase = "claimed" => poller.row.inst # i
        /\ i \notin scan
    BY <2>1 DEF Busy, Inst
  <2>5. SingleRun'
    BY <1>2, <2>2, <2>3 DEF SingleRun, Inst, Active
  <2>6. \A j \in Instance : j # i /\ Busy(j)' => Busy(j)
    BY <2>2 DEF Busy
  <2> QED BY <2>1, <2>5, <2>6 DEF BusyIsRunning
<1>7. ASSUME NEW s \in Signaller, SignalSpawn(s)
      PROVE  SingleRun' /\ BusyIsRunning'
  <2>1. signals[s] \in Instance /\ SpawnTask(signals[s])
    BY <1>7 DEF SignalSpawn, TypeInv, TypeOK
  <2>2. /\ \A t \in Task : Inst(t) # signals[s]
        /\ poller.phase = "claimed" => poller.row.inst # signals[s]
        /\ signals[s] \notin scan
    BY <1>2, <2>1 DEF SingleRun
  <2>3. \A r \in Signaller : signals'[r] \in {signals[r], "none"} \ {signals[s]}
    BY <1>2, <1>7, <2>1 DEF SignalSpawn, SingleRun, TypeInv, TypeOK
  <2>4. meta[signals[s]].status = "Running"
    BY <2>1 DEF BusyIsRunning, Busy
  <2> QED BY <1>1, <1>7, <2>1, <2>2, <2>3, <2>4, SpawnKeeps DEF SignalSpawn
<1>8. ASSUME NEW s \in Signaller, SignalAbandon(s)
      PROVE  SingleRun' /\ BusyIsRunning'
  BY <1>3, <1>8 DEF SignalAbandon, TypeInv, TypeOK
<1>9. ASSUME NEW t \in Task, TaskStep(t) \/ DropTask(t)
      PROVE  SingleRun' /\ BusyIsRunning'
  BY <1>1, <1>9, ExclusiveTask
<1>10. ASSUME NEW i \in Instance, NEW k \in Keys, Expire(i, k)
       PROVE  SingleRun' /\ BusyIsRunning'
  BY <1>3, <1>10 DEF Expire
<1>11. CASE \/ PollCollect \/ PollLoop \/ PollAbort \/ PollError
            \/ \E r \in Row : PollRemove(r)
  <2>1. UNCHANGED <<tasks, signals, scan, meta>>
    BY <1>11 DEF PollCollect, PollLoop, PollAbort, PollError, PollRemove
  <2>2. poller'.phase # "claimed"
    <3>1. CASE PollCollect
      BY <3>1 DEF PollCollect, TypeInv, TypeOK
    <3>2. CASE PollLoop
      BY <3>2 DEF PollLoop, PollerOff, TypeInv, TypeOK
    <3>3. CASE PollAbort
      BY <3>3 DEF PollAbort, PollerOff
    <3>4. CASE \E r \in Row : PollRemove(r)
      BY <3>4 DEF PollRemove
    <3>5. CASE PollError
      BY <3>5 DEF PollError
    <3> QED BY <1>11, <3>1, <3>2, <3>3, <3>4, <3>5
  <2> QED BY <1>3, <2>1, <2>2
<1>12. CASE PollClaim
  <2>1. CASE Claim(poller.row.inst, poller.row.key, "fired") /\ poller'.phase = "claimed"
    <3> DEFINE i == poller.row.inst
    <3>1. i \in Instance
      BY <1>12 DEF PollClaim, TypeInv, PollerOK, Row
    <3>2. /\ ~Busy(i)
          /\ meta'[i].status = "Running"
          /\ \A j \in Instance : j # i => meta'[j] = meta[j]
      BY <2>1, <3>1, ClaimFindsFree
    <3>3. UNCHANGED <<tasks, signals, scan>> /\ poller'.row = poller.row
      BY <1>12, <2>1 DEF PollClaim, TypeInv, TypeOK
    <3>4. /\ \A t \in Task : Inst(t) # i
          /\ \A r \in Signaller : signals[r] # i
          /\ i \notin scan
      BY <3>2 DEF Busy, Inst
    <3>5. SingleRun'
      BY <3>3, <3>4 DEF SingleRun, Inst, Active
    <3>6. \A j \in Instance : j # i /\ Busy(j)' => Busy(j)
      BY <3>3 DEF Busy
    <3> QED BY <3>2, <3>5, <3>6 DEF BusyIsRunning
  <2>2. CASE ~(Claim(poller.row.inst, poller.row.key, "fired") /\ poller'.phase = "claimed")
    <3>1. /\ UNCHANGED <<tasks, signals, scan, meta>>
          /\ poller'.phase # "claimed"
      BY <1>12, <2>2 DEF PollClaim, TypeInv, TypeOK
    <3> QED BY <1>3, <3>1
  <2> QED BY <2>1, <2>2
<1>13. CASE PollSpawn
  <2>1. poller.row.inst \in Instance /\ SpawnTask(poller.row.inst)
    BY <1>13 DEF PollSpawn, TypeInv, PollerOK, Row
  <2>2. /\ \A t \in Task : Inst(t) # poller.row.inst
        /\ \A r \in Signaller : signals[r] # poller.row.inst
        /\ poller.row.inst \notin scan
    BY <1>13 DEF PollSpawn, SingleRun
  <2>3. poller'.phase # "claimed" /\ UNCHANGED <<meta, signals, scan>>
    BY <1>13 DEF PollSpawn, TypeInv, TypeOK
  <2>4. meta[poller.row.inst].status = "Running"
    BY <1>13, <2>1 DEF PollSpawn, BusyIsRunning, Busy
  <2> QED BY <1>1, <2>1, <2>2, <2>3, <2>4, SpawnKeeps
<1>14. CASE Start \/ StartDone \/ Stop \/ WaitAll \/ StopTimeout \/ Drained \/ Crash
  <2>1. UNCHANGED tasks \/ tasks' = [t \in Task |-> Free]
    BY <1>14 DEF Start, StartDone, Stop, WaitAll, Shutdown, StopTimeout, Drained, Crash
  <2>2. /\ \A s \in Signaller : signals'[s] \in {signals[s], "none"}
        /\ poller'.phase = "claimed" => UNCHANGED poller
        /\ scan' \subseteq scan /\ UNCHANGED meta
    BY <1>14 DEF Start, StartDone, Stop, WaitAll, Shutdown, StopTimeout,
                 Drained, Crash, PollerOff, TypeInv, TypeOK
  <2> QED BY <1>3, <2>1, <2>2
<1>15. CASE StartList
  <2>1. /\ \A t \in Task : ~Active(t)
        /\ \A s \in Signaller : signals[s] = "none"
        /\ poller.phase = "sleep"
    BY <1>15 DEF StartList, Quiet
  <2>2. /\ UNCHANGED <<tasks, signals, poller, meta>>
        /\ \A i \in scan' : i \in Instance /\ meta[i].status = "Running"
    BY <1>15 DEF StartList
  <2>3. SingleRun'
    BY <1>2, <2>1, <2>2 DEF SingleRun, Inst, Active
  <2>4. BusyIsRunning'
    BY <1>2, <2>1, <2>2 DEF BusyIsRunning, Busy, Inst
  <2> QED BY <2>3, <2>4
<1>16. ASSUME NEW i \in Instance, StartSpawn(i)
       PROVE  SingleRun' /\ BusyIsRunning'
  <2>1. i \in scan /\ SpawnWorkflow(i) /\ scan' = scan \ {i}
    BY <1>16 DEF StartSpawn
  <2>2. /\ \A t \in Task : Inst(t) # i
        /\ \A s \in Signaller : signals'[s] \in {signals[s], "none"} \ {i}
        /\ poller'.phase # "claimed"
    BY <1>16, <2>1 DEF StartSpawn, SpawnWorkflow, SingleRun, Quiet
  <2>3. /\ meta'[i].status = "Running"
        /\ \A j \in Instance : j # i => meta'[j] = meta[j]
    BY <2>1 DEF SpawnWorkflow, TypeInv, TypeOK, Status
  <2>4. SpawnTask(i)
    BY <2>1 DEF SpawnWorkflow
  <2> QED BY <1>1, <2>1, <2>2, <2>3, <2>4, SpawnKeeps
<1>17. CASE UNCHANGED vars
  BY <1>3, <1>17 DEF vars
<1>18. CASE \E i \in Instance : StartSkip(i)
  BY <1>3, <1>18 DEF StartSkip
<1> QED
  BY <1>1, <1>5, <1>6, <1>7, <1>8, <1>9, <1>10, <1>11, <1>12, <1>13, <1>14,
     <1>15, <1>16, <1>17, <1>18 DEF Next, PollStep, StartStep

\* At most one holder runs each instance, whatever crashes, shutdowns, signal
\* races and timers do, as long as Exclusive holds.
THEOREM SingleRunCorrect ==
  ASSUME Exclusive
  PROVE  Spec => []SingleRun
<1>1. ExclusiveInv /\ [Next]_vars => ExclusiveInv'
  BY ExclusiveNext
<1>2. ExclusiveInv => SingleRun
  BY DEF ExclusiveInv
<1> QED BY ExclusiveInit, <1>1, <1>2, PTL DEF Spec

\* Under the same assumption the metadata never shows a live instance as idle.
THEOREM BusyIsRunningCorrect ==
  ASSUME Exclusive
  PROVE  Spec => []BusyIsRunning
<1>1. ExclusiveInv /\ [Next]_vars => ExclusiveInv'
  BY ExclusiveNext
<1>2. ExclusiveInv => BusyIsRunning
  BY DEF ExclusiveInv
<1> QED BY ExclusiveInit, <1>1, <1>2, PTL DEF Spec

=============================================================================
