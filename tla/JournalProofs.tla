--------------------------- MODULE JournalProofs ---------------------------
(***************************************************************************)
(* Theorems about the journal and the metadata of Engine, and that Engine  *)
(* implements DurableWorkflow, for every program and every size.  They     *)
(* rest on exclusive execution, which EngineProofs shows.                  *)
(***************************************************************************)
EXTENDS EngineProofs, EngineRefinement

(***************************************************************************)
(* The inductive invariant.  A task has memoised every operation before    *)
(* the one it is at, and what it read there is still so: nobody else       *)
(* writes, because the task holds its instance and a claim finds another   *)
(* one.  An entry is of the kind of its operation.                         *)
(***************************************************************************)
TaskKnows(t) ==
  /\ \A j \in 1..(Pc(t) - 1) : steps[Inst(t)][j] \in Result
  /\ tasks[t].phase = "exec" =>
       EntryAt(t) \in {"absent", "Failed"} /\ Program[Pc(t)] = "step"
  /\ tasks[t].phase = "miss" =>
       EntryAt(t) = "absent" /\ Program[Pc(t)] # "step"
  /\ tasks[t].phase = "susp" => EntryAt(t) = "Suspended"
  /\ tasks[t].phase = "ok" => Pc(t) = N + 1 /\ Inst(t) \in output

EntriesFit ==
  \A i \in Instance, k \in Keys :
    /\ steps[i][k] = "Suspended" => Program[k] # "step"
    /\ steps[i][k] = "Failed" => Program[k] = "step"

JournalInv ==
  /\ PrefixJournal
  /\ MetadataAgrees
  /\ EntriesFit
  /\ \A t \in Task : Active(t) => TaskKnows(t)

\* The markers of the journal are no results.
LEMMA Markers ==
  /\ {"absent", "Suspended", "Failed"} \cap Result = {}
  /\ \A v \in Value : v \in Result
  /\ "fired" \in Result
BY ValueAssumption DEF Result

LEMMA JournalInit == Init => JournalInv
BY Markers
   DEF Init, JournalInv, PrefixJournal, MetadataAgrees, EntriesFit, Status,
       SuspendedAt, Active, Free

\* A task that takes a step holds its instance alone.
LEMMA Holder ==
  ASSUME ExclusiveInv, NEW t \in Task, Active(t)
  PROVE  /\ Inst(t) \in Instance
         /\ Pc(t) \in 1..(N + 1)
         /\ meta[Inst(t)].status = "Running"
         /\ \A u \in Task : u # t => Inst(u) # Inst(t)
         /\ tasks[t].phase \in {"exec", "miss", "susp"} => Pc(t) \in Keys
<1>1. tasks[t] \in [phase : TaskPhase, inst : Instance, pc : 1..(N + 1)]
  BY DEF ExclusiveInv, TypeInv, TypeOK, TaskState, Free, Active
<1>2. Busy(Inst(t))
  BY DEF Busy, Inst
<1> QED
  BY <1>1, <1>2, SlotInstance
     DEF ExclusiveInv, TypeInv, TasksOK, SingleRun, BusyIsRunning, Inst, Pc

\* A journal write of a task at the operation that it is at, where it has no
\* result, does not disturb what holds of the journal.
LEMMA WriteKeeps ==
  ASSUME ExclusiveInv, JournalInv, NEW t \in Task, Active(t), Pc(t) \in Keys,
         EntryAt(t) \notin Result, NEW e \in Entry, e # "absent",
         WriteStep(t, e), UNCHANGED <<meta, output>>,
         e = "Suspended" => Program[Pc(t)] # "step",
         e = "Failed" => Program[Pc(t)] = "step"
  PROVE  /\ PrefixJournal' /\ MetadataAgrees' /\ EntriesFit'
         /\ steps'[Inst(t)][Pc(t)] = e
         /\ \A k \in Keys : k # Pc(t) => steps'[Inst(t)][k] = steps[Inst(t)][k]
         /\ \A i \in Instance : i # Inst(t) => steps'[i] = steps[i]
<1> DEFINE i == Inst(t)  k == Pc(t)
<1>1. i \in Instance /\ k \in Keys /\ meta[i].status = "Running"
  BY Holder
<1>2. /\ steps'[i][k] = e
      /\ \A j \in Keys : j # k => steps'[i][j] = steps[i][j]
      /\ \A n \in Instance : n # i => steps'[n] = steps[n]
  BY <1>1 DEF WriteStep, ExclusiveInv, TypeInv, TypeOK
<1>3. \A j \in 1..(k - 1) : j \in Keys /\ steps[i][j] \in Result
  BY <1>1, ProgramFacts DEF JournalInv, TaskKnows, Keys
<1>4. \A j \in Keys : j > k => steps[i][j] = "absent"
  BY <1>1 DEF JournalInv, PrefixJournal, EntryAt, Keys
<1>5. PrefixJournal'
  BY <1>1, <1>2, <1>3, <1>4 DEF JournalInv, PrefixJournal, Keys
<1>6. MetadataAgrees'
  <2>1. \A n \in Instance : meta[n].status = "Suspended"
                              \/ meta[n].status = "Completed" => n # i
    BY <1>1
  <2> QED
    BY <1>2, <2>1 DEF JournalInv, MetadataAgrees, SuspendedAt
<1>7. EntriesFit'
  BY <1>1, <1>2 DEF JournalInv, EntriesFit
<1> QED
  BY <1>2, <1>5, <1>6, <1>7

\* What the other tasks know is of other instances.
LEMMA OthersKnow ==
  ASSUME ExclusiveInv, JournalInv, NEW t \in Task, Active(t),
         \A u \in Task : u # t => tasks'[u] = tasks[u],
         \A i \in Instance : i # Inst(t) => steps'[i] = steps[i],
         output \subseteq output'
  PROVE  \A u \in Task : u # t /\ Active(u)' => TaskKnows(u)'
<1> SUFFICES ASSUME NEW u \in Task, u # t, Active(u)' PROVE TaskKnows(u)'
  OBVIOUS
<1>1. tasks'[u] = tasks[u] /\ Active(u) /\ TaskKnows(u)
  BY DEF JournalInv, Active
<1>2. Inst(u) # Inst(t) /\ Inst(u) \in Instance
  BY <1>1, Holder
<1>3. steps'[Inst(u)] = steps[Inst(u)]
  BY <1>2
<1> QED
  BY <1>1, <1>3 DEF TaskKnows, Inst, Pc, EntryAt

\* A task that reads, returns, times out or is dropped writes nothing.
LEMMA JournalRead ==
  ASSUME ExclusiveInv, JournalInv, NEW t \in Task,
         \/ StepRun(t) \/ StepTimeout(t) \/ WorkflowError(t) \/ DropTask(t)
         \/ AtOperation(t, "suspend") /\ ReadSuspension(t)
         \/ AtOperation(t, "timer") /\ ReadSuspension(t)
  PROVE  JournalInv'
<1> DEFINE i == Inst(t)  k == Pc(t)
<1>0. tasks \in [Task -> TaskState]
  BY DEF ExclusiveInv, TypeInv, TypeOK
<1>1. Active(t) /\ UNCHANGED <<meta, steps, output>>
  BY DEF StepRun, StepTimeout, WorkflowError, DropTask, AtOperation, Active,
         ReadSuspension, db
<1>2. i \in Instance /\ k \in 1..(N + 1) /\ TaskKnows(t)
  BY <1>1, Holder DEF JournalInv
<1>3. \A u \in Task : u # t => tasks'[u] = tasks[u]
  BY <1>0 DEF StepRun, StepTimeout, WorkflowError, DropTask, ReadSuspension, Goto,
         NextOperation
<1>4. tasks[t] \in [phase : TaskPhase, inst : Instance, pc : 1..(N + 1)]
  BY <1>1 DEF ExclusiveInv, TypeInv, TypeOK, TaskState, Free, Active
<1>5. Active(t)' => TaskKnows(t)'
  <2>1. CASE tasks'[t].phase = "free"
    BY <2>1 DEF Active
  <2>2. CASE NextOperation(t) /\ k \in Keys /\ EntryAt(t) \in Result
    <3>1. /\ tasks'[t].phase = "run" /\ Inst(t)' = i /\ Pc(t)' = k + 1
      BY <1>4, <2>2 DEF NextOperation, Inst, Pc, ExclusiveInv, TypeInv, TypeOK
    <3>2. \A j \in 1..k : steps[i][j] \in Result
      BY <1>2, <2>2 DEF TaskKnows, EntryAt
    <3> QED
      BY <1>1, <1>2, <3>1, <3>2 DEF TaskKnows
  <2>3. ASSUME NEW p, Goto(t, p),
               p = "exec" => EntryAt(t) \in {"absent", "Failed"}
                             /\ Program[k] = "step",
               p = "miss" => EntryAt(t) = "absent" /\ Program[k] # "step",
               p = "susp" => EntryAt(t) = "Suspended",
               p # "ok"
        PROVE  TaskKnows(t)'
    <3>1. /\ tasks'[t].phase = p /\ Inst(t)' = i /\ Pc(t)' = k
      BY <1>4, <2>3 DEF Goto, Inst, Pc, ExclusiveInv, TypeInv, TypeOK
    <3>2. EntryAt(t)' = EntryAt(t)
      BY <1>1, <3>1 DEF EntryAt
    <3> QED
      BY <1>1, <1>2, <2>3, <3>1, <3>2 DEF TaskKnows
  <2>4. CASE StepRun(t)
    BY <2>2, <2>3, <2>4 DEF StepRun, AtOperation
  <2>5. CASE StepTimeout(t) \/ WorkflowError(t)
    BY <2>3, <2>5 DEF StepTimeout, WorkflowError
  <2>6. CASE DropTask(t)
    BY <2>1, <2>6 DEF DropTask, Free, ExclusiveInv, TypeInv, TypeOK
  <2>7. CASE \/ AtOperation(t, "suspend") /\ ReadSuspension(t)
             \/ AtOperation(t, "timer") /\ ReadSuspension(t)
    BY <2>2, <2>3, <2>7 DEF ReadSuspension, AtOperation
  <2> QED
    BY <2>4, <2>5, <2>6, <2>7
<1>6. \A u \in Task : Active(u)' => TaskKnows(u)'
  BY <1>1, <1>3, <1>5, OthersKnow
<1>7. PrefixJournal' /\ MetadataAgrees' /\ EntriesFit'
  BY <1>1 DEF JournalInv, PrefixJournal, MetadataAgrees, EntriesFit
<1> QED
  BY <1>6, <1>7 DEF JournalInv

\* The journal writes of a task.
LEMMA JournalWrite ==
  ASSUME ExclusiveInv, JournalInv, NEW t \in Task,
         \/ StepOk(t) \/ StepDeadLetter(t)
         \/ tasks[t].phase = "miss" /\ (Suspend(t) \/ Timer(t))
  PROVE  JournalInv'
<1> DEFINE i == Inst(t)  k == Pc(t)
<1>0. tasks \in [Task -> TaskState]
  BY DEF ExclusiveInv, TypeInv, TypeOK
<1>1. /\ tasks[t].phase \in {"exec", "miss"} /\ Active(t)
      /\ UNCHANGED <<meta, output>>
      /\ \A u \in Task : u # t => tasks'[u] = tasks[u]
  BY <1>0 DEF StepOk, StepDeadLetter, Suspend, Timer, AtOperation, Active, Goto,
         NextOperation
<1>2. i \in Instance /\ k \in Keys /\ TaskKnows(t)
  BY <1>1, Holder DEF JournalInv
<1>3. tasks[t] \in [phase : TaskPhase, inst : Instance, pc : 1..(N + 1)]
  BY <1>1 DEF ExclusiveInv, TypeInv, TypeOK, TaskState, Free, Active
<1>4. PICK e \in Entry :
        /\ WriteStep(t, e) /\ e # "absent"
        /\ e = "Suspended" => Program[k] # "step" /\ Goto(t, "susp")
        /\ e = "Failed" => Program[k] = "step" /\ Goto(t, "err")
        /\ e \in Result => NextOperation(t)
  BY <1>2, Markers
     DEF StepOk, StepDeadLetter, Suspend, Timer, AtOperation, Entry, TaskKnows
<1>5. EntryAt(t) \notin Result
  BY <1>1, <1>2, Markers DEF TaskKnows
<1>6. /\ PrefixJournal' /\ MetadataAgrees' /\ EntriesFit'
      /\ steps'[i][k] = e
      /\ \A j \in Keys : j # k => steps'[i][j] = steps[i][j]
      /\ \A n \in Instance : n # i => steps'[n] = steps[n]
  BY <1>1, <1>2, <1>4, <1>5, WriteKeeps
<1>7. \A j \in 1..(k - 1) : j \in Keys /\ steps'[i][j] \in Result
  BY <1>2, <1>6, ProgramFacts DEF TaskKnows, Keys
<1>8. TaskKnows(t)'
  <2>1. CASE e \in Result
    <3>1. tasks'[t].phase = "run" /\ Inst(t)' = i /\ Pc(t)' = k + 1
      BY <1>3, <1>4, <2>1
         DEF NextOperation, Inst, Pc, ExclusiveInv, TypeInv, TypeOK
    <3>2. \A j \in 1..k : steps'[i][j] \in Result
      BY <1>2, <1>6, <1>7, <2>1, ProgramFacts DEF Keys
    <3> QED
      BY <1>2, <3>1, <3>2, ProgramFacts DEF TaskKnows, Keys
  <2>2. CASE e \in {"Suspended", "Failed"}
    <3>1. /\ tasks'[t].phase = IF e = "Suspended" THEN "susp" ELSE "err"
          /\ Inst(t)' = i /\ Pc(t)' = k
      BY <1>3, <1>4, <2>2 DEF Goto, Inst, Pc, ExclusiveInv, TypeInv, TypeOK
    <3> QED
      BY <1>6, <1>7, <2>2, <3>1 DEF TaskKnows, EntryAt
  <2> QED
    BY <1>4, <2>1, <2>2 DEF Entry
<1>9. \A u \in Task : Active(u)' => TaskKnows(u)'
  BY <1>1, <1>6, <1>8, OthersKnow
<1> QED
  BY <1>6, <1>9 DEF JournalInv

\* The output, and the metadata that a task leaves when it ends.
LEMMA JournalEnd ==
  ASSUME ExclusiveInv, JournalInv, NEW t \in Task,
         WriteOutput(t) \/ HandleWorkflowResult(t)
  PROVE  JournalInv'
<1> DEFINE i == Inst(t)  k == Pc(t)
<1>0. /\ tasks \in [Task -> TaskState]
      /\ meta \in [Instance -> Metadata]
  BY DEF ExclusiveInv, TypeInv, TypeOK
<1>1. /\ Active(t) /\ UNCHANGED steps /\ output \subseteq output'
      /\ \A u \in Task : u # t => tasks'[u] = tasks[u]
  BY <1>0 DEF WriteOutput, HandleWorkflowResult, Active, Goto
<1>2. i \in Instance /\ k \in 1..(N + 1) /\ TaskKnows(t)
  BY <1>1, Holder DEF JournalInv
<1>3. PrefixJournal' /\ EntriesFit'
  BY <1>1 DEF JournalInv, PrefixJournal, EntriesFit
<1>4. CASE WriteOutput(t)
  <2>1. MetadataAgrees'
    BY <1>1, <1>4 DEF WriteOutput, JournalInv, MetadataAgrees
  <2>2. /\ tasks'[t].phase = "ok" /\ Inst(t)' = i /\ Pc(t)' = k /\ k = N + 1
        /\ output' = output \cup {i}
    BY <1>0, <1>1, <1>4
       DEF WriteOutput, Goto, Inst, Pc, TaskState, Active, Free
  <2>3. TaskKnows(t)'
    BY <1>1, <1>2, <2>2 DEF TaskKnows
  <2> QED
    BY <1>1, <1>3, <2>1, <2>3, OthersKnow DEF JournalInv
<1>5. CASE HandleWorkflowResult(t)
  <2>1. ~Active(t)' /\ output' = output
    BY <1>0, <1>5 DEF HandleWorkflowResult, Active, Free
  <2>2. meta' = [meta EXCEPT ![i] = ResultMetadata(t)]
    BY <1>5 DEF HandleWorkflowResult, Inst
  <2>3. \A j \in Keys : ResultMetadata(t) = SuspendedAt(j) =>
                           steps[i][j] = "Suspended"
    BY <1>2, <1>5
       DEF HandleWorkflowResult, ResultMetadata, SuspendedAt, Status,
           TaskKnows, EntryAt
  <2>4. ResultMetadata(t).status = "Completed" =>
          i \in output /\ \A j \in Keys : steps[i][j] \in Result
    BY <1>2, <1>5, ProgramFacts
       DEF HandleWorkflowResult, ResultMetadata, SuspendedAt, Status,
           TaskKnows, Keys
  <2>5. MetadataAgrees'
    BY <1>0, <1>1, <1>2, <2>1, <2>2, <2>3, <2>4
       DEF JournalInv, MetadataAgrees, SuspendedAt
  <2> QED
    BY <1>1, <1>3, <2>1, <2>5, OthersKnow DEF JournalInv
<1> QED
  BY <1>4, <1>5

LEMMA JournalTask ==
  ASSUME ExclusiveInv, JournalInv, NEW t \in Task, TaskStep(t) \/ DropTask(t)
  PROVE  JournalInv'
<1>1. Suspend(t) =>
        \/ AtOperation(t, "suspend") /\ ReadSuspension(t)
        \/ tasks[t].phase = "miss" /\ Suspend(t)
  BY DEF Suspend
<1>2. Timer(t) =>
        \/ AtOperation(t, "timer") /\ ReadSuspension(t)
        \/ tasks[t].phase = "miss" /\ Timer(t)
  BY DEF Timer
<1> QED
  BY <1>1, <1>2, JournalRead, JournalWrite, JournalEnd DEF TaskStep

\* A claim finds the one suspension of the journal and nobody at work.
LEMMA ClaimFacts ==
  ASSUME ExclusiveInv, NEW i \in Instance, NEW k \in Keys, NEW e \in Result,
         Claim(i, k, e)
  PROVE  /\ steps[i][k] = "Suspended" /\ meta[i].status = "Suspended"
         /\ steps'[i][k] = e
         /\ \A j \in Keys : j # k => steps'[i][j] = steps[i][j]
         /\ \A n \in Instance : n # i => steps'[n] = steps[n]
         /\ meta'[i].status = "Running"
         /\ \A n \in Instance : n # i => meta'[n] = meta[n]
         /\ \A t \in Task : Inst(t) # i
<1>1. steps[i][k] = "Suspended" /\ meta[i].status = "Suspended"
  BY DEF Claim, ClaimResult
<1>2. /\ ~Busy(i) /\ meta'[i].status = "Running"
      /\ \A n \in Instance : n # i => meta'[n] = meta[n]
  BY ClaimFindsFree DEF ExclusiveInv
<1> QED
  BY <1>1, <1>2 DEF Claim, Busy, Inst, ExclusiveInv, TypeInv, TypeOK

LEMMA JournalClaim ==
  ASSUME ExclusiveInv, JournalInv, NEW i \in Instance, NEW k \in Keys,
         NEW e \in Result, Claim(i, k, e), UNCHANGED <<tasks, output>>
  PROVE  JournalInv'
<1>1. /\ steps[i][k] = "Suspended" /\ meta[i].status = "Suspended"
      /\ steps'[i][k] = e
      /\ \A j \in Keys : j # k => steps'[i][j] = steps[i][j]
      /\ \A n \in Instance : n # i => steps'[n] = steps[n]
      /\ meta'[i].status = "Running"
      /\ \A n \in Instance : n # i => meta'[n] = meta[n]
      /\ \A t \in Task : Inst(t) # i
  BY ClaimFacts
<1>2. PrefixJournal'
  <2> SUFFICES ASSUME NEW n \in Instance, NEW h \in Keys,
                      steps'[n][h] # "absent", NEW j \in 1..(h - 1)
               PROVE  steps'[n][j] \in Result
    BY DEF PrefixJournal
  <2>1. steps[n][h] # "absent" /\ j \in Keys
    BY <1>1, ProgramFacts DEF Keys
  <2>2. steps[n][j] \in Result
    BY <2>1 DEF JournalInv, PrefixJournal
  <2> QED
    BY <1>1, <2>1, <2>2
<1>3. MetadataAgrees'
  BY <1>1 DEF JournalInv, MetadataAgrees, SuspendedAt
<1>4. EntriesFit'
  BY <1>1, Markers DEF JournalInv, EntriesFit
<1>5. ASSUME NEW t \in Task, Active(t)' PROVE TaskKnows(t)'
  <2>1. Active(t) /\ TaskKnows(t) /\ Inst(t)' = Inst(t) /\ Pc(t)' = Pc(t)
    BY <1>5 DEF JournalInv, Active, Inst, Pc
  <2>2. steps'[Inst(t)] = steps[Inst(t)]
    BY <1>1, <2>1, Holder
  <2> QED
    BY <2>1, <2>2 DEF TaskKnows, EntryAt
<1> QED
  BY <1>2, <1>3, <1>4, <1>5 DEF JournalInv

\* A new task knows nothing yet.
LEMMA JournalSpawn ==
  ASSUME ExclusiveInv, JournalInv, NEW i \in Instance, SpawnTask(i),
         UNCHANGED <<steps, output>>,
         \A n \in Instance : meta'[n] = meta[n] \/ meta'[n].status = "Running"
  PROVE  JournalInv'
<1>1. PICK t \in Task :
        tasks' = [tasks EXCEPT ![t] = [phase |-> "run", inst |-> i, pc |-> 1]]
  BY DEF SpawnTask
<1>2. PrefixJournal' /\ EntriesFit'
  BY DEF JournalInv, PrefixJournal, EntriesFit
<1>3. MetadataAgrees'
  BY DEF JournalInv, MetadataAgrees, SuspendedAt
<1>4. ASSUME NEW u \in Task, Active(u)' PROVE TaskKnows(u)'
  BY <1>1, <1>4
     DEF JournalInv, TaskKnows, Active, Inst, Pc, EntryAt, ExclusiveInv,
         TypeInv, TypeOK
<1> QED
  BY <1>2, <1>3, <1>4 DEF JournalInv

\* What leaves the database alone and spawns nothing.
LEMMA JournalIdle ==
  ASSUME JournalInv, UNCHANGED <<meta, steps, output>>,
         \A t \in Task : Active(t)' => tasks'[t] = tasks[t]
  PROVE  JournalInv'
<1>1. ASSUME NEW t \in Task, Active(t)' PROVE TaskKnows(t)'
  BY <1>1 DEF JournalInv, TaskKnows, Active, Inst, Pc, EntryAt
<1> QED
  BY <1>1 DEF JournalInv, PrefixJournal, MetadataAgrees, EntriesFit

LEMMA JournalNext ==
  ASSUME ExclusiveInv, JournalInv, [Next]_vars
  PROVE  JournalInv'
<1> USE DEF db, lifecycle
<1>1. CASE \E i \in Instance : Invoke(i) \/ Resume(i) \/ StartSpawn(i)
  <2> PICK i \in Instance : Invoke(i) \/ Resume(i) \/ StartSpawn(i)
    BY <1>1
  <2>1. /\ SpawnTask(i) /\ UNCHANGED <<steps, output>>
        /\ meta' = [meta EXCEPT ![i] = Status("Running")]
    BY DEF Invoke, Resume, StartSpawn, SpawnWorkflow
  <2>2. \A n \in Instance : meta'[n] = meta[n] \/ meta'[n].status = "Running"
    BY <2>1 DEF Status, ExclusiveInv, TypeInv, TypeOK
  <2> QED
    BY <2>1, <2>2, JournalSpawn
<1>2. CASE \E t \in Task : TaskStep(t) \/ DropTask(t)
  BY <1>2, JournalTask
<1>3. CASE \E s \in Signaller, i \in Instance, k \in Keys : SignalClaim(s, i, k)
  BY <1>3, JournalClaim, Markers DEF SignalClaim
<1>4. CASE \E s \in Signaller : SignalSpawn(s)
  BY <1>4, JournalSpawn DEF SignalSpawn, ExclusiveInv, TypeInv, TypeOK
<1>5. CASE PollClaim
  <2>1. poller.row \in Row
    BY <1>5 DEF PollClaim, ExclusiveInv, TypeInv, PollerOK
  <2>2. CASE Claim(poller.row.inst, poller.row.key, "fired")
    BY <1>5, <2>1, <2>2, JournalClaim, Markers DEF PollClaim, Row
  <2> QED
    BY <1>5, <2>2, JournalIdle DEF PollClaim
<1>6. CASE PollSpawn
  <2>1. poller.row \in Row
    BY <1>6 DEF PollSpawn, ExclusiveInv, TypeInv, PollerOK
  <2> QED
    BY <1>6, <2>1, JournalSpawn DEF PollSpawn, Row
<1>7. CASE Crash
  BY <1>7, JournalIdle DEF Crash, Active, Free
<1>8. CASE UNCHANGED <<meta, steps, output, tasks>>
  BY <1>8, JournalIdle
<1> QED
  BY <1>1, <1>2, <1>3, <1>4, <1>5, <1>6, <1>7, <1>8
     DEF Next, vars, PollStep, StartStep, SignalAbandon, Expire, PollCollect,
         PollRemove, PollLoop, PollError, PollAbort, Start, StartList,
         StartSkip, StartDone, Stop, WaitAll, Shutdown, StopTimeout, Drained

FullInv == ExclusiveInv /\ JournalInv

LEMMA FullAlways == ASSUME Exclusive PROVE Spec => []FullInv
<1>1. FullInv /\ [Next]_vars => FullInv'
  BY ExclusiveNext, JournalNext DEF FullInv
<1>2. Init => FullInv
  BY ExclusiveInit, JournalInit DEF FullInv
<1> QED
  BY <1>1, <1>2, PTL DEF Spec

-----------------------------------------------------------------------------
\* A replay reaches the frontier of the program without running a closure:
\* the journal of every instance is a prefix of its program.
THEOREM PrefixJournalCorrect ==
  ASSUME Exclusive PROVE Spec => []PrefixJournal
<1>1. FullInv => PrefixJournal
  BY DEF FullInv, JournalInv
<1> QED
  BY <1>1, FullAlways, PTL

\* What get_metadata reports is in the journal: the suspension that a signal
\* can claim, or all results and the output.
THEOREM MetadataAgreesCorrect ==
  ASSUME Exclusive PROVE Spec => []MetadataAgrees
<1>1. FullInv => MetadataAgrees
  BY DEF FullInv, JournalInv
<1> QED
  BY <1>1, FullAlways, PTL

-----------------------------------------------------------------------------
(* Which steps write to the journal, and what.                             *)

\* A step of the engine leaves the journal alone, or a task writes where it is
\* at work, or a claim answers a suspension.
Writes(i, k) ==
  \/ \E t \in Task :
       /\ Active(t) /\ Inst(t) = i /\ Pc(t) = k
       /\ tasks[t].phase \in {"exec", "miss"}
       /\ UNCHANGED meta
       /\ \E e \in Entry : /\ WriteStep(t, e)
                           /\ e \in Result => Program[k] = "step"
  \/ \E e \in Result : Claim(i, k, e)

LEMMA WhoWrites ==
  ASSUME FullInv, Next, ~UNCHANGED steps
  PROVE  \E i \in Instance, k \in Keys : Writes(i, k)
<1> USE DEF db, lifecycle
<1>1. CASE \E t \in Task : StepOk(t) \/ StepDeadLetter(t) \/ Suspend(t) \/ Timer(t)
  <2> PICK t \in Task : StepOk(t) \/ StepDeadLetter(t) \/ Suspend(t) \/ Timer(t)
    BY <1>1
  <2>1. Active(t) /\ tasks[t].phase \in {"exec", "miss"} /\ UNCHANGED meta
    BY DEF StepOk, StepDeadLetter, Suspend, Timer, ReadSuspension, Active
  <2>2. Inst(t) \in Instance /\ Pc(t) \in Keys /\ TaskKnows(t)
    BY <2>1, Holder DEF FullInv, JournalInv
  <2>3. \E e \in Entry : /\ WriteStep(t, e)
                         /\ e \in Result => Program[Pc(t)] = "step"
    BY <2>1, <2>2, Markers
       DEF StepOk, StepDeadLetter, Suspend, Timer, ReadSuspension, Entry,
           TaskKnows
  <2> QED
    BY <2>1, <2>2, <2>3 DEF Writes
<1>2. CASE \E s \in Signaller, i \in Instance, k \in Keys : SignalClaim(s, i, k)
  BY <1>2, Markers DEF SignalClaim, Writes
<1>3. CASE PollClaim
  <2>1. poller.row \in Row
    BY <1>3 DEF PollClaim, FullInv, ExclusiveInv, TypeInv, PollerOK
  <2>2. Claim(poller.row.inst, poller.row.key, "fired")
    BY <1>3 DEF PollClaim
  <2> QED
    BY <2>1, <2>2, Markers DEF Writes, Row
<1> QED
  BY <1>1, <1>2, <1>3
     DEF Next, TaskStep, StepRun, StepTimeout, WriteOutput, WorkflowError,
         HandleWorkflowResult, DropTask, PollStep, StartStep, Invoke, Resume,
         SpawnWorkflow, SignalSpawn, SignalAbandon, Expire, PollCollect,
         PollRemove, PollSpawn, PollLoop, PollError, PollAbort, Start,
         StartList, StartSpawn, StartSkip, StartDone, Stop, WaitAll, Shutdown,
         StopTimeout, Drained, Crash

\* A write is where there is no result and every operation before has one, and
\* it changes nothing else.
LEMMA WriteFacts ==
  ASSUME FullInv, NEW i \in Instance, NEW k \in Keys, Writes(i, k)
  PROVE  /\ steps[i][k] \notin Result
         /\ \A j \in 1..(k - 1) : j \in Keys /\ steps[i][j] \in Result
         /\ \A n \in Instance, j \in Keys :
              n # i \/ j # k => steps'[n][j] = steps[n][j]
<1>1. CASE \E t \in Task :
             /\ Active(t) /\ Inst(t) = i /\ Pc(t) = k
             /\ tasks[t].phase \in {"exec", "miss"}
             /\ \E e \in Entry : WriteStep(t, e)
  BY <1>1, Markers, ProgramFacts
     DEF FullInv, JournalInv, TaskKnows, EntryAt, WriteStep, ExclusiveInv,
         TypeInv, TypeOK, Keys
<1>2. CASE \E e \in Result : Claim(i, k, e)
  <2>1. /\ steps[i][k] = "Suspended"
        /\ \A j \in Keys : j # k => steps'[i][j] = steps[i][j]
        /\ \A n \in Instance : n # i => steps'[n] = steps[n]
    BY <1>2, ClaimFacts DEF FullInv
  <2>2. \A j \in 1..(k - 1) : j \in Keys /\ steps[i][j] \in Result
    BY <2>1, ProgramFacts DEF FullInv, JournalInv, PrefixJournal, Keys
  <2> QED
    BY <2>1, <2>2, Markers
<1> QED
  BY <1>1, <1>2 DEF Writes

\* No run of the workflow, signal, timer or restart replaces a memoised result.
THEOREM MemoStableCorrect == ASSUME Exclusive PROVE Spec => MemoStable
<1>1. FullInv /\ [Next]_vars =>
        [\A i \in Instance, k \in Keys :
           steps[i][k] \in Result => steps'[i][k] = steps[i][k]]_vars
  BY WhoWrites, WriteFacts DEF vars
<1> QED
  BY <1>1, FullAlways, PTL DEF Spec, MemoStable

-----------------------------------------------------------------------------
(* The engine implements the durable workflow.                             *)

LEMMA StatusWrite ==
  ASSUME FullInv, NEW i \in Instance, NEW m,
         meta' = [meta EXCEPT ![i] = m]
  PROVE  StatusOf' = [StatusOf EXCEPT ![i] = m.status]
BY DEF StatusOf, FullInv, ExclusiveInv, TypeInv, TypeOK

LEMMA MemoWrite ==
  ASSUME FullInv, NEW i \in Instance, NEW k \in Keys, NEW e \in Result,
         steps' = [steps EXCEPT ![i][k] = e]
  PROVE  MemoOf' = [MemoOf EXCEPT ![i][k] = e]
<1>1. steps'[i][k] = e
  BY DEF FullInv, ExclusiveInv, TypeInv, TypeOK
<1>2. \A n \in Instance, j \in Keys :
        n # i \/ j # k => steps'[n][j] = steps[n][j]
  BY DEF FullInv, ExclusiveInv, TypeInv, TypeOK
<1>3. MemoOf'[i] = [MemoOf[i] EXCEPT ![k] = e]
  <2>1. /\ MemoOf[i] = [j \in Keys |-> MemoOf[i][j]]
        /\ MemoOf'[i] = [j \in Keys |-> MemoOf'[i][j]]
    BY DEF MemoOf
  <2>2. MemoOf'[i][k] = e
    BY <1>1 DEF MemoOf
  <2>3. \A j \in Keys : j # k => MemoOf'[i][j] = MemoOf[i][j]
    BY <1>2 DEF MemoOf
  <2> QED
    BY <2>1, <2>2, <2>3
<1>4. \A n \in Instance : n # i => MemoOf'[n] = MemoOf[n]
  BY <1>2 DEF MemoOf
<1> QED
  BY <1>3, <1>4 DEF MemoOf

\* A marker over a marker memoises nothing.
LEMMA MemoMarker ==
  ASSUME FullInv, NEW i \in Instance, NEW k \in Keys, NEW e, e \notin Result,
         steps[i][k] \notin Result, steps' = [steps EXCEPT ![i][k] = e]
  PROVE  UNCHANGED MemoOf
<1>1. steps'[i][k] = e
  BY DEF FullInv, ExclusiveInv, TypeInv, TypeOK
<1>2. \A n \in Instance, j \in Keys :
        n # i \/ j # k => steps'[n][j] = steps[n][j]
  BY DEF FullInv, ExclusiveInv, TypeInv, TypeOK
<1>3. \A n \in Instance : MemoOf'[n] = MemoOf[n]
  BY <1>1, <1>2 DEF MemoOf
<1> QED
  BY <1>3 DEF MemoOf

LEMMA Memo ==
  \A i \in Instance, k \in Keys :
    /\ Durable!Memoised(i, k) <=> steps[i][k] \in Result
    /\ MemoOf[i][k] = IF steps[i][k] \in Result THEN steps[i][k] ELSE "absent"
BY Markers DEF Durable!Memoised, MemoOf

\* The operation that a task is at is the frontier of its instance.
LEMMA TaskFrontier ==
  ASSUME FullInv, NEW t \in Task, Active(t), Pc(t) \in Keys,
         EntryAt(t) \notin Result
  PROVE  Durable!Frontier(Inst(t), Pc(t))
<1>1. Inst(t) \in Instance /\ TaskKnows(t)
  BY Holder DEF FullInv, JournalInv
<1>2. \A j \in 1..(Pc(t) - 1) : j \in Keys
  BY ProgramFacts DEF Keys
<1> QED
  BY <1>1, <1>2, Memo DEF Durable!Frontier, TaskKnows, EntryAt

\* A suspended operation is the frontier of its instance.
LEMMA ClaimFrontier ==
  ASSUME FullInv, NEW i \in Instance, NEW k \in Keys,
         steps[i][k] = "Suspended"
  PROVE  Durable!Frontier(i, k)
<1>1. \A j \in 1..(k - 1) : j \in Keys /\ steps[i][j] \in Result
  BY ProgramFacts DEF FullInv, JournalInv, PrefixJournal, Keys
<1> QED
  BY <1>1, Memo, Markers DEF Durable!Frontier

LEMMA RunIsRun ==
  ASSUME FullInv, NEW i \in Instance, UNCHANGED steps,
         meta' = [meta EXCEPT ![i] = Status("Running")]
  PROVE  Durable!DurableNext
<1>1. Status("Running").status = "Running"
  BY DEF Status
<1>2. StatusOf' = [StatusOf EXCEPT ![i] = Status("Running").status]
  BY StatusWrite
<1> QED
  BY <1>1, <1>2 DEF Durable!DurableNext, Durable!Run, MemoOf

LEMMA StepOkIsStep ==
  ASSUME FullInv, NEW t \in Task, StepOk(t) PROVE Durable!DurableNext
<1>1. Active(t) /\ UNCHANGED meta
  BY DEF StepOk, Active
<1>2. /\ Inst(t) \in Instance /\ Pc(t) \in Keys /\ TaskKnows(t)
      /\ meta[Inst(t)].status = "Running"
  BY <1>1, Holder DEF FullInv, JournalInv, StepOk
<1>3. EntryAt(t) \notin Result /\ Program[Pc(t)] = "step"
  BY <1>2, Markers DEF StepOk, TaskKnows
<1>4. Durable!Frontier(Inst(t), Pc(t))
  BY <1>1, <1>2, <1>3, TaskFrontier
<1>5. PICK e \in Result : steps' = [steps EXCEPT ![Inst(t)][Pc(t)] = e]
  BY Markers DEF StepOk, WriteStep
<1>6. MemoOf' = [MemoOf EXCEPT ![Inst(t)][Pc(t)] = e]
  BY <1>2, <1>5, MemoWrite
<1> QED
  BY <1>1, <1>2, <1>3, <1>4, <1>6
     DEF Durable!DurableNext, Durable!Step, Durable!Memoise, StatusOf,
         Durable!Keys, Keys, N

\* A dead letter, a suspension and a timer are markers of the journal.
LEMMA MarkerIsStutter ==
  ASSUME FullInv, NEW t \in Task,
         \/ StepDeadLetter(t)
         \/ tasks[t].phase = "miss" /\ (Suspend(t) \/ Timer(t))
  PROVE  UNCHANGED <<StatusOf, MemoOf>>
<1>1. /\ Active(t) /\ UNCHANGED meta
      /\ \E e \in {"Suspended", "Failed"} : WriteStep(t, e)
  BY DEF StepDeadLetter, Suspend, Timer, AtOperation, Active
<1>2. Inst(t) \in Instance /\ Pc(t) \in Keys /\ TaskKnows(t)
  BY <1>1, Holder
     DEF FullInv, JournalInv, StepDeadLetter, Suspend, Timer, AtOperation
<1>3. steps[Inst(t)][Pc(t)] \notin Result
  BY <1>2, Markers
     DEF StepDeadLetter, Suspend, Timer, AtOperation, TaskKnows, EntryAt
<1>4. UNCHANGED MemoOf
  BY <1>1, <1>2, <1>3, MemoMarker, Markers DEF WriteStep
<1> QED
  BY <1>1, <1>4 DEF StatusOf

\* The end of a task is the end of the run.
LEMMA EndIsEnd ==
  ASSUME FullInv, NEW t \in Task, HandleWorkflowResult(t)
  PROVE  Durable!DurableNext
<1> DEFINE i == Inst(t)  k == Pc(t)
<1>1. Active(t) /\ UNCHANGED MemoOf
  BY DEF HandleWorkflowResult, Active, MemoOf
<1>2. i \in Instance /\ TaskKnows(t) /\ meta[i].status = "Running"
  BY <1>1, Holder DEF FullInv, JournalInv
<1>3. StatusOf' = [StatusOf EXCEPT ![i] = ResultMetadata(t).status]
  BY <1>2, StatusWrite DEF HandleWorkflowResult
<1>4. StatusOf[i] = "Running"
  BY <1>2 DEF StatusOf
<1>5. CASE tasks[t].phase = "ok"
  <2>1. \A j \in Keys : Durable!Memoised(i, j)
    BY <1>2, <1>5, Memo, ProgramFacts DEF TaskKnows, Keys
  <2> QED
    BY <1>1, <1>2, <1>3, <1>4, <1>5, <2>1
       DEF Durable!DurableNext, Durable!Complete, ResultMetadata, Status,
           Durable!Keys, Keys, N
<1>6. CASE tasks[t].phase = "err"
  BY <1>1, <1>2, <1>3, <1>4, <1>6
     DEF Durable!DurableNext, Durable!Fail, ResultMetadata, Status
<1>7. CASE tasks[t].phase = "susp"
  <2>1. k \in Keys
    BY <1>1, <1>7, Holder DEF FullInv
  <2>2. EntryAt(t) = "Suspended" /\ Program[k] # "step"
    BY <1>2, <1>7, <2>1 DEF TaskKnows, EntryAt, FullInv, JournalInv, EntriesFit
  <2>3. Durable!Frontier(i, k)
    BY <1>1, <2>1, <2>2, Markers, TaskFrontier
  <2> QED
    BY <1>1, <1>2, <1>3, <1>4, <1>7, <2>1, <2>2, <2>3
       DEF Durable!DurableNext, Durable!Wait, ResultMetadata, SuspendedAt,
           Durable!Keys, Keys, N
<1> QED
  BY <1>5, <1>6, <1>7 DEF HandleWorkflowResult

LEMMA ClaimIsDeliver ==
  ASSUME FullInv, NEW i \in Instance, NEW k \in Keys, NEW e \in Result,
         Claim(i, k, e)
  PROVE  Durable!DurableNext
<1>1. /\ steps[i][k] = "Suspended" /\ meta[i].status = "Suspended"
  BY ClaimFacts DEF FullInv
<1>2. Program[k] # "step" /\ Durable!Frontier(i, k)
  BY <1>1, ClaimFrontier DEF FullInv, JournalInv, EntriesFit
<1>3. MemoOf' = [MemoOf EXCEPT ![i][k] = e]
  BY MemoWrite DEF Claim
<1>4. StatusOf' = [StatusOf EXCEPT ![i] = "Running"]
  <2>1. Status("Running").status = "Running"
    BY DEF Status
  <2>2. StatusOf' = [StatusOf EXCEPT ![i] = Status("Running").status]
    BY StatusWrite DEF Claim
  <2> QED
    BY <2>1, <2>2
<1>5. StatusOf[i] = "Suspended"
  BY <1>1 DEF StatusOf
<1> QED
  BY <1>2, <1>3, <1>4, <1>5
     DEF Durable!DurableNext, Durable!Deliver, Durable!Memoise, Durable!Keys,
         Keys, N

\* A step of the engine is a step of the durable workflow or none of it.
LEMMA RefinementNext ==
  ASSUME FullInv, [Next]_vars
  PROVE  Durable!DurableNext \/ UNCHANGED <<StatusOf, MemoOf>>
<1> USE DEF db, lifecycle
<1>1. CASE UNCHANGED <<meta, steps>>
  BY <1>1 DEF StatusOf, MemoOf
<1>2. CASE \E i \in Instance : Invoke(i) \/ Resume(i) \/ StartSpawn(i)
  BY <1>2, RunIsRun DEF Invoke, Resume, StartSpawn, SpawnWorkflow
<1>3. CASE \E t \in Task : StepOk(t)
  BY <1>3, StepOkIsStep
<1>4. CASE \E t \in Task : StepDeadLetter(t)
  <2> PICK t \in Task : StepDeadLetter(t)
    BY <1>4
  <2> QED
    BY MarkerIsStutter
<1>5. CASE \E t \in Task : Suspend(t) \/ Timer(t)
  <2> PICK t \in Task : Suspend(t) \/ Timer(t)
    BY <1>5
  <2>1. UNCHANGED <<meta, steps>> \/ tasks[t].phase = "miss"
    BY DEF Suspend, Timer, ReadSuspension
  <2> QED
    BY <1>1, <2>1, MarkerIsStutter
<1>6. CASE \E t \in Task : HandleWorkflowResult(t)
  BY <1>6, EndIsEnd
<1>7. CASE \E s \in Signaller, i \in Instance, k \in Keys : SignalClaim(s, i, k)
  BY <1>7, ClaimIsDeliver, Markers DEF SignalClaim
<1>8. CASE PollClaim
  <2>1. poller.row \in Row
    BY <1>8 DEF PollClaim, FullInv, ExclusiveInv, TypeInv, PollerOK
  <2>2. Claim(poller.row.inst, poller.row.key, "fired") \/ UNCHANGED <<meta, steps>>
    BY <1>8 DEF PollClaim
  <2> QED
    BY <1>1, <2>1, <2>2, ClaimIsDeliver, Markers DEF Row
<1> QED
  BY <1>1, <1>2, <1>3, <1>4, <1>5, <1>6, <1>7, <1>8
     DEF Next, vars, TaskStep, StepRun, StepTimeout, WriteOutput,
         WorkflowError, DropTask, PollStep, StartStep, SignalSpawn,
         SignalAbandon, Expire, PollCollect, PollRemove, PollSpawn, PollLoop,
         PollError, PollAbort, Start, StartList, StartSkip, StartDone, Stop,
         WaitAll, Shutdown, StopTimeout, Drained, Crash

LEMMA RefinementInit == Init => Durable!DurableInit
BY Markers
   DEF Init, Durable!DurableInit, StatusOf, MemoOf, Status, Durable!Keys, Keys, N

\* Tasks, signals, timers, shutdowns, crashes and restarts, however they
\* interleave, are a run of the abstract workflow.
THEOREM RefinementCorrect == ASSUME Exclusive PROVE Spec => ImplementsDurable
<1>1. FullInv /\ [Next]_vars => [Durable!DurableNext]_<<StatusOf, MemoOf>>
  BY RefinementNext
<1> QED
  BY <1>1, RefinementInit, FullAlways, PTL
     DEF Spec, ImplementsDurable, Durable!DurableSpec

-----------------------------------------------------------------------------
(* The steps of a workflow are atomic.                                     *)

\* The task t is inside the closure of step k of instance i.
Inside(t, i, k) == tasks[t].phase = "exec" /\ Inst(t) = i /\ Pc(t) = k

LEMMA ExecutingTruth ==
  ASSUME NEW i, NEW k
  PROVE  Executing(i, k) \in BOOLEAN /\ Executing(i, k)' \in BOOLEAN
BY DEF Executing

\* Only a task that moves can begin or end an execution.
LEMMA MoveExecutes ==
  ASSUME FullInv, NEW t \in Task, Active(t),
         \A u \in Task : u # t => tasks'[u] = tasks[u],
         NEW i \in Instance, NEW k \in Keys
  PROVE  /\ ~Inside(t, i, k) /\ ~Inside(t, i, k)' => UNCHANGED Executing(i, k)
         /\ ~Inside(t, i, k) /\ Inside(t, i, k)' =>
              Executing(i, k)' /\ (Inst(t) = i => ~Executing(i, k))
         /\ Inside(t, i, k) /\ ~Inside(t, i, k)' =>
              Executing(i, k) /\ ~Executing(i, k)'
<1>1. \A u \in Task : u # t => Inst(u) # Inst(t) /\ Inst(u)' = Inst(u)
                                 /\ (Inside(u, i, k)' <=> Inside(u, i, k))
  BY Holder DEF FullInv, Inst, Pc, Inside
<1>2. Executing(i, k) <=> \E u \in Task : Inside(u, i, k)
  BY DEF Executing, Inside
<1>3. Executing(i, k)' <=> \E u \in Task : Inside(u, i, k)'
  BY DEF Executing, Inside
<1>4. \A u \in Task : Inside(u, i, k) => Inst(u) = i
  BY DEF Inside
<1>5. Executing(i, k) \in BOOLEAN /\ Executing(i, k)' \in BOOLEAN
  BY ExecutingTruth
<1>6. CASE Inside(t, i, k)
  BY <1>1, <1>2, <1>3, <1>4, <1>6
<1>7. CASE ~Inside(t, i, k) /\ Inside(t, i, k)'
  BY <1>1, <1>2, <1>3, <1>4, <1>7
<1>8. CASE ~Inside(t, i, k) /\ ~Inside(t, i, k)'
  <2>1. Executing(i, k) <=> Executing(i, k)'
    BY <1>1, <1>2, <1>3, <1>8
  <2> QED
    BY <1>5, <1>8, <2>1
<1> QED
  BY <1>6, <1>7, <1>8

\* What a task does to a step is an action of AtomicStep, or nothing: it comes
\* to the step without a result, it ends its execution, or it is elsewhere.
LEMMA TaskIsAtomic ==
  ASSUME FullInv, NEW t \in Task, TaskStep(t) \/ DropTask(t),
         NEW i \in Instance, NEW k \in Keys, Program[k] = "step"
  PROVE  StepAction(i, k)
<1> USE DEF db, lifecycle
<1>0. tasks \in [Task -> TaskState] /\ steps \in [Instance -> [Keys -> Entry]]
  BY DEF FullInv, ExclusiveInv, TypeInv, TypeOK
<1>1. Active(t)
  BY DEF TaskStep, DropTask, StepRun, StepOk, StepDeadLetter, StepTimeout,
         Suspend, Timer, WriteOutput, WorkflowError, HandleWorkflowResult,
         AtOperation, Active
<1>2. \A u \in Task : u # t => tasks'[u] = tasks[u]
  BY <1>0
     DEF TaskStep, DropTask, StepRun, StepOk, StepDeadLetter, StepTimeout,
         Suspend, Timer, WriteOutput, WorkflowError, HandleWorkflowResult,
         ReadSuspension, Goto, NextOperation
<1>3. /\ Inst(t) \in Instance /\ TaskKnows(t)
      /\ tasks[t] \in [phase : TaskPhase, inst : Instance, pc : 1..(N + 1)]
  BY <1>0, <1>1, Holder DEF FullInv, JournalInv, TaskState, Free, Active
<1>4. CASE StepRun(t)
  <2>1. ~Inside(t, i, k) /\ UNCHANGED steps
    BY <1>4 DEF StepRun, AtOperation, Inside
  <2>2. CASE ~Inside(t, i, k)'
    BY <1>1, <1>2, <2>1, <2>2, MoveExecutes DEF StepAction
  <2>3. CASE Inside(t, i, k)'
    <3>1. Inst(t) = i /\ EntryAt(t) \in {"absent", "Failed"} /\ Pc(t) = k
      BY <1>0, <1>3, <1>4, <2>3
         DEF StepRun, AtOperation, NextOperation, Goto, Inside, Inst, Pc
    <3>2. ~Executing(i, k) /\ Executing(i, k)'
      BY <1>1, <1>2, <2>1, <2>3, <3>1, MoveExecutes
    <3> QED
      BY <2>1, <3>1, <3>2
         DEF StepAction, AtomicOf!AtomicNext, AtomicOf!StepRun, EntryAt
  <2> QED
    BY <2>2, <2>3
<1>5. CASE StepOk(t) \/ StepDeadLetter(t) \/ StepTimeout(t) \/ DropTask(t)
  <2>1. ~Inside(t, i, k)'
    BY <1>0, <1>3, <1>5
       DEF StepOk, StepDeadLetter, StepTimeout, DropTask, NextOperation, Goto,
           Inside, Free
  <2>2. CASE ~Inside(t, i, k)
    <3>1. steps'[i][k] = steps[i][k]
      BY <1>0, <1>3, <1>5, <2>2
         DEF StepOk, StepDeadLetter, StepTimeout, DropTask, WriteStep, Inside
    <3> QED
      BY <1>1, <1>2, <2>1, <2>2, <3>1, MoveExecutes DEF StepAction
  <2>3. CASE Inside(t, i, k)
    <3>1. Executing(i, k) /\ ~Executing(i, k)'
      BY <1>1, <1>2, <2>1, <2>3, MoveExecutes
    <3>2. \/ steps'[i][k] \in Value
          \/ steps'[i][k] = "Failed"
          \/ UNCHANGED steps
      BY <1>0, <1>5, <2>3
         DEF StepOk, StepDeadLetter, StepTimeout, DropTask, WriteStep, Inside
    <3> QED
      BY <3>1, <3>2, ExecutingTruth
         DEF StepAction, AtomicOf!AtomicNext, AtomicOf!StepOk,
             AtomicOf!StepDeadLetter, AtomicOf!StepLost
  <2> QED
    BY <2>2, <2>3
<1>6. CASE \/ Suspend(t) \/ Timer(t) \/ WriteOutput(t) \/ WorkflowError(t)
           \/ HandleWorkflowResult(t)
  <2>1. ~Inside(t, i, k) /\ ~Inside(t, i, k)'
    BY <1>0, <1>3, <1>6
       DEF Suspend, Timer, WriteOutput, WorkflowError, HandleWorkflowResult,
           ReadSuspension, AtOperation, NextOperation, Goto, Inside, Free
  <2>2. steps'[i][k] = steps[i][k]
    BY <1>0, <1>3, <1>6
       DEF Suspend, Timer, WriteOutput, WorkflowError, HandleWorkflowResult,
           ReadSuspension, WriteStep
  <2> QED
    BY <1>1, <1>2, <2>1, <2>2, MoveExecutes DEF StepAction
<1> QED
  BY <1>4, <1>5, <1>6 DEF TaskStep

\* A claim answers a suspension, never a step.
LEMMA ClaimSparesSteps ==
  ASSUME FullInv, NEW j \in Instance, NEW h \in Keys, NEW e \in Result,
         Claim(j, h, e),
         NEW i \in Instance, NEW k \in Keys, Program[k] = "step"
  PROVE  steps'[i][k] = steps[i][k]
<1>1. /\ steps[j][h] = "Suspended"
      /\ \A g \in Keys : g # h => steps'[j][g] = steps[j][g]
      /\ \A n \in Instance : n # j => steps'[n] = steps[n]
  BY ClaimFacts DEF FullInv
<1> QED
  BY <1>1 DEF FullInv, JournalInv, EntriesFit

\* A new task is in no closure.
LEMMA SpawnExecutesNothing ==
  ASSUME FullInv, NEW j \in Instance, SpawnTask(j), NEW i, NEW k
  PROVE  UNCHANGED Executing(i, k)
<1>1. PICK t \in Task :
        /\ ~Active(t)
        /\ tasks' = [tasks EXCEPT ![t] = [phase |-> "run", inst |-> j, pc |-> 1]]
  BY DEF SpawnTask
<1>2. tasks[t].phase # "exec" /\ tasks'[t].phase # "exec"
  BY <1>1 DEF Active, FullInv, ExclusiveInv, TypeInv, TypeOK
<1>3. \A u \in Task : u # t => tasks'[u] = tasks[u]
  BY <1>1 DEF FullInv, ExclusiveInv, TypeInv, TypeOK
<1> QED
  BY <1>2, <1>3 DEF Executing, Inst, Pc

LEMMA StepsAtomicNext ==
  ASSUME FullInv, [Next]_vars,
         NEW i \in Instance, NEW k \in Keys, Program[k] = "step"
  PROVE  StepAction(i, k)
<1> USE DEF db, lifecycle
<1>1. CASE UNCHANGED <<steps, tasks>>
  BY <1>1 DEF StepAction, Executing, Inst, Pc
<1>2. CASE \E t \in Task : TaskStep(t) \/ DropTask(t)
  BY <1>2, TaskIsAtomic
<1>3. CASE UNCHANGED steps /\ \E j \in Instance : SpawnTask(j)
  BY <1>3, SpawnExecutesNothing DEF StepAction
<1>4. CASE UNCHANGED tasks /\ \E j \in Instance, h \in Keys, e \in Result :
                                Claim(j, h, e)
  <2>1. UNCHANGED Executing(i, k)
    BY <1>4 DEF Executing, Inst, Pc
  <2> QED
    BY <1>4, <2>1, ClaimSparesSteps DEF StepAction
<1>5. CASE Crash
  <2>1. UNCHANGED steps /\ ~Executing(i, k)'
    BY <1>5 DEF Crash, Executing, Free
  <2> QED
    BY <2>1
       DEF StepAction, AtomicOf!AtomicNext, AtomicOf!StepLost, Executing
<1>6. CASE \E s \in Signaller : SignalSpawn(s)
  <2>1. \A s \in Signaller : signals[s] # "none" => signals[s] \in Instance
    BY DEF FullInv, ExclusiveInv, TypeInv, TypeOK
  <2> QED
    BY <1>3, <1>6, <2>1 DEF SignalSpawn
<1>7. CASE PollClaim \/ PollSpawn
  <2>1. poller.row \in Row
    BY <1>7 DEF PollClaim, PollSpawn, FullInv, ExclusiveInv, TypeInv, PollerOK
  <2> QED
    BY <1>1, <1>3, <1>4, <1>7, <2>1, Markers DEF PollClaim, PollSpawn, Row
<1>8. CASE \E s \in Signaller, j \in Instance, h \in Keys : SignalClaim(s, j, h)
  BY <1>4, <1>8, Markers DEF SignalClaim
<1> QED
  BY <1>1, <1>2, <1>3, <1>5, <1>6, <1>7, <1>8
     DEF Next, vars, Invoke, Resume, StartSpawn, SpawnWorkflow, PollStep,
         StartStep, SignalAbandon, Expire, PollCollect, PollRemove, PollLoop,
         PollError, PollAbort, Start, StartList, StartSkip, StartDone, Stop,
         WaitAll, Shutdown, StopTimeout, Drained

\* Whatever the tasks, signals, timers and restarts of the engine do, each step
\* of a workflow is executed by one task at a time, only while it has no result,
\* and an execution leaves a result, a dead letter or no trace.
THEOREM StepsAreAtomicCorrect ==
  ASSUME Exclusive PROVE Spec => StepsAreAtomic
<1>1. Init => \A i \in Instance, k \in Keys :
                Program[k] = "step" => AtomicOf(i, k)!AtomicInit
  BY DEF Init, AtomicOf!AtomicInit, Executing, Free
<1>2. FullInv /\ [Next]_vars =>
        [\A i \in Instance, k \in Keys :
           Program[k] = "step" => StepAction(i, k)]_vars
  BY StepsAtomicNext
<1> QED
  BY <1>1, <1>2, FullAlways, PTL DEF Spec, StepsAreAtomic

-----------------------------------------------------------------------------
(* No running instance is left alone.                                      *)

\* User code does not panic, the storage does not fail, callers see their
\* signals through, and start() looks for Running instances, as it does unless
\* the builder says otherwise.
Attentive ==
  /\ Exclusive
  /\ ResumeOnStart
  /\ "panic" \notin Allowed /\ "storage" \notin Allowed /\ "cancel" \notin Allowed

\* A spawned task holds its instance, and nobody else lets go.
LEMMA SpawnHolds ==
  ASSUME ExclusiveInv, NEW i \in Instance, SpawnTask(i),
         \A s \in Signaller : signals'[s] = signals[s] \/ signals[s] = i,
         UNCHANGED poller \/ poller.row.inst = i,
         scan \ {i} \subseteq scan'
  PROVE  \A j \in Instance : j = i \/ Busy(j) => Busy(j)'
<1>1. PICK t \in Task :
        /\ ~Active(t)
        /\ tasks' = [tasks EXCEPT ![t] = [phase |-> "run", inst |-> i, pc |-> 1]]
  BY DEF SpawnTask
<1>2. tasks'[t].inst = i /\ tasks[t].inst = "none"
  BY <1>1, SlotInstance DEF ExclusiveInv, TypeInv, TypeOK, Inst
<1>3. \A u \in Task : u # t => tasks'[u] = tasks[u]
  BY <1>1 DEF ExclusiveInv, TypeInv, TypeOK
<1> QED
  BY <1>2, <1>3, InstanceAssumption DEF Busy

\* A task that goes on keeps its instance.
LEMMA TaskHolds ==
  ASSUME ExclusiveInv, NEW t \in Task, Active(t),
         NextOperation(t) \/ \E p \in TaskPhase : Goto(t, p),
         UNCHANGED <<signals, poller, scan>>
  PROVE  \A j \in Instance : Busy(j) => Busy(j)'
<1>1. \A u \in Task : tasks'[u].inst = tasks[u].inst
  <2>1. tasks[t] \in [phase : TaskPhase, inst : Instance, pc : 1..(N + 1)]
    BY DEF ExclusiveInv, TypeInv, TypeOK, TaskState, Free, Active
  <2> QED
    BY <2>1 DEF NextOperation, Goto, ExclusiveInv, TypeInv, TypeOK
<1> QED
  BY <1>1 DEF Busy

\* A task that ends leaves another metadata behind.
LEMMA EndHolds ==
  ASSUME ExclusiveInv, NEW t \in Task, HandleWorkflowResult(t)
  PROVE  \A j \in Instance :
           meta'[j].status = "Running" =>
             meta[j].status = "Running" /\ (Busy(j) => Busy(j)')
<1>1. Active(t) /\ Inst(t) \in Instance
  BY SlotInstance DEF HandleWorkflowResult, Active, ExclusiveInv
<1>2. meta'[Inst(t)].status # "Running"
  BY <1>1
     DEF HandleWorkflowResult, ResultMetadata, Status, SuspendedAt,
         ExclusiveInv, TypeInv, TypeOK
<1>3. \A j \in Instance : j # Inst(t) => meta'[j] = meta[j]
  BY DEF HandleWorkflowResult, ExclusiveInv, TypeInv, TypeOK
<1>4. \A u \in Task : u # t => tasks'[u] = tasks[u]
  BY DEF HandleWorkflowResult, ExclusiveInv, TypeInv, TypeOK
<1> QED
  BY <1>2, <1>3, <1>4 DEF Busy, HandleWorkflowResult, lifecycle, Inst

LEMMA AttendedNext ==
  ASSUME Attentive, ExclusiveInv, NoOrphanRunning, [Next]_vars
  PROVE  NoOrphanRunning'
<1> USE DEF db, lifecycle
<1> DEFINE Serves == running /\ engine \in {"resuming", "up"}
<1>0. SUFFICES ASSUME Serves', NEW j \in Instance, meta'[j].status = "Running"
               PROVE  Busy(j)'
  BY DEF NoOrphanRunning
<1>1. Serves /\ meta[j].status = "Running" => Busy(j)
  BY DEF NoOrphanRunning
<1>2. CASE \E i \in Instance : Invoke(i) \/ Resume(i) \/ StartSpawn(i)
  <2> PICK i \in Instance : Invoke(i) \/ Resume(i) \/ StartSpawn(i)
    BY <1>2
  <2>1. /\ SpawnTask(i) /\ UNCHANGED <<signals, poller, running, engine>>
        /\ scan \ {i} \subseteq scan'
        /\ meta' = [meta EXCEPT ![i] = Status("Running")]
    BY DEF Invoke, Resume, StartSpawn, SpawnWorkflow
  <2>2. j # i => meta[j].status = "Running"
    BY <1>0, <2>1 DEF ExclusiveInv, TypeInv, TypeOK
  <2> QED
    BY <1>0, <1>1, <2>1, <2>2, SpawnHolds
<1>3. CASE \E t \in Task : TaskStep(t) /\ ~HandleWorkflowResult(t)
  <2> PICK t \in Task : TaskStep(t) /\ ~HandleWorkflowResult(t)
    BY <1>3
  <2>1. /\ Active(t) /\ UNCHANGED <<meta, lifecycle, signals, poller>>
        /\ NextOperation(t) \/ \E p \in TaskPhase : Goto(t, p)
    BY DEF TaskStep, StepRun, StepOk, StepDeadLetter, StepTimeout, Suspend,
           Timer, ReadSuspension, WriteOutput, WorkflowError, AtOperation,
           Active, TaskPhase
  <2> QED
    BY <1>0, <1>1, <2>1, TaskHolds
<1>4. CASE \E t \in Task : HandleWorkflowResult(t)
  BY <1>0, <1>1, <1>4, EndHolds DEF HandleWorkflowResult
<1>5. CASE \E t \in Task : DropTask(t)
  BY <1>0, <1>5 DEF DropTask, ExclusiveInv, Quiet, Attentive
<1>6. CASE \E s \in Signaller, i \in Instance, k \in Keys : SignalClaim(s, i, k)
  <2> PICK s \in Signaller, i \in Instance, k \in Keys : SignalClaim(s, i, k)
    BY <1>6
  <2>1. /\ signals[s] = "none" /\ signals'[s] = i
        /\ \A r \in Signaller : r # s => signals'[r] = signals[r]
        /\ \A n \in Instance : n # i => meta'[n] = meta[n]
        /\ UNCHANGED <<lifecycle, tasks, poller>>
    BY DEF SignalClaim, Claim, ExclusiveInv, TypeInv, TypeOK
  <2>2. \A n \in Instance : n = i \/ Busy(n) => Busy(n)'
    BY <2>1, InstanceAssumption DEF Busy
  <2> QED
    BY <1>0, <1>1, <2>1, <2>2
<1>7. CASE \E s \in Signaller : SignalSpawn(s)
  <2> PICK s \in Signaller : SignalSpawn(s)
    BY <1>7
  <2>1. /\ signals[s] \in Instance /\ SpawnTask(signals[s])
        /\ \A r \in Signaller : r # s => signals'[r] = signals[r]
        /\ UNCHANGED <<meta, lifecycle, poller>>
    BY DEF SignalSpawn, ExclusiveInv, TypeInv, TypeOK
  <2> QED
    BY <1>0, <1>1, <2>1, SpawnHolds
<1>8. CASE \E s \in Signaller : SignalAbandon(s)
  BY <1>0, <1>8 DEF SignalAbandon, Attentive
<1>9. CASE PollClaim
  <2>1. poller.row \in Row
    BY <1>9 DEF PollClaim, ExclusiveInv, TypeInv, PollerOK
  <2>2. UNCHANGED <<lifecycle, tasks, signals>> /\ poller.phase = "held"
    BY <1>9 DEF PollClaim
  <2>3. \A n \in Instance : Busy(n) => Busy(n)'
    BY <2>2 DEF Busy
  <2>4. CASE UNCHANGED meta
    BY <1>0, <1>1, <2>2, <2>3, <2>4
  <2>5. CASE /\ Claim(poller.row.inst, poller.row.key, "fired")
             /\ poller' = [poller EXCEPT !.phase = "claimed"]
    <3>1. \A n \in Instance : n # poller.row.inst => meta'[n] = meta[n]
      BY <2>5 DEF Claim, ExclusiveInv, TypeInv, TypeOK
    <3>2. poller'.phase = "claimed" /\ poller'.row = poller.row
      BY <2>5 DEF ExclusiveInv, TypeInv, TypeOK
    <3>3. \A n \in Instance : n = poller.row.inst => Busy(n)'
      BY <3>2 DEF Busy
    <3> QED
      BY <1>0, <1>1, <2>2, <2>3, <3>1, <3>3
  <2> QED
    BY <1>9, <2>4, <2>5 DEF PollClaim
<1>10. CASE PollSpawn
  <2>1. poller.row \in Row
    BY <1>10 DEF PollSpawn, ExclusiveInv, TypeInv, PollerOK
  <2> QED
    BY <1>0, <1>1, <1>10, <2>1, SpawnHolds DEF PollSpawn, Row
<1>11. CASE PollCollect \/ (\E r \in Row : PollRemove(r)) \/ PollLoop \/ PollAbort
  BY <1>0, <1>1, <1>11
     DEF PollCollect, PollRemove, PollLoop, PollAbort, PollerOff, Busy,
         ExclusiveInv, Quiet, TypeInv, TypeOK
<1>12. CASE StartList
  BY <1>0, <1>12 DEF StartList, Attentive, Busy
<1>13. CASE UNCHANGED <<meta, tasks, signals, poller, scan, running>>
            /\ (engine' = engine \/ engine = "resuming")
  BY <1>0, <1>1, <1>13 DEF Busy
<1>14. CASE Start \/ Stop \/ WaitAll \/ Crash
  BY <1>0, <1>14 DEF Start, Stop, WaitAll, Shutdown, Crash
<1> QED
  BY <1>2, <1>3, <1>4, <1>5, <1>6, <1>7, <1>8, <1>9, <1>10, <1>11, <1>12,
     <1>13, <1>14
     DEF Next, vars, PollStep, StartStep, Expire, StartDone, StopTimeout,
         Drained, Attentive, PollError, StartSkip

\* While the engine serves calls, every Running instance is run by somebody:
\* no crash, no aborting stop() and no refused signal loses one for good.
THEOREM NoOrphanCorrect ==
  ASSUME Attentive PROVE Spec => []NoOrphanRunning
<1>1. ExclusiveInv /\ [Next]_vars => ExclusiveInv'
  BY ExclusiveNext DEF Attentive
<1>2. ExclusiveInv /\ NoOrphanRunning /\ [Next]_vars => NoOrphanRunning'
  BY AttendedNext
<1>3. Init => ExclusiveInv /\ NoOrphanRunning
  BY ExclusiveInit DEF Init, NoOrphanRunning
<1> QED
  BY <1>1, <1>2, <1>3, PTL DEF Spec

-----------------------------------------------------------------------------
(* Timers wake.  The invariant: whoever finds an overdue row finds its     *)
(* instance Suspended, so that the claim cannot be refused.                *)

\* A deadline does not pass before the suspension is recorded, and nobody
\* resumes an instance that waits for a timer.
Unhurried ==
  /\ Exclusive
  /\ "short_timer" \notin Allowed
  /\ "resume" \notin Allowed

\* Nor does the process die or the storage fail.
Patient == Unhurried /\ "crash" \notin Allowed /\ "storage" \notin Allowed

RowInv ==
  /\ \A i \in Instance, k \in Keys :
       /\ timers[i][k] # "none" \/ InHand(i, k) => steps[i][k] # "absent"
       /\ steps[i][k] = "Suspended" /\ (timers[i][k] = "due" \/ InHand(i, k)) =>
            meta[i].status = "Suspended"
  /\ \A r \in poller.batch : timers[r.inst][r.key] = "due"

\* No step that waits loses its row, except the one in the poller's hand.
KeepsBacking ==
  \A i \in Instance, k \in Keys :
    Backed(i, k) => \/ Backed(i, k)'
                    \/ InHand(i, k) /\ (Crash \/ PollError)

\* Steps that leave the journal, the rows and the poller alone and wake nobody.
LEMMA TimerIdle ==
  ASSUME RowInv, UNCHANGED <<steps, timers, poller>>,
         \A i \in Instance : meta[i].status = "Suspended" => meta'[i] = meta[i]
  PROVE  RowInv' /\ KeepsBacking
BY DEF RowInv, KeepsBacking, Backed, InHand

\* A journal write of a task other than a timer's.
LEMMA TimerWrite ==
  ASSUME FullInv, RowInv, UNCHANGED <<meta, timers, poller>>,
         NEW t \in Task, Inst(t) \in Instance, Pc(t) \in Keys,
         NEW e, e # "absent", WriteStep(t, e),
         e = "Suspended" => EntryAt(t) = "absent" /\ Program[Pc(t)] # "timer"
  PROVE  RowInv' /\ KeepsBacking
<1>1. /\ steps'[Inst(t)][Pc(t)] = e
      /\ \A i \in Instance, k \in Keys :
           i # Inst(t) \/ k # Pc(t) => steps'[i][k] = steps[i][k]
  BY DEF WriteStep, FullInv, ExclusiveInv, TypeInv, TypeOK
<1>2. \A i \in Instance, k \in Keys : InHand(i, k)' <=> InHand(i, k)
  BY DEF InHand
<1>3. KeepsBacking
  BY <1>1, <1>2 DEF KeepsBacking, Backed, EntryAt
<1>4. \A r \in poller'.batch : timers'[r.inst][r.key] = "due"
  BY DEF RowInv
<1> QED
  BY <1>1, <1>2, <1>3, <1>4 DEF RowInv, EntryAt

\* A timer writes its row with its entry.
LEMMA TimerArms ==
  ASSUME FullInv, RowInv, NEW t \in Task, tasks[t].phase = "miss", Timer(t)
  PROVE  RowInv' /\ KeepsBacking
<1> DEFINE i == Inst(t)  k == Pc(t)
<1>1. /\ Active(t) /\ UNCHANGED <<meta, poller>>
      /\ WriteStep(t, "Suspended")
      /\ timers' = [timers EXCEPT ![i][k] = "armed"]
  BY DEF Timer, AtOperation, Active
<1>2. i \in Instance /\ k \in Keys /\ EntryAt(t) = "absent"
  BY <1>1, Holder DEF FullInv, JournalInv, TaskKnows
<1>3. timers[i][k] = "none" /\ ~InHand(i, k)
  BY <1>2 DEF RowInv, EntryAt
<1>4. /\ steps'[i][k] = "Suspended" /\ timers'[i][k] = "armed"
      /\ \A n \in Instance, j \in Keys : n # i \/ j # k =>
           steps'[n][j] = steps[n][j] /\ timers'[n][j] = timers[n][j]
  BY <1>1, <1>2 DEF WriteStep, FullInv, ExclusiveInv, TypeInv, TypeOK
<1>5. \A n \in Instance, j \in Keys : InHand(n, j)' <=> InHand(n, j)
  BY <1>1 DEF InHand
<1>6. KeepsBacking
  BY <1>1, <1>4, <1>5 DEF KeepsBacking, Backed
<1>7. \A r \in poller'.batch : timers'[r.inst][r.key] = "due"
  <2> SUFFICES ASSUME NEW r \in poller.batch
               PROVE  timers'[r.inst][r.key] = "due"
    BY <1>1
  <2>1. r \in Row /\ timers[r.inst][r.key] = "due"
    BY DEF RowInv, FullInv, ExclusiveInv, TypeInv, TypeOK
  <2> QED
    BY <1>3, <1>4, <2>1 DEF Row
<1> QED
  BY <1>1, <1>3, <1>4, <1>5, <1>6, <1>7 DEF RowInv

\* A claim ends the only suspension of its instance.
LEMMA TimerClaim ==
  ASSUME FullInv, RowInv, NEW i \in Instance, NEW k \in Keys,
         NEW e \in Result, Claim(i, k, e), UNCHANGED timers,
         poller'.batch = poller.batch,
         \A n \in Instance, j \in Keys :
           n # i \/ j # k => (InHand(n, j)' <=> InHand(n, j)),
         InHand(i, k)' => InHand(i, k)
  PROVE  RowInv' /\ KeepsBacking
<1>1. /\ steps[i][k] = "Suspended" /\ steps'[i][k] = e /\ e # "Suspended"
      /\ e # "absent"
      /\ \A j \in Keys : j # k => steps'[i][j] = steps[i][j]
      /\ \A n \in Instance : n # i => steps'[n] = steps[n] /\ meta'[n] = meta[n]
  BY ClaimFacts, Markers DEF FullInv
<1>2. \A j \in Keys : j # k => steps[i][j] # "Suspended"
  <2> SUFFICES ASSUME NEW j \in Keys, j # k, steps[i][j] = "Suspended"
               PROVE  FALSE
    OBVIOUS
  <2>1. j \in 1..(k - 1) \/ k \in 1..(j - 1)
    BY ProgramFacts DEF Keys
  <2> QED
    BY <1>1, <2>1, Markers DEF FullInv, JournalInv, PrefixJournal
<1>3. KeepsBacking
  BY <1>1 DEF KeepsBacking, Backed
<1> QED
  BY <1>1, <1>2, <1>3 DEF RowInv

LEMMA TimerTask ==
  ASSUME FullInv, RowInv, NEW t \in Task, TaskStep(t) \/ DropTask(t)
  PROVE  RowInv' /\ KeepsBacking
<1> USE DEF db, lifecycle
<1>1. CASE StepOk(t) \/ StepDeadLetter(t)
  <2>1. Active(t) /\ UNCHANGED <<meta, timers, poller>>
    BY <1>1 DEF StepOk, StepDeadLetter, Active
  <2>2. Inst(t) \in Instance /\ Pc(t) \in Keys
    BY <1>1, <2>1, Holder DEF StepOk, StepDeadLetter, FullInv
  <2>3. \E e \in Entry : WriteStep(t, e) /\ e \notin {"absent", "Suspended"}
    BY <1>1, Markers DEF StepOk, StepDeadLetter, Entry
  <2> QED
    BY <2>1, <2>2, <2>3, TimerWrite
<1>2. CASE Suspend(t) /\ tasks[t].phase = "miss"
  <2>1. /\ Active(t) /\ UNCHANGED <<meta, timers, poller>>
        /\ WriteStep(t, "Suspended") /\ Program[Pc(t)] = "suspend"
    BY <1>2 DEF Suspend, AtOperation, Active
  <2>2. /\ Inst(t) \in Instance /\ Pc(t) \in Keys /\ EntryAt(t) = "absent"
    BY <1>2, <2>1, Holder DEF FullInv, JournalInv, TaskKnows
  <2> QED
    BY <2>1, <2>2, TimerWrite
<1>3. CASE Timer(t) /\ tasks[t].phase = "miss"
  BY <1>3, TimerArms
<1>4. CASE HandleWorkflowResult(t)
  <2>1. Active(t) /\ Inst(t) \in Instance /\ meta[Inst(t)].status = "Running"
    BY <1>4, Holder DEF HandleWorkflowResult, Active, FullInv
  <2>2. \A n \in Instance : n # Inst(t) => meta'[n] = meta[n]
    BY <1>4 DEF HandleWorkflowResult, FullInv, ExclusiveInv, TypeInv, TypeOK
  <2> QED
    BY <1>4, <2>1, <2>2, TimerIdle DEF HandleWorkflowResult
<1>5. CASE UNCHANGED <<meta, steps, timers, poller>>
  BY <1>5, TimerIdle
<1> QED
  BY <1>1, <1>2, <1>3, <1>4, <1>5
     DEF TaskStep, StepRun, StepTimeout, Suspend, Timer, ReadSuspension,
         WriteOutput, WorkflowError, DropTask

LEMMA TimerPoll ==
  ASSUME FullInv, RowInv, PollStep \/ PollAbort
  PROVE  RowInv' /\ KeepsBacking
<1> USE DEF db, lifecycle
<1>1. CASE PollCollect
  BY <1>1 DEF PollCollect, RowInv, KeepsBacking, Backed, InHand, FullInv,
              ExclusiveInv, TypeInv, TypeOK
<1>2. CASE \E r \in Row : PollRemove(r)
  <2> PICK r \in Row : PollRemove(r)
    BY <1>2
  <2>1. /\ timers[r.inst][r.key] = "due" /\ UNCHANGED <<meta, steps>>
        /\ poller' = [phase |-> "held", batch |-> poller.batch \ {r}, row |-> r]
        /\ poller.phase = "batch"
    BY DEF PollRemove, RowInv
  <2>2. /\ r.inst \in Instance /\ r.key \in Keys
        /\ r = [inst |-> r.inst, key |-> r.key]
    BY DEF Row
  <2>3. /\ timers'[r.inst][r.key] = "none"
        /\ \A n \in Instance, j \in Keys :
             n # r.inst \/ j # r.key => timers'[n][j] = timers[n][j]
    BY <2>2 DEF PollRemove, FullInv, ExclusiveInv, TypeInv, TypeOK
  <2>4. \A n \in Instance, j \in Keys :
          /\ ~InHand(n, j)
          /\ InHand(n, j)' <=> (n = r.inst /\ j = r.key)
    BY <2>1, <2>2 DEF InHand
  <2>5. KeepsBacking
    BY <2>1, <2>3, <2>4 DEF KeepsBacking, Backed
  <2>6. \A q \in poller'.batch : timers'[q.inst][q.key] = "due"
    <3> SUFFICES ASSUME NEW q \in poller.batch, q # r
                 PROVE  timers'[q.inst][q.key] = "due"
      BY <2>1
    <3>1. q \in Row /\ timers[q.inst][q.key] = "due"
      BY DEF RowInv, FullInv, ExclusiveInv, TypeInv, TypeOK
    <3>2. q.inst # r.inst \/ q.key # r.key
      BY <3>1 DEF Row
    <3> QED
      BY <2>3, <3>1, <3>2 DEF Row
  <2> QED
    BY <2>1, <2>2, <2>3, <2>4, <2>5, <2>6 DEF RowInv
<1>3. CASE PollClaim
  <2>1. /\ poller.row \in Row /\ poller.phase = "held" /\ UNCHANGED timers
        /\ poller'.batch = poller.batch /\ poller'.phase # "held"
    BY <1>3
       DEF PollClaim, FullInv, ExclusiveInv, TypeInv, TypeOK, PollerOK
  <2> DEFINE i == poller.row.inst  k == poller.row.key
  <2>2. i \in Instance /\ k \in Keys /\ InHand(i, k)
    BY <2>1 DEF Row, InHand
  <2>3. \A n \in Instance, j \in Keys :
          /\ ~InHand(n, j)'
          /\ n # i \/ j # k => ~InHand(n, j)
    BY <2>1, <2>2 DEF InHand
  <2>4. CASE Claim(i, k, "fired")
    BY <2>1, <2>2, <2>3, <2>4, TimerClaim, Markers
  <2>5. CASE ClaimResult(i, k) # "claimed" /\ UNCHANGED <<steps, meta>>
    <3>1. steps[i][k] # "Suspended"
      BY <2>2, <2>5 DEF ClaimResult, RowInv
    <3>2. KeepsBacking
      BY <2>1, <2>2, <2>3, <2>5, <3>1 DEF KeepsBacking, Backed
    <3> QED
      BY <2>1, <2>2, <2>3, <2>5, <3>2 DEF RowInv
  <2> QED
    BY <1>3, <2>4, <2>5 DEF PollClaim
<1>4. CASE PollSpawn \/ PollLoop \/ PollAbort
  <2>1. /\ UNCHANGED <<meta, steps, timers>>
        /\ poller.phase # "held" /\ poller'.phase # "held"
        /\ poller'.batch \subseteq poller.batch
    <3>1. poller \in [phase : {"off", "sleep", "batch", "held", "claimed"},
                      batch : SUBSET Row, row : Row \cup {NoRow}]
      BY DEF FullInv, ExclusiveInv, TypeInv, TypeOK
    <3>2. CASE PollSpawn
      BY <3>1, <3>2 DEF PollSpawn
    <3>3. CASE PollLoop
      BY <3>1, <3>3 DEF PollLoop, PollerOff
    <3>4. CASE PollAbort
      BY <3>1, <3>4 DEF PollAbort, PollerOff
    <3> QED
      BY <1>4, <3>2, <3>3, <3>4
  <2> QED
    BY <2>1 DEF RowInv, KeepsBacking, Backed, InHand
<1>5. CASE PollError
  <2>1. /\ UNCHANGED <<meta, steps, timers>>
        /\ poller'.phase # "held" /\ poller'.batch = {}
    BY <1>5 DEF PollError
  <2> QED
    BY <1>5, <2>1 DEF RowInv, KeepsBacking, Backed, InHand
<1> QED
  BY <1>1, <1>2, <1>3, <1>4, <1>5 DEF PollStep

LEMMA TimerNext ==
  ASSUME Unhurried, FullInv, RowInv, [Next]_vars
  PROVE  RowInv' /\ KeepsBacking
<1> USE DEF db, lifecycle
<1>1. CASE \E i \in Instance : Invoke(i) \/ StartSpawn(i)
  <2> PICK i \in Instance : Invoke(i) \/ StartSpawn(i)
    BY <1>1
  <2>1. meta[i].status # "Suspended"
    BY DEF Invoke, StartSpawn, Busy, BusyIsRunning, FullInv, ExclusiveInv
  <2>2. /\ UNCHANGED <<steps, timers, poller>>
        /\ \A n \in Instance : n # i => meta'[n] = meta[n]
    BY DEF Invoke, StartSpawn, SpawnWorkflow, FullInv, ExclusiveInv, TypeInv,
           TypeOK
  <2> QED
    BY <2>1, <2>2, TimerIdle
<1>2. CASE \E t \in Task : TaskStep(t) \/ DropTask(t)
  BY <1>2, TimerTask
<1>3. CASE \E s \in Signaller, i \in Instance, k \in Keys : SignalClaim(s, i, k)
  <2> PICK s \in Signaller, i \in Instance, k \in Keys : SignalClaim(s, i, k)
    BY <1>3
  <2>1. UNCHANGED <<timers, poller>> /\ \E v \in Result : Claim(i, k, v)
    BY Markers DEF SignalClaim
  <2>2. \A n \in Instance, j \in Keys : InHand(n, j)' <=> InHand(n, j)
    BY <2>1 DEF InHand
  <2> QED
    BY <2>1, <2>2, TimerClaim
<1>4. CASE \E i \in Instance, k \in Keys : Expire(i, k)
  <2> PICK i \in Instance, k \in Keys : Expire(i, k)
    BY <1>4
  <2>1. /\ UNCHANGED <<meta, steps, poller>> /\ meta[i].status = "Suspended"
        /\ timers[i][k] = "armed" /\ timers'[i][k] = "due"
        /\ \A n \in Instance, j \in Keys :
             n # i \/ j # k => timers'[n][j] = timers[n][j]
    BY DEF Expire, Unhurried, SuspendedAt, FullInv, ExclusiveInv, TypeInv, TypeOK
  <2>2. \A r \in poller.batch : r \in Row
    BY DEF FullInv, ExclusiveInv, TypeInv, TypeOK
  <2> QED
    BY <2>1, <2>2 DEF RowInv, KeepsBacking, Backed, InHand, Row
<1>5. CASE PollStep \/ PollAbort
  BY <1>5, TimerPoll
<1>6. CASE Start
  <2>1. /\ UNCHANGED <<meta, steps, timers>> /\ poller.phase # "held"
        /\ poller'.phase # "held" /\ poller'.batch = poller.batch
    BY <1>6 DEF Start, Quiet, TasksLockFree, FullInv, ExclusiveInv, TypeInv, TypeOK
  <2> QED
    BY <2>1 DEF RowInv, KeepsBacking, Backed, InHand
<1>7. CASE UNCHANGED <<meta, steps, timers, poller>>
  BY <1>7, TimerIdle
<1>8. CASE Crash
  <2>1. /\ UNCHANGED <<meta, steps, timers>>
        /\ poller'.phase # "held" /\ poller'.batch = {}
    BY <1>8 DEF Crash, PollerOff
  <2> QED
    BY <1>8, <2>1 DEF RowInv, KeepsBacking, Backed, InHand
<1> QED
  BY <1>1, <1>2, <1>3, <1>4, <1>5, <1>6, <1>7, <1>8
     DEF Next, vars, Resume, Unhurried, SignalSpawn, SignalAbandon,
         StartStep, StartList, StartSkip, StartDone, Stop, WaitAll, Shutdown,
         StopTimeout, Drained

LEMMA RowsAlways ==
  ASSUME Unhurried PROVE Spec => [](FullInv /\ RowInv)
<1>1. FullInv /\ RowInv /\ [Next]_vars => RowInv'
  BY TimerNext
<1>2. Init => RowInv
  BY Markers DEF Init, RowInv, InHand, PollerOff
<1>3. Spec => []FullInv
  BY FullAlways DEF Unhurried
<1> QED
  BY <1>1, <1>2, <1>3, PTL DEF Spec

\* Through crashes, restarts, storage errors, panics, signals and shutdowns, a
\* timer is lost only out of the poller's hand, to a crash or a storage error:
\* as long as no deadline passes before the suspension is recorded and nobody
\* resumes, the claim that follows the removal of a row is never refused while
\* the step waits.
THEOREM TimerLostInHandCorrect ==
  ASSUME Unhurried PROVE Spec => TimerLostInHand
<1>1. FullInv /\ RowInv /\ [Next]_vars =>
        [\A i \in Instance, k \in Keys :
           Backed(i, k) =>
             \/ Backed(i, k)'
             \/ InHand(i, k) /\ (Crash \/ PollError)]_vars
  BY TimerNext DEF KeepsBacking
<1> QED
  BY <1>1, RowsAlways, PTL DEF Spec, TimerLostInHand

\* Without crashes and storage errors, then, a timer that waits has a row or is
\* in the poller's hand, at any time.
THEOREM TimerBackedCorrect ==
  ASSUME Patient PROVE Spec => []TimerBacked
<1>1. FullInv /\ RowInv /\ TimerBacked /\ [Next]_vars => TimerBacked'
  BY TimerNext DEF KeepsBacking, TimerBacked, Crash, PollError, Patient
<1>2. Init => TimerBacked
  BY Markers DEF Init, TimerBacked, Backed
<1>3. Spec => [](FullInv /\ RowInv)
  BY RowsAlways DEF Patient
<1> QED
  BY <1>1, <1>2, <1>3, PTL DEF Spec

=============================================================================
