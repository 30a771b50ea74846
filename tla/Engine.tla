------------------------------- MODULE Engine -------------------------------
(***************************************************************************)
(* The memable engine running one registered, sequential workflow: its     *)
(* database (WORKFLOW_META, STEPS and TIMERS tables), the tasks of its     *)
(* JoinSet, the background timer poller, callers of invoke/resume/signal,  *)
(* and start, stop, wait_all and process crashes.                          *)
(*                                                                         *)
(* One action is one redb transaction, or one stretch of code between two  *)
(* await points that touches shared memory.  A workflow is a sequence of   *)
(* operations with distinct keys, so a step key is a position in Program,  *)
(* and it propagates every error with `?`.                                 *)
(***************************************************************************)
EXTENDS Integers, Sequences

CONSTANTS
  Instance,       \* (workflow name, instance id) pairs
  Task,           \* slots of the tasks JoinSet
  Signaller,      \* concurrent callers of Engine::signal
  Value,          \* results of steps and payloads of signals
  Program,        \* the kinds of the workflow's operations, in order
  ResumeOnStart,  \* EngineBuilder::resume_on_start
  Allowed         \* what the environment may do in this instance of the model

OpKind == {"step", "suspend", "timer"}

(***************************************************************************)
(* Allowed names the environment's freedom:                                *)
(*   "crash"        the process dies between any two atomic steps;         *)
(*   "storage"      a transaction fails and is rolled back;                *)
(*   "panic"        user code panics while its task runs;                  *)
(*   "cancel"       a caller drops the future of signal() half way;        *)
(*   "stop"         stop() is called;                                      *)
(*   "wait_all"     wait_all() is called;                                  *)
(*   "resume"       resume() of instances that are not live;               *)
(*   "resume_live"  resume() of any instance, live ones included;          *)
(*   "short_timer"  a deadline passes before the run that set the timer    *)
(*                  has recorded its suspension;                           *)
(*   "slow_start"   start() lasts longer than the poller's first sleep.    *)
(***************************************************************************)
Environment == {"crash", "storage", "panic", "cancel", "stop", "wait_all",
                "resume", "resume_live", "short_timer", "slow_start"}

ASSUME ProgramAssumption == Program \in Seq(OpKind)
ASSUME ValueAssumption ==
  Value \cap {"absent", "Suspended", "Failed", "fired"} = {}
ASSUME InstanceAssumption == "none" \notin Instance
ASSUME ResumeOnStartAssumption == ResumeOnStart \in BOOLEAN
ASSUME AllowedAssumption == Allowed \subseteq Environment

N == Len(Program)
Keys == 1..N

VARIABLES
  meta,      \* WORKFLOW_META: the metadata of each instance
  steps,     \* STEPS: the journal entry of each instance and key
  output,    \* the instances with an `_output` entry in STEPS
  timers,    \* TIMERS: the row of each timer step and whether it is overdue
  running,   \* EngineShared::running
  engine,    \* where the process is: down, in start(), or up
  scan,      \* what resume_running_instances has still to spawn
  shutdown,  \* where stop() or wait_all() is; it holds the tasks mutex
  tasks,     \* the workflow tasks in EngineShared::tasks
  signals,   \* for each signal() call past its claim, the instance claimed
  poller     \* the timer poller task

db == <<meta, steps, output, timers>>
lifecycle == <<running, engine, scan, shutdown>>
vars == <<meta, steps, output, timers, running, engine, scan, shutdown,
          tasks, signals, poller>>

-----------------------------------------------------------------------------
(* Values of the variables. *)

\* A completed entry is its result; "fired" is the unit result of a timer.
Result == Value \cup {"fired"}
Entry == Result \cup {"absent", "Suspended", "Failed"}

Status(s) == [status |-> s, key |-> 0]
SuspendedAt(k) == [status |-> "Suspended", key |-> k]
Metadata ==
  {Status(s) : s \in {"absent", "Running", "Completed", "Failed"}}
    \cup {SuspendedAt(k) : k \in Keys}

TaskPhase == {"run",   \* workflow code between two operations
              "exec",  \* inside the closure of a step
              "miss",  \* a suspend or timer read no entry, writes one next
              "susp", "ok", "err"}  \* returned; metadata not yet written
Free == [phase |-> "free", inst |-> "none", pc |-> 0]
TaskState == {Free} \cup [phase : TaskPhase, inst : Instance, pc : 1..(N + 1)]

NoRow == [inst |-> "none", key |-> 0]
Row == [inst : Instance, key : Keys]

TypeOK ==
  /\ meta \in [Instance -> Metadata]
  /\ steps \in [Instance -> [Keys -> Entry]]
  /\ output \subseteq Instance
  /\ timers \in [Instance -> [Keys -> {"none", "armed", "due"}]]
  /\ running \in BOOLEAN
  /\ engine \in {"down", "starting", "resuming", "up"}
  /\ scan \subseteq Instance
  /\ shutdown \in {"none", "draining", "aborting", "waiting", "done"}
  /\ tasks \in [Task -> TaskState]
  /\ signals \in [Signaller -> Instance \cup {"none"}]
  /\ poller \in [phase : {"off", "sleep", "batch", "held", "claimed"},
                 batch : SUBSET Row, row : Row \cup {NoRow}]

Active(t) == tasks[t].phase # "free"

\* Someone is about to run, or runs, instance i: a task, a signaller or the
\* poller between its claim and its spawn, or start() on its way through the
\* list of Running instances.
Busy(i) ==
  \/ \E t \in Task : tasks[t].inst = i
  \/ \E s \in Signaller : signals[s] = i
  \/ poller.phase = "claimed" /\ poller.row.inst = i
  \/ i \in scan

\* stop and wait_all keep the mutex around the JoinSet while they drain it.
TasksLockFree == shutdown \notin {"draining", "aborting", "waiting"}

PollerOff == [phase |-> "off", batch |-> {}, row |-> NoRow]

Init ==
  /\ meta = [i \in Instance |-> Status("absent")]
  /\ steps = [i \in Instance |-> [k \in Keys |-> "absent"]]
  /\ output = {}
  /\ timers = [i \in Instance |-> [k \in Keys |-> "none"]]
  /\ running = FALSE
  /\ engine = "down"
  /\ scan = {}
  /\ shutdown = "none"
  /\ tasks = [t \in Task |-> Free]
  /\ signals = [s \in Signaller |-> "none"]
  /\ poller = PollerOff

-----------------------------------------------------------------------------
(* Operators named ..._Bug are a wrong version of the operator that follows: *)
(* the change a plausible mistake in the code would make to the model.  They *)
(* are used nowhere; they are there to be substituted for the right one, to  *)
(* see which property notices.                                               *)

-----------------------------------------------------------------------------
(* Spawning.  The caller holds the tasks mutex and does not await again.   *)

SpawnTask(i) ==
  \E t \in Task :
    /\ ~Active(t)
    /\ tasks' = [tasks EXCEPT ![t] = [phase |-> "run", inst |-> i, pc |-> 1]]

\* Engine::spawn_workflow: metadata becomes Running whatever it was.
SpawnWorkflow(i) ==
  /\ TasksLockFree
  /\ running
  /\ meta' = [meta EXCEPT ![i] = Status("Running")]
  /\ SpawnTask(i)
  /\ UNCHANGED <<steps, output, timers, running, engine, shutdown, signals,
                 poller>>

\* invoke() generates a fresh instance id.
Invoke(i) ==
  /\ engine = "up"
  /\ meta[i].status = "absent"
  /\ SpawnWorkflow(i)
  /\ UNCHANGED scan

\* resume() runs the instance whatever its metadata says.  Unless
\* "resume_live" is allowed, callers only resume what nobody runs.
Resume(i) ==
  /\ "resume" \in Allowed
  /\ engine = "up"
  /\ meta[i].status # "absent"
  /\ "resume_live" \in Allowed \/ ~Busy(i)
  /\ SpawnWorkflow(i)
  /\ UNCHANGED scan

-----------------------------------------------------------------------------
(* A workflow task.                                                        *)

Inst(t) == tasks[t].inst
Pc(t) == tasks[t].pc
EntryAt(t) == steps[Inst(t)][Pc(t)]

\* The task is about to perform its next operation, and that is a `kind`.
AtOperation(t, kind) ==
  /\ tasks[t].phase = "run"
  /\ Pc(t) \in Keys
  /\ Program[Pc(t)] = kind

Goto(t, phase) == tasks' = [tasks EXCEPT ![t].phase = phase]
NextOperation(t) ==
  tasks' = [tasks EXCEPT ![t].phase = "run", ![t].pc = @ + 1]
WriteStep(t, entry) == steps' = [steps EXCEPT ![Inst(t)][Pc(t)] = entry]

\* The closure runs without a look at the journal.
StepRun_Bug(t) ==
  /\ AtOperation(t, "step")
  /\ Goto(t, "exec")
  /\ UNCHANGED <<db, lifecycle, signals, poller>>

\* StepBuilder::run up to the closure: a completed entry is returned, a
\* missing or dead-lettered one makes the closure run.
StepRun(t) ==
  /\ AtOperation(t, "step")
  /\ \/ EntryAt(t) \in Result /\ NextOperation(t)
     \/ EntryAt(t) \in {"absent", "Failed"} /\ Goto(t, "exec")
  /\ UNCHANGED <<db, lifecycle, signals, poller>>

\* The closure's last attempt returns.
StepOk(t) ==
  /\ tasks[t].phase = "exec"
  /\ \E v \in Value : WriteStep(t, v)
  /\ NextOperation(t)
  /\ UNCHANGED <<meta, output, timers, lifecycle, signals, poller>>

\* A permanent error, or a retryable one on the last attempt.
StepDeadLetter(t) ==
  /\ tasks[t].phase = "exec"
  /\ WriteStep(t, "Failed")
  /\ Goto(t, "err")
  /\ UNCHANGED <<meta, output, timers, lifecycle, signals, poller>>

\* A step that timed out counts as done.
StepTimeout_Bug(t) ==
  /\ tasks[t].phase = "exec"
  /\ NextOperation(t)
  /\ UNCHANGED <<db, lifecycle, signals, poller>>

\* The timeout is neither retried nor journalled; neither is the error of the
\* write of a result.
StepTimeout(t) ==
  /\ tasks[t].phase = "exec"
  /\ Goto(t, "err")
  /\ UNCHANGED <<db, lifecycle, signals, poller>>

\* Context::execute_suspend and Context::timer begin alike: a completed entry
\* is returned, a Suspended one suspends again without another write.
ReadSuspension(t) ==
  /\ \/ EntryAt(t) \in Result /\ NextOperation(t)
     \/ EntryAt(t) = "Suspended" /\ Goto(t, "susp")
     \/ EntryAt(t) = "absent" /\ Goto(t, "miss")
  /\ UNCHANGED <<db, lifecycle, signals, poller>>

Suspend(t) ==
  \/ AtOperation(t, "suspend") /\ ReadSuspension(t)
  \/ /\ tasks[t].phase = "miss"
     /\ Program[Pc(t)] = "suspend"
     /\ WriteStep(t, "Suspended")
     /\ Goto(t, "susp")
     /\ UNCHANGED <<meta, output, timers, lifecycle, signals, poller>>

\* The journal entry and the timer row are written in one transaction.
Timer(t) ==
  \/ AtOperation(t, "timer") /\ ReadSuspension(t)
  \/ /\ tasks[t].phase = "miss"
     /\ Program[Pc(t)] = "timer"
     /\ WriteStep(t, "Suspended")
     /\ timers' = [timers EXCEPT ![Inst(t)][Pc(t)] = "armed"]
     /\ Goto(t, "susp")
     /\ UNCHANGED <<meta, output, lifecycle, signals, poller>>

\* Completion is recorded and the output is not.
WriteOutput_Bug(t) ==
  /\ tasks[t].phase = "run"
  /\ Pc(t) = N + 1
  /\ Goto(t, "ok")
  /\ UNCHANGED <<db, lifecycle, signals, poller>>

\* The workflow returns Ok: its output is journalled before its metadata.
WriteOutput(t) ==
  /\ tasks[t].phase = "run"
  /\ Pc(t) = N + 1
  /\ output' = output \cup {Inst(t)}
  /\ Goto(t, "ok")
  /\ UNCHANGED <<meta, steps, timers, lifecycle, signals, poller>>

\* The workflow returns an error: its own or a storage error between two
\* operations, or that of the write of a suspension.
WorkflowError(t) ==
  /\ \/ tasks[t].phase = "run"
     \/ "storage" \in Allowed /\ tasks[t].phase = "miss"
  /\ Goto(t, "err")
  /\ UNCHANGED <<db, lifecycle, signals, poller>>

\* Every error is taken for a suspension.
ResultMetadata_Bug(t) ==
  IF tasks[t].phase = "ok" THEN Status("Completed") ELSE SuspendedAt(Pc(t))

\* The metadata that handle_workflow_result writes.
ResultMetadata(t) ==
  CASE tasks[t].phase = "ok" -> Status("Completed")
    [] tasks[t].phase = "err" -> Status("Failed")
    [] OTHER -> SuspendedAt(Pc(t))

\* The last thing a task does.  It awaits nothing after the workflow returned.
HandleWorkflowResult(t) ==
  /\ tasks[t].phase \in {"susp", "ok", "err"}
  /\ meta' = [meta EXCEPT ![Inst(t)] = ResultMetadata(t)]
  /\ tasks' = [tasks EXCEPT ![t] = Free]
  /\ UNCHANGED <<steps, output, timers, lifecycle, signals, poller>>

\* A task vanishes with its metadata still Running: user code panicked, or
\* stop() aborted the task at an await point, which only user code has, or the
\* write of the metadata failed, which handle_workflow_result only logs.
DropTask(t) ==
  /\ \/ /\ tasks[t].phase \in {"run", "exec"}
        /\ "panic" \in Allowed \/ shutdown = "aborting"
     \/ "storage" \in Allowed /\ tasks[t].phase \in {"susp", "ok", "err"}
  /\ tasks' = [tasks EXCEPT ![t] = Free]
  /\ UNCHANGED <<db, lifecycle, signals, poller>>

\* The steps a live task takes when its closures return.
TaskStep(t) ==
  \/ StepRun(t) \/ StepOk(t) \/ StepDeadLetter(t) \/ StepTimeout(t)
  \/ Suspend(t) \/ Timer(t)
  \/ WriteOutput(t) \/ WorkflowError(t) \/ HandleWorkflowResult(t)

-----------------------------------------------------------------------------
(* Signals and timers: claim in one transaction, spawn under the mutex.    *)

\* The claim looks at the step only.
ClaimResult_Bug(i, k) ==
  CASE steps[i][k] = "absent" -> "rejected"
    [] steps[i][k] # "Suspended" -> "superseded"
    [] OTHER -> "claimed"

\* The claim looks at the metadata only.
ClaimResult_StepBug(i, k) ==
  CASE meta[i].status = "absent" -> "rejected"
    [] meta[i].status # "Suspended" -> "superseded"
    [] OTHER -> "claimed"

\* What claim_suspended_step answers.  The step is looked at before the
\* metadata, and any suspension of the instance lets the claim through.
ClaimResult(i, k) ==
  CASE steps[i][k] = "absent" -> "rejected"
    [] steps[i][k] # "Suspended" -> "superseded"
    [] meta[i].status = "absent" -> "rejected"
    [] meta[i].status # "Suspended" -> "superseded"
    [] OTHER -> "claimed"

\* The payload is written and the metadata is left Suspended.
Claim_Bug(i, k, result) ==
  /\ ClaimResult(i, k) = "claimed"
  /\ steps' = [steps EXCEPT ![i][k] = result]
  /\ UNCHANGED meta

\* The transaction of a successful claim.
Claim(i, k, result) ==
  /\ ClaimResult(i, k) = "claimed"
  /\ steps' = [steps EXCEPT ![i][k] = result]
  /\ meta' = [meta EXCEPT ![i] = Status("Running")]

\* signal() up to its claim; a refused claim changes nothing.  The claim comes
\* before the check of `running`: an engine that is built and not started (the
\* state "down" stands for it too) or stopped still claims.
SignalClaim(s, i, k) ==
  /\ engine \in {"down", "up"}
  /\ signals[s] = "none"
  /\ \E v \in Value : Claim(i, k, v)
  /\ signals' = [signals EXCEPT ![s] = i]
  /\ UNCHANGED <<output, timers, lifecycle, tasks, poller>>

SignalSpawn(s) ==
  /\ signals[s] # "none"
  /\ TasksLockFree
  /\ running
  /\ SpawnTask(signals[s])
  /\ signals' = [signals EXCEPT ![s] = "none"]
  /\ UNCHANGED <<db, lifecycle, poller>>

\* The check of `running` is negated.
SignalAbandon_Bug(s) ==
  /\ signals[s] # "none"
  /\ TasksLockFree
  /\ signals' = [signals EXCEPT ![s] = "none"]
  /\ UNCHANGED <<db, lifecycle, tasks, poller>>

\* NotStarted is returned after the claim, and so is nothing at all when the
\* caller drops the future while it waits for the mutex.
SignalAbandon(s) ==
  /\ signals[s] # "none"
  /\ \/ TasksLockFree /\ ~running
     \/ "cancel" \in Allowed
  /\ signals' = [signals EXCEPT ![s] = "none"]
  /\ UNCHANGED <<db, lifecycle, tasks, poller>>

\* Time passes: a deadline is reached.
Expire(i, k) ==
  /\ timers[i][k] = "armed"
  /\ "short_timer" \in Allowed \/ meta[i] = SuspendedAt(k)
  /\ timers' = [timers EXCEPT ![i][k] = "due"]
  /\ UNCHANGED <<meta, steps, output, lifecycle, tasks, signals, poller>>

\* The sleep ends, also after `running` was cleared, and a read transaction
\* collects the rows that are due.
PollCollect ==
  /\ poller.phase = "sleep"
  /\ "slow_start" \in Allowed \/ engine = "up"
  /\ poller' = [poller EXCEPT !.phase = "batch",
                  !.batch = {r \in Row : timers[r.inst][r.key] = "due"}]
  /\ UNCHANGED <<db, lifecycle, tasks, signals>>

PollRemove(r) ==
  /\ poller.phase = "batch"
  /\ r \in poller.batch
  /\ timers' = [timers EXCEPT ![r.inst][r.key] = "none"]
  /\ poller' = [phase |-> "held", batch |-> poller.batch \ {r}, row |-> r]
  /\ UNCHANGED <<meta, steps, output, lifecycle, tasks, signals>>

\* The row is gone.  poll_timers skips an instance whose metadata is not
\* Suspended, and a claim refused after that check is skipped as well.
PollClaim ==
  /\ poller.phase = "held"
  /\ \/ /\ Claim(poller.row.inst, poller.row.key, "fired")
        /\ poller' = [poller EXCEPT !.phase = "claimed"]
     \/ /\ ClaimResult(poller.row.inst, poller.row.key) # "claimed"
        /\ poller' = [poller EXCEPT !.phase = "batch", !.row = NoRow]
        /\ UNCHANGED <<steps, meta>>
  /\ UNCHANGED <<output, timers, lifecycle, tasks, signals>>

\* signal_timer spawns without looking at `running`.
PollSpawn ==
  /\ poller.phase = "claimed"
  /\ TasksLockFree
  /\ SpawnTask(poller.row.inst)
  /\ poller' = [poller EXCEPT !.phase = "batch", !.row = NoRow]
  /\ UNCHANGED <<db, lifecycle, signals>>

\* The loop ends after one pass.
PollLoop_Bug ==
  /\ poller.phase = "batch"
  /\ poller.batch = {}
  /\ poller' = PollerOff
  /\ UNCHANGED <<db, lifecycle, tasks, signals>>

PollLoop ==
  /\ poller.phase = "batch"
  /\ poller.batch = {}
  /\ poller' = IF running THEN [poller EXCEPT !.phase = "sleep"]
                          ELSE PollerOff
  /\ UNCHANGED <<db, lifecycle, tasks, signals>>

\* A poller that waits for the mutex is not aborted.
PollAbort_Bug ==
  /\ shutdown = "aborting"
  /\ poller.phase = "sleep"
  /\ poller' = PollerOff
  /\ UNCHANGED <<db, lifecycle, tasks, signals>>

\* The poller awaits between the removal of a row and the claim.
PollAbort_HeldBug ==
  /\ shutdown = "aborting"
  /\ poller.phase \in {"sleep", "held", "claimed"}
  /\ poller' = PollerOff
  /\ UNCHANGED <<db, lifecycle, tasks, signals>>

\* stop() aborts the poller where it awaits: its sleep or the tasks mutex.
PollAbort ==
  /\ shutdown = "aborting"
  /\ poller.phase \in {"sleep", "claimed"}
  /\ poller' = PollerOff
  /\ UNCHANGED <<db, lifecycle, tasks, signals>>

\* An error ends the pass of poll_timers, the row in hand is lost, and the
\* loop goes on.
PollError ==
  /\ "storage" \in Allowed
  /\ poller.phase \in {"batch", "held"}
  /\ poller' = [phase |-> "batch", batch |-> {}, row |-> NoRow]
  /\ UNCHANGED <<db, lifecycle, tasks, signals>>

PollStep ==
  \/ PollCollect
  \/ \E r \in Row : PollRemove(r)
  \/ PollClaim \/ PollSpawn \/ PollLoop \/ PollError

-----------------------------------------------------------------------------
(* Life cycle.                                                             *)

\* start() borrows the engine mutably: no call is in flight.  Only `running`
\* is asserted; a stopped engine may be started again.
Start ==
  /\ engine \in {"down", "up"}
  /\ ~running
  /\ TasksLockFree
  /\ \A s \in Signaller : signals[s] = "none"
  /\ running' = TRUE
  /\ engine' = "starting"
  /\ shutdown' = "none"
  /\ poller' = [poller EXCEPT !.phase = "sleep"]
  /\ UNCHANGED <<db, scan, tasks, signals>>

\* Nothing is resumed at start.
StartList_Bug ==
  /\ engine = "starting"
  /\ engine' = "resuming"
  /\ UNCHANGED <<db, running, scan, shutdown, tasks, signals, poller>>

\* resume_running_instances lists the metadata, then spawns one by one.  When
\* the list cannot be read, start() returns the error with `running` set.
StartList ==
  /\ engine = "starting"
  /\ engine' = "resuming"
  /\ \/ scan' = IF ResumeOnStart
                THEN {i \in Instance : meta[i].status = "Running"} ELSE {}
     \/ "storage" \in Allowed /\ scan' = {}
  /\ UNCHANGED <<db, running, shutdown, tasks, signals, poller>>

StartSpawn(i) ==
  /\ engine = "resuming"
  /\ i \in scan
  /\ SpawnWorkflow(i)
  /\ scan' = scan \ {i}

\* An instance that cannot be spawned is skipped with a warning.
StartSkip(i) ==
  /\ "storage" \in Allowed
  /\ engine = "resuming"
  /\ i \in scan
  /\ scan' = scan \ {i}
  /\ UNCHANGED <<db, running, engine, shutdown, tasks, signals, poller>>

StartDone ==
  /\ engine = "resuming"
  /\ scan = {}
  /\ engine' = "up"
  /\ UNCHANGED <<db, running, scan, shutdown, tasks, signals, poller>>

\* stop() and wait_all() clear `running` and then take the tasks mutex.
Shutdown(how, state) ==
  /\ how \in Allowed
  /\ engine = "up"
  /\ running
  /\ running' = FALSE
  /\ shutdown' = state
  /\ UNCHANGED <<db, engine, scan, tasks, signals, poller>>

Stop == Shutdown("stop", "draining")
WaitAll == Shutdown("wait_all", "waiting")

StopTimeout ==
  /\ shutdown = "draining"
  /\ shutdown' = "aborting"
  /\ UNCHANGED <<db, running, engine, scan, tasks, signals, poller>>

\* join_next returns None.
Drained ==
  /\ ~TasksLockFree
  /\ \A t \in Task : ~Active(t)
  /\ poller.phase = "off"
  /\ shutdown' = "done"
  /\ UNCHANGED <<db, running, engine, scan, tasks, signals, poller>>

\* The process dies; the database keeps what was committed.
Crash ==
  /\ "crash" \in Allowed
  /\ engine # "down"
  /\ running' = FALSE
  /\ engine' = "down"
  /\ scan' = {}
  /\ shutdown' = "none"
  /\ tasks' = [t \in Task |-> Free]
  /\ signals' = [s \in Signaller |-> "none"]
  /\ poller' = PollerOff
  /\ UNCHANGED db

StartStep ==
  StartList \/ (\E i \in Instance : StartSpawn(i) \/ StartSkip(i)) \/ StartDone

Next ==
  \/ \E i \in Instance : Invoke(i) \/ Resume(i)
  \/ \E t \in Task : TaskStep(t) \/ DropTask(t)
  \/ \E s \in Signaller :
       \/ \E i \in Instance, k \in Keys : SignalClaim(s, i, k)
       \/ SignalSpawn(s) \/ SignalAbandon(s)
  \/ \E i \in Instance, k \in Keys : Expire(i, k)
  \/ PollStep \/ PollAbort
  \/ Start \/ StartStep
  \/ Stop \/ WaitAll \/ StopTimeout \/ Drained
  \/ Crash

Spec == Init /\ [][Next]_vars

(***************************************************************************)
(* Fairness.  A spawned task is polled until it ends and its closures      *)
(* return; the poller's loop, a signal past its claim, start() and the     *)
(* shutdown run on; time passes; a dead process is started again.  Nothing *)
(* makes a user call invoke, resume, signal or stop.                       *)
(***************************************************************************)
Fairness ==
  /\ \A t \in Task : WF_vars(TaskStep(t))
  /\ \A s \in Signaller : WF_vars(SignalSpawn(s) \/ SignalAbandon(s))
  /\ \A i \in Instance, k \in Keys : WF_vars(Expire(i, k))
  /\ WF_vars(PollStep)
  /\ WF_vars(Start)
  /\ WF_vars(StartStep)
  /\ WF_vars(StopTimeout)
  /\ WF_vars(Drained)
  /\ \A t \in Task : WF_vars(shutdown = "aborting" /\ DropTask(t))
  /\ WF_vars(PollAbort)

FairSpec == Spec /\ Fairness

-----------------------------------------------------------------------------
(* Safety.                                                                 *)

\* An instance is run by at most one of: a task, a signaller or the poller
\* between claim and spawn, start()'s list.  Two runs of an instance would
\* execute its steps twice and overwrite each other's journal entries.  It
\* rests on the claim's metadata check and on who writes Running when.
SingleRun ==
  /\ \A t, u \in Task : Active(t) /\ Inst(t) = Inst(u) => t = u
  /\ \A s, r \in Signaller :
       signals[s] # "none" /\ signals[s] = signals[r] => s = r
  /\ \A t \in Task : \A s \in Signaller : Active(t) => Inst(t) # signals[s]
  /\ poller.phase = "claimed" =>
       /\ \A t \in Task : Inst(t) # poller.row.inst
       /\ \A s \in Signaller : signals[s] # poller.row.inst
       /\ poller.row.inst \notin scan
  /\ \A i \in scan : /\ \A t \in Task : Inst(t) # i
                     /\ \A s \in Signaller : signals[s] # i

\* Whatever is run, or about to be run, is Running in the metadata: a signal,
\* a timer or get_metadata never takes a live instance for an idle one.
BusyIsRunning ==
  \A i \in Instance : Busy(i) => meta[i].status = "Running"

\* The journal of an instance is a prefix of its program: an entry exists
\* only when every operation before it is memoised, so a replay reaches the
\* frontier without running a closure.
PrefixJournal ==
  \A i \in Instance, k \in Keys : steps[i][k] # "absent" =>
    \A j \in 1..(k - 1) : steps[i][j] \in Result

\* Metadata tells the truth about the journal: a Suspended instance waits at
\* an entry that a signal can claim, and a Completed one has memoised all its
\* steps and has the output that Invocation::wait reads.
MetadataAgrees ==
  \A i \in Instance :
    /\ \A k \in Keys : meta[i] = SuspendedAt(k) => steps[i][k] = "Suspended"
    /\ meta[i].status = "Completed" =>
         i \in output /\ \A k \in Keys : steps[i][k] \in Result

\* While the engine serves calls, an instance whose metadata is Running is
\* run by somebody: neither a crash, an aborting stop() nor a signal refused
\* with NotStarted leaves a Running instance that nobody will finish.
NoOrphanRunning ==
  running /\ engine \in {"resuming", "up"} =>
    \A i \in Instance : meta[i].status = "Running" => Busy(i)

\* The poller has removed the row and not yet claimed the step.
InHand(i, k) ==
  poller.phase = "held" /\ poller.row = [inst |-> i, key |-> k]

\* If the timer step waits, something will wake it.
Backed(i, k) ==
  Program[k] = "timer" /\ steps[i][k] = "Suspended" =>
    timers[i][k] # "none" \/ InHand(i, k)

\* A timer step that is Suspended has a row in the timer table, or the poller
\* has just taken it and will claim the step: something will wake it.
TimerBacked == \A i \in Instance, k \in Keys : Backed(i, k)

\* The same for what a crash leaves behind: the comment of Context::timer on
\* its transaction says that no Suspended step is left without a timer.
TimerSurvivesCrash ==
  engine = "down" => \A i \in Instance, k \in Keys :
    Program[k] = "timer" /\ steps[i][k] = "Suspended" => timers[i][k] # "none"

-----------------------------------------------------------------------------
(* Action properties.                                                      *)

\* A memoised result is final: no later run of the workflow, no crash and no
\* second signal replaces or removes a completed journal entry.
MemoStable ==
  [][\A i \in Instance, k \in Keys :
       steps[i][k] \in Result => steps'[i][k] = steps[i][k]]_vars

\* A timer is lost between the removal of its row and the claim of its step,
\* and there only to the death of the process or an error of the database: no
\* signal, shutdown, abort or restart makes the claim of a removed row fail
\* while the step still waits.
TimerLostInHand ==
  [][\A i \in Instance, k \in Keys :
       Backed(i, k) =>
         \/ Backed(i, k)'
         \/ InHand(i, k) /\ (Crash \/ PollError)]_vars

-----------------------------------------------------------------------------
(* Liveness.                                                               *)

\* If the engine is eventually left running, a timer that was set fires.
TimerWakes ==
  <>[]running =>
    \A i \in Instance, k \in Keys :
      Program[k] = "timer" /\ steps[i][k] = "Suspended" ~>
        steps[i][k] \in Result

\* The same after crashes: an instance that waits for a timer is woken, unless
\* the timer is lost as TimerLostInHand says.
TimerFires ==
  <>[]running =>
    \A i \in Instance, k \in Keys :
      Program[k] = "timer" /\ meta[i] = SuspendedAt(k) ~>
        meta[i] # SuspendedAt(k) \/ ~Backed(i, k)

\* If the process eventually stays up, every Running instance settles: it
\* suspends, completes or fails.  Crashes before that are recovered from.
RunningSettles ==
  <>[](engine = "up") =>
    \A i \in Instance :
      meta[i].status = "Running" ~> meta[i].status # "Running"

\* stop() and wait_all() return.
ShutdownReturns == ~TasksLockFree ~> TasksLockFree

=============================================================================
