# memable in TLA+

memable is an embedded engine for durable workflows. A workflow is an async Rust
function; the results of its steps are memoised in a redb database, so that a
process that dies can run the function again and skip what was done. This
directory holds a TLA+ model of the engine, the TLC configurations that check it
on small instances, and TLAPS proofs that hold for every instance.

| file | what it is |
|---|---|
| `Engine.tla` | the engine: database, workflow tasks, signals, timers and their poller, start, stop, wait_all, crashes |
| `DurableWorkflow.tla` | the abstract specification: what a user is promised of an instance; `Engine`, the runs in `StatusChannel` and the parent in `FanOut` implement it |
| `EngineRefinement.tla` | the refinement mappings from `Engine` to `DurableWorkflow` and, for each of its steps, to `AtomicStep` |
| `EngineProofs.tla`, `JournalProofs.tla` | theorems about `Engine` and their proofs: who runs what; the journal, the refinement, timers |
| `StepRetry.tla` | one step from the inside: attempts, timeouts, backoff, dead letters |
| `AtomicStep.tla` | the one-shot step: `StepRetry` implements it from the inside, and each step of `Engine` is one from the outside |
| `RetryProofs.tla` | theorems about `StepRetry` and their proofs |
| `StatusChannel.tla` | how the runs of one instance report to `Invocation::wait` and `StatusStream`: the senders map and the watch channels |
| `StatusProofs.tla` | theorems about `StatusChannel` and their proofs |
| `FanOut.tla` | a parent workflow and the children it fans out to, under failures, restarts and shutdowns |
| `FanOutProofs.tla` | theorems about `FanOut` and their proofs |
| `Retention.tla` | the retention task against instances that begin, run, suspend and finish |
| `RetentionProofs.tla` | theorems about `Retention` and their proofs |
| `MCEngine.tla`, `MCStepRetry.tla`, `MCRetention.tla`, `MC*_*.cfg`, `StatusChannel_*.cfg`, `FanOut_*.cfg` | small instances for TLC |
| `PROJECT.json` | components, runs, mutants, hazards, theorems, and the lines of the source each definition models |

Paths below are relative to the crate (`src/` in the repository).

## 1. Inventory of the system

**Journal and context** (`context.rs`, `engine/workflow.rs`). State: the `STEPS`
table, keyed `name/instance/step`; an entry is Completed(result, status),
Failed(error) or Suspended, with a type tag. Operations: `step().run` (read; on a
miss or a dead letter run the closure with retries; write), `suspend` and `timer`
(read; on a miss write Suspended and unwind the function with
`WorkflowSuspended`), `set_status`, and the `_output` entry written when the
function returns. *Right when* a memoised result is never replaced, the journal is
a prefix of the program's operations, and a replay reaches the frontier without
running a closure.

**Tasks and results** (`engine/execution.rs`). State: the `JoinSet` under the
`tasks` mutex. `spawn_workflow_task` runs the function and
`handle_workflow_result` turns its result into metadata (Completed, Suspended at a
step, Failed). *Right when* an instance has at most one run, metadata and journal
agree, and nothing Running is left without a runner.

**Signals** (`engine/engine_impl.rs`, `claim_suspended_step`). `signal()` claims a
suspended step in one write transaction (payload written, metadata Running), then
waits for the tasks mutex, checks `running`, and spawns the next run. *Right when*
of several callers one wins, the others learn that they lost, and the winner's
payload leads to exactly one run.

**Timers** (`Context::timer`, `poll_timers`, `signal_timer`). State: the `TIMERS`
table keyed (deadline, serial). The poller, one more task of the JoinSet, sleeps,
collects the rows that are due, removes each in a transaction of its own, then
claims its step like a signal and spawns. *Right when* every timer fires, and only
at its step.

**Life cycle** (`engine/engine_impl.rs`, `engine/builder.rs`). State: `running`,
the mutex, the database file. `start` spawns the poller and resumes the instances
that are Running; `stop` clears `running`, joins the JoinSet with a timeout and
aborts what is left; `wait_all` joins without a timeout; `invoke` and `resume`
spawn. *Right when* shutdown ends, and a start picks up exactly the instances that
lost their runner.

**Status channel** (`engine/invocation.rs`, `stream.rs`, `engine/state.rs`). State:
the `senders` map and one watch channel per run. `wait()` and `subscribe()` see the
states, `subscribe` opens a channel for an instance that is not running. *Right
when* `wait()` returns what the run ended with, for the run it was asked about.

**Retry** (`retry.rs`, `StepBuilder::run`). State: none but the loop's own, which
dies with the task, and the step's journal entry. The policy is the step's
override, else the engine's default; each attempt may have a timeout; delays double
with saturation in a u64, a u32 and a `Duration`. *Right when* a run's answer is what
its attempts amount to under the policy, a result is journalled before anybody acts
on it, and no entry that belongs to somebody else is replaced.

**Fan-out** (`engine/fan_out.rs`, `FanOutBuilder`). State: the `_fanout:` entry in the
parent's journal; for each child an instance of its own with metadata, journal and
output; and, in memory, a semaphore and a JoinSet with a task per child. `run` runs
children inline in those tasks, `workflow` lets them spawn registered workflows and
wait for them; `collect_all` and `collect_fail_fast` join. *Right when* the result is
journalled once, after all children, and is about children that ran; when a child
has one run; and when the parent always ends.

**Retention** (`engine/retention.rs`). State: the completion times in
`WORKFLOW_META`, and a task that wakes once a minute, collects the terminal instances
older than their limit in a read transaction and deletes them one by one, each with
its steps and timers. It does not look at the metadata again in between, knows nothing
of tasks, and is the only part that removes metadata. *Right when* it deletes only what
is expired at that moment, nothing that is unfinished loses its journal, nothing is
left behind that no later cycle finds and the next run of the id would meet, and what
is deleted stays so.

**Metadata and keys** (`metadata.rs`). `WORKFLOW_META`, its status, and the
composite keys `a/b/c` with their prefix scans.

**Errors, crate root** (`error.rs`, `lib.rs`): data and documentation.

*Interactions.* All parts share the database; redb serialises write transactions
and a commit is durable. The tasks mutex orders spawns against shutdown and is held
by a shutdown for its whole duration. `running` is an atomic flag that some paths
check and others do not. The poller and the workflow tasks live in the same
JoinSet, so a shutdown joins both.

*What is hard.* Nearly every user-visible operation is several transactions with
an `await`, a mutex or a callback into user code between them: claim and spawn,
remove row and claim, journal entry and metadata, output and metadata, list and
respawn. A crash, an abort or another caller may come between any two. The list
of such places, with lines, is `hazards` in `PROJECT.json`; each either names the
property that watches it or says why none does.

## 2. How the models correspond to the code

### Engine

`Engine` runs one registered workflow whose operations, in order, are the constant
`Program`, a sequence of `"step"`, `"suspend"` and `"timer"`. The position in the
program is the step key. One action is one redb transaction, or one stretch of code
between two `await` points that touches shared memory.

| variable | code |
|---|---|
| `meta` | `WORKFLOW_META`; `"absent"` when there is no row; Suspended carries the step key |
| `steps`, `output` | `STEPS` entries of the operations, and the `_output` entry |
| `timers` | `TIMERS`: no row, a row, a row whose deadline has passed |
| `running` | `EngineShared::running` |
| `engine`, `scan` | the process: down, in `start()` before or after the list of Running instances, up; what of that list has still to be spawned |
| `shutdown` | `stop()` draining, aborting, or `wait_all()` waiting: the holder of the tasks mutex |
| `tasks` | workflow tasks in the JoinSet: instance, operation, where in the operation |
| `signals` | `signal()` calls between their claim and their spawn |
| `poller` | the poller task: asleep, working through a batch, holding a removed row, past a claim |

| actions | code |
|---|---|
| `Invoke`, `Resume`, `StartSpawn` | `InvocationBuilder`, `Engine::resume`, `resume_running_instances`, all through `spawn_workflow` |
| `StepRun`, `StepOk`, `StepDeadLetter`, `StepTimeout` | `StepBuilder::run` |
| `Suspend`, `Timer` | `execute_suspend`, `Context::timer`, each as its read and its write |
| `WriteOutput`, `WorkflowError`, `HandleWorkflowResult` | `into_workflow_fn`, `handle_workflow_result` |
| `DropTask` | a panic in user code, `abort_all`, or a failed write of the metadata, which is only logged |
| `SignalClaim`, `SignalSpawn`, `SignalAbandon` | `Engine::signal` with `claim_suspended_step` |
| `Expire`, `PollCollect`, `PollRemove`, `PollClaim`, `PollSpawn`, `PollLoop`, `PollError`, `PollAbort` | time, `poll_timers`, `signal_timer`, the poller's loop |
| `Start`, `StartList`, `StartSkip`, `StartDone`, `Stop`, `WaitAll`, `StopTimeout`, `Drained`, `Crash` | the life cycle |

`Allowed` names what the environment does in an instance of the model: crashes,
failing transactions (`storage`), panics, dropped `signal()` futures, `stop`, `wait_all`, resumes of idle or of live
instances, deadlines that pass before the suspension is recorded, a `start()` that
outlasts the poller's first sleep. Each run says which it allows; nothing else
differs between them.

Decisions a reader should know:

- The workflow propagates errors with `?` and uses distinct keys for its
  operations. With a fixed program `SuspendedStepConflict` cannot arise.
- The attempts inside one step are one stay in phase `exec`: the journal is
  written only after the last attempt. `StepRetry` opens that stay up and is shown
  to implement `AtomicStep`; that each step of `Engine` implements the same module is
  what joins the two: `StepRetry` leaves out everything around a run of its step, and
  `Engine` everything inside it.
- With `storage` any transaction may fail and is then rolled back, as redb does it.
  In a task the error ends the workflow like one of its own (`WorkflowError`); when
  it is the metadata of the end that cannot be written, the task logs it and goes
  (`DropTask`); the poller abandons its pass, with the row it has just removed
  (`PollError`); `start` logs and skips an instance (`StartSkip`) or, if the listing
  fails, all of them.
- `claim_suspended_step` refuses without writing, so refused claims that change
  nothing are not steps of `SignalClaim`. `poll_timers` reads the metadata before
  `signal_timer` claims; the claim looks at it again, and a row that either check
  refuses is dropped in the same way, so the two are one step.
- `stop` and `wait_all` clear `running` and then take the mutex. A spawn between
  the two is refused (`running` is checked under the mutex) or, for the poller,
  commutes with taking the mutex, so both are one step.
- A process that was built and not started is the state `"down"`, where `signal()`
  already claims. `start` takes `&mut self`, so no call is in flight at `Start`.
- The mutex is handed to any waiter, which allows more orders than tokio's queue.
- There is one row per timer step: rows are inserted only together with an absent
  journal entry. Collisions of (deadline, serial) keys are not modelled.
- Tasks occupy `Task` slots. A spawn waits for a free slot where the code's JoinSet
  grows; the runs have as many slots as instances plus one, and one run per
  instance is what `SingleRun` shows.

### StatusChannel

`Engine` leaves out what a run tells the outside; `StatusChannel` models that, for
one instance, and takes from `Engine` that an instance is run by one task at a time
(`SingleRun`, proved). It keeps what the proof does not exclude: the metadata is
written before the state is sent and the sender removed, so the last steps of a
task may overlap with the next run of the instance.

| variable | code |
|---|---|
| `meta`, `entry`, `output` | metadata, the journal entry of the one suspension, the `_output` entry |
| `run` | the runs of the instance in the order they begin; `phase` is where the code of `spawn_workflow` / `signal_timer` and then of the task stands, `chan` the channel whose sender it holds, `replaying` the flag of its `Context` |
| `value` | the state held by each watch channel; a channel is named after the run that created it |
| `sender` | the entry of the instance in `EngineShared::senders` |
| `obs` | those who hold a receiver: in `wait()` or polling a `StatusStream`; `fresh` is the channel's version against the one the receiver has seen |

| actions | code |
|---|---|
| `Rerun`, `Claim` | the metadata becomes Running: `invoke`, `resume`, `start`; a signal or a timer |
| `GetSender`, `Spawn` | `get_or_create_sender` and its twin in `signal_timer`; subscribing the handle and `spawn_workflow_task` |
| `MissStep`, `RestoreStatus`, `SetStatus` | `replaying` cleared, a memoised message restored, `Context::set_status` |
| `Suspend`, `Finish` | `execute_suspend` / `Context::timer`, and the return of the workflow |
| `Record`, `Report`, `RemoveSender` | `handle_workflow_result` and the end of the task: metadata, `tx.send`, removal from the map |
| `DropRun`, `Teardown` | a run that is lost before it records anything; the stopped engine goes |
| `WaitLook`, `WaitClosed` | the two ways round the loop of `Invocation::wait` |
| `Subscribe`, `StreamNext`, `StreamEnd` | `Engine::subscribe` on a live channel, `StatusStream` |
| `Leave` | a handle or a stream is dropped |

- The workflow of the instance suspends once, with any number of steps and messages
  before and after, and may fail anywhere.
- `Send` follows tokio: without a receiver the value is *not* stored.
  `SetQuietly` is `send_if_modified` with a closure that answers `false`.
- A watch receiver that sees a closed channel with an unseen value is given the
  value first, hence `~fresh` in `WaitClosed` and `StreamEnd`.
- `subscribe()` and `state()` for an instance without a sender answer from the
  metadata and change nothing; they are not modelled.

### FanOut

One parent calls `fan_out` once and then returns. Which of the four ways it calls
(`run` or `workflow`, collect-all or fail-fast) is chosen in `Init` (`plan`).

| variable | code |
|---|---|
| `meta`, `output`, `result` | metadata of parent and children, the children's `_output` entries, the parent's `_fanout:` entry |
| `parent` | the parent's task in the engine's JoinSet: before the fan-out, collecting, after it with a result or an error |
| `slot` | the fan-out's own JoinSet: for each child where its task is (permit, tasks mutex, child), what it has to see on the child's channel, and its end |
| `run` | the runs under each child's instance id, in the order they began: run by the slot itself (inline), by the engine's JoinSet (registered, or resumed by `start`), or left over from a fan-out that was dropped |
| `running`, `shutdown`, `scan` | as in `Engine`; here a shutdown clears `running` (`asked`) before it has the mutex (`joining`, `aborting`) |

| actions | code |
|---|---|
| `CallFanOut`, `GiveUp`, `WriteResult`, `EndParent` | `FanOutBuilder::run` / `workflow`: `check_cached`, the spawning of slots, the two collectors, `write_result`; the parent's end |
| `Acquire`, `SpawnChild`, `Hear` | a slot: `spawn_inline_tasks`, `spawn_workflow_tasks` |
| `Return`, `Report`, `Panic`, `DropRun` | a run of a child, up to `handle_workflow_result` |
| `Invoke`, `Resume`, `DropParent` | the parent's runs begin, or are aborted |
| `Start`, `StartList`, `StartSpawn` | `start` with `resume_running_instances`, which lists and spawns the instances of one workflow name after the other, in any order of names |
| `Shutdown`, `Lock`, `StopTimeout`, `Drained`, `Crash` | `stop`, `wait_all` (a `stop` that does not time out), crashes |

- Dropping a tokio JoinSet aborts its tasks: a slot that waits is gone at once, an
  inline child at the next await of its own code, if it has one; until then it may
  still record its end. Registered children belong to the engine's JoinSet and are
  not aborted at all.
- An inline child is recorded under the parent's workflow name, so `start` finds it
  with the parent and gives it a run of the parent's function. What that run does
  is abstracted to success or failure; the fan-out it makes itself, one level down,
  is not followed.
- A child has one channel. The code may give a later run another one; then a slot
  hears only its own run, which is one of the behaviours here.
- `FanOutManifest` is written and read by nobody, so it is not a variable.
- At least one permit and one child; `fan_out` over no items makes no slots.

### StepRetry

One step of one instance, to which the workflow comes any number of times in runs
that may end anywhere. That they do not overlap is `SingleRun`.

| variable | code |
|---|---|
| `entry` | the step in `STEPS`: absent, a result, a dead letter, or what other code left there (a suspension, another type) |
| `stage`, `attempt`, `outcome`, `delay` | where `StepBuilder::run` is, its loop variable, what the closure has just returned, the last sleep |
| `call` | this run's timeout, override and engine default; another deployment may call the step otherwise |
| `answer` | what `run` has returned |
| `history`, `given` | ghosts: the outcomes of this run's attempts, the results that any run was given |

| actions | code |
|---|---|
| `CacheHit`, `CacheMiss`, `ReadFails` | the lookup, with its refusals |
| `ClosureReturns`, `Timeout` | an attempt, with `tokio::time::timeout` |
| `Persist`, `DeadLetter`, `WriteFails` | the verdict, in one write transaction |
| `Backoff`, `Retry` | the sleep between attempts |
| `Drop` | an abort at an await, a panic, a crash |

- `DelayFor` keeps the integer types of `RetryPolicy::delay_for`: a shift in a u64
  that saturates, a u32, a multiplication of a `Duration` that saturates, the cap.
  The widths are constants, so that the runs can reach the limits and the proofs hold
  for the real ones.
- With a budget of u32::MAX the number of attempts wraps to 0: a debug build panics
  at the addition, a release build at the `unreachable!` after the empty loop.
  Either way the run is gone (`panicked`).
- The run of an instance that is refused here ends with `?`, as in `Engine`.

### Retention

A database with roots, which callers invoke and resume, and inline children of their
fan-outs. Each instance has one step, which is a fan-out if it has children, and may
suspend any number of times afterwards. What a run does in between is the subject of
`Engine` and `FanOut`; here it is reduced to what it leaves in the tables, and when.

| variable | code |
|---|---|
| `meta` | `WORKFLOW_META`: the status, and for a terminal one the time since `completed_at` |
| `steps`, `timers` | the entries in `STEPS` (a result, a suspension) and the number of rows in `TIMERS` |
| `task` | the tasks that can execute an instance: `spawned`, a root's own or a child's in the JoinSet of its fan-out; `aborted`, such a task of a child after the fan-out was dropped; `listed`, the task of its own that `start()` or a timer gives a child |
| `engine`, `list` | the process, and what `start` still has to spawn |
| `hand` | the rows the poller has removed and not yet acted on |
| `cleaner` | the retention task: asleep, or at a batch |
| `ran` | history: the members of the batch that have had a run since they were collected |

| actions | code |
|---|---|
| `Begin`, `StartSpawn`, `Signal`, `PollTake`, `PollRing` | `invoke` and `resume`; `start`'s list; a signal; the poller |
| `FanOut`, `TakePermit`, `Join`, `GiveUp` | `spawn_inline_tasks`, `collect_all`, `collect_fail_fast` |
| `Step`, `Replay`, `Park`, `Suspend`, `Finish`, `Vanish` | a run, to its end, a panic or an abort |
| `Collect`, `Delete`, `DeleteFails`, `CleanerLoop` | `collect_expired_metadata`, `delete_instance_data`, the loop |
| `Tick`, `Start`, `Stop`, `Stopped`, `Crash` | time, the life cycle |

- `Delete` does what its three removals do: the metadata of the exact key; the key
  range of the steps, which begins with the id and a slash and so takes the steps of
  inline children along; the rows of this instance. The metadata and the rows of
  children stay, to be deleted with the child's own metadata.
- `start`'s list is a prefix scan: an inline child that a crash, a panic or an abort
  left Running is on it and is run by itself, under its parent's workflow, be the
  parent running, finished or deleted. Such a run may suspend and be woken by a timer;
  the closure of a fan-out may not (`InClosure`).
- When a fan-out is dropped, by `GiveUp`, a panic of the parent or the abort of its
  task, a child's task goes on to its next await (`aborted`) and may still write;
  nobody waits for it, `stop` included. At most one such task of a child is followed:
  a second would have to outlive a whole rerun of the parent without an await.
- `Begin` takes an instance nobody runs, in whatever state it and the batch are; a
  resume of an instance that is being run is `Engine`'s subject (`resume_live`).
- `Allowed` opens crashes, stops, storage errors and panics. The run has all of them, and
  so have the theorems. Storage errors are those of deletions and of metadata
  writes that are only logged; what fails with an error instead changes nothing here.
- The poller's list holds one row of an instance at a time, and a row leaves the
  table when the list is read: only a deletion could tell the difference, and it
  removes the row anyway.
- A collection and a deletion await nothing, so `stop` never cuts them.
- A registered workflow that a fan-out invokes has keys, metadata and a retention of
  its own and is a root here; the children of a child that `start` runs by itself are not
  followed. `_input` and `_output` have keys in the range of the steps and share
  their fate. Ages stop counting at the longest retention. A record of the metadata that
  cannot be decoded, which this code never writes, is not modelled.

## 3. What the runs check

Runs that pass:

| run | instance | states | shows |
|---|---|---|---|
| `safety` | step, timer; 2 instances, 3 slots, 2 signallers, 2 values; everything allowed that `Exclusive` (section 4) allows, storage errors among it | 507 k | `TypeOK`; `SingleRun`, `BusyIsRunning`: one runner, and it is visible in the metadata; `PrefixJournal`, `MetadataAgrees`: what is in the database is consistent; `MemoStable`: results are final |
| `recovery` | step, suspend, timer; 1 instance, 2 slots, 2 signallers, 2 values; crash, stop, resume, short timers | 16 k | `NoOrphanRunning`: nothing Running is left behind while the engine serves; `ImplementsDurable`: refinement of the abstract workflow; `StepsAreAtomic`: each step of each instance is an `AtomicStep`, one closure at a time and only without a result; under fairness `RunningSettles` and `ShutdownReturns` |
| `timers` | timer; 2 instances, 3 slots, 1 signaller; crash, panics, dropped futures, stop | 221 k | `TimerLostInHand`: a timer that waits loses its row only out of the poller's hand, to a crash (or a storage error, which this run leaves out because a poller that fails every time would never fire); under fairness `TimerFires`: whoever waits for a timer is woken, unless the timer is lost so |
| `retry` | 2 results; every combination of timeout, 8 overrides and 2 defaults; u32 of 3 bits, u64 of 4, durations to 12 | 7.4 k | `StepTypeOK`; `AnswerIsEarned`; `OneResult`: nobody acts on a result a replay would not return; `NothingOverwritten`; `DelayDoubles`; `ImplementsAtomicStep`; under fairness `StepEnds` |
| `status` | 3 runs, 1 observer; dropped runs, the engine dropped | 651 k | `StatusTypeOK`; `OutputReadable`: Completed is answered only when its output is there; `AnswerIsRecorded`: a final answer is the result of a run that had the handle's channel, and a terminal one is in the metadata by then; `NeverUnreachable`: no `wait()` panics; `NoWakeUpLost`: who waits has been woken to a final state, or a run is still to report on that channel; `ImplementsDurableWorkflow`: overlapping runs are one durable workflow; under fairness `WaitAnswers` and `StreamEnds` |
| `fanout` | 2 children, 1 permit, 2 runs per child; all faults, all four kinds of fan-out | 768 k | `FanTypeOK`; `SuccessBacked`, `CompletedHasAll`: what the result, the metadata and the channels say of the children is backed by their outputs, whichever run said it; `SlotAttended`: no slot of a collecting parent waits for a run that is gone; `ImplementsDurableWorkflow`: the parent is a durable workflow whose one step is the fan-out, so that a restart or a resume reads the result; under fairness `FanOutEnds`: while the engine stays up the parent is not kept waiting |
| `retention` | a parent that suspends, has a retention of its own and an inline child under the same; up to 2 timer rows; crash, panics, stop, failing writes and deletions | 171 k | `RetentionTypeOK`; `OnlyExpired`: what is deleted is expired, or was resumed since it was collected; `LiveFamilyKept`: a family whose root is not finished keeps its results; `NothingLost`: no entries or rows without metadata or a run; `StaysDeleted`: only a caller, a parent or an earlier list brings a deleted instance back; under fairness `ExpiredGoes` |

In `safety` and `timers` two instances let the poller hold a row of one while the other is claimed,
resumed or listed; two signallers and the poller make three rivals for one step;
where journals matter, the program has an operation before the suspension, so that a
hole can show. Counters do not occur in `Engine`:
its state space is finite without bounds. `recovery` has one instance, because its
refinement and its liveness are costly and every action but the poller's and
`start`'s touches one instance; its safety properties and refinements are proved for any number. In
`StatusChannel` `MaxRuns` bounds the
runs; three let one task still be ending while a second has a channel of its own
and a third begins. One observer suffices for what a `wait()` sees, since others
matter to it only by being receivers, which `Leave` and return cover; two observers
with two runs were checked as well. In `FanOut` one permit for two children makes one
wait while the other runs, fails or is lost; `MaxRuns` bounds the runs of one child
at a time at two, the one of the fan-out and the one of `start`. With two permits,
the same properties were found to hold too. In `StepRetry` a budget can be the largest
number of its type, one less, and small; the delays meet the cap, the limit of the
multiplier and that of `Duration`; `history` needs no bound, since a run has at most as
many attempts as its budget allows. In `Retention` an id is deleted and used again
without bound; retentions of zero and one tick separate the default from the override
and make collection, deletion and a resume in between arbitrarily close. Two rows let
one that a signal left behind meet the next suspension. The child does not suspend in
the run; its safety properties with a suspending child and one row were checked too (1.5 M
states), and are proved for all families. Deadlock is not checked for `status`
(`CHECK_DEADLOCK FALSE`): the runs are bounded, and when the last has ended and the
observers have answers, nothing is left to do. Symmetry is used in `safety` only, which
checks no liveness.

`timers` leaves out early deadlines and resumes, because the run `timer_short` shows
what they do. One timer in each of two instances lets the poller hold a batch of two,
and a row of one while the other is set, signalled or restarted; that a second timer
of the same instance changes nothing is part of the proof.

`recovery` excludes `panic`, `cancel` and `storage`, and its `ResumeOnStart` is TRUE: after
a panic in user code, a dropped `signal()` or a failed write of the metadata the code
leaves an instance Running until the next start, and `NoOrphanRunning` does not hold
of it. The documentation says so only of aborted tasks (`Engine::stop`,
`engine_impl.rs:685-688`) and is silent about the others. `safety` allows all three.

**Fairness.** A spawned task is polled until it ends, and its closures return
(`TaskStep`); the poller loops; a signal past its claim, `start` and the two
shutdowns run on; deadlines pass; `stop`'s timeout expires and aborted tasks are
dropped; a dead process is started again. All weak: each is enabled until it
happens, apart from the mutex, which is only ever withheld by a shutdown. Nothing
makes a user call `invoke`, `resume`, `signal` or `stop`. `TimerWakes`,
`TimerFires` and `RunningSettles` are conditioned on the engine eventually staying up. In
`StatusChannel` a run that has begun proceeds to its end, by suspending, completing
or failing, and an observer that has something to see looks (`Proceed`, `Observe`,
weak, per run and per observer): the runtime polls every task it holds. Status
messages are no part of the fairness, and no run need begin. In `FanOut` runs, slots,
the parent, `start` and a shutdown proceed, each weakly fair; faults, calls,
`stop`'s timeout and the death of aborted tasks are not, and `FanOutEnds` speaks of an
engine that is not stopped again. In `StepRetry` tokio's timers go off and the verdict
is written; nothing makes a closure return, so `StepEnds` is about steps with a timeout.
In `Retention` the retention task is polled, and a deletion that is tried in cycle
after cycle is not refused by the storage every time (strong, since each failure
takes it off the batch); `ExpiredGoes` speaks of an engine that stays up.

`NeverUnreachable`, `WaitAnswers` and `StreamEnds` say nothing once a run was
dropped. The code then does what they exclude: a run that panicked leaves its
sender in the map, so that its observers wait for the next run, and a `wait()` that
is pending when an engine stopped by abort is dropped reaches its `unreachable!()`.

Runs that must find a violation, each of a sentence the documentation or a comment
states (quoted under `findings`):

| run | property | what happens |
|---|---|---|
| `timer_crash` | `TimerSurvivesCrash` | the row is removed in one transaction and the step claimed in the next; a crash in between leaves a suspended timer that nothing wakes |
| `timer_short` | `TimerWakes` | a deadline that passes before Suspended is in the metadata: the poller removes the row, skips the instance, and the timer is lost |
| `fanout_hang` | `WaitAllReturns` | `wait_all` holds the mutex and joins the parent; the parent joins a slot; the slot awaits the mutex to spawn its child |
| `fanout_twice` | `OneRunPerChild` | after a crash `start` spawns every Running child, and the parent spawns its children again |
| `fanout_stop` | `ChildrenRan` | `stop` has cleared `running`; a slot then gets the mutex and is refused; the refusal becomes the child's result, and the parent completes |

`timer_short` and the last three do not check for deadlock: with few faults allowed, a system that was
stopped or hangs has nothing left to do there.

More places where words and code part, which the models contain and no run
singles out:

- `wait_all` also hangs when the poller is past a claim: `wait_all` holds the mutex and
  joins the poller, which awaits it (`execution.rs:327`). `ShutdownReturns` holds of
  `stop` because of its timeout.
- `start` spawns the poller before it lists the Running instances. If that takes longer
  than the poller's first sleep (`slow_start` in `Allowed`), an instance a timer has
  just claimed is in the list and runs twice, although `engine_impl.rs:149-152` speaks of
  instances "that were `Running` when the process last exited".
- `resume` of an instance that is being run (`resume_live` in `Allowed`) makes a second
  task that executes a step again and replaces its memoised result, against
  `engine_impl.rs:304-306`.
- A task writes Failed to the metadata and sends it afterwards: after a `resume` in
  between, `wait()` on the new handle takes the old failure for its own.
- Fail-fast promises to cancel the remaining children (`context.rs:1182-1183`);
  registered ones run on. Inline children that were cancelled stay Running, and the
  next `start` runs them.
- `stream.rs:13-15` says a stream ends when the instance is "replaced by a new run
  (e.g. after `Engine::signal`)", but the sender of a suspended instance stays in the
  map and the next run uses it, so the stream goes on.
- The channel says Suspended (`context.rs:683`, `:630`) before `handle_workflow_result`
  says so in the metadata. A `wait()` that looks in between is answered, and the
  `signal()` sent on that answer is refused as superseded (`error.rs:111-112`) although
  nobody claimed the step.
- A metadata write that fails is only logged, and the state is sent all the same
  (`execution.rs:64`): observers see an end while the database says Running, and the
  next start runs the instance again. With `storage` a timer can be lost like in
  `timer_crash`.
- The retry budget and the backoff live in the task (`context.rs:1085`): after a
  restart or a resume they begin anew, so a step may be tried more often than its
  policy says. A budget of `u32::MAX` (`context.rs:1083`, `:1169`) panics.
- With a base delay below 7 ns the u32 multiplier (`retry.rs:107-109`) saturates before the
  default cap of 30 s is reached; the delay stops growing there.
- An instance that is resumed between the retention task's collection and its deletion
  is deleted while it runs (`retention.rs:34`). If that run suspends it is recorded
  without the results it had; if it panics or is aborted, what it wrote since is under
  no metadata and the next run of the id finds it. `OnlyExpired` and `NothingLost` name
  these cases as their exceptions, and TLC refutes both without them.
- A child's retention counts from the child's own end (`retention.rs:101`). It can be
  deleted while its parent waits for its siblings; a parent that then fails and is
  resumed runs the child's finished steps again, against `engine_impl.rs:304-306`
  (cached steps are skipped). It is the exception of `LiveFamilyKept`.
- A child that was aborted or panicked stays Running and is never collected
  (`retention.rs:91`). The next `start` runs it, after its parent's deletion too, which has
  taken its steps: it executes them again. If it suspends before that deletion, its
  entry goes with the parent's, no timer can claim it, and its row stays for good.
- A timer row in the poller's hand outlives the deletion of its instance
  (`execution.rs:215`). It cannot bring the instance back (`StaysDeleted`), but wakes the
  next life of the id early if that suspends at the same key in time.

Every property of a passing run has a mutant in `PROJECT.json`: an operator
`..._Bug` in the module that a plausible mistake would put in place of the right one,
under which TLC finds that property violated.

## 4. What is proved

`EngineProofs` holds for every `Instance`, `Task`, `Signaller`, `Value`, `Program`
and `Allowed`, from the named assumptions on the constants in `Engine`.

- `TypeCorrect`: `Spec => []TypeOK`. `TypeOK` is not inductive: a task that writes a
  journal entry must be at an operation (`TasksOK`) and the poller that claims must
  have a row (`PollerOK`). `TypeInv` is the three together.
- `SingleRunCorrect`, `BusyIsRunningCorrect`: under `Exclusive` (callers resume only
  idle instances, the poller does not wake during `start`), `Spec => []SingleRun`
  and `Spec => []BusyIsRunning`.

The argument of the second. Call a task, a signaller or poller past its claim, and
an entry of start's list the *holders* of an instance. `SingleRun` alone is not
inductive: that a claim finds the instance free is known only because a held
instance is Running and a claim wants it Suspended, which is `BusyIsRunning`; that
in turn is preserved when a task ends only because no other holder exists, which is
`SingleRun`. `Quiet` adds what the life cycle excludes: no task is alive when
`start` reads its list, signallers and poller are idle during it, nobody runs while
the process is down. `ExclusiveInv` is the conjunction. Its steps are of three
kinds, each with a lemma: no new holder (`NoNewHolder`), a spawn that hands the
instance over (`SpawnKeeps`), a claim (`ClaimFindsFree`).
Both parts of `Exclusive` are needed: without either TLC finds an instance with two
runs (section 3 says how).

`JournalProofs` goes on from there, under the same assumption unless said otherwise.

- `PrefixJournalCorrect`, `MetadataAgreesCorrect`. The strengthening says what a task knows
  (`JournalInv`): it has memoised every operation before its own, and what it has read
  at its own is still so. That no second task disturbs this is `SingleRun`; that a
  claim finds another instance, since the task's is Running, is `BusyIsRunning`. So
  the induction is one over `ExclusiveInv` and `JournalInv` together.
- `MemoStableCorrect`: a write needs a task that has read no result, and by `JournalInv`
  what it has read is still so.
- `RefinementCorrect`: `Spec => ImplementsDurable`. Each step maps to a step of
  `DurableWorkflow` or to a stutter; the invariant supplies the abstract guards.
- `NoOrphanCorrect`, under `Attentive` (no panics, storage errors or dropped signals, and
  `start` resumes): holders change only hands until the metadata is settled.
- `StepsAreAtomicCorrect`: each step of each instance implements `AtomicStep`. A task
  enters the closure only where `JournalInv` says that there is no result, and no other
  task is in a closure of the instance (`SingleRun`), so that an execution begins where
  none is under way and its end leaves none behind (`MoveExecutes`). Claims write where a
  suspension is and spare the steps; a crash or a dropped task is an execution that
  leaves no trace.
- `TimerLostInHandCorrect`, under `Unhurried` (no short deadline, no resume): through
  crashes, restarts, storage errors and shutdowns, whoever finds an overdue row of a
  step that waits finds its instance Suspended (`RowInv`), so the claim is not refused;
  a row is lost only in hand, to `Crash` or `PollError`.
- `TimerBackedCorrect` is what follows of it under `Patient`, which excludes these two as
  well. The assumptions are what the runs `timer_crash` and `timer_short` refute it
  without.

`RetryProofs` holds for every `Value`, `Call`, and all widths. `StepTypeCorrect`,
`AnswersEarned`, `ResultsAgree`, `ResultsFinal` and the refinement `StepIsAtomic` come
from one invariant: `history` has as many outcomes as attempts have returned, all but the
last retryable; a run that executes found no result; and what was given is journalled.
`DelaysDouble` (`Spec => DelayDoubles`) adds that a run keeps its last delay (`DelayKept`),
and rests on the doubling of powers of two. The provers know nothing of `^`, so it comes
from counting: `2 ^ n` is the number of subsets of `1..n` (`PowerIsCardinality`, from the
library's theorem on the cardinality of a powerset), and each subset of `1..n` is
extended in two ways. The assumption on the widths, that a u64 is wider than a u32,
is needed: otherwise the multiplier would jump to its limit without having doubled.

`RetentionProofs` holds for every family of instances, all retentions, every `MaxRows` and
every `Allowed`; nothing is assumed of what callers, tasks or the environment do.

- `RetentionTypeCorrect`, `DeletesOnlyExpired`: `Spec => []RetentionTypeOK` and
  `Spec => OnlyExpired`. `OnlyExpired` is about one step and follows from what holds
  before it: a member of the batch is expired or in `ran`, and one that is being run is
  in `ran` (`BatchNoted`). The second half is what makes it inductive: a
  task that ends writes the metadata of a batch member long after it was spawned, so
  it must have been noted when it was spawned or collected. A claim needs no note:
  what is Suspended and in the batch has run since.
- `LiveKeepJournal`: `Spec => LiveFamilyKept`. Only a deletion forgets a result
  (`OnlyDeleteForgets`), of the instance deleted or of its children; by `BatchNoted` a root
  that is not finished is in `ran`.
- `DeletionIsComplete`, `DeletedStayDeleted`: `Spec => NothingLost` and
  `Spec => StaysDeleted`. The steps fall into few kinds (`NextCases`): what a run does
  concerns its own instance and makes nobody active (`RunOf`), which for a dropped
  fan-out is a fact about the tasks of its children (`OrphanedFacts`); a wake-up makes an
  instance Running that had metadata, was listed, or is begun by a caller (`WakeOf`).

`StatusProofs` holds for every `MaxRuns`, `Observer` and `Faults`.

- `StatusTypeCorrect`: `Spec => []StatusTypeOK`, from `StatusInv`: a run has a
  channel from the phase `sender` on and a result from `returned` on, and an
  observer at work has a channel. Without these a send could reach no channel.
- `AnswersRecorded`, `OutputReadableCorrect`: `Spec => []AnswerIsRecorded` and
  `Spec => []OutputReadable`. `EvidenceInv` follows the evidence of an end from place to
  place: a run whose result is Completed has its output in the journal; a channel
  that holds a final state, or an observer that has been answered one, implies a run
  with that channel and that result, recorded if it is terminal. It is inductive
  because a result once returned is final and a run keeps its channel
  (`ResultsLast`), although the channel may pass to later runs and be reset at any
  time.
- `WakeUpsKept`, `NeverUnreachableCorrect`: `Spec => []NoWakeUpLost` and
  `Spec => []NeverUnreachable`. While no run was dropped, who waits has been woken to a
  final state or has a run that will still report (`AnswerDue`): a report is stored,
  and wakes, because the one who waits is a receiver, and whoever overwrites it is a
  run that reports later. A channel without senders has no such run left. This is the
  safety half of `WaitAnswers`.
- `RunsAreDurable`: `Spec => ImplementsDurableWorkflow`. What a run records fits the
  abstract workflow because the run is the last that began (`LastBegun`), its metadata
  is still Running (`LiveIsRunning`) and nobody has touched the suspension it returned
  from (`ResultFits`); `DurableInv` is their conjunction.

`FanOutProofs` holds for every finite, nonempty `Child`, every `Concurrency` and
`MaxRuns`, and all `Faults`.

- `FanTypeCorrect`: `Spec => []FanTypeOK`; that the result holds no panic needs the
  guard of `WriteResult`, the rest is inductive as it stands.
- `SuccessBackedCorrect`, `CompletedHasAllCorrect`, `ResultFinalCorrect`, from one
  invariant `ResultInv`. `Backed` follows a success from the run that returned, over the
  metadata, the channel and the slot that heard of it, to the result, and has the
  output in the journal at each stage. `ResultKnown` says
  where the parent may stand with and without a result: it collects only without
  one, so `WriteResult` cannot replace one, and it goes on only with one. No part is
  inductive alone: that the result is backed needs the slots, the slots need the
  runs, and failing fast with a failed child is excluded where the result is
  written, not where the parent ends.
- `SlotsAttended`: `Spec => []SlotAttended`. That a slot which waits has subscribed, and
  that only slots of registered children listen to a channel (`Listens`), is the
  strengthening (`AttendInv`). A run tells its slot of its end in the step in which it
  goes, and a run of `start` only adds to those at work.
- `ParentIsDurable`: `Spec => ImplementsDurableWorkflow`, from `ResultInv` and the fact
  that a parent at work is Running in the metadata (`ParentIsRunning`).

Only model-checked: the liveness properties `TimerFires`, `RunningSettles`, `ShutdownReturns`,
`WaitAnswers`, `StreamEnds`, `FanOutEnds`, `ExpiredGoes` and `StepEnds`. Liveness under
fairness, and anything that speaks of ENABLED, is left to TLC for good; so are results
of recursive definitions for every input, which need induction over data that the
installed provers cannot instantiate. Every invariant, every action property and every
refinement that a passing run checks is proved, each under the assumptions named
above.

## 5. Plan

Done: `Engine` with its refinement, `StatusChannel`, `FanOut`, `StepRetry`, `Retention`,
and proofs for each. What is left, in this order:

1. `FanOut`, further: children that suspend, panics of registered children, what the
   run that `start` gives an inline child does to the instances below it.
2. `TimerTable` and `Keys`: (deadline, serial) keys across restarts; composite keys
   and prefix scans, checked as operators over bounded inputs.
3. `state()` and the snapshot path of `subscribe()`, added to `StatusChannel`: what
   they may report of an instance that begins, ends or suspends meanwhile.
4. Deployments: a whole program that changes between runs. `StepRetry` has it for one
   step.

## 6. Not modelled

The snapshots of `state()` and `subscribe()`, suspending children, colliding timer
keys and the encoding of keys (see the plan). Serialisation formats, error texts,
tracing; of type tags only that an entry of another type is refused (`StepRetry`).
Several registered workflows: they share nothing but the poller, the mutex and the
flags, which instances of one workflow share as well. Storage errors in fan-outs and
on the status channel. Data races do not arise: the crate has no unsafe code, and shared memory is reached through atomics,
mutexes and transactions.
