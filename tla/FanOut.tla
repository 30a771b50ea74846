------------------------------- MODULE FanOut -------------------------------
(***************************************************************************)
(* A parent workflow that fans out to children, once: Context::fan_out     *)
(* with inline closures or a registered workflow, in collect-all or        *)
(* fail-fast mode, with its semaphore; the children's metadata and         *)
(* outputs; and start, stop, wait_all and crashes around them.             *)
(*                                                                         *)
(* The parent is run by one task at a time (SingleRun of module Engine),   *)
(* and it passes the errors of the fan-out on.  Children neither suspend   *)
(* nor fan out further; of registered ones the code does not panic.        *)
(*                                                                         *)
(* A child has one channel here, whoever runs it.  The code may give a     *)
(* later run another, so that a slot hears less than it does here, but     *)
(* never less than the end of the run it has spawned.                      *)
(***************************************************************************)
EXTENDS Integers, SequencesExt

CONSTANTS
  Child,        \* the items, each with its child instance
  Concurrency,  \* FanOutBuilder::concurrency
  MaxRuns,      \* bound on the tasks that run one child at the same time
  Faults        \* what happens besides

ASSUME ConcurrencyAssumption == Concurrency \in Nat \ {0}
ASSUME MaxRunsAssumption == MaxRuns \in Nat \ {0}
ASSUME ChildAssumption ==
  IsFiniteSet(Child) /\ Child # {} /\ "parent" \notin Child
ASSUME FaultsAssumption ==
  Faults \subseteq {"fail", "panic", "crash", "stop", "wait_all", "resume"}

VARIABLES
  plan,      \* how the parent's code fans out
  meta,      \* WORKFLOW_META of the parent and of the children
  output,    \* the children with an `_output` entry
  result,    \* the `_fanout:` entry in the parent's journal
  parent,    \* the parent's task
  slot,      \* the tasks of the fan-out's own JoinSet, one for each child
  run,       \* the tasks that run under a child's instance id
  running,   \* EngineShared::running
  shutdown,  \* stop() or wait_all()
  scan       \* resume_running_instances: names to list, instances to spawn

database == <<meta, output, result>>
engine == <<running, shutdown, scan>>
vars == <<plan, meta, output, result, parent, slot, run, running, shutdown,
          scan>>

Who == Child \cup {"parent"}
NoResult == [c \in Child |-> "none"]
NoSlot == [phase |-> "none", heard |-> "none"]
NoScan == [list |-> {}, spawn |-> {}]

\* A slot waits for a permit, for the tasks mutex (registered children only),
\* and for its child; it ends "ok", "err" or "panicked".
Done == {"ok", "err", "panicked"}
\* A run is in the child's code or has returned from it.
RunState == [phase : {"work", "ok", "err"}, by : {"slot", "aborted", "engine"}]

FanTypeOK ==
  /\ plan \in [registered : BOOLEAN, failFast : BOOLEAN]
  /\ meta \in [Who -> {"absent", "Running", "Completed", "Failed"}]
  /\ output \subseteq Child
  /\ result \in [Child -> {"ok", "err"}] \cup {NoResult}
  /\ parent \in {"off", "run", "collect", "after", "err"}
  /\ slot \in [Child ->
       [phase : {"none", "permit", "lock", "child"} \cup Done,
        heard : {"none", "Started", "Completed", "Failed"}]]
  /\ run \in [Child -> Seq(RunState)]
  /\ \A c \in Child : Len(run[c]) <= MaxRuns
  /\ running \in BOOLEAN
  /\ shutdown \in {"none", "asked", "joining", "aborting"}
  /\ scan \in [list : SUBSET {"parents", "children"}, spawn : SUBSET Who]

Init ==
  /\ plan \in [registered : BOOLEAN, failFast : BOOLEAN]
  /\ meta = [w \in Who |-> "absent"]
  /\ output = {}
  /\ result = NoResult
  /\ parent = "off"
  /\ slot = [c \in Child |-> NoSlot]
  /\ run = [c \in Child |-> <<>>]
  /\ running = FALSE
  /\ shutdown = "none"
  /\ scan = NoScan

-----------------------------------------------------------------------------
(* Runs of a child.                                                        *)

\* The tasks mutex is held for the whole of a shutdown.
MutexFree == shutdown \notin {"joining", "aborting"}

\* Nothing is left in EngineShared::tasks.
JoinSetEmpty ==
  /\ parent = "off"
  /\ \A c \in Child : \A k \in DOMAIN run[c] : run[c][k].by # "engine"

\* A run of a child begins and makes the metadata Running.
BeginRun(c, by) ==
  /\ Len(run[c]) < MaxRuns
  /\ run' = [run EXCEPT ![c] = Append(@, [phase |-> "work", by |-> by])]
  /\ meta' = [meta EXCEPT ![c] = "Running"]

\* Children that answer through the JoinSet need no output of their own.
Return_Bug(c, k) ==
  /\ run[c][k].phase = "work"
  /\ \/ /\ run' = [run EXCEPT ![c][k].phase = "ok"]
        /\ output' = IF run[c][k].by = "slot" THEN output ELSE output \cup {c}
     \/ /\ "fail" \in Faults
        /\ run' = [run EXCEPT ![c][k].phase = "err"]
        /\ UNCHANGED output
  /\ UNCHANGED <<plan, meta, result, parent, slot, engine>>

\* The child's code returns, a success with its output written.
Return(c, k) ==
  /\ run[c][k].phase = "work"
  /\ \/ /\ run' = [run EXCEPT ![c][k].phase = "ok"]
        /\ output' = output \cup {c}
     \/ /\ "fail" \in Faults
        /\ run' = [run EXCEPT ![c][k].phase = "err"]
        /\ UNCHANGED output
  /\ UNCHANGED <<plan, meta, result, parent, slot, engine>>

\* A slot that waits on the channel hears of successes only.
Report_Bug(c, k) ==
  /\ run[c][k].phase \in {"ok", "err"}
  /\ LET end == IF run[c][k].phase = "ok" THEN "Completed" ELSE "Failed"
     IN  /\ meta' = [meta EXCEPT ![c] = end]
         /\ slot' = [slot EXCEPT ![c] =
              IF run[c][k].by = "slot"
              THEN [NoSlot EXCEPT !.phase = run[c][k].phase]
              ELSE IF @.heard = "none" \/ end = "Failed" THEN @
              ELSE [@ EXCEPT !.heard = end]]
  /\ run' = [run EXCEPT ![c] = RemoveAt(@, k)]
  /\ UNCHANGED <<plan, output, result, parent, engine>>

\* handle_workflow_result and the end of the task: the metadata, and the channel,
\* heard by a slot that waits on it.  An inline child also hands its result to
\* its slot.
Report(c, k) ==
  /\ run[c][k].phase \in {"ok", "err"}
  /\ LET end == IF run[c][k].phase = "ok" THEN "Completed" ELSE "Failed"
     IN  /\ meta' = [meta EXCEPT ![c] = end]
         /\ slot' = [slot EXCEPT ![c] =
              IF run[c][k].by = "slot"
              THEN [NoSlot EXCEPT !.phase = run[c][k].phase]
              ELSE IF @.heard = "none" THEN @ ELSE [@ EXCEPT !.heard = end]]
  /\ run' = [run EXCEPT ![c] = RemoveAt(@, k)]
  /\ UNCHANGED <<plan, output, result, parent, engine>>

\* The code of an inline child panics: its metadata stays Running.
Panic(c, k) ==
  /\ "panic" \in Faults
  /\ run[c][k].phase = "work"
  /\ run[c][k].by = "slot"
  /\ run' = [run EXCEPT ![c] = RemoveAt(@, k)]
  /\ slot' = [slot EXCEPT ![c] = [NoSlot EXCEPT !.phase = "panicked"]]
  /\ UNCHANGED <<plan, database, parent, engine>>

\* An aborted task is dropped at an await of the child's code, if it gets there.
DropRun(c, k) ==
  /\ run[c][k].phase = "work"
  /\ \/ run[c][k].by = "aborted"
     \/ run[c][k].by = "engine" /\ shutdown = "aborting"
  /\ run' = [run EXCEPT ![c] = RemoveAt(@, k)]
  /\ UNCHANGED <<plan, database, parent, slot, engine>>

-----------------------------------------------------------------------------
(* The slots: spawn_inline_tasks and spawn_workflow_tasks.                 *)

\* A permit is never given back.
Permits_Bug ==
  Concurrency
    - Cardinality({c \in Child : slot[c].phase \notin {"none", "permit"}})

\* A permit is held until the slot's task ends.
Permits ==
  Concurrency - Cardinality({c \in Child : slot[c].phase \in {"lock", "child"}})

\* The slot takes a permit.  An inline child is run at once, by the slot.
Acquire(c) ==
  /\ slot[c].phase = "permit"
  /\ Permits > 0
  /\ IF plan.registered
     THEN /\ slot' = [slot EXCEPT ![c].phase = "lock"]
          /\ UNCHANGED <<meta, run>>
     ELSE /\ BeginRun(c, "slot")
          /\ slot' = [slot EXCEPT ![c].phase = "child"]
  /\ UNCHANGED <<plan, output, result, parent, engine>>

\* spawn_workflow for a registered child; NotStarted is the child's error.
SpawnChild(c) ==
  /\ slot[c].phase = "lock"
  /\ MutexFree
  /\ IF running
     THEN /\ BeginRun(c, "engine")
          /\ slot' = [slot EXCEPT ![c] =
               [phase |-> "child", heard |-> "Started"]]
     ELSE /\ slot' = [slot EXCEPT ![c] = [NoSlot EXCEPT !.phase = "err"]]
          /\ UNCHANGED <<meta, run>>
  /\ UNCHANGED <<plan, output, result, parent, engine>>

\* The state of the channel is passed on.
Hear_Bug(c) ==
  /\ slot[c].heard \in {"Completed", "Failed"}
  /\ slot' = [slot EXCEPT ![c] = [NoSlot EXCEPT !.phase = slot[c].heard]]
  /\ UNCHANGED <<plan, database, parent, run, engine>>

\* The slot sees a terminal state.
Hear(c) ==
  /\ slot[c].heard \in {"Completed", "Failed"}
  /\ slot' = [slot EXCEPT ![c] = [NoSlot EXCEPT !.phase =
       IF slot[c].heard = "Completed" /\ c \in output THEN "ok" ELSE "err"]]
  /\ UNCHANGED <<plan, database, parent, run, engine>>

-----------------------------------------------------------------------------
(* The parent.                                                             *)

\* The fan-out's JoinSet is dropped: slots go at once, inline children when
\* they next await.
DropSlots ==
  /\ slot' = [c \in Child |-> NoSlot]
  /\ run' = [c \in Child |-> [k \in DOMAIN run[c] |->
       IF run[c][k].by = "slot" THEN [run[c][k] EXCEPT !.by = "aborted"]
                                ELSE run[c][k]]]

\* spawn_workflow for the parent.
BeginParent ==
  /\ parent = "off"
  /\ running
  /\ MutexFree
  /\ parent' = "run"
  /\ meta' = [meta EXCEPT !["parent"] = "Running"]
  /\ UNCHANGED <<plan, output, result, slot, run, running, shutdown>>

Invoke ==
  /\ meta["parent"] = "absent"
  /\ scan = NoScan
  /\ BeginParent
  /\ UNCHANGED scan

Resume ==
  /\ "resume" \in Faults
  /\ meta["parent"] # "absent"
  /\ scan = NoScan
  /\ BeginParent
  /\ UNCHANGED scan

\* The journal is not looked at.
CallFanOut_Bug ==
  /\ parent = "run"
  /\ parent' = "collect"
  /\ slot' = [c \in Child |-> [NoSlot EXCEPT !.phase = "permit"]]
  /\ UNCHANGED <<plan, database, run, engine>>

\* The result is in the journal, or a slot is spawned for every child.  (The
\* manifest that is written as well is read by nobody.)
CallFanOut ==
  /\ parent = "run"
  /\ IF result # NoResult
     THEN parent' = "after" /\ UNCHANGED slot
     ELSE /\ parent' = "collect"
          /\ slot' = [c \in Child |-> [NoSlot EXCEPT !.phase = "permit"]]
  /\ UNCHANGED <<plan, database, run, engine>>

\* Only a panic ends the collection.
Ends_Bug(c) == slot[c].phase = "panicked"

\* What makes the collection end at once: a panic, or failing fast.
Ends(c) ==
  \/ slot[c].phase = "panicked"
  \/ slot[c].phase = "err" /\ plan.failFast

GiveUp ==
  /\ parent = "collect"
  /\ \E c \in Child : Ends(c)
  /\ parent' = "err"
  /\ DropSlots
  /\ UNCHANGED <<plan, database, engine>>

\* All slots have been joined and the result is journalled.
WriteResult ==
  /\ parent = "collect"
  /\ \A c \in Child : slot[c].phase \in Done /\ ~Ends(c)
  /\ result' = [c \in Child |-> slot[c].phase]
  /\ parent' = "after"
  /\ slot' = [c \in Child |-> NoSlot]
  /\ UNCHANGED <<plan, meta, output, run, engine>>

\* The parent's code returns, and its end is recorded.
EndParent ==
  /\ \/ parent = "after" /\ meta' = [meta EXCEPT !["parent"] = "Completed"]
     \/ /\ parent = "err" \/ (parent = "after" /\ "fail" \in Faults)
        /\ meta' = [meta EXCEPT !["parent"] = "Failed"]
  /\ parent' = "off"
  /\ UNCHANGED <<plan, output, result, slot, run, engine>>

\* abort_all drops the parent at an await, and the fan-out with it.
DropParent ==
  /\ shutdown = "aborting"
  /\ parent \in {"run", "collect", "after"}
  /\ parent' = "off"
  /\ DropSlots
  /\ UNCHANGED <<plan, database, engine>>

-----------------------------------------------------------------------------
(* The engine.                                                             *)

Start ==
  /\ ~running
  /\ shutdown = "none"
  /\ JoinSetEmpty
  /\ running' = TRUE
  /\ scan' = [NoScan EXCEPT !.list =
       IF plan.registered THEN {"parents", "children"} ELSE {"parents"}]
  /\ UNCHANGED <<plan, database, parent, slot, run, shutdown>>

\* Inline children are recorded under the name of the parent's workflow.
Instances(name) ==
  IF ~plan.registered THEN Who
  ELSE IF name = "parents" THEN {"parent"} ELSE Child

StartList ==
  /\ scan.spawn = {}
  /\ \E name \in scan.list :
       scan' = [list |-> scan.list \ {name},
                spawn |-> {w \in Instances(name) : meta[w] = "Running"}]
  /\ UNCHANGED <<plan, database, parent, slot, run, running, shutdown>>

\* start() spawns what it has listed, in the order of the keys (a parent before
\* its children) and by the name it was found under, which for an inline child
\* is the name of the parent's workflow.  The channel is reset without waking
\* the slot that waits on it.
StartSpawn ==
  \E w \in scan.spawn :
    /\ scan' = [scan EXCEPT !.spawn = @ \ {w}]
    /\ \/ w = "parent" /\ BeginParent
       \/ /\ w \in Child
          /\ "parent" \notin scan.spawn
          /\ BeginRun(w, "engine")
          /\ slot' = [slot EXCEPT ![w] =
               IF @.heard = "none" THEN @ ELSE [@ EXCEPT !.heard = "Started"]]
          /\ UNCHANGED <<plan, output, result, parent, running, shutdown>>

\* stop() and wait_all() clear `running`, ask for the mutex, and join the tasks
\* while they hold it.  Only stop() has a timeout.
Shutdown ==
  /\ {"stop", "wait_all"} \cap Faults # {}
  /\ running /\ scan = NoScan /\ shutdown = "none"
  /\ running' = FALSE
  /\ shutdown' = "asked"
  /\ UNCHANGED <<plan, database, parent, slot, run, scan>>

Lock ==
  /\ shutdown = "asked"
  /\ shutdown' = "joining"
  /\ UNCHANGED <<plan, database, parent, slot, run, running, scan>>

StopTimeout ==
  /\ "stop" \in Faults
  /\ shutdown = "joining"
  /\ ~JoinSetEmpty
  /\ shutdown' = "aborting"
  /\ UNCHANGED <<plan, database, parent, slot, run, running, scan>>

Drained ==
  /\ shutdown \in {"joining", "aborting"}
  /\ JoinSetEmpty
  /\ shutdown' = "none"
  /\ UNCHANGED <<plan, database, parent, slot, run, running, scan>>

Crash ==
  /\ "crash" \in Faults
  /\ running \/ shutdown # "none"
  /\ parent' = "off"
  /\ slot' = [c \in Child |-> NoSlot]
  /\ run' = [c \in Child |-> <<>>]
  /\ running' = FALSE
  /\ shutdown' = "none"
  /\ scan' = NoScan
  /\ UNCHANGED <<plan, database>>

-----------------------------------------------------------------------------
RunStep(c) == \E k \in DOMAIN run[c] : Return(c, k) \/ Report(c, k)
SlotStep(c) == Acquire(c) \/ SpawnChild(c) \/ Hear(c)
ParentStep == CallFanOut \/ GiveUp \/ WriteResult \/ EndParent
EngineStep == StartList \/ StartSpawn \/ Lock \/ Drained

Next ==
  \/ \E c \in Child :
       \/ RunStep(c) \/ SlotStep(c)
       \/ \E k \in DOMAIN run[c] : Panic(c, k) \/ DropRun(c, k)
  \/ ParentStep \/ DropParent \/ Invoke \/ Resume
  \/ EngineStep \/ Start \/ Shutdown \/ StopTimeout \/ Crash

Spec == Init /\ [][Next]_vars

\* The runtime polls every task, and start() and shutdowns run on.
FairSpec ==
  /\ Spec
  /\ \A c \in Child : WF_vars(RunStep(c)) /\ WF_vars(SlotStep(c))
  /\ WF_vars(ParentStep)
  /\ WF_vars(EngineStep)

-----------------------------------------------------------------------------
(* Properties.                                                             *)

\* Wherever a child is called successful, in the journalled result, in its own
\* metadata or on the channel its slot listens to, its output is in the journal,
\* whichever of its runs said so: a slot that hears Completed finds an output.
SuccessBacked ==
  \A c \in Child :
    result[c] = "ok" \/ meta[c] = "Completed" \/ slot[c].heard = "Completed" =>
      c \in output

\* The result of a fan-out is written once: later runs of the parent, after
\* crashes, failures and resumes, read it.
ResultFinal == [][result # NoResult => result' = result]_vars

\* A completed parent has the fan-out's result, and if it fails fast then all
\* children have their outputs.
CompletedHasAll ==
  meta["parent"] = "Completed" =>
    /\ result # NoResult
    /\ plan.failFast => Child \subseteq output

\* A parent does not collect from a slot that nobody is going to answer: it has
\* heard the end of its child, or a run that tells it is still at work, unless
\* a stop is aborting them all.
SlotAttended ==
  parent = "collect" /\ shutdown # "aborting" =>
    \A c \in Child : slot[c].phase = "child" =>
      \/ slot[c].heard \in {"Completed", "Failed"}
      \/ \E k \in DOMAIN run[c] :
           run[c][k].by = IF plan.registered THEN "engine" ELSE "slot"

\* What it is for: while the engine stays up the parent is not kept waiting.
\* Permits are given back, and no end of a child is lost to it, even when the
\* child is run by two tasks, the second of which has reset their channel.
FanOutEnds == <>[]running => (parent = "collect" ~> parent # "collect")

\* wait_all() returns once the workflows have completed.
WaitAllReturns == shutdown = "joining" ~> shutdown # "joining"

\* start() resumes what was Running when the process exited, each child by one
\* task.
OneRunPerChild == \A c \in Child : Len(run[c]) <= 1

\* In collect-all mode the result is about children that have run.
ChildrenRan ==
  result # NoResult => \A c \in Child : meta[c] # "absent"

\* The parent as module DurableWorkflow sees it: its one step is the fan-out.
Durable == INSTANCE DurableWorkflow WITH
  Instance <- {"parent"}, Result <- [Child -> {"ok", "err"}],
  Program <- <<"step">>, NoResult <- NoResult,
  status <- [w \in {"parent"} |-> meta[w]],
  memo <- [w \in {"parent"} |-> [k \in {1} |-> result]]

\* Children, slots, permits, failing fast, aborts and crashes are not visible
\* in the parent: its fan-out is one step, executed until it has a result, and
\* memoised from then on.
ImplementsDurableWorkflow == Durable!DurableSpec

=============================================================================
