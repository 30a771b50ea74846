------------------------------ MODULE Retention ------------------------------
(***************************************************************************)
(* The retention task of the engine: it collects the finished instances    *)
(* that are older than their retention and deletes them one by one, while  *)
(* callers resume instances, fan-outs run and abandon children, start()    *)
(* runs what a former process left Running and the poller holds rows of    *)
(* TIMERS in its hand.                                                     *)
(*                                                                         *)
(* An instance here has one step and may suspend any number of times; the  *)
(* step of one that has children is a fan-out over them (and perhaps over  *)
(* others that are not followed).  The children are those of               *)
(* FanOutBuilder::run, whose ids extend the id of their parent under the   *)
(* same workflow; a registered workflow that a fan-out invokes has keys,   *)
(* metadata and a retention of its own and is a root here.                 *)
(***************************************************************************)
EXTENDS Integers

CONSTANTS
  Root,       \* instances that callers invoke and resume
  Child,      \* instances that fan-outs run
  Parent,     \* the instance whose fan-out runs a child
  Sleeper,    \* the instances whose runs may suspend
  Default,    \* EngineBuilder::retention
  Override,   \* Registration::retention, for the workflows that have one
  MaxRows,    \* bound on the rows of an instance in TIMERS
  Allowed     \* what may happen besides: "crash", "stop", "storage", "panic"

ASSUME FamilyAssumption ==
  /\ Root \cap Child = {}
  /\ Parent \in [Child -> Root]
  /\ Sleeper \subseteq Root \cup Child
ASSUME RetentionAssumption ==
  /\ Default \in Nat
  /\ DOMAIN Override \subseteq Root
  /\ \A i \in DOMAIN Override : Override[i] \in Nat
ASSUME MaxRowsAssumption == MaxRows \in Nat
ASSUME AllowedRetentionAssumption ==
  Allowed \subseteq {"crash", "stop", "storage", "panic"}

Instance == Root \cup Child

(***************************************************************************)
(* The tasks that can execute an instance.  "spawned" is the task of a     *)
(* root, or of a child in the JoinSet of its parent's fan-out; "aborted"   *)
(* is such a task of a child after the fan-out was dropped; "listed" is    *)
(* the task of its own that start() or a timer gives a child.              *)
(***************************************************************************)
Task == (Instance \X {"spawned"}) \cup (Child \X {"aborted", "listed"})

VARIABLES
  meta,     \* WORKFLOW_META: status and age of each instance
  steps,    \* STEPS: "done" for a memoised result, "waiting" for a suspension
  timers,   \* TIMERS: the number of rows of each instance
  task,     \* where each task is
  engine,   \* the process
  list,     \* the Running instances that start() has still to spawn
  hand,     \* the instances whose rows the poller has taken out of TIMERS
  cleaner,  \* the retention task
  ran       \* history: the members of the batch that have had a run since

store == <<meta, steps, timers>>
vars == <<meta, steps, timers, task, engine, list, hand, cleaner, ran>>

Meta(s) == [status |-> s, age |-> 0]
\* Completed and Failed are one: both have a completed_at.
StatusKind == {"absent", "Running", "Suspended", "ended"}
Phase == {"none", "queued", "run", "joining", "stepped", "parked", "panicked"}

Present(i) == meta[i].status # "absent"
Live(i) == meta[i].status \in {"Running", "Suspended"}
Working(t) == task[t] \notin {"none", "panicked"}
Active(i) == \E t \in Task : t[1] = i /\ Working(t)
Children(i) == {c \in Child : Parent[c] = i}
RootOf(i) == IF i \in Child THEN Parent[i] ELSE i

\* A child is recorded under the name of its parent's workflow.
RetentionOf(i) ==
  IF RootOf(i) \in DOMAIN Override THEN Override[RootOf(i)] ELSE Default

\* What collect_expired_metadata looks for.
Expired(i) ==
  /\ meta[i].status = "ended"
  /\ meta[i].age >= RetentionOf(i)

RetentionTypeOK ==
  /\ meta \in [Instance -> [status : StatusKind, age : Nat]]
  /\ steps \in [Instance -> SUBSET {"done", "waiting"}]
  /\ timers \in [Instance -> 0..MaxRows]
  /\ task \in [Task -> Phase]
  /\ engine \in {"down", "up", "stopping"}
  /\ list \subseteq Instance
  /\ hand \subseteq Instance
  /\ cleaner \in [phase : {"off", "sleep", "delete"}, batch : SUBSET Instance]
  /\ cleaner.phase # "delete" => cleaner.batch = {}
  /\ ran \subseteq cleaner.batch

CleanerOff == [phase |-> "off", batch |-> {}]

Init ==
  /\ meta = [i \in Instance |-> Meta("absent")]
  /\ steps = [i \in Instance |-> {}]
  /\ timers = [i \in Instance |-> 0]
  /\ task = [t \in Task |-> "none"]
  /\ engine = "down"
  /\ list = {}
  /\ hand = {}
  /\ cleaner = CleanerOff
  /\ ran = {}

-----------------------------------------------------------------------------
(* Instances begin.                                                         *)

\* The task that runs an instance for a caller, start() or the poller.
Runner(i) == IF i \in Child THEN <<i, "listed">> ELSE <<i, "spawned">>
Spawn(i) ==
  /\ task[Runner(i)] = "none"
  /\ task' = [task EXCEPT ![Runner(i)] = "run"]
  /\ ran' = ran \cup ({i} \cap cleaner.batch)

\* invoke() of a new instance, or resume() of one that nobody runs, finished,
\* expired or deleted as it may be.  start() borrows the engine exclusively.
Begin(i) ==
  /\ engine = "up"
  /\ list = {}
  /\ ~Active(i)
  /\ Spawn(i)
  /\ meta' = [meta EXCEPT ![i] = Meta("Running")]
  /\ UNCHANGED <<steps, timers, engine, list, hand, cleaner>>

\* start() spawns what it has listed, whatever has become of it since: a
\* child runs without its parent, under the id and the name it is recorded by.
StartSpawn(i) ==
  /\ engine = "up"
  /\ i \in list
  /\ Spawn(i)
  /\ list' = list \ {i}
  /\ meta' = [meta EXCEPT ![i] = Meta("Running")]
  /\ UNCHANGED <<steps, timers, engine, hand, cleaner>>

\* A fan-out without a journalled result spawns its children, whatever they
\* did before; ...
FanOut(i) ==
  /\ task[<<i, "spawned">>] = "run"
  /\ Children(i) # {}
  /\ "done" \notin steps[i]
  /\ task' = [t \in Task |->
                IF t = <<i, "spawned">> THEN "joining"
                ELSE IF t[1] \in Children(i) /\ t[2] = "spawned" THEN "queued"
                ELSE task[t]]
  /\ ran' = ran \cup (Children(i) \cap cleaner.batch)
  /\ UNCHANGED <<store, engine, list, hand, cleaner>>

\* A write of metadata whose failure is only logged.
Record(i, s) ==
  \/ meta' = [meta EXCEPT ![i] = Meta(s)]
  \/ "storage" \in Allowed /\ UNCHANGED meta

\* ... each is recorded when it has its permit.
TakePermit(t) ==
  /\ task[t] = "queued"
  /\ Record(t[1], "Running")
  /\ task' = [task EXCEPT ![t] = "run"]
  /\ UNCHANGED <<steps, timers, engine, list, hand, cleaner, ran>>

-----------------------------------------------------------------------------
(* Instances run and end.  What a task does is Engine's and FanOut's        *)
(* subject; here it matters what it leaves in the database, and when.       *)

\* The result of the step, or of the fan-out, is journalled.
Execute(t) ==
  /\ steps' = [steps EXCEPT ![t[1]] = @ \cup {"done"}]
  /\ task' = [task EXCEPT ![t] = "stepped"]
  /\ UNCHANGED <<meta, timers, engine, list, hand, cleaner, ran>>

Step(t) ==
  /\ task[t] = "run"
  /\ Children(t[1]) = {}
  /\ "done" \notin steps[t[1]]
  /\ Execute(t)

\* The memoised result of a step or a fan-out.
Replay(t) ==
  /\ task[t] = "run"
  /\ "done" \in steps[t[1]]
  /\ task' = [task EXCEPT ![t] = "stepped"]
  /\ UNCHANGED <<store, engine, list, hand, cleaner, ran>>

\* A fan-out ends well when all its children have answered.
Join(i) ==
  /\ task[<<i, "spawned">>] = "joining"
  /\ \A c \in Children(i) : task[<<c, "spawned">>] = "none"
  /\ Execute(<<i, "spawned">>)

\* The tasks after a fan-out of i is dropped: a child that is being polled
\* goes on up to its next await (one such task of a child is followed).
Orphaned(i) ==
  [t \in Task |->
     IF t[1] \notin Children(i) THEN task[t]
     ELSE IF t[2] = "spawned" THEN "none"
     ELSE IF t[2] = "aborted" /\ task[t] = "none"
             /\ task[<<t[1], "spawned">>] # "panicked"
          THEN task[<<t[1], "spawned">>]
     ELSE task[t]]

\* A fan-out ends with an error when a child has failed, in fail-fast mode, or
\* panicked: one that is followed here or another.  The caller may go on.
GiveUp(i) ==
  /\ task[<<i, "spawned">>] = "joining"
  /\ task' = [Orphaned(i) EXCEPT ![<<i, "spawned">>] = "stepped"]
  /\ UNCHANGED <<store, engine, list, hand, cleaner, ran>>

\* A suspension writes its entry, with a timer or to wait for a signal; one
\* that is met again writes nothing.
Park(t) ==
  /\ t[1] \in Sleeper
  /\ task[t] = "stepped"
  /\ steps' = [steps EXCEPT ![t[1]] = @ \cup {"waiting"}]
  /\ \/ UNCHANGED timers
     \/ /\ "waiting" \notin steps[t[1]]
        /\ timers[t[1]] < MaxRows
        /\ timers' = [timers EXCEPT ![t[1]] = @ + 1]
  /\ task' = [task EXCEPT ![t] = "parked"]
  /\ UNCHANGED <<meta, engine, list, hand, cleaner, ran>>

\* The closure of a fan-out cannot suspend: for its task this is an error.
InClosure(t) == t[1] \in Child /\ t[2] # "listed"

End(t, s) ==
  /\ Record(t[1], s)
  /\ task' = [task EXCEPT ![t] = "none"]
  /\ UNCHANGED <<steps, timers, engine, list, hand, cleaner, ran>>

Suspend(t) ==
  /\ task[t] = "parked"
  /\ ~InClosure(t)
  /\ End(t, "Suspended")

Finish(t) ==
  /\ \/ task[t] \in {"run", "stepped"}
     \/ task[t] = "parked" /\ InClosure(t)
  /\ End(t, "ended")

\* A task panics, or an aborted one is at its next await: it is gone and
\* leaves the metadata as it is.  Its own fan-out is dropped with it.
Vanish(t) ==
  /\ Working(t)
  /\ "panic" \in Allowed \/ t[2] = "aborted"
  /\ task' = [(IF task[t] = "joining" THEN Orphaned(t[1]) ELSE task) EXCEPT
                ![t] = IF t[1] \in Child /\ t[2] = "spawned" THEN "panicked"
                       ELSE "none"]
  /\ UNCHANGED <<store, engine, list, hand, cleaner, ran>>

-----------------------------------------------------------------------------
(* Instances are woken.                                                     *)

\* The metadata is not looked at.
CanClaim_Bug(i) == "waiting" \in steps[i]

\* claim_suspended_step looks at the entry and at the metadata.
CanClaim(i) ==
  /\ "waiting" \in steps[i]
  /\ meta[i].status = "Suspended"

Claim(i) ==
  /\ steps' = [steps EXCEPT ![i] = (@ \ {"waiting"}) \cup {"done"}]
  /\ meta' = [meta EXCEPT ![i] = Meta("Running")]

\* A signal is claimed first and refused afterwards if the engine is not up; a
\* timer's row stays behind.  Ids of children are refused.
Signal(i) ==
  /\ list = {}
  /\ CanClaim(i)
  /\ Claim(i)
  /\ IF engine = "up" THEN Spawn(i) ELSE UNCHANGED <<task, ran>>
  /\ UNCHANGED <<timers, engine, list, hand, cleaner>>

\* The poller reads a list of the rows that are due, here one of an instance
\* at a time, and removes each in a transaction of its own before ...
PollTake ==
  /\ engine # "down"
  /\ hand = {}
  /\ hand' \in (SUBSET {i \in Instance : timers[i] > 0}) \ {{}}
  /\ timers' = [i \in Instance |-> IF i \in hand' THEN timers[i] - 1 ELSE timers[i]]
  /\ UNCHANGED <<meta, steps, task, engine, list, cleaner, ran>>

\* ... it claims the instance, as it is by then, in another.
PollRing(i) ==
  /\ i \in hand
  /\ hand' = hand \ {i}
  /\ IF CanClaim(i)
     THEN Claim(i) /\ Spawn(i)
     ELSE UNCHANGED <<meta, steps, task, ran>>
  /\ UNCHANGED <<timers, engine, list, cleaner>>

-----------------------------------------------------------------------------
(* The retention task.                                                     *)

\* The override takes no effect.
Collect_Bug ==
  /\ cleaner.phase = "sleep"
  /\ cleaner' = [phase |-> "delete",
                 batch |-> {i \in Instance : meta[i].status = "ended"
                                             /\ meta[i].age >= Default}]
  /\ ran' = {i \in cleaner'.batch : Active(i)}
  /\ UNCHANGED <<store, task, engine, list, hand>>

\* One read transaction, after sixty sleeps of a second.  `running` is looked
\* at before it, and may have been cleared since.
Collect ==
  /\ cleaner.phase = "sleep"
  /\ cleaner' = [phase |-> "delete", batch |-> {i \in Instance : Expired(i)}]
  /\ ran' = {i \in cleaner'.batch : Active(i)}
  /\ UNCHANGED <<store, task, engine, list, hand>>

Dealt(i) ==
  /\ cleaner.phase = "delete"
  /\ i \in cleaner.batch
  /\ cleaner' = [cleaner EXCEPT !.batch = @ \ {i}]
  /\ ran' = ran \ {i}

\* The timer rows are forgotten.
Delete_Bug(i) ==
  /\ Dealt(i)
  /\ meta' = [meta EXCEPT ![i] = Meta("absent")]
  /\ steps' = [j \in Instance |-> IF RootOf(j) = i \/ j = i THEN {} ELSE steps[j]]
  /\ UNCHANGED <<timers, task, engine, list, hand>>

\* The key range of a child is that of its parent.
Delete_RangeBug(i) ==
  /\ Dealt(i)
  /\ meta' = [meta EXCEPT ![i] = Meta("absent")]
  /\ steps' = [j \in Instance |-> IF RootOf(j) = RootOf(i) THEN {} ELSE steps[j]]
  /\ timers' = [timers EXCEPT ![i] = 0]
  /\ UNCHANGED <<task, engine, list, hand>>

\* delete_instance_data: one write transaction that does not look at the
\* metadata again.  The key range of the steps takes the entries of children
\* along; the other two removals are of this instance alone, and the metadata
\* and the timers of its children stay.
Delete(i) ==
  /\ Dealt(i)
  /\ meta' = [meta EXCEPT ![i] = Meta("absent")]
  /\ steps' = [j \in Instance |-> IF RootOf(j) = i \/ j = i THEN {} ELSE steps[j]]
  /\ timers' = [timers EXCEPT ![i] = 0]
  /\ UNCHANGED <<task, engine, list, hand>>

\* A failed deletion ends the task.
DeleteFails_Bug(i) ==
  /\ "storage" \in Allowed
  /\ cleaner.phase = "delete"
  /\ i \in cleaner.batch
  /\ cleaner' = CleanerOff
  /\ ran' = {}
  /\ UNCHANGED <<store, task, engine, list, hand>>

\* A failed deletion is left to the next cycle.
DeleteFails(i) ==
  /\ "storage" \in Allowed
  /\ Dealt(i)
  /\ UNCHANGED <<store, task, engine, list, hand>>

\* The cycle ends after one deletion.
CleanerLoop_Bug ==
  /\ \/ cleaner.phase = "delete"
     \/ cleaner.phase = "sleep" /\ engine = "stopping"
  /\ cleaner' = [cleaner EXCEPT !.phase =
                   IF engine = "up" THEN "sleep" ELSE "off"]
  /\ UNCHANGED <<store, task, engine, list, hand, ran>>

\* The end of a cycle, or of the sleep when `running` is found cleared.
CleanerLoop ==
  /\ cleaner.batch = {}
  /\ \/ cleaner.phase = "delete"
     \/ cleaner.phase = "sleep" /\ engine = "stopping"
  /\ cleaner' = [cleaner EXCEPT !.phase =
                   IF engine = "up" THEN "sleep" ELSE "off"]
  /\ UNCHANGED <<store, task, engine, list, hand, ran>>

-----------------------------------------------------------------------------
(* Time and the life cycle of the engine.                                  *)

Periods == {Default} \cup {Override[i] : i \in DOMAIN Override}
MaxAge == CHOOSE m \in Periods : \A n \in Periods : n <= m

\* A second passes for every finished instance; ages that no retention tells
\* apart are one.
Aged(i) == IF meta[i].status = "ended" /\ meta[i].age < MaxAge
           THEN [meta[i] EXCEPT !.age = @ + 1] ELSE meta[i]
Tick ==
  /\ meta' = [i \in Instance |-> Aged(i)]
  /\ UNCHANGED <<steps, timers, task, engine, list, hand, cleaner, ran>>

\* The list is a prefix scan over the metadata of a workflow: children are on
\* it, with or without their parents.  resume_on_start may be off.
Start ==
  /\ engine = "down"
  /\ engine' = "up"
  /\ cleaner' = [cleaner EXCEPT !.phase = "sleep"]
  /\ list' \in {{}, {i \in Instance : meta[i].status = "Running"}}
  /\ UNCHANGED <<store, task, hand, ran>>

Stop ==
  /\ "stop" \in Allowed
  /\ engine = "up"
  /\ list = {}
  /\ engine' = "stopping"
  /\ UNCHANGED <<store, task, list, hand, cleaner, ran>>

\* stop() drains the tasks or, after its timeout, aborts them; the children of
\* a fan-out that is dropped are not waited for.  The retention task and the
\* poller await nothing within a cycle and within a row.
Stopped ==
  /\ engine = "stopping"
  /\ cleaner.phase = "off"
  /\ hand = {}
  /\ engine' = "down"
  /\ task' = [t \in Task |->
                IF t[1] \in Child /\ t[2] = "aborted"
                THEN Orphaned(Parent[t[1]])[t] ELSE "none"]
  /\ UNCHANGED <<store, list, hand, cleaner, ran>>

Crash ==
  /\ "crash" \in Allowed
  /\ engine' = "down"
  /\ list' = {}
  /\ hand' = {}
  /\ cleaner' = CleanerOff
  /\ ran' = {}
  /\ task' = [t \in Task |-> "none"]
  /\ UNCHANGED store

TaskStep(t) ==
  \/ TakePermit(t) \/ Step(t) \/ Replay(t) \/ Park(t) \/ Suspend(t)
  \/ Finish(t) \/ Vanish(t)

Next ==
  \/ \E i \in Root : Begin(i) \/ FanOut(i) \/ Join(i) \/ GiveUp(i) \/ Signal(i)
  \/ \E i \in Instance : StartSpawn(i) \/ PollRing(i) \/ Delete(i) \/ DeleteFails(i)
  \/ \E t \in Task : TaskStep(t)
  \/ PollTake \/ Collect \/ CleanerLoop
  \/ Tick \/ Start \/ Stop \/ Stopped \/ Crash

Spec == Init /\ [][Next]_vars

\* The retention task is polled; a deletion that is tried again and again is
\* not refused by the storage every time.
Fairness ==
  /\ WF_vars(Collect)
  /\ WF_vars(CleanerLoop)
  /\ \A i \in Instance : WF_vars(Delete(i) \/ DeleteFails(i))
  /\ \A i \in Instance : SF_vars(Delete(i))

FairSpec == Spec /\ Fairness

-----------------------------------------------------------------------------
(* Properties.                                                             *)

\* What is deleted is past its retention at that moment, unless it has had a
\* run since it was collected: no timer or signal, no write of another
\* instance and no failed deletion brings a collected instance back.
OnlyExpired ==
  [][\A i \in Instance :
       Present(i) /\ ~Present(i)' => Expired(i) \/ i \in ran]_vars

\* As long as a root is not finished, no memoised result of its family is
\* forgotten, unless the root has been resumed since it was collected or the
\* child whose result it is has itself expired.
LiveFamilyKept ==
  [][\A i \in Instance :
       "done" \in steps[i] /\ "done" \notin steps'[i] /\ Live(RootOf(i))
         => \/ RootOf(i) \in ran
            \/ i \in Child /\ (Expired(i) \/ i \in ran)]_vars

\* Journal entries or timer rows of an instance that has neither metadata nor
\* a run: no cycle and no start will ever find them, and the next run under
\* the id will take them for its own.
Lost(i) ==
  /\ steps[i] # {} \/ timers[i] > 0
  /\ ~Present(i)
  /\ ~Active(i)

\* A deletion leaves nothing that is lost, of no instance of the family, and
\* no task loses anything either, with one exception: a run whose metadata was
\* deleted under it, or could not be written, dies before it writes it again.
NothingLost ==
  [][\A i \in Instance :
       ~Lost(i) /\ Lost(i)' => ~Present(i) /\ Active(i)]_vars

\* A deleted instance that nobody runs stays deleted, until it is resumed by a
\* caller or spawned by its parent's fan-out: a row that the poller holds, a
\* signal and the end of other tasks do not bring it back, and start() does
\* only if it had listed the instance before.
StaysDeleted ==
  [][\A i \in Instance :
       ~Present(i) /\ ~Active(i) /\ i \notin list /\ (Present(i) \/ Active(i))'
         => \/ i \in Root /\ Begin(i)
            \/ i \in Child /\ FanOut(Parent[i])]_vars

\* If the engine stays up, an expired instance is deleted, unless somebody
\* runs it again.
ExpiredGoes ==
  <>[](engine = "up") => \A i \in Instance : Expired(i) ~> ~Expired(i)

=============================================================================
