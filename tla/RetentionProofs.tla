-------------------------- MODULE RetentionProofs --------------------------
(***************************************************************************)
(* Proofs about Retention, for all families of instances, retentions,      *)
(* numbers of timer rows and freedoms of the environment.                  *)
(***************************************************************************)
EXTENDS Retention, TLAPS

(***************************************************************************)
(* The inductive invariant: the retention task keeps an account of what    *)
(* may come back to life between collection and deletion.  A collected     *)
(* instance is expired or has had a run since, and one that is being run   *)
(* has been noted before it writes anything.                               *)
(***************************************************************************)
BatchNoted ==
  \A i \in cleaner.batch :
    /\ Expired(i) \/ i \in ran
    /\ Active(i) => i \in ran

CleanerDown == engine = "down" => cleaner.phase = "off"

Inv == RetentionTypeOK /\ CleanerDown /\ BatchNoted

-----------------------------------------------------------------------------
(* Tasks and the instances they execute.                                    *)

LEMMA TaskFacts ==
  /\ \A t \in Task : t[1] \in Instance
  /\ \A i \in Instance : <<i, "spawned">> \in Task
  /\ \A c \in Child : <<c, "aborted">> \in Task /\ <<c, "listed">> \in Task
  /\ \A i \in Instance : Runner(i) \in Task /\ Runner(i)[1] = i
  /\ \A c \in Child : Parent[c] \in Root
  /\ Root \subseteq Instance /\ Child \subseteq Instance
BY FamilyAssumption DEF Task, Instance, Runner

\* The tasks of one instance are those that execute it: a step of others does
\* not make it active.
LEMMA OneTask ==
  ASSUME RetentionTypeOK, NEW t \in Task, NEW ph \in Phase,
         task' = [task EXCEPT ![t] = ph]
  PROVE  /\ \A i \in Instance : i # t[1] => (Active(i)' <=> Active(i))
         /\ ph \in {"none", "panicked"} =>
              \A i \in Instance : Active(i)' => Active(i)
         /\ ph \notin {"none", "panicked"} => Active(t[1])'
         /\ Working(t) => \A i \in Instance : Active(i)' => Active(i)
BY DEF RetentionTypeOK, Active, Working

\* Dropping a fan-out makes no instance active.
LEMMA OrphanedFacts ==
  ASSUME RetentionTypeOK, NEW i \in Instance
  PROVE  /\ Orphaned(i) \in [Task -> Phase]
         /\ \A t \in Task : Orphaned(i)[t] \notin {"none", "panicked"}
              => Active(t[1])
<1>1. \A t \in Task : Orphaned(i)[t] \in Phase
  BY TaskFacts DEF RetentionTypeOK, Orphaned, Phase, Children
<1>2. ASSUME NEW t \in Task, Orphaned(i)[t] \notin {"none", "panicked"}
      PROVE  Active(t[1])
  <2>1. CASE t[1] \in Children(i) /\ task[t] = "none"
    <3>1. t[1] \in Instance /\ <<t[1], "spawned">> \in Task
      BY TaskFacts
    <3>2. task[<<t[1], "spawned">>] \notin {"none", "panicked"}
      BY <1>2, <2>1 DEF Orphaned
    <3> QED
      BY <3>1, <3>2 DEF Active, Working
  <2>2. CASE ~(t[1] \in Children(i) /\ task[t] = "none")
    <3>1. task[t] \notin {"none", "panicked"}
      BY <1>2, <2>2 DEF Orphaned
    <3> QED
      BY <3>1 DEF Active, Working
  <2> QED
    BY <2>1, <2>2
<1> QED
  BY <1>1, <1>2 DEF Orphaned

-----------------------------------------------------------------------------
(***************************************************************************)
(* The steps fall into a few kinds, by what they do to whom.  RunOf: a run *)
(* of i writes about i, and may end itself or children.  WakeOf: i is made *)
(* Running and given a run; a signal to an engine that is not up gives it  *)
(* none.  The others are those of Retention.                               *)
(***************************************************************************)
SameRows(j) ==
  meta'[j] = meta[j] /\ steps'[j] = steps[j] /\ timers'[j] = timers[j]

RunOf(i) ==
  /\ Active(i)
  /\ \A j \in Instance : Active(j)' => Active(j)
  /\ \A j \in Instance \ {i} : SameRows(j)
  /\ Present(i) => Present(i)'
  /\ steps[i] \subseteq steps'[i]
  /\ UNCHANGED <<list, cleaner, ran>>

WakeOf(i) ==
  /\ meta' = [meta EXCEPT ![i] = Meta("Running")]
  /\ \A j \in Instance \ {i} : SameRows(j)
  /\ "done" \in steps[i] => "done" \in steps'[i]
  /\ \A j \in Instance \ {i} : Active(j)' <=> Active(j)
  /\ \/ ran' = ran \cup ({i} \cap cleaner.batch)
     \/ meta[i].status = "Suspended" /\ (Active(i)' <=> Active(i)) /\ ran' = ran
  /\ list' \subseteq list
  /\ \/ Present(i)
     \/ i \in list
     \/ i \in Root /\ Begin(i)
  /\ cleaner' = cleaner

LEMMA SpawnFacts ==
  ASSUME RetentionTypeOK, NEW i \in Instance, Spawn(i)
  PROVE  /\ \A j \in Instance \ {i} : Active(j)' <=> Active(j)
         /\ task' \in [Task -> Phase]
<1>1. Runner(i) \in Task /\ Runner(i)[1] = i
  BY TaskFacts
<1>2. "run" \in Phase
  BY DEF Phase
<1> HIDE DEF Phase
<1>3. task' = [task EXCEPT ![Runner(i)] = "run"]
  BY DEF Spawn
<1>4. \A j \in Instance : j # i => (Active(j)' <=> Active(j))
  BY <1>1, <1>2, <1>3, OneTask
<1> QED
  BY <1>1, <1>2, <1>3, <1>4 DEF RetentionTypeOK

LEMMA BeginIsWake ==
  ASSUME RetentionTypeOK, NEW i \in Root, Begin(i)
  PROVE  WakeOf(i)
<1>1. i \in Instance /\ Spawn(i)
  BY TaskFacts DEF Begin
<1> QED
  BY <1>1, SpawnFacts
    DEF RetentionTypeOK, Begin, Spawn, WakeOf, SameRows

LEMMA StartSpawnIsWake ==
  ASSUME RetentionTypeOK, NEW i \in Instance, StartSpawn(i)
  PROVE  WakeOf(i)
<1>1. Spawn(i)
  BY DEF StartSpawn
<1> QED
  BY <1>1, SpawnFacts
    DEF RetentionTypeOK, StartSpawn, Spawn, WakeOf, SameRows

LEMMA ClaimFacts ==
  ASSUME RetentionTypeOK, NEW i \in Instance, CanClaim(i), Claim(i)
  PROVE  /\ meta' = [meta EXCEPT ![i] = Meta("Running")]
         /\ \A j \in Instance \ {i} :
              meta'[j] = meta[j] /\ steps'[j] = steps[j]
         /\ "done" \in steps'[i]
         /\ Present(i) /\ meta[i].status = "Suspended"
BY DEF RetentionTypeOK, Claim, CanClaim, Present

LEMMA SignalIsWake ==
  ASSUME RetentionTypeOK, NEW i \in Root, Signal(i)
  PROVE  WakeOf(i)
<1>1. i \in Instance /\ CanClaim(i) /\ Claim(i)
  BY TaskFacts DEF Signal
<1>2. CASE engine = "up"
  <2>1. Spawn(i)
    BY <1>2 DEF Signal
  <2> QED
    BY <1>1, <2>1, ClaimFacts, SpawnFacts DEF Signal, Spawn, WakeOf, SameRows
<1>3. CASE engine # "up"
  <2>1. \A j \in Instance : Active(j)' <=> Active(j)
    BY <1>3 DEF Signal, Active, Working
  <2> QED
    BY <1>1, <1>3, <2>1, ClaimFacts DEF Signal, WakeOf, SameRows
<1> QED
  BY <1>2, <1>3

LEMMA PollRingIsWake ==
  ASSUME RetentionTypeOK, NEW i \in Instance, PollRing(i), CanClaim(i)
  PROVE  WakeOf(i)
<1>1. Claim(i) /\ Spawn(i)
  BY DEF PollRing
<1> QED
  BY <1>1, ClaimFacts, SpawnFacts DEF PollRing, Spawn, WakeOf, SameRows

LEMMA TaskStepIsRun ==
  ASSUME RetentionTypeOK, NEW t \in Task, TaskStep(t)
  PROVE  RunOf(t[1])
<1>1. t[1] \in Instance
  BY TaskFacts
<1>2. Working(t) /\ Active(t[1])
  BY DEF TaskStep, TakePermit, Step, Replay, Park, Suspend, Finish, Vanish,
         Active, Working
<1>3. /\ \A j \in Instance \ {t[1]} : SameRows(j)
      /\ Present(t[1]) => Present(t[1])'
      /\ steps[t[1]] \subseteq steps'[t[1]]
      /\ UNCHANGED <<list, cleaner, ran>>
  BY <1>1
    DEF RetentionTypeOK, TaskStep, TakePermit, Step, Replay, Park, Suspend,
        Finish, Vanish, End, Execute, Record, Meta, SameRows, Present, store
<1>4. \A j \in Instance : Active(j)' => Active(j)
  <2>1. CASE \E ph \in Phase : task' = [task EXCEPT ![t] = ph]
    BY <1>2, <2>1, OneTask
  <2>2. CASE Vanish(t) /\ task[t] = "joining"
    <3>1. \A u \in Task : task'[u] \in {Orphaned(t[1])[u], "none", "panicked"}
      BY <1>1, <2>2, OrphanedFacts DEF Vanish
    <3> QED
      BY <1>1, <3>1, OrphanedFacts DEF Active, Working
  <2> QED
    BY <2>1, <2>2
      DEF TaskStep, TakePermit, Step, Replay, Park, Suspend, Finish, Vanish,
          End, Execute, Phase
<1> QED
  BY <1>2, <1>3, <1>4 DEF RunOf

LEMMA JoinIsRun ==
  ASSUME RetentionTypeOK, NEW i \in Root, Join(i) \/ GiveUp(i)
  PROVE  RunOf(i)
<1>1. i \in Instance /\ <<i, "spawned">> \in Task
  BY TaskFacts
<1>2. Active(i)
  BY <1>1 DEF Join, GiveUp, Active, Working
<1>3. CASE Join(i)
  <2>1. task' = [task EXCEPT ![<<i, "spawned">>] = "stepped"]
    BY <1>3 DEF Join, Execute
  <2>2. Working(<<i, "spawned">>) /\ "stepped" \in Phase
    BY <1>3 DEF Join, Working, Phase
  <2>3. \A j \in Instance : Active(j)' => Active(j)
    BY <1>1, <2>1, <2>2, OneTask
  <2> QED
    BY <1>1, <1>2, <1>3, <2>3
      DEF RetentionTypeOK, Join, Execute, RunOf, SameRows, Present
<1>4. CASE GiveUp(i)
  <2>1. \A u \in Task : u[1] = i \/ task'[u] = Orphaned(i)[u]
    BY <1>1, <1>4, OrphanedFacts DEF GiveUp
  <2>2. \A j \in Instance : Active(j)' => Active(j)
    BY <1>1, <1>2, <2>1, OrphanedFacts DEF Active, Working
  <2> QED
    BY <1>1, <1>2, <1>4, <2>2
      DEF RetentionTypeOK, GiveUp, RunOf, SameRows, Present, store
<1> QED
  BY <1>3, <1>4

\* A fan-out makes nobody active but children, which it notes.
LEMMA FanOutFacts ==
  ASSUME RetentionTypeOK, NEW i \in Root, FanOut(i)
  PROVE  /\ \A j \in Instance : Active(j)' => Active(j) \/ j \in Children(i)
         /\ \A j \in Children(i) : Active(j)'
         /\ Active(i) /\ Active(i)'
<1>1. i \in Instance /\ <<i, "spawned">> \in Task
  BY TaskFacts
<1>2. Active(i)
  BY <1>1 DEF FanOut, Active, Working
<1>3. i \notin Children(i)
  BY FamilyAssumption DEF Children
<1>4. Active(i)'
  BY <1>1 DEF FanOut, Active, Working
<1>5. ASSUME NEW j \in Instance, Active(j)', j \notin Children(i)
      PROVE  Active(j)
  BY <1>1, <1>2, <1>5 DEF FanOut, Active, Working
<1>6. ASSUME NEW j \in Children(i)
      PROVE  Active(j)'
  <2>1. <<j, "spawned">> \in Task /\ j # i
    BY <1>3, TaskFacts DEF Children
  <2> QED
    BY <2>1 DEF FanOut, Active, Working
<1> QED
  BY <1>2, <1>4, <1>5, <1>6

LEMMA NextCases ==
  ASSUME RetentionTypeOK, Next
  PROVE  \/ \E i \in Instance : RunOf(i)
         \/ \E i \in Instance : WakeOf(i)
         \/ \E i \in Root : FanOut(i)
         \/ PollTake
         \/ \E i \in Instance : PollRing(i) /\ ~CanClaim(i)
         \/ \E i \in Instance : Delete(i)
         \/ \E i \in Instance : DeleteFails(i)
         \/ Collect \/ CleanerLoop
         \/ Tick \/ Start \/ Stop \/ Stopped \/ Crash
<1>1. ASSUME NEW i \in Root, Begin(i) \/ Join(i) \/ GiveUp(i) \/ Signal(i)
      PROVE  i \in Instance /\ (RunOf(i) \/ WakeOf(i))
  BY <1>1, BeginIsWake, JoinIsRun, SignalIsWake, TaskFacts
<1>2. ASSUME NEW i \in Instance,
             StartSpawn(i) \/ (PollRing(i) /\ CanClaim(i))
      PROVE  WakeOf(i)
  BY <1>2, StartSpawnIsWake, PollRingIsWake
<1>3. ASSUME NEW t \in Task, TaskStep(t)
      PROVE  t[1] \in Instance /\ RunOf(t[1])
  BY <1>3, TaskStepIsRun, TaskFacts
<1> QED
  BY <1>1, <1>2, <1>3 DEF Next

-----------------------------------------------------------------------------
(* The inductive invariant.                                                 *)

LEMMA InitInv == Init => Inv
BY MaxRowsAssumption
  DEF Init, Inv, RetentionTypeOK, CleanerDown, BatchNoted, Meta, StatusKind, Phase,
      CleanerOff

LEMMA BeginTypes ==
  ASSUME RetentionTypeOK,
         NEW i \in Instance,
         \/ i \in Root /\ (Begin(i) \/ Signal(i))
         \/ StartSpawn(i)
         \/ PollRing(i)
  PROVE  RetentionTypeOK'
<1>1. task' \in [Task -> Phase] /\ ran' \subseteq cleaner.batch
  BY SpawnFacts
    DEF RetentionTypeOK, Begin, StartSpawn, Signal, PollRing, Spawn
<1>2. meta' \in [Instance -> [status : StatusKind, age : Nat]]
  BY DEF RetentionTypeOK, Begin, StartSpawn, Signal, PollRing, Claim, Meta,
         StatusKind
<1>3. steps' \in [Instance -> SUBSET {"done", "waiting"}]
  BY DEF RetentionTypeOK, Begin, StartSpawn, Signal, PollRing, Claim
<1>4. list' \subseteq Instance /\ hand' \subseteq Instance
  BY DEF RetentionTypeOK, Begin, StartSpawn, Signal, PollRing
<1>5. UNCHANGED <<timers, engine, cleaner>>
  BY DEF Begin, StartSpawn, Signal, PollRing
<1> QED
  BY <1>1, <1>2, <1>3, <1>4, <1>5 DEF RetentionTypeOK

LEMMA TaskTypes ==
  ASSUME RetentionTypeOK, NEW t \in Task, TaskStep(t)
  PROVE  RetentionTypeOK'
<1>1. t[1] \in Instance
  BY TaskFacts
<1>2. task' \in [Task -> Phase]
  <2>1. CASE Vanish(t)
    BY <1>1, <2>1, OrphanedFacts DEF RetentionTypeOK, Vanish, Phase
  <2>2. CASE ~Vanish(t)
    BY <2>2
      DEF RetentionTypeOK, TaskStep, TakePermit, Step, Replay, Park, Suspend,
          Finish, End, Execute, Phase
  <2> QED
    BY <2>1, <2>2
<1>3. meta' \in [Instance -> [status : StatusKind, age : Nat]]
  <2>1. CASE UNCHANGED meta
    BY <2>1 DEF RetentionTypeOK
  <2>2. ASSUME NEW s \in StatusKind, Record(t[1], s)
        PROVE  meta' \in [Instance -> [status : StatusKind, age : Nat]]
    BY <1>1, <2>2 DEF RetentionTypeOK, Record, Meta
  <2>3. {"Running", "Suspended", "ended"} \subseteq StatusKind
    BY DEF StatusKind
  <2> QED
    BY <2>1, <2>2, <2>3
      DEF TaskStep, TakePermit, Step, Replay, Park, Suspend, Finish, Vanish,
          End, Execute, store
<1>4. steps' \in [Instance -> SUBSET {"done", "waiting"}]
  BY <1>1
    DEF RetentionTypeOK, TaskStep, TakePermit, Step, Replay, Park, Suspend,
        Finish, Vanish, End, Execute, store
<1>5. timers' \in [Instance -> 0..MaxRows]
  BY <1>1, MaxRowsAssumption
    DEF RetentionTypeOK, TaskStep, TakePermit, Step, Replay, Park, Suspend,
        Finish, Vanish, End, Execute, store
<1>6. UNCHANGED <<engine, list, hand, cleaner, ran>>
  BY DEF TaskStep, TakePermit, Step, Replay, Park, Suspend, Finish, Vanish,
         End, Execute
<1> QED
  BY <1>2, <1>3, <1>4, <1>5, <1>6 DEF RetentionTypeOK

LEMMA FanOutTypes ==
  ASSUME RetentionTypeOK, NEW i \in Root, FanOut(i) \/ Join(i) \/ GiveUp(i)
  PROVE  RetentionTypeOK'
<1>1. i \in Instance /\ <<i, "spawned">> \in Task
  BY TaskFacts
<1>2. CASE FanOut(i)
  BY <1>2 DEF RetentionTypeOK, FanOut, Phase, store
<1>3. CASE Join(i)
  BY <1>1, <1>3 DEF RetentionTypeOK, Join, Execute, Phase
<1>4. CASE GiveUp(i)
  BY <1>1, <1>4, OrphanedFacts DEF RetentionTypeOK, GiveUp, Phase, store
<1> QED
  BY <1>2, <1>3, <1>4

LEMMA CleanerTypes ==
  ASSUME RetentionTypeOK,
         \/ Collect \/ CleanerLoop \/ PollTake
         \/ \E i \in Instance : Delete(i) \/ DeleteFails(i)
  PROVE  RetentionTypeOK'
<1>1. CASE Collect
  BY <1>1 DEF RetentionTypeOK, Collect, store
<1>2. CASE CleanerLoop
  BY <1>2 DEF RetentionTypeOK, CleanerLoop, store
<1>3. CASE PollTake
  <2>1. \A n \in 0..MaxRows : n > 0 => n - 1 \in 0..MaxRows
    BY MaxRowsAssumption
  <2>2. hand' \subseteq {i \in Instance : timers[i] > 0}
    BY <1>3 DEF PollTake
  <2>3. timers' \in [Instance -> 0..MaxRows]
    BY <1>3, <2>1, <2>2 DEF RetentionTypeOK, PollTake
  <2> QED
    BY <1>3, <2>2, <2>3 DEF RetentionTypeOK, PollTake
<1>4. ASSUME NEW i \in Instance, Delete(i) PROVE RetentionTypeOK'
  BY <1>4, MaxRowsAssumption
    DEF RetentionTypeOK, Delete, Dealt, Meta, StatusKind
<1>5. ASSUME NEW i \in Instance, DeleteFails(i) PROVE RetentionTypeOK'
  BY <1>5 DEF RetentionTypeOK, DeleteFails, Dealt, store
<1> QED
  BY <1>1, <1>2, <1>3, <1>4, <1>5

LEMMA EngineTypes ==
  ASSUME RetentionTypeOK, CleanerDown,
         Tick \/ Start \/ Stop \/ Stopped \/ Crash
  PROVE  RetentionTypeOK'
<1>1. CASE Tick
  <2>1. \A i \in Instance : Aged(i) \in [status : StatusKind, age : Nat]
    BY DEF RetentionTypeOK, Aged
  <2> QED
    BY <1>1, <2>1 DEF RetentionTypeOK, Tick
<1>2. CASE Start
  <2>1. list' \subseteq Instance
    BY <1>2 DEF Start
  <2>2. /\ cleaner' \in [phase : {"off", "sleep", "delete"},
                         batch : SUBSET Instance]
        /\ cleaner'.batch = cleaner.batch
        /\ cleaner'.phase = "sleep"
    BY <1>2 DEF RetentionTypeOK, Start
  <2>3. cleaner.batch = {}
    BY <1>2 DEF RetentionTypeOK, CleanerDown, Start
  <2> QED
    BY <1>2, <2>1, <2>2, <2>3 DEF RetentionTypeOK, Start, store
<1>3. CASE Stop
  BY <1>3 DEF RetentionTypeOK, Stop, store
<1>4. CASE Stopped
  <2>1. \A t \in Task : t[1] \in Child =>
          Parent[t[1]] \in Instance /\ Orphaned(Parent[t[1]])[t] \in Phase
    BY TaskFacts, OrphanedFacts
  <2> QED
    BY <1>4, <2>1 DEF RetentionTypeOK, Stopped, Phase, store
<1>5. CASE Crash
  BY <1>5 DEF RetentionTypeOK, Crash, CleanerOff, Phase, store
<1> QED
  BY <1>1, <1>2, <1>3, <1>4, <1>5

LEMMA NextTypes ==
  RetentionTypeOK /\ CleanerDown /\ [Next]_vars => RetentionTypeOK'
<1> SUFFICES ASSUME RetentionTypeOK, CleanerDown, [Next]_vars
             PROVE  RetentionTypeOK'
  OBVIOUS
<1>1. CASE UNCHANGED vars
  BY <1>1 DEF RetentionTypeOK, vars
<1>2. ASSUME NEW i \in Root,
             Begin(i) \/ FanOut(i) \/ Join(i) \/ GiveUp(i) \/ Signal(i)
      PROVE  RetentionTypeOK'
  BY <1>2, BeginTypes, FanOutTypes, TaskFacts
<1>3. ASSUME NEW i \in Instance,
             StartSpawn(i) \/ PollRing(i) \/ Delete(i) \/ DeleteFails(i)
      PROVE  RetentionTypeOK'
  BY <1>3, BeginTypes, CleanerTypes
<1> QED
  BY <1>1, <1>2, <1>3, TaskTypes, CleanerTypes, EngineTypes DEF Next

LEMMA NextCleanerDown ==
  RetentionTypeOK /\ CleanerDown /\ [Next]_vars => CleanerDown'
<1> SUFFICES ASSUME RetentionTypeOK, CleanerDown, [Next]_vars
             PROVE  CleanerDown'
  OBVIOUS
<1>1. CASE UNCHANGED <<engine, cleaner>>
  BY <1>1 DEF CleanerDown
<1>2. ASSUME NEW i \in Instance, Delete(i) \/ DeleteFails(i)
      PROVE  CleanerDown'
  BY <1>2 DEF RetentionTypeOK, CleanerDown, Delete, DeleteFails, Dealt
<1>3. CASE Collect \/ CleanerLoop \/ Start \/ Stop \/ Stopped \/ Crash
  BY <1>3
    DEF RetentionTypeOK, CleanerDown, Collect, CleanerLoop, Start, Stop,
        Stopped, Crash, CleanerOff
<1> QED
  BY <1>1, <1>2, <1>3
    DEF Next, vars, Begin, FanOut, Join, GiveUp, Signal, StartSpawn, PollTake,
        PollRing, TaskStep, TakePermit, Step, Replay, Park, Suspend, Finish,
        Vanish, End, Execute, Tick

\* Time makes nobody active and nothing young.
LEMMA TickFacts ==
  ASSUME RetentionTypeOK, Tick
  PROVE  \A i \in Instance : /\ Expired(i) => Expired(i)'
                             /\ Active(i)' <=> Active(i)
                             /\ Present(i)' <=> Present(i)
<1>1. \A i \in Instance : RetentionOf(i) \in Nat /\ RetentionOf(i)' = RetentionOf(i)
  BY RetentionAssumption, FamilyAssumption DEF RetentionOf, RootOf, Instance
<1>2. \A i \in Instance : /\ meta'[i].status = meta[i].status
                          /\ meta'[i].age \in {meta[i].age, meta[i].age + 1}
  BY DEF RetentionTypeOK, Tick, Aged
<1>3. \A i \in Instance : meta[i].age \in Nat
  BY DEF RetentionTypeOK
<1>4. task' = task
  BY DEF Tick
<1> QED
  BY <1>1, <1>2, <1>3, <1>4 DEF Expired, Present, Active, Working

LEMMA RunKeepsBatch ==
  ASSUME Inv, NEW i \in Instance, RunOf(i)
  PROVE  BatchNoted'
<1>1. \A j \in cleaner.batch : j \in Instance /\ (Active(j)' => Active(j))
  BY DEF Inv, RetentionTypeOK, RunOf
<1> QED
  BY <1>1 DEF Inv, BatchNoted, RunOf, SameRows, Expired, RetentionOf, RootOf

LEMMA WakeKeepsBatch ==
  ASSUME Inv, NEW i \in Instance, WakeOf(i)
  PROVE  BatchNoted'
<1> SUFFICES ASSUME NEW j \in cleaner.batch
             PROVE  /\ Expired(j)' \/ j \in ran'
                    /\ Active(j)' => j \in ran'
  BY DEF BatchNoted, WakeOf
<1>1. j \in Instance /\ ran \subseteq ran'
  BY DEF Inv, RetentionTypeOK, WakeOf
<1>2. CASE j # i
  BY <1>1, <1>2
    DEF Inv, BatchNoted, WakeOf, SameRows, Expired, RetentionOf, RootOf
<1>3. CASE j = i
  <2>1. CASE ran' = ran \cup ({i} \cap cleaner.batch)
    BY <1>3, <2>1
  <2>2. CASE meta[i].status = "Suspended"
    BY <1>1, <1>3, <2>2 DEF Inv, BatchNoted, Expired
  <2> QED
    BY <2>1, <2>2 DEF WakeOf
<1> QED
  BY <1>2, <1>3

LEMMA FanOutKeepsBatch ==
  ASSUME Inv, NEW i \in Root, FanOut(i)
  PROVE  BatchNoted'
<1>1. /\ UNCHANGED <<meta, cleaner>>
      /\ ran' = ran \cup (Children(i) \cap cleaner.batch)
  BY DEF FanOut, store
<1> QED
  BY <1>1, FanOutFacts
    DEF Inv, RetentionTypeOK, BatchNoted, Expired, RetentionOf, RootOf

LEMMA DeletionKeepsBatch ==
  ASSUME Inv, NEW i \in Instance, Delete(i) \/ DeleteFails(i)
  PROVE  BatchNoted'
<1>1. /\ cleaner'.batch = cleaner.batch \ {i}
      /\ ran' = ran \ {i}
      /\ task' = task
      /\ \A j \in Instance \ {i} : meta'[j] = meta[j]
  BY DEF Inv, RetentionTypeOK, Delete, DeleteFails, Dealt, store
<1> QED
  BY <1>1
    DEF Inv, RetentionTypeOK, BatchNoted, Expired, RetentionOf, RootOf, Active,
        Working

LEMMA CollectKeepsBatch ==
  ASSUME Inv, Collect
  PROVE  BatchNoted'
<1>1. /\ cleaner'.batch = {i \in Instance : Expired(i)}
      /\ ran' = {i \in cleaner'.batch : Active(i)}
      /\ UNCHANGED <<meta, task>>
  BY DEF Collect, store
<1> QED
  BY <1>1 DEF BatchNoted, Expired, RetentionOf, RootOf, Active, Working

LEMMA OthersKeepBatch ==
  ASSUME Inv,
         \/ \E i \in Instance : PollRing(i) /\ ~CanClaim(i)
         \/ PollTake \/ CleanerLoop \/ Start \/ Stop \/ Stopped \/ Crash
  PROVE  BatchNoted'
<1>1. cleaner'.batch = {} \/ (UNCHANGED <<meta, task, ran>>
                             /\ cleaner'.batch = cleaner.batch)
  BY DEF Inv, RetentionTypeOK, PollTake, PollRing, CleanerLoop, Start, Stop,
         Stopped, Crash, CleanerOff, store
<1> QED
  BY <1>1 DEF Inv, BatchNoted, Expired, RetentionOf, RootOf, Active, Working

LEMMA NextInv == Inv /\ [Next]_vars => Inv'
<1> SUFFICES ASSUME Inv, [Next]_vars PROVE BatchNoted'
  BY NextTypes, NextCleanerDown DEF Inv
<1>1. CASE UNCHANGED vars
  BY <1>1
    DEF vars, Inv, BatchNoted, Expired, RetentionOf, RootOf, Active, Working
<1>2. CASE Tick
  <2>1. cleaner' = cleaner /\ ran' = ran
    BY <1>2 DEF Tick
  <2> QED
    BY <1>2, <2>1, TickFacts DEF Inv, RetentionTypeOK, BatchNoted
<1>3. CASE Next /\ ~Tick
  BY <1>3, NextCases, RunKeepsBatch, WakeKeepsBatch, FanOutKeepsBatch,
     DeletionKeepsBatch, CollectKeepsBatch, OthersKeepBatch DEF Inv
<1> QED
  BY <1>1, <1>2, <1>3

LEMMA AlwaysInv == Spec => []Inv
<1> QED
  BY InitInv, NextInv, PTL DEF Spec

-----------------------------------------------------------------------------
\* The variables keep their types; in particular the retention task holds
\* collected instances only while it deletes.
THEOREM RetentionTypeCorrect == Spec => []RetentionTypeOK
<1>1. Inv => RetentionTypeOK
  BY DEF Inv
<1> QED
  BY <1>1, AlwaysInv, PTL

\* What every step but a deletion preserves: metadata rows and memoised
\* results, of every instance.
LEMMA OnlyDeleteForgets ==
  ASSUME Inv, Next, \A j \in Instance : ~Delete(j), NEW i \in Instance
  PROVE  /\ Present(i) => Present(i)'
         /\ "done" \in steps[i] => "done" \in steps'[i]
<1>1. ASSUME NEW j \in Instance, RunOf(j) \/ WakeOf(j)
      PROVE  /\ Present(i) => Present(i)'
             /\ "done" \in steps[i] => "done" \in steps'[i]
  BY <1>1 DEF Inv, RetentionTypeOK, RunOf, WakeOf, SameRows, Present, Meta
<1>2. CASE UNCHANGED <<meta, steps>>
  BY <1>2 DEF Present
<1>3. CASE Tick
  BY <1>3, TickFacts DEF Inv, Tick
<1> QED
  BY <1>1, <1>2, <1>3, NextCases
    DEF Inv, FanOut, PollTake, PollRing, DeleteFails, Collect, CleanerLoop,
        Start, Stop, Stopped, Crash, store

\* What a deletion takes, and of whom.
LEMMA DeleteFacts ==
  ASSUME RetentionTypeOK, NEW i \in Instance, NEW j \in Instance, Delete(j)
  PROVE  /\ steps'[i] = IF RootOf(i) = j \/ i = j THEN {} ELSE steps[i]
         /\ timers'[i] = IF i = j THEN 0 ELSE timers[i]
         /\ Present(i)' <=> (Present(i) /\ i # j)
         /\ Active(i)' <=> Active(i)
<1>1. steps'[i] = IF RootOf(i) = j \/ i = j THEN {} ELSE steps[i]
  BY DEF Delete
<1>2. timers'[i] = IF i = j THEN 0 ELSE timers[i]
  BY DEF RetentionTypeOK, Delete
<1>3. Present(i)' <=> (Present(i) /\ i # j)
  BY DEF RetentionTypeOK, Delete, Present, Meta
<1>4. Active(i)' <=> Active(i)
  BY DEF Delete, Active, Working
<1> QED
  BY <1>1, <1>2, <1>3, <1>4

\* Whatever callers, timers, signals, fan-outs and start() do while a cycle of
\* the retention task is at its batch: what it deletes is expired at that
\* moment or has had a run since it was collected.
THEOREM DeletesOnlyExpired == Spec => OnlyExpired
<1>1. Inv /\ [Next]_vars =>
        [\A i \in Instance :
           Present(i) /\ ~Present(i)' => Expired(i) \/ i \in ran]_vars
  <2> SUFFICES ASSUME Inv, Next, NEW i \in Instance, Present(i), ~Present(i)'
               PROVE  Expired(i) \/ i \in ran
    OBVIOUS
  <2>1. PICK j \in Instance : Delete(j)
    BY OnlyDeleteForgets
  <2>2. i = j
    BY <2>1, DeleteFacts DEF Inv
  <2> QED
    BY <2>1, <2>2 DEF Inv, BatchNoted, Delete, Dealt
<1> QED
  BY <1>1, InitInv, NextInv, PTL DEF Spec, OnlyExpired

\* A root that was not finished when a cycle began, or has not been run since,
\* keeps what it has memoised; so do its children until they expire.
THEOREM LiveKeepJournal == Spec => LiveFamilyKept
<1>1. ASSUME Inv, Next, NEW i \in Instance,
             "done" \in steps[i], "done" \notin steps'[i], Live(RootOf(i))
      PROVE  RootOf(i) \in ran \/ (i \in Child /\ (Expired(i) \/ i \in ran))
  <2>1. PICK j \in Instance : Delete(j)
    BY <1>1, OnlyDeleteForgets
  <2>2. Expired(j) \/ j \in ran
    BY <1>1, <2>1 DEF Inv, BatchNoted, Delete, Dealt
  <2>3. RootOf(i) = j \/ i = j
    BY <1>1, <2>1, DeleteFacts DEF Inv
  <2>4. CASE RootOf(i) = j
    BY <1>1, <2>2, <2>4 DEF Expired, Live
  <2>5. CASE RootOf(i) # j
    BY <2>2, <2>3, <2>5 DEF RootOf
  <2> QED
    BY <2>4, <2>5
<1>2. Inv /\ [Next]_vars =>
        [\A i \in Instance :
           "done" \in steps[i] /\ "done" \notin steps'[i] /\ Live(RootOf(i))
             => \/ RootOf(i) \in ran
                \/ i \in Child /\ (Expired(i) \/ i \in ran)]_vars
  BY <1>1
<1> QED
  BY <1>2, InitInv, NextInv, PTL DEF Spec, LiveFamilyKept

\* The deletion of an instance leaves no entry and no row of the family that
\* neither metadata nor a run accounts for, be the children finished, running,
\* aborted or recorded as Running by nobody; nor does any other step, except
\* the death of a run that has no metadata.
THEOREM DeletionIsComplete == Spec => NothingLost
<1> DEFINE Owned(i) == ~Lost(i) /\ Lost(i)' => ~Present(i) /\ Active(i)
<1>1. ASSUME Inv, Next, NEW i \in Instance
      PROVE  Owned(i)
  <2> USE DEF Lost
  <2>1. ASSUME NEW j \in Instance, RunOf(j)
        PROVE  Owned(i)
    BY <2>1 DEF RunOf, SameRows, Present
  <2>2. ASSUME NEW j \in Instance, WakeOf(j)
        PROVE  Owned(i)
    <3>1. i = j => Present(i)'
      BY <1>1, <2>2 DEF Inv, RetentionTypeOK, WakeOf, Present, Meta
    <3>2. i # j => SameRows(i) /\ (Active(i)' <=> Active(i))
      BY <2>2 DEF WakeOf
    <3> QED
      BY <3>1, <3>2 DEF SameRows, Present
  <2>3. ASSUME NEW j \in Root, FanOut(j)
        PROVE  Owned(i)
    BY <2>3 DEF FanOut, store, Present
  <2>4. ASSUME NEW j \in Instance, Delete(j)
        PROVE  Owned(i)
    BY <1>1, <2>4, DeleteFacts DEF Inv
  <2>5. CASE PollTake
    <3>1. timers'[i] > 0 => timers[i] > 0
      BY <1>1, <2>5 DEF Inv, RetentionTypeOK, PollTake
    <3> QED
      BY <2>5, <3>1 DEF PollTake, Present, Active, Working
  <2>6. CASE Tick
    <3>1. steps' = steps /\ timers' = timers
      BY <2>6 DEF Tick
    <3>2. /\ Present(i)' <=> Present(i)
          /\ Active(i)' <=> Active(i)
      BY <1>1, <2>6, TickFacts DEF Inv
    <3> QED
      BY <3>1, <3>2
  <2>7. CASE UNCHANGED store
    BY <2>7 DEF store, Present
  <2> QED
    BY <1>1, <2>1, <2>2, <2>3, <2>4, <2>5, <2>6, <2>7, NextCases
      DEF Inv, PollRing, DeleteFails, Collect, CleanerLoop, Start, Stop,
          Stopped, Crash, store
<1>2. Inv /\ [Next]_vars => [\A i \in Instance : Owned(i)]_vars
  BY <1>1
<1> QED
  BY <1>2, InitInv, NextInv, PTL DEF Spec, NothingLost

\* Once deleted and not being run, an instance comes back only by a caller's
\* resume(), its parent's fan-out or a list that start() has already read:
\* never by a timer row that was in the poller's hand, by a signal, or by what
\* becomes of the other instances.
THEOREM DeletedStayDeleted == Spec => StaysDeleted
<1> DEFINE Gone(i) == ~Present(i) /\ ~Active(i) /\ i \notin list
           Back(i) == Present(i)' \/ Active(i)'
           Called(i) == \/ i \in Root /\ Begin(i)
                        \/ i \in Child /\ FanOut(Parent[i])
<1>1. ASSUME Inv, Next, NEW i \in Instance, Gone(i), Back(i)
      PROVE  Called(i)
  <2>1. ASSUME NEW j \in Instance, RunOf(j)
        PROVE  FALSE
    BY <1>1, <2>1 DEF RunOf, SameRows, Present
  <2>2. ASSUME NEW j \in Instance, WakeOf(j)
        PROVE  i \in Root /\ Begin(i)
    <3>1. i = j
      BY <1>1, <2>2 DEF WakeOf, SameRows, Present
    <3> QED
      BY <1>1, <2>2, <3>1 DEF WakeOf
  <2>3. ASSUME NEW j \in Root, FanOut(j)
        PROVE  i \in Child /\ FanOut(Parent[i])
    BY <1>1, <2>3, FanOutFacts DEF Inv, FanOut, store, Present, Children
  <2>4. ASSUME NEW j \in Instance, Delete(j)
        PROVE  FALSE
    BY <1>1, <2>4, DeleteFacts DEF Inv
  <2>5. ~Tick
    BY <1>1, TickFacts DEF Inv
  <2>6. CASE UNCHANGED <<meta, task>>
    BY <1>1, <2>6 DEF Present, Active, Working
  <2>7. CASE Stopped
    <3>1. PICK t \in Task : t[1] = i /\ Working(t)'
      BY <1>1, <2>7 DEF Stopped, store, Present, Active
    <3>2. t[1] \in Child /\ task'[t] = Orphaned(Parent[t[1]])[t]
      BY <2>7, <3>1 DEF Stopped, Working
    <3>3. Parent[t[1]] \in Instance
      BY <3>2, TaskFacts
    <3>4. Orphaned(Parent[t[1]])[t] \notin {"none", "panicked"}
      BY <3>1, <3>2 DEF Working
    <3>5. Active(t[1])
      BY <1>1, <3>3, <3>4, OrphanedFacts DEF Inv
    <3> QED
      BY <1>1, <3>1, <3>5
  <2>8. CASE Crash
    BY <1>1, <2>8 DEF Crash, store, Present, Active, Working
  <2> QED
    BY <1>1, <2>1, <2>2, <2>3, <2>4, <2>5, <2>6, <2>7, <2>8, NextCases
      DEF Inv, PollTake, PollRing, DeleteFails, Collect, CleanerLoop, Start,
          Stop, store
<1>2. Inv /\ [Next]_vars =>
        [\A i \in Instance :
           ~Present(i) /\ ~Active(i) /\ i \notin list /\ (Present(i) \/ Active(i))'
             => \/ i \in Root /\ Begin(i)
                \/ i \in Child /\ FanOut(Parent[i])]_vars
  BY <1>1
<1> QED
  BY <1>2, InitInv, NextInv, PTL DEF Spec, StaysDeleted

=============================================================================
