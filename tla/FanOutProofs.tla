---------------------------- MODULE FanOutProofs ----------------------------
(***************************************************************************)
(* Theorems about FanOut, for every finite set of children, every number   *)
(* of permits, every bound on runs and all faults.                         *)
(***************************************************************************)
EXTENDS FanOut, SequenceTheorems, TLAPS

-----------------------------------------------------------------------------
(* Sequences of runs.                                                      *)

\* A run is added at the end.
LEMMA AppendRun ==
  ASSUME NEW s \in Seq(RunState), NEW x \in RunState
  PROVE  /\ Append(s, x) \in Seq(RunState)
         /\ Len(Append(s, x)) = Len(s) + 1
         /\ \A j \in DOMAIN Append(s, x) :
              Append(s, x)[j] = x \/ \E i \in DOMAIN s : Append(s, x)[j] = s[i]
OBVIOUS

\* What is left when a run is taken out.
LEMMA RemoveAtIs ==
  ASSUME NEW s \in Seq(RunState), NEW k \in DOMAIN s
  PROVE  /\ RemoveAt(s, k) \in Seq(RunState)
         /\ Len(RemoveAt(s, k)) = Len(s) - 1
         /\ DOMAIN RemoveAt(s, k) = 1..(Len(s) - 1)
         /\ \A j \in 1..(Len(s) - 1) :
              RemoveAt(s, k)[j] = IF j < k THEN s[j] ELSE s[j + 1]
<1> DEFINE a == SubSeq(s, 1, k - 1)
           b == SubSeq(s, k + 1, Len(s))
<1>1. /\ Len(s) \in Nat /\ DOMAIN s = 1..Len(s) /\ k \in 1..Len(s)
      /\ \A i \in 1..Len(s) : s[i] \in RunState
  OBVIOUS
<1>2. /\ a \in Seq(RunState) /\ Len(a) = k - 1
      /\ \A i \in 1..(k - 1) : a[i] = s[i]
  BY <1>1, SubSeqProperties
<1>3. /\ b \in Seq(RunState) /\ Len(b) = Len(s) - k
      /\ \A i \in 1..(Len(s) - k) : b[i] = s[k + i]
  BY <1>1, SubSeqProperties
<1> HIDE DEF a, b
<1>4. Len(a) + Len(b) = Len(s) - 1
  BY <1>1, <1>2, <1>3
<1>5. /\ a \o b \in Seq(RunState) /\ Len(a \o b) = Len(a) + Len(b)
      /\ \A j \in 1..(Len(a) + Len(b)) :
           (a \o b)[j] = IF j <= Len(a) THEN a[j] ELSE b[j - Len(a)]
  BY <1>2, <1>3, ConcatProperties
<1>6. DOMAIN (a \o b) = 1..(Len(s) - 1)
  BY <1>4, <1>5, LenProperties
<1>7. ASSUME NEW j \in 1..(Len(s) - 1)
      PROVE  (a \o b)[j] = IF j < k THEN s[j] ELSE s[j + 1]
  <2>1. /\ j \in Int /\ k \in Int /\ Len(s) \in Int
        /\ 1 <= j /\ j <= Len(s) - 1 /\ k <= Len(s)
    BY <1>1
  <2>2. CASE j <= k - 1
    <3>1. (a \o b)[j] = s[j]
      BY <1>2, <1>4, <1>5, <2>1, <2>2
    <3> QED BY <2>1, <2>2, <3>1
  <2>3. CASE j > k - 1
    <3>1. j - (k - 1) \in 1..(Len(s) - k) /\ k + (j - (k - 1)) = j + 1
      BY <2>1, <2>3
    <3>2. (a \o b)[j] = b[j - (k - 1)]
      <4>1. j \in 1..(Len(a) + Len(b))
        BY <1>4
      <4>2. ~(j <= Len(a)) /\ j - Len(a) = j - (k - 1)
        BY <1>2, <2>1, <2>3
      <4>3. (a \o b)[j] = IF j <= Len(a) THEN a[j] ELSE b[j - Len(a)]
        BY <1>5, <4>1
      <4> QED BY <4>2, <4>3
    <3>3. b[j - (k - 1)] = s[k + (j - (k - 1))]
      BY <1>3, <3>1
    <3>4. (a \o b)[j] = s[j + 1]
      BY <3>1, <3>2, <3>3
    <3>5. ~(j < k)
      BY <2>1, <2>3
    <3> QED BY <3>4, <3>5
  <2>4. j <= k - 1 \/ j > k - 1
    BY <2>1
  <2> QED BY <2>2, <2>3, <2>4
<1>8. RemoveAt(s, k) = a \o b
  BY DEF RemoveAt, a, b
<1> QED BY <1>4, <1>5, <1>6, <1>7, <1>8

\* It is what was there before ...
LEMMA RemoveRun ==
  ASSUME NEW s \in Seq(RunState), NEW k \in DOMAIN s
  PROVE  /\ RemoveAt(s, k) \in Seq(RunState)
         /\ Len(RemoveAt(s, k)) < Len(s)
         /\ \A j \in DOMAIN RemoveAt(s, k) :
              \E i \in DOMAIN s : RemoveAt(s, k)[j] = s[i]
<1>1. Len(s) \in Nat /\ DOMAIN s = 1..Len(s)
  BY LenProperties
<1>2. \A j \in 1..(Len(s) - 1) : j \in DOMAIN s /\ j + 1 \in DOMAIN s
  BY <1>1
<1>3. ASSUME NEW j \in DOMAIN RemoveAt(s, k)
      PROVE  \E i \in DOMAIN s : RemoveAt(s, k)[j] = s[i]
  <2>1. RemoveAt(s, k)[j] = s[j] \/ RemoveAt(s, k)[j] = s[j + 1]
    BY <1>3, RemoveAtIs
  <2>2. j \in DOMAIN s /\ j + 1 \in DOMAIN s
    BY <1>2, <1>3, RemoveAtIs
  <2> QED BY <2>1, <2>2
<1>4. RemoveAt(s, k) \in Seq(RunState) /\ Len(RemoveAt(s, k)) < Len(s)
  BY <1>1, RemoveAtIs
<1> QED BY <1>3, <1>4

\* ... and all of it but the one run.
LEMMA RemoveKeeps ==
  ASSUME NEW s \in Seq(RunState), NEW k \in DOMAIN s, NEW i \in DOMAIN s, i # k
  PROVE  \E j \in DOMAIN RemoveAt(s, k) : RemoveAt(s, k)[j] = s[i]
<1>1. /\ Len(s) \in Nat /\ DOMAIN s = 1..Len(s) /\ i \in Int /\ k \in Int
      /\ 1 <= i /\ i <= Len(s) /\ 1 <= k /\ k <= Len(s)
  BY LenProperties
<1> DEFINE j == IF i < k THEN i ELSE i - 1
<1>2. /\ j \in 1..(Len(s) - 1)
      /\ i = IF j < k THEN j ELSE j + 1
  BY <1>1
<1> HIDE DEF j
<1>3. RemoveAt(s, k)[j] = s[i]
  BY <1>2, RemoveAtIs
<1> QED BY <1>2, <1>3, RemoveAtIs

\* A run moves on.
LEMMA ChangeRun ==
  ASSUME NEW s \in Seq(RunState), NEW k \in DOMAIN s, NEW x \in RunState
  PROVE  /\ [s EXCEPT ![k] = x] \in Seq(RunState)
         /\ Len([s EXCEPT ![k] = x]) = Len(s)
         /\ DOMAIN [s EXCEPT ![k] = x] = DOMAIN s
         /\ \A i \in DOMAIN s : [s EXCEPT ![k] = x][i] = IF i = k THEN x ELSE s[i]
BY ExceptSeq, LenProperties

-----------------------------------------------------------------------------
(* What the actions do to the runs.                                        *)

RunsOK ==
  /\ run \in [Child -> Seq(RunState)]
  /\ \A c \in Child : Len(run[c]) <= MaxRuns

\* A run of the child has returned with success and has not yet reported.
Succeeded(c) == \E k \in DOMAIN run[c] : run[c][k].phase = "ok"

LEMMA RunsBegin ==
  ASSUME RunsOK, NEW c \in Child, NEW by \in {"slot", "engine"}, BeginRun(c, by)
  PROVE  RunsOK' /\ \A d \in Child : Succeeded(d)' => Succeeded(d)
<1> DEFINE x == [phase |-> "work", by |-> by]
<1>1. x \in RunState
  BY DEF RunState
<1>2. run[c] \in Seq(RunState) /\ run' = [run EXCEPT ![c] = Append(run[c], x)]
  BY DEF BeginRun, RunsOK
<1>3. Len(run[c]) < MaxRuns
  BY DEF BeginRun
<1>4. x.phase = "work"
  OBVIOUS
<1> HIDE DEF x
<1>5. /\ Append(run[c], x) \in Seq(RunState)
      /\ Len(Append(run[c], x)) <= MaxRuns
      /\ \A j \in DOMAIN Append(run[c], x) :
           \/ Append(run[c], x)[j] = x
           \/ \E i \in DOMAIN run[c] : Append(run[c], x)[j] = run[c][i]
  BY <1>1, <1>2, <1>3, AppendRun, MaxRunsAssumption, LenProperties
<1> QED BY <1>2, <1>4, <1>5 DEF RunsOK, Succeeded

\* One run takes a step.
LEMMA RunsChange ==
  ASSUME RunsOK, NEW c \in Child, NEW k \in DOMAIN run[c], NEW x \in RunState,
         run' = [run EXCEPT ![c] = [run[c] EXCEPT ![k] = x]]
  PROVE  /\ RunsOK'
         /\ \A d \in Child : Succeeded(d)' =>
              Succeeded(d) \/ (d = c /\ x.phase = "ok")
<1>1. run[c] \in Seq(RunState)
  BY DEF RunsOK
<1>2. /\ run'[c] \in Seq(RunState) /\ Len(run'[c]) = Len(run[c])
      /\ DOMAIN run'[c] = DOMAIN run[c]
      /\ \A i \in DOMAIN run[c] : run'[c][i] = IF i = k THEN x ELSE run[c][i]
  BY <1>1, ChangeRun DEF RunsOK
<1> QED BY <1>2 DEF RunsOK, Succeeded

LEMMA RunsRemove ==
  ASSUME RunsOK, NEW c \in Child, NEW k \in DOMAIN run[c],
         run' = [run EXCEPT ![c] = RemoveAt(@, k)]
  PROVE  RunsOK' /\ \A d \in Child : Succeeded(d)' => Succeeded(d)
<1>1. run[c] \in Seq(RunState) /\ run'[c] = RemoveAt(run[c], k)
  BY DEF RunsOK
<1>2. /\ run'[c] \in Seq(RunState) /\ Len(run'[c]) < Len(run[c])
      /\ \A j \in DOMAIN run'[c] : \E i \in DOMAIN run[c] : run'[c][j] = run[c][i]
  BY <1>1, RemoveRun
<1>3. Len(run'[c]) <= MaxRuns
  BY <1>1, <1>2, MaxRunsAssumption, LenProperties DEF RunsOK
<1> QED BY <1>2, <1>3 DEF RunsOK, Succeeded

\* The runs of the slots go on without them.
LEMMA RunsDropSlots ==
  ASSUME RunsOK, DropSlots
  PROVE  RunsOK' /\ \A d \in Child : Succeeded(d)' => Succeeded(d)
<1> DEFINE new(d, k) == IF run[d][k].by = "slot"
                        THEN [run[d][k] EXCEPT !.by = "aborted"]
                        ELSE run[d][k]
<1>1. run' = [d \in Child |-> [k \in DOMAIN run[d] |-> new(d, k)]]
  BY DEF DropSlots
<1>2. ASSUME NEW d \in Child, NEW k \in DOMAIN run[d]
      PROVE  new(d, k) \in RunState /\ new(d, k).phase = run[d][k].phase
  <2>1. run[d][k] \in RunState
    BY <1>2 DEF RunsOK
  <2> QED BY <2>1 DEF RunState
<1> HIDE DEF new
<1>3. ASSUME NEW d \in Child
      PROVE  /\ run'[d] \in Seq(RunState) /\ Len(run'[d]) = Len(run[d])
             /\ DOMAIN run'[d] = DOMAIN run[d]
  <2>1. run'[d] = [k \in 1..Len(run[d]) |-> new(d, k)] /\ Len(run[d]) \in Nat
    BY <1>1, LenProperties DEF RunsOK
  <2>2. \A k \in 1..Len(run[d]) : new(d, k) \in RunState
    BY <1>2, LenProperties DEF RunsOK
  <2>3. DOMAIN run[d] = 1..Len(run[d])
    BY LenProperties DEF RunsOK
  <2> QED BY <2>1, <2>2, <2>3
<1>4. \A d \in Child : Succeeded(d)' => Succeeded(d)
  BY <1>1, <1>2, <1>3 DEF Succeeded
<1> QED BY <1>1, <1>3, <1>4 DEF RunsOK

-----------------------------------------------------------------------------
(* Type correctness.                                                       *)

\* FanTypeOK without what it says of the runs.
RestOK ==
  /\ plan \in [registered : BOOLEAN, failFast : BOOLEAN]
  /\ meta \in [Who -> {"absent", "Running", "Completed", "Failed"}]
  /\ output \subseteq Child
  /\ result \in [Child -> {"ok", "err"}] \cup {NoResult}
  /\ parent \in {"off", "run", "collect", "after", "err"}
  /\ slot \in [Child ->
       [phase : {"none", "permit", "lock", "child"} \cup Done,
        heard : {"none", "Started", "Completed", "Failed"}]]
  /\ running \in BOOLEAN
  /\ shutdown \in {"none", "asked", "joining", "aborting"}
  /\ scan \in [list : SUBSET {"parents", "children"}, spawn : SUBSET Who]

LEMMA TypeParts == FanTypeOK <=> RestOK /\ RunsOK
BY DEF FanTypeOK, RestOK, RunsOK

LEMMA FanInit == Init => FanTypeOK
<1> SUFFICES ASSUME Init PROVE RestOK /\ RunsOK
  BY TypeParts
<1>1. RestOK
  BY DEF Init, RestOK, NoSlot, NoScan
<1>2. RunsOK
  <2>1. <<>> \in Seq(RunState) /\ Len(<<>>) = 0
    BY EmptySeq
  <2> QED BY <2>1, MaxRunsAssumption DEF Init, RunsOK
<1> QED BY <1>1, <1>2

\* No action adds a run that has succeeded without its output.
LEMMA RunsNext ==
  ASSUME RunsOK, [Next]_vars
  PROVE  /\ RunsOK'
         /\ \A d \in Child : Succeeded(d)' => Succeeded(d) \/ d \in output'
<1>1. ASSUME NEW c \in Child, NEW k \in DOMAIN run[c], Return(c, k)
      PROVE  RunsOK' /\ \A d \in Child : Succeeded(d)' => Succeeded(d) \/ d \in output'
  <2>1. run[c][k] \in RunState
    BY <1>1 DEF RunsOK
  <2>2. CASE run' = [run EXCEPT ![c][k].phase = "ok"] /\ output' = output \cup {c}
    <3> DEFINE x == [run[c][k] EXCEPT !.phase = "ok"]
    <3>1. x \in RunState
      BY <2>1 DEF RunState
    <3>2. run' = [run EXCEPT ![c] = [run[c] EXCEPT ![k] = x]]
      BY <2>2
    <3> HIDE DEF x
    <3> QED BY <1>1, <2>2, <3>1, <3>2, RunsChange
  <2>3. CASE run' = [run EXCEPT ![c][k].phase = "err"]
    <3> DEFINE x == [run[c][k] EXCEPT !.phase = "err"]
    <3>1. x \in RunState /\ x.phase = "err"
      BY <2>1 DEF RunState
    <3>2. run' = [run EXCEPT ![c] = [run[c] EXCEPT ![k] = x]]
      BY <2>3
    <3> HIDE DEF x
    <3> QED BY <1>1, <3>1, <3>2, RunsChange
  <2> QED BY <1>1, <2>2, <2>3 DEF Return
<1>2. ASSUME NEW c \in Child, NEW k \in DOMAIN run[c],
             Report(c, k) \/ Panic(c, k) \/ DropRun(c, k)
      PROVE  RunsOK' /\ \A d \in Child : Succeeded(d)' => Succeeded(d)
  BY <1>2, RunsRemove DEF Report, Panic, DropRun
<1>3. ASSUME NEW c \in Child, SlotStep(c)
      PROVE  RunsOK' /\ \A d \in Child : Succeeded(d)' => Succeeded(d)
  <2>1. CASE BeginRun(c, "slot") \/ BeginRun(c, "engine")
    BY <2>1, RunsBegin
  <2>2. CASE run' = run
    BY <2>2 DEF RunsOK, Succeeded
  <2> QED BY <1>3, <2>1, <2>2 DEF SlotStep, Acquire, SpawnChild, Hear
<1>4. CASE StartSpawn
  <2>1. PICK w \in scan.spawn :
          \/ w = "parent" /\ BeginParent
          \/ w \in Child /\ BeginRun(w, "engine")
    BY <1>4 DEF StartSpawn
  <2>2. CASE w \in Child /\ BeginRun(w, "engine")
    BY <2>2, RunsBegin
  <2>3. CASE BeginParent
    BY <2>3 DEF BeginParent, RunsOK, Succeeded
  <2> QED BY <2>1, <2>2, <2>3
<1>5. CASE GiveUp \/ DropParent
  BY <1>5, RunsDropSlots DEF GiveUp, DropParent
<1>6. CASE Crash
  <2>1. <<>> \in Seq(RunState) /\ Len(<<>>) = 0 /\ DOMAIN <<>> = {}
    BY EmptySeq, LenProperties
  <2>2. \A d \in Child : run'[d] = <<>>
    BY <1>6 DEF Crash
  <2> QED BY <1>6, <2>1, <2>2, MaxRunsAssumption DEF Crash, RunsOK, Succeeded
<1>7. CASE run' = run
  BY <1>7 DEF RunsOK, Succeeded
<1>8. CASE UNCHANGED vars
  BY <1>7, <1>8 DEF vars
<1>9. CASE Invoke \/ Resume \/ CallFanOut \/ WriteResult \/ EndParent \/ Start
           \/ StartList \/ Shutdown \/ Lock \/ StopTimeout \/ Drained
  BY <1>7, <1>9 DEF Invoke, Resume, BeginParent, CallFanOut, WriteResult, EndParent,
       Start, StartList, Shutdown, Lock, StopTimeout, Drained
<1> QED
  BY <1>1, <1>2, <1>3, <1>4, <1>5, <1>6, <1>8, <1>9
     DEF Next, RunStep, ParentStep, EngineStep

\* Every action keeps the types of everything else.
LEMMA RestNext ==
  ASSUME FanTypeOK, [Next]_vars
  PROVE  RestOK'
<1>0. RestOK /\ RunsOK
  BY TypeParts
<1> USE DEF RestOK
<1> DEFINE SlotOK ==
      slot \in [Child ->
        [phase : {"none", "permit", "lock", "child"} \cup Done,
         heard : {"none", "Started", "Completed", "Failed"}]]
<1>slots. slot' = [c \in Child |-> NoSlot] => SlotOK'
  BY DEF NoSlot
<1>1. ASSUME NEW c \in Child, NEW k \in DOMAIN run[c],
             \/ Return(c, k) \/ Report(c, k) \/ Panic(c, k) \/ DropRun(c, k)
      PROVE  RestOK'
  <2>1. CASE Return(c, k)
    BY <1>0, <2>1 DEF Return, engine
  <2>2. CASE Report(c, k)
    <3>1. meta' \in [Who -> {"absent", "Running", "Completed", "Failed"}]
      BY <1>0, <2>2 DEF Report
    <3>2. slot' \in [Child ->
            [phase : {"none", "permit", "lock", "child"} \cup Done,
             heard : {"none", "Started", "Completed", "Failed"}]]
      BY <1>0, <2>2 DEF Report, NoSlot, Done
    <3> QED BY <1>0, <2>2, <3>1, <3>2 DEF Report, engine
  <2>3. CASE Panic(c, k)
    BY <1>0, <2>3 DEF Panic, NoSlot, Done, database, engine
  <2>4. CASE DropRun(c, k)
    BY <1>0, <2>4 DEF DropRun, database, engine
  <2> QED BY <1>1, <2>1, <2>2, <2>3, <2>4
<1>2. ASSUME NEW c \in Child, SlotStep(c)
      PROVE  RestOK'
  <2>1. CASE Acquire(c)
    BY <1>0, <2>1 DEF Acquire, BeginRun, engine, Who
  <2>2. CASE SpawnChild(c)
    <3>1. SlotOK'
      BY <1>0, <2>2 DEF SpawnChild, NoSlot, Done
    <3>2. meta' \in [Who -> {"absent", "Running", "Completed", "Failed"}]
      BY <1>0, <2>2 DEF SpawnChild, BeginRun, Who
    <3>3. UNCHANGED <<plan, output, result, parent, engine>>
      BY <2>2 DEF SpawnChild
    <3> QED BY <1>0, <3>1, <3>2, <3>3 DEF engine
  <2>3. CASE Hear(c)
    BY <1>0, <2>3 DEF Hear, NoSlot, Done, database, engine
  <2> QED BY <1>2, <2>1, <2>2, <2>3 DEF SlotStep
<1>3. CASE ParentStep
  <2>1. CASE CallFanOut
    BY <1>0, <2>1 DEF CallFanOut, NoSlot, database, engine
  <2>2. CASE GiveUp
    <3>1. SlotOK'
      BY <1>slots, <2>2 DEF GiveUp, DropSlots
    <3>2. parent' = "err" /\ UNCHANGED <<plan, database, engine>>
      BY <2>2 DEF GiveUp
    <3> QED BY <1>0, <3>1, <3>2 DEF database, engine
  <2>3. CASE WriteResult
    <3>1. \A c \in Child : slot[c].phase \in {"ok", "err"}
      BY <1>0, <2>3 DEF WriteResult, Ends, Done
    <3> QED BY <1>0, <2>3, <3>1 DEF WriteResult, NoSlot, engine
  <2>4. CASE EndParent
    BY <1>0, <2>4 DEF EndParent, engine, Who
  <2> QED BY <1>3, <2>1, <2>2, <2>3, <2>4 DEF ParentStep
<1>4. ASSUME BeginParent,
             scan' \in [list : SUBSET {"parents", "children"}, spawn : SUBSET Who]
      PROVE  RestOK'
  BY <1>0, <1>4 DEF BeginParent, Who
<1>5. CASE StartSpawn
  <2>1. PICK w \in scan.spawn :
          /\ scan' = [scan EXCEPT !.spawn = @ \ {w}]
          /\ \/ w = "parent" /\ BeginParent
             \/ /\ w \in Child
                /\ BeginRun(w, "engine")
                /\ slot' = [slot EXCEPT ![w] =
                     IF @.heard = "none" THEN @ ELSE [@ EXCEPT !.heard = "Started"]]
                /\ UNCHANGED <<plan, output, result, parent, running, shutdown>>
    BY <1>5 DEF StartSpawn
  <2>2. scan' \in [list : SUBSET {"parents", "children"}, spawn : SUBSET Who]
    BY <1>0, <2>1
  <2>3. CASE BeginParent
    BY <1>4, <2>2, <2>3
  <2>4. CASE BeginRun(w, "engine")
    <3>1. CASE w = "parent" /\ BeginParent
      BY <2>3, <3>1
    <3>2. CASE /\ w \in Child
               /\ slot' = [slot EXCEPT ![w] =
                    IF @.heard = "none" THEN @ ELSE [@ EXCEPT !.heard = "Started"]]
               /\ UNCHANGED <<plan, output, result, parent, running, shutdown>>
      <4>1. SlotOK'
        BY <1>0, <3>2
      <4>2. meta' \in [Who -> {"absent", "Running", "Completed", "Failed"}]
        BY <1>0, <2>4 DEF BeginRun
      <4> QED BY <1>0, <2>2, <3>2, <4>1, <4>2
    <3> QED BY <2>1, <3>1, <3>2
  <2> QED BY <2>1, <2>3, <2>4
<1>6. CASE StartList
  <2>1. PICK name \in scan.list :
          scan' = [list |-> scan.list \ {name},
                   spawn |-> {w \in Instances(name) : meta[w] = "Running"}]
    BY <1>6 DEF StartList
  <2>2. Instances(name) \subseteq Who
    BY DEF Instances, Who
  <2> QED BY <1>0, <1>6, <2>1, <2>2 DEF StartList, database
<1>7. CASE Invoke \/ Resume
  BY <1>0, <1>4, <1>7 DEF Invoke, Resume
<1>8. CASE DropParent \/ Crash
  <2>1. SlotOK'
    BY <1>slots, <1>8 DEF DropParent, Crash, DropSlots
  <2>2. CASE DropParent
    <3>1. parent' = "off" /\ UNCHANGED <<plan, database, engine>>
      BY <2>2 DEF DropParent
    <3> QED BY <1>0, <2>1, <3>1 DEF database, engine
  <2>3. CASE Crash
    BY <1>0, <2>1, <2>3 DEF Crash, NoScan, database
  <2> QED BY <1>8, <2>2, <2>3
<1>9. CASE Start \/ Shutdown \/ Lock \/ StopTimeout \/ Drained
  <2>1. CASE Start
    <3>1. scan' \in [list : SUBSET {"parents", "children"}, spawn : SUBSET Who]
      BY <2>1 DEF Start, NoScan
    <3> QED BY <1>0, <2>1, <3>1 DEF Start, database
  <2>2. CASE Shutdown \/ Lock \/ StopTimeout \/ Drained
    BY <1>0, <2>2 DEF Shutdown, Lock, StopTimeout, Drained, database
  <2> QED BY <1>9, <2>1, <2>2
<1>10. CASE UNCHANGED vars
  BY <1>0, <1>10 DEF vars
<1> QED
  BY <1>1, <1>2, <1>3, <1>5, <1>6, <1>7, <1>8, <1>9, <1>10
     DEF Next, RunStep, EngineStep

LEMMA FanTypeNext == FanTypeOK /\ [Next]_vars => FanTypeOK'
<1> SUFFICES ASSUME FanTypeOK, [Next]_vars PROVE FanTypeOK'
  OBVIOUS
<1>1. RestOK' /\ RunsOK'
  BY TypeParts, RestNext, RunsNext
<1> QED BY <1>1 DEF FanTypeOK, RestOK, RunsOK

\* The journalled result is about every child or absent, and a slot is never
\* left in a state its collector does not know, whatever is aborted or lost.
THEOREM FanTypeCorrect == Spec => []FanTypeOK
BY FanInit, FanTypeNext, PTL DEF Spec

-----------------------------------------------------------------------------
(* The result.                                                             *)

\* What the children have said is backed by their outputs, wherever it is on
\* its way to the journal.
Backed ==
  /\ \A c \in Child : Succeeded(c) => c \in output
  /\ \A c \in Child : slot[c].phase = "ok" => c \in output
  /\ SuccessBacked

\* The parent collects only while it has no result, and goes on only with one;
\* failing fast it has only one of successes.
ResultKnown ==
  /\ parent = "collect" => result = NoResult
  /\ parent = "after" => result # NoResult
  /\ meta["parent"] = "Completed" => result # NoResult
  /\ plan.failFast /\ result # NoResult => \A c \in Child : result[c] = "ok"

ResultInv == FanTypeOK /\ Backed /\ ResultKnown

LEMMA ResultInit == Init => ResultInv
<1> SUFFICES ASSUME Init PROVE Backed /\ ResultKnown
  BY FanInit DEF ResultInv
<1>1. Backed
  <2>1. \A c \in Child : ~Succeeded(c)
    BY EmptySeq, LenProperties DEF Init, Succeeded
  <2> QED BY <2>1 DEF Init, Backed, SuccessBacked, NoResult, NoSlot, Who
<1>2. ResultKnown
  BY DEF Init, ResultKnown, Who
<1> QED BY <1>1, <1>2

\* Only WriteResult writes the result, from slots that have ended.
LEMMA ResultChange ==
  ASSUME [Next]_vars
  PROVE  UNCHANGED result \/ WriteResult
BY DEF Next, RunStep, SlotStep, ParentStep, EngineStep, Return, Report, Panic, DropRun,
       Acquire, SpawnChild, Hear, CallFanOut, GiveUp, EndParent, DropParent, Invoke,
       Resume, BeginParent, Start, StartList, StartSpawn, Shutdown, Lock, StopTimeout,
       Drained, Crash, vars, database, engine

LEMMA OutputGrows ==
  ASSUME [Next]_vars
  PROVE  output \subseteq output' /\ plan' = plan
BY DEF Next, RunStep, SlotStep, ParentStep, EngineStep, Return, Report, Panic, DropRun,
       Acquire, SpawnChild, Hear, CallFanOut, GiveUp, WriteResult, EndParent, DropParent,
       Invoke, Resume, BeginParent, Start, StartList, StartSpawn, Shutdown, Lock,
       StopTimeout, Drained, Crash, vars, database, engine

LEMMA Written ==
  ASSUME ResultInv, WriteResult
  PROVE  /\ result = NoResult /\ result' # NoResult
         /\ \A c \in Child : result'[c] = slot[c].phase
         /\ plan.failFast => \A c \in Child : result'[c] = "ok"
<1>1. \A c \in Child : slot[c].phase \in {"ok", "err"}
  BY DEF WriteResult, Ends, Done
<1>2. result' = [c \in Child |-> slot[c].phase]
  BY DEF WriteResult
<1>3. PICK c \in Child : TRUE
  BY ChildAssumption
<1>4. result'[c] # NoResult[c]
  BY <1>1, <1>2, <1>3 DEF NoResult
<1>5. plan.failFast => \A d \in Child : slot[d].phase = "ok"
  BY <1>1 DEF WriteResult, Ends
<1> QED BY <1>2, <1>4, <1>5 DEF WriteResult, ResultInv, ResultKnown

\* A slot says "ok" because a run of its own returned, or because it heard of
\* an end and has read the output.
LEMMA SlotBacked ==
  ASSUME ResultInv, [Next]_vars, NEW c \in Child, slot'[c].phase = "ok"
  PROVE  c \in output'
<1>1. output \subseteq output'
  BY OutputGrows
<1>2. /\ slot \in [Child -> [phase : {"none", "permit", "lock", "child"} \cup Done,
                            heard : {"none", "Started", "Completed", "Failed"}]]
      /\ Succeeded(c) \/ slot[c].phase = "ok" => c \in output
  BY DEF ResultInv, Backed, FanTypeOK
<1>3. CASE slot'[c].phase = slot[c].phase
  BY <1>1, <1>2, <1>3
<1>4. ASSUME NEW d \in Child, NEW k \in DOMAIN run[d], Report(d, k)
      PROVE  c \in output'
  <2>1. CASE d = c /\ run[d][k].by = "slot" /\ run[d][k].phase = "ok"
    BY <1>1, <1>2, <2>1 DEF Succeeded
  <2>2. CASE ~(d = c /\ run[d][k].by = "slot" /\ run[d][k].phase = "ok")
    <3>1. slot'[c].phase = slot[c].phase
      BY <1>2, <1>4, <2>2 DEF Report, NoSlot
    <3> QED BY <1>3, <3>1
  <2> QED BY <2>1, <2>2
<1>5. ASSUME NEW d \in Child, Hear(d)
      PROVE  c \in output'
  <2>1. d # c => slot'[c] = slot[c]
    BY <1>2, <1>5 DEF Hear
  <2>2. d = c => c \in output
    BY <1>2, <1>5 DEF Hear, NoSlot
  <2> QED BY <1>1, <1>3, <2>1, <2>2
<1>6. ASSUME NEW d \in Child, NEW k \in DOMAIN run[d], Panic(d, k)
      PROVE  c \in output'
  BY <1>2, <1>3, <1>6 DEF Panic, NoSlot
<1>7. ASSUME NEW d \in Child, Acquire(d) \/ SpawnChild(d)
      PROVE  c \in output'
  BY <1>2, <1>3, <1>7 DEF Acquire, SpawnChild, NoSlot
<1>8. CASE CallFanOut \/ GiveUp \/ WriteResult \/ DropParent \/ Crash
  BY <1>3, <1>8 DEF CallFanOut, GiveUp, WriteResult, DropParent, Crash, DropSlots, NoSlot
<1>9. CASE StartSpawn
  BY <1>2, <1>3, <1>9 DEF StartSpawn, BeginParent
<1>10. CASE UNCHANGED slot
  BY <1>3, <1>10
<1>11. ASSUME NEW d \in Child, NEW k \in DOMAIN run[d], Return(d, k) \/ DropRun(d, k)
       PROVE  c \in output'
  BY <1>10, <1>11 DEF Return, DropRun
<1>12. CASE \/ Invoke \/ Resume \/ EndParent \/ Start \/ StartList \/ Shutdown \/ Lock
            \/ StopTimeout \/ Drained \/ UNCHANGED vars
  BY <1>10, <1>12 DEF Invoke, Resume, BeginParent, EndParent, Start, StartList, Shutdown,
       Lock, StopTimeout, Drained, vars
<1> QED
  BY <1>4, <1>5, <1>6, <1>7, <1>8, <1>9, <1>11, <1>12
     DEF Next, RunStep, SlotStep, ParentStep, EngineStep

\* Completed gets into the metadata and the channel of a child only when a run
\* of it has returned with its output written.
LEMMA SaidBacked ==
  ASSUME ResultInv, [Next]_vars, NEW c \in Child,
         meta'[c] = "Completed" \/ slot'[c].heard = "Completed"
  PROVE  c \in output'
<1>1. output \subseteq output'
  BY OutputGrows
<1>2. /\ slot \in [Child -> [phase : {"none", "permit", "lock", "child"} \cup Done,
                            heard : {"none", "Started", "Completed", "Failed"}]]
      /\ meta \in [Who -> {"absent", "Running", "Completed", "Failed"}]
      /\ c \in Who /\ c # "parent"
      /\ Succeeded(c) => c \in output
      /\ meta[c] = "Completed" \/ slot[c].heard = "Completed" => c \in output
  BY ChildAssumption DEF ResultInv, Backed, SuccessBacked, FanTypeOK, Who
<1>3. CASE /\ meta'[c] \in {meta[c], "Running"}
           /\ slot'[c].heard \in {slot[c].heard, "none", "Started"}
  BY <1>1, <1>2, <1>3
<1>4. ASSUME NEW d \in Child, NEW k \in DOMAIN run[d], Report(d, k)
      PROVE  c \in output'
  <2>1. CASE d = c /\ run[d][k].phase = "ok"
    BY <1>1, <1>2, <2>1 DEF Succeeded
  <2>2. CASE d = c /\ run[d][k].phase = "err"
    BY <1>1, <1>2, <1>4, <2>2 DEF Report, NoSlot
  <2>3. CASE d # c
    BY <1>1, <1>2, <1>4, <2>3 DEF Report
  <2> QED BY <1>4, <2>1, <2>2, <2>3 DEF Report
<1>5. ASSUME NEW d \in Child, SlotStep(d)
      PROVE  c \in output'
  <2>1. CASE Acquire(d)
    BY <1>2, <1>3, <2>1 DEF Acquire, BeginRun
  <2>2. CASE SpawnChild(d)
    BY <1>2, <1>3, <2>2 DEF SpawnChild, BeginRun, NoSlot
  <2>3. CASE Hear(d)
    BY <1>2, <1>3, <2>3 DEF Hear, NoSlot, database
  <2> QED BY <1>5, <2>1, <2>2, <2>3 DEF SlotStep
<1>6. ASSUME NEW d \in Child, NEW k \in DOMAIN run[d],
             Return(d, k) \/ Panic(d, k) \/ DropRun(d, k)
      PROVE  c \in output'
  BY <1>2, <1>3, <1>6 DEF Return, Panic, DropRun, NoSlot, database
<1>7. CASE CallFanOut \/ GiveUp \/ WriteResult \/ DropParent \/ Crash
  BY <1>3, <1>7
     DEF CallFanOut, GiveUp, WriteResult, DropParent, Crash, DropSlots, NoSlot,
         database
<1>8. CASE BeginParent \/ EndParent
  BY <1>2, <1>3, <1>8 DEF BeginParent, EndParent
<1>9. CASE StartSpawn
  <2>1. ASSUME NEW w \in Child, BeginRun(w, "engine"),
               slot' = [slot EXCEPT ![w] =
                 IF @.heard = "none" THEN @ ELSE [@ EXCEPT !.heard = "Started"]]
        PROVE  c \in output'
    BY <1>2, <1>3, <2>1 DEF BeginRun
  <2> QED BY <1>8, <1>9, <2>1 DEF StartSpawn
<1>10. CASE UNCHANGED <<meta, slot>>
  BY <1>3, <1>10
<1> QED
  BY <1>4, <1>5, <1>6, <1>7, <1>8, <1>9, <1>10
     DEF Next, RunStep, ParentStep, EngineStep, Invoke, Resume, Start, StartList,
         Shutdown, Lock, StopTimeout, Drained, database, vars

LEMMA BackedNext ==
  ASSUME ResultInv, [Next]_vars
  PROVE  Backed'
<1>1. output \subseteq output'
  BY OutputGrows
<1>2. \A c \in Child : Succeeded(c)' => c \in output'
  BY <1>1, RunsNext, TypeParts DEF ResultInv, Backed
<1>3. \A c \in Child : slot'[c].phase = "ok" => c \in output'
  BY SlotBacked
<1>4. \A c \in Child : result'[c] = "ok" => c \in output'
  BY <1>1, ResultChange, Written DEF ResultInv, Backed, SuccessBacked
<1> QED BY <1>2, <1>3, <1>4, SaidBacked DEF Backed, SuccessBacked

LEMMA ResultKnownNext ==
  ASSUME ResultInv, [Next]_vars
  PROVE  ResultKnown'
<1>0. FanTypeOK /\ ResultKnown
  BY DEF ResultInv
<1>1. plan' = plan
  BY OutputGrows
<1>2. CASE WriteResult
  <2>1. parent' = "after" /\ UNCHANGED meta
    BY <1>2 DEF WriteResult
  <2> QED BY <1>1, <1>2, <2>1, Written DEF ResultKnown
\* All other steps leave the result alone.  It remains to see that the parent
\* does not enter a place, or is recorded Completed, without the evidence.
<1>3. ASSUME UNCHANGED result,
             \/ UNCHANGED parent
             \/ parent' \in {"off", "run", "err"}
             \/ parent' = "collect" /\ result = NoResult
             \/ parent' = "after" /\ result # NoResult,
             meta'["parent"] = "Completed" =>
               meta["parent"] = "Completed" \/ parent = "after"
      PROVE  ResultKnown'
  BY <1>0, <1>1, <1>3 DEF ResultKnown, NoResult
<1>4. meta \in [Who -> {"absent", "Running", "Completed", "Failed"}]
      /\ "parent" \in Who /\ "parent" \notin Child
  BY <1>0, ChildAssumption DEF FanTypeOK, Who
<1>5. ASSUME NEW c \in Child, NEW k \in DOMAIN run[c],
             \/ Return(c, k) \/ Report(c, k) \/ Panic(c, k) \/ DropRun(c, k)
      PROVE  ResultKnown'
  <2>1. UNCHANGED <<result, parent>>
    BY <1>5 DEF Return, Report, Panic, DropRun, database
  <2>2. meta'["parent"] = meta["parent"]
    BY <1>4, <1>5 DEF Return, Report, Panic, DropRun, database
  <2> QED BY <1>3, <2>1, <2>2
<1>6. ASSUME NEW c \in Child, SlotStep(c)
      PROVE  ResultKnown'
  <2>1. UNCHANGED <<result, parent>>
    BY <1>6 DEF SlotStep, Acquire, SpawnChild, Hear, database
  <2>2. meta'["parent"] = meta["parent"]
    BY <1>4, <1>6 DEF SlotStep, Acquire, SpawnChild, Hear, BeginRun, database
  <2> QED BY <1>3, <2>1, <2>2
<1>7. CASE StartSpawn
  <2>1. CASE BeginParent
    BY <1>3, <1>4, <2>1 DEF BeginParent
  <2>2. ASSUME NEW w \in Child, BeginRun(w, "engine"), UNCHANGED <<result, parent>>
        PROVE  ResultKnown'
    BY <1>3, <1>4, <2>2 DEF BeginRun
  <2> QED BY <1>7, <2>1, <2>2 DEF StartSpawn
<1>8. CASE Invoke \/ Resume
  BY <1>3, <1>4, <1>8 DEF Invoke, Resume, BeginParent
<1>9. CASE EndParent
  BY <1>3, <1>4, <1>9 DEF EndParent
<1>10. CASE CallFanOut \/ GiveUp \/ DropParent \/ Crash
  BY <1>3, <1>10 DEF CallFanOut, GiveUp, DropParent, Crash, database
<1>11. CASE \/ Start \/ StartList \/ Shutdown \/ Lock \/ StopTimeout \/ Drained
            \/ UNCHANGED vars
  BY <1>3, <1>11 DEF Start, StartList, Shutdown, Lock, StopTimeout, Drained, database,
       vars
<1> QED
  BY <1>2, <1>5, <1>6, <1>7, <1>8, <1>9, <1>10, <1>11
     DEF Next, RunStep, ParentStep, EngineStep

LEMMA ResultNext == ResultInv /\ [Next]_vars => ResultInv'
BY FanTypeNext, BackedNext, ResultKnownNext DEF ResultInv

LEMMA ResultAlways == Spec => []ResultInv
BY ResultInit, ResultNext, PTL DEF Spec

\* A child that the result, its metadata or its channel calls successful has its
\* output in the journal, whichever of its runs spawn_workflow_tasks heard of and
\* however many there were.
THEOREM SuccessBackedCorrect == Spec => []SuccessBacked
<1>1. ResultInv => SuccessBacked
  BY DEF ResultInv, Backed
<1> QED BY <1>1, ResultAlways, PTL

\* A parent is recorded Completed only with a result, and failing fast only when
\* every child has its output.
THEOREM CompletedHasAllCorrect == Spec => []CompletedHasAll
<1>1. ResultInv => CompletedHasAll
  BY DEF ResultInv, Backed, SuccessBacked, ResultKnown, CompletedHasAll
<1> QED BY <1>1, ResultAlways, PTL

\* write_result is never reached a second time: after crashes, aborts and
\* resumes check_cached finds the result.
THEOREM ResultFinalCorrect == Spec => ResultFinal
<1>1. ResultInv /\ [Next]_vars => [result # NoResult => result' = result]_vars
  <2> SUFFICES ASSUME ResultInv, [Next]_vars, result # NoResult
               PROVE  result' = result
    OBVIOUS
  <2> QED BY ResultChange, Written
<1> QED BY <1>1, ResultAlways, PTL DEF Spec, ResultFinal

-----------------------------------------------------------------------------
(* No slot waits for nothing.                                              *)

\* The run that will tell the slot of this child.
Attends(c, k) == run[c][k].by = IF plan.registered THEN "engine" ELSE "slot"

Attended(c) ==
  slot[c].phase = "child" =>
    \/ slot[c].heard \in {"Completed", "Failed"}
    \/ \E k \in DOMAIN run[c] : Attends(c, k)

\* Only slots of registered children use the mutex and the channel, and one that
\* waits for its child has subscribed.
Listens(c) ==
  /\ slot[c].phase = "lock" => plan.registered
  /\ slot[c].phase = "child" /\ plan.registered => slot[c].heard # "none"
  /\ ~plan.registered => slot[c].heard = "none"

AttendInv ==
  /\ FanTypeOK
  /\ \A c \in Child : Listens(c)
  /\ parent = "collect" /\ shutdown # "aborting" => \A c \in Child : Attended(c)

LEMMA AttendInit == Init => AttendInv
BY FanInit DEF Init, AttendInv, Listens, NoSlot

\* A run that has just begun attends if it is of the right kind, and those that
\* attended before still do.
LEMMA BeginAttends ==
  ASSUME RunsOK, NEW c \in Child, NEW by \in {"slot", "engine"}, BeginRun(c, by),
         plan' = plan
  PROVE  /\ \A d \in Child : d # c => run'[d] = run[d]
         /\ (\E k \in DOMAIN run[c] : Attends(c, k)) =>
              \E k \in DOMAIN run'[c] : Attends(c, k)'
         /\ (by = IF plan.registered THEN "engine" ELSE "slot") =>
              \E k \in DOMAIN run'[c] : Attends(c, k)'
<1> DEFINE x == [phase |-> "work", by |-> by]
           n == Len(run[c]) + 1
<1>1. run[c] \in Seq(RunState) /\ x \in RunState
  BY DEF RunsOK, RunState
<1>2. run' = [run EXCEPT ![c] = Append(run[c], x)]
  BY DEF BeginRun
<1>3. run'[c] = Append(run[c], x)
  BY <1>2 DEF RunsOK
<1>4. /\ DOMAIN run[c] \subseteq DOMAIN run'[c] /\ n \in DOMAIN run'[c]
      /\ run'[c][n] = x
      /\ \A k \in DOMAIN run[c] : run'[c][k] = run[c][k]
  <2> HIDE DEF x
  <2> QED BY <1>1, <1>3
<1>5. \A d \in Child : d # c => run'[d] = run[d]
  BY <1>2 DEF RunsOK
<1> QED BY <1>4, <1>5 DEF Attends

\* A step of one child leaves the others as they were.
LEMMA AttendOne ==
  ASSUME AttendInv, FanTypeOK', NEW c \in Child,
         UNCHANGED <<plan, parent, shutdown>>,
         \A d \in Child : d # c => run'[d] = run[d] /\ slot'[d] = slot[d],
         Listens(c)',
         parent = "collect" /\ shutdown # "aborting" => Attended(c)'
  PROVE  AttendInv'
<1>1. \A d \in Child : d # c => Listens(d)' /\ (Attended(d) => Attended(d)')
  BY DEF AttendInv, Listens, Attended, Attends
<1> QED BY <1>1 DEF AttendInv

LEMMA AttendRunStep ==
  ASSUME AttendInv, FanTypeOK', NEW c \in Child, NEW k \in DOMAIN run[c],
         Return(c, k) \/ Report(c, k) \/ Panic(c, k) \/ DropRun(c, k)
  PROVE  AttendInv'
<1>1. /\ UNCHANGED <<plan, parent, shutdown>>
  BY DEF Return, Report, Panic, DropRun, engine, database
<1>2. /\ run \in [Child -> Seq(RunState)] /\ run[c] \in Seq(RunState)
      /\ run[c][k] \in RunState
      /\ slot \in [Child -> [phase : {"none", "permit", "lock", "child"} \cup Done,
                            heard : {"none", "Started", "Completed", "Failed"}]]
  BY DEF AttendInv, FanTypeOK
<1>3. \A d \in Child : d # c => run'[d] = run[d] /\ slot'[d] = slot[d]
  BY <1>2 DEF Return, Report, Panic, DropRun
<1>4. Listens(c) /\ (parent = "collect" /\ shutdown # "aborting" => Attended(c))
  BY DEF AttendInv
<1>5. ASSUME run' = [run EXCEPT ![c] = RemoveAt(@, k)], ~Attends(c, k)
      PROVE  (\E i \in DOMAIN run[c] : Attends(c, i)) =>
               \E i \in DOMAIN run'[c] : Attends(c, i)'
  <2>1. run'[c] = RemoveAt(run[c], k)
    BY <1>2, <1>5
  <2> SUFFICES ASSUME NEW i \in DOMAIN run[c], Attends(c, i)
               PROVE  \E j \in DOMAIN run'[c] : Attends(c, j)'
    OBVIOUS
  <2>2. PICK j \in DOMAIN run'[c] : run'[c][j] = run[c][i]
    BY <1>2, <1>5, <2>1, RemoveKeeps
  <2> QED BY <1>1, <2>2 DEF Attends
<1>6. CASE Return(c, k)
  <2>1. UNCHANGED slot /\ DOMAIN run'[c] = DOMAIN run[c]
    BY <1>2, <1>6 DEF Return
  <2>2. \A i \in DOMAIN run[c] : run'[c][i].by = run[c][i].by
    <3>1. \A i \in DOMAIN run[c] : run[c][i] \in RunState
      BY <1>2
    <3>2. PICK p \in {"ok", "err"} : run' = [run EXCEPT ![c][k].phase = p]
      BY <1>6 DEF Return
    <3>3. run'[c] = [run[c] EXCEPT ![k] = [run[c][k] EXCEPT !.phase = p]]
      BY <1>2, <3>2
    <3> QED BY <3>1, <3>3 DEF RunState
  <2> QED BY <1>1, <1>3, <1>4, <2>1, <2>2, AttendOne DEF Listens, Attended, Attends
<1>7. CASE Report(c, k)
  <2> DEFINE end == IF run[c][k].phase = "ok" THEN "Completed" ELSE "Failed"
  <2>1. slot'[c] = IF run[c][k].by = "slot"
                   THEN [NoSlot EXCEPT !.phase = run[c][k].phase]
                   ELSE IF slot[c].heard = "none" THEN slot[c]
                   ELSE [slot[c] EXCEPT !.heard = end]
    BY <1>2, <1>7 DEF Report
  <2>2. run[c][k].phase \in {"ok", "err"} /\ run' = [run EXCEPT ![c] = RemoveAt(@, k)]
    BY <1>7 DEF Report
  <2>3. CASE run[c][k].by = "slot"
    BY <1>1, <1>3, <2>1, <2>2, <2>3, AttendOne DEF Listens, Attended, NoSlot
  <2>4. CASE run[c][k].by # "slot" /\ slot[c].heard # "none"
    BY <1>1, <1>2, <1>3, <1>4, <2>1, <2>4, AttendOne DEF Listens, Attended
  <2>5. CASE run[c][k].by # "slot" /\ slot[c].heard = "none"
    <3>1. slot'[c] = slot[c]
      BY <2>1, <2>5
    <3>2. slot[c].phase = "child" => ~plan.registered /\ ~Attends(c, k)
      BY <1>4, <2>5 DEF Listens, Attends
    <3>3. Listens(c)'
      BY <1>1, <1>4, <3>1 DEF Listens
    <3>4. Attended(c) => Attended(c)'
      BY <1>5, <2>2, <3>1, <3>2 DEF Attended
    <3> QED BY <1>1, <1>3, <1>4, <3>3, <3>4, AttendOne
  <2> QED BY <2>3, <2>4, <2>5
<1>8. CASE Panic(c, k)
  <2>1. slot'[c] = [NoSlot EXCEPT !.phase = "panicked"]
    BY <1>2, <1>8 DEF Panic
  <2> QED BY <1>1, <1>3, <2>1, AttendOne DEF Listens, Attended, NoSlot
<1>9. CASE DropRun(c, k)
  <2>1. UNCHANGED slot /\ run' = [run EXCEPT ![c] = RemoveAt(@, k)]
    BY <1>9 DEF DropRun
  <2>2. Listens(c)'
    BY <1>1, <1>4, <2>1 DEF Listens
  <2>3. shutdown # "aborting" => ~Attends(c, k)
    BY <1>9 DEF DropRun, Attends
  <2>4. shutdown # "aborting" /\ Attended(c) => Attended(c)'
    BY <1>5, <2>1, <2>3 DEF Attended
  <2> QED BY <1>1, <1>3, <1>4, <2>2, <2>4, AttendOne
<1> QED BY <1>6, <1>7, <1>8, <1>9

LEMMA AttendSlotStep ==
  ASSUME AttendInv, FanTypeOK', NEW c \in Child, SlotStep(c)
  PROVE  AttendInv'
<1>1. UNCHANGED <<plan, parent, shutdown>>
  BY DEF SlotStep, Acquire, SpawnChild, Hear, engine, database
<1>2. /\ RunsOK
      /\ slot \in [Child -> [phase : {"none", "permit", "lock", "child"} \cup Done,
                            heard : {"none", "Started", "Completed", "Failed"}]]
  BY DEF AttendInv, FanTypeOK, RunsOK
<1>3. Listens(c)
  BY DEF AttendInv
<1>4. \A d \in Child : d # c => run'[d] = run[d] /\ slot'[d] = slot[d]
  BY <1>1, <1>2, BeginAttends DEF SlotStep, Acquire, SpawnChild, Hear, BeginRun, RunsOK
<1>5. CASE Acquire(c)
  <2>1. CASE plan.registered
    <3>1. slot'[c].phase = "lock" /\ slot'[c].heard = slot[c].heard
      BY <1>2, <1>5, <2>1 DEF Acquire
    <3> QED BY <1>1, <1>4, <2>1, <3>1, AttendOne DEF Listens, Attended
  <2>2. CASE ~plan.registered
    <3>1. slot'[c].phase = "child" /\ slot'[c].heard = slot[c].heard
      BY <1>2, <1>5, <2>2 DEF Acquire
    <3>2. \E k \in DOMAIN run'[c] : Attends(c, k)'
      BY <1>1, <1>2, <1>5, <2>2, BeginAttends DEF Acquire
    <3> QED BY <1>1, <1>3, <1>4, <2>2, <3>1, <3>2, AttendOne DEF Listens, Attended
  <2> QED BY <2>1, <2>2
<1>6. CASE SpawnChild(c)
  <2>1. plan.registered
    BY <1>3, <1>6 DEF SpawnChild, Listens
  <2>2. CASE running
    <3>1. slot'[c] = [phase |-> "child", heard |-> "Started"]
      BY <1>2, <1>6, <2>2 DEF SpawnChild
    <3>2. \E k \in DOMAIN run'[c] : Attends(c, k)'
      BY <1>1, <1>2, <1>6, <2>1, <2>2, BeginAttends DEF SpawnChild
    <3> QED BY <1>1, <1>4, <2>1, <3>1, <3>2, AttendOne DEF Listens, Attended
  <2>3. CASE ~running
    <3>1. slot'[c] = [NoSlot EXCEPT !.phase = "err"]
      BY <1>2, <1>6, <2>3 DEF SpawnChild
    <3> QED BY <1>1, <1>4, <3>1, AttendOne DEF Listens, Attended, NoSlot
  <2> QED BY <2>2, <2>3
<1>7. CASE Hear(c)
  <2>1. slot'[c].phase \in {"ok", "err"} /\ slot'[c].heard = "none"
    BY <1>2, <1>7 DEF Hear, NoSlot
  <2> QED BY <1>1, <1>4, <2>1, AttendOne DEF Listens, Attended
<1> QED BY <1>5, <1>6, <1>7 DEF SlotStep

LEMMA AttendNext == AttendInv /\ [Next]_vars => AttendInv'
<1> SUFFICES ASSUME AttendInv, [Next]_vars PROVE AttendInv'
  OBVIOUS
<1>0. FanTypeOK /\ FanTypeOK' /\ RunsOK
  BY FanTypeNext DEF AttendInv, FanTypeOK, RunsOK
<1>1. ASSUME NEW c \in Child, NEW k \in DOMAIN run[c],
             Return(c, k) \/ Report(c, k) \/ Panic(c, k) \/ DropRun(c, k)
      PROVE  AttendInv'
  BY <1>0, <1>1, AttendRunStep
<1>2. ASSUME NEW c \in Child, SlotStep(c)
      PROVE  AttendInv'
  BY <1>0, <1>2, AttendSlotStep
\* The parent is not collecting afterwards, or has only just begun to.
<1>3. CASE ParentStep \/ DropParent \/ Crash
  <2>1. \/ slot' = [c \in Child |-> NoSlot] /\ parent' # "collect"
        \/ slot' = [c \in Child |-> [NoSlot EXCEPT !.phase = "permit"]]
        \/ UNCHANGED <<plan, slot>> /\ parent' # "collect"
    BY <1>3 DEF ParentStep, CallFanOut, GiveUp, WriteResult, EndParent, DropParent,
                Crash, DropSlots
  <2>2. \A c \in Child : Listens(c)'
    BY <2>1 DEF AttendInv, Listens, NoSlot
  <2>3. parent' = "collect" => \A c \in Child : Attended(c)'
    BY <2>1 DEF Attended, NoSlot
  <2> QED BY <1>0, <2>2, <2>3 DEF AttendInv
<1>4. CASE BeginParent
  BY <1>0, <1>4 DEF BeginParent, AttendInv, Listens
<1>5. CASE StartSpawn
  <2>1. ASSUME NEW w \in Child, BeginRun(w, "engine"),
               slot' = [slot EXCEPT ![w] =
                 IF @.heard = "none" THEN @ ELSE [@ EXCEPT !.heard = "Started"]],
               UNCHANGED <<plan, parent, shutdown>>
        PROVE  AttendInv'
    <3>1. \A d \in Child : d # w => run'[d] = run[d] /\ slot'[d] = slot[d]
      BY <1>0, <2>1, BeginAttends DEF FanTypeOK
    <3>2. slot'[w] = IF slot[w].heard = "none" THEN slot[w]
                     ELSE [slot[w] EXCEPT !.heard = "Started"]
      BY <1>0, <2>1 DEF FanTypeOK
    <3>3. Listens(w) /\ slot[w].heard \in {"none", "Started", "Completed", "Failed"}
          /\ slot'[w].phase = slot[w].phase
      BY <1>0, <3>2 DEF AttendInv, FanTypeOK
    <3>4. Listens(w)'
      BY <1>0, <2>1, <3>2, <3>3 DEF Listens, FanTypeOK
    <3>5. CASE slot[w].heard = "none"
      <4>1. Attended(w) => Attended(w)'
        BY <1>0, <2>1, <3>2, <3>5, BeginAttends DEF Attended
      <4> QED BY <1>0, <2>1, <3>1, <3>4, <4>1, AttendOne DEF AttendInv
    <3>6. CASE slot[w].heard # "none"
      <4>1. plan.registered
        BY <3>3, <3>6 DEF Listens
      <4>2. \E k \in DOMAIN run'[w] : Attends(w, k)'
        BY <1>0, <2>1, <4>1, BeginAttends
      <4> QED BY <1>0, <2>1, <3>1, <3>4, <4>2, AttendOne DEF Attended
    <3> QED BY <3>5, <3>6
  <2> QED BY <1>4, <1>5, <2>1 DEF StartSpawn
\* Only a shutdown that has drained everything ends, and then nothing collects.
<1>6. CASE StartList \/ Lock \/ Drained \/ Start \/ Shutdown \/ StopTimeout
  <2>1. UNCHANGED <<plan, parent, slot, run>>
    BY <1>6 DEF StartList, Lock, Drained, Start, Shutdown, StopTimeout, database
  <2>2. parent = "collect" /\ shutdown' # "aborting" => shutdown # "aborting"
    BY <1>6 DEF StartList, Lock, Drained, Start, Shutdown, StopTimeout, JoinSetEmpty
  <2> QED BY <1>0, <2>1, <2>2 DEF AttendInv, Listens, Attended, Attends
<1>7. CASE UNCHANGED vars
  BY <1>0, <1>7 DEF vars, AttendInv, Listens, Attended, Attends
<1> QED
  BY <1>1, <1>2, <1>3, <1>4, <1>5, <1>6, <1>7
     DEF Next, RunStep, EngineStep, Invoke, Resume

\* Whatever the number of children, permits, runs and restarts, a parent that
\* collects has no slot that nobody will answer, unless a stop aborts: the end
\* of a child cannot pass its slot by.
THEOREM SlotsAttended == Spec => []SlotAttended
<1>1. AttendInv => SlotAttended
  BY DEF AttendInv, SlotAttended, Attended, Attends
<1> QED BY <1>1, AttendInit, AttendNext, PTL DEF Spec

-----------------------------------------------------------------------------
(* The parent implements a durable workflow whose one step is the fan-out. *)

ParentIsRunning == parent # "off" => meta["parent"] = "Running"

\* What a step does to the parent's metadata, to its result and to its task.
ParentEffect ==
  \/ /\ meta'["parent"] = meta["parent"] /\ result' = result
     /\ parent' = "off" \/ (parent # "off" /\ parent' # "off")
  \/ BeginParent
  \/ WriteResult
  \/ EndParent

LEMMA ParentSteps ==
  ASSUME FanTypeOK, [Next]_vars
  PROVE  ParentEffect
<1> USE DEF ParentEffect
<1>0. /\ meta \in [Who -> {"absent", "Running", "Completed", "Failed"}]
      /\ "parent" \notin Child /\ "parent" \in Who
      /\ parent \in {"off", "run", "collect", "after", "err"}
  BY ChildAssumption DEF FanTypeOK, Who
<1>1. ASSUME meta'["parent"] = meta["parent"], UNCHANGED <<result, parent>>
      PROVE  ParentEffect
  BY <1>0, <1>1
<1>2. ASSUME NEW c \in Child, NEW k \in DOMAIN run[c],
             \/ Return(c, k) \/ Report(c, k) \/ Panic(c, k) \/ DropRun(c, k)
      PROVE  ParentEffect
  <2>1. UNCHANGED <<result, parent>>
    BY <1>2 DEF Return, Report, Panic, DropRun, database
  <2>2. meta'["parent"] = meta["parent"]
    BY <1>0, <1>2 DEF Return, Report, Panic, DropRun, database
  <2> QED BY <1>1, <2>1, <2>2
<1>3. ASSUME NEW c \in Child, SlotStep(c)
      PROVE  ParentEffect
  <2>1. UNCHANGED <<result, parent>>
    BY <1>3 DEF SlotStep, Acquire, SpawnChild, Hear, database
  <2>2. meta'["parent"] = meta["parent"]
    BY <1>0, <1>3 DEF SlotStep, Acquire, SpawnChild, Hear, BeginRun, database
  <2> QED BY <1>1, <2>1, <2>2
<1>4. CASE StartSpawn
  <2>1. ASSUME NEW w \in Child, BeginRun(w, "engine"), UNCHANGED <<result, parent>>
        PROVE  ParentEffect
    BY <1>0, <1>1, <2>1 DEF BeginRun
  <2> QED BY <1>4, <2>1 DEF StartSpawn
<1>5. CASE CallFanOut \/ GiveUp \/ DropParent \/ Crash
  BY <1>5 DEF CallFanOut, GiveUp, DropParent, Crash, database
<1>6. CASE \/ StartList \/ Lock \/ Drained \/ Start \/ Shutdown \/ StopTimeout
           \/ UNCHANGED vars
  BY <1>1, <1>6 DEF StartList, Lock, Drained, Start, Shutdown, StopTimeout, database,
                    vars
<1> QED
  BY <1>2, <1>3, <1>4, <1>5, <1>6
     DEF Next, RunStep, ParentStep, EngineStep, Invoke, Resume

LEMMA ParentRunningNext ==
  FanTypeOK /\ ParentIsRunning /\ [Next]_vars => ParentIsRunning'
<1> SUFFICES ASSUME FanTypeOK, ParentIsRunning, [Next]_vars PROVE ParentIsRunning'
  OBVIOUS
<1>1. /\ meta \in [Who -> {"absent", "Running", "Completed", "Failed"}]
      /\ "parent" \in Who
  BY DEF FanTypeOK, Who
<1> QED
  BY <1>1, ParentSteps
     DEF ParentEffect, ParentIsRunning, BeginParent, WriteResult, EndParent

LEMMA ParentStepMaps ==
  ASSUME ResultInv, ParentIsRunning, [Next]_vars
  PROVE  [Durable!DurableNext]_<<[w \in {"parent"} |-> meta[w]],
            [w \in {"parent"} |-> [k \in {1} |-> result]]>>
<1> DEFINE Status == [w \in {"parent"} |-> meta[w]]
           Memo == [w \in {"parent"} |-> [k \in {1} |-> result]]
<1> SUFFICES Durable!DurableNext \/ UNCHANGED <<Status, Memo>>
  OBVIOUS
<1>0. /\ 1..Len(<<"step">>) = {1} /\ 1 \in Durable!Keys
      /\ meta \in [Who -> {"absent", "Running", "Completed", "Failed"}]
      /\ "parent" \in Who
  BY DEF ResultInv, FanTypeOK, Who, Durable!Keys
<1>1. CASE BeginParent
  <2>1. Durable!Run("parent")
    BY <1>0, <1>1 DEF BeginParent, Durable!Run
  <2> QED BY <2>1 DEF Durable!DurableNext
<1>2. CASE WriteResult
  <2>1. /\ result = NoResult /\ result' \in [Child -> {"ok", "err"}]
        /\ meta["parent"] = "Running" /\ UNCHANGED meta
    <3>1. \A c \in Child : slot[c].phase \in {"ok", "err"}
      BY <1>2 DEF WriteResult, Ends, Done
    <3> QED BY <1>2, <3>1, Written DEF WriteResult, ParentIsRunning
  <2>2. Memo' = [Memo EXCEPT !["parent"][1] = result']
    OBVIOUS
  <2>3. Durable!Memoise("parent", 1)
    BY <2>1, <2>2 DEF Durable!Memoise
  <2>4. Durable!Frontier("parent", 1)
    BY <2>1 DEF Durable!Frontier, Durable!Memoised
  <2>5. Durable!Step("parent", 1)
    BY <2>1, <2>3, <2>4 DEF Durable!Step
  <2> QED BY <1>0, <2>5 DEF Durable!DurableNext
<1>3. CASE EndParent
  <2>1. /\ meta["parent"] = "Running" /\ UNCHANGED result
        /\ parent = "after" => result # NoResult
    BY <1>3 DEF EndParent, ParentIsRunning, ResultInv, ResultKnown
  <2>2. CASE parent = "after" /\ meta' = [meta EXCEPT !["parent"] = "Completed"]
    <3>1. Durable!Complete("parent")
      BY <1>0, <2>1, <2>2 DEF Durable!Complete, Durable!Memoised, Durable!Keys
    <3> QED BY <3>1 DEF Durable!DurableNext
  <2>3. CASE meta' = [meta EXCEPT !["parent"] = "Failed"]
    <3>1. Durable!Fail("parent")
      BY <1>0, <2>1, <2>3 DEF Durable!Fail
    <3> QED BY <3>1 DEF Durable!DurableNext
  <2> QED BY <1>3, <2>2, <2>3 DEF EndParent
<1>4. CASE meta'["parent"] = meta["parent"] /\ result' = result
  BY <1>4
<1> QED
  BY <1>1, <1>2, <1>3, <1>4, ParentSteps DEF ResultInv, ParentEffect

\* Whatever happens to the children, the parent is a durable workflow of one
\* step: completed only with a result, and with the same one in every run.
THEOREM ParentIsDurable == Spec => ImplementsDurableWorkflow
<1>1. Init => Durable!DurableInit
  <2>1. 1..Len(<<"step">>) = {1}
    OBVIOUS
  <2> QED BY <2>1 DEF Init, Durable!DurableInit, Durable!Keys, Who
<1>2. Init => ParentIsRunning
  BY DEF Init, ParentIsRunning
<1>3. ResultInv => FanTypeOK
  BY DEF ResultInv
<1> QED
  BY <1>1, <1>2, <1>3, ResultAlways, ParentRunningNext, ParentStepMaps, PTL
     DEF Spec, ImplementsDurableWorkflow, Durable!DurableSpec

=============================================================================
