----------------------------- MODULE StepRetry -----------------------------
(***************************************************************************)
(* StepBuilder::run, the attempts of one step of one instance: the journal *)
(* is read, the closure is attempted under its timeout, retryable errors   *)
(* are retried after a delay, and the verdict is journalled.               *)
(*                                                                         *)
(* The workflow comes to the step any number of times, in runs that may    *)
(* end anywhere; the code, and with it the policy, may differ from run to  *)
(* run.  That the runs of an instance do not overlap is Engine's SingleRun.*)
(***************************************************************************)
EXTENDS Integers, Sequences

CONSTANTS
  Value,        \* results of the closure
  Call,         \* how the step is called: see CallAssumption
  U32Max,       \* the largest u32, of which max_retries is one
  U64Bits,      \* the width of the shift in delay_for
  DurationMax   \* Duration::MAX

\* No retry policy: no_retry(), or neither an override nor a default.
NoPolicy == [kind |-> "none", max_retries |-> 0]
IsPolicy(p) ==
  /\ p.max_retries \in 0..U32Max
  /\ p.kind = "none" => p.max_retries = 0
  /\ p.kind = "fixed" => p.delay \in 0..DurationMax
  /\ p.kind = "exponential" => p.base \in 0..DurationMax /\ p.max \in 0..DurationMax

(***************************************************************************)
(* A call has a timeout or none, the override of retry() or no_retry(), if *)
(* any, and the default of the engine it runs in, if any.                  *)
(***************************************************************************)
ASSUME CallAssumption ==
  \A c \in Call :
    /\ c.timeout \in BOOLEAN
    /\ c.override.kind \in {"unset", "none", "fixed", "exponential"}
    /\ c.default.kind \in {"none", "fixed", "exponential"}
    /\ IsPolicy(c.override) /\ IsPolicy(c.default)
\* The shifted word is wider than the one it is narrowed to.
ASSUME WidthAssumption ==
  /\ U32Max \in Nat \ {0} /\ U64Bits \in Nat /\ DurationMax \in Nat
  /\ U32Max < 2 ^ U64Bits
ASSUME StepValueAssumption ==
  Value \cap {"absent", "Failed", "Suspended", "foreign", "none", "StepTimeout",
              "StepFailed", "RetriesExhausted", "Storage", "SuspendedStepConflict",
              "TypeMismatch"} = {}

VARIABLES
  entry,    \* the step in STEPS
  stage,    \* where the run is
  call,     \* how the step is called in this run
  attempt,  \* the loop variable
  outcome,  \* what the closure has just returned
  delay,    \* the delay of the last backoff of this run
  answer,   \* what run() has returned to the workflow
  history,  \* the outcomes of this run's attempts, a ghost
  given     \* the results that any run was given, a ghost

control == <<stage, call, attempt, outcome, delay>>
vars == <<entry, stage, call, attempt, outcome, delay, answer, history, given>>

\* An entry of another type, or a suspension with the step's key: what other
\* code of the workflow left there.
Refused == {"Suspended", "foreign"}
Entry == Value \cup Refused \cup {"absent", "Failed"}
Outcome == Value \cup {"Permanent", "Retryable"}
Error == {"StepTimeout", "StepFailed", "RetriesExhausted", "Storage",
          "SuspendedStepConflict", "TypeMismatch"}
Executing == stage \in {"closure", "returned", "backoff"}

-----------------------------------------------------------------------------
(* The policy.                                                             *)

\* The engine's default wins over an override that disables retry.
EffectiveRetry_Bug ==
  IF call.override.kind \in {"unset", "none"} THEN call.default ELSE call.override

EffectiveRetry ==
  IF call.override.kind = "unset" THEN call.default ELSE call.override

MaxRetries == EffectiveRetry.max_retries

\* max_retries + 1 in a u32.
TotalAttempts == IF MaxRetries = U32Max THEN 0 ELSE MaxRetries + 1

Least(m, n) == IF m <= n THEN m ELSE n

\* The shift wraps at the width of the u32.
Multiplier_Bug(n) == 2 ^ n % (U32Max + 1)

\* checked_shl on a u64, then try_into a u32: each saturates.
Multiplier(n) == IF n < U64Bits THEN Least(2 ^ n, U32Max) ELSE U32Max

\* RetryPolicy::delay_for; without a policy nothing is slept.
DelayFor(p, n) ==
  CASE p.kind = "fixed" -> p.delay
    [] p.kind = "exponential" ->
         Least(Least(p.base * Multiplier(n), DurationMax), p.max)
    [] OTHER -> 0

-----------------------------------------------------------------------------
StepTypeOK ==
  /\ entry \in Entry
  /\ stage \in {"idle", "closure", "returned", "backoff", "panicked"}
  /\ call \in Call
  /\ attempt \in Nat
  /\ Executing => attempt < TotalAttempts
  /\ outcome \in Outcome \cup {"none"}
  /\ stage = "returned" => outcome # "none"
  /\ answer \in Value \cup Error \cup {"none"}
  /\ history \in Seq(Outcome)
  /\ given \subseteq Value

Init ==
  /\ entry \in Refused \cup {"absent"}
  /\ stage = "idle"
  /\ call \in Call
  /\ attempt = 0
  /\ outcome = "none"
  /\ delay = 0
  /\ answer = "none"
  /\ history = <<>>
  /\ given = {}

\* run() returns, and with `?` the workflow's run ends as well.
Return(a) ==
  /\ stage' = "idle"
  /\ answer' = a
  /\ given' = given \cup ({a} \cap Value)

Attempt(n) ==
  /\ stage' = "closure"
  /\ attempt' = n
  /\ outcome' = "none"

-----------------------------------------------------------------------------
(* The journal is read.                                                    *)

ReadStep(c) ==
  /\ stage = "idle"
  /\ call' = c
  /\ history' = <<>>
  /\ delay' = 0
  /\ UNCHANGED entry

CacheHit(c) ==
  /\ ReadStep(c)
  /\ \/ entry \in Value /\ Return(entry)
     \/ entry = "Suspended" /\ Return("SuspendedStepConflict")
     \/ entry = "foreign" /\ Return("TypeMismatch")
  /\ UNCHANGED <<attempt, outcome>>

\* Whatever the entry, the closure is attempted.
CacheMiss_Bug(c) ==
  /\ ReadStep(c)
  /\ answer' = "none"
  /\ Attempt(0)
  /\ UNCHANGED given

\* No entry, or a dead letter.  A loop without attempts runs into
\* `unreachable!`, where a debug build has panicked at the addition.
CacheMiss(c) ==
  /\ ReadStep(c)
  /\ entry \in {"absent", "Failed"}
  /\ answer' = "none"
  /\ IF TotalAttempts' = 0
     THEN stage' = "panicked" /\ UNCHANGED <<attempt, outcome>>
     ELSE Attempt(0)
  /\ UNCHANGED given

ReadFails(c) ==
  /\ ReadStep(c)
  /\ Return("Storage")
  /\ UNCHANGED <<attempt, outcome>>

-----------------------------------------------------------------------------
(* An attempt.                                                             *)

\* The closure has had its effect, and nothing of it is journalled yet.
ClosureReturns ==
  /\ stage = "closure"
  /\ \E o \in Outcome : outcome' = o /\ history' = Append(history, o)
  /\ stage' = "returned"
  /\ UNCHANGED <<entry, call, attempt, delay, answer, given>>

\* The timeout ends the wait for the closure but no one looks at it.
Timeout_Bug ==
  /\ stage = "closure"
  /\ call.timeout
  /\ UNCHANGED vars

\* The timeout of the attempt; tokio drops the closure where it awaits.
Timeout ==
  /\ stage = "closure"
  /\ call.timeout
  /\ Return("StepTimeout")
  /\ UNCHANGED <<entry, call, attempt, outcome, delay, history>>

\* The result is handed on although it was not written.
Persist_Bug ==
  /\ stage = "returned"
  /\ outcome \in Value
  /\ entry' \in {entry, outcome}
  /\ Return(outcome)
  /\ UNCHANGED <<call, attempt, outcome, delay, history>>

Persist ==
  /\ stage = "returned"
  /\ outcome \in Value
  /\ entry' = outcome
  /\ Return(outcome)
  /\ UNCHANGED <<call, attempt, outcome, delay, history>>

\* One attempt too many.
IsLast_Bug == attempt >= TotalAttempts
IsLast == attempt + 1 >= TotalAttempts

\* A permanent error is dead-lettered and ends the step, and so does a
\* retryable one on the last attempt.
DeadLetter ==
  /\ stage = "returned"
  /\ \/ outcome = "Permanent" /\ Return("StepFailed")
     \/ outcome = "Retryable" /\ IsLast
        /\ Return(IF MaxRetries = 0 THEN "StepFailed" ELSE "RetriesExhausted")
  /\ entry' = "Failed"
  /\ UNCHANGED <<call, attempt, outcome, delay, history>>

\* Serialising or writing the verdict fails.
WriteFails ==
  /\ stage = "returned"
  /\ outcome = "Retryable" => IsLast
  /\ Return("Storage")
  /\ UNCHANGED <<entry, call, attempt, outcome, delay, history>>

\* The dead letter is written before it is known to be the last.
Backoff_Bug ==
  /\ stage = "returned"
  /\ outcome = "Retryable"
  /\ ~IsLast
  /\ stage' = "backoff"
  /\ delay' = DelayFor(EffectiveRetry, attempt)
  /\ entry' = "Failed"
  /\ UNCHANGED <<call, attempt, outcome, answer, history, given>>

Backoff ==
  /\ stage = "returned"
  /\ outcome = "Retryable"
  /\ ~IsLast
  /\ stage' = "backoff"
  /\ delay' = DelayFor(EffectiveRetry, attempt)
  /\ UNCHANGED <<entry, call, attempt, outcome, answer, history, given>>

Retry ==
  /\ stage = "backoff"
  /\ Attempt(attempt + 1)
  /\ UNCHANGED <<entry, call, delay, answer, history, given>>

\* The run vanishes: its task is aborted at an await, the closure panics, the
\* run has panicked itself, or the process dies.
Drop ==
  /\ stage # "idle"
  /\ stage' = "idle"
  /\ UNCHANGED <<entry, call, attempt, outcome, delay, answer, history, given>>

Verdict == Persist \/ DeadLetter \/ WriteFails \/ Backoff

Next ==
  \/ \E c \in Call : CacheHit(c) \/ CacheMiss(c) \/ ReadFails(c)
  \/ ClosureReturns \/ Timeout
  \/ Verdict
  \/ Retry
  \/ Drop

Spec == Init /\ [][Next]_vars

\* The task is polled and tokio's timers go off.  Nothing makes a closure
\* return.
Fairness == WF_vars(Timeout) /\ WF_vars(Verdict) /\ WF_vars(Retry)

FairSpec == Spec /\ Fairness

-----------------------------------------------------------------------------
(* Properties.                                                             *)

AllRetryable(s) == \A n \in DOMAIN s : s[n] = "Retryable"

\* How often the documentation of retry() and no_retry() lets a step be tried
\* again.
Budget ==
  CASE call.override.kind = "none" -> 0
    [] call.override.kind = "unset" -> call.default.max_retries
    [] OTHER -> call.override.max_retries

\* The answer is what the attempts of the run amount to under the policy that
\* prevails: a permanent error is never followed by another attempt, a
\* retryable one is given up only when the budget is spent, a timeout neither
\* counts as an attempt nor is retried.
AnswerIsEarned ==
  /\ \A n \in 1..(Len(history) - 1) : history[n] = "Retryable"
  /\ CASE answer \in Value -> Len(history) > 0 => history[Len(history)] = answer
       [] answer = "RetriesExhausted" ->
            AllRetryable(history) /\ Len(history) = Budget + 1
       [] answer = "StepFailed" ->
            \/ Len(history) > 0 /\ history[Len(history)] = "Permanent"
            \/ history = <<"Retryable">> /\ Budget = 0
       [] answer = "StepTimeout" ->
            AllRetryable(history) /\ Len(history) <= Budget
       [] OTHER -> Len(history) <= Budget + 1

\* All runs that are given a result are given the same one, and the journal
\* has it: no crash and no failing write lets a workflow act on a result that
\* a later replay would not return.
OneResult == given \subseteq {entry}

\* A result is final, and so is what belongs to other code of the workflow.
NothingOverwritten ==
  [][entry' # entry => entry \notin Value \cup Refused]_vars

\* From one backoff to the next the delay never shrinks, never exceeds the
\* policy's cap, and doubles until the cap, or a type, is the limit.
DelayDoubles ==
  [][stage # "backoff" /\ stage' = "backoff" =>
       LET p == EffectiveRetry
       IN  IF p.kind # "exponential" THEN p.kind = "fixed" /\ delay' = p.delay
           ELSE LET cap == Least(p.max, DurationMax) IN
                /\ delay' <= cap
                /\ attempt = 0 => delay' = Least(p.base, cap)
                /\ attempt > 0 => delay <= delay' /\ delay' <= 2 * delay
                /\ attempt > 0 /\ 2 ^ attempt <= U32Max =>
                     delay' = Least(2 * delay, cap)]_vars

\* A step with a timeout ends, although its closure may hang in every attempt;
\* what a budget of u32::MAX makes panic has ended, too.
StepEnds == Executing /\ call.timeout ~> ~Executing

Atomic == INSTANCE AtomicStep WITH executing <- Executing

\* Attempts, timeouts, backoff and lost runs look to the workflow like one
\* execution that leaves a result, a dead letter or nothing.
ImplementsAtomicStep == Atomic!AtomicSpec

=============================================================================
