---------------------------- MODULE RetryProofs ----------------------------
(***************************************************************************)
(* Proofs about StepRetry, for all values, policies and widths: the answer *)
(* of a run is what its attempts amount to, all runs are given the same    *)
(* result, a result is final, the delays double up to their cap, and the   *)
(* attempts implement AtomicStep.                                          *)
(***************************************************************************)
EXTENDS StepRetry, FiniteSetTheorems, TLAPS

\* The inductive invariant says, stage by stage, what the attempts so far were
\* and that the journal has no result yet.
Attempts ==
  /\ stage = "closure" => Len(history) = attempt /\ AllRetryable(history)
  /\ stage = "backoff" => /\ Len(history) = attempt + 1
                          /\ AllRetryable(history)
                          /\ attempt + 1 < TotalAttempts
  /\ stage = "returned" =>
       /\ Len(history) = attempt + 1
       /\ history[attempt + 1] = outcome
       /\ \A n \in 1..attempt : history[n] = "Retryable"
  /\ stage = "panicked" => history = <<>>

Unresolved ==
  stage # "idle" => answer = "none" /\ entry \in {"absent", "Failed"}

RInv == StepTypeOK /\ Attempts /\ Unresolved /\ OneResult /\ AnswerIsEarned

\* A run keeps the delay of its last backoff.
DelayKept ==
  /\ stage = "backoff" => delay = DelayFor(EffectiveRetry, attempt)
  /\ stage \in {"closure", "returned"} /\ attempt > 0 =>
       delay = DelayFor(EffectiveRetry, attempt - 1)

\* The policy that prevails has the budget that the documentation gives it,
\* and unless the addition wraps there is one attempt more.
BudgetFits ==
  /\ Budget = MaxRetries
  /\ MaxRetries \in Nat
  /\ TotalAttempts \in {0, MaxRetries + 1}

LEMMA BudgetIsMaxRetries == call \in Call => BudgetFits
<1> SUFFICES ASSUME call \in Call PROVE BudgetFits
  OBVIOUS
<1>1. /\ call.override.kind \in {"unset", "none", "fixed", "exponential"}
      /\ IsPolicy(call.override) /\ IsPolicy(call.default)
  BY CallAssumption
<1>2. Budget = MaxRetries /\ MaxRetries \in 0..U32Max
  BY <1>1, WidthAssumption DEF Budget, MaxRetries, EffectiveRetry, IsPolicy
<1> QED
  BY <1>2, WidthAssumption DEF TotalAttempts, BudgetFits

LEMMA InitRInv == Init => RInv
BY StepValueAssumption, BudgetIsMaxRetries
  DEF BudgetFits, Init, RInv, StepTypeOK, Attempts, Unresolved, OneResult, AnswerIsEarned,
      Entry, Refused, Executing, AllRetryable, Outcome

\* What run() may return without an attempt.
LEMMA ReadRInv ==
  ASSUME RInv, NEW c \in Call, CacheHit(c) \/ ReadFails(c)
  PROVE  RInv'
<1> USE DEF RInv
<1>1. /\ stage' = "idle" /\ history' = <<>> /\ entry' = entry /\ call' = c
      /\ answer' \in Value \cup {"Storage", "SuspendedStepConflict", "TypeMismatch"}
      /\ answer' \in Value => answer' = entry
      /\ given' = given \cup ({answer'} \cap Value)
      /\ attempt' = attempt /\ outcome' = outcome
  BY StepValueAssumption DEF CacheHit, ReadFails, ReadStep, Return
<1>2. StepTypeOK'
  BY <1>1 DEF StepTypeOK, Executing, Error
<1>3. Attempts' /\ Unresolved'
  BY <1>1 DEF Attempts, Unresolved
<1>4. OneResult'
  BY <1>1 DEF OneResult
<1>5. AnswerIsEarned'
  <2>1. (call \in Call)'
    BY <1>1
  <2>2. BudgetFits'
    BY <2>1, BudgetIsMaxRetries, PTL
  <2> QED
    BY <1>1, <2>2, StepValueAssumption DEF AnswerIsEarned, BudgetFits
<1> QED
  BY <1>2, <1>3, <1>4, <1>5

LEMMA CacheMissRInv ==
  ASSUME RInv, NEW c \in Call, CacheMiss(c)
  PROVE  RInv'
<1> USE DEF RInv
<1>1. /\ stage' \in {"closure", "panicked"}
      /\ stage' = "closure" => /\ attempt' = 0 /\ outcome' = "none"
                                /\ TotalAttempts' # 0
      /\ stage' = "panicked" => attempt' = attempt /\ outcome' = outcome
      /\ history' = <<>> /\ entry' = entry /\ call' = c /\ answer' = "none"
      /\ given' = given /\ entry \in {"absent", "Failed"}
  BY DEF CacheMiss, ReadStep, Attempt
<1>2. BudgetFits'
  <2>1. (call \in Call)'
    BY <1>1
  <2> QED
    BY <2>1, BudgetIsMaxRetries, PTL
<1>3. StepTypeOK'
  <2>1. stage' = "closure" => attempt' < TotalAttempts'
    BY <1>1, <1>2, WidthAssumption
      DEF BudgetFits, TotalAttempts, MaxRetries, EffectiveRetry
  <2>2. history' \in Seq(Outcome)
    BY <1>1
  <2> QED
    BY <1>1, <2>1, <2>2 DEF StepTypeOK, Executing
<1>4. Attempts' /\ Unresolved' /\ OneResult'
  BY <1>1 DEF Attempts, Unresolved, OneResult, AllRetryable
<1>5. AnswerIsEarned'
  BY <1>1, <1>2, StepValueAssumption DEF AnswerIsEarned, BudgetFits
<1> QED
  BY <1>3, <1>4, <1>5

LEMMA ClosureReturnsRInv ==
  ASSUME RInv, ClosureReturns
  PROVE  RInv'
<1> USE DEF RInv
<1>1. PICK o \in Outcome : outcome' = o /\ history' = Append(history, o)
  BY DEF ClosureReturns
<1>2. /\ stage = "closure" /\ stage' = "returned"
      /\ UNCHANGED <<entry, call, attempt, delay, answer, given>>
      /\ answer = "none" /\ entry \in {"absent", "Failed"}
      /\ Len(history) = attempt /\ history \in Seq(Outcome) /\ attempt \in Nat
      /\ \A n \in 1..attempt : history[n] = "Retryable"
      /\ attempt < TotalAttempts
  BY DEF ClosureReturns, Attempts, AllRetryable, Unresolved, StepTypeOK, Executing
<1>3. /\ history' \in Seq(Outcome) /\ Len(history') = attempt + 1
      /\ history'[attempt + 1] = o
      /\ \A n \in 1..attempt : history'[n] = "Retryable"
  BY <1>1, <1>2
<1>4. BudgetFits /\ TotalAttempts' = TotalAttempts /\ Budget' = Budget
  BY <1>2, BudgetIsMaxRetries
    DEF StepTypeOK, TotalAttempts, MaxRetries, EffectiveRetry, Budget
<1>5. StepTypeOK'
  BY <1>1, <1>2, <1>3, <1>4, StepValueAssumption
    DEF StepTypeOK, Executing, Outcome
<1>6. Attempts' /\ Unresolved' /\ OneResult'
  BY <1>1, <1>2, <1>3 DEF Attempts, Unresolved, OneResult
<1>7. AnswerIsEarned'
  BY <1>2, <1>3, <1>4, StepValueAssumption DEF AnswerIsEarned, BudgetFits
<1> QED
  BY <1>5, <1>6, <1>7

LEMMA TimeoutRInv ==
  ASSUME RInv, Timeout
  PROVE  RInv'
<1> USE DEF RInv
<1>1. /\ stage = "closure" /\ stage' = "idle" /\ answer' = "StepTimeout"
      /\ given' = given
      /\ UNCHANGED <<entry, call, attempt, outcome, delay, history>>
  BY StepValueAssumption DEF Timeout, Return
<1>2. BudgetFits /\ Budget' = Budget
  BY <1>1, BudgetIsMaxRetries DEF StepTypeOK, Budget
<1>3. StepTypeOK' /\ Attempts' /\ Unresolved' /\ OneResult'
  BY <1>1 DEF StepTypeOK, Attempts, Unresolved, OneResult, Executing, Error
<1>4. AllRetryable(history) /\ Len(history) = attempt /\ attempt < TotalAttempts
  BY <1>1 DEF Attempts, StepTypeOK, Executing
<1>5. AnswerIsEarned'
  BY <1>1, <1>2, <1>4, StepValueAssumption
    DEF AnswerIsEarned, AllRetryable, BudgetFits, StepTypeOK
<1> QED
  BY <1>3, <1>5

\* The verdict on an attempt.
LEMMA VerdictRInv ==
  ASSUME RInv, Persist \/ DeadLetter \/ WriteFails
  PROVE  RInv'
<1> USE DEF RInv
<1>1. /\ stage = "returned" /\ stage' = "idle"
      /\ UNCHANGED <<call, attempt, outcome, delay, history>>
      /\ entry \in {"absent", "Failed"} /\ given = {}
      /\ Len(history) = attempt + 1 /\ history[attempt + 1] = outcome
      /\ \A n \in 1..attempt : history[n] = "Retryable"
      /\ attempt \in Nat /\ attempt < TotalAttempts
  BY StepValueAssumption
    DEF Persist, DeadLetter, WriteFails, Return, Unresolved, StepTypeOK,
        OneResult, Attempts, Executing
<1>2. BudgetFits /\ Budget' = Budget
  BY <1>1, BudgetIsMaxRetries DEF StepTypeOK, Budget
<1>3. \/ /\ outcome \in Value /\ entry' = outcome /\ answer' = outcome
         /\ given' = {outcome}
      \/ /\ entry' = "Failed" /\ given' = {}
         /\ \/ outcome = "Permanent" /\ answer' = "StepFailed"
            \/ /\ outcome = "Retryable" /\ attempt + 1 >= TotalAttempts
               /\ answer' = IF MaxRetries = 0 THEN "StepFailed"
                                              ELSE "RetriesExhausted"
      \/ entry' = entry /\ answer' = "Storage" /\ given' = {}
  BY <1>1, StepValueAssumption
    DEF Persist, DeadLetter, WriteFails, Return, IsLast
<1>4. StepTypeOK' /\ Attempts' /\ Unresolved' /\ OneResult'
  BY <1>1, <1>3
    DEF StepTypeOK, Attempts, Unresolved, OneResult, Executing, Entry, Error
<1>5. AnswerIsEarned'
  <2>1. \A n \in 1..(Len(history') - 1) : history'[n] = "Retryable"
    BY <1>1
  <2>2. CASE answer' = outcome /\ outcome \in Value
    BY <1>1, <2>1, <2>2, StepValueAssumption DEF AnswerIsEarned
  <2>3. CASE outcome = "Permanent" /\ answer' = "StepFailed"
    BY <1>1, <2>1, <2>3, StepValueAssumption DEF AnswerIsEarned
  <2>4. CASE /\ outcome = "Retryable" /\ attempt + 1 >= TotalAttempts
             /\ answer' = IF MaxRetries = 0 THEN "StepFailed"
                                            ELSE "RetriesExhausted"
    <3>1. attempt = MaxRetries /\ Budget' = MaxRetries
      BY <1>1, <1>2, <2>4 DEF BudgetFits
    <3>2. AllRetryable(history')
      BY <1>1, <2>4 DEF AllRetryable, StepTypeOK
    <3>3. MaxRetries = 0 => history' = <<"Retryable">>
      BY <1>1, <2>4, <3>1 DEF StepTypeOK
    <3> QED
      BY <1>1, <2>1, <2>4, <3>1, <3>2, <3>3, StepValueAssumption
        DEF AnswerIsEarned
  <2>5. CASE answer' = "Storage"
    BY <1>1, <1>2, <2>1, <2>5, StepValueAssumption
      DEF AnswerIsEarned, BudgetFits
  <2> QED
    BY <1>3, <2>2, <2>3, <2>4, <2>5
<1> QED
  BY <1>4, <1>5

LEMMA BackoffRInv ==
  ASSUME RInv, Backoff
  PROVE  RInv'
<1> USE DEF RInv
<1>1. /\ stage = "returned" /\ stage' = "backoff" /\ outcome = "Retryable"
      /\ UNCHANGED <<entry, call, attempt, outcome, answer, history, given>>
      /\ Len(history) = attempt + 1 /\ history[attempt + 1] = outcome
      /\ \A n \in 1..attempt : history[n] = "Retryable"
      /\ attempt \in Nat /\ ~(attempt + 1 >= TotalAttempts)
  BY DEF Backoff, Attempts, StepTypeOK, IsLast
<1>2. BudgetFits /\ TotalAttempts' = TotalAttempts /\ Budget' = Budget
  BY <1>1, BudgetIsMaxRetries
    DEF StepTypeOK, TotalAttempts, MaxRetries, EffectiveRetry, Budget
<1>3. StepTypeOK' /\ Unresolved' /\ OneResult'
  BY <1>1, <1>2 DEF StepTypeOK, Unresolved, OneResult, Executing
<1>4. AllRetryable(history') /\ attempt' + 1 < TotalAttempts'
  BY <1>1, <1>2 DEF AllRetryable, StepTypeOK, BudgetFits
<1>5. Attempts'
  BY <1>1, <1>4 DEF Attempts
<1>6. AnswerIsEarned'
  BY <1>1, <1>2 DEF AnswerIsEarned, AllRetryable
<1> QED
  BY <1>3, <1>5, <1>6

LEMMA RetryRInv ==
  ASSUME RInv, Retry
  PROVE  RInv'
<1> USE DEF RInv
<1>1. /\ stage = "backoff" /\ stage' = "closure" /\ attempt' = attempt + 1
      /\ outcome' = "none"
      /\ UNCHANGED <<entry, call, delay, answer, history, given>>
  BY DEF Retry, Attempt
<1>2. TotalAttempts' = TotalAttempts /\ Budget' = Budget
  BY <1>1 DEF TotalAttempts, MaxRetries, EffectiveRetry, Budget
<1>3. StepTypeOK' /\ Attempts' /\ Unresolved' /\ OneResult'
  BY <1>1, <1>2
    DEF StepTypeOK, Attempts, Unresolved, OneResult, Executing, AllRetryable
<1>4. AnswerIsEarned'
  BY <1>1, <1>2 DEF AnswerIsEarned, AllRetryable
<1> QED
  BY <1>3, <1>4

LEMMA DropRInv ==
  ASSUME RInv, Drop
  PROVE  RInv'
<1>1. /\ stage' = "idle"
      /\ UNCHANGED <<entry, call, attempt, outcome, delay, answer, history, given>>
  BY DEF Drop
<1>2. Budget' = Budget
  BY <1>1 DEF Budget
<1> QED
  BY <1>1, <1>2
    DEF RInv, StepTypeOK, Attempts, Unresolved, OneResult, AnswerIsEarned,
        Executing, AllRetryable

LEMMA NextRInv == RInv /\ [Next]_vars => RInv'
<1> SUFFICES ASSUME RInv, [Next]_vars PROVE RInv'
  OBVIOUS
<1>1. CASE \E c \in Call : CacheHit(c) \/ ReadFails(c)
  BY <1>1, ReadRInv
<1>2. CASE \E c \in Call : CacheMiss(c)
  BY <1>2, CacheMissRInv
<1>3. CASE ClosureReturns
  BY <1>3, ClosureReturnsRInv
<1>4. CASE Timeout
  BY <1>4, TimeoutRInv
<1>5. CASE Persist \/ DeadLetter \/ WriteFails
  BY <1>5, VerdictRInv
<1>6. CASE Backoff
  BY <1>6, BackoffRInv
<1>7. CASE Retry
  BY <1>7, RetryRInv
<1>8. CASE Drop
  BY <1>8, DropRInv
<1>9. CASE UNCHANGED vars
  BY <1>9
    DEF vars, RInv, StepTypeOK, Attempts, Unresolved, OneResult,
        AnswerIsEarned, Executing, AllRetryable, TotalAttempts, MaxRetries,
        EffectiveRetry, Budget
<1> QED
  BY <1>1, <1>2, <1>3, <1>4, <1>5, <1>6, <1>7, <1>8, <1>9 DEF Next, Verdict

LEMMA AlwaysRInv == Spec => []RInv
BY InitRInv, NextRInv, PTL DEF Spec

-----------------------------------------------------------------------------
\* The variables keep their types; in particular the loop of run() never
\* starts an attempt beyond the last.
THEOREM StepTypeCorrect == Spec => []StepTypeOK
<1>1. RInv => StepTypeOK
  BY DEF RInv
<1> QED
  BY <1>1, AlwaysRInv, PTL

\* Whatever the policies, the answer of StepBuilder::run is what the attempts
\* of the run amount to under the override, the default, or no policy.
THEOREM AnswersEarned == Spec => []AnswerIsEarned
<1>1. RInv => AnswerIsEarned
  BY DEF RInv
<1> QED
  BY <1>1, AlwaysRInv, PTL

\* Any number of runs, cut short anywhere, are given one result, and it is the
\* journalled one.
THEOREM ResultsAgree == Spec => []OneResult
<1>1. RInv => OneResult
  BY DEF RInv
<1> QED
  BY <1>1, AlwaysRInv, PTL

\* No run of the step replaces a result, a suspension, or an entry of another
\* type.
THEOREM ResultsFinal == Spec => NothingOverwritten
<1>1. RInv /\ [Next]_vars
        => [entry' # entry => entry \notin Value \cup Refused]_vars
  BY StepValueAssumption
    DEF RInv, Unresolved, Refused, Next, Verdict, CacheHit, CacheMiss,
        ReadFails, ReadStep, ClosureReturns, Timeout, Persist, DeadLetter,
        WriteFails, Backoff, Retry, Drop, vars
<1> QED
  BY <1>1, AlwaysRInv, PTL DEF Spec, NothingOverwritten

\* StepBuilder::run with its attempts, timeouts, backoff and storage errors
\* implements the one execution that module Engine takes a step to be.
THEOREM StepIsAtomic == Spec => ImplementsAtomicStep
<1>1. Init => Atomic!AtomicInit
  BY DEF Init, Atomic!AtomicInit, Executing
<1>2. RInv /\ [Next]_vars => [Atomic!AtomicNext]_<<entry, Executing>>
  <2> SUFFICES ASSUME RInv, Next
               PROVE  Atomic!AtomicNext \/ UNCHANGED <<entry, Executing>>
    BY DEF vars, Executing
  <2> USE DEF Atomic!AtomicNext
  <2>1. CASE \E c \in Call : CacheHit(c) \/ ReadFails(c)
    BY <2>1 DEF CacheHit, ReadFails, ReadStep, Return, Executing
  <2>2. CASE \E c \in Call : CacheMiss(c)
    BY <2>2 DEF CacheMiss, ReadStep, Attempt, Executing, Atomic!StepRun
  <2>3. CASE ClosureReturns \/ Backoff \/ Retry
    BY <2>3 DEF ClosureReturns, Backoff, Retry, Attempt, Executing
  <2>4. CASE Persist
    BY <2>4 DEF Persist, Return, Executing, Atomic!StepOk
  <2>5. CASE DeadLetter
    BY <2>5 DEF DeadLetter, Return, Executing, Atomic!StepDeadLetter
  <2>6. CASE Timeout \/ WriteFails \/ Drop
    BY <2>6
      DEF Timeout, WriteFails, Drop, Return, Executing, Atomic!StepLost
  <2> QED
    BY <2>1, <2>2, <2>3, <2>4, <2>5, <2>6 DEF Next, Verdict
<1> QED
  BY <1>1, <1>2, AlwaysRInv, PTL
    DEF Spec, ImplementsAtomicStep, Atomic!AtomicSpec

-----------------------------------------------------------------------------
(* The delays.  Nothing is assumed of exponentiation beyond its definition *)
(* at zero: a power of two is counted as the subsets of an interval.       *)

LEMMA PowerIsCardinality ==
  ASSUME NEW n \in Nat
  PROVE  /\ IsFiniteSet(SUBSET (1..n))
         /\ Cardinality(SUBSET (1..n)) = 2 ^ n
         /\ 2 ^ n \in Nat
<1>1. IsFiniteSet(1..n) /\ Cardinality(1..n) = n
  BY FS_Interval
<1>2. /\ IsFiniteSet(SUBSET (1..n))
      /\ Cardinality(SUBSET (1..n)) = 2 ^ Cardinality(1..n)
  BY <1>1, FS_SUBSET
<1> QED
  BY <1>1, <1>2, FS_CardinalityType


\* There are as many sets with n + 1 as without.
LEMMA PowerDoubles ==
  ASSUME NEW n \in Nat
  PROVE  2 ^ (n + 1) = 2 * 2 ^ n
<1> DEFINE S == SUBSET (1..n)
          N == n + 1
          T == SUBSET (1..N)
          With == {s \cup {n + 1} : s \in S}
          f == [s \in S |-> s \cup {n + 1}]
<1>1. IsFiniteSet(S) /\ Cardinality(S) = 2 ^ n /\ 2 ^ n \in Nat
  BY PowerIsCardinality
<1>2. Cardinality(T) = 2 ^ N
  <2> HIDE DEF N
  <2> N \in Nat
    BY DEF N
  <2> QED
    BY PowerIsCardinality
<1>3. f \in Bijection(S, With)
  <2>1. f \in [S -> With]
    OBVIOUS
  <2>2. ASSUME NEW s \in S, NEW t \in S, f[s] = f[t] PROVE s = t
    BY <2>2
  <2>3. \A t \in With : \E s \in S : f[s] = t
    OBVIOUS
  <2> QED
    BY <2>1, <2>2, <2>3 DEF Bijection, Injection, Surjection, IsInjective
<1>4. IsFiniteSet(With) /\ Cardinality(With) = 2 ^ n
  BY <1>1, <1>3, FS_Bijection DEF ExistsBijection
<1>5. T = S \cup With /\ S \cap With = {}
  <2>1. ASSUME NEW t \in T PROVE t \in S \cup With
    <3>1. CASE n + 1 \in t
      <4>1. t \ {n + 1} \in S /\ t = (t \ {n + 1}) \cup {n + 1}
        BY <3>1
      <4> QED
        BY <4>1
    <3>2. CASE n + 1 \notin t
      BY <3>2
    <3> QED
      BY <3>1, <3>2
  <2>2. 1..n \subseteq 1..N /\ n + 1 \in 1..N /\ n + 1 \notin 1..n
    OBVIOUS
  <2>3. S \subseteq T
    BY <2>2
  <2>4. With \subseteq T
    BY <2>2
  <2>5. S \cap With = {}
    BY <2>2
  <2> QED
    BY <2>1, <2>3, <2>4, <2>5
<1>6. Cardinality(T) = 2 ^ n + 2 ^ n - Cardinality({})
  BY <1>1, <1>4, <1>5, FS_Union
<1> QED
  BY <1>1, <1>2, <1>6, FS_EmptySet

LEMMA PowerGrows ==
  ASSUME NEW m \in Nat, NEW n \in Nat, m <= n
  PROVE  2 ^ m <= 2 ^ n
<1>1. SUBSET (1..m) \subseteq SUBSET (1..n)
  OBVIOUS
<1>2. IsFiniteSet(SUBSET (1..n))
  BY PowerIsCardinality
<1>3. Cardinality(SUBSET (1..m)) <= Cardinality(SUBSET (1..n))
  BY <1>1, <1>2, FS_Subset
<1> QED
  BY <1>3, PowerIsCardinality

\* The multiplier of delay_for doubles with the attempt until it is the
\* largest u32, and stays there.
LEMMA MultiplierDoubles ==
  ASSUME NEW n \in Nat
  PROVE  /\ Multiplier(n) \in 1..U32Max
         /\ Multiplier(0) = 1
         /\ Multiplier(n) <= Multiplier(n + 1)
         /\ Multiplier(n + 1) <= 2 * Multiplier(n)
         /\ 2 ^ (n + 1) <= U32Max => Multiplier(n + 1) = 2 * Multiplier(n)
<1>1. /\ U32Max \in Nat /\ U32Max >= 1 /\ U64Bits \in Nat
      /\ U32Max < 2 ^ U64Bits /\ 2 ^ U64Bits \in Nat
  BY WidthAssumption, PowerIsCardinality
<1>2. 2 ^ 0 = 1
  OBVIOUS
<1>3. /\ 2 ^ n \in Nat /\ 2 ^ n >= 1
      /\ 2 ^ (n + 1) = 2 * 2 ^ n
  <2>1. SUBSET (1..n) # {}
    OBVIOUS
  <2>2. Cardinality(SUBSET (1..n)) # 0
    BY <2>1, PowerIsCardinality, FS_EmptySet
  <2>3. 2 ^ n # 0 /\ 2 ^ n \in Nat
    BY <2>2, PowerIsCardinality, Zenon
  <2>4. \A x \in Nat : x # 0 => x >= 1
    OBVIOUS
  <2>5. 2 ^ n >= 1
    BY <2>3, <2>4, Zenon
  <2> QED
    BY <2>3, <2>5, PowerDoubles, Zenon
<1>4. U64Bits > 0
  <2>1. U64Bits = 0 => 2 ^ U64Bits = 2 ^ 0
    BY Zenon
  <2> QED
    BY <1>1, <1>2, <2>1
<1>5. Multiplier(0) = 1
  BY <1>1, <1>2, <1>4 DEF Multiplier, Least
<1>6. CASE n + 1 < U64Bits
  BY <1>1, <1>3, <1>5, <1>6 DEF Multiplier, Least
<1>7. CASE n + 1 = U64Bits
  <2>1. 2 * 2 ^ n > U32Max
    BY <1>1, <1>3, <1>7
  <2> QED
    BY <1>1, <1>3, <1>5, <1>7, <2>1 DEF Multiplier, Least
<1>8. CASE n >= U64Bits
  <2>1. 2 ^ (n + 1) > U32Max
    <3>1. 2 ^ U64Bits <= 2 ^ (n + 1)
      BY <1>1, <1>8, PowerGrows
    <3> QED
      BY <1>1, <1>3, <3>1
  <2> QED
    BY <1>1, <1>5, <1>8, <2>1 DEF Multiplier
<1> QED
  BY <1>1, <1>6, <1>7, <1>8

\* A factor between m and 2 * m keeps the product between b * m and twice it.
LEMMA ProductGrows ==
  ASSUME NEW b \in Nat, NEW m \in Nat, NEW k \in Nat, m <= k, k <= 2 * m
  PROVE  /\ b * m \in Nat /\ b * k \in Nat
         /\ b * m <= b * k /\ b * k <= 2 * (b * m)
         /\ k = 2 * m => b * k = 2 * (b * m)
OBVIOUS

LEMMA DelayForDoubles ==
  ASSUME NEW p, IsPolicy(p), p.kind = "exponential", NEW n \in Nat
  PROVE  LET cap == Least(p.max, DurationMax)
             D(m) == DelayFor(p, m)
         IN  /\ D(n) \in 0..cap
             /\ D(0) = Least(p.base, cap)
             /\ D(n) <= D(n + 1) /\ D(n + 1) <= 2 * D(n)
             /\ 2 ^ (n + 1) <= U32Max => D(n + 1) = Least(2 * D(n), cap)
<1>1. p.base \in Nat /\ p.base <= DurationMax /\ p.max \in Nat /\ DurationMax \in Nat
  BY WidthAssumption DEF IsPolicy
<1> DEFINE M(m) == Multiplier(m)
<1>2. /\ \A m \in Nat : M(m) \in Nat
      /\ M(0) = 1
      /\ M(n) <= M(n + 1) /\ M(n + 1) <= 2 * M(n)
      /\ 2 ^ (n + 1) <= U32Max => M(n + 1) = 2 * M(n)
  BY MultiplierDoubles
<1>3. \A m : DelayFor(p, m) = Least(Least(p.base * M(m), DurationMax), p.max)
  BY DEF DelayFor
<1> HIDE DEF M
<1>4. /\ p.base * M(n) \in Nat /\ p.base * M(n + 1) \in Nat
      /\ p.base * M(n) <= p.base * M(n + 1)
      /\ p.base * M(n + 1) <= 2 * (p.base * M(n))
      /\ M(n + 1) = 2 * M(n) => p.base * M(n + 1) = 2 * (p.base * M(n))
  BY <1>1, <1>2, ProductGrows
<1>5. p.base * M(0) = p.base
  BY <1>1, <1>2
<1> QED
  BY <1>1, <1>2, <1>3, <1>4, <1>5 DEF Least

\* A run keeps its policy, so the delay before this attempt is still known
\* when the next one is chosen.
LEMMA NextDelayKept == RInv /\ DelayKept /\ [Next]_vars => DelayKept'
<1> SUFFICES ASSUME RInv, DelayKept, [Next]_vars PROVE DelayKept'
  OBVIOUS
<1>1. CASE stage' \in {"idle", "panicked"}
  BY <1>1 DEF DelayKept
<1>2. CASE \E c \in Call : CacheMiss(c)
  BY <1>2 DEF CacheMiss, Attempt, DelayKept
<1>3. CASE ClosureReturns \/ UNCHANGED vars
  <2>1. EffectiveRetry' = EffectiveRetry
    BY <1>3 DEF ClosureReturns, vars, EffectiveRetry
  <2>2. /\ UNCHANGED <<attempt, delay>>
        /\ stage' = stage \/ (stage = "closure" /\ stage' = "returned")
    BY <1>3 DEF ClosureReturns, vars
  <2> QED
    BY <2>1, <2>2 DEF DelayKept, DelayFor
<1>4. CASE Backoff
  <2>1. EffectiveRetry' = EffectiveRetry
    BY <1>4 DEF Backoff, EffectiveRetry
  <2> QED
    BY <1>4, <2>1 DEF Backoff, DelayKept, DelayFor
<1>5. CASE Retry
  <2>1. EffectiveRetry' = EffectiveRetry
    BY <1>5 DEF Retry, EffectiveRetry
  <2>2. attempt' - 1 = attempt
    BY <1>5 DEF Retry, Attempt, RInv, StepTypeOK
  <2> QED
    BY <1>5, <2>1, <2>2 DEF Retry, Attempt, DelayKept, DelayFor
<1> QED
  BY <1>1, <1>2, <1>3, <1>4, <1>5
    DEF Next, CacheHit, ReadFails, ReadStep, Timeout, Verdict, Persist,
        DeadLetter, WriteFails, Drop, Return

\* There is a backoff only under a policy with retries.
LEMMA BackoffHasPolicy ==
  ASSUME RInv, Backoff
  PROVE  /\ IsPolicy(EffectiveRetry)
         /\ EffectiveRetry.kind \in {"fixed", "exponential"}
<1>1. /\ call \in Call /\ attempt \in Nat
      /\ ~(attempt + 1 >= TotalAttempts)
  BY DEF RInv, StepTypeOK, Backoff, IsLast
<1>2. /\ IsPolicy(EffectiveRetry)
      /\ EffectiveRetry.kind \in {"none", "fixed", "exponential"}
  BY <1>1, CallAssumption DEF EffectiveRetry
<1>3. EffectiveRetry.kind # "none"
  BY <1>1, <1>2, WidthAssumption DEF IsPolicy, TotalAttempts, MaxRetries
<1> QED
  BY <1>2, <1>3

\* Whatever the widths, the base and the cap, the delays of a run's retries
\* are what RetryPolicy's documentation says: fixed, or doubling from the base
\* until the cap or a type is the limit, never shrinking and never beyond it.
THEOREM DelaysDouble == Spec => DelayDoubles
<1>1. Init => DelayKept
  BY DEF Init, DelayKept
<1> DEFINE p == EffectiveRetry
           cap == Least(p.max, DurationMax)
           Doubles ==
             IF p.kind # "exponential" THEN p.kind = "fixed" /\ delay' = p.delay
             ELSE /\ delay' <= cap
                  /\ attempt = 0 => delay' = Least(p.base, cap)
                  /\ attempt > 0 => delay <= delay' /\ delay' <= 2 * delay
                  /\ attempt > 0 /\ 2 ^ attempt <= U32Max =>
                       delay' = Least(2 * delay, cap)
<1>2. ASSUME RInv, DelayKept, Backoff PROVE Doubles
  <2>1. /\ IsPolicy(p) /\ p.kind \in {"fixed", "exponential"}
        /\ attempt \in Nat /\ delay' = DelayFor(p, attempt)
        /\ attempt > 0 => delay = DelayFor(p, attempt - 1)
    BY <1>2, BackoffHasPolicy DEF RInv, StepTypeOK, Backoff, DelayKept
  <2> HIDE DEF p
  <2>2. CASE p.kind = "fixed"
    BY <2>1, <2>2 DEF DelayFor
  <2>3. CASE p.kind = "exponential" /\ attempt = 0
    <3>1. DelayFor(p, 0) \in 0..cap /\ DelayFor(p, 0) = Least(p.base, cap)
      BY <2>1, <2>3, DelayForDoubles
    <3> QED
      BY <2>1, <2>3, <3>1
  <2>4. CASE p.kind = "exponential" /\ attempt > 0
    <3>1. PICK n \in Nat : n = attempt - 1 /\ n + 1 = attempt
      BY <2>1, <2>4
    <3>2. /\ DelayFor(p, n + 1) \in 0..cap
          /\ DelayFor(p, n) <= DelayFor(p, n + 1)
          /\ DelayFor(p, n + 1) <= 2 * DelayFor(p, n)
          /\ 2 ^ (n + 1) <= U32Max =>
               DelayFor(p, n + 1) = Least(2 * DelayFor(p, n), cap)
      BY <2>1, <2>4, DelayForDoubles
    <3> QED
      BY <2>1, <2>4, <3>1, <3>2
  <2> QED
    BY <2>1, <2>2, <2>3, <2>4
<1>3. RInv /\ DelayKept /\ [Next]_vars
        => [stage # "backoff" /\ stage' = "backoff" => Doubles]_vars
  <2>1. [Next]_vars /\ stage # "backoff" /\ stage' = "backoff" => Backoff
    BY DEF Next, CacheHit, CacheMiss, ReadFails, ReadStep, ClosureReturns,
           Timeout, Verdict, Persist, DeadLetter, WriteFails, Retry, Drop,
           Return, Attempt, vars
  <2> QED
    BY <1>2, <2>1
<1> QED
  BY <1>1, <1>3, InitRInv, NextRInv, NextDelayKept, PTL
    DEF Spec, DelayDoubles

=============================================================================
