---------------------------- MODULE MCStepRetry ----------------------------
(* Calls of StepRetry for TLC, with a u32 of three bits and a u64 of four. *)
EXTENDS StepRetry

CONSTANTS v1, v2

Fixed(n, d) == [kind |-> "fixed", max_retries |-> n, delay |-> d]
Exponential(n, b, m) ==
  [kind |-> "exponential", max_retries |-> n, base |-> b, max |-> m]
Unset == [kind |-> "unset", max_retries |-> 0]

Policies ==
  {Fixed(0, 1), Fixed(2, 3), Exponential(6, 1, 9), Exponential(6, 3, 12),
   Exponential(5, 2, 5), Exponential(7, 1, 1)}

Calls ==
  [timeout : BOOLEAN, override : Policies \cup {Unset, NoPolicy},
   default : {NoPolicy, Fixed(1, 0)}]

=============================================================================
