---------------------------- MODULE MCRetention ----------------------------
(* Instance of Retention for TLC: a parent with one inline child, whose     *)
(* workflow overrides the retention of the engine.                          *)
EXTENDS Retention

CONSTANTS p, c

ParentOfC == [x \in {c} |-> p]
LongerForP == [x \in {p} |-> 1]

=============================================================================
