---------------------------- MODULE MCExecutions ----------------------------
(* TLC instances of Executions: one or two runs and at most one request. *)
EXTENDS Executions

One == {1}
Two == 1..2

(* created_at of one run, and of two that were created an instant apart. *)
Apart == <<1, 2>>
Alone == <<1>>

(* Counts of a run that passed and of one that failed. *)
GreenRed == { [passed |-> 1, failed |-> 0, errors |-> 0],
              [passed |-> 0, failed |-> 1, errors |-> 0] }
Green == { [passed |-> 1, failed |-> 0, errors |-> 0] }
=============================================================================
