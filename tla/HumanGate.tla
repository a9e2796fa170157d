------------------------------ MODULE HumanGate ------------------------------
(***************************************************************************)
(* What the workflow promises a reviewer (FR-HITL-001): generated code is  *)
(* run only after that very code was laid before a human who agreed to it. *)
(***************************************************************************)
CONSTANTS
  Code,    \* what may be generated
  Nothing  \* no code

VARIABLES
  offered,    \* the code a human is asked about
  consented,  \* the code a human has agreed to
  executed    \* the code that has been run

Init == offered = Nothing /\ consented = {} /\ executed = {}

Offer(c) == offered = Nothing /\ offered' = c /\ UNCHANGED <<consented, executed>>

Consent ==
  /\ offered \in Code
  /\ consented' = consented \cup {offered}
  /\ offered' = Nothing
  /\ UNCHANGED executed

Withdraw == offered # Nothing /\ offered' = Nothing /\ UNCHANGED <<consented, executed>>

Execute(c) ==
  /\ c \in consented
  /\ executed' = executed \cup {c}
  /\ UNCHANGED <<offered, consented>>

Next == Consent \/ Withdraw \/ \E c \in Code : Offer(c) \/ Execute(c)

Spec == Init /\ [][Next]_<<offered, consented, executed>>
=============================================================================
