------------------------------- MODULE Future -------------------------------
(***************************************************************************)
(* What a result promises its user: a one-shot future.  Its outcome is     *)
(* published at most once and then never changes, whoever asks is told     *)
(* "idle" or the kind of the published outcome, and the outcome is handed  *)
(* over at most once, to a consumer that did not let go of it.             *)
(* ResultState implements this specification.                              *)
(***************************************************************************)
CONSTANTS Values,      \* what a producer can return
          Exceptions,  \* what a producer can throw
          NoOutcome    \* stands for "not published" and "not taken"

VARIABLES outcome,     \* the published outcome, or NoOutcome
          reply,       \* the last status the consumer was told
          taken,       \* the outcome the consumer took, or NoOutcome
          holding      \* the consumer still refers to the future

vars == <<outcome, reply, taken, holding>>

Kind(o) == IF o \in Values THEN "value"
           ELSE IF o \in Exceptions THEN "exception" ELSE "idle"

Init ==
  /\ outcome = NoOutcome
  /\ reply = "idle"
  /\ taken = NoOutcome
  /\ holding = TRUE

Publish ==
  /\ outcome = NoOutcome
  /\ outcome' \in Values \cup Exceptions
  /\ UNCHANGED <<reply, taken, holding>>

(* A timed-out wait answers "idle" although the outcome may be published   *)
(* between the decision and the return, so "idle" is always a legal reply  *)
(* before the consumer has been told otherwise.                            *)
Report ==
  /\ holding
  /\ \/ reply' = Kind(outcome)
     \/ reply = "idle" /\ reply' = "idle"
  /\ UNCHANGED <<outcome, taken, holding>>

Take ==
  /\ holding
  /\ outcome # NoOutcome
  /\ taken' = outcome
  /\ holding' = FALSE
  /\ UNCHANGED <<outcome, reply>>

Drop ==
  /\ holding
  /\ holding' = FALSE
  /\ UNCHANGED <<outcome, reply, taken>>

Next == Publish \/ Report \/ Take \/ Drop

Spec == Init /\ [][Next]_vars
=============================================================================
