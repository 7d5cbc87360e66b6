------------------------------ MODULE Executor ------------------------------
(***************************************************************************)
(* What every executor promises: a task that enqueue accepts is executed   *)
(* at most once or destroyed, a task that enqueue refuses is destroyed,    *)
(* and once shutdown() has returned nothing is queued, accepted or         *)
(* started.  A task that was started before may still be running then.     *)
(***************************************************************************)
CONSTANT Tasks

VARIABLES status,   \* what has become of each task
          shut      \* shutdown() has returned

vars == <<status, shut>>

InState(s) == {t \in Tasks : status[t] = s}

Become(set, s) == status' = [t \in Tasks |-> IF t \in set THEN s ELSE status[t]]

Init == /\ status = [t \in Tasks |-> "new"]
        /\ shut = FALSE

(* enqueue(task) and enqueue(span) return.                                 *)
Accept(set) ==
  /\ ~shut
  /\ set # {} /\ set \subseteq InState("new")
  /\ Become(set, "queued")
  /\ UNCHANGED shut

(* enqueue throws runtime_shutdown.                                        *)
Refuse(set) ==
  /\ set # {} /\ set \subseteq InState("new")
  /\ Become(set, "destroyed")
  /\ UNCHANGED shut

Start(task) ==
  /\ ~shut
  /\ task \in InState("queued")
  /\ Become({task}, "running")
  /\ UNCHANGED shut

Finish(task) ==
  /\ task \in InState("running")
  /\ Become({task}, "executed")
  /\ UNCHANGED shut

Destroy(set) ==
  /\ set # {} /\ set \subseteq InState("queued")
  /\ Become(set, "destroyed")
  /\ UNCHANGED shut

(* shutdown() destroys what is left and returns.                           *)
Shutdown ==
  /\ ~shut
  /\ Become(InState("queued"), "destroyed")
  /\ shut' = TRUE

Next == \/ \E set \in SUBSET Tasks : Accept(set) \/ Refuse(set) \/ Destroy(set)
        \/ \E task \in Tasks : Start(task) \/ Finish(task)
        \/ Shutdown

Spec == Init /\ [][Next]_vars
=============================================================================
