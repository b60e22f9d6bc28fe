----------------------------- MODULE RemoteCall -----------------------------
(***************************************************************************)
(* What a caller of the HTTP backend may rely on.  The engine acts on a    *)
(* call, and may act on it again; the caller hears at most one outcome.    *)
(* "done" or "refused" is what the engine did one of the times it acted,   *)
(* and had done by then: who is refused what was done had his request      *)
(* applied twice.  "unknown" promises nothing: the engine may have acted,  *)
(* or may do so later.                                                     *)
(***************************************************************************)
CONSTANT Calls

VARIABLES effect,   \* call -> what the engine did, over all the times it acted
          outcome   \* call -> what its caller has been told

Decisions == {"done", "refused"}

CallInit ==
  /\ effect = [c \in Calls |-> {}]
  /\ outcome = [c \in Calls |-> "none"]

Act(c) ==
  /\ \E decision \in Decisions : effect' = [effect EXCEPT ![c] = @ \cup {decision}]
  /\ UNCHANGED outcome

Report(c) ==
  /\ outcome[c] = "none"
  /\ \E told \in effect[c] \cup {"unknown"} : outcome' = [outcome EXCEPT ![c] = told]
  /\ UNCHANGED effect

CallNext == \E c \in Calls : Act(c) \/ Report(c)

CallSpec == CallInit /\ [][CallNext]_<<effect, outcome>>
=============================================================================
