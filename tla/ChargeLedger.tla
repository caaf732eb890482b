---------------------------- MODULE ChargeLedger ----------------------------
(***************************************************************************)
(* What billing promises of a session, and nothing of how it is computed:  *)
(* a session is opened once at a positive rate of the rate card or is a    *)
(* legacy row that may have no rate, the rate never changes afterwards,    *)
(* and a charge is issued at most once, only for an opened session, and    *)
(* never changes once issued.  app/services/operation_cost_service.py      *)
(* states it: "lock the rate at start, compute the charge once at end".    *)
(***************************************************************************)
EXTENDS Integers

CONSTANTS Sessions, Rates, None

VARIABLES opened, rate, charge

vars == <<opened, rate, charge>>

Init ==
  /\ opened \in [Sessions -> BOOLEAN]
  /\ rate \in [Sessions -> Rates \cup {None}]
  /\ charge = [s \in Sessions |-> None]
  /\ \A s \in Sessions : rate[s] # None => opened[s]

Open(s, r) ==
  /\ ~ opened[s]
  /\ opened' = [opened EXCEPT ![s] = TRUE]
  /\ rate' = [rate EXCEPT ![s] = r]
  /\ UNCHANGED charge

IssueCharge(s) ==
  /\ opened[s]
  /\ charge[s] = None
  /\ charge'[s] \in Nat
  /\ charge' = [charge EXCEPT ![s] = charge'[s]]
  /\ UNCHANGED <<opened, rate>>

Next ==
  \E s \in Sessions :
    \/ \E r \in Rates : Open(s, r)
    \/ IssueCharge(s)

Spec == Init /\ [][Next]_vars
=============================================================================
