-------------------------------- MODULE Payout --------------------------------
(***************************************************************************)
(* What sweeping promises of each record of a deposit: once it is listed   *)
(* it is owed to the custodian, and it is paid once, or reported as failed *)
(* and left alone.  Of records that the custodian clears it promises       *)
(* nothing more.                                                           *)
(***************************************************************************)
CONSTANT Records

VARIABLE outcome

Outcomes == {"none", "owed", "paid", "failed", "cleared"}

TypeOK == outcome \in [Records -> Outcomes]

Init == outcome = [r \in Records |-> "none"]

Becomes(r, before, after) ==
  /\ outcome[r] = before
  /\ outcome' = [outcome EXCEPT ![r] = after]

List(r) == Becomes(r, "none", "owed")
Pay(r)  == Becomes(r, "owed", "paid")
Fail(r) == Becomes(r, "owed", "failed")

Clear(S) == outcome' = [r \in Records |-> IF r \in S THEN "cleared" ELSE outcome[r]]

Next ==
  \/ \E r \in Records : List(r) \/ Pay(r) \/ Fail(r)
  \/ \E S \in SUBSET Records : Clear(S)

Spec == Init /\ [][Next]_outcome
===============================================================================
