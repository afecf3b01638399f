------------------------------ MODULE DepositBook ------------------------------
(***************************************************************************)
(* What the indexer promises of each position of a ledger: it is unseen    *)
(* until it is filed or there is a reason to leave it out (an operator     *)
(* cleared or skipped it, or its key was taken).  Nothing that was seen is *)
(* unseen again, the webhook hears of filed deposits only, one at a time,  *)
(* and the cursor passes no deposit that is still unseen.                  *)
(***************************************************************************)
CONSTANT Deposits

VARIABLES
  fate,      \* fate[d]: what has become of d
  announced, \* the deposits that the webhook has been told of
  passed     \* the deposits that the cursor has passed

vars == <<fate, announced, passed>>

Fates == {"unseen", "filed", "excused"}

Seen == {d \in Deposits : fate[d] # "unseen"}

Init ==
  /\ fate = [d \in Deposits |-> "unseen"]
  /\ announced = {}
  /\ passed = {}

\* The deposits whose fate the step changes to f.
Become(f) == {d \in Deposits : fate[d] # f /\ fate'[d] = f}

\* An answer of a ledger is filed, but for deposits whose key is taken.
File ==
  /\ Become("unseen") = {}
  /\ \A d \in Become("excused") : fate[d] = "unseen"
  /\ announced \subseteq announced'
  /\ \A d \in announced' \ announced :
       fate'[d] = "filed" /\ \A e \in announced' \ announced : d = e

\* Records are cleared, or positions skipped.
Excuse ==
  /\ Become("unseen") = {} /\ Become("filed") = {}
  /\ UNCHANGED announced

Next ==
  /\ File \/ Excuse
  /\ fate' \in [Deposits -> Fates]
  /\ announced' \subseteq Deposits
  /\ passed' \subseteq Seen'

Spec == Init /\ [][Next]_vars
===============================================================================
