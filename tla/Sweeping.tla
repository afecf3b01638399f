------------------------------- MODULE Sweeping -------------------------------
(***************************************************************************)
(* How the canister pays deposits out of its subaccounts.                  *)
(*                                                                         *)
(* sweep, sweep_by_token_type and single_sweep copy records out of         *)
(* TRANSACTIONS and then, record by record, ask the ledger for a transfer, *)
(* await the answer and write the copy back with a new status.  refund     *)
(* does the same for one record.  Between the copy and the write other     *)
(* calls run, so copies are stale, and calls overlap.                      *)
(*                                                                         *)
(* A filing is one transfer under one key.  The indexer may file a transfer *)
(* under more keys than one: it counts keys from the cursor also when the  *)
(* answer starts later (lib.rs:962), and the next poll, or a look-up, files *)
(* the same block where it belongs.  Each record of it is swept by itself. *)
(*                                                                         *)
(* A call goes idle -> sent -> ok | err -> (next record) sent -> ... idle; *)
(* the ledger executes a transfer in the step to "ok", and the canister    *)
(* learns of it in the step that follows.                                  *)
(***************************************************************************)
EXTENDS Integers, FiniteSets, Functions

CONSTANTS
  Tokens,      \* the token types
  ICP,         \* the token whose ledger has the `transfer' method
  NoAccount,   \* an account that is not a subaccount of the canister
  Filings,     \* what the indexer may file: a transfer on a ledger, under a key
  Fee,         \* Fee[t]: the fee of t's ledger, as the code has it
  Modulus,     \* 2^64 in the code: amounts are u64 and wrap in release builds
  BatchMax,    \* records that a sweep takes at most (100 in the code)
  Calls,       \* calls of the custodian that may be in progress together
  Commands,    \* the methods that the custodian uses
  MaxAmount    \* bound: amounts given to sweep_subaccount

AllCommands ==
  {"sweep", "sweep_by_token_type", "single_sweep", "refund",
   "sweep_subaccount", "set_sweep_failed", "clear_transactions"}

\* What is on the ledger: all of a filing but its key.
DepositOf(f) ==
  [token |-> f.token, block |-> f.block, sub |-> f.sub, amount |-> f.amount, hash |-> f.hash]

Deposits == {DepositOf(f) : f \in Filings}

\* A key is at most the index of the block (RecordsAreLedgerTransfers of
\* BlockIndexer), and a block is one transfer.
ASSUME ConstantsOK ==
  /\ ICP \in Tokens
  /\ Fee \in [Tokens -> Nat \ {0}]
  /\ Modulus \in Nat \ {0}
  /\ \A f \in Filings :
       /\ f.token \in Tokens /\ f.amount \in 1 .. (Modulus - 1)
       /\ f.block \in Nat /\ f.key \in 0 .. f.block
       /\ \A g \in Filings :
            g.token = f.token /\ g.block = f.block => DepositOf(g) = DepositOf(f)
  /\ BatchMax \in Nat \ {0}
  /\ Commands \subseteq AllCommands
  /\ MaxAmount \in Nat

VARIABLES
  arrived, \* external: the deposits on the ledgers
  bal,     \* external: bal[t][s]: what subaccount s holds on t's ledger
  txs,     \* TRANSACTIONS: key -> [filing, status]
  calls,   \* calls[c]: a call that is in progress
  paid,    \* history: transfers the ledgers made on account of a filing
  cleared  \* history: the keys that clear_transactions removed

history == <<paid, cleared>>
vars    == <<arrived, bal, txs, calls, history>>

Statuses == {"NotSwept", "Swept", "FailedToSweep"}

Subaccounts == {f.sub : f \in Filings} \ {NoAccount}

\* todo are the copies that are left; the first of them is at the ledger.
Call == [kind : {"none", "sweep", "refund"}, todo : SUBSET Filings,
         phase : {"idle", "sent", "ok", "err"}]

NoCall == [kind |-> "none", todo |-> {}, phase |-> "idle"]

TypeOK ==
  /\ arrived \subseteq Deposits
  /\ bal \in [Tokens -> [Subaccounts -> Nat]]
  /\ \A k \in DOMAIN txs : /\ txs[k].filing \in Filings /\ txs[k].filing.key = k
                           /\ txs[k].status \in Statuses
  /\ calls \in [Calls -> Call]
  /\ paid \in [Filings -> Nat]
  /\ cleared \subseteq {f.key : f \in Filings}

Init ==
  /\ arrived = {}
  /\ bal = [t \in Tokens |-> [s \in Subaccounts |-> 0]]
  /\ txs = <<>>
  /\ calls = [c \in Calls |-> NoCall]
  /\ paid = [f \in Filings |-> 0]
  /\ cleared = {}

-----------------------------------------------------------------------------
(* Deposits, and the indexer that finds them (module BlockIndexer) *)

\* The money comes once, however often the transfer is filed.
Arrive(d) ==
  /\ d \notin arrived
  /\ arrived' = arrived \cup {d}
  /\ bal' = IF d.sub = NoAccount THEN bal
            ELSE [bal EXCEPT ![d.token][d.sub] = @ + d.amount]
  /\ UNCHANGED <<txs, calls, history>>

\* Mutant: no contains_key test.
AnyKey(k) == TRUE

FreeKey(k) == k \notin DOMAIN txs

\* Mutant: the status is filed under the next index.
RecordedAtNext(f, status) ==
  [k \in DOMAIN txs \cup {f.key + 1} |->
     IF k = f.key + 1 THEN [filing |-> f, status |-> status] ELSE txs[k]]

\* An insert of the record of f: it does not matter what the key held.
Recorded(f, status) ==
  [k \in DOMAIN txs \cup {f.key} |->
     IF k = f.key THEN [filing |-> f, status |-> status] ELSE txs[k]]

\* A record that was cleared may be found again, after a rewind.
Index(f) ==
  /\ DepositOf(f) \in arrived /\ FreeKey(f.key)
  /\ txs' = Recorded(f, "NotSwept")
  /\ UNCHANGED <<arrived, bal, calls, history>>

-----------------------------------------------------------------------------
(* The start of a call *)

\* The guards of the calls in progress: CallerGuard is a local of
\* authenticate, so it is dropped before the call has done anything.
GuardsHeld == {}

\* authenticate, for the custodian.
Authenticated == GuardsHeld = {}

MayStart(c, command) ==
  command \in Commands /\ calls[c] = NoCall /\ Authenticated

Listed(P(_)) == {txs[k].filing : k \in {j \in DOMAIN txs : P(txs[j])}}

\* Records are taken in the order of their keys.
IsFirst(f, S) == f \in S /\ \A g \in S : f.key <= g.key

LastOf(S) == {f \in S : Cardinality({g \in S : g.key > f.key}) < BatchMax}

\* to_sweep_args, to_icrc1_sweep_args and to_refund_args fail for a record
\* that does not credit a subaccount, and with them the whole call.
Proceed(kind, S) ==
  IF \E f \in S : IsFirst(f, S) /\ f.sub # NoAccount
    THEN [kind |-> kind, todo |-> S, phase |-> "sent"]
    ELSE NoCall

Start(c, kind, S) ==
  /\ calls' = [calls EXCEPT ![c] = Proceed(kind, S)]
  /\ UNCHANGED <<arrived, bal, txs, history>>

\* Mutant: the status of a record is not looked at.
IsAnyStatus(r) == TRUE

IsNotSwept(r) == r.status = "NotSwept"

Sweep(c) ==
  /\ MayStart(c, "sweep")
  /\ Start(c, "sweep", LastOf(Listed(IsNotSwept)))

SweepByTokenType(c, t) ==
  /\ MayStart(c, "sweep_by_token_type")
  /\ Start(c, "sweep", LastOf(Listed(LAMBDA r : IsNotSwept(r) /\ r.filing.token = t)))

\* A hash names every record that has it, whatever its status.
SingleSweep(c, h) ==
  /\ MayStart(c, "single_sweep")
  /\ Start(c, "sweep", Listed(LAMBDA r : r.filing.hash = h))

Refund(c, k) ==
  /\ MayStart(c, "refund")
  /\ k \in DOMAIN txs
  /\ Start(c, "refund", {txs[k].filing})

-----------------------------------------------------------------------------
(* The ledgers *)

\* Mutant: the fee is not taken off the amount.
DueFeeOnTop(a, fee) == a + fee

\* What a transfer of a - fee costs the subaccount; a smaller than the fee
\* wraps to an amount no subaccount has.
Due(a, fee) == ((a - fee) % Modulus) + fee

\* The fee in the arguments: refund has that of the ICP ledger for all tokens.
FeeOf(kind, f) == IF kind = "refund" THEN Fee[ICP] ELSE Fee[f.token]

\* refund calls `transfer' for all tokens too.
Payable(kind, f) ==
  /\ kind = "refund" => f.token = ICP
  /\ Due(f.amount, FeeOf(kind, f)) <= bal[f.token][f.sub]

Transfer(c, f) ==
  /\ calls[c].phase = "sent" /\ IsFirst(f, calls[c].todo)
  /\ Payable(calls[c].kind, f)
  /\ bal' = [bal EXCEPT ![f.token][f.sub] = @ - Due(f.amount, FeeOf(calls[c].kind, f))]
  /\ paid' = [paid EXCEPT ![f] = @ + 1]
  /\ calls' = [calls EXCEPT ![c].phase = "ok"]
  /\ UNCHANGED <<arrived, txs, cleared>>

\* The ledger refuses, for a reason of its own or because the call did not
\* reach it.
Refuse(c) ==
  /\ calls[c].phase = "sent"
  /\ calls' = [calls EXCEPT ![c].phase = "err"]
  /\ UNCHANGED <<arrived, bal, txs, history>>

\* sweep_subaccount asks for one transfer and changes nothing of the canister.
SweepSubaccount(t, s, amount) ==
  /\ "sweep_subaccount" \in Commands /\ Authenticated
  /\ amount + Fee[t] <= bal[t][s]
  /\ bal' = [bal EXCEPT ![t][s] = @ - (amount + Fee[t])]
  /\ UNCHANGED <<arrived, txs, calls, history>>

-----------------------------------------------------------------------------
(* The answer *)

\* Mutants: the result is not looked at; a failure is left for the next sweep.
OutcomeIgnored(phase) == "Swept"
OutcomeRetry(phase)   == IF phase = "ok" THEN "Swept" ELSE "NotSwept"

Outcome(phase) == IF phase = "ok" THEN "Swept" ELSE "FailedToSweep"

\* Mutant: the record that was answered is asked for again.
RemainingAll(S, f) == S

Remaining(S, f) == S \ {f}

\* update_status writes the copy, with the new status, under its index, also
\* when the record is gone by now; then comes the next record.
Reply(c, f) ==
  /\ calls[c].phase \in {"ok", "err"} /\ IsFirst(f, calls[c].todo)
  /\ txs' = IF calls[c].kind = "refund" /\ calls[c].phase = "err" THEN txs
            ELSE Recorded(f, Outcome(calls[c].phase))
  /\ calls' = [calls EXCEPT ![c] = Proceed(@.kind, Remaining(@.todo, f))]
  /\ UNCHANGED <<arrived, bal, history>>

-----------------------------------------------------------------------------
(* Calls that await nothing *)

SetSweepFailed(h) ==
  /\ "set_sweep_failed" \in Commands /\ Authenticated
  /\ txs' = [k \in DOMAIN txs |-> IF txs[k].filing.hash = h
                                    THEN [txs[k] EXCEPT !.status = "FailedToSweep"]
                                    ELSE txs[k]]
  /\ UNCHANGED <<arrived, bal, calls, history>>

\* By index and by timestamp any set of records can be named.
ClearTransactions(gone) ==
  /\ "clear_transactions" \in Commands /\ Authenticated
  /\ txs' = [k \in DOMAIN txs \ gone |-> txs[k]]
  /\ cleared' = cleared \cup gone
  /\ UNCHANGED <<arrived, bal, calls, paid>>

-----------------------------------------------------------------------------
(* The specification *)

Indexer == (\E d \in Deposits : Arrive(d)) \/ (\E f \in Filings : Index(f))

Custodian ==
  \/ \E c \in Calls :
       \/ Sweep(c)
       \/ \E t \in Tokens : SweepByTokenType(c, t)
       \/ \E f \in Filings : SingleSweep(c, f.hash)
       \/ \E k \in DOMAIN txs : Refund(c, k)
  \/ \E t \in Tokens, s \in Subaccounts, amount \in 0 .. MaxAmount :
       SweepSubaccount(t, s, amount)
  \/ \E f \in Filings : SetSweepFailed(f.hash)
  \/ \E gone \in SUBSET DOMAIN txs : ClearTransactions(gone)

Answer(c) == Refuse(c) \/ \E f \in Filings : Transfer(c, f)

Continue(c) == \E f \in Filings : Reply(c, f)

Next == Indexer \/ Custodian \/ \E c \in Calls : Answer(c) \/ Continue(c)

Spec == Init /\ [][Next]_vars

\* Every call to a ledger is answered and every answer is processed.  Nothing
\* is assumed of users, indexer or custodian.
Fairness == \A c \in Calls : WF_vars(Answer(c)) /\ WF_vars(Continue(c))

FairSpec == Spec /\ Fairness

\* Besides, the custodian keeps calling sweep.
SweptSpec == FairSpec /\ \A c \in Calls : WF_vars(Sweep(c))

-----------------------------------------------------------------------------
(* Properties *)

\* The ledger has made the transfer for f and the canister does not know yet.
Unreported(f) ==
  \E c \in Calls : calls[c].phase = "ok" /\ IsFirst(f, calls[c].todo)

IsRecorded(f) == f.key \in DOMAIN txs /\ txs[f.key].filing = f

(* A record says Swept only if a transfer was made for it, whatever calls
   overlap, and although stale copies are written back and cleared records
   return.  update_status, clear_transactions. *)
SweptWasPaid ==
  \A k \in DOMAIN txs : txs[k].status = "Swept" => paid[txs[k].filing] > 0

(* A record that says NotSwept was not paid, but for answers on their way: a
   sweep that starts when no call is in progress takes no record that was paid
   before, however the calls before it overlapped.  Not so once its key was
   cleared, as what the indexer finds again is NotSwept; and it is said of each
   record: a deposit with two records is there to be paid twice. *)
UnsweptUnpaid ==
  \A k \in DOMAIN txs \ cleared :
    (txs[k].status = "NotSwept" /\ paid[txs[k].filing] > 0) => Unreported(txs[k].filing)

(* A key that is never cleared keeps its record, and what was swept or has
   failed does not become NotSwept: stale copies are only ever written over the
   record they were taken from. *)
RecordsStay ==
  [][\A k \in DOMAIN txs \ cleared' :
       /\ k \in DOMAIN txs' /\ txs'[k].filing = txs[k].filing
       /\ txs[k].status # "NotSwept" => txs'[k].status # "NotSwept"]_vars

(* With one sweep or sweep_by_token_type at a time every transfer is made for a
   record, once for each, and for none that is reported as failed: a deposit is
   paid no more often than it was filed.  Keys that were cleared are left out. *)
PaidOnce ==
  \A f \in Filings : f.key \notin cleared =>
    /\ paid[f] <= 1
    /\ paid[f] > 0 => IsRecorded(f) /\ txs[f.key].status # "FailedToSweep"

\* A deposit to s has two records, or one was cleared: its payments, then, are
\* no longer one for one.
PaidApart(t, s) ==
  \/ \E j, k \in DOMAIN txs :
       /\ j # k /\ DepositOf(txs[j].filing) = DepositOf(txs[k].filing)
       /\ txs[j].filing.token = t /\ txs[j].filing.sub = s
  \/ \E f \in Filings : f.key \in cleared /\ f.token = t /\ f.sub = s

(* With one sweep or sweep_by_token_type at a time a subaccount holds exactly
   its deposits that have not been paid, unless one of them was filed twice or
   cleared: whatever becomes of other subaccounts, and with refusals, amounts
   that wrap and dust. *)
FundsMatchRecords ==
  \A t \in Tokens, s \in Subaccounts :
    \/ PaidApart(t, s)
    \/ bal[t][s] = SumFunctionOnSet([d \in Deposits |-> d.amount],
                     {d \in arrived : /\ d.token = t /\ d.sub = s
                                      /\ \A f \in Filings : DepositOf(f) = d => paid[f] = 0})

(* So the ledger has what a sweep asks for, unless the deposit is smaller than
   the fee: no other transfer of the sweep took it, and no earlier sweep.  With
   a deposit filed twice in the subaccount it may be gone (lib.rs:962). *)
SweepsAreFunded ==
  \A c \in Calls, f \in Filings :
    /\ calls[c].phase = "sent" /\ IsFirst(f, calls[c].todo)
    /\ f.amount >= Fee[f.token] /\ ~ PaidApart(f.token, f.sub)
    => Payable(calls[c].kind, f)

\* What has become of a filing, as Payout sees it.
Reported(f, status) == \E k \in DOMAIN txs : txs[k].filing = f /\ txs[k].status = status

OutcomeOf(f) ==
  CASE f.key \in cleared -> "cleared"
    [] f.key \notin cleared /\ paid[f] > 1 -> "overpaid"
    [] f.key \notin cleared /\ paid[f] = 1 -> "paid"
    [] f.key \notin cleared /\ paid[f] = 0 /\ (Reported(f, "FailedToSweep") \/
         \E c \in Calls : calls[c].phase = "err" /\ IsFirst(f, calls[c].todo)) -> "failed"
    [] OTHER -> IF \E k \in DOMAIN txs : txs[k].filing = f THEN "owed" ELSE "none"

P == INSTANCE Payout WITH Records <- Filings, outcome <- [f \in Filings |-> OutcomeOf(f)]

(* With one sweep or sweep_by_token_type at a time the canister keeps the
   promise of Payout: each record is paid once, or fails and is left alone, or
   is cleared.  A deposit filed under two keys is two records to Payout. *)
PayoutKept == P!Spec

(* A call returns, however many records it took, whatever the ledgers say and
   although its records are cleared and found again meanwhile. *)
CallsReturn == \A c \in Calls : calls[c] # NoCall ~> calls[c] = NoCall

(* "Already processing a request for principal" (types.rs:39): a principal has
   one request in progress.  authenticate, CallerGuard. *)
OneRequestPerPrincipal ==
  \A c, e \in Calls : (calls[c] # NoCall /\ calls[e] # NoCall) => c = e

\* A record that no sweep can take, as it credits no subaccount.
Unsweepable == \E k \in DOMAIN txs : txs[k].filing.sub = NoAccount

(* A custodian who keeps sweeping gets to every record once the indexer finds
   nothing more, one sweep at a time, though a sweep takes the newest BatchMax
   only (lib.rs:2227) and ledgers may refuse for ever.  As long as it does find
   more, the oldest records may wait for ever, and one unsweepable record is
   enough to spoil it: both are premises. *)
SweepsDrain ==
  (<>[](~ Unsweepable) /\ <>[][~ \E f \in Filings : Index(f)]_vars) =>
    \A f \in Filings : Reported(f, "NotSwept") ~> ~ Reported(f, "NotSwept")
===============================================================================
