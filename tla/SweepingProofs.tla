---------------------------- MODULE SweepingProofs ----------------------------
(* What Sweeping guarantees for every value of its constants. *)
EXTENDS Sweeping, TLAPS

Kinds == {"sweep", "refund"}

Listings == {txs[k].filing : k \in DOMAIN txs}

\* The steps that start a call have this in common.
Starts == \E c \in Calls, kind \in Kinds, S \in SUBSET Listings :
            calls[c] = NoCall /\ Start(c, kind, S)

LEMMA StartIs ==
  ASSUME NEW c \in Calls,
         \/ Sweep(c)
         \/ \E t \in Tokens : SweepByTokenType(c, t)
         \/ \E f \in Filings : SingleSweep(c, f.hash)
         \/ \E k \in DOMAIN txs : Refund(c, k)
  PROVE  \E kind \in Kinds, S \in SUBSET Listings : calls[c] = NoCall /\ Start(c, kind, S)
<1> USE DEF MayStart, Listed, LastOf, Listings, Kinds
<1>1. CASE Sweep(c)
  BY <1>1 DEF Sweep
<1>2. CASE \E t \in Tokens : SweepByTokenType(c, t)
  BY <1>2 DEF SweepByTokenType
<1>3. CASE \E f \in Filings : SingleSweep(c, f.hash)
  BY <1>3 DEF SingleSweep
<1>4. CASE \E k \in DOMAIN txs : Refund(c, k)
  BY <1>4 DEF Refund
<1> QED BY <1>1, <1>2, <1>3, <1>4

\* The steps, as the proofs below tell them apart.
LEMMA Steps ==
  ASSUME Next
  PROVE  \/ \E d \in Deposits : Arrive(d)
         \/ \E f \in Filings : Index(f)
         \/ Starts
         \/ \E t \in Tokens, s \in Subaccounts, amount \in 0 .. MaxAmount :
              SweepSubaccount(t, s, amount)
         \/ \E f \in Filings : SetSweepFailed(f.hash)
         \/ \E gone \in SUBSET DOMAIN txs : ClearTransactions(gone)
         \/ \E c \in Calls : Refuse(c)
         \/ \E c \in Calls, f \in Filings : Transfer(c, f)
         \/ \E c \in Calls, f \in Filings : Reply(c, f)
BY StartIs DEF Next, Indexer, Custodian, Answer, Continue, Starts

LEMMA ProceedIs ==
  ASSUME NEW kind \in Kinds, NEW S \in SUBSET Filings
  PROVE  /\ Proceed(kind, S) \in Call
         /\ Proceed(kind, S).phase \in {"idle", "sent"}
         /\ Proceed(kind, S).todo \subseteq S
BY DEF Proceed, Call, NoCall, Kinds

\* No two copies of a call are of one key, so the first is unique.
CopiesOK == \A c \in Calls : \A f, e \in calls[c].todo : f.key = e.key => f = e

\* A call in progress is of a kind.
KindOK == \A c \in Calls : calls[c].todo # {} => calls[c].kind \in Kinds

TypeInv == TypeOK /\ CopiesOK /\ KindOK

\* A deposit has what its filings have.
LEMMA DepositIs ==
  ASSUME NEW d \in Deposits
  PROVE  /\ d.token \in Tokens /\ d.amount \in Nat /\ d.amount \in 1 .. (Modulus - 1)
         /\ d.sub # NoAccount => d.sub \in Subaccounts
BY ConstantsOK DEF Deposits, DepositOf, Subaccounts

LEMMA DueIsNat ==
  ASSUME NEW a \in Nat, NEW fee \in Nat
  PROVE  Due(a, fee) \in Nat
BY ConstantsOK DEF Due

-----------------------------------------------------------------------------
(* Types *)

LEMMA TypeInit == Init => TypeInv
<1> SUFFICES ASSUME Init PROVE TypeInv
  OBVIOUS
<1>1. DOMAIN txs = {}
  BY DEF Init
<1>2. calls \in [Calls -> Call] /\ \A c \in Calls : calls[c] = NoCall
  BY DEF Init, NoCall, Call
<1>3. CopiesOK /\ KindOK
  BY <1>2 DEF CopiesOK, KindOK, NoCall
<1>4. /\ arrived \subseteq Deposits /\ paid \in [Filings -> Nat] /\ cleared = {}
      /\ bal \in [Tokens -> [Subaccounts -> Nat]]
  BY DEF Init
<1> QED BY <1>1, <1>2, <1>3, <1>4 DEF TypeInv, TypeOK

\* A call that changes to one that is OK leaves all of them OK.
LEMMA CallUpdate ==
  ASSUME TypeInv, NEW c \in Calls, NEW q \in Call,
         calls' = [calls EXCEPT ![c] = q],
         \A f, e \in q.todo : f.key = e.key => f = e,
         q.todo # {} => q.kind \in Kinds
  PROVE  calls' \in [Calls -> Call] /\ CopiesOK' /\ KindOK'
<1>1. \A e \in Calls : calls'[e] = IF e = c THEN q ELSE calls[e]
  BY DEF TypeInv, TypeOK
<1>2. calls' \in [Calls -> Call]
  BY DEF TypeInv, TypeOK
<1> QED BY <1>1, <1>2 DEF TypeInv, CopiesOK, KindOK

LEMMA RecordedOK ==
  ASSUME TypeInv, NEW f \in Filings, NEW status \in Statuses
  PROVE  \A k \in DOMAIN Recorded(f, status) :
           /\ Recorded(f, status)[k].filing \in Filings
           /\ Recorded(f, status)[k].filing.key = k
           /\ Recorded(f, status)[k].status \in Statuses
BY DEF Recorded, TypeInv, TypeOK

LEMMA TypeStep == TypeInv /\ [Next]_vars => TypeInv'
<1> SUFFICES ASSUME TypeInv, [Next]_vars PROVE TypeInv'
  OBVIOUS
<1> USE DEF TypeInv
<1>1. ASSUME NEW d \in Deposits, Arrive(d) PROVE TypeInv'
  <2>1. d.token \in Tokens /\ d.amount \in Nat
    BY DepositIs
  <2>2. bal' \in [Tokens -> [Subaccounts -> Nat]]
    <3>1. CASE d.sub = NoAccount
      BY <1>1, <3>1 DEF Arrive, TypeOK
    <3>2. CASE d.sub # NoAccount
      <4>1. d.sub \in Subaccounts
        BY <3>2, DepositIs
      <4>2. bal[d.token][d.sub] + d.amount \in Nat
        BY <2>1, <4>1 DEF TypeOK
      <4>3. bal' = [bal EXCEPT ![d.token][d.sub] = bal[d.token][d.sub] + d.amount]
        BY <1>1, <3>2 DEF Arrive
      <4> QED BY <2>1, <4>1, <4>2, <4>3 DEF TypeOK
    <3> QED BY <3>1, <3>2
  <2> QED BY <1>1, <2>2 DEF Arrive, history, TypeOK, CopiesOK, KindOK
<1>2. ASSUME NEW f \in Filings, Index(f) PROVE TypeInv'
  <2>1. txs' = Recorded(f, "NotSwept") /\ UNCHANGED <<arrived, bal, calls, history>>
    BY <1>2 DEF Index
  <2>2. "NotSwept" \in Statuses
    BY DEF Statuses
  <2> QED BY <2>1, <2>2, RecordedOK DEF history, TypeOK, CopiesOK, KindOK
<1>3. ASSUME Starts PROVE TypeInv'
  <2>1. PICK c \in Calls, kind \in Kinds, S \in SUBSET Listings : Start(c, kind, S)
    BY <1>3 DEF Starts
  <2>2. S \subseteq Filings /\ \A f, e \in S : f.key = e.key => f = e
    BY DEF Listings, TypeOK
  <2>3. calls' \in [Calls -> Call] /\ CopiesOK' /\ KindOK'
    <3> DEFINE q == Proceed(kind, S)
    <3>1. q \in Call /\ q.todo \subseteq S /\ (q.todo # {} => q.kind \in Kinds)
      BY <2>2, ProceedIs DEF Proceed, NoCall
    <3>2. calls' = [calls EXCEPT ![c] = q]
      BY <2>1 DEF Start
    <3> HIDE DEF q
    <3> QED BY <2>2, <3>1, <3>2, CallUpdate
  <2> QED BY <2>1, <2>3 DEF Start, history, TypeOK
<1>4. ASSUME NEW t \in Tokens, NEW s \in Subaccounts, NEW amount \in 0 .. MaxAmount,
             SweepSubaccount(t, s, amount)
      PROVE  TypeInv'
  <2> DEFINE n == bal[t][s] - (amount + Fee[t])
  <2>1. n \in Nat
    <3>1. Fee[t] \in Nat /\ amount \in Nat
      BY ConstantsOK
    <3>2. bal[t][s] \in Nat
      BY DEF TypeOK
    <3>3. amount + Fee[t] <= bal[t][s]
      BY <1>4 DEF SweepSubaccount
    <3> QED BY <3>1, <3>2, <3>3
  <2>2. bal' = [bal EXCEPT ![t][s] = n]
    BY <1>4 DEF SweepSubaccount
  <2> HIDE DEF n
  <2>3. bal' \in [Tokens -> [Subaccounts -> Nat]]
    BY <2>1, <2>2 DEF TypeOK
  <2> QED BY <1>4, <2>3 DEF SweepSubaccount, history, TypeOK, CopiesOK, KindOK
<1>5. ASSUME NEW h, SetSweepFailed(h) PROVE TypeInv'
  <2>1. /\ DOMAIN txs' = DOMAIN txs
        /\ \A k \in DOMAIN txs : txs'[k] = IF txs[k].filing.hash = h
             THEN [txs[k] EXCEPT !.status = "FailedToSweep"] ELSE txs[k]
    BY <1>5 DEF SetSweepFailed
  <2> QED BY <1>5, <2>1 DEF SetSweepFailed, history, TypeOK, CopiesOK, KindOK, Statuses
<1>6. ASSUME NEW gone \in SUBSET DOMAIN txs, ClearTransactions(gone) PROVE TypeInv'
  <2>1. gone \subseteq {f.key : f \in Filings}
    BY <1>6 DEF TypeOK
  <2> QED BY <1>6, <2>1 DEF ClearTransactions, TypeOK, CopiesOK, KindOK
<1>7. ASSUME NEW c \in Calls, Refuse(c) PROVE TypeInv'
  <2> DEFINE q == [calls[c] EXCEPT !.phase = "err"]
  <2>1. q \in Call /\ q.todo = calls[c].todo /\ q.kind = calls[c].kind
    BY DEF TypeOK, Call
  <2>2. calls' = [calls EXCEPT ![c] = q]
    BY <1>7 DEF Refuse, TypeOK
  <2> HIDE DEF q
  <2>3. calls' \in [Calls -> Call] /\ CopiesOK' /\ KindOK'
    BY <2>1, <2>2, CallUpdate DEF CopiesOK, KindOK
  <2> QED BY <1>7, <2>3 DEF Refuse, history, TypeOK
<1>8. ASSUME NEW c \in Calls, NEW f \in Filings, Transfer(c, f) PROVE TypeInv'
  <2> DEFINE q == [calls[c] EXCEPT !.phase = "ok"]
             due == Due(f.amount, FeeOf(calls[c].kind, f))
  <2>1. q \in Call /\ q.todo = calls[c].todo /\ q.kind = calls[c].kind
    BY DEF TypeOK, Call
  <2>2. calls' = [calls EXCEPT ![c] = q]
    BY <1>8 DEF Transfer, TypeOK
  <2>3. due \in Nat /\ due <= bal[f.token][f.sub] /\ f.token \in Tokens
    BY <1>8, ConstantsOK, DueIsNat DEF Transfer, Payable, FeeOf
  <2>4. bal' = [bal EXCEPT ![f.token][f.sub] = bal[f.token][f.sub] - due]
    BY <1>8 DEF Transfer
  <2> HIDE DEF q, due
  <2>5. calls' \in [Calls -> Call] /\ CopiesOK' /\ KindOK'
    BY <2>1, <2>2, CallUpdate DEF CopiesOK, KindOK
  <2>6. bal' \in [Tokens -> [Subaccounts -> Nat]]
    <3>1. CASE f.sub \in Subaccounts
      <4>1. bal[f.token][f.sub] - due \in Nat
        BY <2>3, <3>1 DEF TypeOK
      <4> QED BY <2>3, <2>4, <4>1 DEF TypeOK
    <3>2. CASE f.sub \notin Subaccounts
      BY <2>3, <2>4, <3>2 DEF TypeOK
    <3> QED BY <3>1, <3>2
  <2>7. paid' \in [Filings -> Nat]
    BY <1>8 DEF Transfer, TypeOK
  <2> QED BY <1>8, <2>5, <2>6, <2>7 DEF Transfer, TypeOK
<1>9. ASSUME NEW c \in Calls, NEW f \in Filings, Reply(c, f) PROVE TypeInv'
  <2> DEFINE S == Remaining(calls[c].todo, f)
             q == Proceed(calls[c].kind, S)
  <2>1. f \in calls[c].todo /\ calls[c].kind \in Kinds /\ S \subseteq Filings
        /\ S \subseteq calls[c].todo
    BY <1>9 DEF Reply, IsFirst, KindOK, TypeOK, Call, Remaining
  <2>2. q \in Call /\ q.todo \subseteq S /\ (q.todo # {} => q.kind \in Kinds)
    BY <2>1, ProceedIs DEF Proceed, NoCall
  <2>3. calls' = [calls EXCEPT ![c] = q]
    BY <1>9 DEF Reply
  <2>4. Outcome(calls[c].phase) \in Statuses
    BY DEF Outcome, Statuses
  <2>5. txs' = txs \/ txs' = Recorded(f, Outcome(calls[c].phase))
    BY <1>9 DEF Reply
  <2> HIDE DEF q, S
  <2>6. calls' \in [Calls -> Call] /\ CopiesOK' /\ KindOK'
    BY <2>1, <2>2, <2>3, CallUpdate DEF CopiesOK
  <2>7. \A k \in DOMAIN txs' : /\ txs'[k].filing \in Filings /\ txs'[k].filing.key = k
                               /\ txs'[k].status \in Statuses
    BY <2>4, <2>5, RecordedOK DEF TypeOK
  <2> QED BY <1>9, <2>6, <2>7 DEF Reply, history, TypeOK
<1>10. CASE UNCHANGED vars
  BY <1>10 DEF vars, history, TypeOK, CopiesOK, KindOK
<1> QED BY <1>1, <1>2, <1>3, <1>4, <1>5, <1>6, <1>7, <1>8, <1>9, <1>10, Steps

(* Every variable keeps its type: no balance is overdrawn, also by an amount
   that wraps, and a record lies under the key of its deposit. *)
THEOREM TypeCorrect == Spec => []TypeOK
<1>1. TypeInv => TypeOK
  BY DEF TypeInv
<1> QED BY <1>1, TypeInit, TypeStep, PTL DEF Spec

-----------------------------------------------------------------------------
(* Swept means paid *)

OkPaid ==
  \A c \in Calls, f \in Filings :
    (calls[c].phase = "ok" /\ IsFirst(f, calls[c].todo)) => paid[f] > 0

SweptInv == TypeInv /\ OkPaid /\ SweptWasPaid

\* The first copy of a call is one deposit.
LEMMA FirstUnique ==
  ASSUME TypeInv, NEW c \in Calls, NEW f \in Filings, NEW e \in Filings,
         IsFirst(f, calls[c].todo), IsFirst(e, calls[c].todo)
  PROVE  f = e
<1>1. f.key \in Nat /\ e.key \in Nat
  BY ConstantsOK
<1>2. f \in calls[c].todo /\ e \in calls[c].todo /\ f.key = e.key
  BY <1>1 DEF IsFirst
<1> QED BY <1>2 DEF TypeInv, CopiesOK

LEMMA PaidGrows ==
  ASSUME TypeInv, [Next]_vars, NEW f \in Filings
  PROVE  paid[f] \in Nat /\ paid'[f] \in Nat /\ paid'[f] >= paid[f]
<1>1. paid[f] \in Nat
  BY DEF TypeInv, TypeOK
<1>2. CASE \E c \in Calls, e \in Filings : Transfer(c, e)
  BY <1>1, <1>2 DEF Transfer, TypeInv, TypeOK
<1>3. CASE UNCHANGED paid
  BY <1>1, <1>3
<1> QED
  BY <1>2, <1>3, Steps DEF vars, history, Arrive, Index, Starts, Start, SweepSubaccount,
     SetSweepFailed, ClearTransactions, Refuse, Reply

\* What a step does to a call, and what it must have been for that.
LEMMA CallSteps ==
  ASSUME TypeInv, [Next]_vars, NEW c \in Calls
  PROVE  \/ UNCHANGED calls[c]
         \/ calls[c] = NoCall /\ calls'[c].phase \in {"idle", "sent"}
                              /\ calls'[c].todo \subseteq Listings
         \/ \E f \in Filings : Transfer(c, f) /\ calls'[c] = [calls[c] EXCEPT !.phase = "ok"]
         \/ Refuse(c) /\ calls'[c] = [calls[c] EXCEPT !.phase = "err"]
         \/ \E f \in Filings : /\ Reply(c, f)
                                /\ calls'[c].phase \in {"idle", "sent"}
                                /\ calls'[c].todo \subseteq calls[c].todo \ {f}
<1> DEFINE Goal == \/ UNCHANGED calls[c]
                   \/ calls[c] = NoCall /\ calls'[c].phase \in {"idle", "sent"}
                                        /\ calls'[c].todo \subseteq Listings
                   \/ \E f \in Filings : Transfer(c, f) /\ calls'[c] = [calls[c] EXCEPT !.phase = "ok"]
                   \/ Refuse(c) /\ calls'[c] = [calls[c] EXCEPT !.phase = "err"]
                   \/ \E f \in Filings : /\ Reply(c, f)
                                          /\ calls'[c].phase \in {"idle", "sent"}
                                          /\ calls'[c].todo \subseteq calls[c].todo \ {f}
<1>1. calls \in [Calls -> Call]
  BY DEF TypeInv, TypeOK
<1>2. ASSUME UNCHANGED calls PROVE Goal
  BY <1>2
<1>3. ASSUME Starts PROVE Goal
  <2>1. PICK e \in Calls, kind \in Kinds, S \in SUBSET Listings :
          calls[e] = NoCall /\ Start(e, kind, S)
    BY <1>3 DEF Starts
  <2>2. S \subseteq Filings
    BY DEF Listings, TypeInv, TypeOK
  <2>3. Proceed(kind, S).phase \in {"idle", "sent"} /\ Proceed(kind, S).todo \subseteq S
    BY <2>2, ProceedIs
  <2>4. calls' = [calls EXCEPT ![e] = Proceed(kind, S)]
    BY <2>1 DEF Start
  <2> HIDE DEF Goal
  <2>5. CASE e = c
    BY <1>1, <2>1, <2>3, <2>4, <2>5 DEF Goal
  <2>6. CASE e # c
    BY <1>1, <2>4, <2>6 DEF Goal
  <2> QED BY <2>5, <2>6
<1>4. ASSUME NEW e \in Calls, NEW f \in Filings, Transfer(e, f) PROVE Goal
  <2>1. calls' = [calls EXCEPT ![e].phase = "ok"]
    BY <1>4 DEF Transfer
  <2>2. CASE e = c
    BY <1>1, <1>4, <2>1, <2>2
  <2>3. CASE e # c
    BY <1>1, <2>1, <2>3
  <2> QED BY <2>2, <2>3
<1>5. ASSUME NEW e \in Calls, Refuse(e) PROVE Goal
  <2>1. calls' = [calls EXCEPT ![e].phase = "err"]
    BY <1>5 DEF Refuse
  <2>2. CASE e = c
    BY <1>1, <1>5, <2>1, <2>2
  <2>3. CASE e # c
    BY <1>1, <2>1, <2>3
  <2> QED BY <2>2, <2>3
<1>6. ASSUME NEW e \in Calls, NEW f \in Filings, Reply(e, f) PROVE Goal
  <2> DEFINE S == calls[e].todo \ {f}
  <2>1. calls[e].kind \in Kinds /\ S \subseteq Filings
    BY <1>6 DEF Reply, IsFirst, TypeInv, TypeOK, KindOK, Call
  <2>2. Proceed(calls[e].kind, S).phase \in {"idle", "sent"}
        /\ Proceed(calls[e].kind, S).todo \subseteq S
    BY <2>1, ProceedIs
  <2>3. calls' = [calls EXCEPT ![e] = Proceed(calls[e].kind, S)]
    BY <1>6 DEF Reply, Remaining
  <2>4. CASE e = c
    BY <1>1, <1>6, <2>2, <2>3, <2>4
  <2>5. CASE e # c
    BY <1>1, <2>3, <2>5
  <2> QED BY <2>4, <2>5
<1>7. \/ UNCHANGED calls \/ Starts
      \/ \E e \in Calls : Refuse(e)
      \/ \E e \in Calls, f \in Filings : Transfer(e, f)
      \/ \E e \in Calls, f \in Filings : Reply(e, f)
  BY Steps DEF vars, history, Arrive, Index, SweepSubaccount, SetSweepFailed, ClearTransactions
<1> HIDE DEF Goal
<1>8. Goal
  BY <1>2, <1>3, <1>4, <1>5, <1>6, <1>7
<1> QED BY <1>8 DEF Goal

LEMMA OkPaidStep ==
  ASSUME TypeInv, OkPaid, [Next]_vars
  PROVE  OkPaid'
<1>1. ASSUME NEW c \in Calls, NEW f \in Filings,
             calls'[c].phase = "ok", IsFirst(f, calls'[c].todo)
      PROVE  paid'[f] > 0
  <2>1. paid[f] \in Nat /\ paid'[f] \in Nat /\ paid'[f] >= paid[f]
    BY PaidGrows
  <2>2. CASE UNCHANGED calls[c]
    <3>1. paid[f] > 0
      BY <1>1, <2>2 DEF OkPaid
    <3> QED BY <2>1, <3>1
  <2>3. ASSUME NEW e \in Filings, Transfer(c, e), calls'[c] = [calls[c] EXCEPT !.phase = "ok"]
        PROVE  paid'[f] > 0
    <3>1. calls'[c].todo = calls[c].todo
      BY <2>3 DEF TypeInv, TypeOK, Call
    <3>2. f = e
      BY <1>1, <2>3, <3>1, FirstUnique DEF Transfer
    <3>3. paid'[f] = paid[f] + 1
      BY <2>3, <3>2 DEF Transfer, TypeInv, TypeOK
    <3> QED BY <2>1, <3>3
  <2>4. CASE calls'[c].phase \in {"idle", "sent"}
    BY <1>1, <2>4
  <2>5. CASE calls'[c] = [calls[c] EXCEPT !.phase = "err"]
    BY <1>1, <2>5 DEF TypeInv, TypeOK, Call
  <2> QED BY <2>2, <2>3, <2>4, <2>5, CallSteps
<1> QED BY <1>1 DEF OkPaid, IsFirst

LEMMA SweptStep == SweptInv /\ [Next]_vars => SweptInv'
<1> SUFFICES ASSUME SweptInv, [Next]_vars PROVE SweptInv'
  OBVIOUS
<1>1. TypeInv /\ TypeInv' /\ OkPaid /\ OkPaid'
  BY TypeStep, OkPaidStep DEF SweptInv
<1>2. ASSUME NEW k \in DOMAIN txs', txs'[k].status = "Swept" PROVE paid'[txs'[k].filing] > 0
  <2>1. ASSUME k \in DOMAIN txs, txs'[k] = txs[k] PROVE paid'[txs'[k].filing] > 0
    <3>1. txs[k].filing \in Filings /\ paid[txs[k].filing] > 0
      BY <1>1, <1>2, <2>1 DEF SweptInv, SweptWasPaid, TypeInv, TypeOK
    <3> QED BY <1>1, <2>1, <3>1, PaidGrows
  <2>2. ASSUME NEW c \in Calls, NEW f \in Filings, Reply(c, f) PROVE paid'[txs'[k].filing] > 0
    <3>1. CASE txs' = Recorded(f, Outcome(calls[c].phase)) /\ k = f.key
      <4>1. txs'[k].filing = f /\ calls[c].phase = "ok"
        BY <1>2, <3>1 DEF Recorded, Outcome
      <4>2. paid[f] > 0
        BY <1>1, <2>2, <4>1 DEF Reply, OkPaid
      <4> QED BY <1>1, <4>1, <4>2, PaidGrows
    <3>2. CASE txs' = txs \/ k # f.key
      <4>1. k \in DOMAIN txs /\ txs'[k] = txs[k]
        BY <2>2, <3>2 DEF Reply, Recorded
      <4> QED BY <2>1, <4>1
    <3> QED BY <2>2, <3>1, <3>2 DEF Reply
  <2>3. ASSUME NEW f \in Filings, Index(f) PROVE paid'[txs'[k].filing] > 0
    <3>1. k # f.key
      BY <1>2, <2>3 DEF Index, Recorded
    <3> QED BY <2>1, <2>3, <3>1 DEF Index, Recorded
  <2>4. ASSUME NEW h, SetSweepFailed(h) PROVE paid'[txs'[k].filing] > 0
    <3>1. k \in DOMAIN txs /\ (txs'[k] = [txs[k] EXCEPT !.status = "FailedToSweep"]
                               \/ txs'[k] = txs[k])
      BY <2>4 DEF SetSweepFailed
    <3>2. CASE txs'[k] = [txs[k] EXCEPT !.status = "FailedToSweep"]
      BY <1>2, <3>2
    <3> QED BY <2>1, <3>1, <3>2
  <2>5. ASSUME NEW gone, ClearTransactions(gone) PROVE paid'[txs'[k].filing] > 0
    BY <2>1, <2>5 DEF ClearTransactions
  <2>6. CASE UNCHANGED txs
    BY <2>1, <2>6
  <2> QED BY <2>2, <2>3, <2>4, <2>5, <2>6, Steps DEF vars, history, Arrive, Starts, Start,
          SweepSubaccount, Refuse, Transfer
<1> QED BY <1>1, <1>2 DEF SweptInv, SweptWasPaid

(* A record says Swept only if a transfer was made for it, for any number of calls,
   overlapping in any way, with records cleared and found again. *)
THEOREM SweptIsPaid == Spec => []SweptWasPaid
<1>1. Init => SweptInv
  <2>1. Init => TypeInv /\ DOMAIN txs = {} /\ \A c \in Calls : calls[c] = NoCall
    BY TypeInit DEF Init
  <2> QED BY <2>1 DEF SweptInv, SweptWasPaid, OkPaid, NoCall
<1>2. SweptInv => SweptWasPaid
  BY DEF SweptInv
<1> QED BY <1>1, <1>2, SweptStep, PTL DEF Spec

-----------------------------------------------------------------------------
(* Keys that are never cleared *)

\* The record that a copy was taken from is still there.
CopiesCurrent ==
  \A c \in Calls : \A f \in calls[c].todo : f.key \notin cleared => IsRecorded(f)

PaidIsRecorded ==
  \A f \in Filings : (paid[f] > 0 /\ f.key \notin cleared) => IsRecorded(f)

StayInv == TypeInv /\ CopiesCurrent /\ PaidIsRecorded /\ UnsweptUnpaid

LEMMA ClearedGrows == [Next]_vars => cleared \subseteq cleared'
BY Steps DEF vars, history, Arrive, Index, Starts, Start, SweepSubaccount,
   SetSweepFailed, ClearTransactions, Refuse, Transfer, Reply

-----------------------------------------------------------------------------
(* Records stay *)

LEMMA RecordsKept ==
  ASSUME TypeInv, CopiesCurrent, [Next]_vars, NEW k \in DOMAIN txs, k \notin cleared'
  PROVE  k \in DOMAIN txs' /\ txs'[k].filing = txs[k].filing
<1>1. CASE UNCHANGED txs
  BY <1>1
<1>2. ASSUME NEW f \in Filings, Index(f)
      PROVE  k \in DOMAIN txs' /\ txs'[k].filing = txs[k].filing
  BY <1>2 DEF Index, FreeKey, Recorded
<1>3. ASSUME NEW c \in Calls, NEW f \in Filings, Reply(c, f)
      PROVE  k \in DOMAIN txs' /\ txs'[k].filing = txs[k].filing
  <2>1. k = f.key => txs[k].filing = f
    BY <1>3, ClearedGrows DEF CopiesCurrent, IsRecorded, Reply, IsFirst
  <2>2. txs' = txs \/ txs' = Recorded(f, Outcome(calls[c].phase))
    BY <1>3 DEF Reply
  <2> QED BY <2>1, <2>2 DEF Recorded
<1>4. ASSUME NEW h, SetSweepFailed(h)
      PROVE  k \in DOMAIN txs' /\ txs'[k].filing = txs[k].filing
  <2>1. k \in DOMAIN txs' /\ txs'[k] = IF txs[k].filing.hash = h
          THEN [txs[k] EXCEPT !.status = "FailedToSweep"] ELSE txs[k]
    BY <1>4 DEF SetSweepFailed
  <2> QED BY <2>1
<1>5. ASSUME NEW gone, ClearTransactions(gone)
      PROVE  k \in DOMAIN txs' /\ txs'[k].filing = txs[k].filing
  BY <1>5 DEF ClearTransactions
<1> QED BY <1>1, <1>2, <1>3, <1>4, <1>5, Steps DEF vars, Arrive, Starts, Start,
        SweepSubaccount, Refuse, Transfer

\* No step makes a record NotSwept, but for a new one.
LEMMA UnsweptBefore ==
  ASSUME [Next]_vars, NEW k \in DOMAIN txs, k \in DOMAIN txs', txs'[k].status = "NotSwept"
  PROVE  txs'[k] = txs[k]
<1>1. CASE UNCHANGED txs
  BY <1>1
<1>2. ASSUME NEW f \in Filings, Index(f) PROVE txs'[k] = txs[k]
  BY <1>2 DEF Index, FreeKey, Recorded
<1>3. ASSUME NEW c \in Calls, NEW f \in Filings, Reply(c, f) PROVE txs'[k] = txs[k]
  <2>1. txs' = txs \/ txs' = Recorded(f, Outcome(calls[c].phase))
    BY <1>3 DEF Reply
  <2>2. Outcome(calls[c].phase) # "NotSwept"
    BY DEF Outcome
  <2> QED BY <2>1, <2>2 DEF Recorded
<1>4. ASSUME NEW h, SetSweepFailed(h) PROVE txs'[k] = txs[k]
  <2>1. txs'[k] = IF txs[k].filing.hash = h
          THEN [txs[k] EXCEPT !.status = "FailedToSweep"] ELSE txs[k]
    BY <1>4 DEF SetSweepFailed
  <2>2. CASE txs'[k] = [txs[k] EXCEPT !.status = "FailedToSweep"]
    <3>1. "status" \in DOMAIN txs[k] => txs'[k].status = "FailedToSweep"
      BY <2>2
    <3>2. "status" \notin DOMAIN txs[k] => txs'[k] = txs[k]
      BY <2>2
    <3> QED BY <3>1, <3>2
  <2> QED BY <2>1, <2>2
<1>5. ASSUME NEW gone, ClearTransactions(gone) PROVE txs'[k] = txs[k]
  BY <1>5 DEF ClearTransactions
<1> QED BY <1>1, <1>2, <1>3, <1>4, <1>5, Steps DEF vars, Arrive, Starts, Start,
        SweepSubaccount, Refuse, Transfer

LEMMA RecordedStable ==
  ASSUME TypeInv, CopiesCurrent, [Next]_vars, NEW f, IsRecorded(f), f.key \notin cleared'
  PROVE  IsRecorded(f)'
BY RecordsKept DEF IsRecorded

LEMMA CopiesStep ==
  ASSUME TypeInv, CopiesCurrent, [Next]_vars
  PROVE  CopiesCurrent'
<1>1. ASSUME NEW c \in Calls, NEW f \in calls'[c].todo, f.key \notin cleared'
      PROVE  IsRecorded(f)
  <2>1. CASE f \in calls[c].todo
    BY <1>1, <2>1, ClearedGrows DEF CopiesCurrent
  <2>2. CASE f \in Listings
    BY <2>2 DEF Listings, IsRecorded, TypeInv, TypeOK
  <2>3. f \in calls[c].todo \/ f \in Listings
    <3>1. calls[c] \in Call
      BY DEF TypeInv, TypeOK
    <3>2. CASE calls'[c] = [calls[c] EXCEPT !.phase = "ok"]
               \/ calls'[c] = [calls[c] EXCEPT !.phase = "err"]
      BY <3>1, <3>2 DEF Call
    <3>3. CASE calls'[c].todo \subseteq Listings
      BY <3>3
    <3>4. CASE \E e \in Filings : calls'[c].todo \subseteq calls[c].todo \ {e}
      BY <3>4
    <3>5. CASE UNCHANGED calls[c]
      BY <3>5
    <3> QED BY <3>2, <3>3, <3>4, <3>5, CallSteps
  <2> QED BY <2>1, <2>2, <2>3
<1>2. ASSUME NEW c \in Calls, NEW f \in calls'[c].todo, f.key \notin cleared'
      PROVE  IsRecorded(f)'
  BY <1>1, <1>2, RecordedStable
<1> QED BY <1>2 DEF CopiesCurrent

LEMMA CopiesInit == Init => TypeInv /\ CopiesCurrent
<1>1. Init => TypeInv /\ \A c \in Calls : calls[c] = NoCall
  BY TypeInit DEF Init
<1> QED BY <1>1 DEF CopiesCurrent, NoCall

(* A key that is never cleared keeps its record, and what was swept or failed
   stays so or changes from one to the other, for any number of calls of any
   kind that overlap in any way. *)
THEOREM RecordsKeepDeposits == Spec => RecordsStay
<1>1. TypeInv /\ CopiesCurrent /\ [Next]_vars => (TypeInv /\ CopiesCurrent)'
  BY TypeStep, CopiesStep
<1>2. TypeInv /\ CopiesCurrent /\ [Next]_vars =>
        [\A k \in DOMAIN txs \ cleared' :
           /\ k \in DOMAIN txs' /\ txs'[k].filing = txs[k].filing
           /\ txs[k].status # "NotSwept" => txs'[k].status # "NotSwept"]_vars
  BY RecordsKept, UnsweptBefore
<1> QED BY <1>1, <1>2, CopiesInit, PTL DEF Spec, RecordsStay

-----------------------------------------------------------------------------
(* Unswept means unpaid *)

\* Who changes paid, and for what.
LEMMA PaidSteps ==
  ASSUME TypeInv, [Next]_vars, NEW f \in Filings, paid'[f] # paid[f]
  PROVE  /\ paid'[f] = paid[f] + 1
         /\ \E c \in Calls : /\ Transfer(c, f) /\ UNCHANGED txs
                             /\ calls'[c] = [calls[c] EXCEPT !.phase = "ok"]
<1>1. \E c \in Calls, e \in Filings : Transfer(c, e)
  BY Steps DEF vars, history, Arrive, Index, Starts, Start, SweepSubaccount,
     SetSweepFailed, ClearTransactions, Refuse, Reply
<1>2. PICK c \in Calls, e \in Filings : Transfer(c, e)
  BY <1>1
<1>3. paid' = [paid EXCEPT ![e] = paid[e] + 1] /\ UNCHANGED txs
  BY <1>2 DEF Transfer
<1>4. e = f /\ paid'[f] = paid[f] + 1
  BY <1>3 DEF TypeInv, TypeOK
<1>5. calls' = [calls EXCEPT ![c].phase = "ok"]
  BY <1>2 DEF Transfer
<1>6. calls'[c] = [calls[c] EXCEPT !.phase = "ok"]
  BY <1>5 DEF TypeInv, TypeOK
<1> QED BY <1>2, <1>3, <1>4, <1>6

LEMMA PaidIsRecordedStep ==
  ASSUME TypeInv, CopiesCurrent, PaidIsRecorded, [Next]_vars
  PROVE  PaidIsRecorded'
<1>1. ASSUME NEW f \in Filings, paid'[f] > 0, f.key \notin cleared' PROVE IsRecorded(f)
  <2> f.key \notin cleared
    BY <1>1, ClearedGrows
  <2>1. CASE paid'[f] = paid[f]
    BY <1>1, <2>1 DEF PaidIsRecorded
  <2>2. CASE paid'[f] # paid[f]
    BY <2>2, PaidSteps DEF Transfer, IsFirst, CopiesCurrent
  <2> QED BY <2>1, <2>2
<1>2. ASSUME NEW f \in Filings, paid'[f] > 0, f.key \notin cleared' PROVE IsRecorded(f)'
  BY <1>1, <1>2, RecordedStable
<1> QED BY <1>2 DEF PaidIsRecorded, IsRecorded

\* An answer that is on its way stays so, unless this step is its arrival.
LEMMA UnreportedSteps ==
  ASSUME TypeInv, [Next]_vars, NEW f \in Filings, Unreported(f)
  PROVE  \/ Unreported(f)'
         \/ \E c \in Calls : calls[c].phase = "ok" /\ Reply(c, f)
<1>1. PICK c \in Calls : calls[c].phase = "ok" /\ IsFirst(f, calls[c].todo)
  BY DEF Unreported
<1>2. CASE UNCHANGED calls[c]
  BY <1>1, <1>2 DEF Unreported, IsFirst
<1>3. ASSUME NEW e \in Filings, Reply(c, e) PROVE Reply(c, f)
  <2>1. e = f
    BY <1>1, <1>3, FirstUnique DEF Reply
  <2> QED BY <1>3, <2>1
<1>4. calls[c] # NoCall /\ ~ Refuse(c) /\ \A e \in Filings : ~ Transfer(c, e)
  BY <1>1 DEF NoCall, Refuse, Transfer
<1> QED BY <1>1, <1>2, <1>3, <1>4, CallSteps

LEMMA UnsweptStep ==
  ASSUME StayInv, [Next]_vars
  PROVE  UnsweptUnpaid'
<1>1. TypeInv /\ TypeInv' /\ CopiesCurrent /\ PaidIsRecorded
  BY TypeStep DEF StayInv
<1>2. ASSUME NEW k \in DOMAIN txs', k \notin cleared', NEW f, f = txs'[k].filing,
             txs'[k].status = "NotSwept", paid'[f] > 0
      PROVE  Unreported(f)'
  <2>1. f \in Filings /\ f.key = k /\ k \notin cleared
    BY <1>1, <1>2, ClearedGrows DEF TypeInv, TypeOK
  <2>2. CASE paid'[f] # paid[f]
    <3>1. PICK c \in Calls : Transfer(c, f) /\ calls'[c] = [calls[c] EXCEPT !.phase = "ok"]
      BY <1>1, <2>1, <2>2, PaidSteps
    <3>2. calls'[c].phase = "ok" /\ calls'[c].todo = calls[c].todo
      BY <1>1, <3>1 DEF TypeInv, TypeOK, Call
    <3> QED BY <3>1, <3>2 DEF Transfer, Unreported, IsFirst
  <2>3. CASE paid'[f] = paid[f]
    <3>1. k \in DOMAIN txs /\ txs[k].filing = f
      BY <1>1, <1>2, <2>1, <2>3 DEF PaidIsRecorded, IsRecorded
    <3>2. txs'[k] = txs[k]
      BY <1>2, <3>1, UnsweptBefore
    <3>3. Unreported(f)
      BY <1>2, <2>1, <2>3, <3>1, <3>2 DEF StayInv, UnsweptUnpaid
    <3>4. ASSUME NEW c \in Calls, calls[c].phase = "ok", Reply(c, f) PROVE FALSE
      BY <1>2, <2>1, <3>4 DEF Reply, Recorded, Outcome
    <3> QED BY <1>1, <2>1, <3>3, <3>4, UnreportedSteps
  <2> QED BY <2>2, <2>3
<1> QED BY <1>2 DEF UnsweptUnpaid, Unreported, IsFirst

LEMMA StayStep ==
  ASSUME StayInv, [Next]_vars
  PROVE  StayInv'
<1>1. TypeInv' /\ CopiesCurrent' /\ PaidIsRecorded'
  BY TypeStep, CopiesStep, PaidIsRecordedStep DEF StayInv
<1> QED BY <1>1, UnsweptStep DEF StayInv

LEMMA StayInit == Init => StayInv
<1>1. Init => DOMAIN txs = {} /\ \A f \in Filings : paid[f] = 0
  BY DEF Init
<1> QED BY <1>1, CopiesInit DEF StayInv, PaidIsRecorded, UnsweptUnpaid

(* A record that says NotSwept, and whose key was never cleared, was not paid,
   but for an answer on its way, for any number of calls of any kind that
   overlap in any way.  A deposit with two records has two of them to be paid. *)
THEOREM UnsweptIsUnpaid == Spec => []UnsweptUnpaid
<1>1. StayInv /\ [Next]_vars => StayInv'
  BY StayStep
<1>2. StayInv => UnsweptUnpaid
  BY DEF StayInv
<1> QED BY <1>1, <1>2, StayInit, PTL DEF Spec
===============================================================================
