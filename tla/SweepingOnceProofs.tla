-------------------------- MODULE SweepingOnceProofs --------------------------
(***************************************************************************)
(* What Sweeping guarantees when the custodian uses only sweep and         *)
(* sweep_by_token_type, one at a time, and clear_transactions.             *)
(***************************************************************************)
EXTENDS SweepingProofs, CollectionLemmas

OneSweepAtATime ==
  /\ Commands \subseteq {"sweep", "sweep_by_token_type", "clear_transactions"}
  /\ \A c, e \in Calls : c = e

\* What a sweep still has to do is unswept, unless its key was cleared.
CopiesUnswept ==
  \A c \in Calls : \A f \in calls[c].todo : f.key \notin cleared => IsNotSwept(txs[f.key])

OnceInv == StayInv /\ CopiesUnswept /\ PaidOnce

Unswept == {txs[k].filing : k \in {j \in DOMAIN txs : IsNotSwept(txs[j])}}

LEMMA OnceSteps ==
  ASSUME OneSweepAtATime, Next
  PROVE  \/ \E d \in Deposits : Arrive(d)
         \/ \E f \in Filings : Index(f)
         \/ \E c \in Calls, S \in SUBSET Unswept : calls[c] = NoCall /\ Start(c, "sweep", S)
         \/ \E gone \in SUBSET DOMAIN txs : ClearTransactions(gone)
         \/ \E c \in Calls : Refuse(c)
         \/ \E c \in Calls, f \in Filings : Transfer(c, f)
         \/ \E c \in Calls, f \in Filings : Reply(c, f)
<1>1. ASSUME NEW c \in Calls, Sweep(c) \/ \E t \in Tokens : SweepByTokenType(c, t)
      PROVE  \E S \in SUBSET Unswept : calls[c] = NoCall /\ Start(c, "sweep", S)
  <2>1. CASE Sweep(c)
    BY <2>1 DEF Sweep, MayStart, LastOf, Listed, Unswept
  <2>2. CASE \E t \in Tokens : SweepByTokenType(c, t)
    BY <2>2 DEF SweepByTokenType, MayStart, LastOf, Listed, Unswept
  <2> QED BY <1>1, <2>1, <2>2
<1>2. \A c \in Calls : (\A h : ~ SingleSweep(c, h)) /\ (\A k : ~ Refund(c, k))
  BY DEF OneSweepAtATime, SingleSweep, Refund, MayStart
<1>3. /\ \A t, s, amount : ~ SweepSubaccount(t, s, amount)
      /\ \A h : ~ SetSweepFailed(h)
  BY DEF OneSweepAtATime, SweepSubaccount, SetSweepFailed
<1>4. Custodian =>
        \/ \E c \in Calls, S \in SUBSET Unswept : calls[c] = NoCall /\ Start(c, "sweep", S)
        \/ \E gone \in SUBSET DOMAIN txs : ClearTransactions(gone)
  BY <1>1, <1>2, <1>3 DEF Custodian
<1> QED BY <1>4 DEF Next, Indexer, Answer, Continue

LEMMA CopiesUnsweptStep ==
  ASSUME OneSweepAtATime, OnceInv, [Next]_vars
  PROVE  CopiesUnswept'
<1>1. TypeInv /\ CopiesCurrent /\ calls \in [Calls -> Call]
  BY DEF OnceInv, StayInv, TypeInv, TypeOK
<1>2. ASSUME NEW c \in Calls, NEW f \in calls'[c].todo, f.key \notin cleared'
      PROVE  IsNotSwept(txs[f.key])'
  <2> f.key \notin cleared
    BY <1>2, ClearedGrows
  <2>1. ASSUME f \in calls[c].todo, txs'[f.key] = txs[f.key] PROVE IsNotSwept(txs[f.key])'
    BY <2>1 DEF OnceInv, CopiesUnswept, IsNotSwept
  <2>2. f \in calls[c].todo => f.key \in DOMAIN txs
    BY <1>1 DEF CopiesCurrent, IsRecorded
  <2>3. ASSUME NEW e \in Filings, Index(e) PROVE IsNotSwept(txs[f.key])'
    <3>1. f \in calls[c].todo
      BY <2>3 DEF Index
    <3>2. txs'[f.key] = txs[f.key]
      BY <2>2, <2>3, <3>1 DEF Index, FreeKey, Recorded
    <3> QED BY <2>1, <3>1, <3>2
  <2>4. ASSUME NEW b \in Calls, NEW S \in SUBSET Unswept, Start(b, "sweep", S)
        PROVE  IsNotSwept(txs[f.key])'
    <3>1. txs' = txs /\ b = c
      BY <2>4 DEF Start, OneSweepAtATime
    <3>2. calls'[c] = Proceed("sweep", S)
      BY <1>1, <2>4, <3>1 DEF Start
    <3>3. f \in Unswept
      BY <3>2 DEF Proceed, NoCall
    <3>4. IsNotSwept(txs[f.key])
      BY <1>1, <3>3 DEF Unswept, TypeInv, TypeOK
    <3> QED BY <3>1, <3>4 DEF IsNotSwept
  <2>5. ASSUME NEW gone, ClearTransactions(gone) PROVE IsNotSwept(txs[f.key])'
    <3>1. f \in calls[c].todo /\ f.key \notin gone
      BY <1>2, <2>5 DEF ClearTransactions
    <3>2. txs'[f.key] = txs[f.key]
      BY <2>2, <2>5, <3>1 DEF ClearTransactions
    <3> QED BY <2>1, <3>1, <3>2
  <2>6. ASSUME NEW b \in Calls, NEW e \in Filings, Reply(b, e)
        PROVE  IsNotSwept(txs[f.key])'
    <3>1. b = c
      BY DEF OneSweepAtATime
    <3>2. calls'[c] = Proceed(calls[c].kind, Remaining(calls[c].todo, e))
      BY <1>1, <2>6, <3>1 DEF Reply
    <3>3. f \in calls[c].todo /\ f # e /\ e \in calls[c].todo
      BY <2>6, <3>1, <3>2 DEF Proceed, NoCall, Remaining, Reply, IsFirst
    <3>4. f.key # e.key
      BY <1>1, <3>3 DEF TypeInv, CopiesOK
    <3>5. txs'[f.key] = txs[f.key]
      BY <2>2, <2>6, <3>3, <3>4 DEF Reply, Recorded
    <3> QED BY <2>1, <3>3, <3>5
  <2>7. ASSUME NEW b \in Calls, Refuse(b) \/ \E e \in Filings : Transfer(b, e)
        PROVE  IsNotSwept(txs[f.key])'
    <3>1. b = c
      BY DEF OneSweepAtATime
    <3>2. txs' = txs /\ \E phase : calls' = [calls EXCEPT ![c].phase = phase]
      BY <2>7, <3>1 DEF Refuse, Transfer
    <3>3. f \in calls[c].todo
      BY <1>1, <3>2 DEF Call
    <3> QED BY <2>1, <3>2, <3>3
  <2>8. CASE UNCHANGED <<txs, calls>>
    BY <2>1, <2>8
  <2> QED BY <2>3, <2>4, <2>5, <2>6, <2>7, <2>8, OnceSteps DEF vars, Arrive
<1> QED BY <1>2 DEF CopiesUnswept, IsNotSwept

\* The transfer that a sweep asks for has not been made before, and an answer
\* that says no is about a record that was not paid.
LEMMA AtLedgerUnpaid ==
  ASSUME OneSweepAtATime, OnceInv, NEW c \in Calls, NEW f \in Filings, f.key \notin cleared,
         calls[c].phase # "ok", IsFirst(f, calls[c].todo)
  PROVE  paid[f] = 0 /\ IsRecorded(f) /\ IsNotSwept(txs[f.key])
<1>1. f \in calls[c].todo
  BY DEF IsFirst
<1>2. IsRecorded(f) /\ IsNotSwept(txs[f.key])
  BY <1>1 DEF OnceInv, StayInv, CopiesCurrent, CopiesUnswept
<1>3. ~ Unreported(f)
  BY DEF Unreported, OneSweepAtATime
<1>4. ~ (paid[f] > 0)
  BY <1>2, <1>3 DEF OnceInv, StayInv, UnsweptUnpaid, IsRecorded, IsNotSwept
<1>5. paid[f] \in Nat
  BY DEF OnceInv, StayInv, TypeInv, TypeOK
<1> QED BY <1>2, <1>4, <1>5

LEMMA PaidOnceStep ==
  ASSUME OneSweepAtATime, OnceInv, [Next]_vars
  PROVE  PaidOnce'
<1>1. /\ TypeInv /\ CopiesCurrent /\ PaidIsRecorded'
      /\ \A f \in Filings : paid[f] \in Nat
  BY PaidIsRecordedStep DEF OnceInv, StayInv, TypeInv, TypeOK
<1> SUFFICES ASSUME NEW f \in Filings, f.key \notin cleared'
             PROVE  /\ paid'[f] <= 1
                    /\ paid'[f] > 0 => txs'[f.key].status # "FailedToSweep"
  BY <1>1 DEF PaidOnce, PaidIsRecorded, IsRecorded
<1>2. f.key \notin cleared
  BY ClearedGrows
<1>3. CASE paid'[f] # paid[f]
  <2>1. PICK c \in Calls : Transfer(c, f) /\ UNCHANGED txs /\ paid'[f] = paid[f] + 1
    BY <1>1, <1>3, PaidSteps
  <2>2. paid[f] = 0 /\ IsNotSwept(txs[f.key])
    BY <1>2, <2>1, AtLedgerUnpaid DEF Transfer
  <2> QED BY <2>1, <2>2 DEF IsNotSwept
<1>4. CASE paid'[f] = paid[f]
  <2>1. paid'[f] <= 1
    BY <1>2, <1>4 DEF OnceInv, PaidOnce
  <2>2. ASSUME paid'[f] > 0 PROVE txs'[f.key].status # "FailedToSweep"
    <3>1. IsRecorded(f) /\ txs[f.key].status # "FailedToSweep"
      BY <1>2, <1>4, <2>2 DEF OnceInv, PaidOnce
    <3>2. ASSUME NEW e \in Filings, Index(e) PROVE txs'[f.key] = txs[f.key]
      BY <3>1, <3>2 DEF Index, FreeKey, Recorded, IsRecorded
    <3>3. ASSUME NEW gone, ClearTransactions(gone) PROVE txs'[f.key] = txs[f.key]
      BY <3>1, <3>3 DEF ClearTransactions, IsRecorded
    <3>4. ASSUME NEW c \in Calls, NEW e \in Filings, Reply(c, e)
          PROVE  txs'[f.key].status # "FailedToSweep"
      <4>1. CASE txs' = Recorded(e, Outcome(calls[c].phase)) /\ e.key = f.key
        <5>1. IsFirst(e, calls[c].todo) /\ e = f
          BY <1>1, <1>2, <3>1, <3>4, <4>1 DEF Reply, IsFirst, CopiesCurrent, IsRecorded
        <5>2. calls[c].phase = "ok"
          BY <1>2, <1>4, <2>2, <5>1, AtLedgerUnpaid
        <5>3. txs'[f.key].status = "Swept"
          BY <4>1, <5>2 DEF Recorded, Outcome
        <5> QED BY <5>3
      <4>2. CASE txs' = txs \/ e.key # f.key
        <5>1. txs'[f.key] = txs[f.key]
          BY <3>1, <3>4, <4>2 DEF Reply, Recorded, IsRecorded
        <5> QED BY <3>1, <5>1
      <4> QED BY <3>4, <4>1, <4>2 DEF Reply
    <3>5. CASE UNCHANGED txs
      BY <3>1, <3>5
    <3> QED BY <3>1, <3>2, <3>3, <3>4, <3>5, OnceSteps
            DEF vars, Arrive, Start, Refuse, Transfer
  <2> QED BY <2>1, <2>2
<1> QED BY <1>3, <1>4

LEMMA OnceInit == Init => OnceInv
<1>1. Init => /\ DOMAIN txs = {} /\ \A f \in Filings : paid[f] = 0
              /\ \A c \in Calls : calls[c] = NoCall
  BY DEF Init
<1> QED BY <1>1, StayInit DEF OnceInv, CopiesUnswept, PaidOnce, NoCall

LEMMA OnceStep ==
  ASSUME OneSweepAtATime, OnceInv, [Next]_vars
  PROVE  OnceInv'
BY StayStep, CopiesUnsweptStep, PaidOnceStep DEF OnceInv

(* With one sweep or sweep_by_token_type at a time every transfer is made for a
   record, no record is paid twice and none that was paid is reported as failed,
   unless its key was cleared: for any filings, a deposit under two keys among
   them, with refusals and records found at any moment. *)
THEOREM SweptOnce ==
  ASSUME OneSweepAtATime
  PROVE  Spec => []PaidOnce
<1>1. OnceInv /\ [Next]_vars => OnceInv'
  BY OnceStep
<1>2. OnceInv => PaidOnce
  BY DEF OnceInv
<1> QED BY <1>1, <1>2, OnceInit, PTL DEF Spec

-----------------------------------------------------------------------------
(* With one sweep at a time Sweeping implements Payout. *)

\* A single sweep asks for transfers only.
SweepsOnly == \A c \in Calls : calls[c].kind # "refund"

PayoutInv == OnceInv /\ SweepsOnly /\ OkPaid

\* The filing is recorded as failed, or will be with the answer on its way.
FailedSoFar(f) ==
  \/ IsRecorded(f) /\ txs[f.key].status = "FailedToSweep"
  \/ \E c \in Calls : calls[c].phase = "err" /\ IsFirst(f, calls[c].todo)

\* OutcomeOf without its double cases.
Becoming(f) ==
  IF f.key \in cleared THEN "cleared"
  ELSE IF paid[f] = 1 THEN "paid"
  ELSE IF FailedSoFar(f) THEN "failed"
  ELSE IF IsRecorded(f) THEN "owed" ELSE "none"

LEMMA OutcomeIs ==
  ASSUME NEW f \in Filings
  PROVE  /\ OnceInv => OutcomeOf(f) = Becoming(f)
         /\ OnceInv' => OutcomeOf(f)' = Becoming(f)'
<1>1. ASSUME OnceInv PROVE OutcomeOf(f) = Becoming(f)
  <2>1. f.key \notin cleared => paid[f] = 0 \/ paid[f] = 1
    <3>1. paid[f] \in Nat
      BY <1>1 DEF OnceInv, StayInv, TypeInv, TypeOK
    <3>2. f.key \notin cleared => paid[f] <= 1
      BY <1>1 DEF OnceInv, PaidOnce
    <3> QED BY <3>1, <3>2
  <2>2. \A s : Reported(f, s) <=> (IsRecorded(f) /\ txs[f.key].status = s)
    BY <1>1 DEF Reported, IsRecorded, OnceInv, StayInv, TypeInv, TypeOK
  <2>3. (\E k \in DOMAIN txs : txs[k].filing = f) <=> IsRecorded(f)
    BY <1>1 DEF IsRecorded, OnceInv, StayInv, TypeInv, TypeOK
  <2>4. FailedSoFar(f) <=> (Reported(f, "FailedToSweep") \/
          \E c \in Calls : calls[c].phase = "err" /\ IsFirst(f, calls[c].todo))
    BY <2>2 DEF FailedSoFar
  <2> QED BY <2>1, <2>3, <2>4 DEF OutcomeOf, Becoming
<1>2. ASSUME OnceInv' PROVE OutcomeOf(f)' = Becoming(f)'
  <2>1. f.key \notin cleared' => paid'[f] = 0 \/ paid'[f] = 1
    <3>1. paid'[f] \in Nat
      BY <1>2 DEF OnceInv, StayInv, TypeInv, TypeOK
    <3>2. f.key \notin cleared' => paid'[f] <= 1
      BY <1>2 DEF OnceInv, PaidOnce
    <3> QED BY <3>1, <3>2
  <2>2. \A s : Reported(f, s)' <=> (IsRecorded(f)' /\ txs'[f.key].status = s)
    BY <1>2 DEF Reported, IsRecorded, OnceInv, StayInv, TypeInv, TypeOK
  <2>3. (\E k \in DOMAIN txs' : txs'[k].filing = f) <=> IsRecorded(f)'
    BY <1>2 DEF IsRecorded, OnceInv, StayInv, TypeInv, TypeOK
  <2>4. FailedSoFar(f)' <=> (Reported(f, "FailedToSweep")' \/
          \E c \in Calls : calls'[c].phase = "err" /\ IsFirst(f, calls'[c].todo))
    BY <2>2 DEF FailedSoFar, IsFirst
  <2> QED BY <2>1, <2>3, <2>4 DEF OutcomeOf, Becoming, IsFirst
<1> QED BY <1>1, <1>2

-----------------------------------------------------------------------------
(* What a step does to the filings *)

LEMMA SweepsOnlyStep ==
  ASSUME OneSweepAtATime, PayoutInv, [Next]_vars
  PROVE  SweepsOnly'
<1>1. calls \in [Calls -> Call]
  BY DEF PayoutInv, OnceInv, StayInv, TypeInv, TypeOK
<1>2. ASSUME NEW b \in Calls, NEW S \in SUBSET Unswept, Start(b, "sweep", S)
      PROVE  SweepsOnly'
  <2>1. calls' = [calls EXCEPT ![b] = Proceed("sweep", S)] /\ Proceed("sweep", S).kind # "refund"
    BY <1>2 DEF Start, Proceed, NoCall
  <2> QED BY <1>1, <2>1 DEF SweepsOnly, PayoutInv
<1>3. ASSUME NEW b \in Calls, NEW f \in Filings, Reply(b, f) PROVE SweepsOnly'
  <2> DEFINE q == Proceed(calls[b].kind, Remaining(calls[b].todo, f))
  <2>1. q.kind # "refund"
    BY DEF PayoutInv, SweepsOnly, Proceed, NoCall
  <2>2. calls' = [calls EXCEPT ![b] = q]
    BY <1>3 DEF Reply
  <2> HIDE DEF q
  <2> QED BY <1>1, <2>1, <2>2 DEF SweepsOnly, PayoutInv
<1>4. ASSUME NEW b \in Calls, Refuse(b) \/ \E f \in Filings : Transfer(b, f)
      PROVE  SweepsOnly'
  <2>1. \E phase : calls' = [calls EXCEPT ![b].phase = phase]
    BY <1>4 DEF Refuse, Transfer
  <2> QED BY <1>1, <2>1 DEF SweepsOnly, PayoutInv, Call
<1>5. CASE UNCHANGED calls
  BY <1>5 DEF SweepsOnly, PayoutInv
<1> QED BY <1>2, <1>3, <1>4, <1>5, OnceSteps DEF vars, Arrive, Index, ClearTransactions

LEMMA PayoutInvStep ==
  ASSUME OneSweepAtATime, PayoutInv, [Next]_vars
  PROVE  PayoutInv'
BY OnceStep, SweepsOnlyStep, OkPaidStep DEF PayoutInv, OnceInv, StayInv

\* All outcomes but that of f stay, and that of f goes from one to another.
Turns(f, before, after) ==
  /\ Becoming(f) = before /\ Becoming(f)' = after
  /\ \A e \in Filings \ {f} : Becoming(e)' = Becoming(e)

AllStay == \A e \in Filings : Becoming(e)' = Becoming(e)

\* What is cleared stays so, so that the others need to be looked at only.
LEMMA ClearedStays ==
  ASSUME cleared' = cleared, NEW f, f.key \in cleared
  PROVE  Becoming(f)' = Becoming(f)
BY DEF Becoming

LEMMA IndexTurns ==
  ASSUME PayoutInv, NEW f \in Filings, Index(f)
  PROVE  AllStay \/ Turns(f, "none", "owed")
<1>1. /\ txs' = Recorded(f, "NotSwept") /\ f.key \notin DOMAIN txs
      /\ calls' = calls /\ paid' = paid /\ cleared' = cleared
  BY DEF Index, FreeKey, history
<1>2. ASSUME NEW e \in Filings, e # f
      PROVE  Becoming(e)' = Becoming(e)
  <2>1. IsRecorded(e)' = IsRecorded(e)
    BY <1>1, <1>2 DEF IsRecorded, Recorded
  <2>2. IsRecorded(e) => txs'[e.key] = txs[e.key]
    BY <1>1 DEF IsRecorded, Recorded
  <2>3. FailedSoFar(e)' = FailedSoFar(e)
    BY <1>1, <2>1, <2>2 DEF FailedSoFar, IsFirst
  <2> QED BY <1>1, <2>1, <2>3 DEF Becoming
<1>3. CASE f.key \in cleared
  BY <1>1, <1>2, <1>3, ClearedStays DEF AllStay
<1>4. CASE f.key \notin cleared
  <2>1. /\ paid[f] \in Nat /\ (paid[f] > 0 => IsRecorded(f))
        /\ \A c \in Calls : f \in calls[c].todo => IsRecorded(f)
    BY <1>4 DEF PayoutInv, OnceInv, StayInv, PaidIsRecorded, CopiesCurrent, TypeInv, TypeOK
  <2>2. ~ IsRecorded(f) /\ paid[f] = 0 /\ ~ FailedSoFar(f)
    BY <1>1, <2>1 DEF IsRecorded, FailedSoFar, IsFirst
  <2>3. IsRecorded(f)' /\ txs'[f.key].status = "NotSwept"
    BY <1>1 DEF IsRecorded, Recorded
  <2>4. ~ FailedSoFar(f)'
    BY <1>1, <2>2, <2>3 DEF FailedSoFar, IsFirst
  <2>5. Becoming(f) = "none"
    BY <1>4, <2>2 DEF Becoming
  <2>6. Becoming(f)' = "owed"
    BY <1>1, <1>4, <2>2, <2>3, <2>4 DEF Becoming
  <2> QED BY <1>2, <2>5, <2>6 DEF Turns
<1> QED BY <1>3, <1>4

\* The filing whose transfer is asked for is owed.
LEMMA AskedIsOwed ==
  ASSUME OneSweepAtATime, PayoutInv, NEW c \in Calls, NEW f \in Filings, f.key \notin cleared,
         calls[c].phase = "sent", IsFirst(f, calls[c].todo)
  PROVE  Becoming(f) = "owed" /\ IsRecorded(f) /\ paid[f] = 0
<1>1. IsRecorded(f) /\ txs[f.key].status = "NotSwept" /\ paid[f] = 0
  BY AtLedgerUnpaid DEF PayoutInv, IsNotSwept
<1>2. \A b \in Calls : b = c
  BY DEF OneSweepAtATime
<1>3. ~ FailedSoFar(f)
  BY <1>1, <1>2 DEF FailedSoFar
<1> QED BY <1>1, <1>3 DEF Becoming

LEMMA TransferTurns ==
  ASSUME OneSweepAtATime, PayoutInv, NEW c \in Calls, NEW f \in Filings, Transfer(c, f)
  PROVE  AllStay \/ Turns(f, "owed", "paid")
<1>1. /\ calls[c].phase = "sent" /\ IsFirst(f, calls[c].todo) /\ txs' = txs
      /\ calls' = [calls EXCEPT ![c].phase = "ok"] /\ paid' = [paid EXCEPT ![f] = paid[f] + 1]
      /\ cleared' = cleared
  BY DEF Transfer
<1>2. calls \in [Calls -> Call] /\ paid \in [Filings -> Nat]
  BY DEF PayoutInv, OnceInv, StayInv, TypeInv, TypeOK
<1>3. (\A b \in Calls : b = c) /\ calls'[c].phase = "ok"
  BY <1>1, <1>2 DEF OneSweepAtATime, Call
<1>4. ASSUME NEW e \in Filings, e # f PROVE Becoming(e)' = Becoming(e)
  <2>1. IsRecorded(e)' = IsRecorded(e) /\ paid'[e] = paid[e]
    BY <1>1, <1>2, <1>4 DEF IsRecorded
  <2>2. FailedSoFar(e)' = FailedSoFar(e)
    BY <1>1, <1>3, <2>1 DEF FailedSoFar, IsFirst
  <2> QED BY <1>1, <2>1, <2>2 DEF Becoming
<1>5. CASE f.key \in cleared
  BY <1>1, <1>4, <1>5, ClearedStays DEF AllStay
<1>6. CASE f.key \notin cleared
  <2>1. Becoming(f) = "owed" /\ paid[f] = 0
    BY <1>1, <1>6, AskedIsOwed
  <2>2. Becoming(f)' = "paid"
    BY <1>1, <1>2, <1>6, <2>1 DEF Becoming
  <2> QED BY <1>4, <2>1, <2>2 DEF Turns
<1> QED BY <1>5, <1>6

LEMMA RefuseTurns ==
  ASSUME OneSweepAtATime, PayoutInv, NEW c \in Calls, Refuse(c)
  PROVE  AllStay \/ \E f \in Filings : Turns(f, "owed", "failed")
<1>1. /\ calls[c].phase = "sent" /\ txs' = txs /\ paid' = paid /\ cleared' = cleared
      /\ calls' = [calls EXCEPT ![c].phase = "err"]
  BY DEF Refuse, history
<1>2. calls \in [Calls -> Call] /\ TypeInv
  BY DEF PayoutInv, OnceInv, StayInv, TypeInv, TypeOK
<1>3. calls'[c].phase = "err" /\ calls'[c].todo = calls[c].todo
  BY <1>1, <1>2 DEF Call
<1>4. \A b \in Calls : b = c
  BY DEF OneSweepAtATime
<1>5. \A e : IsRecorded(e)' = IsRecorded(e)
  BY <1>1 DEF IsRecorded
<1>6. ASSUME NEW e \in Filings, ~ IsFirst(e, calls[c].todo) \/ e.key \in cleared
      PROVE  Becoming(e)' = Becoming(e)
  <2>1. CASE ~ IsFirst(e, calls[c].todo)
    <3>1. FailedSoFar(e)' = FailedSoFar(e)
      BY <1>1, <1>3, <1>4, <1>5, <2>1 DEF FailedSoFar, IsFirst
    <3> QED BY <1>1, <1>5, <3>1 DEF Becoming
  <2>2. CASE e.key \in cleared
    BY <1>1, <2>2, ClearedStays
  <2> QED BY <1>6, <2>1, <2>2
<1>7. CASE \E f \in Filings : IsFirst(f, calls[c].todo) /\ f.key \notin cleared
  <2>1. PICK f \in Filings : IsFirst(f, calls[c].todo) /\ f.key \notin cleared
    BY <1>7
  <2>2. Becoming(f) = "owed" /\ paid[f] = 0
    BY <1>1, <2>1, AskedIsOwed
  <2>3. FailedSoFar(f)'
    BY <1>3, <2>1 DEF FailedSoFar, IsFirst
  <2>4. Becoming(f)' = "failed"
    BY <1>1, <2>1, <2>2, <2>3 DEF Becoming
  <2>5. \A e \in Filings \ {f} : ~ IsFirst(e, calls[c].todo)
    BY <1>2, <2>1, FirstUnique
  <2>6. Turns(f, "owed", "failed")
    BY <1>6, <2>2, <2>4, <2>5 DEF Turns
  <2> QED BY <2>6
<1> QED BY <1>6, <1>7 DEF AllStay

LEMMA ReplyStays ==
  ASSUME OneSweepAtATime, PayoutInv, NEW c \in Calls, NEW f \in Filings, Reply(c, f)
  PROVE  AllStay
<1> DEFINE q == Proceed(calls[c].kind, Remaining(calls[c].todo, f))
<1>1. /\ calls[c].phase \in {"ok", "err"} /\ IsFirst(f, calls[c].todo)
      /\ paid' = paid /\ cleared' = cleared
      /\ txs' = Recorded(f, Outcome(calls[c].phase)) /\ calls' = [calls EXCEPT ![c] = q]
  BY DEF Reply, PayoutInv, SweepsOnly, history
<1>2. q.phase # "err"
  BY DEF Proceed, NoCall
<1> HIDE DEF q
<1>3. calls \in [Calls -> Call] /\ TypeInv /\ CopiesCurrent /\ OnceInv
  BY DEF PayoutInv, OnceInv, StayInv, TypeInv, TypeOK
<1>4. \A b \in Calls : b = c
  BY DEF OneSweepAtATime
<1>5. \A b \in Calls : calls'[b].phase # "err"
  BY <1>1, <1>2, <1>3, <1>4
<1>6. ASSUME NEW e \in Filings, e # f, e.key \notin cleared PROVE Becoming(e)' = Becoming(e)
  <2>1. ~ IsFirst(e, calls[c].todo)
    BY <1>1, <1>3, <1>6, FirstUnique
  <2>2. CASE e.key = f.key
    <3>1. IsRecorded(f)
      BY <1>1, <1>3, <1>6, <2>2 DEF CopiesCurrent, IsFirst
    <3>2. ~ IsRecorded(e) /\ ~ IsRecorded(e)'
      BY <1>1, <1>6, <2>2, <3>1 DEF IsRecorded, Recorded
    <3>3. ~ FailedSoFar(e) /\ ~ FailedSoFar(e)'
      BY <1>4, <1>5, <2>1, <3>2 DEF FailedSoFar
    <3> QED BY <1>1, <3>2, <3>3 DEF Becoming
  <2>3. CASE e.key # f.key
    <3>1. IsRecorded(e)' = IsRecorded(e) /\ (IsRecorded(e) => txs'[e.key] = txs[e.key])
      BY <1>1, <2>3 DEF IsRecorded, Recorded
    <3>2. FailedSoFar(e)' = FailedSoFar(e)
      BY <1>4, <1>5, <2>1, <3>1 DEF FailedSoFar
    <3> QED BY <1>1, <3>1, <3>2 DEF Becoming
  <2> QED BY <2>2, <2>3
<1>7. ASSUME f.key \notin cleared PROVE Becoming(f)' = Becoming(f)
  <2>1. CASE calls[c].phase = "ok"
    <3>1. paid[f] > 0 /\ paid[f] <= 1 /\ paid[f] \in Nat
      BY <1>1, <1>3, <1>7, <2>1 DEF PayoutInv, OkPaid, OnceInv, PaidOnce, TypeInv, TypeOK
    <3>2. paid[f] = 1 /\ paid'[f] = 1
      BY <1>1, <3>1
    <3> QED BY <1>1, <1>7, <3>2 DEF Becoming
  <2>2. CASE calls[c].phase = "err"
    <3>1. paid[f] = 0 /\ paid'[f] = 0
      BY <1>1, <1>3, <1>7, <2>2, AtLedgerUnpaid
    <3>2. FailedSoFar(f)
      BY <1>1, <2>2 DEF FailedSoFar
    <3>3. FailedSoFar(f)'
      BY <1>1, <2>2 DEF FailedSoFar, IsRecorded, Recorded, Outcome
    <3> QED BY <1>1, <1>7, <3>1, <3>2, <3>3 DEF Becoming
  <2> QED BY <1>1, <2>1, <2>2
<1> QED BY <1>1, <1>6, <1>7, ClearedStays DEF AllStay

\* The steps that neither file nor pay a deposit: it arrives, a call starts,
\* nothing happens.
LEMMA OtherStays ==
  ASSUME PayoutInv,
         \/ \E d \in Deposits : Arrive(d)
         \/ \E c \in Calls, S \in SUBSET Unswept : calls[c] = NoCall /\ Start(c, "sweep", S)
         \/ UNCHANGED vars
  PROVE  AllStay
<1>1. calls \in [Calls -> Call]
  BY DEF PayoutInv, OnceInv, StayInv, TypeInv, TypeOK
<1>2. txs' = txs /\ paid' = paid /\ cleared' = cleared
  BY DEF Arrive, Start, vars, history
<1>3. ASSUME NEW e \in Filings PROVE FailedSoFar(e)' = FailedSoFar(e)
  <2>1. CASE calls' = calls
    BY <1>2, <2>1 DEF FailedSoFar, IsFirst, IsRecorded
  <2>2. ASSUME NEW c \in Calls, NEW S \in SUBSET Unswept, calls[c] = NoCall, Start(c, "sweep", S)
        PROVE  FailedSoFar(e)' = FailedSoFar(e)
    <3> DEFINE q == Proceed("sweep", S)
    <3>1. calls' = [calls EXCEPT ![c] = q] /\ q.phase # "err" /\ calls[c].phase # "err"
      BY <2>2 DEF Start, Proceed, NoCall
    <3> HIDE DEF q
    <3>2. \A b \in Calls : calls'[b] = calls[b] \/ (calls'[b].phase # "err" /\ calls[b].phase # "err")
      BY <1>1, <3>1
    <3> QED BY <1>2, <3>2 DEF FailedSoFar, IsFirst, IsRecorded
  <2> QED BY <2>1, <2>2 DEF Arrive, vars
<1>4. \A e : IsRecorded(e)' = IsRecorded(e)
  BY <1>2 DEF IsRecorded
<1> QED BY <1>2, <1>3, <1>4 DEF AllStay, Becoming

\* clear_transactions changes the outcomes of what it clears, and no other.
LEMMA ClearTurns ==
  ASSUME NEW gone, ClearTransactions(gone), NEW f \in Filings
  PROVE  Becoming(f)' = IF f.key \in gone THEN "cleared" ELSE Becoming(f)
<1>1. /\ txs' = [k \in DOMAIN txs \ gone |-> txs[k]] /\ cleared' = cleared \cup gone
      /\ calls' = calls /\ paid' = paid
  BY DEF ClearTransactions
<1>2. CASE f.key \in gone
  BY <1>1, <1>2 DEF Becoming
<1>3. CASE f.key \notin gone
  <2>1. IsRecorded(f)' = IsRecorded(f) /\ (IsRecorded(f) => txs'[f.key] = txs[f.key])
    BY <1>1, <1>3 DEF IsRecorded
  <2>2. FailedSoFar(f)' = FailedSoFar(f)
    BY <1>1, <2>1 DEF FailedSoFar, IsFirst
  <2> QED BY <1>1, <1>3, <2>1, <2>2 DEF Becoming
<1> QED BY <1>2, <1>3

-----------------------------------------------------------------------------
(* The refinement *)

LEMMA TurnSteps ==
  ASSUME OneSweepAtATime, PayoutInv, [Next]_vars
  PROVE  \/ AllStay
         \/ \E f \in Filings : \/ Turns(f, "none", "owed")
                               \/ Turns(f, "owed", "paid")
                               \/ Turns(f, "owed", "failed")
         \/ \E gone \in SUBSET DOMAIN txs : ClearTransactions(gone)
<1>1. ASSUME NEW f \in Filings, Index(f) PROVE AllStay \/ Turns(f, "none", "owed")
  BY <1>1, IndexTurns
<1>2. ASSUME NEW c \in Calls, NEW f \in Filings, Transfer(c, f)
      PROVE  AllStay \/ Turns(f, "owed", "paid")
  BY <1>2, TransferTurns
<1>3. ASSUME NEW c \in Calls, Refuse(c)
      PROVE  AllStay \/ \E f \in Filings : Turns(f, "owed", "failed")
  BY <1>3, RefuseTurns
<1>4. ASSUME NEW c \in Calls, NEW f \in Filings, Reply(c, f) PROVE AllStay
  BY <1>4, ReplyStays
<1> QED BY <1>1, <1>2, <1>3, <1>4, OtherStays, OnceSteps

Outcomes == [f \in Filings |-> OutcomeOf(f)]

LEMMA StepRefines ==
  ASSUME OneSweepAtATime, PayoutInv, [Next]_vars
  PROVE  [P!Next]_Outcomes
<1>1. OnceInv /\ OnceInv'
  BY PayoutInvStep DEF PayoutInv
<1>2. \A f \in Filings : OutcomeOf(f) = Becoming(f)
  BY <1>1, OutcomeIs
<1>3. \A f \in Filings : OutcomeOf(f)' = Becoming(f)'
  BY <1>1, OutcomeIs
<1>4. CASE AllStay
  BY <1>2, <1>3, <1>4 DEF AllStay, Outcomes
<1>5. ASSUME NEW f \in Filings, NEW before, NEW after, Turns(f, before, after)
      PROVE  P!Becomes(f, before, after)
  BY <1>2, <1>3, <1>5 DEF Turns, P!Becomes
<1>6. ASSUME NEW gone, ClearTransactions(gone) PROVE P!Next
  <2> DEFINE S == {f \in Filings : f.key \in gone}
  <2>1. \A f \in Filings : OutcomeOf(f)' = IF f \in S THEN "cleared" ELSE OutcomeOf(f)
    BY <1>2, <1>3, <1>6, ClearTurns
  <2> HIDE DEF S
  <2>2. P!Clear(S)
    BY <2>1 DEF P!Clear
  <2>3. S \in SUBSET Filings
    BY DEF S
  <2> QED BY <2>2, <2>3 DEF P!Next
<1> QED BY <1>4, <1>5, <1>6, TurnSteps DEF P!Next, P!List, P!Pay, P!Fail

LEMMA PayoutInit == Init => PayoutInv /\ P!Init
<1> SUFFICES ASSUME Init PROVE PayoutInv /\ P!Init
  OBVIOUS
<1>1. \A c \in Calls : calls[c] = NoCall
  BY DEF Init
<1>2. OnceInv
  BY OnceInit
<1>3. SweepsOnly /\ OkPaid
  BY <1>1 DEF SweepsOnly, OkPaid, NoCall
<1>4. \A f \in Filings : Becoming(f) = "none"
  BY <1>1 DEF Init, Becoming, FailedSoFar, IsRecorded, NoCall
<1>5. \A f \in Filings : OutcomeOf(f) = "none"
  BY <1>2, <1>4, OutcomeIs
<1> QED BY <1>2, <1>3, <1>5 DEF PayoutInv, P!Init

(* With one sweep or sweep_by_token_type at a time the canister implements
   Payout: every record is paid once, or fails and is left alone, or is cleared,
   for any filings, with refusals and records found at any moment.  Payout
   promises something of each record: a deposit with two is paid for both. *)
THEOREM SweepingImplementsPayout ==
  ASSUME OneSweepAtATime
  PROVE  Spec => PayoutKept
<1>1. PayoutInv /\ [Next]_vars => PayoutInv'
  BY PayoutInvStep
<1>2. PayoutInv /\ [Next]_vars => [P!Next]_Outcomes
  BY StepRefines
<1> QED BY <1>1, <1>2, PayoutInit, PTL DEF Spec, PayoutKept, P!Spec, Outcomes

-----------------------------------------------------------------------------
(* The books balance *)

\* Balances are u64, as the amounts are.
BalancesFit == \A t \in Tokens, s \in Subaccounts : bal[t][s] < Modulus

Amounts == [d \in Deposits |-> d.amount]

\* No filing of the deposit was paid.
Unspent(t, s) ==
  {d \in arrived : /\ d.token = t /\ d.sub = s
                   /\ \A f \in Filings : DepositOf(f) = d => paid[f] = 0}

RecordsArrived == \A k \in DOMAIN txs \ cleared : DepositOf(txs[k].filing) \in arrived

\* What is at the ledger is for a subaccount.
SentCredits ==
  \A c \in Calls : calls[c].phase = "sent" =>
    \E f \in Filings : IsFirst(f, calls[c].todo) /\ f.sub # NoAccount

FundsInv ==
  /\ PayoutInv /\ RecordsArrived /\ SentCredits
  /\ IsFiniteSet(arrived)
  /\ FundsMatchRecords

\* A transfer costs the amount of the deposit, or more than there can be.
LEMMA DueIs ==
  ASSUME NEW a \in 1 .. (Modulus - 1), NEW fee \in Nat \ {0}
  PROVE  /\ a >= fee => Due(a, fee) = a
         /\ a < fee => Due(a, fee) >= Modulus
<1>1. Modulus \in Nat \ {0} /\ a \in Nat
  BY ConstantsOK
<1>2. ASSUME a >= fee PROVE Due(a, fee) = a
  <2>1. a - fee \in 0 .. (Modulus - 1)
    BY <1>1, <1>2
  <2>2. (a - fee) % Modulus = a - fee
    BY <1>1, <2>1
  <2> QED BY <1>1, <2>2 DEF Due
<1>3. ASSUME a < fee PROVE Due(a, fee) >= Modulus
  <2> DEFINE x == a - fee
  <2>1. x \in Int /\ x < 0
    BY <1>1, <1>3
  <2> HIDE DEF x
  <2>2. x % Modulus >= x + Modulus /\ x % Modulus \in Nat
    BY <1>1, <2>1
  <2> QED BY <1>1, <2>2 DEF Due, x
<1> QED BY <1>2, <1>3

LEMMA UnspentFinite ==
  ASSUME FundsInv, NEW t, NEW s
  PROVE  /\ IsFiniteSet(Unspent(t, s)) /\ Unspent(t, s) \subseteq Deposits
         /\ \A d \in Deposits : Amounts[d] = d.amount /\ d.amount \in Nat
<1>1. Unspent(t, s) \subseteq arrived /\ arrived \subseteq Deposits /\ IsFiniteSet(arrived)
  BY DEF Unspent, FundsInv, PayoutInv, OnceInv, StayInv, TypeInv, TypeOK
<1> QED BY <1>1, FS_Subset, DepositIs DEF Amounts

\* The payments of the deposits to s are one for one.
Settled(t, s) == bal[t][s] = SumFunctionOnSet(Amounts, Unspent(t, s))

LEMMA FundsAre ==
  FundsMatchRecords <=> \A t \in Tokens, s \in Subaccounts : PaidApart(t, s) \/ Settled(t, s)
BY DEF FundsMatchRecords, Settled, Amounts, Unspent

LEMMA FundsAreNext ==
  ASSUME \A t \in Tokens, s \in Subaccounts : PaidApart(t, s)' \/ Settled(t, s)'
  PROVE  FundsMatchRecords'
BY DEF FundsMatchRecords, Settled, Amounts, Unspent

\* What was filed twice stays so, until it is cleared.
LEMMA ApartStays ==
  ASSUME FundsInv, [Next]_vars, NEW t, NEW s, PaidApart(t, s)
  PROVE  PaidApart(t, s)'
<1>1. TypeInv /\ CopiesCurrent
  BY DEF FundsInv, PayoutInv, OnceInv, StayInv
<1>2. CASE \E f \in Filings : f.key \in cleared' /\ f.token = t /\ f.sub = s
  BY <1>2 DEF PaidApart
<1>3. CASE ~ \E f \in Filings : f.key \in cleared' /\ f.token = t /\ f.sub = s
  <2>1. PICK j \in DOMAIN txs, k \in DOMAIN txs :
          /\ j # k /\ DepositOf(txs[j].filing) = DepositOf(txs[k].filing)
          /\ txs[j].filing.token = t /\ txs[j].filing.sub = s
    BY <1>3, ClearedGrows DEF PaidApart
  <2>2. txs[k].filing.token = t /\ txs[k].filing.sub = s
    BY <2>1 DEF DepositOf
  <2>3. j \notin cleared' /\ k \notin cleared'
    BY <1>1, <1>3, <2>1, <2>2 DEF TypeInv, TypeOK
  <2>4. /\ j \in DOMAIN txs' /\ txs'[j].filing = txs[j].filing
        /\ k \in DOMAIN txs' /\ txs'[k].filing = txs[k].filing
    BY <1>1, <2>3, RecordsKept
  <2> QED BY <2>1, <2>4 DEF PaidApart
<1> QED BY <1>2, <1>3

LEMMA ArriveFunds ==
  ASSUME FundsInv, NEW d \in Deposits, Arrive(d)
  PROVE  FundsMatchRecords'
<1>1. bal \in [Tokens -> [Subaccounts -> Nat]] /\ d.token \in Tokens /\ paid \in [Filings -> Nat]
  BY DepositIs DEF FundsInv, PayoutInv, OnceInv, StayInv, TypeInv, TypeOK
<1>2. d \notin arrived /\ txs' = txs /\ paid' = paid /\ cleared' = cleared
  BY DEF Arrive, history
<1>3. ASSUME NEW t \in Tokens, NEW s \in Subaccounts, ~ PaidApart(t, s)'
      PROVE  Settled(t, s)'
  <2>1. ~ PaidApart(t, s)
    BY <1>2, <1>3 DEF PaidApart
  <2>2. Settled(t, s)
    BY <2>1, FundsAre DEF FundsInv
  <2>3. CASE d.token = t /\ d.sub = s
    <3>1. ASSUME NEW f \in Filings, DepositOf(f) = d PROVE paid[f] = 0
      <4>1. f.token = t /\ f.sub = s
        BY <2>3, <3>1 DEF DepositOf
      <4>2. f.key \notin cleared
        BY <2>1, <4>1 DEF PaidApart
      <4>3. ~ IsRecorded(f)
        BY <1>2, <3>1, <4>2 DEF IsRecorded, FundsInv, RecordsArrived
      <4> QED BY <1>1, <4>2, <4>3 DEF FundsInv, PayoutInv, OnceInv, StayInv, PaidIsRecorded
    <3>2. Unspent(t, s)' = Unspent(t, s) \cup {d} /\ d \notin Unspent(t, s)
      BY <1>2, <2>3, <3>1 DEF Arrive, Unspent
    <3>3. SumFunctionOnSet(Amounts, Unspent(t, s)') =
            Amounts[d] + SumFunctionOnSet(Amounts, Unspent(t, s))
      BY <3>2, UnspentFinite, SumWith
    <3>4. d.sub # NoAccount
      BY <2>3 DEF Subaccounts
    <3>5. bal'[t][s] = bal[t][s] + d.amount
      BY <1>1, <2>3, <3>4 DEF Arrive
    <3>6. Amounts[d] = d.amount /\ d.amount \in Nat /\ bal[t][s] \in Nat
      BY <1>1, UnspentFinite
    <3> QED BY <2>2, <3>3, <3>5, <3>6 DEF Settled
  <2>4. CASE ~ (d.token = t /\ d.sub = s)
    <3>1. Unspent(t, s)' = Unspent(t, s)
      BY <1>2, <2>4 DEF Arrive, Unspent
    <3>2. bal'[t][s] = bal[t][s]
      BY <1>1, <2>4 DEF Arrive
    <3> QED BY <2>2, <3>1, <3>2 DEF Settled
  <2> QED BY <2>3, <2>4
<1> QED BY <1>3, FundsAreNext

\* What is at the ledger is for a subaccount, and the fee asked for is that of
\* its ledger.
LEMMA AskedIs ==
  ASSUME FundsInv, NEW c \in Calls, NEW f \in Filings,
         calls[c].phase = "sent", IsFirst(f, calls[c].todo)
  PROVE  /\ f.sub \in Subaccounts /\ f.token \in Tokens
         /\ FeeOf(calls[c].kind, f) = Fee[f.token] /\ calls[c].kind # "refund"
<1>1. f.sub # NoAccount
  BY FirstUnique DEF FundsInv, SentCredits, PayoutInv, OnceInv, StayInv
<1> QED BY <1>1, ConstantsOK DEF Subaccounts, FeeOf, FundsInv, PayoutInv, SweepsOnly

\* The deposit is among what the subaccount holds, if it was filed once.
LEMMA AskedIsUnspent ==
  ASSUME OneSweepAtATime, FundsInv, NEW c \in Calls, NEW f \in Filings,
         calls[c].phase = "sent", IsFirst(f, calls[c].todo), ~ PaidApart(f.token, f.sub)
  PROVE  DepositOf(f) \in Unspent(f.token, f.sub) /\ paid[f] = 0
<1>1. f.key \notin cleared
  BY DEF PaidApart
<1>2. IsRecorded(f) /\ paid[f] = 0
  BY <1>1, AskedIsOwed DEF FundsInv
<1>3. ASSUME NEW g \in Filings, DepositOf(g) = DepositOf(f) PROVE paid[g] = 0
  <2>1. g.token = f.token /\ g.sub = f.sub
    BY <1>3 DEF DepositOf
  <2>2. g.key \notin cleared
    BY <2>1 DEF PaidApart
  <2>3. IsRecorded(g) => g = f
    BY <1>2, <1>3 DEF PaidApart, IsRecorded
  <2>4. paid[g] \in Nat /\ (paid[g] > 0 => IsRecorded(g))
    BY <2>2 DEF FundsInv, PayoutInv, OnceInv, StayInv, PaidIsRecorded, TypeInv, TypeOK
  <2> QED BY <1>2, <2>3, <2>4
<1>4. DepositOf(f) \in arrived
  BY <1>1, <1>2 DEF IsRecorded, FundsInv, RecordsArrived
<1>5. DepositOf(f).token = f.token /\ DepositOf(f).sub = f.sub
  BY DEF DepositOf
<1> QED BY <1>2, <1>3, <1>4, <1>5 DEF Unspent

LEMMA TransferFunds ==
  ASSUME OneSweepAtATime, FundsInv, BalancesFit,
         NEW c \in Calls, NEW f \in Filings, Transfer(c, f)
  PROVE  FundsMatchRecords'
<1> DEFINE d == DepositOf(f)
<1>1. /\ f.sub \in Subaccounts /\ f.token \in Tokens
      /\ FeeOf(calls[c].kind, f) = Fee[f.token]
  BY AskedIs DEF Transfer
<1>2. bal \in [Tokens -> [Subaccounts -> Nat]] /\ paid \in [Filings -> Nat]
  BY DEF FundsInv, PayoutInv, OnceInv, StayInv, TypeInv, TypeOK
<1>3. Due(f.amount, Fee[f.token]) = f.amount
  <2>1. Due(f.amount, Fee[f.token]) <= bal[f.token][f.sub]
    BY <1>1 DEF Transfer, Payable
  <2>2. bal[f.token][f.sub] < Modulus /\ bal[f.token][f.sub] \in Nat
    BY <1>1, <1>2 DEF BalancesFit
  <2>3. /\ f.amount \in 1 .. (Modulus - 1) /\ f.amount \in Nat
        /\ Fee[f.token] \in Nat \ {0} /\ Fee[f.token] \in Nat /\ Modulus \in Nat
    BY <1>1, ConstantsOK
  <2>4. Due(f.amount, Fee[f.token]) \in Nat
    BY <2>3, DueIsNat
  <2>5. ~ (Due(f.amount, Fee[f.token]) >= Modulus)
    BY <2>1, <2>2, <2>3, <2>4
  <2>6. ~ (f.amount < Fee[f.token])
    BY <2>3, <2>5, DueIs
  <2> QED BY <2>3, <2>6, DueIs
<1>4. /\ arrived' = arrived /\ txs' = txs /\ cleared' = cleared
      /\ paid' = [paid EXCEPT ![f] = paid[f] + 1]
      /\ bal' = [bal EXCEPT ![f.token][f.sub] = bal[f.token][f.sub] - f.amount]
  BY <1>1, <1>3 DEF Transfer
<1>5. d \in Deposits /\ d.token = f.token /\ d.sub = f.sub /\ d.amount = f.amount
  BY DEF Deposits, DepositOf
<1>6. /\ paid'[f] # 0 \/ paid[f] # 0
      /\ \A g \in Filings : DepositOf(g) # d => paid'[g] = paid[g]
      /\ \A g \in Filings : g # f => paid'[g] = paid[g]
  BY <1>2, <1>4
<1>7. ASSUME NEW t \in Tokens, NEW s \in Subaccounts, ~ PaidApart(t, s)'
      PROVE  Settled(t, s)'
  <2>1. ~ PaidApart(t, s)
    BY <1>4, <1>7 DEF PaidApart
  <2>2. Settled(t, s)
    BY <2>1, FundsAre DEF FundsInv
  <2>3. CASE f.token = t /\ f.sub = s
    <3>1. d \in Unspent(t, s) /\ paid[f] = 0
      BY <2>1, <2>3, AskedIsUnspent DEF Transfer
    <3>2. paid'[f] = 1
      BY <1>2, <1>4, <3>1
    <3>3. d \notin Unspent(t, s)'
      BY <3>2 DEF Unspent
    <3>4. \A e \in Deposits : e # d => (e \in Unspent(t, s)' <=> e \in Unspent(t, s))
      BY <1>4, <1>6 DEF Unspent
    <3>5. Unspent(t, s) \subseteq Deposits /\ Unspent(t, s)' \subseteq Deposits
      BY <1>4, UnspentFinite DEF Unspent, FundsInv, PayoutInv, OnceInv, StayInv, TypeInv, TypeOK
    <3> HIDE DEF d
    <3>6. Unspent(t, s)' = Unspent(t, s) \ {d}
      BY <3>3, <3>4, <3>5
    <3>7. SumFunctionOnSet(Amounts, Unspent(t, s)) =
            Amounts[d] + SumFunctionOnSet(Amounts, Unspent(t, s)')
      BY <3>1, <3>6, UnspentFinite, SumOfNaturals
    <3>8. SumFunctionOnSet(Amounts, Unspent(t, s)') \in Nat
      <4>1. IsFiniteSet(Unspent(t, s)') /\ Unspent(t, s)' \subseteq Deposits
        BY <3>6, UnspentFinite, FS_Subset
      <4> QED BY <4>1, UnspentFinite, SumOfNaturals
    <3>9. bal'[t][s] = bal[t][s] - f.amount
      BY <1>1, <1>2, <1>4, <2>3
    <3>10. Amounts[d] = f.amount /\ f.amount \in Nat /\ bal[t][s] \in Nat
      BY <1>2, <1>5, UnspentFinite
    <3> QED BY <2>2, <3>7, <3>8, <3>9, <3>10 DEF Settled
  <2>4. CASE ~ (f.token = t /\ f.sub = s)
    <3>1. Unspent(t, s)' = Unspent(t, s)
      <4>1. \A e \in arrived : e.token = t /\ e.sub = s => e # d
        BY <1>5, <2>4
      <4>2. \A e \in arrived : (e \in Unspent(t, s)') <=> (e \in Unspent(t, s))
        BY <1>4, <1>6, <4>1 DEF Unspent
      <4>3. Unspent(t, s) \subseteq arrived /\ Unspent(t, s)' \subseteq arrived
        BY <1>4 DEF Unspent
      <4> QED BY <4>2, <4>3
    <3>2. bal'[t][s] = bal[t][s]
      BY <1>2, <1>4, <2>4
    <3> QED BY <2>2, <3>1, <3>2 DEF Settled
  <2> QED BY <2>3, <2>4
<1> QED BY <1>7, FundsAreNext

LEMMA FundsStep ==
  ASSUME OneSweepAtATime, FundsInv, BalancesFit, [Next]_vars
  PROVE  FundsMatchRecords'
<1>1. ASSUME UNCHANGED <<arrived, bal, paid>> PROVE FundsMatchRecords'
  <2>1. ASSUME NEW t \in Tokens, NEW s \in Subaccounts PROVE PaidApart(t, s)' \/ Settled(t, s)'
    <3>1. PaidApart(t, s) \/ Settled(t, s)
      BY FundsAre DEF FundsInv
    <3>2. Settled(t, s) => Settled(t, s)'
      BY <1>1 DEF Settled, Unspent
    <3> QED BY <3>1, <3>2, ApartStays
  <2> QED BY <2>1, FundsAreNext
<1>2. \A d \in Deposits : Arrive(d) => FundsMatchRecords'
  BY ArriveFunds
<1>3. \A c \in Calls, f \in Filings : Transfer(c, f) => FundsMatchRecords'
  BY TransferFunds
<1> QED BY <1>1, <1>2, <1>3, OnceSteps
        DEF vars, history, Index, Start, ClearTransactions, Refuse, Reply

LEMMA RecordsArrivedStep ==
  ASSUME OneSweepAtATime, FundsInv, [Next]_vars
  PROVE  RecordsArrived' /\ IsFiniteSet(arrived')
<1>1. arrived \subseteq arrived' /\ IsFiniteSet(arrived')
  <2>1. CASE UNCHANGED arrived
    BY <2>1 DEF FundsInv
  <2>2. ASSUME NEW d \in Deposits, Arrive(d)
        PROVE  arrived \subseteq arrived' /\ IsFiniteSet(arrived')
    BY <2>2, FS_AddElement DEF Arrive, FundsInv
  <2> QED BY <2>1, <2>2, OnceSteps
          DEF vars, Index, Start, ClearTransactions, Refuse, Reply, Transfer
<1>2. ASSUME NEW k \in DOMAIN txs', k \notin cleared' PROVE DepositOf(txs'[k].filing) \in arrived
  <2> k \notin cleared
    BY <1>2, ClearedGrows
  <2>1. ASSUME k \in DOMAIN txs, txs'[k] = txs[k] PROVE DepositOf(txs'[k].filing) \in arrived
    BY <2>1 DEF FundsInv, RecordsArrived
  <2>2. ASSUME NEW f \in Filings, Index(f) PROVE DepositOf(txs'[k].filing) \in arrived
    BY <2>1, <2>2 DEF Index, Recorded
  <2>3. ASSUME NEW c \in Calls, NEW f \in Filings, Reply(c, f)
        PROVE  DepositOf(txs'[k].filing) \in arrived
    <3>1. txs' = txs \/ txs' = Recorded(f, Outcome(calls[c].phase))
      BY <2>3 DEF Reply
    <3>2. CASE k = f.key /\ txs' = Recorded(f, Outcome(calls[c].phase))
      <4>1. IsRecorded(f)
        BY <2>3, <3>2 DEF Reply, IsFirst, FundsInv, PayoutInv, OnceInv, StayInv, CopiesCurrent
      <4>2. DepositOf(f) \in arrived
        BY <3>2, <4>1 DEF IsRecorded, FundsInv, RecordsArrived
      <4> QED BY <3>2, <4>2 DEF Recorded
    <3>3. CASE txs' = txs \/ k # f.key
      BY <1>2, <2>1, <3>1, <3>3 DEF Recorded
    <3> QED BY <3>1, <3>2, <3>3
  <2>4. ASSUME NEW gone, ClearTransactions(gone) PROVE DepositOf(txs'[k].filing) \in arrived
    BY <1>2, <2>1, <2>4 DEF ClearTransactions
  <2>5. CASE UNCHANGED txs
    BY <1>2, <2>1, <2>5
  <2> QED BY <2>2, <2>3, <2>4, <2>5, OnceSteps DEF vars, Arrive, Start, Refuse, Transfer
<1> QED BY <1>1, <1>2 DEF RecordsArrived

LEMMA ProceedCredits ==
  ASSUME NEW kind, NEW S \in SUBSET Filings, Proceed(kind, S).phase = "sent"
  PROVE  \E f \in Filings : IsFirst(f, Proceed(kind, S).todo) /\ f.sub # NoAccount
BY DEF Proceed, NoCall

LEMMA SentCreditsStep ==
  ASSUME OneSweepAtATime, FundsInv, [Next]_vars
  PROVE  SentCredits'
<1>1. calls \in [Calls -> Call] /\ TypeInv
  BY DEF FundsInv, PayoutInv, OnceInv, StayInv, TypeInv, TypeOK
<1>2. ASSUME NEW b \in Calls, NEW kind, NEW S \in SUBSET Filings,
             calls' = [calls EXCEPT ![b] = Proceed(kind, S)]
      PROVE  SentCredits'
  <2> DEFINE q == Proceed(kind, S)
  <2>1. q.phase = "sent" => \E f \in Filings : IsFirst(f, q.todo) /\ f.sub # NoAccount
    BY ProceedCredits
  <2>2. calls' = [calls EXCEPT ![b] = q]
    BY <1>2
  <2> HIDE DEF q
  <2>3. \A c \in Calls : calls'[c] = IF c = b THEN q ELSE calls[c]
    BY <1>1, <2>2
  <2> QED BY <2>1, <2>3 DEF SentCredits, FundsInv, IsFirst
<1>3. ASSUME NEW b \in Calls, NEW S \in SUBSET Unswept, Start(b, "sweep", S)
      PROVE  SentCredits'
  <2>1. S \subseteq Filings
    BY <1>1 DEF Unswept, TypeInv, TypeOK
  <2> QED BY <1>2, <1>3, <2>1 DEF Start
<1>4. ASSUME NEW b \in Calls, NEW f \in Filings, Reply(b, f) PROVE SentCredits'
  <2>1. Remaining(calls[b].todo, f) \subseteq Filings
    BY <1>1 DEF Remaining, Call
  <2>2. calls' = [calls EXCEPT ![b] = Proceed(calls[b].kind, Remaining(calls[b].todo, f))]
    BY <1>4 DEF Reply
  <2> QED BY <1>2, <2>1, <2>2
<1>5. ASSUME NEW b \in Calls, Refuse(b) \/ \E f \in Filings : Transfer(b, f)
      PROVE  SentCredits'
  <2>1. PICK phase \in {"ok", "err"} : calls' = [calls EXCEPT ![b].phase = phase]
    BY <1>5 DEF Refuse, Transfer
  <2>2. \A c \in Calls : calls'[c] = calls[c] \/ calls'[c].phase # "sent"
    BY <1>1, <2>1 DEF Call
  <2> QED BY <2>2 DEF SentCredits, FundsInv, IsFirst
<1>6. CASE UNCHANGED calls
  BY <1>6 DEF SentCredits, FundsInv, IsFirst
<1> QED BY <1>3, <1>4, <1>5, <1>6, OnceSteps DEF vars, Arrive, Index, ClearTransactions

LEMMA FundsInvStep ==
  ASSUME OneSweepAtATime, FundsInv, BalancesFit, [Next]_vars
  PROVE  FundsInv'
BY FundsStep, RecordsArrivedStep, SentCreditsStep, PayoutInvStep DEF FundsInv

LEMMA FundsInit == Init => FundsInv
<1> SUFFICES ASSUME Init PROVE FundsInv
  OBVIOUS
<1>1. \A c \in Calls : calls[c] = NoCall
  BY DEF Init
<1>2. RecordsArrived /\ SentCredits
  BY <1>1 DEF Init, RecordsArrived, SentCredits, NoCall
<1>3. IsFiniteSet(arrived) /\ arrived = {}
  BY FS_EmptySet DEF Init
<1>4. FundsMatchRecords
  <2>1. \A t, s : Unspent(t, s) = {}
    BY <1>3 DEF Unspent
  <2>2. \A t, s : SumFunctionOnSet(Amounts, Unspent(t, s)) = 0
    BY <2>1, SumOfNone
  <2>3. \A t \in Tokens, s \in Subaccounts : bal[t][s] = 0
    BY DEF Init
  <2> QED BY <2>2, <2>3 DEF FundsMatchRecords, Amounts, Unspent
<1> QED BY <1>2, <1>3, <1>4, PayoutInit DEF FundsInv

(* With one sweep or sweep_by_token_type at a time, and balances that fit into
   their type, a subaccount holds exactly its deposits that have not been paid,
   unless one of them has two records or was cleared: for any filings, dust
   included, of any amounts that arrive and are found at any moment. *)
THEOREM FundsMatch ==
  ASSUME OneSweepAtATime
  PROVE  Spec /\ []BalancesFit => []FundsMatchRecords
<1>1. FundsInv /\ BalancesFit /\ [Next]_vars => FundsInv'
  BY FundsInvStep
<1>2. FundsInv => FundsMatchRecords
  BY DEF FundsInv
<1> QED BY <1>1, <1>2, FundsInit, PTL DEF Spec

LEMMA FundedIs == (OneSweepAtATime /\ FundsInv) => SweepsAreFunded
<1> SUFFICES ASSUME OneSweepAtATime, FundsInv, NEW c \in Calls, NEW f \in Filings,
                    calls[c].phase = "sent", IsFirst(f, calls[c].todo),
                    f.amount >= Fee[f.token], ~ PaidApart(f.token, f.sub)
             PROVE  Payable(calls[c].kind, f)
  BY DEF SweepsAreFunded
<1>1. /\ f.sub \in Subaccounts /\ f.token \in Tokens
      /\ FeeOf(calls[c].kind, f) = Fee[f.token] /\ calls[c].kind # "refund"
  BY AskedIs
<1>2. Due(f.amount, Fee[f.token]) = f.amount
  BY <1>1, ConstantsOK, DueIs
<1> DEFINE U == Unspent(f.token, f.sub)
           d == DepositOf(f)
<1>3. d \in U
  BY AskedIsUnspent
<1>4. bal[f.token][f.sub] = SumFunctionOnSet(Amounts, U)
  BY <1>1, FundsAre DEF FundsInv, Settled
<1>5. d \in Deposits /\ d.amount = f.amount
  BY DEF Deposits, DepositOf
<1> HIDE DEF d
<1>6. SumFunctionOnSet(Amounts, U) = Amounts[d] + SumFunctionOnSet(Amounts, U \ {d})
  BY <1>3, UnspentFinite, SumOfNaturals
<1>7. SumFunctionOnSet(Amounts, U \ {d}) \in Nat
  <2>1. IsFiniteSet(U \ {d}) /\ U \ {d} \subseteq Deposits
    BY UnspentFinite, FS_Subset
  <2> QED BY <2>1, UnspentFinite, SumOfNaturals
<1>8. Amounts[d] = f.amount /\ f.amount \in Nat
  BY <1>5, UnspentFinite
<1>9. f.amount <= bal[f.token][f.sub]
  BY <1>4, <1>6, <1>7, <1>8
<1> QED BY <1>1, <1>2, <1>9 DEF Payable

(* So the ledger can always pay what a sweep asks for, but for dust, unless a
   deposit of the subaccount has two records or was cleared: no other record
   was paid out of it. *)
THEOREM SweepsFunded ==
  ASSUME OneSweepAtATime
  PROVE  Spec /\ []BalancesFit => []SweepsAreFunded
<1>1. FundsInv /\ BalancesFit /\ [Next]_vars => FundsInv'
  BY FundsInvStep
<1>2. FundsInv => SweepsAreFunded
  BY FundedIs
<1> QED BY <1>1, <1>2, FundsInit, PTL DEF Spec
===============================================================================
