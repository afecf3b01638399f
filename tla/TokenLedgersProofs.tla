-------------------------- MODULE TokenLedgersProofs --------------------------
(***************************************************************************)
(* TokenLedgers, for every value of the constants: any number of types,    *)
(* ledgers and overlapping cycles.                                         *)
(***************************************************************************)
EXTENDS TokenLedgers, CollectionLemmas

-----------------------------------------------------------------------------
(* Types *)

\* A sweep with records left has a first one.
LEMMA FirstIn ==
  ASSUME NEW S \in SUBSET Copy, S # {}
  PROVE  First(S) \in S
<1> DEFINE N == {r.index : r \in S}
<1>1. N \in SUBSET Nat /\ N # {}
  BY ConstantsOK DEF Copy, Indices
<1>2. PICK i \in N : \A k \in N : i <= k
  BY <1>1, LeastOf
<1>3. PICK r \in S : r.index = i
  OBVIOUS
<1>4. \A q \in S : r.index <= q.index
  BY <1>2, <1>3
<1> QED BY <1>3, <1>4 DEF First

LEMMA LedgerTypes ==
  ASSUME TypeOK, NEW t \in Tokens
  PROVE  LedgerOf(t) \in Ledgers /\ PollLedger(t) \in Ledgers /\ LookupLedger(t) \in Ledgers
BY ConstantsOK DEF TypeOK, LedgerOf, PollLedger, LookupLedger

LEMMA ProceedType ==
  ASSUME TypeOK, NEW S \in SUBSET Copy
  PROVE  Proceed(S) \in SweepCall /\ Proceed(S).todo = S
<1>1. CASE S = {}
  BY <1>1, ConstantsOK DEF Proceed, NoSweep, SweepCall
<1>2. CASE S # {}
  <2>1. First(S).token \in Tokens
    BY <1>2, FirstIn DEF Copy
  <2> QED BY <1>2, <2>1, LedgerTypes DEF Proceed, SweepCall
<1> QED BY <1>1, <1>2

\* What an answer holds and where the cursor goes.
LEMMA AnswerType ==
  ASSUME TypeOK, NEW p \in Poll
  PROVE  /\ Answer(p) \subseteq Indices
         /\ \A i \in Answer(p) : i <= height[p.ledger]
         /\ BlockCount(p) \in 1 .. (MaxHeight + 1)
         /\ p.next <= Last(p) => BlockCount(p) = Last(p) + 1
         /\ ~ (p.next <= Last(p)) => BlockCount(p) = p.next
<1>1. p.next \in 1 .. (MaxHeight + 1) /\ height[p.ledger] \in 0 .. MaxHeight
  BY DEF TypeOK, Poll
<1> QED BY <1>1, ConstantsOK DEF Answer, Last, BlockCount, Indices

LEMMA FiledType ==
  ASSUME TypeOK, NEW t \in Tokens, NEW l \in Ledgers, NEW K \in SUBSET Indices
  PROVE  /\ DOMAIN Filed(t, l, K) = DOMAIN txs \cup K
         /\ \A k \in DOMAIN txs : Filed(t, l, K)[k] = txs[k]
         /\ \A k \in K \ DOMAIN txs :
              Filed(t, l, K)[k] = [token |-> t, ledger |-> l, status |-> "NotSwept"]
         /\ DOMAIN Filed(t, l, K) \subseteq Indices
         /\ \A k \in DOMAIN Filed(t, l, K) :
              Filed(t, l, K)[k] \in [token : Tokens, ledger : Ledgers, status : Statuses]
BY DEF Filed, TypeOK, Statuses

LEMMA MarkedType ==
  ASSUME TypeOK, NEW r \in Copy, NEW status \in Statuses
  PROVE  /\ DOMAIN Marked(r, status) = DOMAIN txs
         /\ \A k \in DOMAIN txs :
              /\ Marked(r, status)[k] \in [token : Tokens, ledger : Ledgers, status : Statuses]
              /\ Marked(r, status)[k].token = txs[k].token
              /\ Marked(r, status)[k].ledger = txs[k].ledger
              /\ Marked(r, status)[k].status = IF k = r.index THEN status ELSE txs[k].status
BY DEF Marked, TypeOK

LEMMA TypeInit == Init => TypeOK
BY ConstantsOK DEF Init, TypeOK, Idle, Poll, NoLookup, Lookup, NoSweep, SweepCall

LEMMA TypeStep == TypeOK /\ [Next]_vars => TypeOK'
<1> SUFFICES ASSUME TypeOK, [Next]_vars PROVE TypeOK'
  OBVIOUS
<1> USE DEF calls, history
<1>1. ASSUME NEW l \in Ledgers, Arrive(l) PROVE TypeOK'
  <2>1. height[l] \in 0 .. MaxHeight /\ Size[l] \in 0 .. MaxHeight /\ height[l] < Size[l]
    BY <1>1, ConstantsOK DEF Arrive, TypeOK
  <2>2. height[l] + 1 \in 0 .. MaxHeight
    BY <2>1, ConstantsOK
  <2>3. height' \in [Ledgers -> 0 .. MaxHeight]
    BY <1>1, <2>2 DEF Arrive, TypeOK
  <2> QED BY <1>1, <2>3 DEF Arrive, TypeOK
<1>2. ASSUME NEW c \in Cycles, Tick(c) PROVE TypeOK'
  <2>1. \A t \in Tokens :
          [asked |-> TRUE, ledger |-> PollLedger(t), next |-> nextBlock[t]] \in Poll
    BY LedgerTypes DEF TypeOK, Poll
  <2>2. Idle \in Poll
    BY ConstantsOK DEF Idle, Poll
  <2>3. polls' \in [Cycles -> [Tokens -> Poll]]
    BY <1>2, <2>1, <2>2 DEF Tick, TypeOK
  <2> QED BY <1>2, <2>3 DEF Tick, TypeOK
<1>3. ASSUME NEW c \in Cycles, NEW t \in Tokens, PollAnswered(c, t) PROVE TypeOK'
  <2> DEFINE p == polls[c][t]
             K == Answer(p) \cap Deposits[p.ledger]
  <2>1. p \in Poll /\ p.ledger \in Ledgers
    BY DEF TypeOK, Poll
  <2>2. BlockCount(p) \in 1 .. (MaxHeight + 1) /\ K \in SUBSET Indices
    BY <2>1, AnswerType
  <2>3. txs' = Filed(t, p.ledger, K)
    BY <1>3 DEF PollAnswered, LedgerOfAnswer
  <2>4. /\ DOMAIN txs' \subseteq Indices
        /\ \A k \in DOMAIN txs' : txs'[k] \in [token : Tokens, ledger : Ledgers, status : Statuses]
    <3> HIDE DEF p, K
    <3> QED BY <2>1, <2>2, <2>3, FiledType
  <2>5. nextBlock' \in [Tokens -> 1 .. (MaxHeight + 1)]
    BY <1>3, <2>2 DEF PollAnswered, TypeOK
  <2>6. polls' \in [Cycles -> [Tokens -> Poll]]
    BY <1>3, ConstantsOK DEF PollAnswered, TypeOK, Idle, Poll
  <2>7. reached' \in [Tokens -> [Ledgers -> 1 .. (MaxHeight + 1)]]
    BY <1>3, <2>1, <2>2 DEF PollAnswered, TypeOK
  <2> QED BY <1>3, <2>4, <2>5, <2>6, <2>7 DEF PollAnswered, TypeOK
<1>4. ASSUME NEW c \in Cycles, NEW t \in Tokens, PollRejected(c, t) PROVE TypeOK'
  <2>1. polls[c][t] \in Poll
    BY DEF TypeOK
  <2>2. nextBlock' \in [Tokens -> 1 .. (MaxHeight + 1)]
    BY <1>4, <2>1 DEF PollRejected, TypeOK, Poll
  <2>3. polls' \in [Cycles -> [Tokens -> Poll]]
    BY <1>4, ConstantsOK DEF PollRejected, TypeOK, Idle, Poll
  <2> QED BY <1>4, <2>2, <2>3 DEF PollRejected, TypeOK
<1>5. CASE Found
  <2>1. lookup.token \in Tokens /\ lookup.ledger \in Ledgers /\ lookup.index \in 0 .. MaxHeight
    BY DEF TypeOK, Lookup
  <2>2. {lookup.index} \in SUBSET Indices
    <3>1. lookup.index # 0
      BY <1>5, <2>1, ConstantsOK DEF Found
    <3> QED BY <2>1, <3>1, ConstantsOK DEF Indices
  <2>3. /\ DOMAIN txs' \subseteq Indices
        /\ \A k \in DOMAIN txs' : txs'[k] \in [token : Tokens, ledger : Ledgers, status : Statuses]
    <3> DEFINE K == {lookup.index}
               t == lookup.token
               l == lookup.ledger
    <3>1. txs' = Filed(t, l, K) /\ K \in SUBSET Indices /\ t \in Tokens /\ l \in Ledgers
      BY <1>5, <2>1, <2>2 DEF Found
    <3> HIDE DEF K, t, l
    <3> QED BY <3>1, FiledType
  <2>4. NoLookup \in Lookup
    BY ConstantsOK DEF NoLookup, Lookup
  <2> QED BY <1>5, <2>3, <2>4 DEF Found, TypeOK
<1>6. CASE NotFound
  <2>1. NoLookup \in Lookup
    BY ConstantsOK DEF NoLookup, Lookup
  <2> QED BY <1>6, <2>1 DEF NotFound, TypeOK
<1>7. ASSUME NEW t \in Tokens, NEW l \in Registrable[t], RegisterToken(t, l) PROVE TypeOK'
  <2>1. l \in Ledgers
    BY ConstantsOK
  <2>2. DOMAIN registered' \subseteq Tokens /\ \A u \in DOMAIN registered' : registered'[u] \in Ledgers
    BY <1>7, <2>1 DEF RegisterToken, TypeOK
  <2>3. mixed' \subseteq Tokens
    BY <1>7 DEF RegisterToken, TypeOK
  <2> QED BY <1>7, <2>2, <2>3 DEF RegisterToken, TypeOK
<1>8. CASE ResetTokenBlocks
  <2>1. nextBlock' \in [Tokens -> 1 .. (MaxHeight + 1)]
    BY <1>8, ConstantsOK DEF ResetTokenBlocks
  <2> QED BY <1>8, <2>1 DEF ResetTokenBlocks, TypeOK
<1>9. ASSUME NEW t \in Tokens, NEW i \in Indices, LookUp(t, i) PROVE TypeOK'
  <2>1. lookup' \in Lookup
    BY <1>9, LedgerTypes, ConstantsOK DEF LookUp, Lookup, Indices
  <2> QED BY <1>9, <2>1 DEF LookUp, TypeOK
<1>10. ASSUME NEW T \in SUBSET Tokens, Sweep(T) PROVE TypeOK'
  <2>1. \A k \in DOMAIN txs :
          [index |-> k, token |-> txs[k].token, ledger |-> txs[k].ledger] \in Copy
    BY DEF TypeOK, Copy
  <2>2. sweep' \in SweepCall
    BY <1>10, <2>1, ProceedType DEF Sweep
  <2> QED BY <1>10, <2>2 DEF Sweep, TypeOK
<1>11. CASE Transferred \/ Refused
  <2> DEFINE r == First(sweep.todo)
  <2>1. sweep.todo # {} /\ sweep.todo \in SUBSET Copy /\ sweep.ledger \in Ledgers
    BY <1>11 DEF Transferred, Refused, TypeOK, SweepCall
  <2>2. r \in Copy
    BY <2>1, FirstIn
  <2>3. sweep' = Proceed(sweep.todo \ {r})
    BY <1>11 DEF Transferred, Refused
  <2>4. sweep' \in SweepCall
    BY <2>1, <2>3, ProceedType
  <2>5. \E s \in Statuses : txs' = Marked(r, s)
    BY <1>11 DEF Transferred, Refused, Statuses
  <2>6. /\ DOMAIN txs' \subseteq Indices
        /\ \A k \in DOMAIN txs' : txs'[k] \in [token : Tokens, ledger : Ledgers, status : Statuses]
    BY <2>2, <2>5, MarkedType DEF TypeOK
  <2>7. paid' \subseteq [copy : Copy, at : Ledgers]
    BY <1>11, <2>1, <2>2 DEF Transferred, Refused, TypeOK
  <2> QED BY <1>11, <2>4, <2>6, <2>7 DEF Transferred, Refused, TypeOK
<1>12. CASE UNCHANGED vars
  BY <1>12 DEF vars, TypeOK
<1> QED
  BY <1>1, <1>2, <1>3, <1>4, <1>5, <1>6, <1>7, <1>8, <1>9, <1>10, <1>11, <1>12
  DEF Next, Indexer, Custodian

(* Cursors, keys and ledgers stay in range, in the records, in the calls that
   are out and in the copies that a sweep carries. *)
THEOREM TypeCorrect == Spec => []TypeOK
BY TypeInit, TypeStep, PTL DEF Spec

-----------------------------------------------------------------------------
(* Records and copies *)

\* A record stays, but for its status.
LEMMA RecordsStay ==
  ASSUME TypeOK, [Next]_vars, NEW k \in DOMAIN txs
  PROVE  k \in DOMAIN txs' /\ txs'[k].token = txs[k].token /\ txs'[k].ledger = txs[k].ledger
<1> USE DEF calls, history
<1>1. ASSUME NEW c \in Cycles, NEW t \in Tokens, PollAnswered(c, t)
      PROVE  k \in DOMAIN txs' /\ txs'[k] = txs[k]
  BY <1>1 DEF PollAnswered, Filed
<1>2. CASE Found
  BY <1>2 DEF Found, Filed
<1>3. CASE Transferred \/ Refused
  <2>1. First(sweep.todo) \in Copy
    BY <1>3, FirstIn DEF Transferred, Refused, TypeOK, SweepCall
  <2> QED BY <1>3, <2>1, MarkedType DEF Transferred, Refused, Statuses
<1>4. CASE UNCHANGED txs
  BY <1>4
<1>5. CASE Custodian \/ UNCHANGED vars
  BY <1>4, <1>5 DEF Custodian, RegisterToken, ResetTokenBlocks, LookUp, Sweep, vars
<1>6. CASE Indexer
  BY <1>1, <1>2, <1>4, <1>6 DEF Indexer, Tick, PollRejected, NotFound
<1>7. CASE \E l \in Ledgers : Arrive(l)
  BY <1>4, <1>7 DEF Arrive
<1> QED BY <1>3, <1>5, <1>6, <1>7 DEF Next

\* A record that a step adds: who found it, and that the ledger has it.
LEMMA RecordsAdded ==
  ASSUME TypeOK, [Next]_vars, NEW k \in DOMAIN txs', k \notin DOMAIN txs
  PROVE  /\ txs'[k].status = "NotSwept"
         /\ k <= height[txs'[k].ledger] /\ k \in Deposits[txs'[k].ledger]
         /\ \/ /\ lookup.asked /\ lookup.token = txs'[k].token
               /\ lookup.ledger = txs'[k].ledger
            \/ \E c \in Cycles : /\ polls[c][txs'[k].token].asked
                                 /\ polls[c][txs'[k].token].ledger = txs'[k].ledger
<1> USE DEF calls, history
<1>1. ASSUME NEW c \in Cycles, NEW t \in Tokens, PollAnswered(c, t)
      PROVE  /\ txs'[k] = [token |-> t, ledger |-> polls[c][t].ledger, status |-> "NotSwept"]
             /\ polls[c][t].asked
             /\ k <= height[polls[c][t].ledger] /\ k \in Deposits[polls[c][t].ledger]
  <2> DEFINE p == polls[c][t]
             K == Answer(p) \cap Deposits[p.ledger]
  <2>1. p \in Poll
    BY DEF TypeOK
  <2>2. txs' = Filed(t, p.ledger, K) /\ p.asked
    BY <1>1 DEF PollAnswered, LedgerOfAnswer
  <2>3. k \in K
    BY <2>2 DEF Filed
  <2> QED BY <2>1, <2>2, <2>3, AnswerType DEF Filed
<1>2. CASE Found
  <2>1. /\ txs' = Filed(lookup.token, lookup.ledger, {lookup.index}) /\ lookup.asked
        /\ lookup.index <= height[lookup.ledger] /\ lookup.index \in Deposits[lookup.ledger]
    BY <1>2 DEF Found
  <2>2. k = lookup.index
    BY <2>1 DEF Filed
  <2>3. txs'[k] = [token |-> lookup.token, ledger |-> lookup.ledger, status |-> "NotSwept"]
    BY <2>1, <2>2 DEF Filed
  <2> QED BY <2>1, <2>2, <2>3
<1>3. ~ (Transferred \/ Refused)
  BY DEF Transferred, Refused, Marked
<1>4. ~ UNCHANGED txs
  OBVIOUS
<1>5. ~ Custodian /\ ~ UNCHANGED vars
  BY <1>4 DEF Custodian, RegisterToken, ResetTokenBlocks, LookUp, Sweep, vars
<1>6. ~ \E l \in Ledgers : Arrive(l)
  BY <1>4 DEF Arrive
<1>7. ASSUME Indexer, ~ Found
      PROVE  \E c \in Cycles, t \in Tokens : PollAnswered(c, t)
  BY <1>4, <1>7 DEF Indexer, Tick, PollRejected, NotFound
<1>8. CASE \E c \in Cycles, t \in Tokens : PollAnswered(c, t)
  <2>1. PICK c \in Cycles, t \in Tokens : PollAnswered(c, t)
    BY <1>8
  <2>2. /\ txs'[k] = [token |-> t, ledger |-> polls[c][t].ledger, status |-> "NotSwept"]
        /\ polls[c][t].asked
        /\ k <= height[polls[c][t].ledger] /\ k \in Deposits[polls[c][t].ledger]
    BY <1>1, <2>1
  <2> QED BY <2>2
<1> QED BY <1>2, <1>3, <1>5, <1>6, <1>7, <1>8 DEF Next

LEMMA HeightsGrow ==
  ASSUME TypeOK, [Next]_vars, NEW l \in Ledgers
  PROVE  height[l] \in Nat /\ height'[l] \in Nat /\ height[l] <= height'[l]
<1> USE DEF calls, history
<1>1. height \in [Ledgers -> 0 .. MaxHeight]
  BY DEF TypeOK
<1>2. ASSUME NEW m \in Ledgers, Arrive(m) PROVE height'[l] \in {height[l], height[l] + 1}
  BY <1>1, <1>2 DEF Arrive
<1>3. CASE UNCHANGED height
  BY <1>1, <1>3, ConstantsOK
<1>4. CASE Custodian \/ Transferred \/ Refused \/ UNCHANGED vars
  BY <1>3, <1>4 DEF Custodian, RegisterToken, ResetTokenBlocks, LookUp, Sweep, Transferred,
     Refused, vars
<1>5. CASE Indexer
  BY <1>3, <1>5 DEF Indexer, Tick, PollAnswered, PollRejected, Found, NotFound
<1> QED BY <1>1, <1>2, <1>4, <1>5, ConstantsOK DEF Next

\* A copy is that of a record which is still there.
CopiesOK ==
  \A r \in sweep.todo : /\ r.index \in DOMAIN txs
                        /\ txs[r.index].token = r.token /\ txs[r.index].ledger = r.ledger

RecordsInv == TypeOK /\ RecordsNameTheirLedger /\ CopiesOK

LEMMA CopiesStep ==
  ASSUME RecordsInv, [Next]_vars
  PROVE  CopiesOK'
<1> USE DEF calls, history
<1>1. ASSUME NEW r \in sweep'.todo, r \in sweep.todo
      PROVE  /\ r.index \in DOMAIN txs'
             /\ txs'[r.index].token = r.token /\ txs'[r.index].ledger = r.ledger
  BY <1>1, RecordsStay DEF RecordsInv, CopiesOK
<1>2. ASSUME NEW T \in SUBSET Tokens, Sweep(T) PROVE CopiesOK'
  <2> DEFINE S == {[index |-> k, token |-> txs[k].token, ledger |-> txs[k].ledger] :
                     k \in {j \in DOMAIN txs : txs[j].status = "NotSwept" /\ txs[j].token \in T}}
  <2>1. S \in SUBSET Copy
    BY DEF RecordsInv, TypeOK, Copy
  <2>2. sweep' = Proceed(S) /\ UNCHANGED txs
    BY <1>2 DEF Sweep
  <2>3. sweep'.todo = S
    BY <2>1, <2>2, ProceedType DEF RecordsInv
  <2> QED BY <2>2, <2>3 DEF CopiesOK
<1>3. CASE Transferred \/ Refused
  <2>1. sweep' = Proceed(sweep.todo \ {First(sweep.todo)}) /\ sweep.todo \in SUBSET Copy
    BY <1>3 DEF Transferred, Refused, RecordsInv, TypeOK, SweepCall
  <2>2. sweep'.todo \subseteq sweep.todo
    BY <2>1, ProceedType DEF RecordsInv
  <2> QED BY <1>1, <2>2 DEF CopiesOK
<1>4. CASE UNCHANGED sweep
  BY <1>1, <1>4 DEF CopiesOK
<1>5. CASE Custodian \/ UNCHANGED vars
  BY <1>2, <1>4, <1>5 DEF Custodian, RegisterToken, ResetTokenBlocks, LookUp, vars
<1>6. CASE Indexer \/ \E l \in Ledgers : Arrive(l)
  BY <1>4, <1>6 DEF Indexer, Tick, PollAnswered, PollRejected, Found, NotFound, Arrive
<1> QED BY <1>3, <1>5, <1>6 DEF Next

LEMMA RecordsStep == RecordsInv /\ [Next]_vars => RecordsInv'
<1> SUFFICES ASSUME RecordsInv, [Next]_vars PROVE RecordsInv'
  OBVIOUS
<1>1. TypeOK /\ TypeOK'
  BY TypeStep DEF RecordsInv
<1>2. ASSUME NEW k \in DOMAIN txs'
      PROVE  k <= height'[txs'[k].ledger] /\ k \in Deposits[txs'[k].ledger]
  <2>1. k \in Nat /\ txs'[k].ledger \in Ledgers
    BY <1>1, ConstantsOK DEF TypeOK, Indices
  <2>2. k <= height[txs'[k].ledger] /\ k \in Deposits[txs'[k].ledger]
    <3>1. CASE k \in DOMAIN txs
      BY <1>1, <3>1, RecordsStay DEF RecordsInv, RecordsNameTheirLedger
    <3>2. CASE k \notin DOMAIN txs
      BY <1>1, <3>2, RecordsAdded
    <3> QED BY <3>1, <3>2
  <2>3. /\ height[txs'[k].ledger] \in Nat /\ height'[txs'[k].ledger] \in Nat
        /\ height[txs'[k].ledger] <= height'[txs'[k].ledger]
    BY <1>1, <2>1, HeightsGrow
  <2> QED BY <2>1, <2>2, <2>3
<1> QED BY <1>1, <1>2, CopiesStep DEF RecordsInv, RecordsNameTheirLedger

LEMMA RecordsInit == Init => RecordsInv
<1>1. Init => DOMAIN txs = {} /\ sweep.todo = {}
  BY DEF Init, NoSweep
<1> QED BY <1>1, TypeInit DEF RecordsInv, RecordsNameTheirLedger, CopiesOK

(* Every record names a ledger that has a deposit under its index, whatever is
   registered while polls and look-ups are out. *)
THEOREM RecordsNamed == Spec => []RecordsNameTheirLedger
<1>1. RecordsInv => RecordsNameTheirLedger
  BY DEF RecordsInv
<1> QED BY <1>1, RecordsInit, RecordsStep, PTL DEF Spec

-----------------------------------------------------------------------------
(* Payments *)

\* Whatever a type that was not moved has out is at its ledger.
AtLedger(t) ==
  /\ t = ICP => LedgerOf(t) = InitLedger
  /\ \A k \in DOMAIN txs : txs[k].token = t => txs[k].ledger = LedgerOf(t)
  /\ \A c \in Cycles : polls[c][t].asked => polls[c][t].ledger = LedgerOf(t)
  /\ (lookup.asked /\ lookup.token = t) => lookup.ledger = LedgerOf(t)
  /\ \A r \in sweep.todo : r.token = t => r.ledger = LedgerOf(t)
  /\ (sweep.todo # {} /\ First(sweep.todo).token = t) => sweep.ledger = LedgerOf(t)

PaidInv == RecordsInv /\ PaidWhereFound /\ \A t \in Tokens \ mixed : AtLedger(t)

\* A step that registers nothing.
LEMMA AtLedgerStep ==
  ASSUME PaidInv, [Next]_vars, UNCHANGED registered, NEW t \in Tokens, t \notin mixed
  PROVE  AtLedger(t)'
<1> USE DEF calls, history
<1>1. TypeOK /\ AtLedger(t) /\ LedgerOf(t)' = LedgerOf(t)
  BY DEF PaidInv, RecordsInv, LedgerOf
<1>2. ASSUME NEW k \in DOMAIN txs', txs'[k].token = t PROVE txs'[k].ledger = LedgerOf(t)
  <2>1. CASE k \in DOMAIN txs
    BY <1>1, <1>2, <2>1, RecordsStay DEF AtLedger
  <2>2. CASE k \notin DOMAIN txs
    BY <1>1, <1>2, <2>2, RecordsAdded DEF AtLedger
  <2> QED BY <2>1, <2>2
<1>3. SUFFICES
        /\ \A c \in Cycles : polls'[c][t].asked => polls'[c][t].ledger = LedgerOf(t)
        /\ (lookup'.asked /\ lookup'.token = t) => lookup'.ledger = LedgerOf(t)
        /\ \A r \in sweep'.todo : r.token = t => r.ledger = LedgerOf(t)
        /\ (sweep'.todo # {} /\ First(sweep'.todo).token = t) => sweep'.ledger = LedgerOf(t)
  BY <1>1, <1>2 DEF AtLedger
<1>4. CASE UNCHANGED calls
  BY <1>1, <1>4 DEF AtLedger
<1>5. ASSUME NEW c \in Cycles, Tick(c)
      PROVE  \A d \in Cycles : polls'[d][t].asked => polls'[d][t].ledger = LedgerOf(t)
  <2>1. t \in Polled => PollLedger(t) = LedgerOf(t)
    BY <1>1 DEF AtLedger, Polled, PollLedger, LedgerOf
  <2>2. polls'[c][t].asked => polls'[c][t].ledger = LedgerOf(t)
    BY <1>5, <2>1 DEF Tick, Idle, TypeOK, PaidInv, RecordsInv
  <2>3. \A d \in Cycles \ {c} : polls'[d] = polls[d]
    BY <1>1, <1>5 DEF Tick, TypeOK
  <2> QED BY <1>1, <2>2, <2>3 DEF AtLedger
<1>6. ASSUME NEW c \in Cycles, NEW u \in Tokens, PollAnswered(c, u) \/ PollRejected(c, u)
      PROVE  \A d \in Cycles : polls'[d][t].asked => polls'[d][t].ledger = LedgerOf(t)
  <2>1. polls' = [polls EXCEPT ![c][u] = Idle]
    BY <1>6 DEF PollAnswered, PollRejected
  <2>2. \A d \in Cycles : polls'[d][t] = polls[d][t] \/ polls'[d][t] = Idle
    BY <1>1, <2>1 DEF TypeOK
  <2> QED BY <1>1, <2>2 DEF AtLedger, Idle
<1>7. ASSUME NEW u \in Tokens, NEW i \in Indices, LookUp(u, i)
      PROVE  lookup'.token = t => lookup'.ledger = LedgerOf(t)
  BY <1>1, <1>7 DEF LookUp, LookupLedger, AtLedger
<1>8. CASE Found \/ NotFound
  BY <1>1, <1>8 DEF Found, NotFound, NoLookup, AtLedger
<1>9. ASSUME NEW S \in SUBSET Copy, sweep' = Proceed(S), UNCHANGED <<polls, lookup>>,
             \A r \in S : r.token = t => r.ledger = LedgerOf(t)
      PROVE  /\ \A r \in sweep'.todo : r.token = t => r.ledger = LedgerOf(t)
             /\ (sweep'.todo # {} /\ First(sweep'.todo).token = t) => sweep'.ledger = LedgerOf(t)
  <2>1. sweep'.todo = S
    BY <1>1, <1>9, ProceedType
  <2>2. S # {} => sweep'.ledger = LedgerOf(First(S).token)
    BY <1>9 DEF Proceed
  <2> QED BY <1>9, <2>1, <2>2
<1>10. ASSUME NEW T \in SUBSET Tokens, Sweep(T)
       PROVE  \E S \in SUBSET Copy : /\ sweep' = Proceed(S) /\ UNCHANGED <<polls, lookup>>
                                     /\ \A r \in S : r.token = t => r.ledger = LedgerOf(t)
  <2> DEFINE S == {[index |-> k, token |-> txs[k].token, ledger |-> txs[k].ledger] :
                     k \in {j \in DOMAIN txs : txs[j].status = "NotSwept" /\ txs[j].token \in T}}
  <2>1. S \in SUBSET Copy
    BY <1>1 DEF TypeOK, Copy
  <2>2. \A r \in S : r.token = t => r.ledger = LedgerOf(t)
    BY <1>1 DEF AtLedger
  <2>3. sweep' = Proceed(S) /\ UNCHANGED <<polls, lookup>>
    BY <1>10 DEF Sweep
  <2> QED BY <2>1, <2>2, <2>3
<1>11. CASE Transferred \/ Refused
  <2> DEFINE S == sweep.todo \ {First(sweep.todo)}
  <2>1. S \in SUBSET Copy /\ sweep' = Proceed(S) /\ UNCHANGED <<polls, lookup>>
    BY <1>1, <1>11 DEF Transferred, Refused, TypeOK, SweepCall
  <2>2. \A r \in S : r.token = t => r.ledger = LedgerOf(t)
    BY <1>1 DEF AtLedger
  <2> HIDE DEF S
  <2> QED BY <1>1, <1>9, <2>1, <2>2 DEF AtLedger
<1>12. CASE \E T \in SUBSET Tokens : Sweep(T)
  <2>1. PICK S \in SUBSET Copy : /\ sweep' = Proceed(S) /\ UNCHANGED <<polls, lookup>>
                                /\ \A r \in S : r.token = t => r.ledger = LedgerOf(t)
    BY <1>10, <1>12
  <2> QED BY <1>1, <1>9, <2>1 DEF AtLedger
<1>13. ASSUME Custodian, ~ \E T \in SUBSET Tokens : Sweep(T),
              ~ \E u \in Tokens, i \in Indices : LookUp(u, i)
       PROVE  UNCHANGED calls
  BY <1>13 DEF Custodian, RegisterToken, ResetTokenBlocks
<1>14. CASE \E u \in Tokens, i \in Indices : LookUp(u, i)
  <2>1. UNCHANGED <<polls, sweep>>
    BY <1>14 DEF LookUp
  <2> QED BY <1>1, <1>7, <1>14, <2>1 DEF AtLedger
<1>15. CASE \E c \in Cycles : Tick(c)
  <2>1. UNCHANGED <<lookup, sweep>>
    BY <1>15 DEF Tick
  <2> QED BY <1>1, <1>5, <1>15, <2>1 DEF AtLedger
<1>16. CASE \E c \in Cycles, u \in Tokens : PollAnswered(c, u) \/ PollRejected(c, u)
  <2>1. UNCHANGED <<lookup, sweep>>
    BY <1>16 DEF PollAnswered, PollRejected
  <2> QED BY <1>1, <1>6, <1>16, <2>1 DEF AtLedger
<1>17. CASE \E l \in Ledgers : Arrive(l)
  BY <1>4, <1>17 DEF Arrive
<1>18. CASE UNCHANGED vars
  BY <1>4, <1>18 DEF vars
<1> QED
  BY <1>4, <1>8, <1>11, <1>12, <1>13, <1>14, <1>15, <1>16, <1>17, <1>18 DEF Next, Indexer

\* A registration moves its own type only, and types it may move are mixed then.
LEMMA AtLedgerRegister ==
  ASSUME PaidInv, NEW t \in Tokens, NEW l \in Registrable[t], RegisterToken(t, l)
  PROVE  \A u \in Tokens \ mixed' : AtLedger(u)'
<1> SUFFICES ASSUME NEW u \in Tokens, u \notin mixed' PROVE AtLedger(u)'
  OBVIOUS
<1> USE DEF calls
<1>1. UNCHANGED <<txs, polls, lookup, sweep>>
  BY DEF RegisterToken
<1>2. LedgerOf(u)' = IF u = t THEN l ELSE LedgerOf(u)
  BY DEF RegisterToken, LedgerOf
<1>3. CASE u # t \/ l = LedgerOf(t)
  <2>1. u \notin mixed
    BY <1>3 DEF RegisterToken
  <2> QED BY <1>1, <1>2, <1>3, <2>1 DEF PaidInv, AtLedger
<1>4. CASE u = t /\ l # LedgerOf(t)
  <2>1. Untouched(t) /\ (t = ICP => l = InitLedger)
    BY <1>4 DEF RegisterToken
  <2>2. sweep.todo # {} => First(sweep.todo) \in sweep.todo
    BY FirstIn DEF PaidInv, RecordsInv, TypeOK, SweepCall
  <2> QED BY <1>1, <1>2, <1>4, <2>1, <2>2 DEF Untouched, AtLedger
<1> QED BY <1>3, <1>4

LEMMA PaidStep ==
  ASSUME PaidInv, [Next]_vars
  PROVE  PaidWhereFound'
<1> USE DEF calls, history
<1>1. TypeOK /\ RecordsInv
  BY DEF PaidInv, RecordsInv
<1> SUFFICES ASSUME NEW k \in DOMAIN txs', txs'[k].status = "Swept", txs'[k].token \notin mixed'
             PROVE  \E p \in paid' : /\ p.copy.index = k /\ p.copy.token = txs'[k].token
                                     /\ p.copy.ledger = txs'[k].ledger /\ p.at = txs'[k].ledger
  BY DEF PaidWhereFound
<1>2. k \in DOMAIN txs /\ txs'[k].token = txs[k].token /\ txs'[k].ledger = txs[k].ledger
  BY <1>1, RecordsAdded, RecordsStay
<1>3. paid \subseteq paid'
  <2>1. CASE Custodian \/ Indexer
    BY <2>1 DEF Custodian, RegisterToken, ResetTokenBlocks, LookUp, Sweep, Indexer, Tick,
       PollAnswered, PollRejected, Found, NotFound
  <2>2. CASE Transferred \/ Refused \/ UNCHANGED vars \/ \E l \in Ledgers : Arrive(l)
    BY <2>2 DEF Transferred, Refused, vars, Arrive
  <2> QED BY <2>1, <2>2 DEF Next
<1>4. CASE txs[k].status = "Swept" /\ txs[k].token \notin mixed
  BY <1>2, <1>3, <1>4 DEF PaidInv, PaidWhereFound
<1>5. CASE txs[k].status # "Swept"
  <2> DEFINE r == First(sweep.todo)
  <2>1. Transferred
    <3>1. ~ UNCHANGED txs
      BY <1>5
    <3>2. ASSUME NEW c \in Cycles, NEW t \in Tokens, PollAnswered(c, t) PROVE FALSE
      BY <1>2, <1>5, <3>2 DEF PollAnswered, Filed
    <3>3. ~ Found
      BY <1>2, <1>5 DEF Found, Filed
    <3>4. ~ Indexer
      BY <3>1, <3>2, <3>3 DEF Indexer, Tick, PollRejected, NotFound
    <3>5. ~ Custodian /\ ~ UNCHANGED vars /\ ~ \E l \in Ledgers : Arrive(l)
      BY <3>1 DEF Custodian, RegisterToken, ResetTokenBlocks, LookUp, Sweep, vars, Arrive
    <3>6. ASSUME Refused PROVE FALSE
      <4>1. r \in Copy /\ txs' = Marked(r, "FailedToSweep")
        BY <1>1, <3>6, FirstIn DEF Refused, TypeOK, SweepCall
      <4> QED BY <1>1, <1>2, <1>5, <4>1, MarkedType DEF Statuses
    <3> QED BY <3>4, <3>5, <3>6 DEF Next
  <2>2. r \in sweep.todo /\ r \in Copy /\ sweep.todo # {}
    BY <1>1, <2>1, FirstIn DEF Transferred, TypeOK, SweepCall
  <2>3. txs' = Marked(r, "Swept") /\ [copy |-> r, at |-> sweep.ledger] \in paid' /\ mixed' = mixed
    BY <2>1 DEF Transferred
  <2>4. k = r.index
    BY <1>1, <1>2, <1>5, <2>2, <2>3, MarkedType DEF Statuses
  <2>5. txs[k].token = r.token /\ txs[k].ledger = r.ledger
    BY <1>1, <2>2, <2>4 DEF RecordsInv, CopiesOK
  <2>6. r.token \in Tokens /\ r.token \notin mixed
    BY <1>2, <2>2, <2>3, <2>5 DEF Copy
  <2>7. sweep.ledger = LedgerOf(r.token) /\ r.ledger = LedgerOf(r.token)
    BY <2>2, <2>6 DEF PaidInv, AtLedger
  <2> QED BY <1>2, <2>3, <2>4, <2>5, <2>7
<1>6. CASE txs[k].token \in mixed
  <2>1. \E t \in Tokens, l \in Ledgers : RegisterToken(t, l) /\ Untouched(t) /\ t = txs[k].token
    <3>1. ~ UNCHANGED mixed
      BY <1>2, <1>6
    <3>2. ~ Indexer /\ ~ Transferred /\ ~ Refused /\ ~ UNCHANGED vars
      BY <3>1 DEF Indexer, Tick, PollAnswered, PollRejected, Found, NotFound, Transferred,
         Refused, vars
    <3>3. ~ \E l \in Ledgers : Arrive(l)
      BY <3>1 DEF Arrive
    <3>4. PICK t \in Tokens : \E l \in Registrable[t] : RegisterToken(t, l)
      BY <3>1, <3>2, <3>3 DEF Next, Custodian, ResetTokenBlocks, LookUp, Sweep
    <3>5. PICK l \in Registrable[t] : RegisterToken(t, l)
      BY <3>4
    <3>6. l \in Ledgers
      BY ConstantsOK
    <3>7. Untouched(t) /\ t = txs[k].token
      BY <1>2, <1>6, <3>5 DEF RegisterToken
    <3> QED BY <3>5, <3>6, <3>7
  <2> QED BY <1>2, <2>1 DEF Untouched
<1> QED BY <1>4, <1>5, <1>6

LEMMA PaidInvStep == PaidInv /\ [Next]_vars => PaidInv'
<1> SUFFICES ASSUME PaidInv, [Next]_vars PROVE PaidInv'
  OBVIOUS
<1>1. RecordsInv' /\ PaidWhereFound'
  BY RecordsStep, PaidStep DEF PaidInv
<1>2. \A t \in Tokens \ mixed' : AtLedger(t)'
  <2>1. CASE \E t \in Tokens : \E l \in Registrable[t] : RegisterToken(t, l)
    BY <2>1, AtLedgerRegister
  <2>2. CASE ~ \E t \in Tokens : \E l \in Registrable[t] : RegisterToken(t, l)
    <3>1. UNCHANGED <<registered, mixed>>
      BY <2>2 DEF Next, Indexer, Custodian, Tick, PollAnswered, PollRejected, Found, NotFound,
         Transferred, Refused, vars, Arrive, ResetTokenBlocks, LookUp, Sweep, calls, history
    <3> QED BY <3>1, AtLedgerStep
  <2> QED BY <2>1, <2>2
<1> QED BY <1>1, <1>2 DEF PaidInv

LEMMA PaidInit == Init => PaidInv
<1> SUFFICES ASSUME Init PROVE PaidInv
  OBVIOUS
<1>1. DOMAIN txs = {} /\ sweep.todo = {} /\ ~ lookup.asked /\ DOMAIN registered = {}
  BY DEF Init, NoSweep, NoLookup
<1>2. \A t \in Tokens : \A c \in Cycles : ~ polls[c][t].asked
  BY DEF Init, Idle
<1>3. \A t \in Tokens \ mixed : t = ICP => LedgerOf(t) = InitLedger
  BY <1>1 DEF Init, LedgerOf
<1> QED BY <1>1, <1>2, <1>3, RecordsInit DEF PaidInv, PaidWhereFound, AtLedger

(* A deposit reported as swept was paid on the ledger it was found on, unless
   its type was moved with something of its own around. *)
THEOREM SweptWhereFound == Spec => []PaidWhereFound
<1>1. PaidInv => PaidWhereFound
  BY DEF PaidInv
<1> QED BY <1>1, PaidInit, PaidInvStep, PTL DEF Spec

-----------------------------------------------------------------------------
(* Cursors *)

\* Some ledger took the cursor of t to n.
Reached(t, n) == n = 1 \/ \E l \in Ledgers : n <= reached[t][l]

CursorsReached ==
  \A t \in Tokens :
    /\ Reached(t, nextBlock[t])
    /\ \A c \in Cycles : polls[c][t].asked => Reached(t, polls[c][t].next)

\* What a ledger took the cursor over is stored, or was behind the cursor when
\* that ledger was first asked.
ReachedFiled ==
  \A t \in Tokens, l \in Ledgers : \A i \in Deposits[l] \cap Indices :
    i < reached[t][l] => i \in DOMAIN txs \/ \E m \in Ledgers \ {l} : i < reached[t][m]

CursorInv == TypeOK /\ CursorsReached /\ ReachedFiled

LEMMA ReachedGrows ==
  ASSUME TypeOK, [Next]_vars, NEW t \in Tokens, NEW l \in Ledgers
  PROVE  reached[t][l] \in Nat /\ reached'[t][l] \in Nat /\ reached[t][l] <= reached'[t][l]
<1> USE DEF calls, history
<1>1. reached \in [Tokens -> [Ledgers -> 1 .. (MaxHeight + 1)]] /\ reached[t][l] \in Nat
  BY ConstantsOK DEF TypeOK
<1>2. CASE UNCHANGED reached
  BY <1>1, <1>2
<1>3. ASSUME NEW c \in Cycles, NEW u \in Tokens, PollAnswered(c, u)
      PROVE  reached'[t][l] \in Nat /\ reached[t][l] <= reached'[t][l]
  <2> DEFINE p == polls[c][u]
  <2>1. p \in Poll /\ BlockCount(p) \in 1 .. (MaxHeight + 1)
    BY AnswerType DEF TypeOK
  <2>2. \/ UNCHANGED reached
        \/ /\ reached' = [reached EXCEPT ![u][p.ledger] = BlockCount(p)]
           /\ reached[u][p.ledger] < BlockCount(p)
    BY <1>3 DEF PollAnswered
  <2> HIDE DEF p
  <2>3. \/ reached'[t][l] = reached[t][l]
        \/ reached'[t][l] = BlockCount(p) /\ reached[t][l] < BlockCount(p)
    BY <1>1, <2>2
  <2> QED BY <1>1, <2>1, <2>3, ConstantsOK
<1>4. CASE Custodian \/ Transferred \/ Refused \/ UNCHANGED vars \/ \E m \in Ledgers : Arrive(m)
  BY <1>2, <1>4 DEF Custodian, RegisterToken, ResetTokenBlocks, LookUp, Sweep, Transferred,
     Refused, vars, Arrive
<1>5. CASE Indexer
  BY <1>1, <1>2, <1>3, <1>5 DEF Indexer, Tick, PollRejected, Found, NotFound
<1> QED BY <1>1, <1>4, <1>5 DEF Next

LEMMA ReachedStable ==
  ASSUME TypeOK, [Next]_vars, NEW t \in Tokens, NEW n \in Nat, Reached(t, n)
  PROVE  n = 1 \/ \E l \in Ledgers : n <= reached'[t][l]
<1>1. CASE n = 1
  BY <1>1
<1>2. ASSUME NEW l \in Ledgers, n <= reached[t][l] PROVE n <= reached'[t][l]
  BY <1>2, ReachedGrows
<1> QED BY <1>1, <1>2 DEF Reached

LEMMA CursorsStep ==
  ASSUME CursorInv, [Next]_vars
  PROVE  CursorsReached'
<1> USE DEF calls, history
<1>1. /\ TypeOK /\ CursorsReached
      /\ \A t \in Tokens : nextBlock[t] \in Nat
      /\ \A c \in Cycles, t \in Tokens : polls[c][t].next \in Nat /\ polls[c][t] \in Poll
  BY ConstantsOK DEF CursorInv, TypeOK, Poll
<1> SUFFICES ASSUME NEW t \in Tokens
             PROVE  /\ Reached(t, nextBlock[t])'
                    /\ \A c \in Cycles : polls'[c][t].asked => Reached(t, polls[c][t].next)'
  BY DEF CursorsReached
<1>2. Reached(t, nextBlock[t]) /\ \A c \in Cycles : polls[c][t].asked => Reached(t, polls[c][t].next)
  BY <1>1 DEF CursorsReached
<1>3. CASE UNCHANGED <<nextBlock, polls>>
  BY <1>1, <1>2, <1>3, ReachedStable DEF Reached
<1>4. ASSUME NEW d \in Cycles, Tick(d)
      PROVE  \A c \in Cycles : polls'[c][t].asked => Reached(t, polls[c][t].next)'
  <2>1. UNCHANGED <<nextBlock, reached>>
    BY <1>4 DEF Tick
  <2>2. \A c \in Cycles : polls'[c][t] = polls[c][t]
                          \/ ~ polls'[c][t].asked \/ polls'[c][t].next = nextBlock[t]
    BY <1>1, <1>4 DEF Tick, TypeOK, Idle
  <2> QED BY <1>2, <2>1, <2>2 DEF Reached
<1>5. ASSUME NEW d \in Cycles, NEW u \in Tokens, PollAnswered(d, u) \/ PollRejected(d, u)
      PROVE  /\ Reached(t, nextBlock[t])'
             /\ \A c \in Cycles : polls'[c][t].asked => Reached(t, polls[c][t].next)'
  <2> DEFINE p == polls[d][u]
  <2>1. polls' = [polls EXCEPT ![d][u] = Idle] /\ p.asked
    BY <1>5 DEF PollAnswered, PollRejected
  <2>2. \A c \in Cycles : polls'[c][t] = polls[c][t] \/ ~ polls'[c][t].asked
    BY <1>1, <2>1 DEF TypeOK, Idle
  <2>3. \A c \in Cycles : polls'[c][t].asked => Reached(t, polls[c][t].next)'
    BY <1>1, <1>2, <2>2, ReachedStable DEF Reached
  <2>4. CASE u # t
    <3>1. nextBlock'[t] = nextBlock[t]
      BY <1>1, <1>5, <2>4 DEF PollAnswered, PollRejected, TypeOK
    <3> QED BY <1>1, <1>2, <2>3, <3>1, ReachedStable DEF Reached
  <2>5. CASE u = t /\ nextBlock'[t] = p.next
    <3>1. p.next = 1 \/ \E l \in Ledgers : p.next <= reached'[t][l]
      BY <1>1, <1>2, <2>1, <2>5, ReachedStable
    <3> QED BY <2>3, <2>5, <3>1 DEF Reached
  <2>6. CASE u = t /\ nextBlock'[t] # p.next
    <3>1. PollAnswered(d, t) /\ nextBlock'[t] = BlockCount(p) /\ p.next <= Last(p)
      BY <1>1, <1>5, <2>6 DEF PollAnswered, PollRejected, TypeOK, BlockCount
    <3>2. p \in Poll /\ p.ledger \in Ledgers /\ BlockCount(p) \in 1 .. (MaxHeight + 1)
      BY <1>1, AnswerType DEF Poll
    <3>3. reached[t][p.ledger] \in Nat
      BY <1>1, <3>2, ReachedGrows
    <3>4. \/ BlockCount(p) <= reached[t][p.ledger] /\ UNCHANGED reached
          \/ reached' = [reached EXCEPT ![t][p.ledger] = BlockCount(p)]
      BY <2>6, <3>1, <3>2, <3>3, ConstantsOK DEF PollAnswered
    <3>5. BlockCount(p) <= reached'[t][p.ledger]
      <4> HIDE DEF p
      <4> QED BY <1>1, <3>2, <3>3, <3>4, ConstantsOK DEF TypeOK
    <3>6. \E l \in Ledgers : nextBlock'[t] <= reached'[t][l]
      BY <3>1, <3>2, <3>5
    <3> QED BY <2>3, <3>6 DEF Reached
  <2> QED BY <2>4, <2>5, <2>6
<1>6. CASE ResetTokenBlocks
  BY <1>1, <1>2, <1>6, ReachedStable DEF ResetTokenBlocks, Reached
<1>7. CASE Custodian
  BY <1>3, <1>6, <1>7 DEF Custodian, RegisterToken, LookUp, Sweep
<1>8. CASE Transferred \/ Refused \/ UNCHANGED vars \/ \E l \in Ledgers : Arrive(l)
  BY <1>3, <1>8 DEF Transferred, Refused, vars, Arrive
<1>9. CASE \E c \in Cycles : Tick(c)
  <2>1. UNCHANGED <<nextBlock, reached>>
    BY <1>9 DEF Tick
  <2> QED BY <1>2, <1>4, <1>9, <2>1 DEF Reached
<1>10. CASE Found \/ NotFound
  BY <1>3, <1>10 DEF Found, NotFound
<1> QED BY <1>5, <1>7, <1>8, <1>9, <1>10 DEF Next, Indexer

LEMMA ReachedFiledStep ==
  ASSUME CursorInv, [Next]_vars
  PROVE  ReachedFiled'
<1> USE DEF calls, history
<1>1. TypeOK /\ CursorsReached /\ ReachedFiled
  BY DEF CursorInv
<1> SUFFICES ASSUME NEW t \in Tokens, NEW l \in Ledgers, NEW i \in Deposits[l] \cap Indices,
                    i < reached'[t][l], i \notin DOMAIN txs'
             PROVE  \E m \in Ledgers \ {l} : i < reached'[t][m]
  BY DEF ReachedFiled
<1>2. i \in Nat /\ i >= 1 /\ i \notin DOMAIN txs
  BY <1>1, RecordsStay, ConstantsOK DEF Indices
<1>3. ASSUME NEW m \in Ledgers, i < reached[t][m] PROVE i < reached'[t][m]
  BY <1>1, <1>2, <1>3, ReachedGrows
<1>4. CASE i < reached[t][l]
  BY <1>1, <1>2, <1>3, <1>4 DEF ReachedFiled
<1>5. CASE ~ (i < reached[t][l])
  <2>1. PICK c \in Cycles : PollAnswered(c, t) /\ polls[c][t].ledger = l
    <3>1. reached'[t][l] # reached[t][l]
      BY <1>5
    <3>2. ~ Custodian /\ ~ Transferred /\ ~ Refused /\ ~ UNCHANGED vars
      BY <3>1 DEF Custodian, RegisterToken, ResetTokenBlocks, LookUp, Sweep, Transferred,
         Refused, vars
    <3>3. ~ \E m \in Ledgers : Arrive(m)
      BY <3>1 DEF Arrive
    <3>4. PICK c \in Cycles, u \in Tokens : PollAnswered(c, u)
      BY <3>1, <3>2, <3>3 DEF Next, Indexer, Tick, PollRejected, Found, NotFound
    <3>5. u = t /\ polls[c][u].ledger = l
      BY <1>1, <3>1, <3>4 DEF PollAnswered, TypeOK
    <3> QED BY <3>4, <3>5
  <2> DEFINE p == polls[c][t]
  <2>2. p \in Poll /\ p.asked /\ p.next \in Nat /\ reached[t][l] \in Nat
    BY <1>1, <2>1, ReachedGrows, ConstantsOK DEF TypeOK, Poll, PollAnswered
  <2>3. p.next <= Last(p) /\ reached'[t][l] = BlockCount(p) /\ BlockCount(p) = Last(p) + 1
    <3>1. reached' # reached
      BY <1>5
    <3>2. p.next <= Last(p) /\ reached' = [reached EXCEPT ![t][l] = BlockCount(p)]
      BY <2>1, <3>1 DEF PollAnswered
    <3>3. BlockCount(p) = Last(p) + 1
      BY <3>2 DEF BlockCount
    <3> QED BY <1>1, <3>2, <3>3 DEF TypeOK
  <2>4. Last(p) \in Int
    BY <1>1, <2>2, ConstantsOK DEF TypeOK, Poll, Last
  <2>5. i < p.next
    <3>1. CASE p.next <= i
      <4>1. i \in Answer(p) \cap Deposits[p.ledger]
        BY <1>2, <2>1, <2>2, <2>3, <2>4, <3>1 DEF Answer
      <4>2. i \in DOMAIN txs'
        BY <2>1, <4>1 DEF PollAnswered, Filed
      <4> QED BY <4>2
    <3> QED BY <1>2, <2>2, <3>1
  <2>6. PICK m \in Ledgers : p.next <= reached[t][m]
    BY <1>1, <1>2, <2>2, <2>5 DEF CursorsReached, Reached
  <2>7. reached[t][m] \in Nat
    BY <1>1, ReachedGrows
  <2>8. i < reached[t][m]
    BY <1>2, <2>2, <2>5, <2>6, <2>7
  <2> QED BY <1>3, <1>5, <2>8
<1> QED BY <1>4, <1>5

LEMMA CursorInvInit == Init => CursorInv
<1> SUFFICES ASSUME Init PROVE CursorInv
  OBVIOUS
<1>1. /\ \A t \in Tokens : nextBlock[t] = 1 /\ \A c \in Cycles : ~ polls[c][t].asked
      /\ \A t \in Tokens, l \in Ledgers : reached[t][l] = 1
  BY DEF Init, Idle
<1>2. \A i \in Indices : ~ (i < 1)
  BY ConstantsOK DEF Indices
<1> QED BY <1>1, <1>2, TypeInit DEF CursorInv, CursorsReached, Reached, ReachedFiled

(* Every deposit below the cursor, on the ledger its type is polled at, has a record
   that names the ledger, but for those whose key another ledger's deposit has and
   those that the cursor had passed on another ledger: none is passed over because
   of overlapping cycles, late answers, rejections or resets alone. *)
THEOREM OnlyMovesMiss == Spec => []MissedOnlyByMove
<1>1. CursorInv /\ [Next]_vars => CursorInv'
  BY TypeStep, CursorsStep, ReachedFiledStep DEF CursorInv
<1>2. CursorInv /\ RecordsNameTheirLedger => MissedOnlyByMove
  <2> SUFFICES ASSUME CursorInv, RecordsNameTheirLedger,
                      NEW t \in Polled, NEW i \in Deposits[PollLedger(t)] \cap Indices,
                      i < nextBlock[t]
               PROVE  \/ FiledFrom(i, PollLedger(t)) \/ Shadowed(i, PollLedger(t))
                      \/ PassedOnAnother(t, i, PollLedger(t))
    BY DEF MissedOnlyByMove
  <2>1. t \in Tokens /\ TypeOK
    BY ConstantsOK DEF CursorInv, TypeOK, Polled
  <2>2. i \in Nat /\ i >= 1 /\ nextBlock[t] \in Nat /\ PollLedger(t) \in Ledgers
    BY <2>1, LedgerTypes, ConstantsOK DEF Indices, TypeOK
  <2>3. CASE i \in DOMAIN txs
    <3>1. txs[i].ledger \in Ledgers /\ i \in Deposits[txs[i].ledger]
      BY <2>1, <2>3 DEF TypeOK, RecordsNameTheirLedger
    <3> QED BY <2>3, <3>1 DEF FiledFrom, Shadowed
  <2>4. CASE i \notin DOMAIN txs
    <3>1. PICK m \in Ledgers : nextBlock[t] <= reached[t][m]
      BY <2>1, <2>2 DEF CursorInv, CursorsReached, Reached
    <3>2. reached[t][m] \in Nat
      BY <2>1, ConstantsOK DEF TypeOK
    <3>3. i < reached[t][m]
      BY <2>2, <3>1, <3>2
    <3> QED BY <2>1, <2>2, <2>4, <3>3 DEF CursorInv, ReachedFiled, PassedOnAnother
  <2> QED BY <2>3, <2>4
<1> QED BY <1>1, <1>2, CursorInvInit, RecordsNamed, PTL DEF Spec
===============================================================================
