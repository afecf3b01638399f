------------------------ MODULE BlockIndexerBookProofs ------------------------
(***************************************************************************)
(* No deposit is lost below a cursor, the indexer implements DepositBook,  *)
(* and it announces a deposit once, for every value of the constants.      *)
(*                                                                         *)
(* NoDepositLost speaks of the cursor only, but a poll that is out will    *)
(* set the cursor to a value it took earlier, so the invariant must also   *)
(* say that everything below the `next' of every poll is settled.          *)
(***************************************************************************)
EXTENDS BlockIndexerProofs, CollectionLemmas

\* Block i is on the ledger and accounted for, or an operator skipped it.
Settled(t, i) ==
  \/ Deposit(t, i) \in skipped
  \/ /\ i \in 1 .. Len(log[t])
     /\ (archived[t] < i /\ PollSees(t, log[t][i])) => Accounted(t, i)

Passed(t, n) == \A i \in Nat \ {0} : i < n => Settled(t, i)

IssuedOK == \A t \in Tokens : \A i \in 1 .. Len(log[t]) : log[t][i].issued <= nonce

CursorsOK == \A t \in Tokens : Passed(t, nextBlock[t])

OutstandingOK ==
  \A c \in Cycles, t \in Tokens :
    polls[c][t].phase # "idle" => Passed(t, polls[c][t].next)

CursorInv == TypeInv /\ IssuedOK /\ CursorsOK /\ OutstandingOK

-----------------------------------------------------------------------------
(* What has been settled stays settled *)

LEMMA HistoryGrows ==
  ASSUME TypeInv, [Next]_vars
  PROVE  /\ cleared \subseteq cleared' /\ skipped \subseteq skipped'
         /\ shadowed \subseteq shadowed'
<1> USE DEF history
<1>1. CASE Ledgers \/ \E c \in Cycles : Tick(c)
  BY <1>1 DEF Ledgers, LedgerAppend, LedgerArchive, Tick
<1>2. CASE \E c \in Cycles, t \in Tokens : PollStep(c, t)
  BY <1>2 DEF PollStep, AnswerOk, AnswerReject, StoreBatch, StoreAndNotify,
     TrapOnBatch, WebhookReply
<1>3. CASE Operator
  BY <1>3 DEF Operator, AddSubaccount, SetWebhookUrl, ResetTokenBlocks, RegisterToken,
     SetTokenNextBlock, SetNextBlock, ClearTransactions, ProcessTokenArchivedBlock
<1>4. CASE UNCHANGED vars
  BY <1>4 DEF vars
<1> QED BY <1>1, <1>2, <1>3, <1>4 DEF Next

LEMMA AccountedStable ==
  ASSUME TypeInv, [Next]_vars, NEW t, NEW i, Accounted(t, i)
  PROVE  Accounted(t, i)'
<1>1. CASE Indexed(t, i)
  <2>1. PICK k \in DOMAIN txs : txs[k] = Deposit(t, i)
    BY <1>1 DEF Indexed
  <2>2. IF k \in DOMAIN txs' THEN txs'[k] = Deposit(t, i) ELSE Deposit(t, i) \in cleared'
    BY <2>1, RecordsKept
  <2> QED BY <2>2 DEF Accounted, Indexed
<1>2. CASE Deposit(t, i) \in cleared \cup skipped \cup shadowed
  BY <1>2, HistoryGrows DEF Accounted
<1> QED BY <1>1, <1>2 DEF Accounted

LEMMA SettledStable ==
  ASSUME TypeInv, [Next]_vars, NEW t \in Tokens, NEW i \in Nat \ {0}, Settled(t, i)
  PROVE  Settled(t, i)'
<1>1. CASE Deposit(t, i) \in skipped
  BY <1>1, HistoryGrows DEF Settled
<1>2. CASE Deposit(t, i) \notin skipped
  <2>1. /\ i \in 1 .. Len(log[t])
        /\ (archived[t] < i /\ PollSees(t, log[t][i])) => Accounted(t, i)
    BY <1>2 DEF Settled
  <2>2. i \in 1 .. Len(log'[t]) /\ log'[t][i] = log[t][i]
    BY <2>1, LedgersOnlyGrow
  <2>3. archived'[t] < i => archived[t] < i
    BY LedgersOnlyGrow
  <2>4. (archived'[t] < i /\ PollSees(t, log[t][i])) => Accounted(t, i)'
    BY <2>1, <2>3, AccountedStable
  <2> QED BY <2>2, <2>4 DEF Settled, PollSees, AsPolled
<1> QED BY <1>1, <1>2

LEMMA PassedStable ==
  ASSUME TypeInv, [Next]_vars, NEW t \in Tokens, NEW n, Passed(t, n)
  PROVE  Passed(t, n)'
<1>1. ASSUME NEW i \in Nat \ {0}, i < n PROVE Settled(t, i)'
  BY <1>1, SettledStable DEF Passed
<1> QED BY <1>1 DEF Passed

LEMMA IssuedStep ==
  ASSUME TypeInv, IssuedOK, [Next]_vars
  PROVE  IssuedOK'
<1>1. ASSUME NEW t \in Tokens, NEW i \in 1 .. Len(log'[t])
      PROVE  log'[t][i].issued <= nonce'
  <2>1. CASE i \in 1 .. Len(log[t])
    <3>1. log'[t][i] = log[t][i] /\ nonce \in Nat /\ nonce' \in Nat /\ nonce' >= nonce
      BY <2>1, LedgersOnlyGrow
    <3>2. log[t][i] \in LogBlock /\ log[t][i].issued <= nonce
      BY <2>1 DEF IssuedOK, TypeInv, TypeOK
    <3>3. log[t][i].issued \in Nat
      BY <3>2, ConstantsOK DEF LogBlock
    <3> QED BY <3>1, <3>2, <3>3
  <2>2. CASE i \notin 1 .. Len(log[t])
    <3>1. log'[t] # log[t]
      BY <2>2
    <3>2. PICK u \in Tokens, b \in Block : LedgerAppend(u, b)
      <4> USE DEF external
      <4>1. ~ (\E c \in Cycles : Tick(c)) /\ ~ UNCHANGED vars
        BY <3>1 DEF Tick, vars
      <4>2. ~ \E c \in Cycles, v \in Tokens : PollStep(c, v)
        BY <3>1 DEF PollStep, AnswerOk, AnswerReject, StoreBatch, StoreAndNotify,
           TrapOnBatch, WebhookReply
      <4>3. ~ Operator
        BY <3>1 DEF Operator, AddSubaccount, SetWebhookUrl, ResetTokenBlocks, RegisterToken,
           SetTokenNextBlock, SetNextBlock, ClearTransactions, ProcessTokenArchivedBlock
      <4>4. Ledgers
        BY <4>1, <4>2, <4>3 DEF Next
      <4> QED BY <3>1, <4>4, ConstantsOK DEF Ledgers, LedgerArchive
    <3> DEFINE e == [op |-> b.op, from |-> b.from, to |-> b.to,
                     spender |-> b.spender, issued |-> nonce]
    <3>3. u = t /\ log'[t] = Append(log[t], e) /\ nonce' = nonce
      BY <3>1, <3>2 DEF LedgerAppend, TypeInv, TypeOK, config
    <3>4. log[t] \in Seq(LogBlock) /\ e \in LogBlock
      BY DEF TypeInv, TypeOK, Block, LogBlock
    <3> HIDE DEF e
    <3>5. Len(log'[t]) = Len(log[t]) + 1 /\ log'[t][Len(log[t]) + 1] = e
      BY <3>3, <3>4
    <3>6. Len(log[t]) \in Nat
      BY <3>4, LenProperties
    <3>7. i = Len(log[t]) + 1
      BY <2>2, <3>5, <3>6
    <3>8. e.issued = nonce /\ nonce \in Int
      BY ConstantsOK DEF e, TypeInv, TypeOK
    <3> QED BY <3>3, <3>5, <3>7, <3>8
  <2> QED BY <2>1, <2>2
<1> QED BY <1>1 DEF IssuedOK

-----------------------------------------------------------------------------
(* An answer settles every block up to the count it returns *)

\* A block of the answer that holds a deposit is recorded, or its key is taken.
LEMMA AnswerRecords ==
  ASSUME CursorInv, NEW t \in Tokens, NEW p \in Poll, p.phase = "answered",
         PollOK(t, p), NEW i \in Blocks(p), PollSees(t, log[t][i])
  PROVE  \/ \E k \in DOMAIN Stored(t, p) : Stored(t, p)[k] = Deposit(t, i)
         \/ Deposit(t, i) \in Shadows(t, p)
<1>1. /\ p.next \in Nat \ {0} /\ p.lo \in Nat /\ p.hi \in Nat
      /\ i \in Nat /\ i \in 1 .. Len(log[t]) /\ p.lo <= i
  BY AnswerStored DEF PollOK, Poll, Blocks, CursorInv
<1>2. log[t][i] \in LogBlock /\ log[t][i].issued <= nonce
  BY <1>1 DEF CursorInv, IssuedOK, TypeInv, TypeOK
<1>3. nonce \in Int /\ log[t][i].issued \in Int
  BY <1>2, ConstantsOK DEF LogBlock, CursorInv, TypeInv, TypeOK
<1>4. Includes(AsPolled(t, log[t][i]).to)
  <2> DEFINE a == AsPolled(t, log[t][i]).to
  <2>1. a \in 0 .. (log[t][i].issued - 1)
    BY DEF PollSees
  <2> HIDE DEF a
  <2>2. a \in 0 .. (nonce - 1)
    BY <2>1, <1>2, <1>3
  <2> QED BY <2>2 DEF a, Includes
<1>5. i \in Matched(t, p)
  BY <1>4 DEF PollSees, Matched, MatchesSubaccount
<1>6. CASE Key(p, i) \in DOMAIN txs
  <2>1. Key(p, i) \in DOMAIN Stored(t, p) /\ Stored(t, p)[Key(p, i)] = txs[Key(p, i)]
    BY <1>6 DEF Stored
  <2>2. txs[Key(p, i)] # Deposit(t, i) => Deposit(t, i) \in Shadows(t, p)
    BY <1>5, <1>6 DEF Shadows
  <2> QED BY <2>1, <2>2
<1>7. CASE Key(p, i) \notin DOMAIN txs
  <2>1. i \in Fresh(t, p)
    BY <1>5, <1>7 DEF Fresh
  <2>2. Key(p, i) \in DOMAIN Stored(t, p)
        /\ Stored(t, p)[Key(p, i)] = Deposit(t, p.lo + (Key(p, i) - p.next))
    BY <2>1, <1>7 DEF Stored
  <2>3. p.lo + (Key(p, i) - p.next) = i
    BY <1>1 DEF Key
  <2> QED BY <2>2, <2>3
<1> QED BY <1>6, <1>7

LEMMA AnswerPassed ==
  ASSUME CursorInv, [Next]_vars, NEW c \in Cycles, NEW t \in Tokens,
         StoreBatch(c, t) \/ StoreAndNotify(c, t),
         NEW n, n = BlockCount(polls[c][t])
  PROVE  Passed(t, n)'
<1> DEFINE p == polls[c][t]
<1>1. /\ p \in Poll /\ PollOK(t, p) /\ p.phase = "answered"
      /\ txs' = Stored(t, p) /\ shadowed' = shadowed \cup Shadows(t, p)
      /\ UNCHANGED <<log, archived>>
  BY DEF StoreBatch, StoreAndNotify, CursorInv, TypeInv, TypeOK, PollsOK, external
<1>2. p.next \in Nat \ {0} /\ p.lo \in Nat /\ p.hi \in Nat
  BY <1>1 DEF PollOK, Poll
<1>3. log[t] \in Seq(LogBlock) /\ archived[t] \in Nat /\ archived[t] <= Len(log[t])
  BY DEF CursorInv, TypeInv, TypeOK
<1>4. Len(log[t]) \in Nat
  BY <1>3, LenProperties
<1>5. ASSUME NEW i \in Nat \ {0}, i < p.next PROVE Settled(t, i)'
  <2>1. Settled(t, i)
    BY <1>1, <1>5 DEF CursorInv, OutstandingOK, Passed
  <2> QED BY <2>1, SettledStable DEF CursorInv
<1>6. ASSUME NEW i \in Nat \ {0}, ~ (i < p.next), i < n PROVE Settled(t, i)'
  <2>1. p.lo <= p.hi /\ n = p.next + (p.hi - p.lo + 1)
    BY <1>2, <1>6 DEF BlockCount
  <2>2. p.next <= p.lo /\ p.hi <= Len(log[t])
        /\ (p.lo = p.next \/ p.lo <= archived[t] + 1)
    BY <1>1, <2>1 DEF PollOK
  <2>3. i <= p.hi /\ i \in 1 .. Len(log[t])
    BY <1>2, <1>4, <1>6, <2>1, <2>2
  <2>4. CASE i \in Blocks(p)
    <3>1. PollSees(t, log[t][i]) => Accounted(t, i)'
      BY <1>1, <2>4, AnswerRecords DEF Accounted, Indexed
    <3> QED BY <1>1, <2>3, <3>1 DEF Settled, PollSees, AsPolled
  <2>5. CASE i \notin Blocks(p)
    <3>1. ~ (archived[t] < i)
      BY <1>2, <1>3, <1>6, <2>2, <2>3, <2>5 DEF Blocks
    <3> QED BY <1>1, <2>3, <3>1 DEF Settled
  <2> QED BY <2>4, <2>5
<1> QED BY <1>5, <1>6 DEF Passed

-----------------------------------------------------------------------------
(* The invariant *)

\* The positions an operator's jump leaves out are settled by `skipped'.
LEMMA JumpPassed ==
  ASSUME CursorInv, [Next]_vars, NEW t \in Tokens, NEW b \in Nat, SetTokenNextBlock(t, b)
  PROVE  Passed(t, b)'
<1>1. ASSUME NEW i \in Nat \ {0}, i < b PROVE Settled(t, i)'
  <2>1. nextBlock[t] \in Nat
    BY DEF CursorInv, TypeInv, TypeOK
  <2>2. CASE i < nextBlock[t]
    <3>1. Settled(t, i)
      BY <2>2 DEF CursorInv, CursorsOK, Passed
    <3> QED BY <3>1, SettledStable DEF CursorInv
  <2>3. CASE i \in nextBlock[t] .. (b - 1)
    BY <2>3 DEF SetTokenNextBlock, Settled
  <2> QED BY <1>1, <2>1, <2>2, <2>3
<1> QED BY <1>1 DEF Passed

LEMMA CursorStep ==
  ASSUME CursorInv, [Next]_vars
  PROVE  CursorsOK'
<1> USE DEF external, config, cursors
<1>1. TypeInv /\ nextBlock \in [Tokens -> Nat \ {0}] /\ polls \in [Cycles -> [Tokens -> Poll]]
  BY DEF CursorInv, TypeInv, TypeOK
<1>2. ASSUME NEW t \in Tokens, NEW n, n = nextBlock'[t]
      PROVE  n = nextBlock[t] \/ n = 1 \/ Passed(t, n)'
  <2>1. CASE UNCHANGED nextBlock
    BY <1>2, <2>1
  <2>2. ASSUME NEW c \in Cycles, NEW u \in Tokens, StoreBatch(c, u)
        PROVE  n = nextBlock[t] \/ Passed(t, n)'
    <3>1. nextBlock' = [nextBlock EXCEPT ![u] = BlockCount(polls[c][u])]
      BY <2>2 DEF StoreBatch, Finish
    <3>2. CASE t = u
      BY <1>2, <1>1, <2>2, <3>1, <3>2, AnswerPassed
    <3>3. CASE t # u
      BY <1>2, <1>1, <3>1, <3>3
    <3> QED BY <3>2, <3>3
  <2>3. ASSUME NEW c \in Cycles, NEW u \in Tokens, WebhookReply(c, u)
        PROVE  n = nextBlock[t] \/ Passed(t, n)'
    <3>1. nextBlock' = [nextBlock EXCEPT ![u] = polls[c][u].next]
      BY <2>3 DEF WebhookReply, Finish
    <3>2. Passed(u, polls[c][u].next)
      BY <2>3 DEF CursorInv, OutstandingOK, WebhookReply
    <3>3. ASSUME NEW m, m = polls[c][u].next PROVE Passed(u, m)'
      BY <1>1, <3>2, <3>3, PassedStable
    <3>4. CASE t = u
      BY <1>2, <1>1, <3>1, <3>3, <3>4
    <3>5. CASE t # u
      BY <1>2, <1>1, <3>1, <3>5
    <3> QED BY <3>4, <3>5
  <2>4. ASSUME NEW u \in Tokens, NEW b \in 1 .. (MaxLog + 1), SetTokenNextBlock(u, b)
        PROVE  n = nextBlock[t] \/ Passed(t, n)'
    <3>1. nextBlock' = [nextBlock EXCEPT ![u] = b] /\ b \in Nat
      BY <2>4, ConstantsOK DEF SetTokenNextBlock
    <3>2. Passed(u, b)'
      BY <2>4, <3>1, JumpPassed
    <3> QED BY <1>2, <1>1, <3>1, <3>2
  <2>5. CASE ResetTokenBlocks
    BY <1>2, <2>5 DEF ResetTokenBlocks
  <2>6. CASE Ledgers \/ \E c \in Cycles : Tick(c)
    BY <2>1, <2>6 DEF Ledgers, LedgerAppend, LedgerArchive, Tick
  <2>7. CASE \E c \in Cycles, u \in Tokens : PollStep(c, u)
    BY <2>1, <2>2, <2>3, <2>7 DEF PollStep, AnswerOk, AnswerReject, StoreAndNotify,
       TrapOnBatch
  <2>8. CASE Operator
    BY <2>1, <2>4, <2>5, <2>8 DEF Operator, AddSubaccount, SetWebhookUrl, RegisterToken,
       SetNextBlock, ClearTransactions, ProcessTokenArchivedBlock
  <2>9. CASE UNCHANGED vars
    BY <2>1, <2>9 DEF vars
  <2> QED BY <2>6, <2>7, <2>8, <2>9 DEF Next
<1>3. ASSUME NEW t \in Tokens, NEW n, n = nextBlock'[t] PROVE Passed(t, n)'
  <2>1. Passed(t, nextBlock[t])
    BY DEF CursorInv, CursorsOK
  <2>2. CASE n = nextBlock[t]
    BY <1>1, <2>1, <2>2, PassedStable
  <2>3. CASE n = 1
    BY <2>3 DEF Passed
  <2> QED BY <1>2, <1>3, <2>2, <2>3
<1> QED BY <1>3 DEF CursorsOK, Passed

LEMMA OutstandingStep ==
  ASSUME CursorInv, [Next]_vars
  PROVE  OutstandingOK'
<1> USE DEF external, config, cursors
<1>1. TypeInv /\ polls \in [Cycles -> [Tokens -> Poll]]
  BY DEF CursorInv, TypeInv, TypeOK
<1>2. ASSUME NEW c \in Cycles, NEW t \in Tokens, NEW n,
             n = polls'[c][t].next, polls'[c][t].phase # "idle"
      PROVE  Passed(t, n)'
  <2>1. CASE polls'[c][t] = polls[c][t]
    <3>1. Passed(t, n)
      BY <1>2, <2>1 DEF CursorInv, OutstandingOK
    <3> QED BY <1>1, <3>1, PassedStable
  <2>2. ASSUME NEW d \in Cycles, Tick(d) PROVE Passed(t, n)'
    <3>1. CASE d = c
      <4>1. polls'[c][t] = IF t \in Polled THEN Asked(nextBlock[t]) ELSE Idle
        BY <1>1, <2>2, <3>1 DEF Tick
      <4>2. n = nextBlock[t]
        BY <1>2, <4>1 DEF Asked, Idle
      <4>3. Passed(t, n)
        BY <4>2 DEF CursorInv, CursorsOK
      <4> QED BY <1>1, <4>3, PassedStable
    <3>2. CASE d # c
      BY <1>1, <2>1, <2>2, <3>2 DEF Tick
    <3> QED BY <3>1, <3>2
  <2>3. ASSUME NEW d \in Cycles, NEW u \in Tokens, PollStep(d, u) PROVE Passed(t, n)'
    <3>1. CASE c = d /\ t = u
      <4>1. CASE AnswerOk(c, t) \/ AnswerReject(c, t)
        <5>1. polls[c][t].phase = "asked" /\ n = polls[c][t].next
          BY <1>1, <1>2, <4>1 DEF AnswerOk, AnswerReject, Answered
        <5>2. Passed(t, n)
          BY <5>1 DEF CursorInv, OutstandingOK
        <5> QED BY <1>1, <5>2, PassedStable
      <4>2. CASE StoreAndNotify(c, t)
        <5>1. n = BlockCount(polls[c][t])
          BY <1>1, <1>2, <4>2 DEF StoreAndNotify, Calling
        <5> QED BY <4>2, <5>1, AnswerPassed
      <4>3. CASE StoreBatch(c, t) \/ TrapOnBatch(c, t) \/ WebhookReply(c, t)
        <5>1. polls'[c][t] = Idle
          BY <1>1, <4>3 DEF StoreBatch, TrapOnBatch, WebhookReply, Finish
        <5> QED BY <1>2, <5>1 DEF Idle
      <4> QED BY <2>3, <3>1, <4>1, <4>2, <4>3 DEF PollStep
    <3>2. CASE ~ (c = d /\ t = u)
      <4>1. \E q : polls' = [polls EXCEPT ![d][u] = q]
        BY <2>3 DEF PollStep, AnswerOk, AnswerReject, StoreBatch, StoreAndNotify,
           TrapOnBatch, WebhookReply, Finish
      <4>2. polls'[c][t] = polls[c][t]
        BY <1>1, <3>2, <4>1
      <4> QED BY <2>1, <4>2
    <3> QED BY <3>1, <3>2
  <2>4. CASE Ledgers \/ Operator \/ UNCHANGED vars
    <3>1. UNCHANGED polls
      BY <2>4 DEF Ledgers, LedgerAppend, LedgerArchive, Operator, AddSubaccount,
         SetWebhookUrl, ResetTokenBlocks, RegisterToken, SetTokenNextBlock, SetNextBlock,
         ClearTransactions, ProcessTokenArchivedBlock, vars
    <3> QED BY <2>1, <3>1
  <2> QED BY <2>2, <2>3, <2>4 DEF Next
<1> QED BY <1>2 DEF OutstandingOK, Passed

\* The invariant holds and is inductive.
LEMMA CursorHolds == (Init => CursorInv) /\ (CursorInv /\ [Next]_vars => CursorInv')
<1>1. Init => CursorInv
  <2> SUFFICES ASSUME Init PROVE CursorInv
    OBVIOUS
  <2>1. TypeInv
    BY TypeInit
  <2>2. \A t \in Tokens : nextBlock[t] = 1 /\ log[t] = <<>>
    BY DEF Init
  <2>3. IssuedOK
    <3>1. ASSUME NEW t \in Tokens, NEW i \in 1 .. Len(log[t]) PROVE FALSE
      <4>1. Len(log[t]) = 0
        BY <2>2, EmptySeq, Zenon
      <4> QED BY <3>1, <4>1
    <3> QED BY <3>1 DEF IssuedOK
  <2>4. CursorsOK
    BY <2>2 DEF CursorsOK, Passed
  <2>5. OutstandingOK
    BY DEF Init, OutstandingOK, Idle
  <2> QED BY <2>1, <2>3, <2>4, <2>5 DEF CursorInv
<1>2. CursorInv /\ [Next]_vars => CursorInv'
  BY TypeStep, IssuedStep, CursorStep, OutstandingStep DEF CursorInv
<1> QED BY <1>1, <1>2

LEMMA CursorImplies == CursorInv => NoDepositLost
<1> SUFFICES ASSUME CursorInv, NEW t \in Tokens, NEW i \in 1 .. Len(log[t]),
                    archived[t] < i, i < nextBlock[t], PollSees(t, log[t][i])
             PROVE  Accounted(t, i)
  BY DEF NoDepositLost
<1>1. i \in Nat \ {0}
  <2>1. log[t] \in Seq(LogBlock)
    BY DEF CursorInv, TypeInv, TypeOK
  <2> QED BY <2>1
<1>2. Settled(t, i)
  BY <1>1 DEF CursorInv, CursorsOK, Passed
<1> QED BY <1>2 DEF Settled, Accounted

(* No deposit the polling path can read is lost below a cursor: for every
   number of tokens, ledgers and overlapping cycles, with rejects, traps,
   webhook calls, rewinds and operators at any moment. *)
THEOREM NoDepositIsLost == Spec => []NoDepositLost
BY CursorHolds, CursorImplies, PTL DEF Spec

-----------------------------------------------------------------------------
(* The indexer implements DepositBook *)

\* No ledger is longer than the bound, and what was announced is on a ledger.
BookInv ==
  /\ CursorInv
  /\ \A t \in Tokens : Len(log[t]) <= MaxLog
  /\ notified \subseteq Positions

LEMMA FateCases ==
  ASSUME NEW d \in Positions
  PROVE  /\ FateOf(d) \in {"unseen", "filed", "excused"}
         /\ FateOf(d) = "filed" <=> Indexed(d.token, d.pos)
         /\ FateOf(d) = "unseen" <=> ~ Accounted(d.token, d.pos)
         /\ FateOf(d)' \in {"unseen", "filed", "excused"}
         /\ FateOf(d)' = "filed" <=> Indexed(d.token, d.pos)'
         /\ FateOf(d)' = "unseen" <=> ~ Accounted(d.token, d.pos)'
         /\ d.token \in Tokens /\ d.pos \in Nat \ {0} /\ d = Deposit(d.token, d.pos)
<1>1. d.token \in Tokens /\ d.pos \in Nat \ {0} /\ d = Deposit(d.token, d.pos)
  BY ConstantsOK DEF Positions, Deposit
<1> QED BY <1>1 DEF FateOf, Accounted

\* What the steps of DepositBook ask, in terms of the indexer.
FilesOnly ==
  /\ \A d \in Positions : Indexed(d.token, d.pos) => Indexed(d.token, d.pos)'
  /\ notified \subseteq notified'
  /\ \A d \in notified' \ notified :
       /\ d \in Positions /\ Indexed(d.token, d.pos)'
       /\ \A e \in notified' \ notified : d = e

ExcusesOnly ==
  /\ \A d \in Positions : Indexed(d.token, d.pos)' => Indexed(d.token, d.pos)
  /\ UNCHANGED notified

LEMMA BookStep ==
  ASSUME BookInv, BookInv', NoDepositLost', [Next]_vars, FilesOnly \/ ExcusesOnly
  PROVE  Book!Next
<1> DEFINE fate == [d \in Positions |-> FateOf(d)]
<1>1. \A d \in Positions : fate[d] = FateOf(d) /\ fate'[d] = FateOf(d)'
  OBVIOUS
<1>2. \A d \in Positions : Accounted(d.token, d.pos) => Accounted(d.token, d.pos)'
  BY AccountedStable DEF BookInv, CursorInv
<1>3. Book!Become("unseen") = {}
  BY <1>1, <1>2, FateCases DEF Book!Become
<1>4. fate' \in [Positions -> Book!Fates]
  BY FateCases DEF Book!Fates
<1>5. PassedDeposits' \subseteq Book!Seen'
  <2>1. ASSUME NEW d \in PassedDeposits' PROVE d \in Positions /\ FateOf(d)' # "unseen"
    <3>1. /\ d \in Positions /\ d.pos <= Len(log'[d.token]) /\ archived'[d.token] < d.pos
          /\ d.pos < nextBlock'[d.token] /\ PollSees(d.token, log[d.token][d.pos])'
      BY <2>1 DEF PassedDeposits
    <3>2. d.token \in Tokens /\ d.pos \in Nat \ {0}
      BY <3>1, FateCases
    <3>3. Len(log'[d.token]) \in Nat
      BY <3>2, LedgersOnlyGrow DEF BookInv, CursorInv
    <3>4. d.pos \in 1 .. Len(log'[d.token])
      BY <3>1, <3>2, <3>3
    <3>5. Accounted(d.token, d.pos)'
      BY <3>1, <3>2, <3>4 DEF NoDepositLost
    <3> QED BY <3>1, <3>5, FateCases
  <2> QED BY <2>1, <1>1 DEF Book!Seen
<1>6. notified' \subseteq Positions
  BY DEF BookInv
<1>7. CASE FilesOnly
  <2>1. \A d \in Book!Become("excused") : fate[d] = "unseen"
    BY <1>1, <1>7, FateCases DEF Book!Become, FilesOnly
  <2>2. \A d \in notified' \ notified :
          fate'[d] = "filed" /\ \A e \in notified' \ notified : d = e
    BY <1>1, <1>7, FateCases DEF FilesOnly
  <2>3. Book!File
    BY <1>3, <1>7, <2>1, <2>2 DEF Book!File, FilesOnly
  <2> QED BY <1>4, <1>5, <1>6, <2>3 DEF Book!Next
<1>8. CASE ExcusesOnly
  <2>1. Book!Become("filed") = {}
    BY <1>1, <1>8, FateCases DEF Book!Become, ExcusesOnly
  <2>2. Book!Excuse
    BY <1>3, <1>8, <2>1 DEF Book!Excuse, ExcusesOnly
  <2> QED BY <1>4, <1>5, <1>6, <2>2 DEF Book!Next
<1> QED BY <1>7, <1>8

\* What the answer to a poll files, and that its keys stand for its blocks.
LEMMA AnswerFiles ==
  ASSUME BookInv, NEW t \in Tokens, NEW p \in Poll, p.phase = "answered", PollOK(t, p)
  PROVE  /\ DOMAIN txs \subseteq DOMAIN Stored(t, p)
         /\ \A k \in DOMAIN txs : Stored(t, p)[k] = txs[k]
         /\ \A i \in Fresh(t, p) :
              /\ i \in Nat /\ i \in Blocks(p) /\ Deposit(t, i) \in Positions
              /\ Key(p, i) \in DOMAIN Stored(t, p) /\ Key(p, i) \notin DOMAIN txs
              /\ Stored(t, p)[Key(p, i)] = Deposit(t, i)
<1>1. /\ DOMAIN Stored(t, p) = DOMAIN txs \cup {Key(p, i) : i \in Fresh(t, p)}
      /\ \A k \in DOMAIN Stored(t, p) :
           Stored(t, p)[k] = IF k \in DOMAIN txs THEN txs[k]
                             ELSE Deposit(t, p.lo + (k - p.next))
  BY DEF Stored
<1>2. ASSUME NEW i \in Fresh(t, p)
      PROVE  /\ i \in Nat /\ i \in Blocks(p) /\ Deposit(t, i) \in Positions
             /\ Key(p, i) \notin DOMAIN txs
             /\ p.lo + (Key(p, i) - p.next) = i
  <2>1. i \in Blocks(p) /\ Key(p, i) \notin DOMAIN txs
    BY <1>2 DEF Fresh, Matched
  <2>2. i \in 1 .. Len(log[t]) /\ Len(log[t]) <= MaxLog
    BY <2>1, AnswerStored DEF BookInv, CursorInv
  <2>3. Len(log[t]) \in Nat
    <3>1. log[t] \in Seq(LogBlock)
      BY DEF BookInv, CursorInv, TypeInv, TypeOK
    <3> QED BY <3>1
  <2>4. p.next \in Nat /\ p.lo \in Nat
    BY DEF Poll
  <2>5. i \in 1 .. MaxLog /\ i \in Nat
    BY <2>2, <2>3, ConstantsOK
  <2>6. p.lo + (Key(p, i) - p.next) = i
    BY <2>4, <2>5 DEF Key
  <2> QED BY <2>1, <2>5, <2>6 DEF Positions, Deposit
<1> QED BY <1>1, <1>2

\* A poll's answer files deposits, and announces the first of them at most.
LEMMA AnswerFilesOnly ==
  ASSUME BookInv, NEW c \in Cycles, NEW t \in Tokens,
         StoreBatch(c, t) \/ StoreAndNotify(c, t)
  PROVE  FilesOnly
<1> DEFINE p == polls[c][t]
           firsts == {i \in Fresh(t, p) : \A k \in Fresh(t, p) : i <= k}
<1>1. p \in Poll /\ PollOK(t, p) /\ p.phase = "answered" /\ txs' = Stored(t, p)
  BY DEF StoreBatch, StoreAndNotify, BookInv, CursorInv, TypeInv, TypeOK, PollsOK
<1>2. /\ \A k \in DOMAIN txs : k \in DOMAIN txs' /\ txs'[k] = txs[k]
      /\ \A i \in Fresh(t, p) :
           /\ i \in Nat /\ Deposit(t, i) \in Positions
           /\ Key(p, i) \in DOMAIN txs' /\ txs'[Key(p, i)] = Deposit(t, i)
  BY <1>1, AnswerFiles
<1>3. \A d \in Positions : Indexed(d.token, d.pos) => Indexed(d.token, d.pos)'
  BY <1>2 DEF Indexed
<1>4. notified' = notified \/ notified' = notified \cup {Deposit(t, i) : i \in firsts}
  BY DEF StoreBatch, StoreAndNotify
<1>5. ASSUME NEW d \in {Deposit(t, i) : i \in firsts}
      PROVE  d \in Positions /\ Indexed(d.token, d.pos)'
  <2>1. PICK i \in firsts : d = Deposit(t, i)
    BY <1>5
  <2>2. i \in Fresh(t, p)
    BY <2>1
  <2>3. d.token = t /\ d.pos = i
    BY <2>1 DEF Deposit
  <2> QED BY <1>2, <2>1, <2>2, <2>3 DEF Indexed
<1>6. \A i, j \in firsts : i = j
  BY <1>2
<1> QED BY <1>3, <1>4, <1>5, <1>6 DEF FilesOnly

LEMMA StepFilesOrExcuses ==
  ASSUME BookInv, [Next]_vars
  PROVE  FilesOnly \/ ExcusesOnly
<1> USE DEF history, cursors
<1>1. CASE UNCHANGED <<txs, notified>>
  BY <1>1 DEF ExcusesOnly, Indexed
<1>2. CASE Ledgers \/ \E c \in Cycles : Tick(c)
  BY <1>1, <1>2 DEF Ledgers, LedgerAppend, LedgerArchive, Tick
<1>3. ASSUME NEW c \in Cycles, NEW t \in Tokens, PollStep(c, t)
      PROVE  FilesOnly \/ ExcusesOnly
  <2>1. CASE StoreBatch(c, t) \/ StoreAndNotify(c, t)
    BY <2>1, AnswerFilesOnly
  <2>2. CASE AnswerOk(c, t) \/ AnswerReject(c, t) \/ TrapOnBatch(c, t) \/ WebhookReply(c, t)
    BY <1>1, <2>2 DEF AnswerOk, AnswerReject, TrapOnBatch, WebhookReply
  <2> QED BY <1>3, <2>1, <2>2 DEF PollStep
<1>4. ASSUME Operator PROVE FilesOnly \/ ExcusesOnly
  <2>1. ASSUME NEW upTo \in 0 .. MaxLog, NEW older \in SUBSET DOMAIN txs,
               ClearTransactions(upTo, older)
        PROVE  ExcusesOnly
    BY <2>1 DEF ClearTransactions, ExcusesOnly, Indexed
  <2>2. ASSUME NEW t \in Tokens, NEW i \in 1 .. MaxLog, ProcessTokenArchivedBlock(t, i)
        PROVE  FilesOnly
    <3>1. \A k \in DOMAIN txs : k \in DOMAIN txs' /\ txs'[k] = txs[k]
      BY <2>2 DEF ProcessTokenArchivedBlock
    <3>2. UNCHANGED notified
      BY <2>2 DEF ProcessTokenArchivedBlock
    <3> QED BY <3>1, <3>2 DEF FilesOnly, Indexed
  <2> QED BY <1>1, <1>4, <2>1, <2>2 DEF Operator, AddSubaccount, SetWebhookUrl,
             ResetTokenBlocks, RegisterToken, SetTokenNextBlock, SetNextBlock
<1>5. CASE UNCHANGED vars
  BY <1>1, <1>5 DEF vars
<1> QED BY <1>2, <1>3, <1>4, <1>5 DEF Next

-----------------------------------------------------------------------------
(* The invariant *)

LEMMA LogBound ==
  ASSUME BookInv, [Next]_vars
  PROVE  \A t \in Tokens : Len(log'[t]) <= MaxLog
<1> USE DEF external
<1>1. TypeInv /\ \A t \in Tokens : log[t] \in Seq(LogBlock) /\ Len(log[t]) <= MaxLog
  BY DEF BookInv, CursorInv, TypeInv, TypeOK
<1>2. CASE UNCHANGED log
  BY <1>1, <1>2
<1>3. ASSUME NEW u \in Tokens, NEW b \in BlockKinds[u], LedgerAppend(u, b),
             NEW t \in Tokens
      PROVE  Len(log'[t]) <= MaxLog
  <2> DEFINE e == [op |-> b.op, from |-> b.from, to |-> b.to, spender |-> b.spender,
                   issued |-> nonce]
  <2>1. Len(log[u]) < MaxLog /\ log' = [log EXCEPT ![u] = Append(@, e)]
    BY <1>3 DEF LedgerAppend
  <2>2. log'[t] = IF t = u THEN Append(log[u], e) ELSE log[t]
    BY <2>1 DEF BookInv, CursorInv, TypeInv, TypeOK
  <2>3. Len(Append(log[u], e)) = Len(log[u]) + 1 /\ Len(log[u]) \in Nat
    BY <1>1
  <2> QED BY <1>1, <2>1, <2>2, <2>3, ConstantsOK
<1>4. CASE Ledgers
  BY <1>2, <1>3, <1>4 DEF Ledgers, LedgerArchive
<1>5. CASE \E c \in Cycles : Tick(c)
  BY <1>2, <1>5 DEF Tick
<1>6. ASSUME NEW c \in Cycles, NEW t \in Tokens, PollStep(c, t) PROVE UNCHANGED log
  BY <1>6 DEF PollStep, AnswerOk, AnswerReject, StoreBatch, StoreAndNotify, TrapOnBatch,
     WebhookReply
<1>7. CASE Operator
  <2>1. UNCHANGED log
    BY <1>7 DEF Operator, AddSubaccount, SetWebhookUrl, ResetTokenBlocks, RegisterToken,
       SetTokenNextBlock, SetNextBlock, ClearTransactions, ProcessTokenArchivedBlock
  <2> QED BY <1>2, <2>1
<1>8. CASE UNCHANGED vars
  BY <1>2, <1>8 DEF vars
<1> QED BY <1>2, <1>4, <1>5, <1>6, <1>7, <1>8 DEF Next

LEMMA CursorInvInit == Init => CursorInv
BY CursorHolds

LEMMA BookInvStep == BookInv /\ [Next]_vars => BookInv'
<1> SUFFICES ASSUME BookInv, [Next]_vars PROVE BookInv'
  OBVIOUS
<1>1. CursorInv'
  BY CursorHolds DEF BookInv
<1>2. notified' \subseteq Positions
  BY StepFilesOrExcuses DEF FilesOnly, ExcusesOnly, BookInv
<1> QED BY <1>1, <1>2, LogBound DEF BookInv

-----------------------------------------------------------------------------
(* The refinement *)

LEMMA BookInit == Init => BookInv /\ Book!Init
<1> SUFFICES ASSUME Init PROVE BookInv /\ Book!Init
  OBVIOUS
<1>1. /\ log = [t \in Tokens |-> <<>>] /\ nextBlock = [t \in Tokens |-> 1]
      /\ txs = <<>> /\ cleared = {} /\ skipped = {} /\ shadowed = {} /\ notified = {}
  BY DEF Init
<1>2. BookInv
  BY <1>1, CursorHolds, ConstantsOK DEF BookInv
<1>3. \A d \in Positions : FateOf(d) = "unseen"
  BY <1>1 DEF FateOf, Indexed
<1>4. PassedDeposits = {}
  <2>1. \A d \in Positions : d.token \in Tokens /\ d.pos \in Nat \ {0}
    BY FateCases
  <2> QED BY <1>1, <2>1 DEF PassedDeposits
<1> QED BY <1>1, <1>2, <1>3, <1>4 DEF Book!Init

LEMMA StepRefinesBook ==
  BookInv /\ [Next]_vars /\ NoDepositLost' => [Book!Next]_(Book!vars)
BY BookInvStep, StepFilesOrExcuses, BookStep

(* The indexer implements DepositBook, for every number of tokens, ledgers and
   overlapping cycles. *)
THEOREM ImplementsBook == Spec => BookKept
<1>1. BookInv => NoDepositLost
  BY CursorImplies DEF BookInv
<1> QED BY <1>1, BookInit, BookInvStep, StepRefinesBook, PTL DEF Spec, BookKept, Book!Spec

-----------------------------------------------------------------------------
(* Announcements *)

\* What was announced is in the store, or was cleared out of it.
AnnouncedInv ==
  /\ BookInv /\ KeyInv
  /\ \A d \in notified : Indexed(d.token, d.pos) \/ d \in cleared

LEMMA AnnouncedInit == MaxArchived = 0 /\ Init => AnnouncedInv
<1> SUFFICES ASSUME Init PROVE AnnouncedInv
  OBVIOUS
<1>1. BookInv
  BY BookInit
<1>2. DOMAIN txs = {} /\ notified = {} /\ NothingArchived
  BY DEF Init, NothingArchived
<1> QED BY <1>1, <1>2 DEF AnnouncedInv, KeyInv, KeyIsBlockIndex, BookInv, CursorInv

LEMMA AnnouncedStep ==
  ASSUME MaxArchived = 0, AnnouncedInv, [Next]_vars
  PROVE  AnnouncedInv'
<1>1. BookInv /\ KeyInv /\ BookInv' /\ KeyInv' /\ TypeInv
  BY BookInvStep, KeyStep DEF AnnouncedInv, KeyInv
<1>2. ASSUME NEW d \in notified' PROVE Indexed(d.token, d.pos)' \/ d \in cleared'
  <2>0. d \in Positions
    BY <1>1 DEF BookInv
  <2>1. CASE d \notin notified
    BY <1>1, <2>1, StepFilesOrExcuses DEF FilesOnly, ExcusesOnly
  <2>2. CASE d \in notified /\ d \in cleared
    BY <1>1, <2>2, HistoryGrows
  <2>3. CASE Indexed(d.token, d.pos)
    <3>1. PICK k \in DOMAIN txs : txs[k] = Deposit(d.token, d.pos)
      BY <2>3 DEF Indexed
    <3>2. IF k \in DOMAIN txs' THEN txs'[k] = txs[k] ELSE txs[k] \in cleared'
      BY <1>1, RecordsKept
    <3>3. d = Deposit(d.token, d.pos)
      BY <2>0, FateCases
    <3> QED BY <3>1, <3>2, <3>3 DEF Indexed
  <2> QED BY <2>1, <2>2, <2>3 DEF AnnouncedInv
<1> QED BY <1>1, <1>2 DEF AnnouncedInv

\* Only StoreAndNotify takes a poll from the answer to the webhook call.
LEMMA WebhookCalledByNotify ==
  ASSUME TypeInv, [Next]_vars, NEW c \in Cycles, NEW t \in Tokens,
         polls[c][t].phase = "answered", polls'[c][t].phase = "webhook"
  PROVE  StoreAndNotify(c, t)
<1>1. polls \in [Cycles -> [Tokens -> Poll]]
  BY DEF TypeInv, TypeOK
<1>2. ~ UNCHANGED polls
  OBVIOUS
<1>3. ~ Ledgers /\ ~ Operator /\ ~ UNCHANGED vars
  BY <1>2 DEF Ledgers, LedgerAppend, LedgerArchive, vars, Operator, AddSubaccount,
     SetWebhookUrl, ResetTokenBlocks, RegisterToken, SetTokenNextBlock, SetNextBlock,
     ClearTransactions, ProcessTokenArchivedBlock
<1>4. ASSUME NEW d \in Cycles, Tick(d) PROVE FALSE
  BY <1>1, <1>4 DEF Tick, Idle, Asked
<1>5. ASSUME NEW d \in Cycles, NEW u \in Tokens, PollStep(d, u)
      PROVE  StoreAndNotify(c, t)
  <2>1. CASE d = c /\ u = t
    BY <1>1, <1>5, <2>1 DEF PollStep, AnswerOk, AnswerReject, StoreBatch, TrapOnBatch,
       WebhookReply, Finish, Idle, Answered
  <2>2. CASE d # c \/ u # t
    <3>1. PICK q : polls' = [polls EXCEPT ![d][u] = q]
      BY <1>5 DEF PollStep, AnswerOk, AnswerReject, StoreBatch, StoreAndNotify, TrapOnBatch,
         WebhookReply, Finish
    <3> QED BY <1>1, <2>2, <3>1
  <2> QED BY <2>1, <2>2
<1> QED BY <1>3, <1>4, <1>5 DEF Next

\* The block announced is new, and was not announced since it was last cleared.
LEMMA NotifyIsNew ==
  ASSUME AnnouncedInv, NEW c \in Cycles, NEW t \in Tokens, StoreAndNotify(c, t)
  PROVE  \E i \in Blocks(polls[c][t]) :
           /\ Indexed(t, i)' /\ ~ Indexed(t, i)
           /\ Deposit(t, i) \in notified'
           /\ Deposit(t, i) \in notified => Deposit(t, i) \in cleared
<1> DEFINE p == polls[c][t]
<1>1. /\ BookInv /\ p \in Poll /\ PollOK(t, p) /\ p.phase = "answered"
      /\ txs' = Stored(t, p) /\ Fresh(t, p) # {}
      /\ notified' = notified \cup
           {Deposit(t, i) : i \in {j \in Fresh(t, p) : \A k \in Fresh(t, p) : j <= k}}
  BY DEF StoreAndNotify, AnnouncedInv, BookInv, CursorInv, TypeInv, TypeOK, PollsOK
<1>2. \A i \in Fresh(t, p) :
        /\ i \in Nat /\ i \in Blocks(p)
        /\ Key(p, i) \in DOMAIN txs' /\ Key(p, i) \notin DOMAIN txs
        /\ txs'[Key(p, i)] = Deposit(t, i)
  BY <1>1, AnswerFiles
<1>3. PICK i \in Fresh(t, p) : \A k \in Fresh(t, p) : i <= k
  <2>1. Fresh(t, p) \subseteq Nat
    BY <1>2
  <2> QED BY <1>1, <2>1, LeastOf
<1>4. Indexed(t, i)' /\ Deposit(t, i) \in notified'
  BY <1>1, <1>2, <1>3 DEF Indexed
<1>5. Key(p, i) = i
  <2>1. CASE p.lo <= p.hi
    <3>1. p.lo = p.next
      BY <1>1, <2>1 DEF AnnouncedInv, KeyInv, NothingArchived, PollOK, Poll
    <3> QED BY <1>1, <1>2, <1>3, <3>1 DEF Key, Poll
  <2>2. CASE ~ (p.lo <= p.hi)
    BY <1>1, <1>2, <1>3, <2>2 DEF Blocks, Poll
  <2> QED BY <2>1, <2>2
<1>6. ~ Indexed(t, i)
  BY <1>2, <1>3, <1>5 DEF Indexed, AnnouncedInv, KeyInv, KeyIsBlockIndex, Deposit
<1>7. Deposit(t, i) \in notified => Deposit(t, i) \in cleared
  BY <1>6 DEF AnnouncedInv, Deposit
<1> QED BY <1>2, <1>3, <1>4, <1>6, <1>7

(* As long as no ledger archives a block, the webhook hears of a deposit once
   for each time it is filed, whatever polls of the same range overlap. *)
THEOREM NotifiesOnce ==
  ASSUME MaxArchived = 0
  PROVE  Spec => NotifiedOnce
<1>1. Init => AnnouncedInv
  BY AnnouncedInit
<1>2. AnnouncedInv /\ [Next]_vars => AnnouncedInv'
  BY AnnouncedStep
<1>3. AnnouncedInv /\ [Next]_vars =>
        [\A c \in Cycles, t \in Tokens :
           (polls[c][t].phase = "answered" /\ polls'[c][t].phase = "webhook") =>
             \E i \in Blocks(polls[c][t]) :
               /\ Indexed(t, i)' /\ ~ Indexed(t, i)
               /\ Deposit(t, i) \in notified'
               /\ Deposit(t, i) \in notified => Deposit(t, i) \in cleared]_vars
  <2> SUFFICES ASSUME AnnouncedInv, [Next]_vars, NEW c \in Cycles, NEW t \in Tokens,
                      polls[c][t].phase = "answered", polls'[c][t].phase = "webhook"
               PROVE  \E i \in Blocks(polls[c][t]) :
                        /\ Indexed(t, i)' /\ ~ Indexed(t, i)
                        /\ Deposit(t, i) \in notified'
                        /\ Deposit(t, i) \in notified => Deposit(t, i) \in cleared
    OBVIOUS
  <2>1. StoreAndNotify(c, t)
    BY WebhookCalledByNotify DEF AnnouncedInv, KeyInv
  <2> QED BY <2>1, NotifyIsNew
<1> QED BY <1>1, <1>2, <1>3, PTL DEF Spec, NotifiedOnce
===============================================================================
