------------------------- MODULE BlockIndexerProofs -------------------------
(* What BlockIndexer guarantees for every value of its constants. *)
EXTENDS BlockIndexer, SequenceTheorems, TLAPS

\* What the answer to a poll holds: blocks from where it asked on, except that
\* it may start after blocks that are archived.
PollOK(t, p) ==
  /\ p.phase # "idle" => p.next >= 1
  /\ (p.phase = "answered" /\ p.lo <= p.hi) =>
       /\ p.next <= p.lo /\ p.hi <= Len(log[t])
       /\ p.lo = p.next \/ p.lo <= archived[t] + 1

PollsOK == \A c \in Cycles, t \in Tokens : PollOK(t, polls[c][t])

TypeInv == TypeOK /\ PollsOK

-----------------------------------------------------------------------------
(* Types *)

LEMMA TypeInit == Init => TypeInv
<1> SUFFICES ASSUME Init PROVE TypeInv
  OBVIOUS
<1>1. \A t \in Tokens : log[t] = <<>> /\ archived[t] = 0 /\ nextBlock[t] = 1
  BY DEF Init
<1>2. /\ log \in [Tokens -> Seq(LogBlock)] /\ archived \in [Tokens -> Nat]
      /\ nextBlock \in [Tokens -> Nat \ {0}]
  BY DEF Init
<1>3. \A t \in Tokens : archived[t] <= Len(log[t])
  <2> TAKE t \in Tokens
  <2>1. log[t] = <<>> /\ archived[t] = 0
    BY <1>1
  <2>2. Len(log[t]) = 0
    BY <2>1, EmptySeq, Zenon
  <2> QED BY <2>1, <2>2
<1>4. DOMAIN txs = {}
  BY DEF Init
<1>5. polls \in [Cycles -> [Tokens -> Poll]]
  BY DEF Init, Idle, Poll, Phases
<1>6. PollsOK
  BY DEF Init, PollsOK, PollOK, Idle
<1>7. nonce \in 0 .. MaxNonce
  BY ConstantsOK DEF Init
<1>8. webhookSet \in BOOLEAN
  BY DEF Init
<1>9. /\ registered \subseteq Tokens
      /\ legacyNext \in Nat \ {0} /\ rejects \in Nat /\ ops \in Nat
      /\ cleared = {} /\ skipped = {} /\ shadowed = {} /\ notified = {}
  BY DEF Init
<1> QED
  BY <1>2, <1>3, <1>4, <1>5, <1>6, <1>7, <1>8, <1>9 DEF TypeInv, TypeOK

\* A ledger only grows: what is on it stays where it is.
LEMMA LogGrows ==
  ASSUME TypeOK, NEW u \in Tokens, NEW b \in Block, LedgerAppend(u, b),
         NEW t \in Tokens
  PROVE  /\ log' \in [Tokens -> Seq(LogBlock)]
         /\ Len(log'[t]) >= Len(log[t])
         /\ \A i \in 1 .. Len(log[t]) : log'[t][i] = log[t][i]
<1> DEFINE e == [op |-> b.op, from |-> b.from, to |-> b.to,
                 spender |-> b.spender, issued |-> nonce]
<1>1. e \in LogBlock
  BY DEF TypeOK, Block, LogBlock
<1>2. log' = [log EXCEPT ![u] = Append(log[u], e)]
  BY DEF LedgerAppend
<1>3. log[t] \in Seq(LogBlock) /\ log[u] \in Seq(LogBlock)
  BY DEF TypeOK
<1> HIDE DEF e
<1>4. /\ Append(log[u], e) \in Seq(LogBlock)
      /\ Len(Append(log[u], e)) = Len(log[u]) + 1
      /\ \A i \in 1 .. Len(log[u]) : Append(log[u], e)[i] = log[u][i]
  BY <1>1, <1>3
<1>5. log' \in [Tokens -> Seq(LogBlock)]
  BY <1>2, <1>4 DEF TypeOK
<1>6. CASE t = u
  BY <1>2, <1>3, <1>4, <1>5, <1>6 DEF TypeOK
<1>7. CASE t # u
  <2>1. log'[t] = log[t]
    BY <1>2, <1>7 DEF TypeOK
  <2> QED BY <2>1, <1>3, <1>5
<1> QED BY <1>6, <1>7

\* A poll that changes to one that is OK leaves all of them OK.
LEMMA PollUpdate ==
  ASSUME TypeInv, UNCHANGED external,
         NEW c \in Cycles, NEW t \in Tokens, NEW q \in Poll, PollOK(t, q),
         polls' = [polls EXCEPT ![c][t] = q]
  PROVE  polls' \in [Cycles -> [Tokens -> Poll]] /\ PollsOK'
<1>1. polls \in [Cycles -> [Tokens -> Poll]]
  BY DEF TypeInv, TypeOK
<1>2. \A d \in Cycles, u \in Tokens :
         polls'[d][u] = IF d = c /\ u = t THEN q ELSE polls[d][u]
  BY <1>1
<1>3. polls' \in [Cycles -> [Tokens -> Poll]]
  BY <1>1
<1>4. ASSUME NEW d \in Cycles, NEW u \in Tokens
      PROVE  PollOK(u, polls[d][u])'
  BY <1>2, <1>4 DEF PollOK, TypeInv, PollsOK, external
<1> QED BY <1>3, <1>4 DEF PollsOK

LEMMA IdleOK == Idle \in Poll /\ \A t \in Tokens : PollOK(t, Idle)
BY DEF Idle, Poll, Phases, PollOK

\* What an answer does to the store and the cursor.
LEMMA AnswerStored ==
  ASSUME TypeInv, NEW t \in Tokens, NEW p \in Poll, p.phase = "answered",
         PollOK(t, p)
  PROVE  /\ BlockCount(p) \in Nat \ {0}
         /\ DOMAIN Stored(t, p) \subseteq Nat \ {0}
         /\ \A k \in DOMAIN Stored(t, p) : Stored(t, p)[k] \in [token : Tokens, pos : Nat]
         /\ Shadows(t, p) \subseteq [token : Tokens, pos : Nat]
         /\ \A i \in Blocks(p) : i \in 1 .. Len(log[t]) /\ Deposit(t, i) \in [token : Tokens, pos : Nat]
<1>1. p.next \in Nat \ {0} /\ p.lo \in Nat /\ p.hi \in Nat
  BY DEF PollOK, Poll
<1>2. BlockCount(p) \in Nat \ {0}
  BY <1>1 DEF BlockCount
<1>3. log[t] \in Seq(LogBlock)
  BY DEF TypeInv, TypeOK
<1>4. \A i \in Blocks(p) : /\ i \in 1 .. Len(log[t]) /\ i \in Nat
                          /\ Key(p, i) \in Nat \ {0}
                          /\ p.lo + (Key(p, i) - p.next) = i
                          /\ Deposit(t, i) \in [token : Tokens, pos : Nat]
  BY <1>1, <1>3 DEF Blocks, PollOK, Key, Deposit
<1>5. Matched(t, p) \subseteq Blocks(p) /\ Fresh(t, p) \subseteq Blocks(p)
  BY DEF Matched, Fresh
<1>6. DOMAIN txs \subseteq Nat \ {0} /\ \A k \in DOMAIN txs : txs[k] \in [token : Tokens, pos : Nat]
  BY DEF TypeInv, TypeOK
<1>7. DOMAIN Stored(t, p) = DOMAIN txs \cup {Key(p, i) : i \in Fresh(t, p)}
  BY DEF Stored
<1>8. DOMAIN Stored(t, p) \subseteq Nat \ {0}
  BY <1>4, <1>5, <1>6, <1>7
<1>9. ASSUME NEW k \in DOMAIN Stored(t, p)
      PROVE  Stored(t, p)[k] \in [token : Tokens, pos : Nat]
  <2>1. Stored(t, p)[k] = IF k \in DOMAIN txs THEN txs[k]
                          ELSE Deposit(t, p.lo + (k - p.next))
    BY <1>7, <1>9 DEF Stored
  <2>2. CASE k \in DOMAIN txs
    BY <2>1, <2>2, <1>6
  <2>3. CASE k \notin DOMAIN txs
    <3>1. PICK i \in Fresh(t, p) : k = Key(p, i)
      BY <1>7, <1>9, <2>3
    <3> QED BY <2>1, <2>3, <3>1, <1>4, <1>5
  <2> QED BY <2>2, <2>3
<1>10. Shadows(t, p) \subseteq [token : Tokens, pos : Nat]
  BY <1>4, <1>5 DEF Shadows
<1> QED BY <1>2, <1>4, <1>8, <1>9, <1>10

\* The part of TypeOK that the steps of a poll and of an operator touch.
StoreOK ==
  /\ nextBlock \in [Tokens -> Nat \ {0}]
  /\ legacyNext \in Nat \ {0}
  /\ DOMAIN txs \subseteq Nat \ {0}
  /\ \A k \in DOMAIN txs : txs[k] \in [token : Tokens, pos : Nat]
  /\ rejects \in Nat /\ ops \in Nat
  /\ cleared \subseteq [token : Tokens, pos : Nat]
  /\ skipped \subseteq [token : Tokens, pos : Nat]
  /\ shadowed \subseteq [token : Tokens, pos : Nat]
  /\ notified \subseteq [token : Tokens, pos : Nat]

LedgerOK ==
  /\ log \in [Tokens -> Seq(LogBlock)]
  /\ archived \in [Tokens -> Nat]
  /\ \A t \in Tokens : archived[t] <= Len(log[t])

ConfigOK ==
  /\ nonce \in 0 .. MaxNonce
  /\ registered \subseteq Tokens
  /\ webhookSet \in BOOLEAN

CallsOK == polls \in [Cycles -> [Tokens -> Poll]] /\ PollsOK

LEMMA TypeInvParts ==
  /\ TypeInv <=> LedgerOK /\ ConfigOK /\ StoreOK /\ CallsOK
  /\ TypeInv' <=> LedgerOK' /\ ConfigOK' /\ StoreOK' /\ CallsOK'
BY DEF TypeInv, TypeOK, LedgerOK, ConfigOK, StoreOK, CallsOK

LEMMA FinishOK ==
  ASSUME TypeInv, UNCHANGED external, NEW c \in Cycles, NEW t \in Tokens,
         NEW n \in Nat \ {0}, Finish(c, t, n)
  PROVE  /\ nextBlock' \in [Tokens -> Nat \ {0}] /\ legacyNext' \in Nat \ {0}
         /\ CallsOK'
<1>1. nextBlock' \in [Tokens -> Nat \ {0}] /\ legacyNext' \in Nat \ {0}
  BY DEF Finish, TypeInv, TypeOK
<1>2. CallsOK'
  BY PollUpdate, IdleOK DEF Finish, CallsOK
<1> QED BY <1>1, <1>2

LEMMA TypeLedgers == TypeInv /\ Ledgers => TypeInv'
<1> SUFFICES ASSUME TypeInv, Ledgers PROVE TypeInv'
  OBVIOUS
<1> USE DEF external, config, cursors, bounds, history
<1>1. ASSUME NEW u \in Tokens, NEW b \in Block, LedgerAppend(u, b)
      PROVE  TypeInv'
  <2>1. \A t \in Tokens : Len(log'[t]) >= Len(log[t]) /\ log' \in [Tokens -> Seq(LogBlock)]
    BY LogGrows, <1>1 DEF TypeInv
  <2>2. \A t \in Tokens : log[t] \in Seq(LogBlock) /\ log'[t] \in Seq(LogBlock)
    BY <2>1 DEF TypeInv, TypeOK
  <2>3. \A t \in Tokens : Len(log[t]) \in Nat /\ Len(log'[t]) \in Nat
    BY <2>2, LenProperties
  <2>4. LedgerOK'
    BY <1>1, <2>1, <2>3 DEF LedgerAppend, TypeInv, TypeOK, LedgerOK
  <2>5. PollsOK'
    <3> SUFFICES ASSUME NEW c \in Cycles, NEW t \in Tokens
                 PROVE  PollOK(t, polls[c][t])'
      BY DEF PollsOK
    <3>1. polls' = polls /\ archived' = archived
      BY <1>1 DEF LedgerAppend
    <3>2. polls[c][t] \in Poll /\ PollOK(t, polls[c][t])
      BY DEF TypeInv, TypeOK, PollsOK
    <3> QED BY <2>1, <2>3, <3>1, <3>2 DEF PollOK, Poll
  <2>6. ConfigOK' /\ StoreOK' /\ CallsOK'
    BY <1>1, <2>5, TypeInvParts DEF LedgerAppend, ConfigOK, StoreOK, CallsOK
  <2> QED BY <2>4, <2>6, TypeInvParts
<1>2. ASSUME NEW u \in Tokens, LedgerArchive(u)
      PROVE  TypeInv'
  <2>1. \A t \in Tokens : Len(log[t]) \in Nat
    BY LenProperties DEF TypeInv, TypeOK
  <2>2. LedgerOK'
    BY <1>2, <2>1 DEF LedgerArchive, TypeInv, TypeOK, LedgerOK
  <2>3. PollsOK'
    <3> SUFFICES ASSUME NEW c \in Cycles, NEW t \in Tokens
                 PROVE  PollOK(t, polls[c][t])'
      BY DEF PollsOK
    <3>1. polls' = polls /\ log' = log
      BY <1>2 DEF LedgerArchive
    <3>2. polls[c][t] \in Poll /\ PollOK(t, polls[c][t])
      BY DEF TypeInv, TypeOK, PollsOK
    <3>3. archived'[t] \in Nat /\ archived[t] \in Nat /\ archived'[t] >= archived[t]
      BY <1>2 DEF LedgerArchive, TypeInv, TypeOK
    <3> QED BY <3>1, <3>2, <3>3 DEF PollOK, Poll
  <2>4. ConfigOK' /\ StoreOK' /\ CallsOK'
    BY <1>2, <2>3, TypeInvParts DEF LedgerArchive, ConfigOK, StoreOK, CallsOK
  <2> QED BY <2>2, <2>4, TypeInvParts
<1> QED BY <1>1, <1>2, ConstantsOK DEF Ledgers

LEMMA TypePollStep ==
  ASSUME TypeInv, NEW c \in Cycles, NEW t \in Tokens, PollStep(c, t)
  PROVE  TypeInv'
<1> USE DEF external, config, cursors, bounds, history
<1> DEFINE p == polls[c][t]
<1>1. /\ p \in Poll /\ PollOK(t, p)
      /\ polls \in [Cycles -> [Tokens -> Poll]]
      /\ LedgerOK /\ ConfigOK /\ StoreOK /\ CallsOK
  <2>1. LedgerOK /\ ConfigOK /\ StoreOK /\ CallsOK
    BY TypeInvParts
  <2> QED BY <2>1 DEF CallsOK, PollsOK
<1>2. CASE AnswerOk(c, t)
  <2> DEFINE lo == IF p.next <= archived[t] THEN archived[t] + 1 ELSE p.next
             hi == IF p.next + BatchLen - 1 <= Len(log[t])
                     THEN p.next + BatchLen - 1 ELSE Len(log[t])
             q  == IF lo <= hi THEN Answered(p.next, lo, hi) ELSE Answered(p.next, 1, 0)
  <2>1. /\ p.phase = "asked" /\ polls' = [polls EXCEPT ![c][t] = q]
        /\ UNCHANGED <<log, archived>>
    BY <1>2 DEF AnswerOk
  <2>2. /\ p.next \in Nat \ {0} /\ archived[t] \in Nat /\ Len(log[t]) \in Nat
        /\ archived[t] <= Len(log[t]) /\ BatchLen \in Nat \ {0}
    BY <1>1, <2>1, ConstantsOK, LenProperties DEF LedgerOK, PollOK, Poll
  <2>3. q \in Poll /\ PollOK(t, q)
    BY <2>2 DEF Answered, Poll, Phases, PollOK
  <2> HIDE DEF q
  <2>4. CallsOK'
    BY <2>1, <2>3, PollUpdate DEF CallsOK
  <2>5. LedgerOK' /\ ConfigOK' /\ StoreOK'
    BY <1>1, <1>2 DEF AnswerOk, LedgerOK, ConfigOK, StoreOK
  <2> QED BY <2>4, <2>5, TypeInvParts
<1>3. CASE AnswerReject(c, t)
  <2> DEFINE q == Answered(p.next, 1, 0)
  <2>1. polls' = [polls EXCEPT ![c][t] = q] /\ p.phase = "asked"
    BY <1>1, <1>3 DEF AnswerReject
  <2>2. q \in Poll /\ PollOK(t, q)
    BY <1>1, <2>1 DEF Answered, Poll, Phases, PollOK
  <2> HIDE DEF q
  <2>3. CallsOK'
    BY <1>3, <2>1, <2>2, PollUpdate DEF CallsOK, AnswerReject
  <2>4. LedgerOK' /\ ConfigOK'
    BY <1>1, <1>3 DEF AnswerReject, LedgerOK, ConfigOK
  <2>5. StoreOK'
    BY <1>1, <1>3 DEF AnswerReject, StoreOK
  <2> QED BY <2>3, <2>4, <2>5, TypeInvParts
<1>4. CASE StoreBatch(c, t)
  <2>1. /\ p.phase = "answered" /\ txs' = Stored(t, p)
        /\ shadowed' = shadowed \cup Shadows(t, p)
        /\ Finish(c, t, BlockCount(p)) /\ UNCHANGED <<external, config, bounds>>
        /\ UNCHANGED <<cleared, skipped, notified>>
    BY <1>4 DEF StoreBatch
  <2> HIDE DEF p
  <2>2. /\ BlockCount(p) \in Nat \ {0}
        /\ DOMAIN Stored(t, p) \subseteq Nat \ {0}
        /\ \A k \in DOMAIN Stored(t, p) : Stored(t, p)[k] \in [token : Tokens, pos : Nat]
        /\ Shadows(t, p) \subseteq [token : Tokens, pos : Nat]
    BY <1>1, <2>1, AnswerStored
  <2>3. nextBlock' \in [Tokens -> Nat \ {0}] /\ legacyNext' \in Nat \ {0} /\ CallsOK'
    BY <2>1, <2>2, FinishOK
  <2>4. StoreOK'
    BY <1>1, <2>1, <2>2, <2>3 DEF StoreOK
  <2>5. LedgerOK' /\ ConfigOK'
    BY <1>1, <2>1 DEF LedgerOK, ConfigOK
  <2> QED BY <2>3, <2>4, <2>5, TypeInvParts
<1>5. CASE StoreAndNotify(c, t)
  <2> DEFINE first == {Deposit(t, i) : i \in {j \in Fresh(t, p) : \A k \in Fresh(t, p) : j <= k}}
             q     == Calling(BlockCount(p))
  <2>1. /\ p.phase = "answered" /\ txs' = Stored(t, p)
        /\ shadowed' = shadowed \cup Shadows(t, p)
        /\ notified' = notified \cup first
        /\ polls' = [polls EXCEPT ![c][t] = q]
        /\ UNCHANGED <<external, config, cursors, bounds, cleared, skipped>>
    BY <1>5 DEF StoreAndNotify
  <2> HIDE DEF p
  <2>2. /\ BlockCount(p) \in Nat \ {0}
        /\ DOMAIN Stored(t, p) \subseteq Nat \ {0}
        /\ \A k \in DOMAIN Stored(t, p) : Stored(t, p)[k] \in [token : Tokens, pos : Nat]
        /\ Shadows(t, p) \subseteq [token : Tokens, pos : Nat]
        /\ \A i \in Blocks(p) : Deposit(t, i) \in [token : Tokens, pos : Nat]
    BY <1>1, <2>1, AnswerStored
  <2>3. first \subseteq [token : Tokens, pos : Nat]
    BY <2>2 DEF Fresh, Matched
  <2>4. q \in Poll /\ PollOK(t, q)
    BY <2>2 DEF Calling, Poll, Phases, PollOK
  <2> HIDE DEF q, first
  <2>5. CallsOK'
    BY <2>1, <2>4, PollUpdate DEF CallsOK
  <2>6. StoreOK'
    BY <1>1, <2>1, <2>2, <2>3 DEF StoreOK
  <2>7. LedgerOK' /\ ConfigOK'
    BY <1>1, <2>1 DEF LedgerOK, ConfigOK
  <2> QED BY <2>5, <2>6, <2>7, TypeInvParts
<1>6. CASE TrapOnBatch(c, t)
  <2>1. CallsOK'
    BY <1>6, IdleOK, PollUpdate DEF CallsOK, TrapOnBatch
  <2>2. LedgerOK' /\ ConfigOK' /\ StoreOK'
    BY <1>1, <1>6 DEF TrapOnBatch, LedgerOK, ConfigOK, StoreOK
  <2> QED BY <2>1, <2>2, TypeInvParts
<1>7. CASE WebhookReply(c, t)
  <2>1. p.next \in Nat \ {0}
    BY <1>1, <1>7 DEF WebhookReply, PollOK, Poll
  <2>2. nextBlock' \in [Tokens -> Nat \ {0}] /\ legacyNext' \in Nat \ {0} /\ CallsOK'
    BY <1>7, <2>1, FinishOK DEF WebhookReply
  <2>3. LedgerOK' /\ ConfigOK' /\ StoreOK'
    BY <1>1, <1>7, <2>2 DEF WebhookReply, LedgerOK, ConfigOK, StoreOK
  <2> QED BY <2>2, <2>3, TypeInvParts
<1> QED BY <1>2, <1>3, <1>4, <1>5, <1>6, <1>7 DEF PollStep

LEMMA TypeTick ==
  ASSUME TypeInv, NEW c \in Cycles, Tick(c)
  PROVE  TypeInv'
<1> USE DEF external, config, cursors, bounds, history
<1>1. LedgerOK /\ ConfigOK /\ StoreOK /\ CallsOK
  BY TypeInvParts
<1> DEFINE row == [t \in Tokens |-> IF t \in Polled THEN Asked(nextBlock[t]) ELSE Idle]
<1>2. row \in [Tokens -> Poll] /\ \A t \in Tokens : PollOK(t, row[t])
  BY <1>1, IdleOK DEF StoreOK, Asked, Poll, Phases, PollOK
<1>3. polls' = [polls EXCEPT ![c] = row] /\ UNCHANGED external
  BY DEF Tick
<1> HIDE DEF row
<1>4. polls' \in [Cycles -> [Tokens -> Poll]]
  BY <1>1, <1>2, <1>3 DEF CallsOK
<1>5. ASSUME NEW d \in Cycles, NEW t \in Tokens PROVE PollOK(t, polls[d][t])'
  <2>1. polls'[d] = IF d = c THEN row ELSE polls[d]
    BY <1>1, <1>3 DEF CallsOK
  <2> QED BY <1>1, <1>2, <1>3, <2>1 DEF PollOK, CallsOK, PollsOK
<1>6. CallsOK'
  BY <1>4, <1>5 DEF CallsOK, PollsOK
<1>7. LedgerOK' /\ ConfigOK' /\ StoreOK'
  BY <1>1 DEF Tick, LedgerOK, ConfigOK, StoreOK
<1> QED BY <1>6, <1>7, TypeInvParts

LEMMA TypeOperator == TypeInv /\ Operator => TypeInv'
<1> SUFFICES ASSUME TypeInv, Operator PROVE TypeInv'
  OBVIOUS
<1> USE DEF external, config, cursors, bounds, history
<1>1. LedgerOK /\ ConfigOK /\ StoreOK /\ CallsOK
  BY TypeInvParts
<1>2. UNCHANGED external /\ UNCHANGED polls
  BY DEF Operator, AddSubaccount, SetWebhookUrl, ResetTokenBlocks, RegisterToken,
     SetTokenNextBlock, SetNextBlock, ClearTransactions, ProcessTokenArchivedBlock
<1>3. LedgerOK' /\ CallsOK'
  BY <1>1, <1>2 DEF LedgerOK, CallsOK, PollsOK, PollOK
<1>4. CASE AddSubaccount
  BY <1>1, <1>3, <1>4, TypeInvParts, ConstantsOK DEF AddSubaccount, ConfigOK, StoreOK
<1>5. CASE SetWebhookUrl
  BY <1>1, <1>3, <1>5, TypeInvParts DEF SetWebhookUrl, ConfigOK, StoreOK
<1>6. CASE ResetTokenBlocks
  BY <1>1, <1>3, <1>6, TypeInvParts DEF ResetTokenBlocks, ConfigOK, StoreOK
<1>7. ASSUME NEW t \in Tokens, RegisterToken(t) PROVE TypeInv'
  BY <1>1, <1>3, <1>7, TypeInvParts DEF RegisterToken, ConfigOK, StoreOK
<1>8. ASSUME NEW t \in Tokens, NEW b \in 1 .. (MaxLog + 1), SetTokenNextBlock(t, b)
      PROVE  TypeInv'
  <2>1. b \in Nat \ {0} /\ nextBlock[t] \in Nat \ {0}
    BY <1>1, ConstantsOK DEF StoreOK
  <2>2. {Deposit(t, i) : i \in nextBlock[t] .. (b - 1)} \subseteq [token : Tokens, pos : Nat]
    BY <2>1 DEF Deposit
  <2>3. ConfigOK'
    BY <1>1, <1>8 DEF SetTokenNextBlock, ConfigOK
  <2>4. StoreOK'
    BY <1>1, <1>8, <2>1, <2>2 DEF SetTokenNextBlock, StoreOK
  <2> QED BY <1>3, <2>3, <2>4, TypeInvParts
<1>9. ASSUME NEW b \in 1 .. (MaxLog + 1), SetNextBlock(b) PROVE TypeInv'
  <2>1. ConfigOK'
    BY <1>1, <1>9 DEF SetNextBlock, ConfigOK
  <2>2. StoreOK'
    BY <1>1, <1>9, ConstantsOK DEF SetNextBlock, StoreOK
  <2> QED BY <1>3, <2>1, <2>2, TypeInvParts
<1>10. ASSUME NEW upTo \in 0 .. MaxLog, NEW older \in SUBSET DOMAIN txs,
              ClearTransactions(upTo, older)
       PROVE  TypeInv'
  <2>1. ConfigOK'
    BY <1>1, <1>10 DEF ClearTransactions, ConfigOK
  <2>2. StoreOK'
    BY <1>1, <1>10 DEF ClearTransactions, StoreOK
  <2> QED BY <1>3, <2>1, <2>2, TypeInvParts
<1>11. ASSUME NEW t \in Tokens, NEW i \in 1 .. MaxLog, ProcessTokenArchivedBlock(t, i)
       PROVE  TypeInv'
  <2>1. i \in Nat \ {0} /\ Deposit(t, i) \in [token : Tokens, pos : Nat]
    BY ConstantsOK DEF Deposit
  <2>2. ConfigOK'
    BY <1>1, <1>11 DEF ProcessTokenArchivedBlock, ConfigOK
  <2>3. StoreOK'
    BY <1>1, <1>11, <2>1 DEF ProcessTokenArchivedBlock, StoreOK
  <2> QED BY <1>3, <2>2, <2>3, TypeInvParts
<1> QED BY <1>4, <1>5, <1>6, <1>7, <1>8, <1>9, <1>10, <1>11 DEF Operator

LEMMA TypeStep == TypeInv /\ [Next]_vars => TypeInv'
<1> SUFFICES ASSUME TypeInv, [Next]_vars PROVE TypeInv'
  OBVIOUS
<1>1. CASE UNCHANGED vars
  <2>1. LedgerOK /\ ConfigOK /\ StoreOK /\ CallsOK
    BY TypeInvParts
  <2>2. LedgerOK' /\ CallsOK'
    BY <1>1, <2>1 DEF vars, external, LedgerOK, CallsOK, PollsOK, PollOK
  <2>3. ConfigOK' /\ StoreOK'
    BY <1>1, <2>1 DEF vars, config, cursors, bounds, history, ConfigOK, StoreOK
  <2> QED BY <2>2, <2>3, TypeInvParts
<1> QED BY <1>1, TypeLedgers, TypeTick, TypePollStep, TypeOperator DEF Next

(* Every variable keeps its type, whatever the constants: cursors and keys stay
   positive block indices through rejects, traps and rewinds. *)
THEOREM TypeCorrect == Spec => []TypeOK
<1>1. TypeInv => TypeOK
  BY DEF TypeInv
<1> QED BY <1>1, TypeInit, TypeStep, PTL DEF Spec

-----------------------------------------------------------------------------
(* What only grows, and what a step may add *)

\* A transfer on t's ledger that concerns a subaccount handed out.
IsRecordable(t, i) ==
  /\ i \in 1 .. Len(log[t])
  /\ log[t][i].op = "transfer"
  /\ MatchesSubaccount(AsArchived(t, log[t][i]))

LEMMA LedgersOnlyGrow ==
  ASSUME TypeInv, [Next]_vars, NEW t \in Tokens
  PROVE  /\ Len(log[t]) \in Nat /\ Len(log'[t]) \in Nat /\ Len(log'[t]) >= Len(log[t])
         /\ \A i \in 1 .. Len(log[t]) : log'[t][i] = log[t][i]
         /\ archived[t] \in Nat /\ archived'[t] \in Nat /\ archived'[t] >= archived[t]
         /\ nonce \in Nat /\ nonce' \in Nat /\ nonce' >= nonce
<1> USE DEF external, config
<1>1. TypeInv'
  BY TypeStep
<1>2. /\ log[t] \in Seq(LogBlock) /\ log'[t] \in Seq(LogBlock)
      /\ archived[t] \in Nat /\ archived'[t] \in Nat
      /\ nonce \in Nat /\ nonce' \in Nat
  BY <1>1, ConstantsOK DEF TypeInv, TypeOK
<1>3. Len(log[t]) \in Nat /\ Len(log'[t]) \in Nat
  BY <1>2, LenProperties
<1>4. ASSUME NEW u \in Tokens, NEW b \in Block, LedgerAppend(u, b)
      PROVE  /\ Len(log'[t]) >= Len(log[t]) /\ archived' = archived /\ nonce' = nonce
             /\ \A i \in 1 .. Len(log[t]) : log'[t][i] = log[t][i]
  BY <1>4, LogGrows DEF LedgerAppend, TypeInv
<1>5. ASSUME NEW u \in Tokens, LedgerArchive(u)
      PROVE  log' = log /\ archived'[t] >= archived[t] /\ nonce' = nonce
  BY <1>5 DEF LedgerArchive, TypeInv, TypeOK
<1>6. CASE Ledgers
  BY <1>2, <1>3, <1>4, <1>5, <1>6, ConstantsOK DEF Ledgers
<1>7. ASSUME NEW c \in Cycles, Tick(c) PROVE UNCHANGED <<log, archived, nonce>>
  BY <1>7 DEF Tick
<1>8. ASSUME NEW c \in Cycles, NEW u \in Tokens, PollStep(c, u)
      PROVE  UNCHANGED <<log, archived, nonce>>
  BY <1>8 DEF PollStep, AnswerOk, AnswerReject, StoreBatch, StoreAndNotify, TrapOnBatch,
     WebhookReply
<1>9. CASE Operator
  <2>1. UNCHANGED <<log, archived>> /\ (AddSubaccount \/ UNCHANGED nonce)
    BY <1>9 DEF Operator, AddSubaccount, SetWebhookUrl, ResetTokenBlocks, RegisterToken,
       SetTokenNextBlock, SetNextBlock, ClearTransactions, ProcessTokenArchivedBlock
  <2> QED BY <2>1, <1>2, <1>3 DEF AddSubaccount
<1>10. CASE UNCHANGED vars
  BY <1>10, <1>2, <1>3 DEF vars
<1> QED BY <1>2, <1>3, <1>6, <1>7, <1>8, <1>9, <1>10 DEF Next

LEMMA RecordableStable ==
  ASSUME TypeInv, [Next]_vars, NEW t \in Tokens, NEW i \in Nat, IsRecordable(t, i)
  PROVE  IsRecordable(t, i)'
<1>1. /\ i \in 1 .. Len(log'[t]) /\ log'[t][i] = log[t][i]
      /\ \A a : Includes(a) => Includes(a)'
  BY LedgersOnlyGrow DEF IsRecordable, Includes
<1>2. \A b : MatchesSubaccount(b) => MatchesSubaccount(b)'
  BY <1>1 DEF MatchesSubaccount, Includes
<1>3. AsArchived(t, log[t][i])' = AsArchived(t, log[t][i])
  BY <1>1 DEF AsArchived
<1>4. MatchesSubaccount(AsArchived(t, log[t][i]))'
  BY <1>2, <1>3 DEF IsRecordable, MatchesSubaccount, Includes
<1> QED BY <1>1, <1>4 DEF IsRecordable

\* The two adapters differ only in deposits the polling one does not see.
LEMMA PolledIsArchived ==
  ASSUME TypeInv, NEW t \in Tokens, NEW b \in LogBlock,
         MatchesSubaccount(AsPolled(t, b)), ~ HashTraps(AsPolled(t, b))
  PROVE  b.op = "transfer" /\ MatchesSubaccount(AsArchived(t, b))
<1>1. CASE t = ICP
  BY <1>1 DEF AsPolled, AsArchived, HashTraps
<1>2. CASE t # ICP
  <2>1. b.op = "transfer"
    BY <1>2 DEF AsPolled, HashTraps, LogBlock
  <2>2. AsArchived(t, b).op = "transfer" /\ AsArchived(t, b).to = b.to
    BY <1>2, <2>1 DEF AsArchived, LogBlock
  <2>3. AsPolled(t, b).op = "transfer" /\ AsPolled(t, b).spender = NoAccount
        /\ AsPolled(t, b).to \in {b.to, NoAccount}
    BY <1>2, <2>1 DEF AsPolled, LogBlock
  <2>4. ~ Includes(NoAccount)
    BY ConstantsOK DEF Includes, TypeInv, TypeOK
  <2>5. Includes(b.to)
    BY <2>3, <2>4 DEF MatchesSubaccount
  <2> QED BY <2>1, <2>2, <2>5 DEF MatchesSubaccount
<1> QED BY <1>1, <1>2

\* A record that an answer adds.
LEMMA AnswerAdds ==
  ASSUME TypeInv, NEW t \in Tokens, NEW p \in Poll, p.phase = "answered",
         PollOK(t, p), ~ Traps(t, p),
         NEW k \in DOMAIN Stored(t, p), k \notin DOMAIN txs
  PROVE  \E i \in Nat : /\ Stored(t, p)[k] = Deposit(t, i) /\ IsRecordable(t, i)
                        /\ k <= i /\ (k = i \/ archived[t] >= 1)
<1>1. PICK i \in Fresh(t, p) : k = Key(p, i)
  BY DEF Stored
<1>2. i \in Blocks(p) /\ i \in Matched(t, p)
  BY <1>1 DEF Fresh, Matched
<1>3. /\ p.next \in Nat \ {0} /\ p.lo \in Nat /\ p.hi \in Nat
      /\ i \in Nat /\ i \in 1 .. Len(log[t])
      /\ p.lo <= i /\ i <= p.hi
  BY <1>2, AnswerStored DEF PollOK, Poll, Blocks
<1>4. Stored(t, p)[k] = Deposit(t, p.lo + (k - p.next))
  BY DEF Stored
<1>5. p.lo + (k - p.next) = i
  BY <1>1, <1>3 DEF Key
<1>6. archived[t] \in Nat
  BY DEF TypeInv, TypeOK
<1>7. k <= i /\ (k = i \/ archived[t] >= 1)
  BY <1>1, <1>3, <1>6 DEF Key, PollOK
<1>8. log[t][i] \in LogBlock
  BY <1>3 DEF TypeInv, TypeOK
<1>9. IsRecordable(t, i)
  BY <1>2, <1>3, <1>8, PolledIsArchived DEF IsRecordable, Matched, Traps
<1> QED BY <1>3, <1>4, <1>5, <1>7, <1>9

LEMMA StepAdds ==
  ASSUME TypeInv, [Next]_vars, NEW k \in DOMAIN txs', k \notin DOMAIN txs
  PROVE  \E t \in Tokens, i \in Nat :
           /\ txs'[k] = Deposit(t, i) /\ IsRecordable(t, i)
           /\ k <= i /\ (k = i \/ archived[t] >= 1)
<1>1. ASSUME NEW c \in Cycles, NEW t \in Tokens,
             StoreBatch(c, t) \/ StoreAndNotify(c, t)
      PROVE  \E i \in Nat : /\ txs'[k] = Deposit(t, i) /\ IsRecordable(t, i)
                            /\ k <= i /\ (k = i \/ archived[t] >= 1)
  <2> DEFINE p == polls[c][t]
  <2>1. p.phase = "answered" /\ ~ Traps(t, p) /\ txs' = Stored(t, p)
    BY <1>1 DEF StoreBatch, StoreAndNotify
  <2>2. p \in Poll /\ PollOK(t, p)
    BY DEF TypeInv, TypeOK, PollsOK
  <2> QED BY <2>1, <2>2, AnswerAdds
<1>2. ASSUME NEW t \in Tokens, NEW i \in 1 .. MaxLog, ProcessTokenArchivedBlock(t, i)
      PROVE  k = i /\ txs'[k] = Deposit(t, i) /\ IsRecordable(t, i) /\ i \in Nat
  <2>1. k = i /\ txs'[k] = Deposit(t, i) /\ i \in Nat /\ i \in 1 .. Len(log[t])
    BY <1>2, ConstantsOK DEF ProcessTokenArchivedBlock
  <2>2. log[t][i] \in LogBlock
    BY <2>1 DEF TypeInv, TypeOK
  <2>3. log[t][i].op = "transfer"
    BY <1>2, <2>2 DEF ProcessTokenArchivedBlock, HashTraps, AsArchived, LogBlock
  <2> QED BY <1>2, <2>1, <2>3 DEF ProcessTokenArchivedBlock, IsRecordable
<1>3. ~ (UNCHANGED txs)
  OBVIOUS
<1>4. ASSUME NEW c \in Cycles, NEW t \in Tokens, PollStep(c, t)
      PROVE  StoreBatch(c, t) \/ StoreAndNotify(c, t)
  BY <1>3, <1>4 DEF PollStep, AnswerOk, AnswerReject, TrapOnBatch, WebhookReply
<1>5. ~ Ledgers /\ ~ \E c \in Cycles : Tick(c)
  BY <1>3 DEF Ledgers, LedgerAppend, LedgerArchive, Tick
<1>6. ASSUME Operator PROVE \E t \in Tokens, i \in 1 .. MaxLog : ProcessTokenArchivedBlock(t, i)
  BY <1>3, <1>6 DEF Operator, AddSubaccount, SetWebhookUrl, ResetTokenBlocks, RegisterToken,
     SetTokenNextBlock, SetNextBlock, ClearTransactions
<1>7. ~ UNCHANGED vars
  BY <1>3 DEF vars
<1>8. CASE \E c \in Cycles, t \in Tokens : PollStep(c, t)
  BY <1>1, <1>4, <1>8
<1>9. CASE Operator
  <2>1. PICK t \in Tokens, i \in 1 .. MaxLog : ProcessTokenArchivedBlock(t, i)
    BY <1>6, <1>9
  <2>2. k = i /\ txs'[k] = Deposit(t, i) /\ IsRecordable(t, i) /\ i \in Nat
    BY <1>2, <2>1
  <2> QED BY <2>2
<1> QED BY <1>5, <1>7, <1>8, <1>9 DEF Next

-----------------------------------------------------------------------------
(* The records *)

LEMMA RecordsKept ==
  ASSUME TypeInv, [Next]_vars, NEW k \in DOMAIN txs
  PROVE  IF k \in DOMAIN txs' THEN txs'[k] = txs[k] ELSE txs[k] \in cleared'
<1>1. CASE UNCHANGED txs
  BY <1>1
<1>2. ASSUME NEW c \in Cycles, NEW t \in Tokens,
             StoreBatch(c, t) \/ StoreAndNotify(c, t)
      PROVE  k \in DOMAIN txs' /\ txs'[k] = txs[k]
  <2>1. txs' = Stored(t, polls[c][t])
    BY <1>2 DEF StoreBatch, StoreAndNotify
  <2> QED BY <2>1 DEF Stored
<1>3. ASSUME NEW upTo, NEW older, ClearTransactions(upTo, older)
      PROVE  IF k \in DOMAIN txs' THEN txs'[k] = txs[k] ELSE txs[k] \in cleared'
  BY <1>3 DEF ClearTransactions
<1>4. ASSUME NEW t \in Tokens, NEW i \in 1 .. MaxLog, ProcessTokenArchivedBlock(t, i)
      PROVE  k \in DOMAIN txs' /\ txs'[k] = txs[k]
  BY <1>4 DEF ProcessTokenArchivedBlock
<1>5. CASE Operator
  <2>1. CASE \E upTo \in 0 .. MaxLog, older \in SUBSET DOMAIN txs : ClearTransactions(upTo, older)
    BY <2>1, <1>3
  <2>2. CASE \E t \in Tokens, i \in 1 .. MaxLog : ProcessTokenArchivedBlock(t, i)
    <3>1. k \in DOMAIN txs' /\ txs'[k] = txs[k]
      BY <2>2, <1>4
    <3> QED BY <3>1
  <2> QED BY <1>1, <1>5, <2>1, <2>2 DEF Operator, AddSubaccount, SetWebhookUrl,
          ResetTokenBlocks, RegisterToken, SetTokenNextBlock, SetNextBlock
<1>6. CASE \E c \in Cycles, t \in Tokens : PollStep(c, t)
  <2>1. PICK c \in Cycles, t \in Tokens : PollStep(c, t)
    BY <1>6
  <2>2. StoreBatch(c, t) \/ StoreAndNotify(c, t) \/ UNCHANGED txs
    BY <2>1 DEF PollStep, AnswerOk, AnswerReject, TrapOnBatch, WebhookReply
  <2>3. CASE StoreBatch(c, t) \/ StoreAndNotify(c, t)
    <3>1. k \in DOMAIN txs' /\ txs'[k] = txs[k]
      BY <2>3, <1>2
    <3> QED BY <3>1
  <2> QED BY <1>1, <2>2, <2>3
<1>7. CASE Ledgers \/ \E c \in Cycles : Tick(c)
  BY <1>1, <1>7 DEF Ledgers, LedgerAppend, LedgerArchive, Tick
<1>8. CASE UNCHANGED vars
  BY <1>1, <1>8 DEF vars
<1> QED BY <1>5, <1>6, <1>7, <1>8 DEF Next

(* No deposit takes the place of another in a record, and a record leaves with
   clear_transactions only, however many polls are out, of whatever tokens and
   ranges: the contains_key test is enough. *)
THEOREM RecordsStable == Spec => RecordsAreStable
<1>1. TypeInv /\ [Next]_vars =>
        [\A k \in DOMAIN txs :
           IF k \in DOMAIN txs' THEN txs'[k] = txs[k] ELSE txs[k] \in cleared']_vars
  BY RecordsKept
<1> QED BY <1>1, TypeInit, TypeStep, PTL DEF Spec, RecordsAreStable

RecordsInv == TypeInv /\ RecordsAreLedgerTransfers

LEMMA RecordsOfTx ==
  ASSUME TypeInv, NEW k \in DOMAIN txs
  PROVE  /\ txs[k].token \in Tokens /\ txs[k].pos \in Nat
         /\ \A t, i : txs[k] = Deposit(t, i) => txs[k].token = t /\ txs[k].pos = i
BY DEF TypeInv, TypeOK, Deposit

LEMMA RecordsStep == RecordsInv /\ [Next]_vars => RecordsInv'
<1> SUFFICES ASSUME RecordsInv, [Next]_vars PROVE RecordsInv'
  OBVIOUS
<1>1. TypeInv /\ TypeInv'
  BY TypeStep DEF RecordsInv
<1>2. ASSUME NEW k \in DOMAIN txs'
      PROVE  IsRecordable(txs[k].token, txs[k].pos)' /\ k <= txs'[k].pos
  <2>1. CASE k \in DOMAIN txs
    <3>1. txs'[k] = txs[k]
      BY <1>1, <2>1, RecordsKept
    <3>2. IsRecordable(txs[k].token, txs[k].pos) /\ k <= txs[k].pos
      BY <2>1 DEF RecordsInv, RecordsAreLedgerTransfers, IsRecordable
    <3>3. txs[k].token \in Tokens /\ txs[k].pos \in Nat
      BY <1>1, <2>1, RecordsOfTx
    <3>4. PICK t \in Tokens, i \in Nat : txs[k].token = t /\ txs[k].pos = i
      BY <3>3
    <3>5. IsRecordable(t, i)'
      BY <1>1, <3>2, <3>4, RecordableStable
    <3>6. txs'[k].token = t /\ txs'[k].pos = i /\ k <= i
      BY <3>1, <3>2, <3>4
    <3> QED BY <3>5, <3>6 DEF IsRecordable, MatchesSubaccount, AsArchived, Includes
  <2>2. CASE k \notin DOMAIN txs
    <3>1. PICK t \in Tokens, i \in Nat :
            txs'[k] = Deposit(t, i) /\ IsRecordable(t, i) /\ k <= i
      BY <1>1, <2>2, StepAdds
    <3>2. IsRecordable(t, i)'
      BY <1>1, <3>1, RecordableStable
    <3>3. txs'[k].token = t /\ txs'[k].pos = i
      BY <3>1 DEF Deposit
    <3> QED BY <3>1, <3>2, <3>3 DEF IsRecordable, MatchesSubaccount, AsArchived, Includes
  <2> QED BY <2>1, <2>2
<1> QED BY <1>1, <1>2 DEF RecordsInv, RecordsAreLedgerTransfers, IsRecordable

(* Everything in TRANSACTIONS is a transfer on the ledger of its token that
   concerns a subaccount handed out, under a key not past the block. *)
THEOREM RecordsCorrect == Spec => []RecordsAreLedgerTransfers
<1>1. Init => RecordsInv
  <2>1. Init => TypeInv /\ DOMAIN txs = {}
    BY TypeInit DEF Init
  <2> QED BY <2>1 DEF RecordsInv, RecordsAreLedgerTransfers
<1>2. RecordsInv => RecordsAreLedgerTransfers
  BY DEF RecordsInv
<1> QED BY <1>1, <1>2, RecordsStep, PTL DEF Spec

-----------------------------------------------------------------------------
(* Keys *)

NothingArchived == \A t \in Tokens : archived[t] = 0

KeyInv == TypeInv /\ NothingArchived /\ KeyIsBlockIndex

LEMMA NothingArchivedStep ==
  ASSUME MaxArchived = 0, TypeInv, NothingArchived, [Next]_vars
  PROVE  NothingArchived'
<1>1. ASSUME NEW t \in Tokens, LedgerArchive(t) PROVE FALSE
  BY <1>1 DEF LedgerArchive, NothingArchived
<1>2. UNCHANGED archived
  <2>1. CASE Ledgers
    BY <2>1, <1>1 DEF Ledgers, LedgerAppend
  <2>2. CASE \E c \in Cycles : Tick(c)
    BY <2>2 DEF Tick, external
  <2>3. CASE \E c \in Cycles, t \in Tokens : PollStep(c, t)
    BY <2>3 DEF PollStep, AnswerOk, AnswerReject, StoreBatch, StoreAndNotify,
       TrapOnBatch, WebhookReply, external
  <2>4. CASE Operator
    BY <2>4 DEF Operator, AddSubaccount, SetWebhookUrl, ResetTokenBlocks, RegisterToken,
       SetTokenNextBlock, SetNextBlock, ClearTransactions, ProcessTokenArchivedBlock,
       external
  <2>5. CASE UNCHANGED vars
    BY <2>5 DEF vars, external
  <2> QED BY <2>1, <2>2, <2>3, <2>4, <2>5 DEF Next
<1> QED BY <1>2 DEF NothingArchived

LEMMA KeyStep ==
  ASSUME MaxArchived = 0, KeyInv, [Next]_vars
  PROVE  KeyInv'
<1>1. TypeInv /\ TypeInv' /\ NothingArchived /\ NothingArchived'
  BY TypeStep, NothingArchivedStep DEF KeyInv
<1>2. ASSUME NEW k \in DOMAIN txs' PROVE txs'[k].pos = k
  <2>1. CASE k \in DOMAIN txs
    <3>1. txs'[k] = txs[k]
      BY <1>1, <2>1, RecordsKept
    <3> QED BY <2>1, <3>1 DEF KeyInv, KeyIsBlockIndex
  <2>2. CASE k \notin DOMAIN txs
    <3>1. PICK t \in Tokens, i \in Nat :
            txs'[k] = Deposit(t, i) /\ (k = i \/ archived[t] >= 1)
      BY <1>1, <2>2, StepAdds
    <3>2. archived[t] = 0
      BY <1>1 DEF NothingArchived
    <3> QED BY <3>1, <3>2 DEF Deposit
  <2> QED BY <2>1, <2>2
<1> QED BY <1>1, <1>2 DEF KeyInv, KeyIsBlockIndex

(* As long as no ledger archives a block, the key of a record is the index of
   its block, in every order of polls, rewinds and archive look-ups. *)
THEOREM KeyCorrect ==
  ASSUME MaxArchived = 0
  PROVE  Spec => []KeyIsBlockIndex
<1>1. Init => KeyInv
  <2>1. Init => TypeInv /\ DOMAIN txs = {} /\ NothingArchived
    BY TypeInit DEF Init, NothingArchived
  <2> QED BY <2>1 DEF KeyInv, KeyIsBlockIndex
<1>2. KeyInv /\ [Next]_vars => KeyInv'
  BY KeyStep
<1>3. KeyInv => KeyIsBlockIndex
  BY DEF KeyInv
<1> QED BY <1>1, <1>2, <1>3, PTL DEF Spec
=============================================================================
