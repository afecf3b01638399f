--------------------------- MODULE LifecycleProofs ---------------------------
(* What survives every upgrade, for every value of the constants. *)
EXTENDS Lifecycle, FiniteSetTheorems, TLAPS

\* LIST_OF_SUBACCOUNTS holds what the nonce says, and all of it was given out.
TableOK ==
  /\ handedOut = 0 .. (nonce - 1)
  /\ version = "new" => subaccounts = TableOf(0 .. (nonce - 1))

\* The old counter is that of ICP, until it is taken over.
OldCursorsOK ==
  version # "new" => DOMAIN tokenBlocks = {} /\ progress = [AllFrom1 EXCEPT ![ICP] = nextBlock]

NoneOK == version = "none" => nonce = 0 /\ nextBlock = 1

Inv == TypeOK /\ TableOK /\ OldCursorsOK /\ NoneOK /\ OneTimer /\ CursorsKept /\ CustodianCanOperate

-----------------------------------------------------------------------------
(* Lemmas about the operators *)

LEMMA TableIs ==
  ASSUME NEW n \in 0 .. MaxNonce
  PROVE  /\ DOMAIN TableOf(0 .. (n - 1)) = {Hash[m] : m \in 0 .. (n - 1)}
         /\ \A m \in 0 .. (n - 1) : TableOf(0 .. (n - 1))[Hash[m]] = m
         /\ \A h \in DOMAIN TableOf(0 .. (n - 1)) :
              TableOf(0 .. (n - 1))[h] \in 0 .. (MaxNonce - 1)
<1> DEFINE I == 0 .. (n - 1)
<1>1. I \subseteq 0 .. MaxNonce /\ I \subseteq 0 .. (MaxNonce - 1)
  BY ConstantsOK
<1> HIDE DEF I
<1>2. ASSUME NEW m \in I PROVE (CHOOSE k \in I : Hash[k] = Hash[m]) = m
  <2>1. \A k \in I : Hash[k] = Hash[m] => k = m
    BY <1>1, HashInjective
  <2> QED BY <2>1
<1>3. \A m \in I : TableOf(I)[Hash[m]] = m
  BY <1>2 DEF TableOf
<1>4. DOMAIN TableOf(I) = {Hash[m] : m \in I}
  BY DEF TableOf
<1>5. \A h \in DOMAIN TableOf(I) : TableOf(I)[h] \in 0 .. (MaxNonce - 1)
  BY <1>1, <1>3, <1>4
<1> QED BY <1>3, <1>4, <1>5 DEF I

\* Filing the next subaccount makes the table of one more.
LEMMA TableGrows ==
  ASSUME NEW n \in 0 .. (MaxNonce - 1)
  PROVE  TableOf(0 .. n) =
           [h \in DOMAIN TableOf(0 .. (n - 1)) \cup {Hash[n]} |->
              IF h = Hash[n] THEN n ELSE TableOf(0 .. (n - 1))[h]]
<1> DEFINE T == TableOf(0 .. (n - 1))
           U == TableOf(0 .. n)
           V == [h \in DOMAIN T \cup {Hash[n]} |-> IF h = Hash[n] THEN n ELSE T[h]]
<1>1. n \in 0 .. MaxNonce /\ n + 1 \in 0 .. MaxNonce /\ (n + 1) - 1 = n
  BY ConstantsOK
<1>2. 0 .. n = (0 .. (n - 1)) \cup {n} /\ n \notin 0 .. (n - 1)
  BY <1>1
<1>3. DOMAIN T = {Hash[m] : m \in 0 .. (n - 1)} /\ \A m \in 0 .. (n - 1) : T[Hash[m]] = m
  BY <1>1, TableIs
<1>4. DOMAIN U = {Hash[m] : m \in 0 .. n} /\ \A m \in 0 .. n : U[Hash[m]] = m
  BY <1>1, TableIs
<1>5. U = [h \in DOMAIN U |-> U[h]]
  BY DEF TableOf
<1> HIDE DEF T, U
<1>6. DOMAIN U = DOMAIN V
  BY <1>2, <1>3, <1>4
<1>7. ASSUME NEW m \in 0 .. n PROVE V[Hash[m]] = m
  <2>1. CASE m = n
    BY <2>1
  <2>2. CASE m # n
    <3>1. m \in 0 .. (n - 1)
      BY <1>2, <2>2
    <3>2. m \in 0 .. MaxNonce
      BY <1>1, ConstantsOK
    <3>3. Hash[m] # Hash[n]
      BY <1>1, <2>2, <3>2, HashInjective
    <3> QED BY <1>3, <3>1, <3>3
  <2> QED BY <2>1, <2>2
<1>8. \A h \in DOMAIN U : U[h] = V[h]
  BY <1>4, <1>7
<1>9. U = V
  BY <1>5, <1>6, <1>8
<1> QED BY <1>9 DEF T, U

\* The timer that set_interval starts is the only one, if there was none but
\* the one it clears.
LEMMA StartedIsOnly ==
  ASSUME NEW seconds, NEW running, NEW current \in Nat,
         \/ DOMAIN running = {} /\ current = NoTimer
         \/ DOMAIN running = {current} /\ current # NoTimer,
         StartTimer(seconds, running, current)
  PROVE  /\ timer' \in Nat \ {NoTimer}
         /\ DOMAIN timers' = {timer'} /\ timers'[timer'] = seconds /\ interval' = seconds
<1> DEFINE used == DOMAIN running \cup {current}
           id == NewTimer(used)
<1>1. used = {current}
  OBVIOUS
<1>2. Cardinality(used) = 1
  BY <1>1, FS_Singleton
<1>3. \E i \in 1 .. 2 : i \notin used
  BY <1>1
<1> HIDE DEF used
<1>4. 1 .. (Cardinality(used) + 1) = 1 .. 2
  BY <1>2
<1>5. id \in 1 .. 2 /\ id \notin used
  BY <1>3, <1>4 DEF NewTimer
<1>6. DOMAIN running \ {current} = {}
  OBVIOUS
<1>7. /\ timers' = [i \in (DOMAIN running \ {current}) \cup {id} |->
                      IF i = id THEN seconds ELSE running[i]]
      /\ timer' = id /\ interval' = seconds
  BY DEF StartTimer, used
<1> HIDE DEF id
<1> QED BY <1>5, <1>6, <1>7 DEF NoTimer

-----------------------------------------------------------------------------
(* The invariant *)

LEMMA InvInit == Init => Inv
<1> SUFFICES ASSUME Init PROVE Inv
  OBVIOUS
<1>1. version \in {"none", "old"} /\ nonce \in 0 .. MaxNonce /\ nextBlock \in Blocks
      /\ NoneOK /\ connected \in Networks
  BY ConstantsOK DEF Init, Blocks, NoneOK, Networks
<1>2. DOMAIN tokenBlocks = {} /\ DOMAIN subaccounts = {} /\ DOMAIN timers = {}
  BY DEF Init
<1>3. progress = [AllFrom1 EXCEPT ![ICP] = nextBlock] /\ progress \in [Tokens -> Blocks]
  BY <1>1, ConstantsOK DEF Init, AllFrom1, Blocks
<1>4. calls \in [Calls -> Call \cup {NoCall}]
  BY DEF Init, NoCall, Call
<1>5. handedOut \subseteq 0 .. (MaxNonce - 1)
  BY <1>1, ConstantsOK DEF Init
<1>6. timer \in Nat /\ interval \in Intervals /\ network \in Networks
  BY DEF Init, NoTimer, Networks
<1>7. TypeOK
  BY <1>1, <1>2, <1>3, <1>4, <1>5, <1>6 DEF Init, TypeOK
<1> QED
  BY <1>1, <1>2, <1>3, <1>7
     DEF Init, Inv, TableOK, OldCursorsOK, OneTimer, CursorsKept, CustodianCanOperate

LEMMA InstallStep ==
  ASSUME Inv, NEW net \in Networks, NEW s \in Intervals, NEW n \in InitialNonces,
         NEW p \in Principals, Install(net, s, n, p)
  PROVE  Inv'
<1>1. n \in 0 .. MaxNonce
  BY ConstantsOK
<1>2. /\ timer' \in Nat \ {NoTimer} /\ interval' = s
      /\ DOMAIN timers' = {timer'} /\ timers'[timer'] = s
  <2>1. StartTimer(s, <<>>, NoTimer) /\ NoTimer \in Nat /\ DOMAIN <<>> = {}
    BY DEF Install, NoTimer
  <2> QED BY <2>1, StartedIsOnly
<1>3. subaccounts' = TableOf(0 .. (n - 1)) /\ handedOut' = 0 .. (n - 1) /\ nonce' = n
  BY DEF Install, Reconstructed
<1>4. \A h \in DOMAIN subaccounts' : subaccounts'[h] \in 0 .. (MaxNonce - 1)
  BY <1>1, <1>3, TableIs
<1>5. progress' = AllFrom1 /\ tokenBlocks' = AllFrom1 /\ AllFrom1 \in [Tokens -> Blocks]
  BY ConstantsOK DEF Install, Inv, OldCursorsOK, NoneOK, AllFrom1, Blocks
<1>6. handedOut' \subseteq 0 .. (MaxNonce - 1)
  BY <1>1, <1>3, ConstantsOK
<1>7. TypeOK'
  BY <1>1, <1>2, <1>3, <1>4, <1>5, <1>6 DEF Install, Inv, TypeOK
<1> QED
  BY <1>2, <1>3, <1>5, <1>7
     DEF Install, Inv, TableOK, OldCursorsOK, NoneOK, OneTimer, CursorsKept, CustodianCanOperate

LEMMA UpgradeStep ==
  ASSUME Inv, NEW p \in Controllers, Upgrade(p)
  PROVE  Inv'
<1>1. Authenticated(p, HeapNetwork)
  BY DEF Authenticated, HeapNetwork
<1>2. /\ timer' \in Nat \ {NoTimer} /\ interval' = UpgradeInterval
      /\ DOMAIN timers' = {timer'} /\ timers'[timer'] = UpgradeInterval
  <2>1. StartTimer(UpgradeInterval, <<>>, NoTimer) /\ NoTimer \in Nat /\ DOMAIN <<>> = {}
    BY <1>1 DEF Upgrade, NoTimer
  <2> QED BY <2>1, StartedIsOnly
<1>3. subaccounts' = TableOf(0 .. (nonce - 1)) /\ nonce' = nonce /\ handedOut' = handedOut
  BY DEF Upgrade, Reconstructed, history
<1>4. \A h \in DOMAIN subaccounts' : subaccounts'[h] \in 0 .. (MaxNonce - 1)
  BY <1>3, TableIs DEF Inv, TypeOK
<1>5. tokenBlocks' = progress /\ progress' = progress
  <2>1. CASE version = "old"
    <3>1. NeedsMigration(tokenBlocks) /\ progress = [AllFrom1 EXCEPT ![ICP] = nextBlock]
      BY <2>1 DEF Inv, OldCursorsOK, NeedsMigration
    <3> QED BY <3>1 DEF Upgrade, Migrated, history
  <2>2. CASE version = "new"
    <3>1. tokenBlocks = progress /\ DOMAIN tokenBlocks = Tokens
      BY <2>2 DEF Inv, CursorsKept, TypeOK
    <3>2. ~ NeedsMigration(tokenBlocks)
      BY <3>1, ConstantsOK DEF NeedsMigration
    <3> QED BY <3>1, <3>2 DEF Upgrade, Migrated, history
  <2> QED BY <2>1, <2>2 DEF Upgrade
<1>6. custodian' \in Principals
  BY ConstantsOK DEF Upgrade, Adopted, Inv, TypeOK
<1>7. TypeOK'
  BY <1>2, <1>3, <1>4, <1>5, <1>6 DEF Upgrade, Inv, TypeOK
<1> QED
  BY <1>2, <1>3, <1>5, <1>6, <1>7
     DEF Upgrade, Inv, TableOK, OldCursorsOK, NoneOK, OneTimer, CursorsKept, CustodianCanOperate

LEMMA SetIntervalStep ==
  ASSUME Inv, NEW p \in Principals, NEW s \in Intervals, SetInterval(p, s)
  PROVE  Inv'
<1>1. version = "new" /\ DOMAIN timers = {timer} /\ timer \in Nat /\ timer # NoTimer
  BY DEF SetInterval, Permitted, Inv, OneTimer, TypeOK
<1>2. /\ timer' \in Nat \ {NoTimer} /\ interval' = s
      /\ DOMAIN timers' = {timer'} /\ timers'[timer'] = s
  <2>1. StartTimer(s, timers, timer)
    BY DEF SetInterval
  <2> QED BY <1>1, <2>1, StartedIsOnly
<1>3. TypeOK'
  BY <1>2 DEF SetInterval, Inv, TypeOK, history
<1> QED
  BY <1>2, <1>3 DEF SetInterval, history, Inv, TableOK, OldCursorsOK, NoneOK, OneTimer,
     CursorsKept, CustodianCanOperate

LEMMA AddSubaccountStep ==
  ASSUME Inv, NEW p \in Principals, AddSubaccount(p)
  PROVE  Inv'
<1>1. nonce \in 0 .. (MaxNonce - 1) /\ version = "new"
  BY ConstantsOK DEF AddSubaccount, Permitted, Inv, TypeOK
<1>2. nonce' = nonce + 1 /\ nonce' \in 0 .. MaxNonce /\ nonce' - 1 = nonce
  BY <1>1, ConstantsOK DEF AddSubaccount
<1>3. subaccounts = TableOf(0 .. (nonce - 1)) /\ handedOut = 0 .. (nonce - 1)
  BY <1>1 DEF Inv, TableOK
<1>4. subaccounts' = [h \in DOMAIN subaccounts \cup {Hash[nonce]} |->
                        IF h = Hash[nonce] THEN nonce ELSE subaccounts[h]]
  BY DEF AddSubaccount
<1>5. subaccounts' = TableOf(0 .. nonce)
  BY <1>1, <1>3, <1>4, TableGrows
<1>6. handedOut' = 0 .. nonce
  BY <1>1, <1>3 DEF AddSubaccount
<1>7. TableOK'
  BY <1>2, <1>5, <1>6 DEF TableOK
<1>8. \A h \in DOMAIN subaccounts' : subaccounts'[h] \in 0 .. (MaxNonce - 1)
  <2> DEFINE n == nonce + 1
  <2>1. n \in 0 .. MaxNonce /\ n - 1 = nonce
    BY <1>2
  <2>2. subaccounts' = TableOf(0 .. (n - 1))
    BY <1>5, <2>1
  <2> HIDE DEF n
  <2> QED BY <2>1, <2>2, TableIs
<1>9. TypeOK'
  BY <1>1, <1>2, <1>6, <1>8 DEF AddSubaccount, Inv, TypeOK
<1> QED
  BY <1>1, <1>7, <1>9 DEF AddSubaccount, Inv, OldCursorsOK, NoneOK, OneTimer,
     CursorsKept, CustodianCanOperate

LEMMA CustodianSteps ==
  ASSUME Inv, NEW c \in Calls,
         \/ \E p, new \in Principals : SetCustodianAsk(c, p, new)
         \/ \E known \in BOOLEAN : SetCustodianAnswer(c, known)
  PROVE  Inv'
<1>1. ASSUME NEW p \in Principals, NEW new \in Principals, SetCustodianAsk(c, p, new)
      PROVE  Inv'
  <2>1. calls' \in [Calls -> Call \cup {NoCall}]
    BY <1>1 DEF SetCustodianAsk, Inv, TypeOK, Call
  <2> QED BY <1>1, <2>1 DEF SetCustodianAsk, stable, heap, history, Inv, TypeOK, TableOK,
             OldCursorsOK, NoneOK, OneTimer, CursorsKept, CustodianCanOperate
<1>2. ASSUME NEW known \in BOOLEAN, SetCustodianAnswer(c, known)
      PROVE  Inv'
  <2>1. calls' \in [Calls -> Call \cup {NoCall}]
    BY <1>2 DEF SetCustodianAnswer, Inv, TypeOK
  <2>2. calls[c] \in Call
    BY <1>2 DEF SetCustodianAnswer, Inv, TypeOK
  <2>3. custodian' = custodian \/ custodian' \in Principals
    BY <1>2, <2>2 DEF SetCustodianAnswer, Call
  <2>4. TypeOK' /\ CustodianCanOperate'
    BY <1>2, <2>1, <2>3 DEF SetCustodianAnswer, heap, history, Inv, TypeOK, CustodianCanOperate
  <2> QED BY <1>2, <2>4 DEF SetCustodianAnswer, heap, history, Inv, TableOK, OldCursorsOK,
             NoneOK, OneTimer, CursorsKept
<1> QED BY <1>1, <1>2

LEMMA CursorSteps ==
  ASSUME Inv, Cursors
  PROVE  Inv'
<1>1. version = "new" /\ version' = "new"
  BY DEF Cursors, Poll, SetTokenNextBlock, ResetTokenBlocks, SetNextBlock, Permitted
<1>2. tokenBlocks = progress /\ DOMAIN tokenBlocks = Tokens /\ progress \in [Tokens -> Blocks]
  BY <1>1 DEF Inv, CursorsKept, TypeOK
<1>3. AllFrom1 \in [Tokens -> Blocks]
  BY ConstantsOK DEF AllFrom1, Blocks
<1> DEFINE OnlyCursors ==
      /\ tokenBlocks' = progress' /\ progress' \in [Tokens -> Blocks] /\ nextBlock' \in Blocks
      /\ UNCHANGED <<connected, interval, nonce, custodian, heap, calls, handedOut>>
<1>4. OnlyCursors
  <2>1. ASSUME NEW t \in Tokens, NEW b \in Blocks, Poll(t, b) PROVE OnlyCursors
    BY <1>2, <2>1 DEF Poll, Inv, TypeOK
  <2>2. ASSUME NEW p \in Principals, NEW t \in Tokens, NEW b \in Blocks,
               SetTokenNextBlock(p, t, b)
        PROVE  OnlyCursors
    BY <1>2, <2>2 DEF SetTokenNextBlock, Inv, TypeOK
  <2>3. ASSUME NEW p \in Principals, ResetTokenBlocks(p) PROVE OnlyCursors
    BY <1>3, <2>3 DEF ResetTokenBlocks, Inv, TypeOK
  <2>4. ASSUME NEW p \in Principals, NEW b \in Blocks, SetNextBlock(p, b) PROVE OnlyCursors
    BY <1>2, <2>4 DEF SetNextBlock, history, Inv, TypeOK
  <2> HIDE DEF OnlyCursors
  <2> QED BY <2>1, <2>2, <2>3, <2>4 DEF Cursors
<1>5. TypeOK'
  BY <1>1, <1>4 DEF Inv, TypeOK, heap
<1> QED
  BY <1>1, <1>4, <1>5
     DEF heap, Inv, TableOK, OldCursorsOK, NoneOK, OneTimer, CursorsKept, CustodianCanOperate

LEMMA InvStep == Inv /\ [Next]_vars => Inv'
<1> SUFFICES ASSUME Inv, [Next]_vars PROVE Inv'
  OBVIOUS
<1>1. CASE Lifetime
  BY <1>1, InstallStep, UpgradeStep DEF Lifetime
<1>2. CASE Configuration
  BY <1>2, SetIntervalStep, AddSubaccountStep, CustodianSteps DEF Configuration
<1>3. CASE Cursors
  BY <1>3, CursorSteps
<1>4. CASE UNCHANGED vars
  BY <1>4 DEF vars, stable, heap, history, Inv, TypeOK, TableOK, OldCursorsOK, NoneOK,
     OneTimer, CursorsKept, CustodianCanOperate
<1> QED BY <1>1, <1>2, <1>3, <1>4 DEF Next

LEMMA Invariance == Spec => []Inv
<1> QED BY InvInit, InvStep, PTL DEF Spec

-----------------------------------------------------------------------------
(* The theorems *)

(* The state keeps its type through every sequence of installs, upgrades and
   calls: in particular the table of post_upgrade holds no subaccount that was
   not handed out. *)
THEOREM TypeCorrect == Spec => []TypeOK
<1>1. Inv => TypeOK
  BY DEF Inv
<1> QED BY <1>1, Invariance, PTL

(* Polling runs exactly once, at the interval that get_interval shows, after
   any number of upgrades and set_interval calls. *)
THEOREM OneTimerRuns == Spec => []OneTimer
<1>1. Inv => OneTimer
  BY DEF Inv
<1> QED BY <1>1, Invariance, PTL

(* reconstruct_subaccounts brings back the table that add_subaccount built, for
   any hash without a collision. *)
THEOREM AddressesKnown == Spec => []AddressesStayKnown
<1>1. Inv => AddressesStayKnown
  <2> SUFFICES ASSUME Inv, version = "new" PROVE AddressesStayKnown
    BY DEF AddressesStayKnown
  <2>1. nonce \in 0 .. MaxNonce /\ nonce \in Nat
    BY ConstantsOK DEF Inv, TypeOK
  <2>2. subaccounts = TableOf(0 .. (nonce - 1)) /\ handedOut = 0 .. (nonce - 1)
    BY DEF Inv, TableOK
  <2>3. nonce \notin handedOut /\ \A n \in handedOut : n < nonce
    BY <2>1, <2>2
  <2>4. \A n \in handedOut : Hash[n] \in DOMAIN subaccounts /\ subaccounts[Hash[n]] = n
    BY <2>1, <2>2, TableIs
  <2> QED BY <2>3, <2>4 DEF AddressesStayKnown, Found
<1> QED BY <1>1, Invariance, PTL

(* migrate_block_tracking neither skips nor repeats the takeover of the old
   counter, although set_next_block and polling still write it. *)
THEOREM CursorsAreKept == Spec => []CursorsKept
<1>1. Inv => CursorsKept
  BY DEF Inv
<1> QED BY <1>1, Invariance, PTL

(* authenticate always finds a custodian, and the network it looks at is the
   one that was installed. *)
THEOREM CustodianOperates == Spec => []CustodianCanOperate
<1>1. Inv => CustodianCanOperate
  BY DEF Inv
<1> QED BY <1>1, Invariance, PTL
===============================================================================
