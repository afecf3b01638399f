------------------------------ MODULE Lifecycle ------------------------------
(***************************************************************************)
(* What of the canister survives an upgrade.                               *)
(*                                                                         *)
(* The stable memory (memory.rs) is kept.  The heap is lost and with it    *)
(* the network, the table of subaccounts and the polling timer, which      *)
(* post_upgrade has to bring back.  The first upgrade may find the stable  *)
(* memory of a version that had one block counter for all tokens and no    *)
(* custodian.                                                              *)
(***************************************************************************)
EXTENDS Integers, FiniteSets

CONSTANTS
  Principals,      \* callers of the canister
  Controllers,     \* those that may upgrade it
  NoPrincipal,     \* StoredPrincipal without a principal
  Tokens,          \* the token types
  ICP,             \* the token of the old block counter
  Hash,            \* Hash[n]: the key of subaccount n in LIST_OF_SUBACCOUNTS
  UpgradeInterval, \* the interval that an upgrade sets (500 s in the code)
  Intervals,       \* bound: intervals that are asked for
  Calls,           \* set_custodian_principal calls that may be in progress
  InitialNonces,   \* bound: nonces to install or upgrade with
  MaxNonce,        \* bound: subaccounts handed out (u32 in the code)
  MaxBlock         \* bound: block indices

ASSUME ConstantsOK ==
  /\ Controllers \subseteq Principals /\ NoPrincipal \notin Principals
  /\ ICP \in Tokens
  /\ MaxNonce \in Nat
  /\ InitialNonces \subseteq 0 .. MaxNonce
  /\ UpgradeInterval \in Nat /\ Intervals \subseteq Nat
  /\ MaxBlock \in Nat \ {0}

\* to_u64_hash has no collision on the subaccounts handed out.
ASSUME HashInjective ==
  \A m, n \in 0 .. MaxNonce : Hash[m] = Hash[n] => m = n

VARIABLES
  version,     \* what runs: "none", an "old" version, or this one, "new"
  connected,   \* CONNECTED_NETWORK, stable
  interval,    \* INTERVAL_IN_SECONDS, stable
  nonce,       \* LAST_SUBACCOUNT_NONCE, stable
  custodian,   \* CUSTODIAN_PRINCIPAL, stable
  tokenBlocks, \* TOKEN_NEXT_BLOCKS, stable: a function on some of Tokens
  nextBlock,   \* NEXT_BLOCK, stable: the old block counter
  network,     \* NETWORK, heap
  subaccounts, \* LIST_OF_SUBACCOUNTS, heap: hash -> index
  timer,       \* TIMERS, heap
  timers,      \* external: the interval timers of the runtime: id -> seconds
  calls,       \* set_custodian_principal calls: the caller and the new one
  handedOut,   \* history: the subaccounts whose address was given out
  progress     \* history: the next block to read of each token

stable == <<connected, interval, nonce, custodian, tokenBlocks, nextBlock>>
heap == <<network, subaccounts, timer, timers>>
history == <<handedOut, progress>>
vars == <<version, stable, heap, calls, history>>

Networks == {"Mainnet", "Local"}

NoTimer == 0

NoCall == [caller |-> NoPrincipal, new |-> NoPrincipal]

Call == [caller : Principals, new : Principals]

Blocks == 1 .. MaxBlock

TypeOK ==
  /\ version \in {"none", "old", "new"}
  /\ connected \in Networks /\ network \in Networks
  /\ interval \in Intervals \cup {UpgradeInterval}
  /\ nonce \in 0 .. MaxNonce
  /\ custodian \in Principals \cup {NoPrincipal}
  /\ DOMAIN tokenBlocks \in {{}, Tokens} /\ \A t \in DOMAIN tokenBlocks : tokenBlocks[t] \in Blocks
  /\ nextBlock \in Blocks
  /\ \A h \in DOMAIN subaccounts : subaccounts[h] \in 0 .. (MaxNonce - 1)
  /\ timer \in Nat /\ DOMAIN timers \subseteq Nat \ {NoTimer}
  /\ calls \in [Calls -> Call \cup {NoCall}]
  /\ handedOut \subseteq 0 .. (MaxNonce - 1)
  /\ progress \in [Tokens -> Blocks]

\* No canister yet, or one of the old version with its stable memory.
Init ==
  /\ version \in {"none", "old"}
  /\ connected \in IF version = "old" THEN Networks ELSE {"Mainnet"}
  /\ interval \in Intervals
  /\ nonce \in IF version = "old" THEN InitialNonces ELSE {0}
  /\ custodian = NoPrincipal
  /\ tokenBlocks = <<>>
  /\ nextBlock \in IF version = "old" THEN Blocks ELSE {1}
  /\ network = "Local" /\ subaccounts = <<>> /\ timer = NoTimer /\ timers = <<>>
  /\ calls = [c \in Calls |-> NoCall]
  /\ handedOut = 0 .. (nonce - 1)
  /\ progress = [t \in Tokens |-> IF t = ICP THEN nextBlock ELSE 1]

-----------------------------------------------------------------------------
(* Parts of init and post_upgrade *)

\* authenticate: who may call depends on the network in the heap.
Authenticated(p, net) == net = "Local" \/ (custodian # NoPrincipal /\ p = custodian)

\* An id the runtime has not given to a timer that may still be known.
NewTimer(used) == CHOOSE id \in 1 .. (Cardinality(used) + 1) : id \notin used

\* The part of set_interval after authenticate, with the timers `running' and
\* `current' the one in TIMERS.
StartTimer(seconds, running, current) ==
  LET id   == NewTimer(DOMAIN running \cup {current})
      left == DOMAIN running \ {current}
  IN /\ timers' = [i \in left \cup {id} |-> IF i = id THEN seconds ELSE running[i]]
     /\ timer' = id
     /\ interval' = seconds

\* Mutants: the last subaccount is forgotten, or one too many is made.
ReconstructedShort(n) == 0 .. (n - 2)
ReconstructedOver(n)  == 0 .. n

Reconstructed(n) == 0 .. (n - 1)

\* reconstruct_subaccounts.
TableOf(indices) ==
  [h \in {Hash[n] : n \in indices} |-> CHOOSE n \in indices : Hash[n] = h]

AllFrom1 == [t \in Tokens |-> 1]

\* Mutant: the migration runs at every upgrade.
NeedsMigrationAlways(blocks) == TRUE

NeedsMigration(blocks) == DOMAIN blocks = {}

\* migrate_block_tracking.
Migrated(blocks) ==
  IF NeedsMigration(blocks) THEN [AllFrom1 EXCEPT ![ICP] = nextBlock] ELSE blocks

\* Mutant: the network is reconstructed before the timer is started.
HeapNetworkStable == connected

\* The heap of a new instance.
HeapNetwork == "Local"

\* Mutant: the custodian is left as it is.
AdoptedNone(p) == custodian

\* The caller becomes the custodian if there is none.
Adopted(p) == IF custodian = NoPrincipal THEN p ELSE custodian

-----------------------------------------------------------------------------
(* Install and upgrade *)

Install(net, seconds, n, p) ==
  /\ version = "none"
  /\ version' = "new"
  /\ connected' = net /\ network' = net
  /\ nonce' = n
  /\ custodian' = p
  /\ StartTimer(seconds, <<>>, NoTimer)
  /\ tokenBlocks' = AllFrom1
  /\ subaccounts' = TableOf(Reconstructed(n))
  /\ handedOut' = 0 .. (n - 1)
  /\ UNCHANGED <<nextBlock, calls, progress>>

\* post_upgrade, called by controller p, on the stable memory and a new heap.
\* It calls set_interval, whose result it ignores.
Upgrade(p) ==
  /\ version \in {"old", "new"} /\ \A c \in Calls : calls[c] = NoCall
  /\ version' = "new"
  /\ IF Authenticated(p, HeapNetwork)
       THEN StartTimer(UpgradeInterval, <<>>, NoTimer)
       ELSE timers' = <<>> /\ timer' = NoTimer /\ UNCHANGED interval
  /\ subaccounts' = TableOf(Reconstructed(nonce))
  /\ network' = connected
  /\ tokenBlocks' = Migrated(tokenBlocks)
  /\ custodian' = Adopted(p)
  /\ UNCHANGED <<connected, nonce, nextBlock, calls, history>>

-----------------------------------------------------------------------------
(* Calls *)

Permitted(p) == version = "new" /\ Authenticated(p, network)

SetInterval(p, seconds) ==
  /\ Permitted(p)
  /\ StartTimer(seconds, timers, timer)
  /\ UNCHANGED <<version, connected, nonce, custodian, tokenBlocks, nextBlock,
                 network, subaccounts, calls, history>>

AddSubaccount(p) ==
  /\ Permitted(p)
  /\ nonce < MaxNonce
  /\ subaccounts' = [h \in DOMAIN subaccounts \cup {Hash[nonce]} |->
                       IF h = Hash[nonce] THEN nonce ELSE subaccounts[h]]
  /\ nonce' = nonce + 1
  /\ handedOut' = handedOut \cup {nonce}
  /\ UNCHANGED <<version, connected, interval, custodian, tokenBlocks, nextBlock,
                 network, timer, timers, calls, progress>>

\* get_subaccountid finds subaccount n.
Found(n) == n < nonce /\ Hash[n] \in DOMAIN subaccounts

\* The controllers are those the canister's status names; without a status
\* only a local network will do.
MayAppoint(p, statusKnown) == IF statusKnown THEN p \in Controllers ELSE network = "Local"

\* set_custodian_principal awaits the status and writes after the await.
SetCustodianAsk(c, p, new) ==
  /\ version = "new" /\ calls[c] = NoCall
  /\ calls' = [calls EXCEPT ![c] = [caller |-> p, new |-> new]]
  /\ UNCHANGED <<version, stable, heap, history>>

SetCustodianAnswer(c, statusKnown) ==
  /\ calls[c] # NoCall
  /\ custodian' = IF MayAppoint(calls[c].caller, statusKnown) THEN calls[c].new ELSE custodian
  /\ calls' = [calls EXCEPT ![c] = NoCall]
  /\ UNCHANGED <<version, connected, interval, nonce, tokenBlocks, nextBlock, heap, history>>

\* A polling cycle has read t up to b (module BlockIndexer).
Poll(t, b) ==
  /\ version = "new" /\ DOMAIN timers # {}
  /\ tokenBlocks' = [tokenBlocks EXCEPT ![t] = b]
  /\ nextBlock' = IF t = ICP THEN b ELSE nextBlock
  /\ progress' = [progress EXCEPT ![t] = b]
  /\ UNCHANGED <<version, connected, interval, nonce, custodian, heap, calls, handedOut>>

SetTokenNextBlock(p, t, b) ==
  /\ Permitted(p)
  /\ tokenBlocks' = [tokenBlocks EXCEPT ![t] = b]
  /\ progress' = [progress EXCEPT ![t] = b]
  /\ UNCHANGED <<version, connected, interval, nonce, custodian, nextBlock, heap,
                 calls, handedOut>>

ResetTokenBlocks(p) ==
  /\ Permitted(p)
  /\ tokenBlocks' = AllFrom1
  /\ progress' = AllFrom1
  /\ UNCHANGED <<version, connected, interval, nonce, custodian, nextBlock, heap,
                 calls, handedOut>>

SetNextBlock(p, b) ==
  /\ Permitted(p)
  /\ nextBlock' = b
  /\ UNCHANGED <<version, connected, interval, nonce, custodian, tokenBlocks, heap,
                 calls, history>>

-----------------------------------------------------------------------------
(* The specification *)

Lifetime ==
  \/ \E net \in Networks, s \in Intervals, n \in InitialNonces, p \in Principals :
       Install(net, s, n, p)
  \/ \E p \in Controllers : Upgrade(p)

Configuration ==
  \/ \E p \in Principals, s \in Intervals : SetInterval(p, s)
  \/ \E p \in Principals : AddSubaccount(p)
  \/ \E c \in Calls, p, new \in Principals : SetCustodianAsk(c, p, new)
  \/ \E c \in Calls, known \in BOOLEAN : SetCustodianAnswer(c, known)

Cursors ==
  \/ \E t \in Tokens, b \in Blocks : Poll(t, b)
  \/ \E p \in Principals, t \in Tokens, b \in Blocks : SetTokenNextBlock(p, t, b)
  \/ \E p \in Principals : ResetTokenBlocks(p)
  \/ \E p \in Principals, b \in Blocks : SetNextBlock(p, b)

Next == Lifetime \/ Configuration \/ Cursors

Spec == Init /\ [][Next]_vars

-----------------------------------------------------------------------------
(* Properties *)

(* There is one polling timer, it is the one that set_interval will clear, and
   get_interval tells how often it fires: after any upgrades and changes of
   the interval polling neither stops nor runs twice.  set_interval,
   post_upgrade; the network must not be known yet when post_upgrade calls
   set_interval, whose caller is a controller and not the custodian. *)
OneTimer ==
  version = "new" => DOMAIN timers = {timer} /\ timers[timer] = interval

(* Every subaccount whose address was ever given out is found, so deposits to
   it are seen and can be swept, and none is given out twice.  add_subaccount,
   reconstruct_subaccounts. *)
AddressesStayKnown ==
  version = "new" =>
    /\ \A n \in handedOut : Found(n) /\ subaccounts[Hash[n]] = n
    /\ nonce \notin handedOut

(* After an upgrade each token goes on where it stood: the old version's
   counter is taken over once, and never again, although it is still written.
   migrate_block_tracking. *)
CursorsKept == version = "new" => tokenBlocks = progress

(* The network in the heap is the one the canister was installed for and there
   is a custodian: the only two things authenticate looks at. *)
CustodianCanOperate ==
  version = "new" => network = connected /\ custodian \in Principals
===============================================================================
