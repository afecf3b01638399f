-------------------------------- MODULE Client --------------------------------
(***************************************************************************)
(* The canister as the TypeScript library icsi-lib sees it: addresses that *)
(* getDepositAddresses makes and shows, the texts users type from them,    *)
(* and list_transactions, which getBalances sums.                          *)
(*                                                                         *)
(* getDepositAddresses is a loop of calls, and between any two of them the *)
(* canister may answer somebody else: the index is read, a subaccount is   *)
(* added, and the address at the index that was read is asked for.         *)
(***************************************************************************)
EXTENDS AccountText, FiniteSetsExt

CONSTANTS
  Clients,      \* processes that call getDepositAddresses, once each
  Registered,   \* the registered tokens, in the order get_registered_tokens lists them
  ICP,          \* the token whose addresses are account identifiers
  Canister,     \* the canister's principal
  AccountId,    \* external: AccountId[i]: the hash that identifies subaccount i
  FirstNonces,  \* the nonces init may be given
  Usize,        \* 2^32, the size of usize on wasm32
  DefaultCount, \* transactions listed when no number is given (100 in the code)
  TypedDigits,  \* bound: digits that users put for another one
  MaxNonce,     \* bound: subaccounts
  MaxTxs        \* bound: transactions indexed

\* TOKEN_LEDGER_PRINCIPALS has a type once.
ASSUME ClientOK ==
  /\ Registered \in Seq(Range(Registered)) /\ IsInjective(Registered)
  /\ Canister \in Owners
  /\ FirstNonces \subseteq 0 .. MaxNonce
  /\ MaxNonce \in Nat /\ MaxNonce < 16 ^ IndexDigits
  /\ IsInjective(AccountId) /\ DOMAIN AccountId = 0 .. MaxNonce
  /\ TypedDigits \subseteq 0 .. 15
  /\ Usize \in Nat \ {0} /\ MaxTxs \in Nat
  /\ DefaultCount \in 0 .. Usize - 1 /\ None \notin Nat

VARIABLES
  nonce,    \* LAST_SUBACCOUNT_NONCE
  txs,      \* the keys of TRANSACTIONS
  calls,    \* calls[c]: where the loop of client c is
  shown,    \* shown[c]: the addresses collected so far
  typed,    \* the text validate_icrc_account was given last, and the account meant
  made,     \* history: made[i]: who added subaccount i, for which token
  overtaken \* history: whether another client added between c's get_nonce and its own
            \* add, or after that one had failed

canister == <<nonce, txs>>
history  == <<made, overtaken>>
vars     == <<canister, calls, shown, typed, history>>

-----------------------------------------------------------------------------
(* What the canister answers *)

Indices == 0 .. nonce - 1

\* get_icrc_account; get_subaccountid gives the same text for ICRC tokens.
IcrcText(i) == ToText(FromIndex(Canister, i))
SubaccountId(i, token) == IF token = ICP THEN AccountId[i] ELSE IcrcText(i)

\* Module Lifecycle shows that LIST_OF_SUBACCOUNTS holds the indices below nonce.
Found(i) == i < nonce

\* convert_to_icrc_account tries every index from 0.
ConvertToIcrc(id) ==
  LET found == {i \in Indices : AccountId[i] = id}
  IN  IF found = {} THEN None ELSE IcrcText(Min(found))

\* TRANSACTIONS is iterated in the order of its keys.
InOrder(S) ==
  CHOOSE s \in [1 .. Cardinality(S) -> S] : \A j, k \in DOMAIN s : j < k => s[j] < s[k]

CountOf(upTo) == IF upTo = None THEN DefaultCount ELSE upTo

\* Mutant: from the oldest on.
ListOldest(upTo) ==
  LET keys == InOrder(txs)
  IN  SubSeq(keys, 1, Min({Len(keys), CountOf(upTo) % Usize}))

\* The last transactions, as many as are asked for.  `take' counts in a usize.
ListTransactions(upTo) ==
  LET keys == InOrder(txs)
      n    == CountOf(upTo)
      skip == IF Len(keys) < n THEN 0 ELSE Len(keys) - n
  IN  SubSeq(keys, skip + 1, Min({Len(keys), skip + (n % Usize)}))

\* `upToIndex ? [upToIndex] : []': 0n is falsy, so 0 is no number.
GetUserVaultTransactions(upTo) == ListTransactions(IF upTo = 0 THEN None ELSE upTo)

-----------------------------------------------------------------------------
(* getDepositAddresses *)

At(place, token) == [at |-> place, token |-> token, index |-> 0, id |-> None]
Idle == At("idle", 0)

Init ==
  /\ nonce \in FirstNonces
  /\ txs = {}
  /\ calls = [c \in Clients |-> Idle]
  /\ shown = [c \in Clients |-> <<>>]
  /\ typed = None
  /\ made = <<>>
  /\ overtaken = [c \in Clients |-> FALSE]

\* The loop goes to its next token, or returns.
Continue(c) ==
  calls' = [calls EXCEPT ![c] =
              IF @.token < Len(Registered) THEN At("nonce", @.token + 1)
              ELSE At("returned", Len(Registered))]

GetRegisteredTokens(c) ==
  /\ calls[c].at = "idle"
  /\ Continue(c)
  /\ typed' = None /\ UNCHANGED <<canister, shown, history>>

\* Mutants: the last index handed out; the one after the next.
LastIndex  == IF nonce = 0 THEN 0 ELSE nonce - 1
IndexAfter == nonce + 1

IndexToAskFor == nonce

GetNonce(c) ==
  /\ calls[c].at = "nonce"
  /\ calls' = [calls EXCEPT ![c].at = "add", ![c].index = IndexToAskFor]
  /\ overtaken' = [overtaken EXCEPT ![c] = FALSE]
  /\ typed' = None /\ UNCHANGED <<canister, shown, made>>

\* c has read an index at which it has added nothing.
YetToAdd(c) ==
  calls[c].at = "add" \/ (calls[c].at = "id" /\ calls[c].index \notin DOMAIN made)

AddSubaccount(c) ==
  /\ calls[c].at = "add"
  /\ nonce < MaxNonce
  /\ made' = [i \in DOMAIN made \cup {nonce} |->
                IF i = nonce THEN <<c, Registered[calls[c].token]>> ELSE made[i]]
  /\ nonce' = nonce + 1
  /\ overtaken' = [d \in Clients |-> overtaken[d] \/ (d # c /\ YetToAdd(d))]
  /\ calls' = [calls EXCEPT ![c].at = "id"]
  /\ typed' = None /\ UNCHANGED <<txs, shown>>

\* The call is refused, or does not get there: the loop does not look.
AddFails(c) ==
  /\ calls[c].at = "add"
  /\ calls' = [calls EXCEPT ![c].at = "id"]
  /\ typed' = None /\ UNCHANGED <<canister, shown, history>>

\* An index out of bounds is an exception, and the token is left out.
GetSubaccountId(c) ==
  LET index == calls[c].index
      token == Registered[calls[c].token]
  IN  /\ calls[c].at = "id"
      /\ IF Found(index)
           THEN calls' = [calls EXCEPT ![c].at = "icrc", ![c].id = SubaccountId(index, token)]
           ELSE Continue(c)
      /\ typed' = None /\ UNCHANGED <<canister, shown, history>>

\* Mutant: the address of the newest subaccount.
NewestShown(c) == nonce - 1

IndexShown(c) == calls[c].index

GetIcrcAccount(c) ==
  /\ calls[c].at = "icrc"
  /\ shown' = [shown EXCEPT ![c] = Append(@,
                 [token |-> Registered[calls[c].token], subaccountId |-> calls[c].id,
                  depositAddress |-> IcrcText(IndexShown(c)),
                  index |-> calls[c].index, overtaken |-> overtaken[c]])]
  /\ Continue(c)
  /\ typed' = None /\ UNCHANGED <<canister, history>>

-----------------------------------------------------------------------------
(* Users and the indexer *)

\* A text as it was written, or with one slip: a digit replaced, added in
\* front or left out at the end, zeros filled in, another owner, a part missing.
Slips(t) ==
  {t} \cup [owner : Owners, check : {t.check, None}, hex : {t.hex, None}]
      \cup IF t.hex = None THEN {}
           ELSE {[t EXCEPT !.hex = h] : h \in
                   {[t.hex EXCEPT ![k] = d] : k \in DOMAIN t.hex, d \in TypedDigits}
                   \cup {<<d>> \o t.hex : d \in TypedDigits}
                   \cup {Zeros(k) \o t.hex : k \in 1 .. SubDigits + 2 - Len(t.hex)}
                   \cup {Front(t.hex)}}

\* validate_icrc_account, asked by the user of an address that was shown or
\* printed.  The answer is in the text alone, so nothing is asked in between (a
\* bound): printed addresses at the start, shown ones when all calls have returned.
ValidateIcrcAccount(a, t) ==
  /\ typed' = [meant |-> a, text |-> t]
  /\ UNCHANGED <<canister, calls, shown, history>>

Asked(at) == txs = {} /\ \A c \in Clients : calls[c].at = at

ShownAccounts ==
  UNION {{FromIndex(Canister, shown[c][k].index) : k \in DOMAIN shown[c]} : c \in Clients}

\* A poll files a transaction (module BlockIndexer).
IndexTransaction(key) ==
  /\ key \notin txs
  /\ txs' = txs \cup {key}
  /\ typed' = None /\ UNCHANGED <<nonce, calls, shown, history>>

Next ==
  \/ \E c \in Clients :
       \/ GetRegisteredTokens(c) \/ GetNonce(c) \/ AddSubaccount(c) \/ AddFails(c)
       \/ GetSubaccountId(c) \/ GetIcrcAccount(c)
  \/ Asked("returned") /\ \E a \in ShownAccounts : \E t \in Slips(ToText(a)) : ValidateIcrcAccount(a, t)
  \/ Asked("idle") /\ \E a \in Printed : \E t \in Slips(PrintedText(a)) : ValidateIcrcAccount(a, t)
  \/ \E key \in 1 .. MaxTxs : IndexTransaction(key)

Spec == Init /\ [][Next]_vars

-----------------------------------------------------------------------------
(* Properties *)

Entries(c) == {shown[c][k] : k \in DOMAIN shown[c]}

\* The nonce stays a u32, histories and calls are about subaccounts handed out,
\* and a client is shown at most one address for each registered token.
TypeOK ==
  /\ nonce \in 0 .. MaxNonce /\ txs \subseteq 1 .. MaxTxs
  /\ DOMAIN made \subseteq Indices
  /\ \A c \in Clients :
       /\ calls[c].at \in {"idle", "nonce", "add", "id", "icrc", "returned"}
       /\ calls[c].token \in 0 .. Len(Registered) /\ calls[c].index \in 0 .. nonce
       /\ Len(shown[c]) <= calls[c].token
       /\ \A e, f \in Entries(c) : e.token = f.token => e = f

\* An address that getDepositAddresses shows is of the subaccount that this call
\* added for this token, whoever else calls the canister, unless another add got in
\* between get_nonce and the client's own, or after that one had failed: then
\* two clients, or two users of one, are shown the same address (helpers.ts:77-100).
\* What others add after the client's own add excuses nothing.
OwnUnlessOvertaken ==
  \A c \in Clients : \A e \in Entries(c) :
    ~ e.overtaken => e.index \in DOMAIN made /\ made[e.index] = <<c, e.token>>

\* The two names of one entry are of one subaccount, though they come from two
\* calls that others may get in between of: what convert_to_icrc_account makes
\* of the account identifier is the deposit address, and the two texts of an
\* ICRC token are one.
NamesAgree ==
  \A c \in Clients : \A e \in Entries(c) :
    e.depositAddress = IF e.token = ICP THEN ConvertToIcrc(e.subaccountId)
                       ELSE e.subaccountId

\* The accounts that a user may mean, and those that a slip turns one into: of
\* another owner, with another digit, or with the last digit gone.
Meant == Printed \cup {FromIndex(Canister, i) : i \in 0 .. MaxNonce - 1}

Misread(a) ==
  [owner : Owners, sub : {a.sub}]
    \cup [owner : {a.owner},
          sub : {[a.sub EXCEPT ![k] = d] : k \in 1 .. SubDigits, d \in TypedDigits}
                  \cup {[k \in 1 .. SubDigits |-> IF k = 1 THEN 0 ELSE a.sub[k - 1]]}]

\* The CRC is four bytes, and tells an account from what a slip makes of it.  A
\* CRC-32 does for one digit; for the others it is that there is no collision.
CrcTells ==
  \A a \in Meant : ~ IsDefault(a.sub) =>
    \A b \in Misread(a) :
      /\ Crc(b.owner, b.sub) \in [1 .. 4 -> 0 .. 255]
      /\ b # a => Crc(b.owner, b.sub) # Crc(a.owner, a.sub)

\* validate_icrc_account accepts a text with a slip only if it still says the
\* account that was meant, or if checksum and digits are gone altogether, when
\* it says the owner's default account (types.rs:676-773).
SlipsAreCaught ==
  typed # None =>
    LET read == FromText(typed.text)
    IN  \/ read = Rejected
        \/ Same(read, typed.meant)
        \/ typed.text.check = None /\ read.sub = None

\* The digits of a subaccount, without the zeros in front, make whole bytes.
WholeBytes(sub) ==
  \A k \in 1 .. SubDigits :
    (sub[k] # 0 /\ \A j \in 1 .. k - 1 : sub[j] = 0) => k % 2 = 1

Untouched == typed # None /\ typed.text = ToText(typed.meant)

\* An address as it was written reads back as the account it was written for if
\* its digits make whole bytes: no zero that to_text drops is missed, and the
\* checksum that from_text computes anew is the one that to_text wrote.
ReadsBackInBytes ==
  Untouched /\ WholeBytes(typed.meant.sub) => Same(FromText(typed.text), typed.meant)

\* What README.md:133, docs/TESTING_GUIDE.md:276 and API.md:531 take for granted
\* when they show addresses that end in ".5": every address reads back.  The code
\* refuses those with an odd number of digits, of the indices 1 to 15, 256 to
\* 4095 and so on: to_text trims digits, from_text takes bytes.
ShownAddressesRead == Untouched => Same(FromText(typed.text), typed.meant)

\* The n newest transactions, oldest first, or all if there are fewer.
IsNewest(list, n) ==
  /\ Len(list) = Min({n, Cardinality(txs)})
  /\ \A k \in 1 .. Len(list) :
       /\ list[k] \in txs
       /\ Cardinality({key \in txs : key > list[k]}) = Len(list) - k

\* list_transactions(n) gives the n newest transactions for every n that fits in
\* a usize.  The library gets the same, except that its 0 is no number: getBalances
\* and getTransactionsByTokenType, which ask for BigInt(0) to "Get all transactions"
\* (helpers.ts:126-131, 208-212), see the newest 100 and nothing older.
ListsNewest ==
  \A n \in 0 .. Usize - 1 :
    /\ IsNewest(ListTransactions(n), n)
    /\ IsNewest(GetUserVaultTransactions(n), IF n = 0 THEN DefaultCount ELSE n)

===============================================================================
