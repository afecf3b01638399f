----------------------------- MODULE ClientProofs -----------------------------
(***************************************************************************)
(* Which subaccount an address that getDepositAddresses shows is of, and   *)
(* what list_transactions lists, for any clients, tokens and indices; and  *)
(* what validate_icrc_account makes of an address with one slip, for any   *)
(* length of subaccounts and any checksum that tells accounts apart.       *)
(***************************************************************************)
EXTENDS Client, CollectionLemmas, SequenceTheorems

Addresses == {IcrcText(i) : i \in 0 .. MaxNonce}
Names     == Addresses \cup {AccountId[i] : i \in 0 .. MaxNonce}

Call  == [at : {"idle", "nonce", "add", "id", "icrc", "returned"},
          token : 0 .. Len(Registered), index : 0 .. MaxNonce, id : Names \cup {None}]

Entry == [token : Range(Registered), subaccountId : Names, depositAddress : Addresses,
          index : 0 .. MaxNonce, overtaken : BOOLEAN]

TypeInv ==
  /\ nonce \in 0 .. MaxNonce /\ txs \subseteq 1 .. MaxTxs
  /\ DOMAIN made \subseteq Indices
  /\ calls \in [Clients -> Call]
  /\ shown \in [Clients -> Seq(Entry)]
  /\ overtaken \in [Clients -> BOOLEAN]

InLoop(c) == calls[c].at \in {"nonce", "add", "id", "icrc"}

\* The subaccount i was added by c for token t.
MadeFor(c, t, i) == i \in DOMAIN made /\ made[i] = <<c, t>>

\* Where the loop is, it knows what the index it read has become.
CallOK(c) ==
  LET call  == calls[c]
      token == Registered[call.token]
  IN  /\ call.index <= nonce
      /\ Len(shown[c]) <= call.token
      /\ InLoop(c) => call.token > Len(shown[c])
      /\ call.at = "idle" => shown[c] = <<>>
      /\ call.at = "add" /\ ~ overtaken[c] => call.index = nonce
      /\ call.at = "id" /\ ~ overtaken[c] =>
           call.index = nonce \/ MadeFor(c, token, call.index)
      /\ call.at = "icrc" =>
           /\ call.index < nonce
           /\ call.id = SubaccountId(call.index, token)
           /\ ~ overtaken[c] => MadeFor(c, token, call.index)

EntryOK(c, e) ==
  /\ e.index < nonce
  /\ e.subaccountId = SubaccountId(e.index, e.token)
  /\ e.depositAddress = IcrcText(e.index)
  /\ ~ e.overtaken => MadeFor(c, e.token, e.index)
  /\ \E j \in 1 .. Len(Registered) :
       e.token = Registered[j] /\ (InLoop(c) => j < calls[c].token)

OnePerToken(c) == \A e, f \in Entries(c) : e.token = f.token => e = f

ShownOK(c) == OnePerToken(c) /\ \A e \in Entries(c) : EntryOK(c, e)

ClientInv ==
  /\ TypeInv
  /\ \A c \in Clients : CallOK(c) /\ ShownOK(c)

-----------------------------------------------------------------------------

LEMMA RegisteredTokens ==
  /\ Len(Registered) \in Nat
  /\ \A j \in 1 .. Len(Registered) : Registered[j] \in Range(Registered)
  /\ \A j, k \in 1 .. Len(Registered) : Registered[j] = Registered[k] => j = k
<1>1. Registered \in Seq(Range(Registered)) /\ IsInjective(Registered)
  BY ClientOK
<1>2. DOMAIN Registered = 1 .. Len(Registered) /\ Len(Registered) \in Nat
  BY <1>1
<1> QED BY <1>1, <1>2 DEF IsInjective, Range

LEMMA Init_ClientInv == Init => ClientInv
<1> SUFFICES ASSUME Init PROVE ClientInv
  OBVIOUS
<1>1. nonce \in 0 .. MaxNonce /\ MaxNonce \in Nat
  BY ClientOK DEF Init
<1>2. Idle \in Call
  BY <1>1, RegisteredTokens DEF Idle, At, Call
<1>3. DOMAIN made = {} /\ <<>> \in Seq(Entry)
  BY DEF Init
<1>4. TypeInv
  BY <1>1, <1>2, <1>3 DEF Init, TypeInv
<1>5. ASSUME NEW c \in Clients
      PROVE  CallOK(c) /\ ShownOK(c)
  <2>1. shown[c] = <<>> /\ calls[c] = Idle
    BY DEF Init
  <2>2. Entries(c) = {}
    BY <2>1 DEF Entries
  <2>3. CallOK(c)
    BY <2>1, <1>1 DEF CallOK, Idle, At, InLoop
  <2> QED BY <2>2, <2>3 DEF ShownOK, OnePerToken
<1> QED BY <1>4, <1>5 DEF ClientInv

\* An index handed out has an address and a name.
LEMMA HandedOut ==
  ASSUME TypeInv, NEW i \in 0 .. MaxNonce, NEW token
  PROVE  IcrcText(i) \in Addresses /\ SubaccountId(i, token) \in Names
BY DEF Addresses, Names, SubaccountId

\* What is shown stays right when nothing is shown: subaccounts keep their
\* makers, the nonce grows, and so does the token of the loop.
LEMMA NothingShown ==
  ASSUME ClientInv, TypeInv', NEW c \in Clients,
         shown'[c] = shown[c], nonce <= nonce',
         \A i \in DOMAIN made : i \in DOMAIN made' /\ made'[i] = made[i],
         InLoop(c)' => \/ InLoop(c) /\ calls[c].token <= calls'[c].token
                       \/ shown[c] = <<>>
  PROVE  ShownOK(c)'
<1>1. ShownOK(c) /\ Entries(c)' = Entries(c)
  BY DEF ClientInv, Entries
<1>2. ASSUME NEW e \in Entries(c)'
      PROVE  EntryOK(c, e)'
  <2>1. e \in Entries(c) /\ EntryOK(c, e) /\ shown[c] # <<>>
    BY <1>1, <1>2 DEF ShownOK, Entries
  <2>2. e.index \in 0 .. MaxNonce
    <3>1. \A k \in DOMAIN shown[c] : shown[c][k] \in Entry
      BY DEF ClientInv, TypeInv
    <3> QED BY <3>1, <2>1 DEF Entries, Entry
  <2>3. e.index < nonce'
    BY <2>1, <2>2, ClientOK DEF EntryOK, ClientInv, TypeInv
  <2>4. ~ e.overtaken => MadeFor(c, e.token, e.index)'
    BY <2>1 DEF EntryOK, MadeFor
  <2>5. PICK j \in 1 .. Len(Registered) :
          e.token = Registered[j] /\ (InLoop(c) => j < calls[c].token)
    BY <2>1 DEF EntryOK
  <2>6. calls[c].token \in Nat /\ calls'[c].token \in Nat
    BY RegisteredTokens DEF ClientInv, TypeInv, Call
  <2>7. InLoop(c)' => j < calls'[c].token
    BY <2>1, <2>5, <2>6, RegisteredTokens
  <2> QED BY <2>1, <2>3, <2>4, <2>5, <2>7 DEF EntryOK
<1> QED BY <1>1, <1>2 DEF ShownOK, OnePerToken

\* A client that does not step keeps its part, until somebody adds.
LEMMA NotItsStep ==
  ASSUME ClientInv, TypeInv', NEW c \in Clients, UNCHANGED <<nonce, made>>,
         calls'[c] = calls[c], shown'[c] = shown[c], overtaken'[c] = overtaken[c]
  PROVE  (CallOK(c) /\ ShownOK(c))'
<1>1. calls[c].token \in Nat /\ nonce \in Nat
  BY RegisteredTokens, ClientOK DEF ClientInv, TypeInv, Call
<1>2. CallOK(c)'
  BY DEF ClientInv, CallOK, InLoop, MadeFor
<1> QED BY <1>1, <1>2, NothingShown DEF InLoop

LEMMA Continue_CallOK ==
  ASSUME ClientInv, NEW c \in Clients, Continue(c), UNCHANGED nonce,
         shown'[c] \in Seq(Entry), Len(shown'[c]) <= calls[c].token
  PROVE  /\ calls' \in [Clients -> Call] /\ CallOK(c)'
         /\ \A d \in Clients : d # c => calls'[d] = calls[d]
         /\ InLoop(c)' => calls'[c].token = calls[c].token + 1
<1>1. calls \in [Clients -> Call] /\ nonce \in 0 .. MaxNonce /\ MaxNonce \in Nat
  BY ClientOK DEF ClientInv, TypeInv
<1>2. calls[c].token \in 0 .. Len(Registered) /\ Len(Registered) \in Nat
  BY <1>1, RegisteredTokens DEF Call
<1>3. Len(shown'[c]) \in Nat
  OBVIOUS
<1>4. CASE calls[c].token < Len(Registered)
  <2>1. calls' = [calls EXCEPT ![c] = At("nonce", calls[c].token + 1)]
    BY <1>1, <1>4 DEF Continue
  <2>2. At("nonce", calls[c].token + 1) \in Call
    BY <1>1, <1>2, <1>4 DEF Call, At
  <2>3. calls'[c] = At("nonce", calls[c].token + 1)
    BY <2>1, <1>1
  <2>4. CallOK(c)' /\ calls'[c].token = calls[c].token + 1
    BY <2>3, <1>1, <1>2, <1>3 DEF CallOK, InLoop, At
  <2> QED BY <2>1, <2>2, <2>4, <1>1
<1>5. CASE ~ calls[c].token < Len(Registered)
  <2>1. calls' = [calls EXCEPT ![c] = At("returned", Len(Registered))]
    BY <1>1, <1>5 DEF Continue
  <2>2. At("returned", Len(Registered)) \in Call
    BY <1>1, <1>2 DEF Call, At
  <2>3. calls'[c] = At("returned", Len(Registered))
    BY <2>1, <1>1
  <2>4. CallOK(c)' /\ ~ InLoop(c)'
    BY <2>3, <1>1, <1>2, <1>3, <1>5 DEF CallOK, InLoop, At
  <2> QED BY <2>1, <2>2, <2>4, <1>1
<1> QED BY <1>4, <1>5

-----------------------------------------------------------------------------
(* One lemma for each step of the loop. *)

LEMMA GetRegisteredTokens_ClientInv ==
  ASSUME ClientInv, NEW c \in Clients, GetRegisteredTokens(c)
  PROVE  ClientInv'
<1>1. /\ calls[c].at = "idle" /\ Continue(c)
      /\ UNCHANGED <<nonce, txs, shown, made, overtaken>>
  BY DEF GetRegisteredTokens, canister, history
<1>2. shown[c] = <<>> /\ shown[c] \in Seq(Entry) /\ calls[c].token \in Nat
  BY <1>1, RegisteredTokens DEF ClientInv, CallOK, TypeInv, Call
<1>3. /\ calls' \in [Clients -> Call] /\ CallOK(c)'
      /\ \A d \in Clients : d # c => calls'[d] = calls[d]
  <2>1. Len(shown'[c]) <= calls[c].token
    BY <1>1, <1>2
  <2> QED BY <1>1, <1>2, <2>1, Continue_CallOK
<1>4. TypeInv'
  BY <1>1, <1>3 DEF ClientInv, TypeInv, Indices
<1>5. ShownOK(c)'
  <2>1. nonce \in Nat
    BY ClientOK DEF ClientInv, TypeInv
  <2> QED BY <1>1, <1>2, <1>4, <2>1, NothingShown
<1>6. ASSUME NEW d \in Clients, d # c
      PROVE  CallOK(d)' /\ ShownOK(d)'
  BY <1>1, <1>3, <1>4, <1>6, NotItsStep
<1> QED BY <1>3, <1>4, <1>5, <1>6 DEF ClientInv

LEMMA GetNonce_ClientInv ==
  ASSUME ClientInv, NEW c \in Clients, GetNonce(c)
  PROVE  ClientInv'
<1>1. /\ calls[c].at = "nonce"
      /\ calls' = [calls EXCEPT ![c].at = "add", ![c].index = nonce]
      /\ overtaken' = [overtaken EXCEPT ![c] = FALSE]
      /\ UNCHANGED <<nonce, txs, shown, made>>
  BY DEF GetNonce, IndexToAskFor, canister
<1>2. /\ calls \in [Clients -> Call] /\ overtaken \in [Clients -> BOOLEAN]
      /\ nonce \in 0 .. MaxNonce /\ MaxNonce \in Nat /\ CallOK(c)
  BY ClientOK DEF ClientInv, TypeInv
<1>3. /\ calls'[c] = [calls[c] EXCEPT !.at = "add", !.index = nonce]
      /\ \A d \in Clients : d # c => calls'[d] = calls[d] /\ overtaken'[d] = overtaken[d]
  BY <1>1, <1>2
<1>4. calls' \in [Clients -> Call]
  <2>1. [calls[c] EXCEPT !.at = "add", !.index = nonce] \in Call
    BY <1>2 DEF Call
  <2> QED BY <1>1, <1>2, <2>1
<1>5. TypeInv'
  BY <1>1, <1>2, <1>4 DEF ClientInv, TypeInv, Indices
<1>6. /\ calls'[c].at = "add" /\ calls'[c].index = nonce
      /\ calls'[c].token = calls[c].token
  BY <1>2, <1>3 DEF Call
<1>7. CallOK(c)'
  BY <1>1, <1>2, <1>6 DEF CallOK, InLoop
<1>8. ShownOK(c)'
  <2>1. InLoop(c) /\ calls[c].token \in Nat
    BY <1>1, <1>2, RegisteredTokens DEF InLoop, Call
  <2> QED BY <1>1, <1>2, <1>5, <1>6, <2>1, NothingShown
<1>9. ASSUME NEW d \in Clients, d # c
      PROVE  CallOK(d)' /\ ShownOK(d)'
  BY <1>1, <1>3, <1>5, <1>9, NotItsStep
<1> QED BY <1>5, <1>7, <1>8, <1>9 DEF ClientInv

\* Whoever stands between get_nonce and get_subaccountid is overtaken, the
\* client itself is not: its subaccount is at the index it read.
LEMMA AddSubaccount_ClientInv ==
  ASSUME ClientInv, NEW c \in Clients, AddSubaccount(c)
  PROVE  ClientInv'
<1> DEFINE token == Registered[calls[c].token]
<1>1. /\ calls[c].at = "add" /\ nonce < MaxNonce
      /\ made' = [i \in DOMAIN made \cup {nonce} |->
                    IF i = nonce THEN <<c, token>> ELSE made[i]]
      /\ nonce' = nonce + 1
      /\ overtaken' = [d \in Clients |->
                        overtaken[d] \/ (d # c /\ YetToAdd(d))]
      /\ calls' = [calls EXCEPT ![c].at = "id"]
      /\ UNCHANGED <<txs, shown>>
  BY DEF AddSubaccount
<1>2. /\ calls \in [Clients -> Call] /\ overtaken \in [Clients -> BOOLEAN]
      /\ nonce \in 0 .. MaxNonce /\ MaxNonce \in Nat /\ DOMAIN made \subseteq 0 .. nonce - 1
  BY ClientOK DEF ClientInv, TypeInv, Indices
<1>3. /\ DOMAIN made' = DOMAIN made \cup {nonce} /\ made'[nonce] = <<c, token>>
      /\ \A i \in DOMAIN made : i \in DOMAIN made' /\ made'[i] = made[i]
  <2>1. nonce \notin DOMAIN made
    BY <1>2
  <2> QED BY <1>1, <2>1
<1>4. \A d \in Clients : d # c => calls'[d] = calls[d]
  BY <1>1, <1>2
<1>5. /\ calls'[c].at = "id" /\ calls'[c].index = calls[c].index
      /\ calls'[c].token = calls[c].token
  BY <1>1, <1>2 DEF Call
<1>6. calls' \in [Clients -> Call]
  <2>1. [calls[c] EXCEPT !.at = "id"] \in Call
    BY <1>2 DEF Call
  <2> QED BY <1>1, <1>2, <2>1
<1>7. TypeInv'
  <2>1. nonce' \in 0 .. MaxNonce /\ DOMAIN made' \subseteq 0 .. nonce' - 1
    BY <1>1, <1>2, <1>3
  <2>2. overtaken' \in [Clients -> BOOLEAN]
    BY <1>1
  <2> QED BY <1>1, <1>6, <2>1, <2>2 DEF ClientInv, TypeInv, Indices
<1>8. overtaken'[c] = overtaken[c]
  BY <1>1, <1>2
<1>9. CallOK(c)'
  <2>1. /\ calls[c].index <= nonce /\ Len(shown[c]) <= calls[c].token
        /\ calls[c].token > Len(shown[c])
        /\ ~ overtaken[c] => calls[c].index = nonce
    BY <1>1 DEF ClientInv, CallOK, InLoop
  <2>2. calls[c].index \in Nat
    BY <1>2 DEF Call
  <2>3. ~ overtaken'[c] => MadeFor(c, token, calls[c].index)'
    BY <2>1, <1>3, <1>8, <1>5 DEF MadeFor
  <2>4. calls'[c].index <= nonce'
    BY <1>1, <1>2, <1>5, <2>1, <2>2
  <2> QED BY <1>1, <1>5, <2>1, <2>3, <2>4 DEF CallOK, InLoop, MadeFor
<1>10. ASSUME NEW d \in Clients
       PROVE  ShownOK(d)'
  <2>1. InLoop(d)' => InLoop(d) /\ calls[d].token <= calls'[d].token
    <3>1. calls[d].token \in Nat
      BY <1>2, RegisteredTokens DEF Call
    <3>2. CASE d = c
      BY <3>1, <3>2, <1>1, <1>5 DEF InLoop
    <3>3. CASE d # c
      BY <3>1, <3>3, <1>4 DEF InLoop
    <3> QED BY <3>2, <3>3
  <2>2. nonce <= nonce' /\ shown'[d] = shown[d]
    BY <1>1, <1>2
  <2> QED BY <1>3, <1>7, <2>1, <2>2, NothingShown
<1>11. ASSUME NEW d \in Clients, d # c
       PROVE  CallOK(d)'
  <2>1. CallOK(d) /\ calls'[d] = calls[d] /\ shown'[d] = shown[d]
    BY <1>1, <1>4, <1>11 DEF ClientInv
  <2>2. /\ overtaken[d] => overtaken'[d]
        /\ YetToAdd(d) => overtaken'[d]
    BY <1>1, <1>11
  <2>6. calls[d].at = "add" => overtaken'[d]
    BY <2>2 DEF YetToAdd
  <2>7. calls[d].at = "id" /\ ~ overtaken'[d] =>
          MadeFor(d, Registered[calls[d].token], calls[d].index)
    <3>1. calls[d].at = "id" /\ ~ overtaken'[d] => calls[d].index \in DOMAIN made
      BY <2>2 DEF YetToAdd
    <3>2. calls[d].index \in DOMAIN made => calls[d].index # nonce
      BY <1>2
    <3> QED BY <2>1, <2>2, <3>1, <3>2 DEF CallOK
  <2>3. calls[d].index \in Nat /\ nonce' = nonce + 1 /\ nonce \in Nat
    BY <1>1, <1>2 DEF Call
  <2>4. /\ calls'[d].index <= nonce'
        /\ calls'[d].index < nonce => calls'[d].index < nonce'
    BY <2>1, <2>3 DEF CallOK
  <2>5. MadeFor(d, Registered[calls[d].token], calls[d].index)
          => MadeFor(d, Registered[calls[d].token], calls[d].index)'
    BY <1>3, <2>1 DEF MadeFor
  <2> QED BY <2>1, <2>2, <2>4, <2>5, <2>6, <2>7 DEF CallOK, InLoop
<1> QED BY <1>7, <1>9, <1>10, <1>11 DEF ClientInv

LEMMA AddFails_ClientInv ==
  ASSUME ClientInv, NEW c \in Clients, AddFails(c)
  PROVE  ClientInv'
<1>1. /\ calls[c].at = "add" /\ calls' = [calls EXCEPT ![c].at = "id"]
      /\ UNCHANGED <<nonce, txs, shown, made, overtaken>>
  BY DEF AddFails, canister, history
<1>2. /\ calls \in [Clients -> Call] /\ nonce \in Nat /\ CallOK(c)
  BY ClientOK DEF ClientInv, TypeInv
<1>3. /\ calls' \in [Clients -> Call]
      /\ \A d \in Clients : d # c => calls'[d] = calls[d]
  <2>1. [calls[c] EXCEPT !.at = "id"] \in Call
    BY <1>2 DEF Call
  <2> QED BY <1>1, <1>2, <2>1
<1>4. /\ calls'[c].at = "id" /\ calls'[c].index = calls[c].index
      /\ calls'[c].token = calls[c].token
  BY <1>1, <1>2 DEF Call
<1>5. TypeInv'
  BY <1>1, <1>3 DEF ClientInv, TypeInv, Indices
<1>6. CallOK(c)'
  BY <1>1, <1>2, <1>4 DEF CallOK, InLoop, MadeFor
<1>7. ShownOK(c)'
  <2>1. InLoop(c) /\ calls[c].token \in Nat
    BY <1>1, <1>2, RegisteredTokens DEF InLoop, Call
  <2> QED BY <1>1, <1>2, <1>4, <1>5, <2>1, NothingShown
<1>8. ASSUME NEW d \in Clients, d # c
      PROVE  CallOK(d)' /\ ShownOK(d)'
  BY <1>1, <1>3, <1>5, <1>8, NotItsStep
<1> QED BY <1>5, <1>6, <1>7, <1>8 DEF ClientInv

LEMMA GetSubaccountId_ClientInv ==
  ASSUME ClientInv, NEW c \in Clients, GetSubaccountId(c)
  PROVE  ClientInv'
<1> DEFINE index == calls[c].index
           token == Registered[calls[c].token]
           id    == SubaccountId(index, token)
<1>1. /\ calls[c].at = "id"
      /\ IF index < nonce
           THEN calls' = [calls EXCEPT ![c].at = "icrc", ![c].id = id]
           ELSE Continue(c)
      /\ UNCHANGED <<nonce, txs, shown, made, overtaken>>
  BY DEF GetSubaccountId, Found, canister, history
<1>2. /\ calls \in [Clients -> Call] /\ shown[c] \in Seq(Entry)
      /\ nonce \in 0 .. MaxNonce /\ MaxNonce \in Nat /\ CallOK(c)
  BY ClientOK DEF ClientInv, TypeInv
<1>3. /\ index \in 0 .. MaxNonce /\ calls[c].token \in Nat /\ Len(shown[c]) \in Nat
      /\ Len(shown[c]) < calls[c].token /\ InLoop(c)
  BY <1>1, <1>2, RegisteredTokens DEF CallOK, InLoop, Call
<1>4. /\ calls' \in [Clients -> Call] /\ CallOK(c)'
      /\ \A d \in Clients : d # c => calls'[d] = calls[d]
      /\ InLoop(c)' => calls[c].token <= calls'[c].token
  <2>1. CASE index < nonce
    <3>1. id \in Names
      BY <1>2, <1>3, HandedOut DEF ClientInv
    <3>2. [calls[c] EXCEPT !.at = "icrc", !.id = id] \in Call
      BY <1>2, <3>1 DEF Call
    <3> HIDE DEF id
    <3>3. calls' = [calls EXCEPT ![c] = [calls[c] EXCEPT !.at = "icrc", !.id = id]]
      BY <1>1, <1>2, <2>1
    <3>4. calls'[c] = [calls[c] EXCEPT !.at = "icrc", !.id = id]
      BY <1>2, <3>3
    <3>5. /\ calls'[c].at = "icrc" /\ calls'[c].index = index
          /\ calls'[c].token = calls[c].token /\ calls'[c].id = id
      BY <1>2, <3>4 DEF Call
    <3>6. ~ overtaken[c] => MadeFor(c, token, index)
      BY <1>1, <1>2, <1>3, <2>1 DEF CallOK
    <3>7. CallOK(c)'
      <4>1. calls'[c].id = SubaccountId(calls'[c].index, Registered[calls'[c].token])
        BY <3>5 DEF id
      <4> QED BY <1>1, <1>2, <1>3, <2>1, <3>5, <3>6, <4>1 DEF CallOK, InLoop, MadeFor
    <3> QED BY <1>2, <1>3, <3>2, <3>3, <3>5, <3>7
  <2>2. CASE ~ index < nonce
    <3>1. Continue(c) /\ shown'[c] \in Seq(Entry) /\ Len(shown'[c]) <= calls[c].token
      BY <1>1, <1>2, <1>3, <2>2
    <3> QED BY <1>1, <1>3, <3>1, Continue_CallOK
  <2> QED BY <2>1, <2>2
<1>5. TypeInv'
  BY <1>1, <1>4 DEF ClientInv, TypeInv, Indices
<1>6. ShownOK(c)'
  BY <1>1, <1>2, <1>3, <1>4, <1>5, NothingShown
<1>7. ASSUME NEW d \in Clients, d # c
      PROVE  CallOK(d)' /\ ShownOK(d)'
  BY <1>1, <1>4, <1>5, <1>7, NotItsStep
<1> QED BY <1>4, <1>5, <1>6, <1>7 DEF ClientInv

\* The new entry is of the loop's token, the old ones are of earlier tokens.
LEMMA GetIcrcAccount_ClientInv ==
  ASSUME ClientInv, NEW c \in Clients, GetIcrcAccount(c)
  PROVE  ClientInv'
<1> DEFINE token == Registered[calls[c].token]
<1>0. PICK new : new = [token |-> token, subaccountId |-> calls[c].id,
                        depositAddress |-> IcrcText(calls[c].index),
                        index |-> calls[c].index, overtaken |-> overtaken[c]]
  OBVIOUS
<1>1. /\ calls[c].at = "icrc"
      /\ shown' = [shown EXCEPT ![c] = Append(shown[c], new)]
      /\ Continue(c)
      /\ UNCHANGED <<nonce, txs, made, overtaken>>
  BY <1>0 DEF GetIcrcAccount, IndexShown, canister, history
<1>2. /\ calls \in [Clients -> Call] /\ shown \in [Clients -> Seq(Entry)]
      /\ overtaken \in [Clients -> BOOLEAN]
      /\ nonce \in 0 .. MaxNonce /\ MaxNonce \in Nat /\ CallOK(c) /\ ShownOK(c)
  BY ClientOK DEF ClientInv, TypeInv
<1>3. /\ calls[c].index \in 0 .. MaxNonce /\ calls[c].token \in 1 .. Len(Registered)
      /\ Len(shown[c]) \in Nat /\ Len(shown[c]) < calls[c].token
      /\ calls[c].index < nonce /\ calls[c].id = SubaccountId(calls[c].index, token)
      /\ ~ overtaken[c] => MadeFor(c, token, calls[c].index)
      /\ InLoop(c)
  BY <1>1, <1>2, RegisteredTokens DEF CallOK, InLoop, Call
<1>4. new \in Entry
  <2>1. calls[c].id \in Names /\ IcrcText(calls[c].index) \in Addresses
    BY <1>3, HandedOut DEF ClientInv
  <2>2. token \in Range(Registered) /\ overtaken[c] \in BOOLEAN
    BY <1>2, <1>3, RegisteredTokens
  <2> HIDE DEF token
  <2> QED BY <1>0, <1>3, <2>1, <2>2 DEF Entry
<1>5. /\ shown'[c] = Append(shown[c], new) /\ shown'[c] \in Seq(Entry)
      /\ Len(shown'[c]) = Len(shown[c]) + 1
      /\ \A d \in Clients : d # c => shown'[d] = shown[d]
      /\ shown' \in [Clients -> Seq(Entry)]
  BY <1>1, <1>2, <1>4
<1>6. Entries(c)' = Entries(c) \cup {new}
  <2>1. shown[c] \in Seq(Entry)
    BY <1>2
  <2>2. /\ DOMAIN shown'[c] = 1 .. Len(shown[c]) + 1 /\ DOMAIN shown[c] = 1 .. Len(shown[c])
        /\ \A k \in 1 .. Len(shown[c]) : shown'[c][k] = shown[c][k]
        /\ shown'[c][Len(shown[c]) + 1] = new
    BY <1>4, <1>5, <2>1
  <2>3. 1 .. Len(shown[c]) + 1 = 1 .. Len(shown[c]) \cup {Len(shown[c]) + 1}
    BY <1>3
  <2>4. ASSUME NEW e PROVE e \in Entries(c)' <=> e \in Entries(c) \cup {new}
    BY <2>2, <2>3 DEF Entries
  <2> QED BY <2>4
<1>7. /\ calls' \in [Clients -> Call] /\ CallOK(c)'
      /\ \A d \in Clients : d # c => calls'[d] = calls[d]
      /\ InLoop(c)' => calls'[c].token = calls[c].token + 1
  <2>1. Len(shown'[c]) <= calls[c].token
    BY <1>3, <1>5
  <2> QED BY <1>1, <1>5, <2>1, Continue_CallOK
<1>8. TypeInv'
  BY <1>1, <1>5, <1>7 DEF ClientInv, TypeInv, Indices
<1>9. ASSUME NEW e \in Entries(c)
      PROVE  EntryOK(c, e)' /\ e.token # new.token
  <2>1. EntryOK(c, e)
    BY <1>2, <1>9 DEF ShownOK
  <2>2. PICK j \in 1 .. Len(Registered) : e.token = Registered[j] /\ j < calls[c].token
    BY <1>3, <2>1 DEF EntryOK
  <2>3. e.token # new.token
    BY <1>0, <1>3, <2>2, RegisteredTokens
  <2>4. InLoop(c)' => j < calls'[c].token
    BY <1>3, <1>7, <2>2
  <2> QED BY <1>1, <2>1, <2>2, <2>3, <2>4 DEF EntryOK, MadeFor
<1>10. EntryOK(c, new)'
  <2>1. /\ new.token = token /\ new.subaccountId = calls[c].id
        /\ new.depositAddress = IcrcText(calls[c].index)
        /\ new.index = calls[c].index /\ new.overtaken = overtaken[c]
    BY <1>0
  <2>2. new.index < nonce' /\ (~ new.overtaken => MadeFor(c, new.token, new.index)')
    BY <1>1, <1>3, <2>1 DEF MadeFor
  <2>3. new.subaccountId = SubaccountId(new.index, new.token)
    BY <1>3, <2>1
  <2>4. InLoop(c)' => calls[c].token < calls'[c].token
    BY <1>3, <1>7
  <2> QED BY <1>3, <2>1, <2>2, <2>3, <2>4 DEF EntryOK
<1>11. ShownOK(c)'
  BY <1>2, <1>6, <1>9, <1>10 DEF ShownOK, OnePerToken
<1>12. ASSUME NEW d \in Clients, d # c
       PROVE  CallOK(d)' /\ ShownOK(d)'
  BY <1>1, <1>5, <1>7, <1>8, <1>12, NotItsStep
<1> QED BY <1>7, <1>8, <1>11, <1>12 DEF ClientInv

\* Users and polls do not get in the way of the loop.
LEMMA Others_ClientInv ==
  ASSUME ClientInv, UNCHANGED <<nonce, calls, shown, history>>,
         txs' \subseteq 1 .. MaxTxs
  PROVE  ClientInv'
<1>1. UNCHANGED <<nonce, calls, shown, made, overtaken>>
  BY DEF history
<1>2. TypeInv'
  BY <1>1 DEF ClientInv, TypeInv, Indices
<1>3. ASSUME NEW c \in Clients
      PROVE  CallOK(c)' /\ ShownOK(c)'
  BY <1>1, <1>2, NotItsStep
<1> QED BY <1>2, <1>3 DEF ClientInv

LEMMA Next_ClientInv == ClientInv /\ [Next]_vars => ClientInv'
<1> SUFFICES ASSUME ClientInv, [Next]_vars PROVE ClientInv'
  OBVIOUS
<1>1. txs \subseteq 1 .. MaxTxs
  BY DEF ClientInv, TypeInv
<1>2. ASSUME NEW c \in Clients, GetRegisteredTokens(c) PROVE ClientInv'
  BY <1>2, GetRegisteredTokens_ClientInv
<1>3. ASSUME NEW c \in Clients, GetNonce(c) PROVE ClientInv'
  BY <1>3, GetNonce_ClientInv
<1>4. ASSUME NEW c \in Clients, AddSubaccount(c) PROVE ClientInv'
  BY <1>4, AddSubaccount_ClientInv
<1>5. ASSUME NEW c \in Clients, AddFails(c) PROVE ClientInv'
  BY <1>5, AddFails_ClientInv
<1>6. ASSUME NEW c \in Clients, GetSubaccountId(c) PROVE ClientInv'
  BY <1>6, GetSubaccountId_ClientInv
<1>7. ASSUME NEW c \in Clients, GetIcrcAccount(c) PROVE ClientInv'
  BY <1>7, GetIcrcAccount_ClientInv
<1>8. ASSUME NEW a, NEW t, ValidateIcrcAccount(a, t) PROVE ClientInv'
  BY <1>1, <1>8, Others_ClientInv DEF ValidateIcrcAccount, canister
<1>9. ASSUME NEW key \in 1 .. MaxTxs, IndexTransaction(key) PROVE ClientInv'
  BY <1>1, <1>9, Others_ClientInv DEF IndexTransaction
<1>10. CASE UNCHANGED vars
  BY <1>1, <1>10, Others_ClientInv DEF vars, canister
<1> QED BY <1>2, <1>3, <1>4, <1>5, <1>6, <1>7, <1>8, <1>9, <1>10 DEF Next

LEMMA Always_ClientInv == Spec => []ClientInv
BY Init_ClientInv, Next_ClientInv, PTL DEF Spec

-----------------------------------------------------------------------------

\* TypeOK holds throughout: the nonce stays within its bound, every subaccount
\* whose making is recorded was handed out, a call never has an index above the
\* nonce, and getDepositAddresses shows at most one address for a token.
THEOREM TypeCorrect == Spec => []TypeOK
<1>1. ClientInv => TypeOK
  <2> SUFFICES ASSUME ClientInv PROVE TypeOK
    OBVIOUS
  <2>1. nonce \in 0 .. MaxNonce /\ MaxNonce \in Nat
    BY ClientOK DEF ClientInv, TypeInv
  <2>2. ASSUME NEW c \in Clients
        PROVE  /\ calls[c].at \in {"idle", "nonce", "add", "id", "icrc", "returned"}
               /\ calls[c].token \in 0 .. Len(Registered) /\ calls[c].index \in 0 .. nonce
    <3>1. calls[c] \in Call /\ calls[c].index <= nonce
      BY DEF ClientInv, TypeInv, CallOK
    <3> QED BY <2>1, <3>1 DEF Call
  <2>3. \A c \in Clients : Len(shown[c]) <= calls[c].token /\ OnePerToken(c)
    BY DEF ClientInv, CallOK, ShownOK
  <2> QED BY <2>2, <2>3 DEF ClientInv, TypeInv, TypeOK, OnePerToken
<1> QED BY <1>1, Always_ClientInv, PTL

\* However many clients interleave their calls, and whatever calls fail, the
\* address a client is shown for a token is of the subaccount it added for that
\* token, unless another add got in between its get_nonce and its own add.
THEOREM OwnSubaccounts == Spec => []OwnUnlessOvertaken
<1>1. ClientInv => OwnUnlessOvertaken
  BY DEF ClientInv, ShownOK, EntryOK, MadeFor, OwnUnlessOvertaken
<1> QED BY <1>1, Always_ClientInv, PTL

\* The two names in an entry of getDepositAddresses are of one subaccount:
\* convert_to_icrc_account finds it from the first and answers the second, as
\* long as no two subaccounts have one account identifier (ClientOK).
THEOREM NamesOfOneSubaccount == Spec => []NamesAgree
<1>1. ClientInv => NamesAgree
  <2> SUFFICES ASSUME ClientInv, NEW c \in Clients, NEW e \in Entries(c)
               PROVE  e.depositAddress = IF e.token = ICP THEN ConvertToIcrc(e.subaccountId)
                                         ELSE e.subaccountId
    BY DEF NamesAgree
  <2>1. EntryOK(c, e) /\ nonce \in 0 .. MaxNonce /\ MaxNonce \in Nat
    BY ClientOK DEF ClientInv, TypeInv, ShownOK
  <2>2. e.index \in Indices
    <3>1. \A k \in DOMAIN shown[c] : shown[c][k] \in Entry
      BY DEF ClientInv, TypeInv
    <3>2. e.index \in 0 .. MaxNonce
      BY <3>1 DEF Entries, Entry
    <3> QED BY <2>1, <3>2 DEF EntryOK, Indices
  <2>3. ASSUME e.token = ICP
        PROVE  ConvertToIcrc(e.subaccountId) = IcrcText(e.index)
    <3>1. e.subaccountId = AccountId[e.index]
      BY <2>1, <2>3 DEF EntryOK, SubaccountId
    <3>2. {i \in Indices : AccountId[i] = e.subaccountId} = {e.index}
      <4>1. Indices \subseteq DOMAIN AccountId
        BY <2>1, ClientOK DEF Indices
      <4>2. \A i \in Indices : AccountId[i] = AccountId[e.index] => i = e.index
        BY <2>2, <4>1, ClientOK DEF IsInjective
      <4> QED BY <2>2, <3>1, <4>2
    <3>3. Min({e.index}) = e.index
      BY <2>2 DEF Min, Indices
    <3> QED BY <3>2, <3>3 DEF ConvertToIcrc
  <2>4. e.token # ICP => e.subaccountId = IcrcText(e.index)
    BY <2>1 DEF EntryOK, SubaccountId
  <2> QED BY <2>1, <2>3, <2>4 DEF EntryOK
<1> QED BY <1>1, Always_ClientInv, PTL

-----------------------------------------------------------------------------
(* Listed transactions *)

LEMMA MinOfTwo ==
  ASSUME NEW a \in Nat, NEW b \in Nat
  PROVE  Min({a, b}) = IF a <= b THEN a ELSE b
<1>1. \A x \in {a, b} : (\A y \in {a, b} : x =< y) <=> (x = IF a <= b THEN a ELSE b)
  OBVIOUS
<1> QED BY <1>1 DEF Min

\* Whatever number is asked for, or none.
LEMMA ListedIsNewest ==
  ASSUME ClientInv, NEW upTo, NEW n \in 0 .. Usize - 1, CountOf(upTo) = n
  PROVE  IsNewest(ListTransactions(upTo), n)
<1> DEFINE keys == InOrder(txs)
           all  == Cardinality(txs)
           skip == IF all < n THEN 0 ELSE all - n
<1>1. txs \in SUBSET Nat /\ IsFiniteSet(txs)
  <2>1. txs \subseteq 1 .. MaxTxs /\ MaxTxs \in Nat
    BY ClientOK DEF ClientInv, TypeInv
  <2>2. IsFiniteSet(1 .. MaxTxs)
    BY <2>1, FS_Interval
  <2>3. txs \in SUBSET (1 .. MaxTxs)
    BY <2>1
  <2>4. IsFiniteSet(txs)
    BY <2>2, <2>3, FS_Subset
  <2> QED BY <2>1, <2>4
<1>2. Lists(keys, txs)
  <2>1. \E s : Lists(s, txs)
    BY <1>1, ListExists
  <2> QED BY <2>1 DEF Lists, InOrder
<1>3. /\ all \in Nat /\ keys \in Seq(txs) /\ Len(keys) = all
      /\ \A k \in 1 .. all : Cardinality({x \in txs : x > keys[k]}) = all - k
  BY <1>1, <1>2, ListIs
<1>4. n \in Nat /\ n % Usize = n
  BY ClientOK
<1> HIDE DEF keys, all
<1>5. skip \in Nat /\ skip <= all /\ all - skip = IF all < n THEN all ELSE n
  BY <1>3, <1>4
<1>6. Min({Len(keys), skip + (n % Usize)}) = all
  <2>1. skip + n \in Nat /\ all <= skip + n
    BY <1>3, <1>4
  <2> HIDE DEF skip
  <2> QED BY <1>3, <1>4, <2>1, MinOfTwo
<1>7. ListTransactions(upTo) = SubSeq(keys, skip + 1, all)
  <2>1. ListTransactions(upTo) =
          SubSeq(keys, (IF Len(keys) < n THEN 0 ELSE Len(keys) - n) + 1,
                 Min({Len(keys), (IF Len(keys) < n THEN 0 ELSE Len(keys) - n) + (n % Usize)}))
    BY DEF ListTransactions, keys
  <2> QED BY <1>3, <1>6, <2>1
<1> HIDE DEF skip
<1> DEFINE list == SubSeq(keys, skip + 1, all)
<1>8. Len(list) = all - skip /\ \A k \in 1 .. all - skip : list[k] = keys[skip + k]
  BY <1>3, <1>5
<1>9. Len(list) = Min({n, Cardinality(txs)})
  <2>1. Min({n, all}) = IF n <= all THEN n ELSE all
    BY <1>3, <1>4, MinOfTwo
  <2>2. Len(list) = Min({n, all})
    BY <1>3, <1>4, <1>5, <1>8, <2>1
  <2> QED BY <2>2 DEF all
<1>10. ASSUME NEW k \in 1 .. Len(list)
       PROVE  list[k] \in txs /\ Cardinality({key \in txs : key > list[k]}) = Len(list) - k
  <2>1. skip + k \in 1 .. all /\ list[k] = keys[skip + k]
    BY <1>3, <1>5, <1>8
  <2>2. Cardinality({x \in txs : x > keys[skip + k]}) = all - (skip + k) /\ keys[skip + k] \in txs
    BY <1>3, <2>1
  <2>3. all - (skip + k) = Len(list) - k
    BY <1>3, <1>5, <1>8
  <2> QED BY <2>1, <2>2, <2>3
<1> QED BY <1>7, <1>9, <1>10 DEF IsNewest

\* list_transactions(n) gives the n newest transactions in their order,
\* whatever keys there are, as long as n fits in a usize, and the library's
\* function the same, or the newest DefaultCount when it is asked for 0.
THEOREM NewestListed == Spec => []ListsNewest
<1>1. ClientInv => ListsNewest
  <2> SUFFICES ASSUME ClientInv, NEW n \in 0 .. Usize - 1
               PROVE  /\ IsNewest(ListTransactions(n), n)
                      /\ IsNewest(GetUserVaultTransactions(n), IF n = 0 THEN DefaultCount ELSE n)
    BY DEF ListsNewest
  <2>1. CountOf(n) = n /\ CountOf(None) = DefaultCount /\ DefaultCount \in 0 .. Usize - 1
    BY ClientOK DEF CountOf
  <2>2. GetUserVaultTransactions(n) = ListTransactions(IF n = 0 THEN None ELSE n)
    BY DEF GetUserVaultTransactions
  <2> QED BY <2>1, <2>2, ListedIsNewest
<1> QED BY <1>1, Always_ClientInv, PTL

-----------------------------------------------------------------------------
(* The checksum of a text: groups of five bits of four bytes.              *)
(* FoldLeft is unfolded once for each byte, and then it is arithmetic.     *)

\* FoldLeft, as MapThenFoldSet defines it.
Start == [bits |-> 0, count |-> 0, text |-> <<>>]

Step4(bytes, g, s) ==
  IF s = {} THEN Start ELSE TakeByte(g[s \ {Max(s)}], bytes[Max(s)])

Reading(bytes) ==
  CHOOSE g : g = [s \in SUBSET DOMAIN bytes |-> Step4(bytes, g, s)]

\* FoldLeft folds over sets of positions, the largest one last.
LEMMA ReadIs ==
  ASSUME NEW bytes
  PROVE  FoldLeft(TakeByte, Start, bytes) = Reading(bytes)[DOMAIN bytes]
BY DEF FoldLeft, MapThenFoldSet, Reading, Step4

LEMMA MaxUpTo ==
  ASSUME NEW n \in Nat, NEW s \in SUBSET (1 .. n), s # {}
  PROVE  Max(s) \in s /\ s \ {Max(s)} \subseteq 1 .. (n - 1)
<1> DEFINE D == {n - k : k \in s}
<1>1. \A k \in s : k \in 1 .. n /\ n - k \in Nat
  OBVIOUS
<1>2. D \in SUBSET Nat /\ D # {}
  BY <1>1
<1>3. PICK i \in D : \A k \in D : i <= k
  BY <1>2, LeastOf
<1>4. PICK x \in s : i = n - x
  BY <1>3
<1>5. \A y \in s : n - x <= n - y
  BY <1>3, <1>4
<1>6. \A y \in s : x >= y
  BY <1>1, <1>4, <1>5
<1>7. Max(s) \in s /\ \A y \in s : Max(s) >= y
  BY <1>4, <1>6 DEF Max
<1> DEFINE m == Max(s)
<1>8. m \in s /\ \A y \in s : m >= y
  BY <1>7
<1> HIDE DEF m
<1>9. \A y \in s \ {m} : y \in 1 .. (n - 1)
  <2> SUFFICES ASSUME NEW y \in s, y # m PROVE y \in 1 .. (n - 1)
    OBVIOUS
  <2>1. y \in 1 .. n /\ m \in 1 .. n /\ m >= y
    BY <1>1, <1>8
  <2> QED BY <2>1
<1> QED BY <1>8, <1>9 DEF m

Reads(bytes, n, g) == g = [s \in SUBSET (1 .. n) |-> Step4(bytes, g, s)]

LEMMA ReadingUpTo ==
  ASSUME NEW bytes, NEW n \in Nat, NEW h, Reads(bytes, n, h)
  PROVE  \E g : Reads(bytes, n + 1, g)
<1> DEFINE g == [s \in SUBSET (1 .. n + 1) |-> Step4(bytes, h, s)]
<1>1. \A s \in SUBSET (1 .. n) : g[s] = h[s]
  BY DEF Reads
<1>2. ASSUME NEW s \in SUBSET (1 .. n + 1) PROVE Step4(bytes, h, s) = Step4(bytes, g, s)
  <2>1. CASE s = {}
    BY <2>1 DEF Step4
  <2>2. CASE s # {}
    <3>1. n + 1 \in Nat /\ (n + 1) - 1 = n
      OBVIOUS
    <3>2. s \ {Max(s)} \subseteq 1 .. n
      BY <2>2, <3>1, MaxUpTo
    <3> QED BY <1>1, <2>2, <3>2 DEF Step4
  <2> QED BY <2>1, <2>2
<1>3. Reads(bytes, n + 1, g)
  BY <1>2 DEF Reads
<1> QED BY <1>3

LEMMA ReadingExists ==
  ASSUME NEW bytes
  PROVE  \E g : Reads(bytes, 4, g)
<1>1. \E g : Reads(bytes, 0, g)
  <2> DEFINE g == [s \in SUBSET (1 .. 0) |-> Start]
  <2>1. \A s \in SUBSET (1 .. 0) : Step4(bytes, g, s) = Start
    BY DEF Step4
  <2>2. Reads(bytes, 0, g)
    BY <2>1 DEF Reads
  <2> QED BY <2>2
<1>2. \E g : Reads(bytes, 1, g)
  BY <1>1, ReadingUpTo, 0 + 1 = 1
<1>3. \E g : Reads(bytes, 2, g)
  BY <1>2, ReadingUpTo, 1 + 1 = 2
<1>4. \E g : Reads(bytes, 3, g)
  BY <1>3, ReadingUpTo, 2 + 1 = 3
<1> QED BY <1>4, ReadingUpTo, 3 + 1 = 4

\* Four bytes are read one after the other.
LEMMA ReadingOf ==
  ASSUME NEW bytes, DOMAIN bytes = 1 .. 4
  PROVE  FoldLeft(TakeByte, Start, bytes) =
           TakeByte(TakeByte(TakeByte(TakeByte(Start, bytes[1]), bytes[2]), bytes[3]), bytes[4])
<1> DEFINE g == Reading(bytes)
<1>1. g = [s \in SUBSET (1 .. 4) |-> Step4(bytes, g, s)]
  BY ReadingExists DEF Reading, Reads
<1> HIDE DEF g
<1>2. \A s \in SUBSET (1 .. 4) : g[s] = Step4(bytes, g, s)
  BY <1>1
<1>3. g[{}] = Start
  BY <1>2 DEF Step4
<1>4. ASSUME NEW n \in 1 .. 4 PROVE g[1 .. n] = TakeByte(g[1 .. (n - 1)], bytes[n])
  <2>1. Max(1 .. n) = n
    BY MaxUpTo DEF Max
  <2>2. (1 .. n) \ {n} = 1 .. (n - 1) /\ 1 .. n # {} /\ 1 .. n \in SUBSET (1 .. 4)
    OBVIOUS
  <2> QED BY <1>2, <2>1, <2>2 DEF Step4
<1>5. 1 .. (1 - 1) = {} /\ 2 - 1 = 1 /\ 3 - 1 = 2 /\ 4 - 1 = 3
  OBVIOUS
<1>6. /\ g[1 .. 1] = TakeByte(Start, bytes[1])
      /\ g[1 .. 2] = TakeByte(g[1 .. 1], bytes[2])
      /\ g[1 .. 3] = TakeByte(g[1 .. 2], bytes[3])
      /\ g[1 .. 4] = TakeByte(g[1 .. 3], bytes[4])
  BY <1>3, <1>4, <1>5
<1> QED BY <1>6, ReadIs DEF g

LEMMA Pair ==
  ASSUME NEW e, NEW f, f = [k \in 1 .. 2 |-> e[k]]
  PROVE  f = <<e[1], e[2]>>
OBVIOUS

Groups(bits, count) == [k \in 1 .. count \div 5 |-> (bits \div 2 ^ (count - 5 * k)) % 32]

\* One byte more.
LEMMA TakenIs ==
  ASSUME NEW acc, NEW byte
  PROVE  /\ TakeByte(acc, byte).bits = (acc.bits * 2 ^ 8 + byte) % 2 ^ 16
         /\ TakeByte(acc, byte).count = (acc.count + 8) % 5
         /\ TakeByte(acc, byte).text =
              acc.text \o Groups((acc.bits * 2 ^ 8 + byte) % 2 ^ 16, acc.count + 8)
<1>1. TakeByte(acc, byte).bits = (acc.bits * 2 ^ 8 + byte) % 2 ^ 16
  BY DEF TakeByte
<1>2. TakeByte(acc, byte).count = (acc.count + 8) % 5
  BY DEF TakeByte
<1>3. TakeByte(acc, byte).text =
        acc.text \o Groups((acc.bits * 2 ^ 8 + byte) % 2 ^ 16, acc.count + 8)
  BY DEF TakeByte, Groups
<1> QED BY <1>1, <1>2, <1>3

LEMMA GroupsOf8 ==
  ASSUME NEW bits
  PROVE  Groups(bits, 8) = <<(bits \div 8) % 32>>
<1>1. 8 \div 5 = 1 /\ 2 ^ (8 - 5 * 1) = 8
  OBVIOUS
<1> QED BY <1>1 DEF Groups

LEMMA GroupsOf11 ==
  ASSUME NEW bits
  PROVE  Groups(bits, 11) = <<(bits \div 64) % 32, (bits \div 2) % 32>>
<1> DEFINE e == [k \in 1 .. 2 |-> (bits \div 2 ^ (11 - 5 * k)) % 32]
<1>1. 11 \div 5 = 2 /\ 2 ^ (11 - 5 * 1) = 64 /\ 2 ^ (11 - 5 * 2) = 2
  OBVIOUS
<1>2. Groups(bits, 11) = e /\ e = [k \in 1 .. 2 |-> e[k]]
  BY <1>1 DEF Groups
<1>3. e[1] = (bits \div 2 ^ (11 - 5 * 1)) % 32 /\ e[2] = (bits \div 2 ^ (11 - 5 * 2)) % 32
  OBVIOUS
<1>4. e[1] = (bits \div 64) % 32 /\ e[2] = (bits \div 2) % 32
  BY <1>1, <1>3
<1> HIDE DEF e
<1> QED BY <1>2, <1>4, Pair

LEMMA GroupsOf9 ==
  ASSUME NEW bits
  PROVE  Groups(bits, 9) = <<(bits \div 16) % 32>>
<1>1. 9 \div 5 = 1 /\ 2 ^ (9 - 5 * 1) = 16
  OBVIOUS
<1> QED BY <1>1 DEF Groups

LEMMA GroupsOf12 ==
  ASSUME NEW bits
  PROVE  Groups(bits, 12) = <<(bits \div 128) % 32, (bits \div 4) % 32>>
<1> DEFINE e == [k \in 1 .. 2 |-> (bits \div 2 ^ (12 - 5 * k)) % 32]
<1>1. 12 \div 5 = 2 /\ 2 ^ (12 - 5 * 1) = 128 /\ 2 ^ (12 - 5 * 2) = 4
  OBVIOUS
<1>2. Groups(bits, 12) = e /\ e = [k \in 1 .. 2 |-> e[k]]
  BY <1>1 DEF Groups
<1>3. e[1] = (bits \div 2 ^ (12 - 5 * 1)) % 32 /\ e[2] = (bits \div 2 ^ (12 - 5 * 2)) % 32
  OBVIOUS
<1>4. e[1] = (bits \div 128) % 32 /\ e[2] = (bits \div 4) % 32
  BY <1>1, <1>3
<1> HIDE DEF e
<1> QED BY <1>2, <1>4, Pair

LEMMA Concat ==
  ASSUME NEW s \in Seq(Nat), NEW t \in Seq(Nat)
  PROVE  /\ s \o t \in Seq(Nat) /\ Len(s \o t) = Len(s) + Len(t)
         /\ \A i \in 1 .. Len(s) : (s \o t)[i] = s[i]
         /\ \A i \in 1 .. Len(t) : (s \o t)[Len(s) + i] = t[i]
<1>1. /\ s \o t \in Seq(Nat) /\ Len(s \o t) = Len(s) + Len(t)
      /\ \A i \in 1 .. Len(s) + Len(t) : (s \o t)[i] = IF i <= Len(s) THEN s[i] ELSE t[i - Len(s)]
  BY ConcatProperties
<1> DEFINE m == Len(s) n == Len(t)
<1>2. m \in Nat /\ n \in Nat
  OBVIOUS
<1>3. \A i \in 1 .. m + n : (s \o t)[i] = IF i <= m THEN s[i] ELSE t[i - m]
  BY <1>1
<1> HIDE DEF m, n
<1>4. ASSUME NEW i \in 1 .. n PROVE (s \o t)[m + i] = t[i]
  <2>1. m + i \in 1 .. m + n /\ ~ (m + i <= m) /\ (m + i) - m = i
    BY <1>2
  <2> QED BY <1>3, <2>1
<1>5. ASSUME NEW i \in 1 .. m PROVE (s \o t)[i] = s[i]
  <2>1. i \in 1 .. m + n /\ i <= m
    BY <1>2
  <2> QED BY <1>3, <2>1
<1> QED BY <1>1, <1>4, <1>5 DEF m, n

Digits(s, n) == s \in Seq(Nat) /\ Len(s) = n

Joins(x, p, m, q, n) ==
  (\A i \in 1 .. m : x[i] = p[i]) /\ (\A i \in 1 .. n : x[m + i] = q[i])

LEMMA JoinTwo ==
  ASSUME NEW p, NEW q, NEW m \in Nat, NEW n \in Nat, Digits(p, m), Digits(q, n)
  PROVE  Digits(p \o q, m + n) /\ Joins(p \o q, p, m, q, n)
<1> DEFINE x == p \o q
<1>0. p \in Seq(Nat) /\ Len(p) = m /\ q \in Seq(Nat) /\ Len(q) = n
  BY DEF Digits
<1>1. x \in Seq(Nat) /\ Len(x) = m + n
  BY <1>0, Concat
<1>2. \A i \in 1 .. m : x[i] = p[i]
  BY <1>0, Concat
<1>3. \A i \in 1 .. n : x[m + i] = q[i]
  BY <1>0, Concat
<1> QED BY <1>1, <1>2, <1>3 DEF Digits, Joins

InTurn(z, p, q, r, s) ==
  /\ Digits(z, 6)
  /\ z[1] = p[1] /\ z[2] = q[1] /\ z[3] = q[2] /\ z[4] = r[1] /\ z[5] = s[1] /\ z[6] = s[2]

LEMMA Joined ==
  ASSUME NEW p, NEW q, NEW r, NEW s,
         Digits(p, 1), Digits(q, 2), Digits(r, 1), Digits(s, 2)
  PROVE  InTurn(((p \o q) \o r) \o s, p, q, r, s)
<1> DEFINE x == p \o q  y == x \o r  z == y \o s
<1>1. Digits(x, 1 + 2) /\ Joins(x, p, 1, q, 2)
  BY JoinTwo
<1> HIDE DEF x
<1>2. Digits(x, 3) /\ x[1] = p[1] /\ x[1 + 1] = q[1] /\ x[1 + 2] = q[2]
  BY <1>1 DEF Joins
<1>3. Digits(y, 3 + 1) /\ Joins(y, x, 3, r, 1)
  BY <1>2, JoinTwo
<1> HIDE DEF y
<1>4. Digits(y, 4) /\ y[1] = x[1] /\ y[2] = x[2] /\ y[3] = x[3] /\ y[3 + 1] = r[1]
  BY <1>3 DEF Joins
<1>5. Digits(z, 4 + 2) /\ Joins(z, y, 4, s, 2)
  BY <1>4, JoinTwo
<1> HIDE DEF z
<1>6. /\ Digits(z, 6)
      /\ z[1] = y[1] /\ z[2] = y[2] /\ z[3] = y[3] /\ z[4] = y[4]
      /\ z[4 + 1] = s[1] /\ z[4 + 2] = s[2]
  BY <1>5 DEF Joins
<1>7. /\ z[1] = p[1] /\ z[2] = q[1] /\ z[3] = q[2] /\ z[4] = r[1]
      /\ z[5] = s[1] /\ z[6] = s[2] 
  BY <1>2, <1>4, <1>6
<1> QED BY <1>6, <1>7 DEF x, y, z, InTurn

LEMMA Appended ==
  ASSUME NEW z, NEW n \in Nat, NEW d \in Nat, Digits(z, n)
  PROVE  Append(z, d)[n + 1] = d /\ \A i \in 1 .. n : Append(z, d)[i] = z[i]
BY AppendProperties DEF Digits

\* The digits say how each byte begins and ends.
LEMMA TwoBytes ==
  ASSUME NEW x \in 0 .. 255, NEW y \in 0 .. 255
  PROVE  /\ (x \div 8) % 32 = x \div 8
         /\ ((x * 256 + y) \div 64) % 32 = (x % 8) * 4 + y \div 64
         /\ ((x * 256 + y) \div 2) % 32 = (y \div 2) % 32
         /\ ((x * 256 + y) \div 16) % 32 = (x % 2) * 16 + y \div 16
         /\ ((x * 256 + y) \div 128) % 32 = (x % 16) * 2 + y \div 128
         /\ ((x * 256 + y) \div 4) % 32 = (y \div 4) % 32
         /\ ((x * 256 + y) * 8) % 32 = (y % 4) * 8
<1>1. (x \div 8) % 32 = x \div 8
  OBVIOUS
<1>2. ((x * 256 + y) \div 64) % 32 = (x % 8) * 4 + y \div 64
  OBVIOUS
<1>3. ((x * 256 + y) \div 2) % 32 = (y \div 2) % 32
  OBVIOUS
<1>4. ((x * 256 + y) \div 16) % 32 = (x % 2) * 16 + y \div 16
  OBVIOUS
<1>5. ((x * 256 + y) \div 128) % 32 = (x % 16) * 2 + y \div 128
  OBVIOUS
<1>6. ((x * 256 + y) \div 4) % 32 = (y \div 4) % 32
  OBVIOUS
<1>7. ((x * 256 + y) * 8) % 32 = (y % 4) * 8
  OBVIOUS
<1> QED BY <1>1, <1>2, <1>3, <1>4, <1>5, <1>6, <1>7

\* The seven digits that write the four bytes of b.
Spells(w, b) ==
  /\ w \in Seq(Nat)
  /\ w[1] = b[1] \div 8
  /\ w[2] = (b[1] % 8) * 4 + b[2] \div 64
  /\ w[3] = (b[2] \div 2) % 32
  /\ w[4] = (b[2] % 2) * 16 + b[3] \div 16
  /\ w[5] = (b[3] % 16) * 2 + b[4] \div 128
  /\ w[6] = (b[4] \div 4) % 32
  /\ w[7] = (b[4] % 4) * 8

LEMMA Base32Is ==
  ASSUME NEW b \in [1 .. 4 -> 0 .. 255]
  PROVE  Spells(Base32(b), b)
<1> DEFINE b1 == b[1] b2 == b[2] b3 == b[3] b4 == b[4]
<1>b. b1 \in 0 .. 255 /\ b2 \in 0 .. 255 /\ b3 \in 0 .. 255 /\ b4 \in 0 .. 255
  OBVIOUS
<1> HIDE DEF b1, b2, b3, b4
<1> USE <1>b
<1> DEFINE d1 == (b1 \div 8) % 32
           d2 == ((b1 * 256 + b2) \div 64) % 32
           d3 == ((b1 * 256 + b2) \div 2) % 32
           d4 == ((b2 * 256 + b3) \div 16) % 32
           d5 == ((b3 * 256 + b4) \div 128) % 32
           d6 == ((b3 * 256 + b4) \div 4) % 32
           d7 == ((b3 * 256 + b4) * 8) % 32
<1>1. /\ d1 = b1 \div 8
      /\ d2 = (b1 % 8) * 4 + b2 \div 64 /\ d3 = (b2 \div 2) % 32
  BY TwoBytes
<1>2. d4 = (b2 % 2) * 16 + b3 \div 16
  BY TwoBytes
<1>3. /\ d5 = (b3 % 16) * 2 + b4 \div 128 /\ d6 = (b4 \div 4) % 32 /\ d7 = (b4 % 4) * 8
  BY TwoBytes
<1> HIDE DEF d1, d2, d3, d4, d5, d6, d7
<1>4. /\ d1 \in Nat /\ d2 \in Nat /\ d3 \in Nat /\ d4 \in Nat
      /\ d5 \in Nat /\ d6 \in Nat /\ d7 \in Nat
  BY <1>1, <1>2, <1>3
<1> DEFINE a1 == TakeByte(Start, b1)  a2 == TakeByte(a1, b2)
           a3 == TakeByte(a2, b3)  a4 == TakeByte(a3, b4)
<1>5. FoldLeft(TakeByte, Start, b) = a4
  BY ReadingOf DEF b1, b2, b3, b4
<1>6. a1.bits = b1 /\ a1.count = 3 /\ a1.text = <<d1>>
  <2>1. /\ a1.bits = (Start.bits * 2 ^ 8 + b1) % 2 ^ 16 /\ a1.count = (Start.count + 8) % 5
        /\ a1.text = Start.text \o Groups((Start.bits * 2 ^ 8 + b1) % 2 ^ 16, Start.count + 8)
    BY TakenIs
  <2>2. (0 * 2 ^ 8 + b1) % 2 ^ 16 = b1 /\ 0 + 8 = 8 /\ 8 % 5 = 3
    OBVIOUS
  <2>3. Groups(b1, 8) = <<d1>> /\ <<>> \o <<d1>> = <<d1>>
    <3>1. <<d1>> \in Seq(Nat)
      BY <1>4
    <3>2. <<>> \o <<d1>> = <<d1>>
      BY <3>1, ConcatEmptySeq
    <3> QED BY <3>2, GroupsOf8 DEF d1
  <2> HIDE DEF a1
  <2> QED BY <2>1, <2>2, <2>3 DEF Start
<1>7. a2.bits = b1 * 256 + b2 /\ a2.count = 1 /\ a2.text = <<d1>> \o <<d2, d3>>
  <2> HIDE DEF a1
  <2>1. /\ a2.bits = (a1.bits * 2 ^ 8 + b2) % 2 ^ 16 /\ a2.count = (a1.count + 8) % 5
        /\ a2.text = a1.text \o Groups((a1.bits * 2 ^ 8 + b2) % 2 ^ 16, a1.count + 8)
    BY TakenIs
  <2>2. (b1 * 2 ^ 8 + b2) % 2 ^ 16 = b1 * 256 + b2 /\ 3 + 8 = 11 /\ 11 % 5 = 1
    OBVIOUS
  <2>3. Groups(b1 * 256 + b2, 11) = <<d2, d3>>
    BY GroupsOf11 DEF d2, d3
  <2> HIDE DEF a2
  <2>4. (a1.bits * 2 ^ 8 + b2) % 2 ^ 16 = b1 * 256 + b2 /\ a1.count + 8 = 11
    BY <1>6, <2>2
  <2>5. a2.bits = b1 * 256 + b2 /\ a2.count = 1
    BY <2>1, <2>2, <2>4
  <2> QED BY <1>6, <2>1, <2>3, <2>4, <2>5, Zenon
<1>8. /\ a3.bits = b2 * 256 + b3 /\ a3.count = 4
      /\ a3.text = <<d1>> \o <<d2, d3>> \o <<d4>>
  <2> HIDE DEF a1, a2
  <2>1. /\ a3.bits = (a2.bits * 2 ^ 8 + b3) % 2 ^ 16 /\ a3.count = (a2.count + 8) % 5
        /\ a3.text = a2.text \o Groups((a2.bits * 2 ^ 8 + b3) % 2 ^ 16, a2.count + 8)
    BY TakenIs
  <2>2. ((b1 * 256 + b2) * 2 ^ 8 + b3) % 2 ^ 16 = b2 * 256 + b3 /\ 1 + 8 = 9 /\ 9 % 5 = 4
    OBVIOUS
  <2>3. Groups(b2 * 256 + b3, 9) = <<d4>>
    BY GroupsOf9 DEF d4
  <2> HIDE DEF a3
  <2>4. (a2.bits * 2 ^ 8 + b3) % 2 ^ 16 = b2 * 256 + b3 /\ a2.count + 8 = 9
    BY <1>7, <2>2
  <2>5. a3.bits = b2 * 256 + b3 /\ a3.count = 4
    BY <2>1, <2>2, <2>4
  <2> QED BY <1>7, <2>1, <2>3, <2>4, <2>5, Zenon
<1>9. /\ a4.bits = b3 * 256 + b4 /\ a4.count = 2
      /\ a4.text = <<d1>> \o <<d2, d3>> \o <<d4>> \o <<d5, d6>>
  <2> HIDE DEF a1, a2, a3
  <2>1. /\ a4.bits = (a3.bits * 2 ^ 8 + b4) % 2 ^ 16 /\ a4.count = (a3.count + 8) % 5
        /\ a4.text = a3.text \o Groups((a3.bits * 2 ^ 8 + b4) % 2 ^ 16, a3.count + 8)
    BY TakenIs
  <2>2. ((b2 * 256 + b3) * 2 ^ 8 + b4) % 2 ^ 16 = b3 * 256 + b4 /\ 4 + 8 = 12 /\ 12 % 5 = 2
    OBVIOUS
  <2>3. Groups(b3 * 256 + b4, 12) = <<d5, d6>>
    BY GroupsOf12 DEF d5, d6
  <2> HIDE DEF a4
  <2>4. (a3.bits * 2 ^ 8 + b4) % 2 ^ 16 = b3 * 256 + b4 /\ a3.count + 8 = 12
    BY <1>8, <2>2
  <2>5. a4.bits = b3 * 256 + b4 /\ a4.count = 2
    BY <2>1, <2>2, <2>4
  <2> QED BY <1>8, <2>1, <2>3, <2>4, <2>5, Zenon
<1> HIDE DEF a1, a2, a3, a4
<1> DEFINE w == Base32(b)
<1>10. w = Append(<<d1>> \o <<d2, d3>> \o <<d4>> \o <<d5, d6>>, d7)
  <2>1. w = IF a4.count = 0 THEN a4.text ELSE Append(a4.text, (a4.bits * 2 ^ (5 - a4.count)) % 32)
    BY <1>5 DEF Base32, Start
  <2>2. 2 ^ (5 - 2) = 8
    OBVIOUS
  <2> HIDE DEF w
  <2> QED BY <1>9, <2>1, <2>2 DEF d7
<1> HIDE DEF w
<1> DEFINE p == <<d1>> q == <<d2, d3>> r == <<d4>> s == <<d5, d6>>
           z == ((p \o q) \o r) \o s
<1>11. Digits(p, 1) /\ Digits(q, 2) /\ Digits(r, 1) /\ Digits(s, 2)
  BY <1>4 DEF Digits
<1>12. p[1] = d1 /\ q[1] = d2 /\ q[2] = d3 /\ r[1] = d4 /\ s[1] = d5 /\ s[2] = d6
  OBVIOUS
<1>13. w = Append(z, d7)
  BY <1>10
<1> HIDE DEF p, q, r, s
<1>14. /\ Digits(z, 6)
       /\ z[1] = p[1] /\ z[2] = q[1] /\ z[3] = q[2] /\ z[4] = r[1]
       /\ z[5] = s[1] /\ z[6] = s[2]
  <2>1. InTurn(((p \o q) \o r) \o s, p, q, r, s)
    BY <1>11, Joined
  <2>2. InTurn(z, p, q, r, s)
    BY <2>1
  <2> HIDE DEF z
  <2> QED BY <2>2 DEF InTurn
<1> HIDE DEF z
<1>15. w[6 + 1] = d7 /\ \A i \in 1 .. 6 : w[i] = z[i]
  BY <1>4, <1>13, <1>14, Appended
<1>16. /\ w[1] = d1 /\ w[2] = d2 /\ w[3] = d3 /\ w[4] = d4
       /\ w[5] = d5 /\ w[6] = d6 /\ w[7] = d7
  BY <1>12, <1>14, <1>15
<1>17. w \in Seq(Nat)
  BY <1>4, <1>13, <1>14, AppendProperties DEF Digits
<1> QED BY <1>1, <1>2, <1>3, <1>16, <1>17 DEF Spells, b1, b2, b3, b4, w

LEMMA SameParts ==
  ASSUME NEW x \in 0 .. 255, NEW y \in 0 .. 255,
         x \div 64 = y \div 64, (x \div 2) % 32 = (y \div 2) % 32, x % 2 = y % 2
  PROVE  x = y
<1> DEFINE p == x \div 2  q == y \div 2
<1>1. p \in 0 .. 127 /\ q \in 0 .. 127
  OBVIOUS
<1>2. x = 2 * p + (x % 2)
  OBVIOUS
<1>3. y = 2 * q + (y % 2)
  OBVIOUS
<1>4. p \div 32 = x \div 64
  OBVIOUS
<1>5. q \div 32 = y \div 64
  OBVIOUS
<1>6. p \div 32 = q \div 32 /\ p % 32 = q % 32
  BY <1>4, <1>5
<1> HIDE DEF p, q
<1>7. p = q
  BY <1>1, <1>6
<1> QED BY <1>2, <1>3, <1>7

\* Four bytes can be read off their digits: no bit is lost.
LEMMA Base32Injective ==
  ASSUME NEW b \in [1 .. 4 -> 0 .. 255], NEW c \in [1 .. 4 -> 0 .. 255],
         Base32(b) = Base32(c)
  PROVE  b = c
<1> DEFINE w == Base32(b)
<1>1. /\ b[1] \in 0 .. 255 /\ b[2] \in 0 .. 255 /\ b[3] \in 0 .. 255 /\ b[4] \in 0 .. 255
      /\ c[1] \in 0 .. 255 /\ c[2] \in 0 .. 255 /\ c[3] \in 0 .. 255 /\ c[4] \in 0 .. 255
  OBVIOUS
<1>2. Spells(w, b)
  BY Base32Is
<1>3. Spells(w, c)
  BY Base32Is
<1> HIDE DEF w
<1> DEFINE b1 == b[1] b2 == b[2] b3 == b[3] b4 == b[4]
           c1 == c[1] c2 == c[2] c3 == c[3] c4 == c[4]
<1>4. /\ b1 \in 0 .. 255 /\ b2 \in 0 .. 255 /\ b3 \in 0 .. 255 /\ b4 \in 0 .. 255
      /\ c1 \in 0 .. 255 /\ c2 \in 0 .. 255 /\ c3 \in 0 .. 255 /\ c4 \in 0 .. 255
  BY <1>1
<1>5. b1 \div 8 = c1 \div 8 /\ (b1 % 8) * 4 + b2 \div 64 = (c1 % 8) * 4 + c2 \div 64
  BY <1>2, <1>3 DEF Spells
<1>6. /\ (b2 \div 2) % 32 = (c2 \div 2) % 32
      /\ (b2 % 2) * 16 + b3 \div 16 = (c2 % 2) * 16 + c3 \div 16
  BY <1>2, <1>3 DEF Spells
<1>7. (b3 % 16) * 2 + b4 \div 128 = (c3 % 16) * 2 + c4 \div 128
  BY <1>2, <1>3 DEF Spells
<1>8. (b4 \div 4) % 32 = (c4 \div 4) % 32 /\ (b4 % 4) * 8 = (c4 % 4) * 8
  BY <1>2, <1>3 DEF Spells
<1> HIDE DEF b1, b2, b3, b4, c1, c2, c3, c4
<1>9. b1 = c1 /\ b2 \div 64 = c2 \div 64
  BY <1>4, <1>5
<1>10. b2 = c2 /\ b3 \div 16 = c3 \div 16
  <2>1. b2 % 2 = c2 % 2 /\ b3 \div 16 = c3 \div 16
    <3>1. (b2 % 2) * 16 + b3 \div 16 = (c2 % 2) * 16 + c3 \div 16
      BY <1>6
    <3> QED BY <1>4, <3>1
  <2> QED BY <1>4, <1>6, <1>9, <2>1, SameParts, Zenon
<1>11. b3 = c3 /\ b4 \div 128 = c4 \div 128
  <2>1. b3 % 16 = c3 % 16 /\ b4 \div 128 = c4 \div 128
    BY <1>4, <1>7
  <2> QED BY <1>4, <1>10, <2>1
<1>12. b4 = c4
  BY <1>4, <1>8, <1>11
<1> QED BY <1>9, <1>10, <1>11, <1>12 DEF b1, b2, b3, b4, c1, c2, c3, c4

-----------------------------------------------------------------------------
(* The digits of a text *)

Subs == [1 .. SubDigits -> Nat]

\* FromIndex divides by powers of two: there are that many subsets.
LEMMA PowersOfTwo ==
  ASSUME NEW n \in Nat
  PROVE  2 ^ n \in Nat \ {0}
<1>1. IsFiniteSet(1 .. n) /\ Cardinality(1 .. n) = n
  BY FS_Interval
<1>2. IsFiniteSet(SUBSET (1 .. n)) /\ Cardinality(SUBSET (1 .. n)) = 2 ^ n
  BY <1>1, FS_SUBSET
<1>3. Cardinality(SUBSET (1 .. n)) \in Nat /\ Cardinality(SUBSET (1 .. n)) # 0
  BY <1>2, FS_CardinalityType, FS_EmptySet
<1> QED BY <1>2, <1>3

LEMMA SubOfIndex ==
  ASSUME NEW owner, NEW index \in Nat
  PROVE  FromIndex(owner, index).sub \in Subs /\ FromIndex(owner, index).owner = owner
<1>1. SubDigits \in Nat /\ IndexDigits \in 0 .. SubDigits
  BY DigitsOK
<1>2. ASSUME NEW k \in 1 .. SubDigits
      PROVE  (index \div 2 ^ (4 * (SubDigits - k))) % 16 \in Nat
  <2> DEFINE p == 2 ^ (4 * (SubDigits - k))
  <2>1. 4 * (SubDigits - k) \in Nat
    BY <1>1
  <2>2. p \in Nat \ {0}
    BY <2>1, PowersOfTwo
  <2> HIDE DEF p
  <2>3. index \div p \in Int
    BY <2>2
  <2>4. (index \div p) % 16 \in Nat
    BY <2>3
  <2> QED BY <2>4 DEF p
<1> QED BY <1>1, <1>2 DEF FromIndex, Subs

LEMMA MeantIs ==
  ASSUME NEW a \in Meant
  PROVE  /\ a.owner \in Owners /\ a.sub \in Subs
         /\ a = [owner |-> a.owner, sub |-> a.sub]
<1>1. SubDigits \in Nat /\ Converted \subseteq Owners /\ Canister \in Owners
  BY DigitsOK, ClientOK
<1>2. CASE a \in {FromIndex(Canister, i) : i \in 0 .. MaxNonce - 1}
  <2>1. PICK i \in 0 .. MaxNonce - 1 : a = FromIndex(Canister, i)
    BY <1>2
  <2>2. i \in Nat
    BY ClientOK
  <2> QED BY <1>1, <2>1, <2>2, SubOfIndex DEF FromIndex
<1>3. CASE a \in Printed
  <2> DEFINE One(p) == [k \in 1 .. SubDigits |-> IF k = p THEN 1 ELSE 0]
             Byte(k) == (k + 1) \div 2
             Counted == [k \in 1 .. SubDigits |->
                           IF k % 2 = 1 THEN Byte(k) \div 16 ELSE Byte(k) % 16]
             All == {Zeros(SubDigits), One(SubDigits), One(2), FromIndex(None, 123).sub, Counted}
  <2>1. Printed = {[owner |-> o, sub |-> s] : o \in Converted, s \in All}
    BY DEF Printed
  <2>2. Counted \in Subs
    BY <1>1 DEF Subs
  <2>3. Zeros(SubDigits) \in Subs /\ One(SubDigits) \in Subs /\ One(2) \in Subs
    BY <1>1 DEF Subs, Zeros
  <2>4. FromIndex(None, 123).sub \in Subs
    BY SubOfIndex
  <2>5. All \subseteq Subs
    BY <2>2, <2>3, <2>4
  <2> HIDE DEF All
  <2> QED BY <1>1, <1>3, <2>1, <2>5
<1> QED BY <1>2, <1>3 DEF Meant

\* h is s without the zeros before f.
DigitsFrom(s, f, h) ==
  /\ \A j \in 1 .. f - 1 : s[j] = 0
  /\ h \in Seq(Nat) /\ Len(h) = SubDigits - f + 1
  /\ \A i \in 1 .. SubDigits - f + 1 : h[i] = s[f - 1 + i]

\* Trimming finds the first digit that is not zero.
LEMMA TrimmedIs ==
  ASSUME NEW s \in Subs, ~ IsDefault(s)
  PROVE  \E f \in 1 .. SubDigits : s[f] # 0 /\ DigitsFrom(s, f, Trimmed(s))
<1> DEFINE D == {k \in 1 .. SubDigits : s[k] # 0}
           First(k) == s[k] # 0 /\ \A j \in 1 .. k - 1 : s[j] = 0
<1>1. SubDigits \in Nat
  BY DigitsOK
<1>2. D # {} /\ D \in SUBSET Nat
  BY <1>1 DEF IsDefault, Zeros, Subs
<1>3. PICK g \in D : \A k \in D : g <= k
  BY <1>2, LeastOf
<1>4. g \in 1 .. SubDigits /\ First(g)
  <2>1. ASSUME NEW j \in 1 .. g - 1 PROVE s[j] = 0
    BY <1>1, <1>3
  <2> QED BY <1>3, <2>1
<1> DEFINE f == CHOOSE k \in 1 .. SubDigits : First(k)
<1>5. f \in 1 .. SubDigits /\ First(f)
  BY <1>4
<1>6. Trimmed(s) = SubSeq(s, f, SubDigits)
  BY DEF Trimmed
<1> HIDE DEF f
<1>7. \A i \in f .. SubDigits : s[i] \in Nat
  BY <1>1, <1>5 DEF Subs
<1>8. /\ SubSeq(s, f, SubDigits) \in Seq(Nat)
      /\ Len(SubSeq(s, f, SubDigits)) = IF f <= SubDigits THEN SubDigits - f + 1 ELSE 0
      /\ \A i \in 1 .. SubDigits - f + 1 : SubSeq(s, f, SubDigits)[i] = s[f + i - 1]
  BY <1>1, <1>5, <1>7, SubSeqProperties
<1> DEFINE h == SubSeq(s, f, SubDigits)
<1>9. h \in Seq(Nat) /\ Len(h) = SubDigits - f + 1
  <2>1. f <= SubDigits
    BY <1>5
  <2> HIDE DEF h
  <2> QED BY <1>8, <2>1 DEF h
<1>10. ASSUME NEW i \in 1 .. SubDigits - f + 1 PROVE h[i] = s[f - 1 + i]
  <2>1. f + i - 1 = f - 1 + i
    BY <1>1, <1>5
  <2>2. h[i] = s[f + i - 1]
    BY <1>8
  <2> HIDE DEF h
  <2> QED BY <2>1, <2>2
<1>11. s[f] # 0 /\ \A j \in 1 .. f - 1 : s[j] = 0
  BY <1>5
<1>12. DigitsFrom(s, f, h)
  <2> HIDE DEF h
  <2> QED BY <1>9, <1>10, <1>11 DEF DigitsFrom
<1>13. Trimmed(s) = h
  BY <1>6
<1> HIDE DEF h, First
<1> QED BY <1>5, <1>11, <1>12, <1>13

LEMMA PaddedIs ==
  ASSUME NEW h \in Seq(Nat), Len(h) <= SubDigits
  PROVE  /\ Padded(h) \in Subs
         /\ \A k \in 1 .. SubDigits :
              Padded(h)[k] = IF k <= SubDigits - Len(h) THEN 0 ELSE h[k - (SubDigits - Len(h))]
<1> DEFINE n == SubDigits - Len(h)  z == Zeros(n)
<1>1. SubDigits \in Nat /\ Len(h) \in Nat /\ n \in Nat
  BY DigitsOK
<1>2. z \in Seq(Nat) /\ Len(z) = n /\ \A k \in 1 .. n : z[k] = 0
  BY <1>1 DEF Zeros
<1> HIDE DEF z
<1>3. /\ z \o h \in Seq(Nat) /\ Len(z \o h) = Len(z) + Len(h)
      /\ \A k \in 1 .. Len(z) + Len(h) : (z \o h)[k] = IF k <= Len(z) THEN z[k] ELSE h[k - Len(z)]
  BY <1>2, ConcatProperties
<1>4. Len(z) + Len(h) = SubDigits
  BY <1>1, <1>2
<1>5. Padded(h) = z \o h
  BY DEF Padded, z
<1>6. Padded(h) \in Subs
  <2>1. \A t \in Seq(Nat) : t \in [1 .. Len(t) -> Nat]
    OBVIOUS
  <2>2. Padded(h) \in Seq(Nat) /\ Len(Padded(h)) = SubDigits
    BY <1>3, <1>4, <1>5
  <2> QED BY <2>1, <2>2 DEF Subs
<1>7. ASSUME NEW k \in 1 .. SubDigits
      PROVE  Padded(h)[k] = IF k <= n THEN 0 ELSE h[k - n]
  <2>1. Padded(h)[k] = IF k <= n THEN z[k] ELSE h[k - n]
    BY <1>2, <1>3, <1>4, <1>5
  <2>2. k <= n => k \in 1 .. n
    BY <1>1
  <2> QED BY <1>2, <2>1, <2>2
<1> QED BY <1>6, <1>7

Shifted(s) == [k \in 1 .. SubDigits |-> IF k = 1 THEN 0 ELSE s[k - 1]]

\* As in Misread: the subaccounts that a slip makes of s.
MisreadSubs(s) ==
  {s} \cup {[s EXCEPT ![k] = d] : k \in 1 .. SubDigits, d \in TypedDigits} \cup {Shifted(s)}

LEMMA TypedAreDigits == \A d \in TypedDigits : d \in Nat
BY ClientOK

LEMMA SameSub ==
  ASSUME NEW u \in Subs, NEW v \in Subs, \A k \in 1 .. SubDigits : u[k] = v[k]
  PROVE  u = v
<1>1. u = [k \in 1 .. SubDigits |-> u[k]] /\ v = [k \in 1 .. SubDigits |-> v[k]]
  BY DEF Subs
<1>2. [k \in 1 .. SubDigits |-> u[k]] = [k \in 1 .. SubDigits |-> v[k]]
  OBVIOUS
<1> QED BY <1>1, <1>2

\* Digits are read as what they were taken from, zeros filled in.
LEMMA ReadAs ==
  ASSUME NEW s \in Subs, NEW f \in 1 .. SubDigits + 1, NEW h, DigitsFrom(s, f, h)
  PROVE  Padded(h) = s
<1>1. SubDigits \in Nat /\ h \in Seq(Nat) /\ Len(h) = SubDigits - f + 1 /\ Len(h) <= SubDigits
  BY DigitsOK DEF DigitsFrom
<1>2. SubDigits - Len(h) = f - 1
  BY <1>1
<1>3. /\ Padded(h) \in Subs
      /\ \A k \in 1 .. SubDigits : Padded(h)[k] = IF k <= f - 1 THEN 0 ELSE h[k - (f - 1)]
  BY <1>1, <1>2, PaddedIs
<1>4. ASSUME NEW k \in 1 .. SubDigits PROVE Padded(h)[k] = s[k]
  <2>1. CASE k <= f - 1
    BY <1>1, <1>3, <2>1 DEF DigitsFrom
  <2>2. CASE ~ (k <= f - 1)
    <3>1. k - (f - 1) \in 1 .. SubDigits - f + 1 /\ (f - 1) + (k - (f - 1)) = k
      BY <1>1, <2>2
    <3>2. h[k - (f - 1)] = s[k]
      BY <3>1 DEF DigitsFrom
    <3> QED BY <1>3, <2>2, <3>2
  <2> QED BY <2>1, <2>2
<1> QED BY <1>3, <1>4, SameSub

LEMMA OtherDigit ==
  ASSUME NEW s \in Subs, NEW f \in 1 .. SubDigits, NEW h, DigitsFrom(s, f, h),
         NEW i \in DOMAIN h, NEW d \in TypedDigits
  PROVE  Padded([h EXCEPT ![i] = d]) \in MisreadSubs(s)
<1> DEFINE hx == [h EXCEPT ![i] = d]
           u == [s EXCEPT ![f - 1 + i] = d]
<1>1. SubDigits \in Nat /\ h \in Seq(Nat) /\ Len(h) = SubDigits - f + 1
  BY DigitsOK DEF DigitsFrom
<1>2. i \in 1 .. SubDigits - f + 1 /\ f - 1 + i \in 1 .. SubDigits
  BY <1>1
<1>3. hx \in Seq(Nat) /\ Len(hx) = SubDigits - f + 1
  BY <1>1, TypedAreDigits
<1>4. \A j \in 1 .. SubDigits - f + 1 : hx[j] = IF j = i THEN d ELSE h[j]
  BY <1>1
<1>5. u \in Subs /\ \A k \in 1 .. SubDigits : u[k] = IF k = f - 1 + i THEN d ELSE s[k]
  BY <1>2, TypedAreDigits DEF Subs
<1>6. u \in MisreadSubs(s)
  BY <1>2 DEF MisreadSubs
<1> HIDE DEF hx, u
<1>7. ASSUME NEW j \in 1 .. f - 1 PROVE u[j] = 0
  <2>1. j # f - 1 + i /\ j \in 1 .. SubDigits
    BY <1>1, <1>2
  <2> QED BY <1>5, <2>1 DEF DigitsFrom
<1>8. ASSUME NEW j \in 1 .. SubDigits - f + 1 PROVE hx[j] = u[f - 1 + j]
  <2>0. f \in Int /\ i \in Int /\ j \in Int /\ f - 1 + j \in 1 .. SubDigits
    BY <1>1, <1>2
  <2>1. f - 1 + j \in 1 .. SubDigits /\ (j = i <=> f - 1 + j = f - 1 + i)
    BY <2>0
  <2> QED BY <1>4, <1>5, <2>1 DEF DigitsFrom
<1>9. f \in 1 .. SubDigits + 1 /\ DigitsFrom(u, f, hx)
  BY <1>1, <1>3, <1>7, <1>8 DEF DigitsFrom
<1> QED BY <1>5, <1>6, <1>9, ReadAs DEF hx

LEMMA DigitInFront ==
  ASSUME NEW s \in Subs, NEW f \in 1 .. SubDigits, NEW h, DigitsFrom(s, f, h),
         NEW d \in TypedDigits, Len(<<d>> \o h) <= SubDigits
  PROVE  Padded(<<d>> \o h) \in MisreadSubs(s)
<1> DEFINE hx == <<d>> \o h
           u == [s EXCEPT ![f - 1] = d]
<1>1. SubDigits \in Nat /\ h \in Seq(Nat) /\ Len(h) = SubDigits - f + 1
  BY DigitsOK DEF DigitsFrom
<1>2. <<d>> \in Seq(Nat) /\ Len(<<d>>) = 1 /\ <<d>>[1] = d
  BY TypedAreDigits
<1>3. /\ hx \in Seq(Nat) /\ Len(hx) = 1 + (SubDigits - f + 1)
      /\ hx[1] = d /\ \A j \in 1 .. SubDigits - f + 1 : hx[1 + j] = h[j]
  <2>1. /\ hx \in Seq(Nat) /\ Len(hx) = 1 + Len(h)
        /\ \A j \in 1 .. 1 : hx[j] = <<d>>[j]
        /\ \A j \in 1 .. Len(h) : hx[1 + j] = h[j]
    BY <1>1, <1>2, Concat
  <2>2. 1 \in 1 .. 1
    OBVIOUS
  <2> HIDE DEF hx
  <2> QED BY <1>1, <1>2, <2>1, <2>2
<1>4. f - 1 \in 1 .. SubDigits
  BY <1>1, <1>3
<1>5. u \in Subs /\ \A k \in 1 .. SubDigits : u[k] = IF k = f - 1 THEN d ELSE s[k]
  BY <1>4, TypedAreDigits DEF Subs
<1>6. u \in MisreadSubs(s)
  BY <1>4 DEF MisreadSubs
<1> HIDE DEF hx, u
<1> DEFINE g == f - 1
<1>7. ASSUME NEW j \in 1 .. g - 1 PROVE u[j] = 0
  <2>1. j # f - 1 /\ j \in 1 .. SubDigits /\ j \in 1 .. f - 1
    BY <1>1, <1>4
  <2> QED BY <1>5, <2>1 DEF DigitsFrom
<1>8. ASSUME NEW j \in 1 .. SubDigits - g + 1 PROVE hx[j] = u[g - 1 + j]
  <2>1. CASE j = 1
    <3>1. g - 1 + j = f - 1
      BY <1>1, <2>1
    <3> QED BY <1>3, <1>4, <1>5, <2>1, <3>1
  <2>2. CASE j # 1
    <3>1. /\ j - 1 \in 1 .. SubDigits - f + 1 /\ 1 + (j - 1) = j
          /\ g - 1 + j \in 1 .. SubDigits /\ g - 1 + j # f - 1
          /\ f - 1 + (j - 1) = g - 1 + j
      BY <1>1, <1>4, <2>2
    <3>2. hx[j] = h[j - 1]
      BY <1>3, <3>1
    <3>3. h[j - 1] = s[g - 1 + j]
      BY <3>1 DEF DigitsFrom
    <3> QED BY <1>5, <3>1, <3>2, <3>3
  <2> QED BY <2>1, <2>2
<1>9. g \in 1 .. SubDigits + 1 /\ Len(hx) = SubDigits - g + 1
  BY <1>1, <1>3, <1>4
<1>10. DigitsFrom(u, g, hx)
  BY <1>3, <1>7, <1>8, <1>9 DEF DigitsFrom
<1> QED BY <1>5, <1>6, <1>9, <1>10, ReadAs DEF hx

LEMMA ZerosInFront ==
  ASSUME NEW s \in Subs, NEW f \in 1 .. SubDigits, NEW h, DigitsFrom(s, f, h),
         NEW n \in Nat, Len(Zeros(n) \o h) <= SubDigits
  PROVE  Padded(Zeros(n) \o h) = s
<1> DEFINE z == Zeros(n)
           hx == z \o h
           g == f - n
<1>1. SubDigits \in Nat /\ h \in Seq(Nat) /\ Len(h) = SubDigits - f + 1
  BY DigitsOK DEF DigitsFrom
<1>2. z \in Seq(Nat) /\ Len(z) = n /\ \A k \in 1 .. n : z[k] = 0
  BY DEF Zeros
<1> HIDE DEF z
<1>3. /\ hx \in Seq(Nat) /\ Len(hx) = n + (SubDigits - f + 1)
      /\ \A j \in 1 .. n : hx[j] = 0
      /\ \A j \in 1 .. SubDigits - f + 1 : hx[n + j] = h[j]
  <2>1. /\ hx \in Seq(Nat) /\ Len(hx) = n + Len(h)
        /\ \A j \in 1 .. n : hx[j] = z[j]
        /\ \A j \in 1 .. Len(h) : hx[n + j] = h[j]
    BY <1>1, <1>2, Concat
  <2> HIDE DEF hx
  <2> QED BY <1>1, <1>2, <2>1
<1>4. Len(hx) <= SubDigits
  BY DEF z
<1> HIDE DEF hx
<1>5. g \in 1 .. SubDigits + 1 /\ Len(hx) = SubDigits - g + 1
  BY <1>1, <1>3, <1>4
<1>6. ASSUME NEW j \in 1 .. g - 1 PROVE s[j] = 0
  <2>1. j \in 1 .. f - 1
    BY <1>1, <1>5
  <2> QED BY <2>1 DEF DigitsFrom
<1>7. ASSUME NEW j \in 1 .. SubDigits - g + 1 PROVE hx[j] = s[g - 1 + j]
  <2>1. CASE j <= n
    <3>1. j \in 1 .. n /\ g - 1 + j \in 1 .. f - 1
      BY <1>1, <1>5, <2>1
    <3> QED BY <1>3, <3>1 DEF DigitsFrom
  <2>2. CASE ~ (j <= n)
    <3>1. j - n \in 1 .. SubDigits - f + 1 /\ n + (j - n) = j /\ f - 1 + (j - n) = g - 1 + j
      BY <1>1, <1>5, <2>2
    <3>2. hx[j] = h[j - n]
      BY <1>3, <3>1
    <3>3. h[j - n] = s[g - 1 + j]
      BY <3>1 DEF DigitsFrom
    <3> QED BY <3>2, <3>3
  <2> QED BY <2>1, <2>2
<1>8. DigitsFrom(s, g, hx)
  BY <1>3, <1>5, <1>6, <1>7 DEF DigitsFrom
<1> QED BY <1>5, <1>8, ReadAs DEF hx, z

LEMMA LastDigitGone ==
  ASSUME NEW s \in Subs, NEW f \in 1 .. SubDigits, NEW h, DigitsFrom(s, f, h)
  PROVE  Padded(Front(h)) \in MisreadSubs(s)
<1> DEFINE u == Shifted(s)
           hx == Front(h)
           g == f + 1
<1>1. SubDigits \in Nat /\ h \in Seq(Nat) /\ Len(h) = SubDigits - f + 1
  BY DigitsOK DEF DigitsFrom
<1>2. /\ hx \in Seq(Nat) /\ Len(hx) = SubDigits - f
      /\ \A j \in 1 .. SubDigits - f : hx[j] = h[j]
  <2> DEFINE l == SubDigits - f
  <2>1. hx = SubSeq(h, 1, l) /\ l \in Nat /\ l < Len(h)
    BY <1>1 DEF Front
  <2>2. \A i \in 1 .. l : h[i] \in Nat
    BY <1>1, <2>1
  <2> HIDE DEF hx, l
  <2>3. /\ SubSeq(h, 1, l) \in Seq(Nat)
        /\ Len(SubSeq(h, 1, l)) = IF 1 <= l THEN l - 1 + 1 ELSE 0
        /\ \A i \in 1 .. l - 1 + 1 : SubSeq(h, 1, l)[i] = h[1 + i - 1]
    BY <2>1, <2>2, SubSeqProperties
  <2>4. /\ l - 1 + 1 = l /\ (~ (1 <= l) => l = 0)
        /\ \A i \in 1 .. l : 1 + i - 1 = i
    BY <2>1
  <2>5. Len(hx) = l /\ \A i \in 1 .. l : hx[i] = h[i]
    BY <2>1, <2>3, <2>4
  <2> QED BY <2>1, <2>3, <2>5 DEF l
<1>3. u \in Subs /\ \A k \in 1 .. SubDigits : u[k] = IF k = 1 THEN 0 ELSE s[k - 1]
  <2>1. ASSUME NEW k \in 1 .. SubDigits PROVE k # 1 => s[k - 1] \in Nat
    BY <1>1 DEF Subs
  <2> QED BY <2>1 DEF Shifted, Subs
<1>4. u \in MisreadSubs(s)
  BY DEF MisreadSubs
<1> HIDE DEF u, hx
<1>5. g \in 1 .. SubDigits + 1 /\ Len(hx) = SubDigits - g + 1
  BY <1>1, <1>2
<1>6. ASSUME NEW j \in 1 .. g - 1 PROVE u[j] = 0
  <2>1. j \in 1 .. SubDigits /\ (j # 1 => j - 1 \in 1 .. f - 1)
    BY <1>1
  <2> QED BY <1>3, <2>1 DEF DigitsFrom
<1>7. ASSUME NEW j \in 1 .. SubDigits - g + 1 PROVE hx[j] = u[g - 1 + j]
  <2>1. /\ j \in 1 .. SubDigits - f /\ j \in 1 .. SubDigits - f + 1
        /\ g - 1 + j \in 1 .. SubDigits /\ g - 1 + j # 1
        /\ (g - 1 + j) - 1 = f - 1 + j
    BY <1>1
  <2>2. hx[j] = h[j] /\ u[g - 1 + j] = s[f - 1 + j]
    BY <1>2, <1>3, <2>1
  <2> QED BY <2>1, <2>2 DEF DigitsFrom
<1>8. DigitsFrom(u, g, hx)
  BY <1>2, <1>5, <1>6, <1>7 DEF DigitsFrom
<1> QED BY <1>3, <1>4, <1>5, <1>8, ReadAs DEF hx

-----------------------------------------------------------------------------
(* What one slip makes of a text *)

\* The digits that a slip makes of h.
Mistyped(h) ==
  {[h EXCEPT ![k] = d] : k \in DOMAIN h, d \in TypedDigits}
    \cup {<<d>> \o h : d \in TypedDigits}
    \cup {Zeros(k) \o h : k \in 1 .. SubDigits + 2 - Len(h)}
    \cup {Front(h)}

LEMMA HexSlips ==
  ASSUME NEW s \in Subs, NEW f \in 1 .. SubDigits, NEW h, DigitsFrom(s, f, h),
         NEW hx \in Mistyped(h), Len(hx) <= SubDigits
  PROVE  Padded(hx) \in MisreadSubs(s)
<1>1. ASSUME NEW k \in DOMAIN h, NEW d \in TypedDigits, hx = [h EXCEPT ![k] = d]
      PROVE  Padded(hx) \in MisreadSubs(s)
  <2>1. Padded([h EXCEPT ![k] = d]) \in MisreadSubs(s)
    BY OtherDigit
  <2> QED BY <1>1, <2>1
<1>2. ASSUME NEW d \in TypedDigits, hx = <<d>> \o h
      PROVE  Padded(hx) \in MisreadSubs(s)
  BY <1>2, DigitInFront
<1>3. ASSUME NEW k \in 1 .. SubDigits + 2 - Len(h), hx = Zeros(k) \o h
      PROVE  Padded(hx) \in MisreadSubs(s)
  <2>1. k \in Nat
    BY DigitsOK DEF DigitsFrom
  <2>2. Padded(hx) = s
    BY <1>3, <2>1, ZerosInFront
  <2> QED BY <2>2 DEF MisreadSubs
<1>4. CASE hx = Front(h)
  BY <1>4, LastDigitGone
<1>5. \/ \E k \in DOMAIN h, d \in TypedDigits : hx = [h EXCEPT ![k] = d]
      \/ \E d \in TypedDigits : hx = <<d>> \o h
      \/ \E k \in 1 .. SubDigits + 2 - Len(h) : hx = Zeros(k) \o h
      \/ hx = Front(h)
  <2> DEFINE A == {[h EXCEPT ![k] = d] : k \in DOMAIN h, d \in TypedDigits}
             B == {<<d>> \o h : d \in TypedDigits}
             C == {Zeros(k) \o h : k \in 1 .. SubDigits + 2 - Len(h)}
  <2>1. Mistyped(h) = A \cup B \cup C \cup {Front(h)}
    BY DEF Mistyped
  <2>2. hx \in A => \E k \in DOMAIN h, d \in TypedDigits : hx = [h EXCEPT ![k] = d]
    OBVIOUS
  <2>3. hx \in B => \E d \in TypedDigits : hx = <<d>> \o h
    OBVIOUS
  <2>4. hx \in C => \E k \in 1 .. SubDigits + 2 - Len(h) : hx = Zeros(k) \o h
    OBVIOUS
  <2> HIDE DEF A, B, C
  <2> QED BY <2>1, <2>2, <2>3, <2>4
<1> QED BY <1>1, <1>2, <1>3, <1>4, <1>5

\* One checksum is of one account, among those that a slip may make.
LEMMA Tells ==
  ASSUME CrcTells, NEW a \in Meant, ~ IsDefault(a.sub), NEW o \in Owners, NEW u,
         u = a.sub \/ (o = a.owner /\ u \in MisreadSubs(a.sub))
  PROVE  /\ Checksum(o, u) \in Seq(Nat)
         /\ Checksum(o, u) = Checksum(a.owner, a.sub) => o = a.owner /\ u = a.sub
<1> DEFINE s == a.sub
           b == [owner |-> o, sub |-> u]
<1>1. a.owner \in Owners /\ a = [owner |-> a.owner, sub |-> s]
  BY MeantIs
<1>2. b \in Misread(a)
  <2>1. CASE u = s
    BY <2>1 DEF Misread
  <2>2. CASE o = a.owner /\ u \in MisreadSubs(s)
    BY <1>1, <2>2 DEF Misread, MisreadSubs, Shifted
  <2> QED BY <2>1, <2>2
<1>3. a \in Misread(a)
  BY <1>1 DEF Misread
<1>4. \A c \in Misread(a) :
        /\ Crc(c.owner, c.sub) \in [1 .. 4 -> 0 .. 255]
        /\ c # a => Crc(c.owner, c.sub) # Crc(a.owner, a.sub)
  BY DEF CrcTells
<1>5. b.owner = o /\ b.sub = u
  OBVIOUS
<1> HIDE DEF b
<1>6. Crc(o, u) \in [1 .. 4 -> 0 .. 255] /\ Crc(a.owner, a.sub) \in [1 .. 4 -> 0 .. 255]
  BY <1>2, <1>3, <1>4, <1>5
<1>7. ASSUME Checksum(o, u) = Checksum(a.owner, a.sub)
      PROVE  o = a.owner /\ u = a.sub
  <2>1. Crc(o, u) = Crc(a.owner, a.sub)
    BY <1>6, <1>7, Base32Injective DEF Checksum
  <2>2. Crc(b.owner, b.sub) = Crc(a.owner, a.sub)
    BY <1>5, <2>1
  <2>3. b = a
    <3>1. b # a => Crc(b.owner, b.sub) # Crc(a.owner, a.sub)
      BY <1>2, <1>4, Zenon
    <3> QED BY <2>2, <3>1
  <2> QED BY <1>5, <2>3
<1>8. Checksum(o, u) \in Seq(Nat)
  <2>1. Spells(Base32(Crc(o, u)), Crc(o, u))
    BY <1>6, Base32Is
  <2> QED BY <2>1, Zenon DEF Checksum, Spells
<1> QED BY <1>7, <1>8

LEMMA FromTextIs ==
  ASSUME NEW t
  PROVE  /\ t.check = None /\ t.hex = None =>
              FromText(t) = [owner |-> t.owner, sub |-> None]
         /\ t.check = None /\ t.hex # None => FromText(t) = Rejected
         /\ t.check # None /\ t.hex = None => FromText(t) = Rejected
         /\ t.check # None /\ t.hex # None =>
              FromText(t) =
                IF Decodes(t.hex) /\ t.check = Checksum(t.owner, Padded(t.hex))
                THEN [owner |-> t.owner, sub |-> Padded(t.hex)] ELSE Rejected
BY DEF FromText

LEMMA SubIsNotNone == \A s \in Subs : s # None
<1>1. SubDigits \in Nat
  BY DigitsOK
<1>2. \A s \in Subs : s \in Seq(Nat)
  BY <1>1 DEF Subs
<1> QED BY <1>2, NoneOK

\* What a text was made of.
LEMMA TextIs ==
  ASSUME CrcTells, NEW a \in Meant
  PROVE  IF IsDefault(a.sub)
         THEN ToText(a) = [owner |-> a.owner, check |-> None, hex |-> None]
         ELSE /\ ToText(a) = [owner |-> a.owner, check |-> Checksum(a.owner, a.sub),
                              hex |-> Trimmed(a.sub)]
              /\ Checksum(a.owner, a.sub) # None /\ Trimmed(a.sub) # None
<1>1. a.owner \in Owners /\ a.sub \in Subs /\ a.sub # None
  BY MeantIs, SubIsNotNone
<1>2. ~ IsDefault(a.sub) => Checksum(a.owner, a.sub) # None
  BY <1>1, Tells, NoneOK
<1>3. ~ IsDefault(a.sub) => Trimmed(a.sub) # None
  BY <1>1, TrimmedIs, NoneOK DEF DigitsFrom
<1> QED BY <1>1, <1>2, <1>3 DEF ToText

\* SlipsAreCaught for one text, ReadsBackInBytes for one account.
LEMMA OneSlip ==
  ASSUME CrcTells, NEW a \in Meant, NEW t \in Slips(ToText(a))
  PROVE  \/ FromText(t) = Rejected
         \/ Same(FromText(t), a)
         \/ t.check = None /\ FromText(t).sub = None
<1> DEFINE s == a.sub
           h == Trimmed(s)
           c == Checksum(a.owner, s)
           text == ToText(a)
<1>1. a.owner \in Owners /\ s \in Subs
  BY MeantIs
<1>2. CASE IsDefault(s)
  <2>1. text = [owner |-> a.owner, check |-> None, hex |-> None]
    BY <1>2, TextIs
  <2> HIDE DEF text
  <2>2. t.check = None /\ t.hex = None
    BY <2>1 DEF Slips, text
  <2> QED BY <2>2, FromTextIs
<1>3. CASE ~ IsDefault(s)
  <2>1. /\ text = [owner |-> a.owner, check |-> c, hex |-> h]
        /\ c # None /\ h # None
    BY <1>3, TextIs
  <2>2. PICK f \in 1 .. SubDigits : DigitsFrom(s, f, h)
    BY <1>1, <1>3, TrimmedIs
  <2> HIDE DEF text, c, h
  <2>3. \/ t.owner \in Owners /\ t.check \in {c, None} /\ t.hex \in {h, None}
        \/ t.owner = a.owner /\ t.check = c /\ t.hex \in Mistyped(h)
    <3>1. text.owner = a.owner /\ text.check = c /\ text.hex = h /\ a.owner \in Owners
      BY <1>1, <2>1
    <3>2. CASE t = text
      BY <3>1, <3>2
    <3>3. CASE t \in [owner : Owners, check : {c, None}, hex : {h, None}]
      BY <3>3
    <3>4. ASSUME NEW hx \in Mistyped(h), t = [text EXCEPT !.hex = hx]
          PROVE  t.owner = a.owner /\ t.check = c /\ t.hex \in Mistyped(h)
      BY <2>1, <3>1, <3>4
    <3>5. Slips(text) = {text} \cup [owner : Owners, check : {c, None}, hex : {h, None}]
                          \cup {[text EXCEPT !.hex = hx] : hx \in Mistyped(h)}
      BY <2>1, <3>1 DEF Slips, Mistyped
    <3>6. t \in Slips(text)
      BY DEF text
    <3> QED BY <3>2, <3>3, <3>4, <3>5, <3>6
  <2>4. CASE t.check = None \/ t.hex = None
    BY <2>4, FromTextIs
  <2>5. CASE t.check # None /\ t.hex # None
    <3> DEFINE u == Padded(t.hex)
    <3>1. CASE Decodes(t.hex) /\ t.check = Checksum(t.owner, u)
      <4>1. t.check = c /\ t.owner \in Owners
        BY <1>1, <2>3, <2>5
      <4>2. u = s \/ (t.owner = a.owner /\ u \in MisreadSubs(s))
        <5>1. CASE t.hex = h
          <6>1. f \in 1 .. SubDigits + 1
            BY DigitsOK
          <6> QED BY <1>1, <2>2, <5>1, <6>1, ReadAs
        <5>2. CASE t.hex \in Mistyped(h) /\ t.owner = a.owner
          <6>1. Len(t.hex) <= SubDigits
            BY <3>1 DEF Decodes
          <6> QED BY <1>1, <2>2, <5>2, <6>1, HexSlips
        <5> QED BY <2>3, <2>5, <5>1, <5>2
      <4>3. Checksum(t.owner, u) = Checksum(a.owner, s)
        BY <3>1, <4>1 DEF c
      <4>4. t.owner = a.owner /\ u = s
        BY <1>3, <4>1, <4>2, <4>3, Tells
      <4>5. FromText(t) = [owner |-> a.owner, sub |-> s]
        BY <2>5, <3>1, <4>4, FromTextIs
      <4> QED BY <4>5 DEF Same
    <3>2. CASE ~ (Decodes(t.hex) /\ t.check = Checksum(t.owner, u))
      BY <2>5, <3>2, FromTextIs
    <3> QED BY <3>1, <3>2
  <2> QED BY <2>4, <2>5
<1> QED BY <1>2, <1>3

LEMMA AsShown ==
  ASSUME CrcTells, NEW a \in Meant
  PROVE  IF WholeBytes(a.sub) THEN Same(FromText(ToText(a)), a) ELSE FromText(ToText(a)) = Rejected
<1> DEFINE s == a.sub
           First(k) == s[k] # 0 /\ \A j \in 1 .. k - 1 : s[j] = 0
           bytes == WholeBytes(s)
           h == Trimmed(s)
           c == Checksum(a.owner, s)
           text == ToText(a)
<1>1. a.owner \in Owners /\ s \in Subs /\ s # None
  BY MeantIs, SubIsNotNone
<1>2. SubDigits \in Nat /\ SubDigits % 2 = 0
  BY DigitsOK
<1>3. CASE IsDefault(s)
  <2>1. text = [owner |-> a.owner, check |-> None, hex |-> None]
    BY <1>3, TextIs
  <2>2. FromText(text) = [owner |-> a.owner, sub |-> None]
    <3> HIDE DEF text
    <3> QED BY <2>1, FromTextIs
  <2>3. bytes
    BY <1>3 DEF IsDefault, Zeros, WholeBytes
  <2>4. Same(FromText(text), a)
    BY <1>1, <1>3, <2>2 DEF Same, IsDefault
  <2> QED BY <2>3, <2>4
<1>4. CASE ~ IsDefault(s)
  <2>1. /\ text = [owner |-> a.owner, check |-> c, hex |-> h]
        /\ c # None /\ h # None
    BY <1>4, TextIs
  <2>2. PICK f \in 1 .. SubDigits : s[f] # 0 /\ DigitsFrom(s, f, h)
    BY <1>1, <1>4, TrimmedIs
  <2>3. First(f) /\ \A k \in 1 .. SubDigits : First(k) => k = f
    <3>1. First(f)
      BY <2>2 DEF DigitsFrom
    <3>2. ASSUME NEW k \in 1 .. SubDigits, First(k) PROVE k = f
      <4>1. ~ k < f
        <5>1. k < f => k \in 1 .. f - 1
          BY <1>2
        <5> QED BY <3>1, <3>2, <5>1
      <4>2. ~ f < k
        <5>1. f < k => f \in 1 .. k - 1
          BY <1>2
        <5> QED BY <3>1, <3>2, <5>1
      <4> QED BY <1>2, <4>1, <4>2
    <3> QED BY <3>1, <3>2
  <2>4. bytes <=> f % 2 = 1
    BY <2>3 DEF WholeBytes
  <2>5. Padded(h) = s
    <3>1. f \in 1 .. SubDigits + 1
      BY <1>2
    <3> QED BY <1>1, <2>2, <3>1, ReadAs
  <2>6. Decodes(h) <=> f % 2 = 1
    <3>1. Len(h) = SubDigits - f + 1
      BY <2>2 DEF DigitsFrom
    <3>2. SubDigits - f + 1 <= SubDigits
      BY <1>2
    <3>3. (SubDigits - f + 1) % 2 = 0 <=> f % 2 = 1
      BY <1>2
    <3> QED BY <3>1, <3>2, <3>3 DEF Decodes
  <2> HIDE DEF h, c, bytes
  <2>7. FromText(text) = IF Decodes(h) THEN [owner |-> a.owner, sub |-> s] ELSE Rejected
    <3>1. c = Checksum(a.owner, Padded(h))
      BY <2>5 DEF c
    <3> HIDE DEF text, s
    <3> QED BY <2>1, <2>5, <3>1, FromTextIs
  <2>8. Same([owner |-> a.owner, sub |-> s], a)
    BY DEF Same
  <2> QED BY <2>4, <2>6, <2>7, <2>8 DEF bytes
<1> QED BY <1>3, <1>4

\* Whatever was typed is an address with at most one slip.
TypedInv ==
  \/ typed = None
  \/ \E a \in Meant : \E t \in Slips(ToText(a)) : typed = [meant |-> a, text |-> t]

LEMMA Next_TypedInv == ClientInv /\ TypedInv /\ [Next]_vars => TypedInv'
<1> SUFFICES ASSUME ClientInv, TypedInv, [Next]_vars PROVE TypedInv'
  OBVIOUS
<1>1. ASSUME NEW c \in Clients,
             \/ GetRegisteredTokens(c) \/ GetNonce(c) \/ AddSubaccount(c) \/ AddFails(c)
             \/ GetSubaccountId(c) \/ GetIcrcAccount(c)
      PROVE  TypedInv'
  <2>1. typed' = None
    BY <1>1 DEF GetRegisteredTokens, GetNonce, AddSubaccount, AddFails, GetSubaccountId,
                GetIcrcAccount
  <2> QED BY <2>1 DEF TypedInv
<1>2. ASSUME NEW a \in Meant, NEW t \in Slips(ToText(a)), ValidateIcrcAccount(a, t)
      PROVE  TypedInv'
  <2>1. typed' = [meant |-> a, text |-> t]
    BY <1>2 DEF ValidateIcrcAccount
  <2> QED BY <2>1 DEF TypedInv
<1>3. ASSUME NEW a \in ShownAccounts PROVE a \in Meant
  <2>1. PICK c \in Clients : \E k \in DOMAIN shown[c] : a = FromIndex(Canister, shown[c][k].index)
    BY DEF ShownAccounts
  <2>2. PICK e \in Entries(c) : a = FromIndex(Canister, e.index)
    BY <2>1 DEF Entries
  <2>3. e.index \in 0 .. MaxNonce /\ e.index < nonce /\ nonce \in 0 .. MaxNonce
    <3>1. \A k \in DOMAIN shown[c] : shown[c][k] \in Entry
      BY DEF ClientInv, TypeInv
    <3> QED BY <3>1 DEF ClientInv, TypeInv, ShownOK, EntryOK, Entries, Entry
  <2>4. e.index \in 0 .. MaxNonce - 1
    BY <2>3, ClientOK
  <2> QED BY <2>2, <2>4 DEF Meant
<1>4. ASSUME NEW a \in Printed PROVE a \in Meant /\ PrintedText(a) = ToText(a)
  BY DEF Meant, PrintedText
<1>5. ASSUME NEW key \in 1 .. MaxTxs, IndexTransaction(key)
      PROVE  TypedInv'
  BY <1>5 DEF IndexTransaction, TypedInv
<1>6. CASE UNCHANGED vars
  BY <1>6 DEF vars, TypedInv
<1> QED BY <1>1, <1>2, <1>3, <1>4, <1>5, <1>6 DEF Next

LEMMA Always_TypedInv == Spec => []TypedInv
<1>1. Init => TypedInv
  BY DEF Init, TypedInv
<1> QED BY <1>1, Always_ClientInv, Next_TypedInv, PTL DEF Spec

\* If the CRC tells every account from what a slip makes of it (CrcTells), then
\* validate_icrc_account accepts a text with one slip only when it says the same
\* account all the same, or has lost its checksum and its digits: the five-bit
\* groups lose nothing of the CRC, and no slip hides in the zeros filled in.
THEOREM SlipsCaught == ASSUME CrcTells PROVE Spec => []SlipsAreCaught
<1>1. TypedInv => SlipsAreCaught
  <2> SUFFICES ASSUME NEW a \in Meant, NEW t \in Slips(ToText(a)),
                      typed = [meant |-> a, text |-> t]
               PROVE  SlipsAreCaught
    BY DEF TypedInv, SlipsAreCaught
  <2>1. typed.meant = a /\ typed.text = t
    OBVIOUS
  <2> QED BY <2>1, OneSlip DEF SlipsAreCaught
<1> QED BY <1>1, Always_TypedInv, PTL

\* A text that nobody has touched reads back as its account if its digits make
\* whole bytes, whatever the account and however many digits.  (By AsShown it is
\* refused otherwise: ShownAddressesRead does not hold.)
THEOREM ReadsBack == ASSUME CrcTells PROVE Spec => []ReadsBackInBytes
<1>1. TypedInv => ReadsBackInBytes
  <2> SUFFICES ASSUME NEW a \in Meant, typed.meant = a, typed.text = ToText(a)
               PROVE  ReadsBackInBytes
    BY DEF TypedInv, ReadsBackInBytes, Untouched
  <2> QED BY AsShown DEF ReadsBackInBytes, Untouched
<1> QED BY <1>1, Always_TypedInv, PTL
===============================================================================
