------------------------------ MODULE RpcClient ------------------------------
(***************************************************************************)
(* The transaction pipeline of the RPC client (neo-go pkg/rpc/client):     *)
(* TransferNEP17 and SignAndPushInvocationTx build a transaction with      *)
(* CreateTxFromScript (getSigners, invokescript for the system fee,        *)
(* CalculateValidUntilBlock with its validators-count cache, AddNetworkFee *)
(* signer by signer) and push it with SignAndPushTx (the sender's witness, *)
(* then one per remaining signer, then sendrawtransaction).                *)
(* SignAndPushP2PNotaryRequest builds a fallback transaction for a user's  *)
(* main one (the Notary contract's hash, from the native-hash cache or     *)
(* getcontractstate, as first signer; the MaxNotValidBeforeDelta check;    *)
(* CalculateNotaryFee; AddNetworkFee with a dummy account for the Notary   *)
(* witness), signs it and submits the request.                             *)
(*                                                                         *)
(* Every RPC call is one step and may fail; the chain grows between any    *)
(* two of them.  Scripts, fees and hashes are abstracted away: what is     *)
(* kept is which call fails, which signers the transaction gets, which     *)
(* witnesses it carries and the height its ValidUntilBlock is computed     *)
(* from.  A SignerAccount's signer hash and wallet account are one         *)
(* account.  Client.Init, wallet.Account.SignTx and the node's acceptance  *)
(* are not part of this repository and follow their documentation.         *)
(***************************************************************************)
EXTENDS Integers, Sequences, SequencesExt, FiniteSetsExt, Subscription

CONSTANTS
  \* Account script hashes.
  Accounts,
  \* Accounts whose SignTx succeeds (unlocked, or contract-based without
  \* parameters).
  Signable,
  \* Contract-based accounts with a deployed contract: AddNetworkFee runs
  \* their `verify`.
  Deployed,
  \* Deployed accounts whose `verify` returns true.
  VerifyTrue,
  \* The lengths getnextblockvalidators may have as the chain grows.
  ValidatorsCounts,
  \* cacheTimeout of the validators-count cache, in blocks.
  CacheTimeout,
  \* Bound: cosigners a caller passes.
  MaxCosigners,
  \* Bound: the chain's block count.
  MaxHeight,
  \* Bound: calls of TransferNEP17 and SignAndPushInvocationTx.
  MaxCalls,
  \* The native Notary contract's hash; its `verify` fails for a fallback.
  NotaryHash,
  \* SignAndPushP2PNotaryRequest's dummyAccount: no deployed contract.
  DummyAccount,
  \* The Notary contract's MaxNotValidBeforeDelta.
  MaxNVBDelta

ASSUME
  /\ Signable \cup Deployed \subseteq Accounts
  /\ VerifyTrue \subseteq Deployed
  /\ ValidatorsCounts \subseteq Nat \ {0}
  /\ CacheTimeout \in Nat \ {0}
  /\ NotaryHash \notin Accounts /\ DummyAccount \notin Accounts
  /\ MaxNVBDelta \in Nat

\* Witness scopes a caller may ask for; None is getSigners' default.
Scopes == {"CalledByEntry", "Global"}
\* A SignerAccount.
Entries == [account : Accounts, scope : Scopes]
CosignerLists == UNION {[1..n -> Entries] : n \in 0..MaxCosigners}

VARIABLES
  initDone,  \* c.initDone
  chain,     \* per block count, the length of getnextblockvalidators
  cache,     \* c.cache.calculateValidUntilBlock
  notaryCached, \* c.cache.nativeHashes holds the Notary contract's hash
  pc,        \* where the current call is
  tx,        \* the transaction being built, with its inputs
  ef,        \* AddNetworkFee's ef # 0: the exec fee factor was fetched
  idx,       \* the signer the AddNetworkFee or SignAndPushTx loop is at
  accepted,  \* transactions the node accepted
  err,       \* the error the last call returned
  calls,     \* calls made
  req        \* the last call's transfers query: given and sent params

vars == <<initDone, chain, cache, notaryCached, pc, tx, ef, idx, accepted,
          err, calls, req>>

\* getblockcount.
BlockCount == Len(chain)

\* getnextblockvalidators' length at the current block count.
NextValidatorsCount == chain[BlockCount]

Returned == {"idle", "failed", "sent"}

\* No transfers query is the last call.
NoReq == [made |-> FALSE, given |-> {}, sent |-> FALSE, params |-> <<>>]

\* Accounts with a deployed contract: the callers' and the native Notary.
DeployedContracts == Deployed \cup {NotaryHash}

-----------------------------------------------------------------------------
(* getSigners *)

\* Mutant: a cosigner naming the sender is also appended (no continue).
GetSignersAppendingSender(sender, cosigners) ==
  LET st == FoldLeft(LAMBDA s, c :
              [s EXCEPT !.first = IF c.account = sender THEN c ELSE @,
                        !.rest = Append(@, c)],
              [first |-> [account |-> sender, scope |-> "None"], rest |-> <<>>],
              cosigners)
  IN <<st.first>> \o st.rest

\* The sender's signer starts with scope None and is replaced by every
\* cosigner that names it; the other cosigners follow it in order.
GetSigners(sender, cosigners) ==
  LET st == FoldLeft(LAMBDA s, c :
              IF c.account = sender THEN [s EXCEPT !.first = c]
                                    ELSE [s EXCEPT !.rest = Append(@, c)],
              [first |-> [account |-> sender, scope |-> "None"], rest |-> <<>>],
              cosigners)
  IN <<st.first>> \o st.rest

\* What getSigners' comment promises: the sender first, with the scope of
\* the last cosigner naming it (None without one), then the others.
RefSigners(sender, cosigners) ==
  LET named == {i \in DOMAIN cosigners : cosigners[i].account = sender}
      scope == IF named = {} THEN "None" ELSE cosigners[Max(named)].scope
  IN <<[account |-> sender, scope |-> scope]>>
       \o SelectSeq(cosigners, LAMBDA c : c.account # sender)

SignerAccounts(t) == {t.signers[i].account : i \in DOMAIN t.signers}

\* The signers' accounts in order: the witnesses a transaction needs.
SignerSeq(t) == [i \in DOMAIN t.signers |-> t.signers[i].account]

-----------------------------------------------------------------------------
(* Entry points *)

Fail(e) == pc' = "failed" /\ err' = e

\* CreateTxFromScript up to getSigners; sysAuto is sysFee < 0, signWith
\* the cosigners SignAndPushTx will be given.
CreateTx(sender, cosigners, sysAuto, signWith) ==
  LET signers == GetSigners(sender, cosigners) IN
  /\ tx' = [kind |-> "tx", sender |-> sender, input |-> cosigners,
            cos |-> signWith, signers |-> signers,
            accs |-> [i \in DOMAIN signers |-> signers[i].account],
            sysAuto |-> sysAuto, validFor |-> 0, read |-> 0, vub |-> 0,
            wit |-> <<>>]
  /\ pc' = IF sysAuto THEN "sysfee" ELSE "vub"
  /\ err' = "none"

\* CreateNEP17MultiTransferTx's cosigners: the sender with CalledByEntry,
\* then the caller's.
TransferCosigners(sender, cosigners) ==
  <<[account |-> sender, scope |-> "CalledByEntry"]>> \o cosigners

\* TransferNEP17: refused before Init; the transfer transaction is built
\* with invokescript's system fee and pushed with the caller's cosigners.
TransferNEP17(sender, cosigners) ==
  /\ pc \in Returned /\ calls < MaxCalls
  /\ calls' = calls + 1 /\ req' = NoReq
  /\ IF ~initDone
       THEN Fail("network not initialized") /\ UNCHANGED tx
       ELSE CreateTx(sender, TransferCosigners(sender, cosigners), TRUE,
                     cosigners)
  /\ UNCHANGED <<initDone, chain, cache, notaryCached, ef, idx, accepted>>

\* MultiTransferNEP17 takes TransferNEP17's path with several recipients,
\* which the model does not tell apart.
MultiTransferNEP17(sender, cosigners) == TransferNEP17(sender, cosigners)

\* SignAndPushInvocationTx, with the caller's system fee or invokescript's;
\* CreateTxFromScript asks for Init first.
SignAndPushInvocationTx(sender, cosigners, sysAuto) ==
  /\ pc \in Returned /\ calls < MaxCalls /\ initDone
  /\ calls' = calls + 1 /\ req' = NoReq
  /\ CreateTx(sender, cosigners, sysAuto, cosigners)
  /\ UNCHANGED <<initDone, chain, cache, notaryCached, ef, idx, accepted>>

\* Client.Init: the network magic is known.
ClientInit ==
  /\ ~initDone
  /\ initDone' = TRUE
  /\ UNCHANGED <<chain, cache, notaryCached, pc, tx, ef, idx, accepted, err, calls, req>>

-----------------------------------------------------------------------------
(* CreateTxFromScript *)

\* invokescript for the system fee: an RPC error or a state other than HALT
\* is an error.
InvokeScript ==
  /\ pc = "sysfee"
  /\ \/ Fail("can't add system fee")
     \/ pc' = "vub" /\ UNCHANGED err
  /\ UNCHANGED <<initDone, chain, cache, notaryCached, tx, ef, idx, accepted, calls, req>>

\* Mutant: the cached count is still used at its expiry height.
CalculateValidUntilBlockHitAtExpiry ==
  LET hit == cache.expiresAt >= BlockCount
      count == IF hit THEN cache.count ELSE NextValidatorsCount
  IN
  /\ pc = "vub"
  /\ \/ Fail("can't get block count") /\ UNCHANGED <<tx, ef, idx, cache>>
     \/ ~hit /\ Fail("can't get validators") /\ UNCHANGED <<tx, ef, idx, cache>>
     \/ /\ cache' = IF hit THEN cache
                    ELSE [count |-> NextValidatorsCount,
                          expiresAt |-> BlockCount + CacheTimeout]
        /\ pc' = "netfee" /\ UNCHANGED err
        /\ tx' = [tx EXCEPT !.read = BlockCount, !.vub = BlockCount + count + 1]
        /\ idx' = 1 /\ ef' = FALSE
  /\ UNCHANGED <<initDone, chain, notaryCached, accepted, calls, req>>

\* getblockcount, then the cached validators count while the cache has not
\* expired, or getnextblockvalidators and a cache refill for CacheTimeout
\* blocks; ValidUntilBlock is the block count plus the count plus one.
CalculateValidUntilBlock ==
  LET hit == cache.expiresAt > BlockCount
      count == IF hit THEN cache.count ELSE NextValidatorsCount
  IN
  /\ pc = "vub"
  /\ \/ Fail("can't get block count") /\ UNCHANGED <<tx, ef, idx, cache>>
     \/ ~hit /\ Fail("can't get validators") /\ UNCHANGED <<tx, ef, idx, cache>>
     \/ /\ cache' = IF hit THEN cache
                    ELSE [count |-> NextValidatorsCount,
                          expiresAt |-> BlockCount + CacheTimeout]
        /\ pc' = "netfee" /\ UNCHANGED err
        /\ tx' = [tx EXCEPT !.read = BlockCount, !.vub = BlockCount + count + 1]
        /\ idx' = 1 /\ ef' = FALSE
  /\ UNCHANGED <<initDone, chain, notaryCached, accepted, calls, req>>

\* Mutant: a signer without a deployed contract does not advance the loop
\* once the exec fee factor is known.
NetworkFeeOfStuck ==
  LET a == tx.signers[idx].account IN
  /\ pc = "netfee" /\ idx <= Len(tx.signers)
  /\ IF tx.accs[idx] \in DeployedContracts
       THEN \/ Fail("failed to invoke verify") /\ UNCHANGED <<ef, idx>>
            \/ a \in VerifyTrue /\ idx' = idx + 1 /\ UNCHANGED <<pc, err, ef>>
            \/ a \notin VerifyTrue /\ Fail("verify returned false")
               /\ UNCHANGED <<ef, idx>>
       ELSE \/ ~ef /\ Fail("can't get ExecFeeFactor") /\ UNCHANGED <<ef, idx>>
            \/ ~ef /\ ef' = TRUE /\ idx' = idx + 1 /\ UNCHANGED <<pc, err>>
            \/ ef /\ UNCHANGED <<pc, err, ef, idx>>
  /\ UNCHANGED <<initDone, chain, cache, notaryCached, tx, accepted, calls, req>>

\* One turn of AddNetworkFee's loop (signers and accounts always have the
\* same length here): for an account with a deployed contract the signer's
\* `verify` is invoked, and an RPC error, a FAULT, a bad stack or false is
\* an error; otherwise the exec fee factor is fetched once, at the first
\* such signer.
NetworkFeeOf ==
  LET a == tx.signers[idx].account IN
  /\ pc = "netfee" /\ idx <= Len(tx.signers)
  /\ IF tx.accs[idx] \in DeployedContracts
       THEN \/ Fail("failed to invoke verify") /\ UNCHANGED <<ef, idx>>
            \/ /\ a \in VerifyTrue
               /\ idx' = idx + 1 /\ UNCHANGED <<pc, err, ef>>
            \/ a \notin VerifyTrue /\ Fail("verify returned false")
               /\ UNCHANGED <<ef, idx>>
       ELSE \/ ~ef /\ Fail("can't get ExecFeeFactor") /\ UNCHANGED <<ef, idx>>
            \/ /\ ef' = TRUE /\ idx' = idx + 1
               /\ UNCHANGED <<pc, err>>
  /\ UNCHANGED <<initDone, chain, cache, notaryCached, tx, accepted, calls, req>>

\* AddNetworkFee's getfeeperbyte, after the loop.
FeePerByte ==
  /\ pc = "netfee" /\ idx > Len(tx.signers)
  /\ \/ Fail("can't get FeePerByte")
     \/ pc' = (IF tx.kind = "notary" THEN "nsign" ELSE "sign")
        /\ UNCHANGED err
  /\ UNCHANGED <<initDone, chain, cache, notaryCached, tx, ef, idx, accepted, calls, req>>

-----------------------------------------------------------------------------
(* SignAndPushTx *)

\* Mutant: the cosigning loop starts at the sender's signer.
SignSenderFromFirst ==
  /\ pc = "sign"
  /\ IF tx.sender \in Signable
       THEN /\ tx' = [tx EXCEPT !.wit = Append(@, tx.sender)]
            /\ pc' = "cosign" /\ idx' = 1 /\ UNCHANGED err
       ELSE Fail("failed to sign tx") /\ UNCHANGED <<tx, idx>>
  /\ UNCHANGED <<initDone, chain, cache, notaryCached, ef, accepted, calls, req>>

\* acc.SignTx: the sender's witness; the loop then covers tx.Signers[1:].
SignSender ==
  /\ pc = "sign"
  /\ IF tx.sender \in Signable
       THEN /\ tx' = [tx EXCEPT !.wit = Append(@, tx.sender)]
            /\ pc' = "cosign" /\ idx' = 2 /\ UNCHANGED err
       ELSE Fail("failed to sign tx") /\ UNCHANGED <<tx, idx>>
  /\ UNCHANGED <<initDone, chain, cache, notaryCached, ef, accepted, calls, req>>

\* One signer after the first: the first of the given cosigners naming it
\* signs, and a signer no cosigner names, or whose account cannot sign, is
\* an error.
SignCosigner ==
  LET a == tx.signers[idx].account
      named == {j \in DOMAIN tx.cos : tx.cos[j].account = a}
  IN
  /\ pc = "cosign" /\ idx <= Len(tx.signers)
  /\ CASE named = {} ->
            Fail("account wasn't provided") /\ UNCHANGED <<tx, idx>>
       [] tx.cos[Min(named)].account \notin Signable ->
            Fail("failed to add witness") /\ UNCHANGED <<tx, idx>>
       [] OTHER ->
            /\ tx' = [tx EXCEPT !.wit = Append(@, a)]
            /\ idx' = idx + 1 /\ UNCHANGED <<pc, err>>
  /\ UNCHANGED <<initDone, chain, cache, notaryCached, ef, accepted, calls, req>>

\* Mutant: sendrawtransaction before the last signer's witness.
SendRawTransactionEarly ==
  /\ pc = "cosign" /\ idx >= Len(tx.signers)
  /\ \/ Fail("failed to send tx") /\ UNCHANGED accepted
     \/ /\ tx.vub > BlockCount
        /\ accepted' = accepted + 1
        /\ pc' = "sent" /\ UNCHANGED err
  /\ UNCHANGED <<initDone, chain, cache, notaryCached, tx, ef, idx, calls, req>>

\* sendrawtransaction: an RPC error, the node's refusal included, is an
\* error; the node takes a transaction whose ValidUntilBlock is above its
\* height.  The node returns the hash that was sent.
SendRawTransaction ==
  /\ pc = "cosign" /\ idx > Len(tx.signers)
  /\ \/ Fail("failed to send tx") /\ UNCHANGED accepted
     \/ /\ tx.vub > BlockCount
        /\ accepted' = accepted + 1
        /\ pc' = "sent" /\ UNCHANGED err
  /\ UNCHANGED <<initDone, chain, cache, notaryCached, tx, ef, idx, calls, req>>

-----------------------------------------------------------------------------
(* GetNEP17Transfers and GetNEP11Transfers *)

\* The optional parameters, in their JSON-RPC positions after the address.
TransferParams == <<"start", "stop", "limit", "page">>

\* Mutant: a page without a limit is not refused.
PackTransfersParamsPageAlone(given) ==
  IF "start" \in given
    THEN IF "stop" \in given
           THEN IF "limit" \in given
                  THEN [ok |-> TRUE,
                        params |-> <<"address", "start", "stop", "limit">>
                                   \o (IF "page" \in given THEN <<"page">> ELSE <<>>)]
                  ELSE [ok |-> TRUE, params |-> <<"address", "start", "stop">>]
           ELSE IF given \cap {"limit", "page"} # {}
                  THEN [ok |-> FALSE, params |-> <<>>]
                  ELSE [ok |-> TRUE, params |-> <<"address", "start">>]
    ELSE IF given \cap {"stop", "limit", "page"} # {}
           THEN [ok |-> FALSE, params |-> <<>>]
           ELSE [ok |-> TRUE, params |-> <<"address">>]

\* packTransfersParams: each given parameter is appended after the ones
\* before it, and one given without all of those is "bad parameters".
PackTransfersParams(given) ==
  IF "start" \in given
    THEN IF "stop" \in given
           THEN IF "limit" \in given
                  THEN [ok |-> TRUE,
                        params |-> <<"address", "start", "stop", "limit">>
                                   \o (IF "page" \in given THEN <<"page">> ELSE <<>>)]
                  ELSE IF "page" \in given
                         THEN [ok |-> FALSE, params |-> <<>>]
                         ELSE [ok |-> TRUE, params |-> <<"address", "start", "stop">>]
           ELSE IF given \cap {"limit", "page"} # {}
                  THEN [ok |-> FALSE, params |-> <<>>]
                  ELSE [ok |-> TRUE, params |-> <<"address", "start">>]
    ELSE IF given \cap {"stop", "limit", "page"} # {}
           THEN [ok |-> FALSE, params |-> <<>>]
           ELSE [ok |-> TRUE, params |-> <<"address">>]

\* GetNEP17Transfers or GetNEP11Transfers with the given optional
\* parameters: bad parameters are refused before any request; otherwise
\* the request is made and may fail.
GetTransfers(given) ==
  LET r == PackTransfersParams(given) IN
  /\ pc \in Returned /\ calls < MaxCalls
  /\ calls' = calls + 1
  /\ req' = [made |-> TRUE, given |-> given, sent |-> r.ok,
            params |-> r.params]
  /\ IF r.ok THEN \/ Fail("request failed")
                  \/ pc' = "idle" /\ err' = "none"
            ELSE Fail("bad parameters")
  /\ UNCHANGED <<initDone, chain, cache, notaryCached, tx, ef, idx, accepted>>

-----------------------------------------------------------------------------
(* SignAndPushP2PNotaryRequest *)

\* Refused before Init; validFor is fallbackValidFor, sysAuto a negative
\* fallbackSysFee.  The main transaction is the caller's and is not
\* modelled.
SignAndPushP2PNotaryRequest(sender, sysAuto, validFor) ==
  /\ pc \in Returned /\ calls < MaxCalls
  /\ calls' = calls + 1 /\ req' = NoReq
  /\ IF ~initDone
       THEN Fail("network not initialized") /\ UNCHANGED tx
       ELSE /\ tx' = [kind |-> "notary", sender |-> sender, input |-> <<>>,
                      cos |-> <<>>, signers |-> <<>>, accs |-> <<>>,
                      sysAuto |-> sysAuto, validFor |-> validFor, read |-> 0,
                      vub |-> 0, wit |-> <<>>]
            /\ pc' = "nhash" /\ err' = "none"
  /\ UNCHANGED <<initDone, chain, cache, notaryCached, ef, idx, accepted>>

\* Mutant: the fallback's accounts are its signers' own.
NotaryAccountsOfSigners(sender) == <<NotaryHash, sender>>

\* The accounts AddNetworkFee prices the fallback's witnesses with: a dummy
\* account without a deployed contract for the Notary signer, so that its
\* `verify` is not called, then the sender's.
NotaryAccounts(sender) == <<DummyAccount, sender>>

\* GetNativeContractHash(Notary): the cached hash, or getcontractstate and
\* a cache store; then the fallback's signers, Notary first, both with
\* scope None.
GetNativeContractHash ==
  /\ pc = "nhash"
  /\ \/ ~notaryCached /\ Fail("failed to get native Notary hash")
        /\ UNCHANGED <<tx, notaryCached>>
     \/ /\ notaryCached' = TRUE
        /\ tx' = [tx EXCEPT
                    !.signers = <<[account |-> NotaryHash, scope |-> "None"],
                                  [account |-> tx.sender, scope |-> "None"]>>,
                    !.accs = NotaryAccounts(tx.sender)]
        /\ pc' = IF tx.sysAuto THEN "nsysfee" ELSE "nvbd"
        /\ UNCHANGED err
  /\ UNCHANGED <<initDone, chain, cache, ef, idx, accepted, calls, req>>

\* A negative fallbackSysFee: invokescript of the fallback script with the
\* fallback's signers; an RPC error or a state other than HALT is an error.
InvokeFallbackScript ==
  /\ pc = "nsysfee"
  /\ \/ Fail("can't add system fee to fallback transaction")
     \/ pc' = "nvbd" /\ UNCHANGED err
  /\ UNCHANGED <<initDone, chain, cache, notaryCached, tx, ef, idx,
                 accepted, calls, req>>

\* GetMaxNotValidBeforeDelta, and a fallback valid for more blocks than it
\* allows is refused.
CheckValidFor ==
  /\ pc = "nvbd"
  /\ \/ Fail("failed to get MaxNotValidBeforeDelta")
     \/ tx.validFor > MaxNVBDelta /\ Fail("fallback valid for too long")
     \/ tx.validFor <= MaxNVBDelta /\ pc' = "nfee" /\ UNCHANGED err
  /\ UNCHANGED <<initDone, chain, cache, notaryCached, tx, ef, idx,
                 accepted, calls, req>>

\* CalculateNotaryFee(0): the exec fee factor and the fee per byte, then
\* AddNetworkFee starts its loop over the fallback's signers.
CalculateNotaryFee ==
  /\ pc = "nfee"
  /\ \/ \E e \in {"failed to get BaseExecFeeFactor", "failed to get FeePerByte"} :
          Fail(e) /\ UNCHANGED <<ef, idx>>
     \/ pc' = "netfee" /\ idx' = 1 /\ ef' = FALSE /\ UNCHANGED err
  /\ UNCHANGED <<initDone, chain, cache, notaryCached, tx, accepted, calls, req>>

\* The fallback's witnesses are set to the Notary's dummy one, then
\* acc.SignTx appends the sender's.
SignFallback ==
  /\ pc = "nsign"
  /\ IF tx.sender \in Signable
       THEN /\ tx' = [tx EXCEPT !.wit = Append(<<NotaryHash>>, tx.sender)]
            /\ pc' = "nsubmit" /\ UNCHANGED err
       ELSE /\ tx' = [tx EXCEPT !.wit = <<NotaryHash>>]
            /\ Fail("failed to sign fallback tx")
  /\ UNCHANGED <<initDone, chain, cache, notaryCached, ef, idx, accepted,
                 calls, req>>

\* SubmitP2PNotaryRequest: an RPC error is an error; the node returns the
\* fallback's hash.
SubmitP2PNotaryRequest ==
  /\ pc = "nsubmit"
  /\ \/ Fail("failed to submit notary request")
     \/ pc' = "sent" /\ UNCHANGED err
  /\ UNCHANGED <<initDone, chain, cache, notaryCached, tx, ef, idx,
                 accepted, calls, req>>

-----------------------------------------------------------------------------
(* The chain *)

\* A block is added; the next block's validators may differ.
NewBlock ==
  /\ BlockCount < MaxHeight
  /\ \E n \in ValidatorsCounts : chain' = Append(chain, n)
  /\ UNCHANGED <<initDone, cache, notaryCached, pc, tx, ef, idx, accepted, err, calls, req>>

-----------------------------------------------------------------------------

Init ==
  /\ initDone = FALSE
  /\ chain \in {<<n>> : n \in ValidatorsCounts}
  /\ cache = [count |-> 0, expiresAt |-> 0]
  /\ pc = "idle"
  /\ tx = [kind |-> "none", sender |-> "none", input |-> <<>>, cos |-> <<>>,
           signers |-> <<>>, accs |-> <<>>, sysAuto |-> FALSE, validFor |-> 0,
           read |-> 0, vub |-> 0, wit |-> <<>>]
  /\ notaryCached = FALSE
  /\ ef = FALSE
  /\ idx = 1
  /\ accepted = 0
  /\ err = "none"
  /\ calls = 0
  /\ req = NoReq

\* The steps of a call in progress.
CallStep ==
  \/ InvokeScript
  \/ CalculateValidUntilBlock
  \/ NetworkFeeOf
  \/ FeePerByte
  \/ SignSender
  \/ SignCosigner
  \/ SendRawTransaction
  \/ GetNativeContractHash
  \/ InvokeFallbackScript
  \/ CheckValidFor
  \/ CalculateNotaryFee
  \/ SignFallback
  \/ SubmitP2PNotaryRequest

Next ==
  \/ ClientInit
  \/ \E s \in Accounts, cs \in CosignerLists :
       \/ TransferNEP17(s, cs)
       \/ MultiTransferNEP17(s, cs)
       \/ \E auto \in BOOLEAN : SignAndPushInvocationTx(s, cs, auto)
  \/ \E given \in SUBSET Range(TransferParams) : GetTransfers(given)
  \/ \E s \in Accounts, auto \in BOOLEAN, v \in 0..MaxNVBDelta + 1 :
       SignAndPushP2PNotaryRequest(s, auto, v)
  \/ CallStep
  \/ NewBlock

\* A call runs on its caller's goroutine and each RPC returns (the HTTP
\* client has a timeout): a call in progress keeps going.
Spec == Init /\ [][Next]_vars /\ WF_vars(CallStep)

-----------------------------------------------------------------------------
(* Properties *)

\* getSigners as its comment states it: the transaction's signers are the
\* sender first, with the scope of the last cosigner naming it, then every
\* other cosigner in the caller's order.
GetSignersCorrect ==
  tx.kind = "tx" => tx.signers = RefSigners(tx.sender, tx.input)

\* Every transaction SignAndPushTx pushes, and every fallback transaction
\* of a submitted notary request, carries one witness per signer in the
\* signers' order: the sender's, then the loop over tx.Signers[1:] against
\* the given cosigners; or the Notary's dummy witness, then the sender's.
PushedTxsWitnessed ==
  [][pc' = "sent" => tx.wit = SignerSeq(tx)]_vars

\* SignAndPushTx fails for a witness only when some signer cannot sign:
\* every non-sender signer is found among the cosigners it is given.
WitnessErrorsJustified ==
  err \in {"account wasn't provided", "failed to add witness",
           "failed to sign tx", "failed to sign fallback tx"}
    => \E a \in SignerAccounts(tx) : a \notin Signable

\* Every pushed transaction's ValidUntilBlock is the block count it was
\* computed from plus one plus the validators count at some block count
\* fewer than cacheTimeout blocks before: the cache may be stale, never by
\* cacheTimeout blocks or more, and never holds a count nobody fetched.
ValidUntilBlockFresh ==
  [][pc' = "sent" /\ tx.kind = "tx" =>
       \E h \in DOMAIN chain :
         /\ tx.read - CacheTimeout < h /\ h <= tx.read
         /\ tx.vub = tx.read + chain[h] + 1]_vars

\* AddNetworkFee invokes `verify` only for a signer priced with a deployed
\* contract's account, and never for a notary fallback's Notary signer,
\* whose `verify` would fail: SignAndPushP2PNotaryRequest prices it with
\* its dummyAccount.
VerifyNeverOfNotary ==
  err \in {"failed to invoke verify", "verify returned false"}
    => tx.signers[idx].account # NotaryHash

\* The positional parameters of getnep17transfers and getnep11transfers:
\* a request is sent exactly when the given optional parameters are the
\* first few of start, stop, limit, page, and it carries the address and
\* then exactly those, in that order.
TransfersParamsPositional ==
  LET k == Cardinality(req.given)
      prefix == SubSeq(TransferParams, 1, k)
  IN req.made =>
       /\ req.sent <=> req.given = Range(prefix)
       /\ req.sent => req.params = <<"address">> \o prefix

\* The event the node publishes for what a call sent: transaction_added
\* for a pushed transaction, notary_request_event for a notary request.
\* The request's main transaction is the caller's and is not modelled.
SentEvent(t) ==
  IF t.kind = "tx"
    THEN [event |-> "transaction_added", payload |-> [signers |-> SignerSeq(t)]]
    ELSE [event |-> "notary_request_event",
          payload |-> [fallback |-> SignerSeq(t), main |-> <<>>]]

\* Optional filter fields: nil, or one account.
OptAccounts == {{}} \cup {{a} : a \in Accounts}

\* A websocket subscriber filtering the event of what the client sent by
\* sender and signer receives it exactly when the client sent it from that
\* sender and, for a transaction, with that signer.  The client puts the
\* sender first among a transaction's signers and second, after the
\* Notary, among a fallback's; feed.Matches reads tx.Sender() and
\* FallbackTransaction.Signers[1]: the two conventions must agree.
SubscribersNotified ==
  [][pc' = "sent" =>
       LET ev == SentEvent(tx) IN
       \A s, c \in OptAccounts :
         Matches([event |-> ev.event,
                  filter |-> {[sender |-> s, signer |-> c]}], ev)
           <=> /\ OptMatches(s, tx.sender)
               /\ c = {} \/ (tx.kind = "tx" /\ c \subseteq SignerAccounts(tx))]_vars

\* Every call returns: no step of a call in progress stops short of an
\* error or the sent transaction.
CallsReturn == (pc \notin Returned) ~> (pc \in Returned)

=============================================================================
