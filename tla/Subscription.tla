----------------------------- MODULE Subscription -----------------------------
(***************************************************************************)
(* The RPC server's event filters (neo-go pkg/rpc/server/subscription.go): *)
(* feed.Matches decides whether a websocket subscriber's feed receives a   *)
(* notification.  A notification is a record of its event and an          *)
(* abstracted payload:                                                      *)
(*                                                                         *)
(*   block_added                  [primary]                                *)
(*   transaction_added            [signers]  (accounts, in order)          *)
(*   notification_from_execution  [contract, name]                         *)
(*   transaction_executed         [state]                                  *)
(*   notary_request_event         [fallback, main]  (each one's signers)   *)
(*                                                                         *)
(* A feed is [event, filter], where filter is {} for a nil filter or the   *)
(* one-element set of its filter record.  An optional filter field (a Go   *)
(* pointer) is likewise {} for nil or {value}.                             *)
(***************************************************************************)

\* filt.X == nil || v == *filt.X
OptMatches(opt, v) == opt = {} \/ v \in opt

\* The signer filter: nil, or the loop finding *filt.Signer among the
\* signers.
SignerOK(opt, signers) ==
  opt = {} \/ \E i \in DOMAIN signers : signers[i] \in opt

\* Mutant: the notary request's sender read from the fallback's first
\* signer (the Notary contract) instead of its second.
MatchesFallbackFirst(f, r) ==
  /\ r.event = f.event
  /\ f.filter # {} =>
       LET filt == CHOOSE x \in f.filter : TRUE
           p == r.payload
       IN CASE f.event = "block_added" -> p.primary = filt.primary
            [] f.event = "transaction_added" ->
                 OptMatches(filt.sender, p.signers[1])
                   /\ SignerOK(filt.signer, p.signers)
            [] f.event = "notification_from_execution" ->
                 OptMatches(filt.contract, p.contract)
                   /\ OptMatches(filt.name, p.name)
            [] f.event = "transaction_executed" -> p.state = filt.state
            [] f.event = "notary_request_event" ->
                 OptMatches(filt.sender, p.fallback[1])
                   /\ SignerOK(filt.signer, p.main)
            [] OTHER -> FALSE

\* feed.Matches: another event never matches; a feed without a filter
\* takes every notification of its event; otherwise the filter of the
\* event's kind decides.  A transaction's sender is its first signer
\* (tx.Sender()); a notary request's is its fallback's second signer.
\* An event the switch does not list matches no filtered feed.
Matches(f, r) ==
  /\ r.event = f.event
  /\ f.filter # {} =>
       LET filt == CHOOSE x \in f.filter : TRUE
           p == r.payload
       IN CASE f.event = "block_added" -> p.primary = filt.primary
            [] f.event = "transaction_added" ->
                 OptMatches(filt.sender, p.signers[1])
                   /\ SignerOK(filt.signer, p.signers)
            [] f.event = "notification_from_execution" ->
                 OptMatches(filt.contract, p.contract)
                   /\ OptMatches(filt.name, p.name)
            [] f.event = "transaction_executed" -> p.state = filt.state
            [] f.event = "notary_request_event" ->
                 OptMatches(filt.sender, p.fallback[2])
                   /\ SignerOK(filt.signer, p.main)
            [] OTHER -> FALSE

=============================================================================
