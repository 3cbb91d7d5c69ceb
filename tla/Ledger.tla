------------------------------- MODULE Ledger -------------------------------
(***************************************************************************)
(* What the GAS token promises its holders, with no storage records in it: *)
(* a balance per account and a supply.  Genesis gives the initial supply   *)
(* to the standby validators; a transfer moves a positive amount its       *)
(* sender holds; a persisted block charges every sender the fees of its   *)
(* transactions, pays the network fees to one of the block validators and *)
(* takes the system fees out of the supply.  GasToken refines it.          *)
(***************************************************************************)
EXTENDS Integers, Sequences, SequencesExt

CONSTANTS Accounts, Validators, StandbyHash, InitialSupply,
  \* The blocks (sequences of [sender, sysFee, netFee]) the chain may persist.
  BlockTxs

VARIABLES bal, supply, height

lvars == <<bal, supply, height>>

\* What a block costs an account: the fees of the transactions it sent.
Charged(txs, a) ==
  FoldLeft(LAMBDA s, tx : s + IF tx.sender = a THEN tx.sysFee + tx.netFee
                                               ELSE 0, 0, txs)

FeeSum(txs, f) == FoldLeft(LAMBDA s, tx : s + tx[f], 0, txs)

LInit == bal = [a \in Accounts |-> 0] /\ supply = 0 /\ height = 0

Genesis ==
  /\ height = 0
  /\ bal' = [bal EXCEPT ![StandbyHash] = InitialSupply]
  /\ supply' = InitialSupply
  /\ height' = 1

Move(from, to, amount) ==
  /\ height > 0
  /\ from # to
  /\ bal' = [bal EXCEPT ![from] = @ - amount, ![to] = @ + amount]
  /\ UNCHANGED <<supply, height>>

\* A block its senders cannot pay for is not persisted.
Persist(txs, p) ==
  /\ height > 0
  /\ height' = height + 1
  /\ supply' = supply - FeeSum(txs, "sysFee")
  /\ \A a \in Accounts : Charged(txs, a) <= bal[a]
  /\ bal' = [a \in Accounts |->
               bal[a] - Charged(txs, a)
                 + IF a = p THEN FeeSum(txs, "netFee") ELSE 0]

LNext ==
  \/ Genesis
  \/ \E from, to \in Accounts : \E amount \in 1..bal[from] : Move(from, to, amount)
  \/ \E txs \in BlockTxs, p \in Range(Validators) : Persist(txs, p)

LSpec == LInit /\ [][LNext]_lvars
=============================================================================
