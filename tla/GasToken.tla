------------------------------ MODULE GasToken ------------------------------
(***************************************************************************)
(* The GAS native token (neo-go pkg/core/native/native_gas.go) with the    *)
(* NEP-17 operations around it.                                            *)
(*                                                                         *)
(* increaseBalance is the step every balance change goes through: a       *)
(* transfer debits and credits with it, mint and burn add tokens with it.  *)
(* Initialize mints the initial supply to the standby validators, and      *)
(* OnPersist burns every transaction's fees from its sender and mints the  *)
(* block's network fees to the primary validator.                          *)
(*                                                                         *)
(* A balance record is a storage item: an account without one has balance *)
(* 0, and a record that would hold 0 is deleted.  The NEP-17 transfer and  *)
(* addTokens are not part of this repository and follow the token          *)
(* contract's specification.                                               *)
(***************************************************************************)
EXTENDS Integers, Sequences, SequencesExt, Functions, Multisig

CONSTANTS
  \* Account script hashes.
  Accounts,
  \* GetNextBlockValidatorsInternal, as a sequence of accounts.
  Validators,
  \* The standby validators' multisig hash.
  StandbyHash,
  \* initialSupply of newGAS.
  InitialSupply,
  \* Amounts a transfer may ask for (negative ones included).
  Amounts,
  \* System and network fees a transaction may carry.
  Fees,
  \* Bound: transactions in a block.
  MaxTxs,
  \* Bound: blocks persisted, the genesis block included.
  MaxBlocks,
  \* An absent storage item (si == nil).
  Nil

ASSUME
  /\ Validators \in Seq(Accounts) /\ Validators # <<>>
  /\ StandbyHash \in Accounts
  /\ InitialSupply \in Nat \ {0}
  /\ Fees \subseteq Nat

Txs == [sender : Accounts, sysFee : Fees, netFee : Fees]
Blocks == UNION {[1..n -> Txs] : n \in 0..MaxTxs}

VARIABLES
  balances,     \* the balance records: a function on accounts that have one
  totalSupply,  \* the stored total supply
  blocks,       \* blocks persisted
  sysBurned,    \* system fees of every persisted transaction (history)
  lastOp        \* the last operation and its outcome (history)

vars == <<balances, totalSupply, blocks, sysBurned, lastOp>>

-----------------------------------------------------------------------------
(* Storage items *)

\* GetStorageItem of an account's key.
Stored(b, acc) == IF acc \in DOMAIN b THEN b[acc] ELSE Nil

\* The balance a storage item decodes to (an empty item is zero).
ItemBalance(si) == IF si = Nil THEN 0 ELSE si

\* BalanceOf: 0 for an account without a record.
BalanceOf(b, acc) == ItemBalance(Stored(b, acc))

\* PutStorageItem, or DeleteStorageItem for a nil item.
PutItem(b, acc, si) ==
  IF si = Nil THEN Restrict(b, DOMAIN b \ {acc})
              ELSE (acc :> si) @@ b

SumBalances(b) == FoldFunction(LAMBDA x, y : x + y, 0, b)

-----------------------------------------------------------------------------
(* increaseBalance *)

\* Mutant: a record that drops to zero is kept.
IncreaseBalanceKeepingZero(si, amount, checkBal) ==
  LET bal == ItemBalance(si) IN
  CASE amount = 0 ->
         [err |-> checkBal # Nil /\ bal < checkBal, si |-> si]
    [] amount < 0 /\ bal < -amount ->
         [err |-> TRUE, si |-> si]
    [] OTHER ->
         [err |-> FALSE, si |-> bal + amount]

\* Mutant: a zero amount succeeds whatever the requested balance.
IncreaseBalanceNoCheckBal(si, amount, checkBal) ==
  LET bal == ItemBalance(si) IN
  CASE amount < 0 /\ bal < -amount ->
         [err |-> TRUE, si |-> si]
    [] amount = 0 ->
         [err |-> FALSE, si |-> si]
    [] OTHER ->
         [err |-> FALSE, si |-> IF bal + amount # 0 THEN bal + amount ELSE Nil]

\* A zero amount only checks the balance against checkBal (a self-transfer
\* may ask for more than the balance); a debit larger than the balance is
\* insufficient funds; a balance that reaches zero deletes the record.
IncreaseBalance(si, amount, checkBal) ==
  LET bal == ItemBalance(si) IN
  CASE amount = 0 ->
         [err |-> checkBal # Nil /\ bal < checkBal, si |-> si]
    [] amount < 0 /\ bal < -amount ->
         [err |-> TRUE, si |-> si]
    [] OTHER ->
         [err |-> FALSE, si |-> IF bal + amount # 0 THEN bal + amount ELSE Nil]

-----------------------------------------------------------------------------
(* NEP-17 around increaseBalance *)

\* addTokens: a zero amount does nothing; otherwise the record is updated
\* through increaseBalance (an error panics).
AddTokens(b, acc, amount) ==
  IF amount = 0 THEN [err |-> FALSE, b |-> b]
  ELSE LET r == IncreaseBalance(Stored(b, acc), amount, Nil) IN
       [err |-> r.err, b |-> IF r.err THEN b ELSE PutItem(b, acc, r.si)]

\* Transfer(from, to, amount): false for a negative amount; a self-transfer
\* or a zero amount changes nothing but checks the balance; otherwise the
\* sender is debited and the recipient credited, or nothing changes.
Transfer(from, to, amount) ==
  LET isEmpty == from = to \/ amount = 0
      debit == IncreaseBalance(Stored(balances, from),
                               IF isEmpty THEN 0 ELSE -amount, amount)
      afterDebit == PutItem(balances, from, debit.si)
      credit == IncreaseBalance(Stored(afterDebit, to), amount, Nil)
      ok == amount >= 0 /\ ~debit.err
  IN
  /\ blocks > 0
  /\ balances' = IF ok /\ ~isEmpty THEN PutItem(afterDebit, to, credit.si)
                                   ELSE balances
  /\ lastOp' = [op |-> "transfer", from |-> from, to |-> to,
                amount |-> amount, ok |-> ok]
  /\ UNCHANGED <<totalSupply, blocks, sysBurned>>

-----------------------------------------------------------------------------
(* The native contract's hooks *)

\* getStandbyValidatorsHash: the hash of the default (honest-majority)
\* multisig of the standby validators; StandbyHash is its value for the
\* chain's configuration.
GetStandbyValidatorsHash(validators) ==
  MultisigHash(GetDefaultHonestNodeCount(Len(validators)), Range(validators))

\* Initialize, with the genesis block: refused once a supply exists; mints
\* initialSupply to the standby validators.
Initialize ==
  /\ totalSupply = 0
  /\ blocks = 0
  /\ balances' = AddTokens(balances, StandbyHash, InitialSupply).b
  /\ totalSupply' = InitialSupply
  /\ blocks' = 1
  /\ lastOp' = [op |-> "initialize"]
  /\ UNCHANGED sysBurned

\* The burns of OnPersist, one per transaction in block order.
BurnFees(b, txs) ==
  FoldLeft(LAMBDA st, tx :
             IF st.err THEN st
             ELSE AddTokens(st.b, tx.sender, -(tx.sysFee + tx.netFee)),
           [err |-> FALSE, b |-> b], txs)

\* Mutant: netFee keeps only the last transaction's network fee.
NetFeeLastOnly(txs) == IF txs = <<>> THEN 0 ELSE txs[Len(txs)].netFee

\* netFee: the sum of the block's network fees.
NetFee(txs) == FoldLeft(LAMBDA s, tx : s + tx.netFee, 0, txs)

\* Mutant: the network fees minted to the standby validators' multisig
\* (the account Initialize mints to) instead of the block's primary.
PrimaryStandby(primaryIndex) == StandbyHash

\* validators[ic.Block.PrimaryIndex].GetScriptHash()
Primary(primaryIndex) == Validators[primaryIndex + 1]

\* OnPersist: nothing for an empty block; otherwise burn each transaction's
\* system and network fee from its sender and mint the summed network fee
\* to the block's primary validator.  The ledger admits only blocks whose
\* senders can pay their fees.
OnPersist(txs, primaryIndex) ==
  LET burnt == BurnFees(balances, txs)
      primary == Primary(primaryIndex)
      minted == AddTokens(burnt.b, primary, NetFee(txs))
      sys == FoldLeft(LAMBDA s, tx : s + tx.sysFee, 0, txs)
      burned == FoldLeft(LAMBDA s, tx : s + tx.sysFee + tx.netFee, 0, txs)
  IN
  /\ 0 < blocks /\ blocks < MaxBlocks
  /\ ~burnt.err
  /\ blocks' = blocks + 1
  /\ IF txs = <<>>
       THEN UNCHANGED <<balances, totalSupply, sysBurned>>
       ELSE /\ balances' = minted.b
            /\ totalSupply' = totalSupply - burned + NetFee(txs)
            /\ sysBurned' = sysBurned + sys
  /\ lastOp' = [op |-> "persist"]

-----------------------------------------------------------------------------

Init ==
  /\ balances = <<>>
  /\ totalSupply = 0
  /\ blocks = 0
  /\ sysBurned = 0
  /\ lastOp = [op |-> "none"]

Next ==
  \/ Initialize
  \/ \E from, to \in Accounts, amount \in Amounts : Transfer(from, to, amount)
  \/ \E txs \in Blocks, i \in 0..Len(Validators) - 1 : OnPersist(txs, i)

Spec == Init /\ [][Next]_vars

-----------------------------------------------------------------------------
(* Properties *)

\* Every balance record holds a positive balance.
TypeOK ==
  /\ DOMAIN balances \subseteq Accounts
  /\ \A a \in DOMAIN balances : balances[a] \in Nat \ {0}
  /\ totalSupply \in Int
  /\ blocks \in 0..MaxBlocks
  /\ sysBurned \in Nat

\* The NEP-17 transfer laws, on increaseBalance's checks: a transfer
\* succeeds exactly when its amount is between 0 and the sender's balance
\* (a self-transfer included); a failed transfer changes no balance; a
\* successful one changes the sum of balances by nothing.
TransferLaws ==
  [][lastOp'.op = "transfer" =>
       LET t == lastOp' IN
       /\ t.ok <=> t.amount \in 0..BalanceOf(balances, t.from)
       /\ ~t.ok => balances' = balances
       /\ SumBalances(balances') = SumBalances(balances)
       /\ t.from = t.to => balances' = balances]_vars

\* Supply accounting across OnPersist: the balances add up to the stored
\* total supply, and that is the initial supply less the system fees of
\* every persisted transaction (network fees only move to the primary).
FeesBurned ==
  /\ SumBalances(balances) = totalSupply
  /\ blocks > 0 => totalSupply = InitialSupply - sysBurned

\* GasToken implements the ledger: the balances BalanceOf reads, the
\* stored total supply and the persisted blocks behave as Ledger's
\* balances, supply and height.  Beyond the sums FeesBurned checks, this
\* says whose balance each step changes: a transfer moves exactly its
\* amount from its sender to its recipient, OnPersist charges each sender
\* its own transactions' fees and pays the network fees to a block
\* validator.
L == INSTANCE Ledger WITH bal <- [a \in Accounts |-> BalanceOf(balances, a)],
                          supply <- totalSupply, height <- blocks,
                          BlockTxs <- Blocks
GasLedgerRefined == L!LSpec

=============================================================================
