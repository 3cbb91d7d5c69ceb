\* GAS transfers and two blocks of up to two transactions.
CONSTANTS
  v1 = v1  v2 = v2  standby = standby  Nil = Nil
  Accounts <- MCAccounts
  Validators <- MCValidators
  StandbyHash = standby
  InitialSupply = 3
  Amounts <- MCAmounts
  Fees = {0, 1}
  MaxTxs = 2
  MaxBlocks = 3
SPECIFICATION Spec
INVARIANT TypeOK
INVARIANT FeesBurned
INVARIANT NeotestSignersMatchChain
PROPERTY TransferLaws
PROPERTY GasLedgerRefined
