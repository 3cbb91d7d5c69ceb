\* The RPC client's transfer pipeline: one or two validators per block, a cache that expires
\* after two blocks, one cosigner, two calls, chain height 1..3; notary
\* fallbacks valid for 0..2 blocks against a MaxNotValidBeforeDelta of 1.
CONSTANTS
  a1 = a1
  a2 = a2
  a3 = a3
  a4 = a4
  Accounts <- MCAccounts
  Signable <- MCSignable
  Deployed <- MCDeployed
  VerifyTrue <- MCVerifyTrue
  ValidatorsCounts = {1, 2}
  CacheTimeout = 2
  MaxCosigners = 1
  MaxHeight = 3
  MaxCalls = 2
  notary = notary
  dummy = dummy
  NotaryHash <- notary
  DummyAccount <- dummy
  MaxNVBDelta = 1
SPECIFICATION Spec
INVARIANT GetSignersCorrect
PROPERTY PushedTxsWitnessed
INVARIANT WitnessErrorsJustified
PROPERTY ValidUntilBlockFresh
PROPERTY CallsReturn
PROPERTY SubscribersNotified
INVARIANT VerifyNeverOfNotary
INVARIANT TransfersParamsPositional
CHECK_DEADLOCK FALSE
