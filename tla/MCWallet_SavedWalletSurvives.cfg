\* A crash during Save: does a wallet file that once held a saved wallet stay decodable?
CONSTANTS
  x = x
  y = y
  t1 = t1
  zero = zero
  Accs <- MCAccs
  TokenHashes = {t1}
  ZeroHash = zero
  MaxAccounts = 3
  MaxTokens = 2
  MaxCrashes = 1
  NoWallet = NoWallet
  Absent = Absent
  Empty = Empty
SPECIFICATION Spec
INVARIANT SavedWalletSurvives
CHECK_DEADLOCK FALSE
