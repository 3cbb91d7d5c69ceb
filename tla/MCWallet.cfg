\* Wallet edits, saves and one crash: up to three accounts and two tokens.
CONSTANTS
  x = x
  y = y
  t1 = t1
  zero = zero
  Accs <- MCAccs
  TokenHashes = {t1}
  ZeroHash = zero
  MaxAccounts = 3
  MaxTokens = 2
  MaxCrashes = 1
  NoWallet = NoWallet
  Absent = Absent
  Empty = Empty
SPECIFICATION Spec
INVARIANT ChangeAddressCorrect
PROPERTY RemovedFirstMatch
CHECK_DEADLOCK FALSE
