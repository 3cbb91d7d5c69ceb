\* A script destroys its own contract after taking a writable storage
\* context, then writes through that context and halts.
CONSTANTS
  Contracts = {c1, c2}
  Absent = Absent
  Keys <- MCKeys
  FindPrefixes <- MCPrefixes
  ValueLens <- MCValueLens
  MaxStorageKeyLen = 2
  MaxStorageValueLen = 5
  GasLimits <- MCGasLimits
  MaxInvocations = 3
  MaxSteps = 3

SPECIFICATION Spec

INVARIANT DestroyedHoldNoStorage

CHECK_DEADLOCK FALSE
