CONSTANTS
  Contracts = {c1, c2}
  Absent = Absent
  Keys <- MCKeys
  FindPrefixes <- MCPrefixes
  ValueLens <- MCValueLens
  MaxStorageKeyLen = 2
  MaxStorageValueLen = 5
  GasLimits <- MCGasLimits
  MaxInvocations = 3
  MaxSteps = 3

SPECIFICATION Spec

INVARIANT TypeOK
INVARIANT StoragePaidFor
INVARIANT FindOptionsMatchSpec
INVARIANT PutCostMatchesSpec
INVARIANT CreateMultisigMatchesSpec
PROPERTY ReadOnlyNeverWrites

\* The layer is idle once no further transaction script arrives; the bound
\* MaxInvocations ends every behaviour in that idle state.
CHECK_DEADLOCK FALSE
