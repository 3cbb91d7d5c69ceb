-------------------------- MODULE MCStorageInterop --------------------------
(* Model-checking instance of StorageInterop: two contracts, two storable  *)
(* keys sharing a prefix plus one key over the size limit, values up to    *)
(* one byte over the limit, and one limited and one unlimited gas limit.   *)
EXTENDS StorageInterop

MCKeys == {<<1>>, <<1, 2>>, <<1, 2, 3>>}
MCPrefixes == {<<>>, <<1, 2>>}
MCValueLens == {0, 1, 5, 6}
MCGasLimits == {-1, 6}

(* The pure storage operators against the spec's reference definitions,   *)
(* over every Find option set (128), key lengths 0..2 and value lengths    *)
(* 0..9: rewrites across two 4-byte boundaries, zero-length values and     *)
(* items.  The comparisons do not depend on the state, so they are checked *)
(* in the states before the first invocation.                             *)
CheckedKeyLens == {0, 1, 2}
CheckedValueLens == 0..9

\* storageFind accepts exactly the option sets spec 4.3 allows: its five
\* bit tests, in the code's order, against the spec's list of conflicts.
FindOptionsMatchSpec ==
  invocations = 0 =>
  \A o \in FindOpts : FindOptionsValid(o) <=> SpecFindOptionsValid(o)

\* putWithContext's sizeInc is the spec's price for every key length, value
\* length and stored item: the integer rounding (x-1)/4+1 and the case
\* split on growth against ceil(x/4).
PutCostMatchesSpec ==
  invocations = 0 =>
  \A k \in CheckedKeyLens, v \in CheckedValueLens,
     old \in CheckedValueLens \cup {Absent} :
    SizeInc(k, v, old) = SpecPutCost(k, v, old)

\* m around every edge of the scaled widths: negative values whose |m| is
\* small modulo 2^UintBits, zero, MaxInt32 and one above, 2^UintBits and
\* one above; up to three keys.
CheckedMs == {-(2^UintBits + 1), -(2^UintBits - 1), -1, 0, 1, 2, 3,
              MaxInt32, MaxInt32 + 1, 2^UintBits - 1, 2^UintBits,
              2^UintBits + 1}

\* System.Contract.CreateMultisigAccount returns an m-of-n account hash
\* exactly for 1 <= m <= n and faults otherwise: no negative or oversized
\* m is turned into a small one by the uint64 conversion.
CreateMultisigMatchesSpec ==
  invocations = 0 =>
  \A m \in CheckedMs, n \in 0..3 :
    CreateMultisigAccount(m, 1..n) = SpecCreateMultisigAccount(m, 1..n)
=============================================================================
