------------------------------ MODULE Multisig ------------------------------
(***************************************************************************)
(* Multisignature accounts of neo-go's smartcontract and wallet packages,  *)
(* which are not part of this repository: the honest-node counts, the      *)
(* script hash of an m-out-of-n multisig verification script and          *)
(* Account.ConvertMultisig.  The script sorts its keys, so its hash is     *)
(* abstracted to the pair of m and the set of keys.                        *)
(***************************************************************************)
EXTENDS Integers, FiniteSets

\* smartcontract.GetDefaultHonestNodeCount: n - (n-1)/3, Go integer division.
GetDefaultHonestNodeCount(n) == n - (n - 1) \div 3

\* smartcontract.GetMajorityHonestNodeCount: n - (n-1)/2.
GetMajorityHonestNodeCount(n) == n - (n - 1) \div 2

\* hash.Hash160 of CreateMultiSigRedeemScript(m, keys).
MultisigHash(m, keys) == [m |-> m, keys |-> keys]

\* CreateMultiSigRedeemScript's checks: 1 <= m <= len(keys) <= 1024.
MultisigValid(m, keys) == 1 <= m /\ m <= Cardinality(keys)

\* Account.ConvertMultisig(m, pubs): the account's key must be one of the
\* keys and the script valid; the account then verifies with the multisig.
ConvertMultisig(key, m, keys) ==
  [ok |-> key \in keys /\ MultisigValid(m, keys), script |-> MultisigHash(m, keys)]
=============================================================================
