------------------------- MODULE StorageAlgorithms -------------------------
(***************************************************************************)
(* The pure parts of the storage syscalls (pkg/core/interop_system.go):    *)
(* the price putWithContext charges for a write, the option checks of      *)
(* storageFind and the argument checks of contractCreateMultisigAccount,   *)
(* next to the reference definitions of spec 4.3 they are    *)
(* checked against.                                                        *)
(***************************************************************************)
EXTENDS Integers, Multisig

CONSTANT
  \* Marker for a key that has no storage item (GetStorageItem = nil).
  Absent

\* Storage.Find option bits (pkg/core/interop/storage): "Unknown" stands for
\* any bit outside FindAll.
FindFlags == {"KeysOnly", "RemovePrefix", "ValuesOnly", "Deserialize",
              "Pick0", "Pick1"}
FindOpts == SUBSET (FindFlags \cup {"Unknown"})

\* Mutations of SizeInc: any rewrite charged by the signed size change,
\* and a non-growing rewrite rounded with an off-by-one.
SizeIncSignedDelta(klen, vlen, old) ==
  IF old = Absent THEN klen + vlen ELSE vlen - old

SizeIncRoundOffByOne(klen, vlen, old) ==
  CASE old = Absent              -> klen + vlen
    [] vlen # 0 /\ vlen <= old   -> vlen \div 4 + 1
    [] vlen # 0 /\ old # 0       -> (old - 1) \div 4 + 1 + vlen - old
    [] OTHER                     -> vlen

\* The sizeInc of putWithContext, in storage-price units, for a key of
\* length klen, a value of length vlen and the stored item old.
SizeInc(klen, vlen, old) ==
  CASE old = Absent              -> klen + vlen
    [] vlen # 0 /\ vlen <= old   -> (vlen - 1) \div 4 + 1
    [] vlen # 0 /\ old # 0       -> (old - 1) \div 4 + 1 + vlen - old
    [] OTHER                     -> vlen

\* Mutation of FindOptionsValid: the Pick0/Pick1 conflict check dropped.
FindOptionsValidNoPickConflict(o) ==
  /\ "Unknown" \notin o
  /\ ~("KeysOnly" \in o /\ o \cap {"Deserialize", "Pick0", "Pick1"} # {})
  /\ ~("ValuesOnly" \in o /\ o \cap {"KeysOnly", "RemovePrefix"} # {})
  /\ ~("Deserialize" \notin o /\ o \cap {"Pick0", "Pick1"} # {})

\* The option checks of storageFind, in the order the code makes them.
FindOptionsValid(o) ==
  /\ "Unknown" \notin o
  /\ ~("KeysOnly" \in o /\ o \cap {"Deserialize", "Pick0", "Pick1"} # {})
  /\ ~("ValuesOnly" \in o /\ o \cap {"KeysOnly", "RemovePrefix"} # {})
  /\ ~({"Pick0", "Pick1"} \subseteq o)
  /\ ~("Deserialize" \notin o /\ o \cap {"Pick0", "Pick1"} # {})

\* Integer widths, scaled down so that TLC's integers hold them: uint64 is
\* UintBits wide and int32 IntBits wide.
UintBits == 16
IntBits == 8
MaxInt32 == 2^(IntBits - 1) - 1

\* big.Int's IsUint64, and Uint64: the low bits of |m|, the sign dropped.
IsUint64(m) == 0 <= m /\ m < 2^UintBits
Uint64(m) == (IF m < 0 THEN -m ELSE m) % 2^UintBits

\* Mutant: m is range-checked only after its conversion to uint64.
CreateMultisigAccountNoIsUint64(m, pubs) ==
  LET mu == Uint64(m) IN
  IF mu > MaxInt32 \/ ~MultisigValid(mu, pubs) THEN [ok |-> FALSE]
  ELSE [ok |-> TRUE, hash |-> MultisigHash(mu, pubs)]

\* contractCreateMultisigAccount: m must be a uint64 no larger than
\* MaxInt32; CreateMultiSigRedeemScript(int(m), pubs) then checks it
\* against the keys (the keys are well-formed here).
CreateMultisigAccount(m, pubs) ==
  LET mu == Uint64(m) IN
  IF ~IsUint64(m) \/ mu > MaxInt32 \/ ~MultisigValid(mu, pubs) THEN [ok |-> FALSE]
  ELSE [ok |-> TRUE, hash |-> MultisigHash(mu, pubs)]

-----------------------------------------------------------------------------
(* Reference definitions (spec 4.3). *)

\* The reference rule of spec 4.3 for Find options: no unknown bit, none of
\* the listed conflicting pairs, and PickN only with Deserialize.
FindConflicts ==
  {{"KeysOnly", "Deserialize"}, {"KeysOnly", "Pick0"}, {"KeysOnly", "Pick1"},
   {"ValuesOnly", "KeysOnly"}, {"ValuesOnly", "RemovePrefix"},
   {"Pick0", "Pick1"}}

SpecFindOptionsValid(o) ==
  /\ o \subseteq FindFlags
  /\ \A pair \in FindConflicts : ~(pair \subseteq o)
  /\ o \cap {"Pick0", "Pick1"} # {} => "Deserialize" \in o

\* The reference price of spec 4.3: full price for a new key, a quarter of
\* the new length (rounded up) for a rewrite that does not grow, a quarter
\* of the old length plus the growth otherwise.
CeilQuarter(n) == (n + 3) \div 4

SpecPutCost(klen, vlen, old) ==
  IF old = Absent THEN klen + vlen
  ELSE IF vlen <= old THEN CeilQuarter(vlen)
  ELSE CeilQuarter(old) + vlen - old

\* What the error text "m must be positive and fit int32" and the multisig
\* rule promise: an m-of-n account for 1 <= m <= n, an error otherwise.
SpecCreateMultisigAccount(m, pubs) ==
  IF 1 <= m /\ m <= MaxInt32 /\ m <= Cardinality(pubs)
    THEN [ok |-> TRUE, hash |-> MultisigHash(m, pubs)]
    ELSE [ok |-> FALSE]

=============================================================================
