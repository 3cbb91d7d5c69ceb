--------------------------- MODULE StorageInterop ---------------------------
(***************************************************************************)
(* The storage interop layer of neo-go (pkg/core/interop_system.go): the   *)
(* System.Storage.* syscalls a contract script uses to read and write its  *)
(* key space, the gas charged for writes, and the invocation that runs     *)
(* them.  One invocation runs at a time (the VM is single threaded); its   *)
(* writes go to a pending change set over the committed store, which is    *)
(* persisted when the script halts and dropped when it faults.            *)
(*                                                                         *)
(* Data is abstracted to what pricing and the properties tell apart: a key *)
(* is a short byte sequence (its length and prefixes matter), a value is   *)
(* its length.  Gas is counted in units of the storage price.              *)
(***************************************************************************)
EXTENDS Integers, Sequences, FiniteSets, FiniteSetsExt, SequencesExt,
        StorageAlgorithms

CONSTANTS
  \* Contract IDs that own a storage key space, e.g. {c1, c2}.
  Contracts,
  \* Keys a script may pass, as byte sequences; some longer than
  \* MaxStorageKeyLen so that the size check is exercised.
  Keys,
  \* Prefixes a script may pass to Storage.Find.
  FindPrefixes,
  \* Value lengths a script may pass, up to MaxStorageValueLen + 1.
  ValueLens,
  \* storage.MaxStorageKeyLen and storage.MaxStorageValueLen, scaled down.
  MaxStorageKeyLen,
  MaxStorageValueLen,
  \* Gas limits an invocation may be given (VM.GasLimit); -1 is unlimited.
  GasLimits,
  \* Bounds: invocations per behaviour, syscalls per invocation.
  MaxInvocations,
  MaxSteps

ASSUME
  /\ MaxStorageKeyLen \in Nat /\ MaxStorageValueLen \in Nat
  /\ ValueLens \subseteq Nat
  /\ GasLimits \subseteq Int
  /\ Absent \notin Nat
  /\ MaxInvocations \in Nat /\ MaxSteps \in Nat

\* Keys that pass the size check and so can be stored.
StoreKeys == {k \in Keys : Len(k) <= MaxStorageKeyLen}

\* A StorageContext: the contract ID and the read-only flag.
StorageContexts == [id : Contracts, readOnly : BOOLEAN]

Stores == [Contracts -> [StoreKeys -> Nat \cup {Absent}]]

VARIABLES
  committed,    \* the persisted store (the DAO below the invocation)
  pending,      \* the running invocation's view: committed plus its writes
  status,       \* "idle" or "running"
  current,      \* contract whose script runs (VM.GetCurrentScriptHash)
  held,         \* StorageContexts the running script holds on its stack
  gasLimit,     \* VM.GasLimit of the running invocation
  gasConsumed,  \* VM.GasConsumed of the running invocation
  iterators,    \* open seeks of Find iterators
  rwGranted,    \* history: contracts a writable context was created for
  paid,         \* history: storage units paid by persisted invocations
  invPaid,      \* history: storage units paid by the running invocation
  steps,        \* syscalls made by the running invocation
  invocations,  \* invocations started so far
  registry,     \* contracts with a persisted registry entry
  regPending    \* the running invocation's view of the registry

vars == <<committed, pending, status, current, held, gasLimit, gasConsumed,
          iterators, rwGranted, paid, invPaid, steps, invocations,
          registry, regPending>>

-----------------------------------------------------------------------------
(* Gas meter.  VM.AddGas is outside this source tree: modelled from the    *)
(* spec (4.2), a negative limit never exhausts and a failed charge leaves  *)
(* the meter unchanged.                                                    *)

AddGasOK(amount) == gasLimit < 0 \/ gasConsumed + amount <= gasLimit

AddGas(amount) == gasConsumed' = gasConsumed + amount

-----------------------------------------------------------------------------
(* End of an invocation.  The enclosing block processing (outside this     *)
(* source tree, spec 4.2 and 7) persists the change set of a halted script *)
(* and drops that of a faulted one; ic.Finalize cancels every registered   *)
(* iterator on both paths.                                                 *)

ResetInvocation ==
  /\ status' = "idle"
  /\ held' = {}
  /\ iterators' = {}
  /\ rwGranted' = {}
  /\ invPaid' = 0
  /\ gasConsumed' = 0
  /\ steps' = 0
  /\ UNCHANGED <<current, gasLimit, invocations>>

\* Mutation of Fault: the change set of a faulted script is persisted.
FaultKeepingWrites ==
  /\ committed' = pending
  /\ pending' = pending
  /\ registry' = regPending
  /\ ResetInvocation
  /\ UNCHANGED <<paid, regPending>>

\* The script faults: an error returned by a syscall, or THROW/ABORT.
Fault ==
  /\ pending' = committed
  /\ regPending' = registry
  /\ ResetInvocation
  /\ UNCHANGED <<committed, paid, registry>>

\* The script halts and its change set is persisted.
Halt ==
  /\ status = "running"
  /\ committed' = pending
  /\ pending' = pending
  /\ paid' = paid + invPaid
  /\ registry' = regPending
  /\ ResetInvocation
  /\ UNCHANGED regPending

\* A new transaction script starts executing contract c with limit l.
Begin(c, l) ==
  /\ status = "idle"
  /\ c \in registry
  /\ invocations < MaxInvocations
  /\ status' = "running"
  /\ current' = c
  /\ gasLimit' = l
  /\ invocations' = invocations + 1
  /\ UNCHANGED <<committed, pending, held, gasConsumed, iterators, rwGranted,
                 paid, invPaid, steps, registry, regPending>>

\* The running script calls into contract c (System.Contract.Call, outside
\* this source tree); the contexts on its stack may be passed along.
CallContract(c) ==
  /\ status = "running"
  /\ steps < MaxSteps
  /\ c \in regPending
  /\ current' = c
  /\ steps' = steps + 1
  /\ UNCHANGED <<committed, pending, status, held, gasLimit, gasConsumed,
                 iterators, rwGranted, paid, invPaid, invocations, registry,
                 regPending>>

\* ContractManagement.destroy called by the running contract (outside this
\* source tree, spec 4.4): its registry entry is removed and every key
\* under its ID is deleted, in the change set; the script goes on.
Destroy ==
  /\ status = "running"
  /\ steps < MaxSteps
  /\ current \in regPending
  /\ regPending' = regPending \ {current}
  /\ pending' = [pending EXCEPT ![current] = [k \in StoreKeys |-> Absent]]
  /\ steps' = steps + 1
  /\ UNCHANGED <<committed, status, current, held, gasLimit, gasConsumed,
                 iterators, rwGranted, paid, invPaid, invocations, registry>>

-----------------------------------------------------------------------------
(* Syscalls.  Each one counts as a step; a failing one faults the script.  *)

Syscall == /\ status = "running"
           /\ steps < MaxSteps

\* storageGetContextInternal: ic.GetContract of the current script hash
\* fails for a contract missing from the registry; otherwise a context
\* with the contract's ID.
GetContext(readOnly) ==
  /\ Syscall
  /\ \/ current \notin regPending /\ Fault
     \/ /\ current \in regPending
        /\ held' = held \cup {[id |-> current, readOnly |-> readOnly]}
        /\ rwGranted' = IF readOnly THEN rwGranted ELSE rwGranted \cup {current}
        /\ steps' = steps + 1
        /\ UNCHANGED <<committed, pending, status, current, gasLimit,
                       gasConsumed, iterators, paid, invPaid, invocations,
                       registry, regPending>>

\* storageContextAsReadOnly: a read-only copy unless already read-only.
AsReadOnly(ctx) ==
  /\ Syscall
  /\ held' = held \cup {IF ctx.readOnly THEN ctx
                        ELSE [id |-> ctx.id, readOnly |-> TRUE]}
  /\ steps' = steps + 1
  /\ UNCHANGED <<committed, pending, status, current, gasLimit, gasConsumed,
                 iterators, rwGranted, paid, invPaid, invocations, registry, regPending>>

\* storageGet: a read; pushes the item or Null and changes no storage.
Get(ctx, key) ==
  /\ Syscall
  /\ steps' = steps + 1
  /\ UNCHANGED <<committed, pending, status, current, held, gasLimit,
                 gasConsumed, iterators, rwGranted, paid, invPaid, invocations, registry, regPending>>

\* putWithContext, reached from storagePut.
Put(ctx, key, vlen) ==
  /\ Syscall
  /\ \/ /\ Len(key) > MaxStorageKeyLen
        /\ Fault
     \/ /\ Len(key) <= MaxStorageKeyLen
        /\ vlen > MaxStorageValueLen
        /\ Fault
     \/ /\ Len(key) <= MaxStorageKeyLen
        /\ vlen <= MaxStorageValueLen
        /\ ctx.readOnly
        /\ Fault
     \/ /\ Len(key) <= MaxStorageKeyLen
        /\ vlen <= MaxStorageValueLen
        /\ ~ctx.readOnly
        /\ LET inc == SizeInc(Len(key), vlen, pending[ctx.id][key])
           IN \/ /\ ~AddGasOK(inc)
                 /\ Fault
              \/ /\ AddGasOK(inc)
                 /\ AddGas(inc)
                 /\ pending' = [pending EXCEPT ![ctx.id][key] = vlen]
                 /\ invPaid' = invPaid + inc
                 /\ steps' = steps + 1
                 /\ UNCHANGED <<committed, status, current, held, gasLimit,
                                iterators, rwGranted, paid, invocations, registry, regPending>>

\* Mutation of Delete: the ReadOnly check dropped.
DeleteIgnoringReadOnly(ctx, key) ==
  /\ Syscall
  /\ pending' = IF key \in StoreKeys
                  THEN [pending EXCEPT ![ctx.id][key] = Absent]
                  ELSE pending
  /\ steps' = steps + 1
  /\ UNCHANGED <<committed, status, current, held, gasLimit, gasConsumed,
                 iterators, rwGranted, paid, invPaid, invocations, registry, regPending>>

\* storageDelete: unpriced; a key that was never stored is a no-op.
Delete(ctx, key) ==
  /\ Syscall
  /\ \/ /\ ctx.readOnly
        /\ Fault
     \/ /\ ~ctx.readOnly
        /\ pending' = IF key \in StoreKeys
                        THEN [pending EXCEPT ![ctx.id][key] = Absent]
                        ELSE pending
        /\ steps' = steps + 1
        /\ UNCHANGED <<committed, status, current, held, gasLimit,
                       gasConsumed, iterators, rwGranted, paid, invPaid,
                       invocations, registry, regPending>>

\* The keys a seek over ctx.id with prefix p returns from the view st.
Seek(st, id, p) == {k \in StoreKeys : IsPrefix(p, k) /\ st[id][k] # Absent}

\* storageFind: validate the options, then start a seek over the items
\* under the prefix, push its iterator and register its cancel function.
Find(ctx, prefix, opts) ==
  /\ Syscall
  /\ \/ /\ ~FindOptionsValid(opts)
        /\ Fault
     \/ /\ FindOptionsValid(opts)
        /\ iterators' = iterators \cup
                          {[id |-> ctx.id, keys |-> Seek(pending, ctx.id, prefix)]}
        /\ steps' = steps + 1
        /\ UNCHANGED <<committed, pending, status, current, held, gasLimit,
                       gasConsumed, rwGranted, paid, invPaid, invocations, registry, regPending>>

-----------------------------------------------------------------------------

Init ==
  /\ committed = [c \in Contracts |-> [k \in StoreKeys |-> Absent]]
  /\ pending = committed
  /\ status = "idle"
  /\ current \in Contracts
  /\ held = {}
  /\ gasLimit \in GasLimits
  /\ gasConsumed = 0
  /\ iterators = {}
  /\ rwGranted = {}
  /\ paid = 0
  /\ invPaid = 0
  /\ steps = 0
  /\ invocations = 0
  /\ registry = Contracts
  /\ regPending = Contracts

Next ==
  \/ \E c \in Contracts, l \in GasLimits : Begin(c, l)
  \/ \E c \in Contracts : CallContract(c)
  \/ Destroy
  \/ \E ro \in BOOLEAN : GetContext(ro)
  \/ \E ctx \in held :
       \/ AsReadOnly(ctx)
       \/ \E k \in Keys : Get(ctx, k) \/ Delete(ctx, k)
       \/ \E k \in Keys, v \in ValueLens : Put(ctx, k, v)
       \/ \E p \in FindPrefixes, o \in FindOpts : Find(ctx, p, o)
  \/ Halt
  \/ status = "running" /\ Fault

Spec == Init /\ [][Next]_vars

-----------------------------------------------------------------------------
(* Properties *)

TypeOK ==
  /\ committed \in Stores
  /\ pending \in Stores
  /\ status \in {"idle", "running"}
  /\ current \in Contracts
  /\ held \subseteq StorageContexts
  /\ gasLimit \in GasLimits
  /\ gasConsumed \in Nat
  /\ \A it \in iterators : it.id \in Contracts /\ it.keys \subseteq StoreKeys
  /\ rwGranted \subseteq Contracts
  /\ paid \in Nat /\ invPaid \in Nat
  /\ steps \in 0..MaxSteps /\ invocations \in 0..MaxInvocations
  /\ registry \subseteq Contracts /\ regPending \subseteq Contracts

\* Bytes a store occupies: key plus value length of every item.
StoredBytes(st) ==
  MapThenSumSet(LAMBDA ck : Len(ck[2]) + st[ck[1]][ck[2]],
                {ck \in Contracts \X StoreKeys : st[ck[1]][ck[2]] # Absent})

\* Storage is paid for: the bytes in the persisted store never exceed the
\* storage units charged by the invocations that were persisted, and the
\* running invocation's view never exceeds that plus what it has paid.
\* About the sizeInc pricing of putWithContext (new key, growing and
\* shrinking rewrites) and about faulted invocations leaving no writes.
StoragePaidFor ==
  /\ StoredBytes(committed) <= paid
  /\ StoredBytes(pending) <= paid + invPaid

\* A read-only context is never widened: within an invocation the storage
\* of a contract changes only if the script obtained a writable context for
\* it from Storage.GetContext.  About the ReadOnly checks of storagePut and
\* storageDelete and the copy made by storageContextAsReadOnly; the
\* registry's Destroy, which clears a contract's keys itself, is left out.
ReadOnlyNeverWrites ==
  [][status = "running" /\ status' = "running" /\ regPending' = regPending =>
       \A c \in Contracts : pending'[c] # pending[c] => c \in rwGranted]_vars

\* A destroyed contract holds no storage: spec 4.4 has Destroy clear every
\* key under the contract's ID, and Destroyed is terminal.  About
\* putWithContext writing under stc.ID without looking the contract up: a
\* context the script obtained before destroying its contract still writes,
\* and the halt persists the write.
DestroyedHoldNoStorage ==
  \A c \in Contracts \ registry : \A k \in StoreKeys : committed[c][k] = Absent

=============================================================================
