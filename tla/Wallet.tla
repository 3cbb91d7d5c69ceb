------------------------------- MODULE Wallet -------------------------------
(***************************************************************************)
(* The NEP-6 wallet file (neo-go pkg/wallet/wallet.go): the in-memory      *)
(* Wallet a process edits (accounts and imported tokens), the file it is   *)
(* saved to, and the process crashing between any two steps.               *)
(*                                                                         *)
(* Save marshals the wallet and writes it with ioutil.WriteFile, which     *)
(* opens the file with O_TRUNC and then writes: two steps, with a          *)
(* zero-length file in between.  NewWallet creates (truncates) the file    *)
(* without writing it.  A zero-length file does not decode.  An account    *)
(* is a record of the fields the code reads: its address, Default, and     *)
(* whether its contract is a signature contract.                           *)
(***************************************************************************)
EXTENDS Integers, Sequences, SequencesExt

CONSTANTS
  \* Accounts a process may add: records [addr, default, sig].
  Accs,
  \* Token contract hashes a process may import.
  TokenHashes,
  \* util.Uint160{}: GetChangeAddress without a signature account.
  ZeroHash,
  \* Bound: accounts in a wallet.
  MaxAccounts,
  \* Bound: tokens in a wallet.
  MaxTokens,
  \* Bound: process crashes.
  MaxCrashes,
  \* No *Wallet in the process (nil), no wallet file, a zero-length file.
  NoWallet, Absent, Empty

Addresses == {a.addr : a \in Accs}
Wallets == [accounts : Seq(Accs), tokens : Seq(TokenHashes)]

VARIABLES
  wallet,   \* the process's *Wallet, or NoWallet
  file,     \* the wallet file: Absent, Empty or a Wallet
  saving,   \* the Wallet being written by Save, or NoWallet
  crashes,  \* crashes so far
  lastOp,   \* the last operation (history)
  written   \* some Save has completed (history)

vars == <<wallet, file, saving, crashes, lastOp, written>>

Idle == wallet # NoWallet /\ saving = NoWallet

-----------------------------------------------------------------------------
(* Creating and opening *)

\* newWallet: no accounts and no tokens.
EmptyWallet == [accounts |-> <<>>, tokens |-> <<>>]

\* NewWallet: os.Create leaves a zero-length file.
NewWallet ==
  /\ wallet = NoWallet /\ file = Absent
  /\ file' = Empty
  /\ wallet' = EmptyWallet
  /\ lastOp' = [op |-> "new"]
  /\ UNCHANGED <<saving, crashes, written>>

\* NewWalletFromFile: an absent file fails to open, a zero-length one to
\* decode; otherwise the wallet is the file's.
NewWalletFromFile ==
  /\ wallet = NoWallet /\ file # Absent
  /\ wallet' = IF file = Empty THEN NoWallet ELSE file
  /\ lastOp' = [op |-> "open", ok |-> file # Empty]
  /\ UNCHANGED <<file, saving, crashes, written>>

-----------------------------------------------------------------------------
(* Editing *)

\* The index of the first element the loop stops at (0 for none).
FirstIndex(s, found) == IF found = {} THEN 0 ELSE Min(found)

\* Mutant: the removal shrinks the list from the front.
RemoveIndexFromFront(s, i) == Tail(s)

\* copy(s[i:], s[i+1:]) then s[:len(s)-1].
RemoveIndex(s, i) ==
  [j \in 1..Len(s) - 1 |-> IF j < i THEN s[j] ELSE s[j + 1]]

\* AddAccount appends, duplicates included.
AddAccount(acc) ==
  /\ Idle /\ Len(wallet.accounts) < MaxAccounts
  /\ wallet' = [wallet EXCEPT !.accounts = Append(@, acc)]
  /\ lastOp' = [op |-> "addAccount"]
  /\ UNCHANGED <<file, saving, crashes, written>>

\* RemoveAccount(addr): an error when no account has the address.
RemoveAccount(addr) ==
  LET s == wallet.accounts
      i == FirstIndex(s, {j \in DOMAIN s : s[j].addr = addr})
  IN
  /\ Idle
  /\ wallet' = IF i = 0 THEN wallet
               ELSE [wallet EXCEPT !.accounts = RemoveIndex(s, i)]
  /\ lastOp' = [op |-> "removeAccount", key |-> addr, ok |-> i # 0]
  /\ UNCHANGED <<file, saving, crashes, written>>

AddToken(h) ==
  /\ Idle /\ Len(wallet.tokens) < MaxTokens
  /\ wallet' = [wallet EXCEPT !.tokens = Append(@, h)]
  /\ lastOp' = [op |-> "addToken"]
  /\ UNCHANGED <<file, saving, crashes, written>>

\* RemoveToken(h): an error when no token has the hash.
RemoveToken(h) ==
  LET s == wallet.tokens
      i == FirstIndex(s, {j \in DOMAIN s : s[j] = h})
  IN
  /\ Idle
  /\ wallet' = IF i = 0 THEN wallet
               ELSE [wallet EXCEPT !.tokens = RemoveIndex(s, i)]
  /\ lastOp' = [op |-> "removeToken", key |-> h, ok |-> i # 0]
  /\ UNCHANGED <<file, saving, crashes, written>>

-----------------------------------------------------------------------------
(* Saving *)

\* Save: the wallet is marshalled and WriteFile truncates the file.
Save ==
  /\ Idle
  /\ saving' = wallet
  /\ file' = Empty
  /\ lastOp' = [op |-> "save"]
  /\ UNCHANGED <<wallet, crashes, written>>

\* WriteFile's write of the marshalled wallet.
WriteRaw ==
  /\ saving # NoWallet
  /\ file' = saving
  /\ saving' = NoWallet
  /\ lastOp' = [op |-> "written"]
  /\ written' = TRUE
  /\ UNCHANGED <<wallet, crashes>>

\* CreateAccount: a new signature account (the key generation and its
\* encryption may fail first), added and saved.
CreateAccount(acc) ==
  /\ Idle /\ acc.sig /\ ~acc.default
  /\ Len(wallet.accounts) < MaxAccounts
  /\ \/ lastOp' = [op |-> "createAccount", ok |-> FALSE]
        /\ UNCHANGED <<wallet, file, saving>>
     \/ LET w == [wallet EXCEPT !.accounts = Append(@, acc)] IN
        /\ wallet' = w /\ saving' = w /\ file' = Empty
        /\ lastOp' = [op |-> "createAccount", ok |-> TRUE]
  /\ UNCHANGED <<crashes, written>>

\* The process dies: its wallet and a Save in progress are gone.
Crash ==
  /\ wallet # NoWallet /\ crashes < MaxCrashes
  /\ wallet' = NoWallet /\ saving' = NoWallet
  /\ crashes' = crashes + 1
  /\ lastOp' = [op |-> "crash"]
  /\ UNCHANGED <<file, written>>

-----------------------------------------------------------------------------
(* GetChangeAddress *)

\* Mutant: the loop does not stop at a default signature account.
GetChangeAddressNoBreak(accounts) ==
  LET pick == FoldLeft(LAMBDA acc, a :
                IF (acc = <<>> \/ a.default) /\ a.sig THEN <<a>> ELSE acc,
                <<>>, accounts)
  IN IF pick = <<>> THEN ZeroHash ELSE pick[1].addr

\* The loop over the accounts, acc nil as <<>>: a signature account is
\* taken while none is taken yet or when it is the default one, and a
\* default one ends it.
GetChangeAddress(accounts) ==
  LET pick == FoldLeft(LAMBDA acc, a :
                IF acc # <<>> /\ acc[1].default THEN acc
                ELSE IF (acc = <<>> \/ a.default) /\ a.sig THEN <<a>> ELSE acc,
                <<>>, accounts)
  IN IF pick = <<>> THEN ZeroHash ELSE pick[1].addr

\* What GetChangeAddress stands for: the first default signature account,
\* else the first signature account, else the zero hash.
RefChangeAddress(accounts) ==
  LET sigs == SelectSeq(accounts, LAMBDA a : a.sig)
      defaults == SelectSeq(sigs, LAMBDA a : a.default)
  IN CASE defaults # <<>> -> Head(defaults).addr
       [] sigs # <<>> -> Head(sigs).addr
       [] OTHER -> ZeroHash

-----------------------------------------------------------------------------

Init ==
  /\ wallet = NoWallet
  /\ file = Absent
  /\ saving = NoWallet
  /\ crashes = 0
  /\ lastOp = [op |-> "none"]
  /\ written = FALSE

Next ==
  \/ NewWallet
  \/ NewWalletFromFile
  \/ \E a \in Accs : AddAccount(a) \/ CreateAccount(a)
  \/ \E ad \in Addresses : RemoveAccount(ad)
  \/ \E h \in TokenHashes : AddToken(h) \/ RemoveToken(h)
  \/ Save
  \/ WriteRaw
  \/ Crash

Spec == Init /\ [][Next]_vars

-----------------------------------------------------------------------------
(* Properties *)

\* GetChangeAddress gives the first default signature account's address,
\* else the first signature account's, else the zero hash, for every list
\* of accounts a wallet can hold.  About the loop's nil check and break.
ChangeAddressCorrect ==
  wallet # NoWallet =>
    GetChangeAddress(wallet.accounts) = RefChangeAddress(wallet.accounts)

\* RemoveAccount and RemoveToken remove exactly the first element with the
\* address or hash and keep the others in order; without one they report
\* an error and change nothing.  About the copy-and-shrink of the slice.
RemovedFirstMatch ==
  [][lastOp'.op \in {"removeAccount", "removeToken"} =>
       LET isAcc == lastOp'.op = "removeAccount"
           s == IF isAcc THEN wallet.accounts ELSE wallet.tokens
           t == IF isAcc THEN wallet'.accounts ELSE wallet'.tokens
           hits == {j \in DOMAIN s :
                      IF isAcc THEN s[j].addr = lastOp'.key
                               ELSE s[j] = lastOp'.key}
       IN IF hits = {} THEN ~lastOp'.ok /\ t = s
                       ELSE lastOp'.ok /\ t = RemoveAt(s, Min(hits))]_vars

\* Once a Save has completed, the wallet file always holds a wallet that
\* NewWalletFromFile can decode, whenever the process dies.  About Save
\* writing through ioutil.WriteFile in place.
SavedWalletSurvives ==
  written /\ wallet = NoWallet => file \in Wallets

=============================================================================
