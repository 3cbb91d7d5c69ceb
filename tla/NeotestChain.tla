---------------------------- MODULE NeotestChain ----------------------------
(***************************************************************************)
(* The test chains of neo-go's neotest/chain package: init() derives the   *)
(* committee account, the multi-node validator and committee accounts and *)
(* the standby committee of the configuration from a fixed list of WIFs;  *)
(* NewSingle and NewMulti build a chain from that configuration and hand  *)
(* out signers for it.  A WIF is its index in committeeWIFs; pub[j] is the *)
(* public key of the j-th WIF, and keys are ordered by <, as              *)
(* keys.PublicKeys sorts them.                                             *)
(***************************************************************************)
EXTENDS Integers, Sequences, SequencesExt, FiniteSets, Multisig

\* singleValidatorWIF is the third of committeeWIFs.
SingleValidatorIdx == 3

\* The accounts of accs whose key is k: vloop's and cloop's inner loop
\* (an empty result is the panic "invalid committee WIFs").
AccsOfKey(pub, k) == {j \in DOMAIN pub : pub[j] = k}

\* committeeAcc: the single validator's account as a 1-of-1 multisig.
CommitteeAcc(pub) ==
  LET k == pub[SingleValidatorIdx]
      cv == ConvertMultisig(k, 1, {k})
  IN [found |-> cv.ok, key |-> k, script |-> cv.script]

\* standByCommittee: the four validators first (pubs[2], pubs[0],
\* pubs[3], pubs[1]), then the two extra members.
StandByOrder == <<3, 1, 4, 2, 5, 6>>

StandByCommittee(pub) == [i \in 1..Len(pub) |-> pub[StandByOrder[i]]]

\* Mutant: the whole committee is sorted before the validators are picked.
MultiValidatorAccSortingAll(pub) ==
  LET mv == GetDefaultHonestNodeCount(4)
      s4 == SubSeq(SortSeq(pub, <), 1, 4)
  IN [i \in 1..mv |->
        LET cv == ConvertMultisig(s4[i], mv, Range(s4)) IN
        [found |-> AccsOfKey(pub, s4[i]) # {} /\ cv.ok, key |-> s4[i],
         script |-> cv.script]]

\* multiValidatorAcc: pubs[:4] sorted in place; for each of the first mv
\* of them, the account with that key converted to an mv-of-4 multisig.
MultiValidatorAcc(pub) ==
  LET mv == GetDefaultHonestNodeCount(4)
      s4 == SortSeq(SubSeq(pub, 1, 4), <)
  IN [i \in 1..mv |->
        LET cv == ConvertMultisig(s4[i], mv, Range(s4)) IN
        [found |-> AccsOfKey(pub, s4[i]) # {} /\ cv.ok, key |-> s4[i],
         script |-> cv.script]]

\* multiCommitteeAcc: the whole list sorted; for each of the first mc keys,
\* the account converted to an mc-of-6 multisig.
MultiCommitteeAcc(pub) ==
  LET mc == GetMajorityHonestNodeCount(Len(pub))
      s == SortSeq(pub, <)
  IN [i \in 1..mc |->
        LET cv == ConvertMultisig(s[i], mc, Range(s)) IN
        [found |-> AccsOfKey(pub, s[i]) # {} /\ cv.ok, key |-> s[i],
         script |-> cv.script]]

\* The protocol configurations of NewSingle and NewMulti.
SingleConfig(pub) == [committee |-> <<pub[SingleValidatorIdx]>>, validators |-> 1]
MultiConfig(pub) == [committee |-> StandByCommittee(pub), validators |-> 4]

\* Blockchain.GetStandByValidators: the first ValidatorsCount members of
\* the standby committee.
GetStandByValidators(cfg) == SubSeq(cfg.committee, 1, cfg.validators)

\* The committee's account (NEO's committee address): the majority
\* multisig of the standby committee.
CommitteeHash(cfg) ==
  MultisigHash(GetMajorityHonestNodeCount(Len(cfg.committee)), Range(cfg.committee))

\* neotest.NewMultiSigner(accs...): every account verifies with the same
\* script, there are at least its m of them and they hold distinct keys of
\* it; the signer witnesses for that script's hash.
SignerValid(accs) ==
  /\ Len(accs) > 0
  /\ \A i \in DOMAIN accs : accs[i].found /\ accs[i].script = accs[1].script
  /\ Len(accs) >= accs[1].script.m
  /\ IsInjective([i \in DOMAIN accs |-> accs[i].key])
  /\ \A i \in DOMAIN accs : accs[i].key \in accs[1].script.keys

SignerHash(accs) == accs[1].script
=============================================================================
