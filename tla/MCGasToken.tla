----------------------------- MODULE MCGasToken -----------------------------
(* Two validators, the standby multisig account, a supply of 3.           *)
EXTENDS GasToken, NeotestChain

CONSTANTS v1, v2, standby

MCAccounts == {v1, v2, standby}
MCValidators == <<v1, v2>>

\* A negative amount, zero, amounts within the supply and one beyond it.
MCAmounts == {-1, 0, 1, 2, 4}

\* Public keys of the six committee WIFs, ordered by <.
CommitteeKeys == 1..6

\* The signers neotest hands out can spend what the chain gives them, for
\* every order of the committee's keys: NewSingle's signer witnesses for
\* the standby validators' account, which GAS's Initialize mints the
\* initial supply to (getStandbyValidatorsHash), and for the committee's;
\* NewMulti's validator signer witnesses for that account of its
\* configuration and its committee signer for the committee's.  About
\* init()'s reordering of standByCommittee, the in-place sort of pubs[:4]
\* before vloop and the full sort before cloop.  Checked once, before the
\* genesis block.
NeotestSignersMatchChain ==
  blocks = 0 =>
  \A pub \in SetToSeqs(CommitteeKeys) :
    LET single == <<CommitteeAcc(pub)>>
        vals == MultiValidatorAcc(pub)
        comm == MultiCommitteeAcc(pub)
    IN /\ SignerValid(single) /\ SignerValid(vals) /\ SignerValid(comm)
       /\ SignerHash(single) =
            GetStandbyValidatorsHash(GetStandByValidators(SingleConfig(pub)))
       /\ SignerHash(single) = CommitteeHash(SingleConfig(pub))
       /\ SignerHash(vals) =
            GetStandbyValidatorsHash(GetStandByValidators(MultiConfig(pub)))
       /\ SignerHash(comm) = CommitteeHash(MultiConfig(pub))
=============================================================================
