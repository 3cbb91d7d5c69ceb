----------------------------- MODULE MCRpcClient -----------------------------
(* The RPC client's pipeline with four accounts: a1 unlocked, a2 locked,   *)
(* a3 a deployed contract whose verify passes, a4 one whose verify fails;  *)
(* the Notary contract is deployed and its verify fails.                   *)
EXTENDS RpcClient

CONSTANTS a1, a2, a3, a4, notary, dummy

MCAccounts == {a1, a2, a3, a4}
MCSignable == {a1, a3}
MCDeployed == {a3, a4}
MCVerifyTrue == {a3}
=============================================================================
