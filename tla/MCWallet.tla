------------------------------ MODULE MCWallet ------------------------------
(* Four accounts over two addresses: A (x, signature), B (y, default,      *)
(* signature), C (x, default, signature) and D (y, default, not a          *)
(* signature contract); one token hash.                                    *)
EXTENDS Wallet

CONSTANTS x, y, t1, zero

MCAccs == {[addr |-> x, default |-> FALSE, sig |-> TRUE],
           [addr |-> y, default |-> TRUE, sig |-> TRUE],
           [addr |-> x, default |-> TRUE, sig |-> TRUE],
           [addr |-> y, default |-> TRUE, sig |-> FALSE]}
=============================================================================
