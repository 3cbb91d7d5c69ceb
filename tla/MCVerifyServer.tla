--------------------------- MODULE MCVerifyServer ---------------------------
(* Two concurrent uploads, three contracts and two seconds of the clock.   *)
EXTENDS VerifyServer, TLC

CONSTANTS r1, r2, c1, c2, c3, v300, v302, vBad, f1, f2

MCRequests == {r1, r2}
MCContracts == {c1, c2, c3}
MCVersions == {v300, v302, vBad}
MCCompilers == {v300, v302}
MCFileNames == {f1, f2}

\* On mainnet c1 was compiled with 3.0.0, c2 is not deployed and c3 carries
\* a compiler string shorter than 25 bytes; on testnet c1 was compiled
\* with 3.0.2.
MCDeployed ==
  [n \in Nets |->
     IF n = "mainnet" THEN (c1 :> v300 @@ c2 :> "none" @@ c3 :> "short")
                      ELSE (c1 :> v302 @@ c2 :> "none" @@ c3 :> "none")]

\* The two requests are interchangeable.
MCSymmetry == Permutations(MCRequests)
=============================================================================
