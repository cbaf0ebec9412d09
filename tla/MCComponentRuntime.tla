------------------------- MODULE MCComponentRuntime -------------------------
(* Small contracts for ComponentRuntime.                                   *)
EXTENDS ComponentRuntime, TLC

CONSTANTS root, helper, u1, u2, coin, account, vault, bank, A, P, B, close, peek, set, y1, y2, y3

MCMethods == (A :> {close}) @@ (P :> {peek}) @@ (B :> {close, set})
MCComponent == (account :> bank) @@ (vault :> bank)

\* An account can be closed at both yield points and peeked at at the second; a
\* vault yields a B it has no impl block for.
MCImpl == (account :> {A, P}) @@ (vault :> {A})
MCYieldPoint == (account :> {y1, y2}) @@ (vault :> {y3})
MCYieldAbis == (y1 :> {A}) @@ (y2 :> {A, P}) @@ (y3 :> {B})
MCResuming == (account :> {close}) @@ (vault :> {})

Instances == Permutations(Utxo)
=============================================================================
