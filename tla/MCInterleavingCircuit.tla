------------------------ MODULE MCInterleavingCircuit ------------------------
(* A small transaction for InterleavingCircuit.                            *)
EXTENDS InterleavingCircuit, TLC

CONSTANTS u1, t1, c1, i

\* A UTXO that has to burn, a token and a script: control, claims, handlers,
\* refs and owners.
ProvedTx ==
    [inputs |-> {u1}, new_outputs |-> {t1}, scripts |-> {c1}, tokens |-> {t1},
     must_burn |-> {u1}, ownership_in |-> [p \in {u1, t1} |-> None], entrypoint |-> c1,
     interfaces |-> {i}, max_words |-> 1]

OneTransaction == {ProvedTx}
=============================================================================
