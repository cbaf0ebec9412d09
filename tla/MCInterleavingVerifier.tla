----------------------- MODULE MCInterleavingVerifier -----------------------
(* Small transactions for InterleavingVerifier.                            *)
EXTENDS InterleavingVerifier, TLC

CONSTANTS u1, t1, c1, c2, i

\* A created UTXO and two scripts: passing control, claims, handlers.
ControlTx ==
    [inputs |-> {}, new_outputs |-> {u1}, scripts |-> {c1, c2}, tokens |-> {},
     must_burn |-> {}, ownership_in |-> [p \in {u1} |-> None], entrypoint |-> c1,
     interfaces |-> {i}, max_words |-> 0]

\* A UTXO that has to burn, a script, and a token it creates; refs of up to
\* two words.
TokenTx ==
    [inputs |-> {u1}, new_outputs |-> {t1}, scripts |-> {c1}, tokens |-> {t1},
     must_burn |-> {u1}, ownership_in |-> [p \in {u1, t1} |-> None], entrypoint |-> c1,
     interfaces |-> {}, max_words |-> 2]

ControlAndTokens == {ControlTx, TokenTx}
=============================================================================
