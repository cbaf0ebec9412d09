--------------------------- MODULE MCLedgerServer ---------------------------
(***************************************************************************)
(* Small ledgers: an admin and a publisher, a library contract, one that   *)
(* imports it, and two that cannot be published.                           *)
(***************************************************************************)
EXTENDS LedgerServer, TLC

CONSTANTS admin, alice, lib, app, junk, odd, own, other, r1, r2, r3

MCImports == [d \in Contract |-> IF d = app THEN {lib} ELSE {}]

Publish(network, key, nonce, wasm, size) ==
    [context |-> PUBLISH_CONTEXT, network |-> network, key |-> key, nonce |-> nonce,
     size |-> size, wasm |-> wasm, account |-> key, amount |-> 0]

Fund(key, nonce, amount) ==
    [context |-> FUND_CONTEXT, network |-> own, key |-> key, nonce |-> nonce,
     size |-> 1, wasm |-> lib, account |-> alice, amount |-> amount]

\* Two credits that saturate together, a credit by someone who is not the
\* admin, the library twice, once with the nonce of its importer, and a
\* publication for another network.
RacingEnvelopes ==
    {Fund(admin, 1, 3), Fund(admin, 2, 3), Fund(alice, 1, 3),
     Publish(own, alice, 1, lib, 2), Publish(own, alice, 2, lib, 2),
     Publish(own, alice, 2, app, 1), Publish(other, alice, 3, app, 1),
     Publish(own, admin, 1, app, 1)}

\* A credit and what a publisher sends after it, with contracts that fail to
\* compile or link.
PatientEnvelopes ==
    {Fund(admin, 1, 3),
     Publish(own, alice, 1, lib, 1), Publish(own, alice, 2, app, 1),
     Publish(own, alice, 2, junk, 1), Publish(own, alice, 3, odd, 1)}

Slots == Permutations(Request)
=============================================================================
