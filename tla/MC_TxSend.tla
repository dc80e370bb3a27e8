------------------------------ MODULE MC_TxSend ------------------------------
EXTENDS TxSend, TLC

CONSTANTS r1, r2, r3, k1, k2, a1, transfer, bid

MCRequests == {r1, r2, r3}
MCKeys == {k1, k2}

\* The two cached transactions spend a common cell (a rebuild of one payment).
MCConflict == {<<k1, k2>>, <<k2, k1>>}

\* A plain signature, or a WebAuthn one with no, an authorised or a foreign signer.
MCInputs ==
    {[key |-> k, webauthn |-> FALSE, signer |-> "none"] : k \in MCKeys}
    \cup [key : MCKeys, webauthn : {TRUE}, signer : {"none", "member", "stranger"}]

\* Two handlers race for the same key; a third sends the other one.
MCInit == /\ Init
          /\ req[r1].key = k1 /\ req[r2].key = k1 /\ req[r3].key = k2

MCSpec == MCInit /\ [][Next]_vars
============================================================================
