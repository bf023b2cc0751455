----------------------------- MODULE MCWhitelist -----------------------------
EXTENDS Whitelist

CONSTANTS p, q
Nodes == {{Anyone}, {}, {p}}
Clients == {{Anyone}, {q}}
=============================================================================
