----------------------------- MODULE MCCrustPeer -----------------------------
EXTENDS CrustPeer, TLC

Symmetry == Permutations(Peer)
=============================================================================
