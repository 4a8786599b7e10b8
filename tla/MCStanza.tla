------------------------------ MODULE MCStanza ------------------------------
EXTENDS Stanza, TLC

Symmetry == Permutations(Cluster)
=============================================================================
