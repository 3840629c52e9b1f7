----------------------------- MODULE MCSession -----------------------------
EXTENDS Session, TLC

Symmetric == Permutations(Tabs)
=============================================================================
