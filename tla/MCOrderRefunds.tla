---------------------------- MODULE MCOrderRefunds ----------------------------
EXTENDS OrderRefunds, TLC

MCGrants == {[principal |-> 3, gift |-> 2], [principal |-> 1, gift |-> 0]}
MCLineCents == [l1 |-> 2, l2 |-> 2]
MCLines == DOMAIN MCLineCents

MCSymmetry == Permutations(Numbers)
=============================================================================
