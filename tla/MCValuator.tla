----------------------------- MODULE MCValuator -----------------------------
(* Small instances of Valuator. *)
EXTENDS Valuator, TLC

CONSTANTS e1, e2, e3

\* Three ETH events: one already valued (so that the floor is not the epoch),
\* one that moves the frontier, and one that could fall behind it.
EthEvents == {e1, e2, e3}
EthClass  == [e \in EthEvents |-> "ETH"]

\* A Redeem with a seed, and an EarningsClaimed with an LPT and an ETH half.
MixedEvents == {e1, e2}
MixedClass  == [e \in MixedEvents |-> IF e = e1 THEN "ETH" ELSE "MULTI"]
SeedEth     == {e1}

\* Sound where Class is constant and Seeds is empty.
Symmetry == Permutations(Events)
=============================================================================
