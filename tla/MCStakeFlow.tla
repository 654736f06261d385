---------------------------- MODULE MCStakeFlow ----------------------------
(* Small instances of StakeFlow. *)
EXTENDS StakeFlow

Ev(n, f, t, a, b, p) ==
    [name |-> n, from |-> f, to |-> t, amount |-> a, block |-> b, pos |-> p]

\* An orchestrator that bonds to itself and its two delegators: every kind of event, a
\* claim before the first bond, an unbond of everything, a lock handed to an address
\* with no other event.  A WithdrawStake names no second party.
Separate ==
    <<Ev("EarningsClaimed", "ann",  "orch", 1, 1, 1),
      Ev("Bond",            "ann",  "orch", 3, 1, 2),
      Ev("Bond",            "orch", "orch", 2, 1, 3),
      Ev("Bond",            "bob",  "orch", 2, 2, 4),
      Ev("Unbond",          "ann",  "orch", 4, 2, 5),
      Ev("TransferBond",    "ann",  "cat",  4, 3, 6),
      Ev("Rebond",          "bob",  "orch", 1, 3, 7),
      Ev("WithdrawStake",   "bob",  "none", 1, 3, 8)>>

\* ann moves her stake to orch, which then bonds to itself.
SelfBonded ==
    <<Ev("Bond", "ann",  "pool", 3, 1, 1),
      Ev("Bond", "ann",  "orch", 2, 2, 2),
      Ev("Bond", "orch", "orch", 5, 3, 3)>>

\* The hypothesis of the theorems about rows and registry tells the two apart.
ASSUME Separation ==
    /\ Log = Separate => \A d \in Addresses : KeptApart(d)
    /\ Log = SelfBonded => ~KeptApart("ann") /\ KeptApart("orch")
=============================================================================
