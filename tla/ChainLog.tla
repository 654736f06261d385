------------------------------ MODULE ChainLog ------------------------------
(***************************************************************************)
(* What the derived-data services read: the canonical rows of              *)
(* raw_protocol_events in chain order (block_number, log_index).  The      *)
(* finality-watcher finalizes whole blocks, oldest first, so the rows a    *)
(* service may use are a prefix that ends with a block.  The services run  *)
(* with --include-tentative off, their default.                             *)
(***************************************************************************)
EXTENDS Integers, Sequences, FiniteSetsExt

CONSTANTS
    Log,    \* the canonical rows: records with at least block \in 1..
    None,   \* SQL NULL
    MaxFaults   \* bound: how many failures of the archive node, the database
                \* or a process a behaviour has

ASSUME LogAssumption ==
    /\ Log \in Seq([block : Nat \ {0}, kind : STRING, who : STRING,
                    to : STRING, tx : STRING])
    /\ \A p, q \in DOMAIN Log : p < q => Log[p].block <= Log[q].block

ASSUME FaultAssumption == MaxFaults \in Nat

VARIABLES
    final,     \* how many of the rows are finalized
    faults     \* failures so far

logVars == <<final, faults>>

Rows == DOMAIN Log

EndsBlock(n) == \A p \in Rows : p > n => Log[p].block > Log[n].block

LogInit == final = 0 /\ faults = 0

\* An UPDATE of the finality-watcher: every row up to a block of L1 finality.
Finalize ==
    \E n \in Rows :
        /\ n > final
        /\ EndsBlock(n)
        /\ final' = n
        /\ UNCHANGED faults

\* One of the failures a service meets: an error of the database or of a node
\* that ends its run, or a stop of its process.
Fault == faults < MaxFaults /\ faults' = faults + 1 /\ UNCHANGED final

Finalized == {p \in Rows : p <= final}

\* SQL: ORDER BY block_number, log_index LIMIT n
FirstRows(S, n) == {p \in S : Cardinality({q \in S : q < p}) < n}

\* The last of two checkpoints: GREATEST(last_processed_block, EXCLUDED...).
Greatest(a, b) == IF a >= b THEN a ELSE b
=============================================================================
