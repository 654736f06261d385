----------------------------- MODULE TxReceipts -----------------------------
(***************************************************************************)
(* livepeer-staker tx-receipts-follow (tx_receipts.rs): one tx_receipts    *)
(* row per transaction of the finalized log.  A pass takes the first       *)
(* transactions from the checkpoint's block on that have no row, fetches   *)
(* their receipts concurrently, inserts what it got in one statement and   *)
(* moves the checkpoint to the last block it looked at.  A transaction the *)
(* node knows nothing of is answered null: the pass skips it, and the null *)
(* is kept in rpc_call_cache like any other answer.                         *)
(***************************************************************************)
EXTENDS ChainLog

CONSTANTS
    ReceiptLimit,   \* --batch-limit
    Fanout          \* --concurrency: calls in flight

\* A transaction is in one block.
ASSUME ReceiptAssumption ==
    /\ ReceiptLimit \in Nat \ {0} /\ Fanout \in Nat \ {0}
    /\ \A p, q \in Rows : Log[p].tx = Log[q].tx => Log[p].block = Log[q].block

VARIABLES
    receipts,    \* transactions with a tx_receipts row
    answers,     \* rpc_call_cache: [Tx -> {"none", "receipt", "null"}]
    cpReceipts,  \* last_processed_block of tx_receipts_backfill, 0 while absent
    pass         \* the pass in progress

receiptVars == <<receipts, answers, cpReceipts, pass>>

Tx == {Log[p].tx : p \in Rows}
BlockOfTx == [t \in Tx |-> Log[CHOOSE p \in Rows : Log[p].tx = t].block]
FirstRowOf == [t \in Tx |->
    CHOOSE p \in Rows : Log[p].tx = t /\ \A q \in Rows : Log[q].tx = t => p <= q]

\* Mutant of ReceiptCandidates: the scan resumes after the checkpoint's block.
ReceiptCandidatesAfter ==
    {Log[p].tx : p \in FirstRows({q \in Finalized :
                                    /\ q = FirstRowOf[Log[q].tx]
                                    /\ Log[q].block > cpReceipts
                                    /\ Log[q].tx \notin receipts}, ReceiptLimit)}

\* SELECT DISTINCT tx_hash ... NOT EXISTS tx_receipts.  The order inside a block
\* (by hash) is fixed; here it is that of the first event.
ReceiptCandidates ==
    {Log[p].tx : p \in FirstRows({q \in Finalized :
                                    /\ q = FirstRowOf[Log[q].tx]
                                    /\ Log[q].block >= cpReceipts
                                    /\ Log[q].tx \notin receipts}, ReceiptLimit)}

NoPass == [at |-> "asleep", todo |-> {}, open |-> {}, got |-> {}, upTo |-> 0]

ReceiptInit ==
    /\ receipts = {}
    /\ answers = [t \in Tx |-> "none"]
    /\ cpReceipts = 0
    /\ pass = NoPass

\* A batch outgrows a block (5000 transactions): it always gets past the nulls of
\* the checkpoint's block.
ASSUME BatchOutgrowsBlock ==
    \A b \in {Log[p].block : p \in Rows} :
        Cardinality({t \in Tx : BlockOfTx[t] = b}) < ReceiptLimit

-----------------------------------------------------------------------------
\* A pass with no candidate writes the checkpoint back (GREATEST leaves it) and
\* the loop sleeps.
ReceiptsIdle ==
    /\ pass.at \in {"asleep", "again"}
    /\ ReceiptCandidates = {}
    /\ pass' = NoPass
    /\ UNCHANGED <<receipts, answers, cpReceipts, logVars>>

\* Mutant of LastBlock: the block of the first candidate.
FirstBlock(S) == CHOOSE b \in {BlockOfTx[t] : t \in S} : \A t \in S : b <= BlockOfTx[t]

LastBlock(S) == CHOOSE b \in {BlockOfTx[t] : t \in S} : \A t \in S : BlockOfTx[t] <= b

ReceiptsStart ==
    /\ pass.at \in {"asleep", "again"}
    /\ ReceiptCandidates # {}
    /\ pass' = [NoPass EXCEPT !.at = "fetch", !.todo = ReceiptCandidates,
                              !.upTo = LastBlock(ReceiptCandidates)]
    /\ UNCHANGED <<receipts, answers, cpReceipts, logVars>>

\* buffer_unordered: a call starts while fewer than Fanout are in flight.
FetchStart(t) ==
    /\ pass.at = "fetch" /\ t \in pass.todo
    /\ Cardinality(pass.open) < Fanout
    /\ pass' = [pass EXCEPT !.todo = @ \ {t}, !.open = @ \cup {t}]
    /\ UNCHANGED <<receipts, answers, cpReceipts, logVars>>

\* An answer that is in the cache is the answer; otherwise the node gives one
\* and it is stored.
FetchDone(t, a) ==
    /\ pass.at = "fetch" /\ t \in pass.open
    /\ answers[t] \in {"none", a}
    /\ answers' = [answers EXCEPT ![t] = a]
    /\ pass' = [pass EXCEPT !.open = @ \ {t},
                            !.got = IF a = "null" THEN @ ELSE @ \cup {t}]
    /\ UNCHANGED <<receipts, cpReceipts, logVars>>

\* try_collect has every candidate: the rows in one statement ...
InsertReceipts ==
    /\ pass.at = "fetch" /\ pass.todo = {} /\ pass.open = {}
    /\ receipts' = receipts \cup pass.got
    /\ pass' = [pass EXCEPT !.at = "advance"]
    /\ UNCHANGED <<answers, cpReceipts, logVars>>

\* ... then the checkpoint, and the loop goes round without sleeping.
AdvanceReceipts ==
    /\ pass.at = "advance"
    /\ cpReceipts' = Greatest(cpReceipts, pass.upTo)
    /\ pass' = [NoPass EXCEPT !.at = "again"]
    /\ UNCHANGED <<receipts, answers, logVars>>

\* One call that fails drops the others and the pass; the loop sleeps.
ReceiptsFail ==
    /\ Fault
    /\ pass.at \in {"fetch", "advance"}
    /\ pass' = NoPass
    /\ UNCHANGED <<receipts, answers, cpReceipts>>

ReceiptsWork ==
    \/ ReceiptsIdle \/ ReceiptsStart \/ InsertReceipts \/ AdvanceReceipts
    \/ \E t \in Tx : FetchStart(t) \/ \E a \in {"receipt", "null"} : FetchDone(t, a)

ReceiptNext == ReceiptsWork \/ ReceiptsFail

ReceiptSpec ==
    /\ LogInit /\ ReceiptInit
    /\ [][ReceiptNext \/ (Finalize /\ UNCHANGED receiptVars)]_<<logVars, receiptVars>>

-----------------------------------------------------------------------------
ReceiptTypeOK ==
    /\ receipts \in SUBSET Tx
    /\ answers \in [Tx -> {"none", "receipt", "null"}]
    /\ cpReceipts \in Nat
    /\ pass \in [at : {"asleep", "again", "fetch", "advance"}, todo : SUBSET Tx,
                 open : SUBSET Tx, got : SUBSET Tx, upTo : Nat]

FinalizedTx == {Log[p].tx : p \in Finalized}

\* Below the checkpoint a transaction without a receipt is one the node answered
\* null: neither the batch limit, which may cut a block in two, nor a failed call
\* among concurrent ones drops a transaction whose receipt exists.
ReceiptsNothingSkipped ==
    \A t \in FinalizedTx :
        BlockOfTx[t] < cpReceipts => t \in receipts \/ answers[t] = "null"

ReceiptsComplete == \A t \in FinalizedTx : t \in receipts \/ answers[t] = "null"
=============================================================================
