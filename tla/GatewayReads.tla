-------------------------- MODULE GatewayReads --------------------------
(***************************************************************************)
(* The balance of a gateway, read through by the API.  A request looks for *)
(* a materialized row, then for the last indexed touch, and at last calls  *)
(* the archive node through the call cache and persists what it read, at   *)
(* whatever block that was.  The staker fills the same table for the       *)
(* finalized touches, through the same cache.                              *)
(* The ledger is right here: blocks are replaced only above its tip.       *)
(***************************************************************************)
EXTENDS Integers, FiniteSets, FiniteSetsExt

CONSTANTS
  TopBlock,    \* bound on the blocks
  Touched,     \* {<<block, version>>}: the versions of blocks with a touch
  Requests,    \* clients of the API
  Staker,      \* the balance axis of the staker
  LatestTag,   \* "balance/latest"
  MaxReorgs,   \* bound on the versions of a block
  None

ASSUME GatewayReadsAssumption ==
  /\ TopBlock \in Nat \ {0} /\ MaxReorgs \in Nat
  /\ Staker \notin Requests /\ LatestTag \notin Nat /\ None \notin Nat \cup (Nat \X Nat)

VARIABLES
  head,        \* the head of the node
  version,     \* which version of each block the node has
  tip,         \* the ledger is complete up to here
  finalTip,    \* ... and finalized up to here
  callCache,   \* rpc_call_cache: the response of the call at each block
  balanceRow,  \* gateway_balances_by_block
  caller,      \* the requests and the staker
  done,        \* the staker's checkpoint
  early        \* history: blocks whose balance was read before they were in the ledger

gatewayReadVars == <<head, version, tip, finalTip, callCache, balanceRow, caller, done, early>>

-----------------------------------------------------------------------------
HeightsTo(n) == 1..n
Readers == Requests \cup {Staker}
Touches(b) == {c \in HeightsTo(b) : <<c, version[c]>> \in Touched}

\* What the contract answers at a block: it changes with each touch, and
\* another version of a touch leaves another balance.
Balance(b) == IF Touches(b) = {} THEN <<0, 0>> ELSE <<Max(Touches(b)), version[Max(Touches(b))]>>

\* The rows a request may be answered from.
RowsAt(at) == {c \in HeightsTo(TopBlock) : balanceRow[c] # None /\ (at = LatestTag \/ c <= at)}

NoRequest == [stage |-> "idle", at |-> 0, block |-> 0, value |-> None, hash |-> None]

ReadsInit ==
  /\ head = 1 /\ tip = 0 /\ finalTip = 0 /\ done = 0 /\ early = {}
  /\ version = [b \in HeightsTo(TopBlock) |-> 0]
  /\ callCache = [b \in HeightsTo(TopBlock) |-> None]
  /\ balanceRow = [b \in HeightsTo(TopBlock) |-> None]
  /\ caller = [c \in Readers |-> NoRequest]

Moves(c, to) == caller' = [caller EXCEPT ![c] = to]
Answered(c, v) == [NoRequest EXCEPT !.stage = "answered", !.at = caller[c].at, !.value = v]

-----------------------------------------------------------------------------
(* The chain and the ledger *)
NodeAdvances ==
  /\ head < TopBlock /\ head' = head + 1
  /\ UNCHANGED <<version, tip, finalTip, callCache, balanceRow, caller, done, early>>

NodeReorgs ==
  /\ \E b \in HeightsTo(head) :
       /\ b > tip /\ version[head] < MaxReorgs
       /\ version' = [c \in DOMAIN version |-> IF c >= b THEN version[c] + 1 ELSE version[c]]
  /\ UNCHANGED <<head, tip, finalTip, callCache, balanceRow, caller, done, early>>

LedgerFollows ==
  /\ \/ tip < head /\ tip' = tip + 1 /\ UNCHANGED finalTip
     \/ finalTip < tip /\ finalTip' = finalTip + 1 /\ UNCHANGED tip
  /\ UNCHANGED <<head, version, callCache, balanceRow, caller, done, early>>

-----------------------------------------------------------------------------
(* balance/latest and balance/block/{block} *)
AskBalance(c) ==
  /\ c \in Requests /\ caller[c].stage \in {"idle", "answered"}
  /\ \E at \in HeightsTo(TopBlock) \cup {LatestTag} : Moves(c, [NoRequest EXCEPT !.stage = "rows", !.at = at])
  /\ UNCHANGED <<head, version, tip, finalTip, callCache, balanceRow, done, early>>

\* @mutant: the row of any block will do.
LookUpAny(c) ==
  /\ caller[c].stage = "rows"
  /\ LET rows == RowsAt(LatestTag) IN
     Moves(c, IF rows = {} THEN [caller[c] EXCEPT !.stage = "touch"]
              ELSE Answered(c, balanceRow[Max(rows)].value))
  /\ UNCHANGED <<head, version, tip, finalTip, callCache, balanceRow, done, early>>

LookUp(c) ==
  /\ caller[c].stage = "rows"
  /\ LET rows == RowsAt(caller[c].at) IN
     Moves(c, IF rows = {} THEN [caller[c] EXCEPT !.stage = "touch"]
              ELSE Answered(c, balanceRow[Max(rows)].value))
  /\ UNCHANGED <<head, version, tip, finalTip, callCache, balanceRow, done, early>>

\* The last canonical touch, of any finality; without one, the block itself.
FindTouch(c) ==
  /\ caller[c].stage = "touch"
  /\ LET touches == {b \in Touches(tip) : caller[c].at = LatestTag \/ b <= caller[c].at} IN
     Moves(c, IF touches # {} THEN [caller[c] EXCEPT !.stage = "again", !.block = Max(touches),
                                                     !.hash = <<Max(touches), version[Max(touches)]>>]
              ELSE IF caller[c].at = LatestTag THEN [caller[c] EXCEPT !.stage = "head"]
              ELSE [caller[c] EXCEPT !.stage = "call", !.block = caller[c].at])
  /\ UNCHANGED <<head, version, tip, finalTip, callCache, balanceRow, done, early>>

LookUpAgain(c) ==
  /\ caller[c].stage = "again"
  /\ LET rows == RowsAt(caller[c].block) IN
     Moves(c, IF rows = {} THEN [caller[c] EXCEPT !.stage = "call"]
              ELSE Answered(c, balanceRow[Max(rows)].value))
  /\ UNCHANGED <<head, version, tip, finalTip, callCache, balanceRow, done, early>>

ReadHead(c) ==
  /\ caller[c].stage = "head"
  /\ Moves(c, [caller[c] EXCEPT !.stage = "call", !.block = head])
  /\ UNCHANGED <<head, version, tip, finalTip, callCache, balanceRow, done, early>>

-----------------------------------------------------------------------------
(* getSenderInfo and isUnlockInProgress at a block, through the cache *)
AfterCall(c) == IF caller[c].hash = None THEN "header" ELSE "persist"

\* @mutant: the call is made at the head of the node, whatever the block.
CallLatest(c) ==
  /\ caller[c].stage = "call" /\ caller[c].block <= head
  /\ LET b == caller[c].block IN
     IF callCache[b] # None
     THEN Moves(c, [caller[c] EXCEPT !.stage = AfterCall(c), !.value = callCache[b]]) /\ UNCHANGED early
     ELSE /\ Moves(c, [caller[c] EXCEPT !.stage = "store", !.value = Balance(head)])
          /\ early' = early \cup IF b > tip THEN {b} ELSE {}
  /\ UNCHANGED <<head, version, tip, finalTip, callCache, balanceRow, done>>

CallNode(c) ==
  /\ caller[c].stage = "call" /\ caller[c].block <= head
  /\ LET b == caller[c].block IN
     IF callCache[b] # None
     THEN Moves(c, [caller[c] EXCEPT !.stage = AfterCall(c), !.value = callCache[b]]) /\ UNCHANGED early
     ELSE /\ Moves(c, [caller[c] EXCEPT !.stage = "store", !.value = Balance(b)])
          /\ early' = early \cup IF b > tip THEN {b} ELSE {}
  /\ UNCHANGED <<head, version, tip, finalTip, callCache, balanceRow, done>>

\* ON CONFLICT DO NOTHING: a caller that comes second goes on with its own bytes.
StoreCall(c) ==
  /\ caller[c].stage = "store"
  /\ callCache' = [callCache EXCEPT ![caller[c].block] = IF @ = None THEN caller[c].value ELSE @]
  /\ Moves(c, [caller[c] EXCEPT !.stage = AfterCall(c)])
  /\ UNCHANGED <<head, version, tip, finalTip, balanceRow, done, early>>

\* The header of a block without a touch is read outside the cache.
ReadHeader(c) ==
  /\ caller[c].stage = "header"
  /\ Moves(c, [caller[c] EXCEPT !.stage = "persist", !.hash = <<caller[c].block, version[caller[c].block]>>])
  /\ UNCHANGED <<head, version, tip, finalTip, callCache, balanceRow, done, early>>

\* The upsert of the request, and of the staker, whose checkpoint follows.
Persist(c) ==
  /\ caller[c].stage = "persist"
  /\ balanceRow' = [balanceRow EXCEPT ![caller[c].block] = [value |-> caller[c].value, hash |-> caller[c].hash]]
  /\ IF c = Staker THEN Moves(c, NoRequest) /\ done' = caller[c].block
     ELSE Moves(c, Answered(c, caller[c].value)) /\ UNCHANGED done
  /\ UNCHANGED <<head, version, tip, finalTip, callCache, early>>

\* @mutant: the staker takes touches the finality-watcher has not reached.
StakerTakesAny ==
  /\ caller[Staker] = NoRequest
  /\ LET touches == {b \in Touches(tip) : b > done} IN
     /\ touches # {}
     /\ Moves(Staker, [NoRequest EXCEPT !.stage = "call", !.block = Min(touches),
                                   !.hash = <<Min(touches), version[Min(touches)]>>])
  /\ UNCHANGED <<head, version, tip, finalTip, callCache, balanceRow, done, early>>

\* The next finalized touch.
StakerTakes ==
  /\ caller[Staker] = NoRequest
  /\ LET touches == {b \in Touches(finalTip) : b > done} IN
     /\ touches # {}
     /\ Moves(Staker, [NoRequest EXCEPT !.stage = "call", !.block = Min(touches),
                                   !.hash = <<Min(touches), version[Min(touches)]>>])
  /\ UNCHANGED <<head, version, tip, finalTip, callCache, balanceRow, done, early>>

\* The node or the database fails, or the node has no such block yet: the
\* request gets an error, the staker starts again at its checkpoint.
ReadFails(c) ==
  /\ caller[c].stage \notin {"idle", "answered"}
  /\ Moves(c, NoRequest)
  /\ UNCHANGED <<head, version, tip, finalTip, callCache, balanceRow, done, early>>

CallerSteps(c) ==
  \/ LookUp(c) \/ FindTouch(c) \/ LookUpAgain(c) \/ ReadHead(c)
  \/ CallNode(c) \/ StoreCall(c) \/ ReadHeader(c) \/ Persist(c)

ReadsNext ==
  \/ NodeAdvances \/ NodeReorgs \/ LedgerFollows \/ StakerTakes
  \/ \E c \in Readers : AskBalance(c) \/ CallerSteps(c) \/ ReadFails(c)

ReadsSpec == ReadsInit /\ [][ReadsNext]_gatewayReadVars

-----------------------------------------------------------------------------
Versions == 0..MaxReorgs
Balances == (0..TopBlock) \X Versions
Stages == {"idle", "rows", "touch", "again", "head", "call", "store", "header", "persist", "answered"}

(* Types, with the order of the tips: the staker never comes past finality, and
   the cache and the table hold no block the node has not had. *)
ReadsTypeOK ==
  /\ head \in 1..TopBlock /\ tip \in 0..head /\ finalTip \in 0..tip /\ done \in 0..finalTip
  /\ version \in [HeightsTo(TopBlock) -> Versions]
  /\ callCache \in [HeightsTo(TopBlock) -> Balances \cup {None}]
  /\ \A b \in HeightsTo(TopBlock) : balanceRow[b] # None =>
       b <= head /\ callCache[b] # None /\ balanceRow[b] \in [value : Balances, hash : Balances]
  /\ \A c \in Readers : caller[c].stage \in Stages /\ caller[c].value \in Balances \cup {None}
  /\ early \subseteq HeightsTo(head)

(* An answer for block b never tells of a touch after b, whichever row, touch or
   call it came from. *)
AnswersNotAhead ==
  \A c \in Requests :
    caller[c].stage = "answered" /\ caller[c].at # LatestTag => caller[c].value[1] <= caller[c].at

(* A row of a block that nobody read before it was in the ledger holds the balance
   of that block: the cached call, the touch and the upsert belong together. *)
ExactUnlessReadEarly ==
  \A b \in HeightsTo(tip) : balanceRow[b] # None /\ b \notin early => balanceRow[b].value = Balance(b)

(* The row of a finalized touch holds the balance of its block. *)
FinalRowsAreExact ==
  \A b \in HeightsTo(done) : balanceRow[b] # None => balanceRow[b].value = Balance(b)
=============================================================================
