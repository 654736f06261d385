------------------------------ MODULE Valuator ------------------------------
(***************************************************************************)
(* livepeer-valuator: run_all = seed pass, then the ETH, LPT and MULTI     *)
(* on-chain passes, over the rows the finality feed delivers.  Each on-    *)
(* chain pass scans the finalized rows above its cursor, prices them one   *)
(* by one into buffers, flushes the buffers table by table, and finally    *)
(* moves its cursor.  Only the valuator writes the tables modelled here.   *)
(*                                                                         *)
(* A row of event_valuations / valuation_attempts is [ev, asset, status];  *)
(* "degraded" rows carry the degraded sibling version, all others the      *)
(* version run_all was called with (the configured default, which is also  *)
(* the version price_lpt_amount hard-codes for TWAP prices).               *)
(***************************************************************************)
EXTENDS FinalityFeed, FiniteSets

CONSTANTS
    Class,           \* [Events -> {"ETH", "LPT", "MULTI"}]: asset, or asset IS NULL
    Seeds,           \* events whose (tx_hash, asset) the seed source covers
    Lookback,        \* DEFAULT_LOOKBACK_SECS
    MaxPass,         \* longest time one on-chain pass takes
    FlushThreshold,  \* FLUSH_THRESHOLD
    MaxFaults        \* bound on aborts, transient errors, reorgs and resets

Passes == {"ETH", "LPT", "MULTI"}

ASSUME ValuatorAssumption ==
    /\ IsFiniteSet(Events)
    /\ Class \in [Events -> Passes]
    /\ Seeds \subseteq {e \in Events : Class[e] # "MULTI"}
    /\ Lookback \in Nat /\ MaxPass \in Nat
    /\ FlushThreshold \in Nat \ {0} /\ MaxFaults \in Nat

VARIABLES
    stage,       \* the pass run_all is in: "SEED" or one of Passes
    pc,          \* position inside the pass
    todo,        \* candidates of the pass not priced yet
    buf,         \* BulkBuffers: outcome rows not flushed yet
    minUnres,    \* oldest finalized_at left unresolved, 0 = None
    frontier,    \* the frontier read at the end of the pass, 0 = None
    scanAt,      \* history: when the candidates were selected
    cursor,      \* valuator_cursors: [Passes -> Nat], 0 = no row
    valuations,  \* event_valuations
    prices,      \* token_prices_by_block: the <<event, asset>> whose price rows exist
    attempts,    \* valuation_attempts
    seeded,      \* seeded_event_prices
    seedCount,   \* cur_seed_count of the running seed pass
    seedMark,    \* seed_max_id of the SEED row, -1 = no row
    faults

passVars  == <<stage, pc, todo, buf, minUnres, frontier, scanAt>>
tableVars == <<cursor, valuations, prices, attempts>>
seedVars  == <<seeded, seedCount, seedMark>>
vars == <<feedVars, passVars, tableVars, seedVars, faults>>

Assets   == {"ETH", "LPT"}
Terminal == {"priced", "zero", "degraded", "failed", "seed"}
Outcomes == [ev : Events, asset : Assets, status : Terminal]

TypeOK ==
    /\ FeedTypeOK
    /\ stage \in Passes \cup {"SEED"}
    /\ pc \in {"idle", "pricing", "valuations", "prices", "attempts",
               "frontier", "advance"}
    /\ todo \subseteq Events
    /\ buf \subseteq Outcomes
    /\ minUnres \in Nat /\ frontier \in Nat /\ scanAt \in Nat
    /\ cursor \in [Passes -> Nat]
    /\ valuations \subseteq Outcomes
    /\ prices \subseteq Events \X Assets
    /\ attempts \subseteq Outcomes
    /\ seeded \subseteq Seeds
    /\ seedCount \in Int /\ seedMark \in Int
    /\ faults \in Nat

-----------------------------------------------------------------------------
(* What an event is valued in, and what is still missing.                  *)

Parts(e) == IF Class[e] = "MULTI" THEN Assets ELSE {Class[e]}

\* The anti-joins of fetch_eth_candidates, fetch_lpt_candidates and
\* fetch_candidates: no valuation row and no failed attempt for a part.
PartUnresolved(e, a) ==
    /\ \A v \in valuations : ~(v.ev = e /\ v.asset = a)
    /\ \A t \in attempts : ~(t.ev = e /\ t.asset = a /\ t.status = "failed")

Unresolved(e) == \E a \in Parts(e) : PartUnresolved(e, a)

HasValuations == \E v \in valuations : v.status # "degraded"

\* Mutant of ScanFloor: the scan resumes just after the watermark.
ScanAfterCursor(p) ==
    IF cursor[p] = 0 \/ ~HasValuations THEN 0 ELSE cursor[p] + 1

\* scan_floor; 0 is the epoch.
ScanFloor(p) ==
    IF cursor[p] = 0 \/ ~HasValuations THEN 0 ELSE cursor[p] - Lookback

Candidates(p) ==
    {e \in Finalized : /\ Class[e] = p
                       /\ finalizedAt[e] >= ScanFloor(p)
                       /\ Unresolved(e)}

\* frontier_for_asset, frontier_multi: MAX(finalized_at), 0 if there is none.
IsFrontier(p, f) ==
    LET universe == {e \in Finalized : Class[e] = p}
    IN  /\ \A e \in universe : finalizedAt[e] <= f
        /\ universe = {} => f = 0
        /\ universe # {} => \E e \in universe : f = finalizedAt[e]

\* Mutant of NextWatermark: the oldest unresolved event is ignored.
FrontierOnly(m, f) == f

\* next_watermark
NextWatermark(m, f) == IF m = 0 \/ f < m THEN f ELSE m

\* INSERT ... ON CONFLICT (event_id, valuation_version, asset) DO NOTHING
SameKey(v, w) ==
    /\ v.ev = w.ev /\ v.asset = w.asset
    /\ (v.status = "degraded") <=> (w.status = "degraded")

\* Mutant of InsertNew: ON CONFLICT DO UPDATE.
Upsert(table, rows) ==
    {v \in table : \A r \in rows : ~SameKey(v, r)} \cup rows

InsertNew(table, rows) ==
    table \cup {r \in rows : \A v \in table : ~SameKey(v, r)}

\* Pricing one part on chain: an ETH part is priced or fails for good; an LPT
\* part may also be priced degraded; a zero part occurs in MULTI events only.
PartOutcomes(e, a) ==
    {"priced", "failed"}
      \cup (IF a = "LPT" THEN {"degraded"} ELSE {})
      \cup (IF Class[e] = "MULTI" THEN {"zero"} ELSE {})

\* Price rows pushed with an outcome: three for a priced LPT part, one for ETH.
PriceKeys(rows) ==
    {<<r.ev, r.asset>> : r \in {x \in rows : x.status \in {"priced", "degraded"}}}

PriceRowCount(rows) ==
    LET keys == PriceKeys(rows)
    IN  Cardinality(keys) + 2 * Cardinality({k \in keys : k[2] = "LPT"})

FlushDue(rows) ==
    \/ Cardinality(rows) >= FlushThreshold
    \/ PriceRowCount(rows) >= FlushThreshold

NextStage ==
    [SEED |-> "ETH", ETH |-> "LPT", LPT |-> "MULTI", MULTI |-> "SEED"]
-----------------------------------------------------------------------------
Init ==
    /\ FeedInit
    /\ stage = "SEED" /\ pc = "idle"
    /\ todo = {} /\ buf = {}
    /\ minUnres = 0 /\ frontier = 0 /\ scanAt = 0
    /\ cursor = [p \in Passes |-> 0]
    /\ valuations = {} /\ prices = {} /\ attempts = {}
    /\ seeded = {} /\ seedCount = 0 /\ seedMark = -1
    /\ faults = 0

(* The environment. *)

\* A pass takes at most MaxPass: the one assumption the lookback rests on.
Clock ==
    /\ Tick
    /\ pc # "idle" /\ stage # "SEED" => clock < scanAt + MaxPass
    /\ UNCHANGED <<passVars, tableVars, seedVars, faults>>

Feed ==
    /\ BeginFinalize \/ CommitFinalize
    /\ UNCHANGED <<passVars, tableVars, seedVars, faults>>

Reorg ==
    /\ faults < MaxFaults
    /\ MarkNonCanonical
    /\ faults' = faults + 1
    /\ UNCHANGED <<passVars, tableVars, seedVars>>

\* livepeer-seed-migrator imports seeds (append-only).
ImportSeeds ==
    /\ seeded # Seeds
    /\ \E s \in SUBSET Seeds : seeded \subseteq s /\ seeded # s /\ seeded' = s
    /\ UNCHANGED <<feedVars, passVars, tableVars, seedCount, seedMark, faults>>

(* The seed pass. *)

SeedCandidates ==
    {e \in Finalized \cap seeded :
        \A v \in valuations : ~(v.ev = e /\ v.asset = Class[e]
                                         /\ v.status # "degraded")}

\* The row count is read and compared with the stored marker before any scan.
SeedGate ==
    /\ stage = "SEED" /\ pc = "idle"
    /\ IF HasValuations /\ seedMark = Cardinality(seeded)
       THEN stage' = "ETH" /\ pc' = "idle" /\ UNCHANGED seedCount
       ELSE stage' = "SEED" /\ pc' = "pricing" /\ seedCount' = Cardinality(seeded)
    /\ UNCHANGED <<feedVars, todo, buf, minUnres, frontier, scanAt, tableVars,
                   seeded, seedMark, faults>>

\* One statement inserts a batch of valuations with their attempts.
SeedBatch ==
    /\ stage = "SEED" /\ pc = "pricing"
    /\ \E batch \in (SUBSET SeedCandidates) \ {{}} :
          LET rows == {[ev |-> e, asset |-> Class[e], status |-> "seed"] :
                          e \in batch}
          IN  /\ valuations' = InsertNew(valuations, rows)
              /\ attempts' = attempts \cup rows
    /\ UNCHANGED <<feedVars, passVars, cursor, prices, seedVars, faults>>

\* No candidate is left: record_seed_marker stores the count read at the start.
SeedDone ==
    /\ stage = "SEED" /\ pc = "pricing"
    /\ SeedCandidates = {}
    /\ seedMark' = seedCount /\ seedCount' = 0
    /\ stage' = "ETH" /\ pc' = "idle"
    /\ UNCHANGED <<feedVars, todo, buf, minUnres, frontier, scanAt, tableVars,
                   seeded, faults>>

(* The three on-chain passes. *)

\* The locals of a pass die with it.
LeavePass ==
    /\ todo' = {} /\ buf' = {}
    /\ minUnres' = 0 /\ frontier' = 0 /\ scanAt' = 0

StartPass ==
    /\ stage \in Passes /\ pc = "idle"
    /\ todo' = Candidates(stage)
    /\ scanAt' = clock
    /\ pc' = "pricing"
    /\ UNCHANGED <<feedVars, stage, buf, minUnres, frontier, tableVars, seedVars,
                   faults>>

\* Every part reaches a terminal outcome.
PriceDone(e) ==
    /\ stage \in Passes /\ pc = "pricing" /\ e \in todo
    /\ \E out \in [Parts(e) -> Terminal] :
          /\ \A a \in Parts(e) : out[a] \in PartOutcomes(e, a)
          /\ buf' = buf \cup {[ev |-> e, asset |-> a, status |-> out[a]] :
                                 a \in Parts(e)}
    /\ todo' = todo \ {e}
    /\ pc' = IF FlushDue(buf') THEN "valuations" ELSE "pricing"
    /\ UNCHANGED <<feedVars, stage, minUnres, frontier, scanAt, tableVars,
                   seedVars, faults>>

\* The parts in bad hit a retryable error: they leave no row, and pin the cursor.
PriceTransient(e) ==
    /\ stage \in Passes /\ pc = "pricing" /\ e \in todo
    /\ faults < MaxFaults
    /\ \E bad \in SUBSET Parts(e), out \in [Parts(e) -> Terminal] :
          /\ bad # {}
          /\ \A a \in Parts(e) : out[a] \in PartOutcomes(e, a)
          /\ buf' = buf \cup {[ev |-> e, asset |-> a, status |-> out[a]] :
                                 a \in Parts(e) \ bad}
    /\ todo' = todo \ {e}
    /\ minUnres' = IF minUnres = 0 \/ finalizedAt[e] < minUnres
                   THEN finalizedAt[e] ELSE minUnres
    /\ faults' = faults + 1
    /\ pc' = IF FlushDue(buf') THEN "valuations" ELSE "pricing"
    /\ UNCHANGED <<feedVars, stage, frontier, scanAt, tableVars, seedVars>>

\* The loop is over: the final flush, which skips empty buffers.
PassDrained ==
    /\ stage \in Passes /\ pc = "pricing" /\ todo = {}
    /\ pc' = IF buf = {} THEN "frontier" ELSE "valuations"
    /\ UNCHANGED <<feedVars, stage, todo, buf, minUnres, frontier, scanAt,
                   tableVars, seedVars, faults>>

\* Mutant of FlushValuations: the attempts are written first.
FlushAttemptsFirst ==
    /\ pc = "valuations"
    /\ attempts' = attempts \cup buf
    /\ pc' = "prices"
    /\ UNCHANGED <<feedVars, stage, todo, buf, minUnres, frontier, scanAt,
                   cursor, prices, valuations, seedVars, faults>>

\* flush: one statement per table, in this order, with no transaction.
FlushValuations ==
    /\ pc = "valuations"
    /\ valuations' = InsertNew(valuations, buf)
    /\ pc' = "prices"
    /\ UNCHANGED <<feedVars, stage, todo, buf, minUnres, frontier, scanAt,
                   cursor, prices, attempts, seedVars, faults>>

FlushPrices ==
    /\ pc = "prices"
    /\ prices' = prices \cup PriceKeys(buf)
    /\ pc' = "attempts"
    /\ UNCHANGED <<feedVars, stage, todo, buf, minUnres, frontier, scanAt,
                   cursor, valuations, attempts, seedVars, faults>>

FlushAttempts ==
    /\ pc = "attempts"
    /\ attempts' = attempts \cup buf
    /\ buf' = {}
    /\ pc' = IF todo = {} THEN "frontier" ELSE "pricing"
    /\ UNCHANGED <<feedVars, stage, todo, minUnres, frontier, scanAt,
                   cursor, valuations, prices, seedVars, faults>>

\* The frontier is read after the pass, not when its candidates were selected.
ReadFrontier ==
    /\ pc = "frontier"
    /\ \E f \in {finalizedAt[e] : e \in Events} \cup {0} :
          IsFrontier(stage, f) /\ frontier' = f
    /\ pc' = "advance"
    /\ UNCHANGED <<feedVars, stage, todo, buf, minUnres, scanAt, tableVars,
                   seedVars, faults>>

Advance ==
    /\ pc = "advance"
    /\ cursor' = IF frontier = 0 THEN cursor
                 ELSE [cursor EXCEPT ![stage] = NextWatermark(minUnres, frontier)]
    /\ stage' = NextStage[stage] /\ pc' = "idle"
    /\ LeavePass
    /\ UNCHANGED <<feedVars, valuations, prices, attempts, seedVars, faults>>

\* A database error (the "?" of any statement), a panic or a killed process ends
\* run_all; the supervisor starts it again from the seed pass, with no buffers.
Abort ==
    /\ pc # "idle" /\ faults < MaxFaults
    /\ stage' = "SEED" /\ pc' = "idle"
    /\ LeavePass
    /\ seedCount' = 0
    /\ faults' = faults + 1
    /\ UNCHANGED <<feedVars, tableVars, seeded, seedMark>>

\* orchestrator replay --keep-raw-events: the derived tables and every cursor
\* are truncated while no valuator runs.
TruncateForReplay ==
    /\ stage = "SEED" /\ pc = "idle" /\ faults < MaxFaults
    /\ cursor' = [p \in Passes |-> 0]
    /\ valuations' = {} /\ prices' = {} /\ attempts' = {}
    /\ seedMark' = -1
    /\ faults' = faults + 1
    /\ UNCHANGED <<feedVars, passVars, seeded, seedCount>>

Worker ==
    \/ SeedGate \/ SeedBatch \/ SeedDone
    \/ StartPass \/ PassDrained \/ (\E e \in Events : PriceDone(e))
    \/ FlushValuations \/ FlushPrices \/ FlushAttempts
    \/ ReadFrontier \/ Advance

Next ==
    \/ Clock \/ Feed \/ Reorg \/ ImportSeeds
    \/ Worker
    \/ (\E e \in Events : PriceTransient(e))
    \/ Abort \/ TruncateForReplay

Spec == Init /\ [][Next]_vars

\* The supervisor keeps run_all running, and run_all never waits for anything.
FairSpec == Spec /\ WF_vars(Worker)
-----------------------------------------------------------------------------
(* Properties. *)

\* Between two scans of a pass, every finalized canonical event of the pass that
\* still lacks an outcome lies above the floor the next scan will use: the cursor
\* only narrows the scan (cursor.rs: "never 'skips work'").
NoSkippedWork ==
    \A e \in Finalized :
        (Unresolved(e) /\ (stage # Class[e] \/ pc = "idle"))
            => finalizedAt[e] >= ScanFloor(Class[e])

\* A failed attempt suppresses every later retry, so it must never be visible
\* before the outcome row it is paired with: otherwise a crash between the two
\* flush statements leaves an event with no event_valuations row for good.
AttemptHasOutcomeRow ==
    \A t \in attempts :
        \E v \in valuations : v.ev = t.ev /\ v.asset = t.asset

\* The action property behind "valuations are immutable": outside a replay reset
\* no event_valuations row is ever changed or removed, and no key gets a second
\* row, whatever re-pricing a retried half of a multi-asset event produces.
ValuationsImmutable ==
    [][ \/ valuations' = {}
        \/ /\ valuations \subseteq valuations'
           /\ \A v, w \in valuations' : SameKey(v, w) => v = w ]_vars

\* Every finalized event that stays canonical is eventually resolved.
EventuallyResolved ==
    \A e \in Events :
        (e \in Finalized) ~> (e \notin canonical \/ ~Unresolved(e))
-----------------------------------------------------------------------------
(* The inductive invariant behind NoSkippedWork, AttemptHasOutcomeRow and   *)
(* ValuationsImmutable; it is inductive when LookbackCovers holds.         *)

\* The ten minutes of DEFAULT_LOOKBACK_SECS cover one pass and one UPDATE.
LookbackCovers == MaxPass + MaxCommit <= Lookback

InPass == stage \in Passes /\ pc # "idle"

TimeInv ==
    /\ \A e \in Events : finalizedAt[e] <= clock
    /\ stmt <= clock
    /\ stmt > 0 => clock <= stmt + MaxCommit
    /\ frontier <= clock
    /\ \A p \in Passes : cursor[p] <= clock
    /\ InPass => scanAt <= clock /\ clock <= scanAt + MaxPass

\* No cursor is further than the lookback above an event that needs work.
ReachInv ==
    \A e \in Finalized :
        Unresolved(e) => cursor[Class[e]] <= finalizedAt[e] + Lookback

Buffered(e, a) == \E r \in buf : r.ev = e /\ r.asset = a

\* What the running pass knows of an event that needs work: it is still to be
\* priced, or its missing parts are in the buffers, or it pins the watermark,
\* or its UPDATE was open or started after the candidates were selected.
Accounted(e) ==
    \/ e \in todo
    \/ \A a \in Parts(e) : PartUnresolved(e, a) => Buffered(e, a)
    \/ 0 < minUnres /\ minUnres <= finalizedAt[e]
    \/ scanAt <= finalizedAt[e] + MaxCommit

AccountInv ==
    InPass => \A e \in Finalized :
                 Class[e] = stage /\ Unresolved(e) => Accounted(e)

\* Where the locals of a pass stand at each point of it.
LocalInv ==
    /\ \A e \in todo : finalizedAt[e] > 0
    /\ pc \notin {"idle", "pricing"} => stage \in Passes
    /\ pc \in {"frontier", "advance"} => todo = {} /\ buf = {}
    /\ pc \in {"prices", "attempts"} =>
          \A r \in buf : \E v \in valuations : v.ev = r.ev /\ v.asset = r.asset

\* No key of event_valuations has two rows, and the buffers hold one row per part
\* of events the pass has taken off its list, so no INSERT can bring two.
KeyInv ==
    /\ \A v, w \in valuations : SameKey(v, w) => v = w
    /\ \A r, s \in buf : r.ev = s.ev /\ r.asset = s.asset => r = s
    /\ \A r \in buf : r.ev \notin todo
    /\ ~InPass => buf = {}

\* The conjunction is preserved by every step of the valuator and of the feed.
IInv ==
    /\ TypeOK /\ TimeInv /\ ReachInv
    /\ AccountInv /\ LocalInv /\ AttemptHasOutcomeRow /\ KeyInv
=============================================================================
