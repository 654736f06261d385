--------------------------- MODULE PagedReads ---------------------------
(***************************************************************************)
(* The paged endpoints of livepeer-api.  A client walks one of them: each  *)
(* page is one statement over the rows that match at that moment, cut at a *)
(* cursor that holds the sort key of the last row of the page before.  In  *)
(* between the workers insert, withdraw and re-value rows.                 *)
(***************************************************************************)
EXTENDS Integers, FiniteSets, Sequences, Functions

CONSTANTS
  Rows,        \* the rows an endpoint may return
  Place,       \* what never changes of a sort key, by its rank: no two rows share it
  Values,      \* natural numbers: a row of value 0 does not match
  Valuations,  \* rows of event_valuations, in descending order of amount_usd
  EventOf,     \* [Valuations -> events]
  Limit,       \* the page size of the client
  MaxWrites    \* bound on the writes during the walk

\* An event has a valuation for each of its assets, at most as many as the overscan of
\* the list by amount allows for.
ASSUME PagesAssumption ==
  /\ IsFiniteSet(Rows) /\ Place \in [Rows -> 1..Cardinality(Rows)]
  /\ \A q, r \in Rows : Place[q] = Place[r] => q = r
  /\ IsFiniteSet(Values) /\ Values \subseteq Nat /\ 0 \in Values
  /\ IsFiniteSet(Valuations) /\ Valuations \subseteq Nat
  /\ \A v \in Valuations : Cardinality({w \in Valuations : EventOf[w] = EventOf[v]}) <= 4
  /\ Limit \in Nat \ {0} /\ MaxWrites \in Nat

VARIABLES
  endpoint,    \* the endpoint that is walked
  value,       \* the value of each row, 0 when it does not match
  cursor,      \* what the client sends with its next request
  walk,        \* "walking" | "ended"
  got,         \* the rows returned so far
  offset,      \* rows skipped by the next batch of an OFFSET statement
  standing,    \* history: rows that matched with the same key all along
  drops,       \* history: how often the value of a row went down
  writes

pageVars == <<endpoint, value, cursor, walk, got, offset, standing, drops, writes>>

-----------------------------------------------------------------------------
(* The endpoints: what they sort by, which way, when they give a next_cursor,
   and who writes the table below.  key = "place": (block_number, log_index) or
   the round; "value": a value that changes, descending, then the address.  Two
   endpoints with the same record page alike. *)
Endpoint(key, up, next, writer) == [key |-> key, up |-> up, next |-> next, writer |-> writer]

EventsUp == Endpoint("place", TRUE, "full", "ledger")
EventsDown == Endpoint("place", FALSE, "full", "ledger")
EventsByAmount == Endpoint("amount", TRUE, "offset", "ledger")
DelegatorEvents == Endpoint("place", FALSE, "last", "ledger")
RoundEvents == Endpoint("place", FALSE, "last", "ledger")
Votes == Endpoint("place", FALSE, "more", "ledger")
TicketHistory == Endpoint("place", FALSE, "more", "ledger")
RoundsIndex == Endpoint("place", FALSE, "last", "snapshots")
OrchDelegators == Endpoint("value", TRUE, "last", "rows")
DelegatorIndex == Endpoint("value", TRUE, "last", "rows")
PayoutLeaderboard == Endpoint("value", TRUE, "last", "rows")
RewardLeaderboard == Endpoint("value", TRUE, "more", "rows")
OrchestratorProfiles == Endpoint("value", TRUE, "last", "view")
GatewayProfiles == Endpoint("value", TRUE, "last", "view")

Endpoints == {EventsUp, EventsDown, EventsByAmount, DelegatorEvents, RoundEvents, Votes, TicketHistory,
              RoundsIndex, OrchDelegators, DelegatorIndex, PayoutLeaderboard, RewardLeaderboard,
              OrchestratorProfiles, GatewayProfiles}

RowsOf(e) == IF e.key = "amount" THEN Valuations ELSE Rows
ValuesOf(e) == IF e.key = "value" THEN Values ELSE {0, 1}
Matching == {r \in RowsOf(endpoint) : value[r] > 0}

\* The sort key of a row, as the cursor encodes it, as one number that falls along
\* the list: the value first, then the place or the address.
PlaceOf(r) == IF endpoint.key = "amount" THEN r ELSE Place[r]
TieBreak == 1 + Cardinality(Rows \cup Valuations)
KeyOfRow(r) == (IF endpoint.key = "value" THEN value[r] * TieBreak ELSE 0)
               + (IF endpoint.up THEN TieBreak - PlaceOf(r) ELSE PlaceOf(r))

\* No cursor: before every row.
Start == TieBreak * (1 + CHOOSE v \in Values : \A w \in Values : w <= v)

\* @mutant: a mutable key is compared without its tie-break.
FollowsByValue(k, c) ==
  IF endpoint.key = "value" THEN k \div TieBreak < c \div TieBreak ELSE k < c

\* @mutant: the row of the cursor is returned again.
FollowsOrIs(k, c) == k <= c

\* Strictly after the cursor in the order of the endpoint.
Follows(k, c) == k < c

\* The rows of S as ORDER BY returns them: the n-th has n - 1 before it.
Ahead(S, r) == {s \in S : KeyOfRow(s) > KeyOfRow(r)}
InOrder(S) == [n \in 1..Cardinality(S) |-> CHOOSE r \in S : Cardinality(Ahead(S, r)) = n - 1]
FirstOf(s, n) == SubSeq(s, 1, IF Len(s) < n THEN Len(s) ELSE n)

PageInit ==
  /\ endpoint \in Endpoints
  /\ value \in [RowsOf(endpoint) -> IF endpoint.key = "amount" THEN {1} ELSE ValuesOf(endpoint)]
  /\ cursor = Start /\ walk = "walking" /\ got = <<>> /\ offset = 0
  /\ standing = {r \in DOMAIN value : value[r] > 0}
  /\ drops = [r \in DOMAIN value |-> 0]
  /\ writes = 0

-----------------------------------------------------------------------------
\* @mutant: the cursor is taken from the row that is only fetched to see whether
\* there is more.
CursorBeyond(fetched) == KeyOfRow(fetched[Len(fetched)])

\* The cursor of a page: its last row, with the value this statement has seen.
CursorAt(fetched) == KeyOfRow(FirstOf(fetched, Limit)[Len(FirstOf(fetched, Limit))])

\* Whether a page that returned the rows fetched has a next_cursor.
HasNext(fetched) ==
  CASE endpoint.next = "full" -> Len(fetched) = Limit
    [] endpoint.next = "more" -> Len(fetched) > Limit
    [] OTHER -> fetched # <<>>

After == {r \in Matching : Follows(KeyOfRow(r), cursor)}

\* @mutant: an empty page answers with the cursor it was asked with.
AskPageEchoing ==
  /\ walk = "walking" /\ endpoint.key # "amount"
  /\ \E fetched \in {FirstOf(InOrder(After), Limit)} :
        /\ got' = got \o fetched
        /\ cursor' = IF fetched = <<>> THEN cursor ELSE CursorAt(fetched)
  /\ UNCHANGED <<endpoint, value, walk, offset, standing, drops, writes>>

\* One page.
AskPage ==
  /\ walk = "walking" /\ endpoint.key # "amount"
  /\ \E fetched \in {FirstOf(InOrder(After), IF endpoint.next = "more" THEN Limit + 1 ELSE Limit)} :
        /\ got' = got \o FirstOf(fetched, Limit)
        /\ walk' = IF HasNext(fetched) THEN "walking" ELSE "ended"
        /\ cursor' = IF HasNext(fetched) THEN CursorAt(fetched) ELSE cursor
  /\ UNCHANGED <<endpoint, value, offset, standing, drops, writes>>

\* @mutant: no overscan.
BatchSizeTight == Limit

\* Rows of one batch of the list by amount.
BatchSize == 4 * Limit

\* The first row of each event that is not in s yet, as far as the limit.
NewEvents(s, rows) ==
  LET listed == Range(rows)
      new == {r \in listed : \A q \in Range(s) \cup Ahead(listed, r) : EventOf[q] # EventOf[r]}
  IN  s \o FirstOf(InOrder(new), Limit - Len(s))

\* One batch of the list by amount, all of them within one request.
AskBatch ==
  /\ walk = "walking" /\ endpoint.key = "amount"
  /\ \E top \in {FirstOf(InOrder(Matching), offset + BatchSize)} :
     \E rows \in {SubSeq(top, offset + 1, Len(top))} : \E all \in {NewEvents(got, rows)} :
        /\ got' = all
        /\ walk' = IF Len(all) = Limit \/ Len(rows) < BatchSize THEN "ended" ELSE "walking"
        /\ offset' = IF walk' = "ended" THEN offset ELSE offset + BatchSize
  /\ UNCHANGED <<endpoint, value, cursor, standing, drops, writes>>

-----------------------------------------------------------------------------
Writes(after) ==
  /\ writes < MaxWrites /\ writes' = writes + 1 /\ walk = "walking"
  /\ value' = after
  /\ standing' = {r \in standing : after[r] = value[r]}
  /\ drops' = [r \in DOMAIN value |-> drops[r] + IF after[r] < value[r] THEN 1 ELSE 0]
  /\ UNCHANGED <<endpoint, cursor, walk, got, offset>>

\* An event is ingested, finalized or valued, anywhere in the order of the
\* blocks, or its block is withdrawn.
LedgerChanges ==
  /\ endpoint.writer = "ledger"
  /\ \E r \in DOMAIN value : Writes([value EXCEPT ![r] = 1 - @])

\* The profile worker inserts the snapshots of a round.
RoundAppears ==
  /\ endpoint.writer = "snapshots"
  /\ \E r \in DOMAIN value : value[r] = 0 /\ Writes([value EXCEPT ![r] = 1])

\* A stake row or a daily aggregate is upserted.
RowUpserted ==
  /\ endpoint.writer = "rows"
  /\ \E r \in DOMAIN value, v \in Values : v # value[r] /\ Writes([value EXCEPT ![r] = v])

\* REFRESH MATERIALIZED VIEW: all rows at once.
ViewRefreshed ==
  /\ endpoint.writer = "view"
  /\ \E f \in [DOMAIN value -> Values] : f # value /\ Writes(f)

PageNext == AskPage \/ AskBatch \/ LedgerChanges \/ RoundAppears \/ RowUpserted \/ ViewRefreshed

\* The client follows next_cursor to the end.
PageFairness == WF_pageVars(AskPage \/ AskBatch)

PageSpec == PageInit /\ [][PageNext]_pageVars /\ PageFairness

-----------------------------------------------------------------------------
Times(r) == Cardinality({i \in 1..Len(got) : got[i] = r})

(* A walk returns every row that matched from its first page to its last, with
   the key it had, exactly once, whatever else came, went or moved; a row comes
   again only where its value has gone down in between, an event of the ledger
   never; and the list by amount needs no second OFFSET batch, which would see
   another state of the table. *)
PagesAreExact ==
  /\ walk = "ended" /\ endpoint.key # "amount" => \A r \in standing : Times(r) = 1
  /\ \A r \in DOMAIN value : Times(r) <= IF endpoint.key = "value" THEN 1 + drops[r] ELSE 1
  /\ offset = 0
=============================================================================
