---------------------------- MODULE EnsEnricher ----------------------------
(***************************************************************************)
(* livepeer-enricher follow (runner.rs, avatar.rs): a cache of the ENS      *)
(* names and avatars of the tracked addresses.  One process alternates the *)
(* watcher, which refreshes the addresses named by the ENS logs of the     *)
(* blocks since its checkpoint, and the sweep, which refreshes the rows     *)
(* whose TTL has run out, oldest first.  A refresh reads L1 at "latest"     *)
(* in several calls, writes the row, and then fetches the avatar into a     *)
(* directory the API serves from.  Every failure of a refresh is logged     *)
(* and passed over.                                                         *)
(***************************************************************************)
EXTENDS ChainLog

CONSTANTS
    Orchs, Gateways,  \* addresses of the two profile views; an address that is in
                      \* both stands for two
    AddressOrder,     \* where each comes in the order by address
    Names,            \* ENS names
    KnownExts,        \* image types sniff_ext recognises
    Images,           \* what an avatar record can lead to: KnownExts and others
    Broken,           \* addresses whose resolver always reverts
    L1Start,          \* the records at the first block
    L1Changes,        \* the changes a later block may make
    MaxHead,          \* bound: L1 blocks
    WatchChunk,       \* L1_WATCH_CHUNK_SIZE
    SweepLimit        \* batch_limit

Tracked == Orchs \cup Gateways

\* The ENS records and the log of a block.
L1Records ==
    [reverse : [Tracked -> Names \cup {None}], owner : [Names -> Tracked \cup {None}],
     text : [Names -> Images \cup {None}], topic : {"none", "name", "text"},
     node : Tracked \cup Names \cup {None}]

\* The rows of broken addresses never get younger, so that they stay at the head
\* of every sweep: the batch has to outgrow them.
ASSUME EnsAssumption ==
    /\ IsFiniteSet(Tracked) /\ Orchs \cap Gateways = {}
    /\ AddressOrder \in [Tracked -> 1..Cardinality(Tracked)]
    /\ \A a, b \in Tracked : AddressOrder[a] = AddressOrder[b] => a = b
    /\ KnownExts \subseteq Images /\ None \notin Images \cup Names
    /\ L1Start \in L1Records
    /\ L1Changes \subseteq [topic : {"name"}, node : Tracked, to : Names \cup {None}]
                       \cup [topic : {"text"}, node : Names, to : Images \cup {None}]
                       \cup [topic : {"addr"}, node : Names, to : Tracked \cup {None}]
    /\ WatchChunk \in Nat \ {0} /\ MaxHead \in Nat \ {0} /\ SweepLimit \in Nat
    /\ \A S \in {Orchs, Gateways} : Cardinality(Broken \cap S) < SweepLimit

VARIABLES
    chain,     \* the L1 records after each block, and the log of the block
    ens,       \* orchestrator_ens and broadcaster_ens
    age,       \* where each address comes in the order by ens_last_resolved_at
    fresh,     \* addresses resolved within the TTL
    files,     \* the avatar store: the extensions an address has a file under
    watched,   \* enricher_ens_l1_logs, 0 while absent
    since,     \* ghost: the block at which the watcher first started
    missed,    \* ghost: addresses whose last refresh by the watcher failed
    damaged,   \* ghost: addresses whose avatar write was cut short
    job        \* what the process is doing

ensVars == <<chain, ens, age, fresh, files, watched, since, missed, damaged, job>>

Head0 == Len(chain)
Latest == chain[Head0]

NoRow == [name |-> None, avatar |-> None, ext |-> None, at |-> 0]
NoJob == [phase |-> "watch", step |-> "start", todo |-> {}, upTo |-> 0, latest |-> 0,
          who |-> None, at |-> 0, name |-> None, avatar |-> None]

EnsInit ==
    /\ chain = <<L1Start>>
    /\ ens = [a \in Tracked |-> NoRow]
    /\ age = AddressOrder
    /\ fresh = {}
    /\ files = [a \in Tracked |-> {}]
    /\ watched = 0 /\ since = 0
    /\ missed = {} /\ damaged = {}
    /\ job = NoJob

rowVars == <<ens, age, fresh, missed>>
storeVars == <<files, damaged>>
watchVars == <<watched, since>>
tableVars == <<chain, rowVars, storeVars, watchVars>>

-----------------------------------------------------------------------------
\* A block changes one record.  NameChanged and TextChanged are logged under their
\* node; a change of the forward address is not among the watched topics.
Applied(s, c) ==
    CASE c.topic = "name" -> [s EXCEPT !.reverse[c.node] = c.to, !.topic = "name", !.node = c.node]
      [] c.topic = "text" -> [s EXCEPT !.text[c.node] = c.to, !.topic = "text", !.node = c.node]
      [] c.topic = "addr" -> [s EXCEPT !.owner[c.node] = c.to, !.topic = "none"]

L1Block ==
    /\ Head0 < MaxHead
    /\ \E c \in L1Changes : chain' = Append(chain, Applied(Latest, c))
    /\ UNCHANGED <<rowVars, storeVars, watchVars, job, logVars>>

\* The TTL of the oldest row runs out.
Expire ==
    /\ \E a \in fresh :
          /\ \A b \in fresh : age[a] <= age[b]
          /\ fresh' = fresh \ {a}
    /\ UNCHANGED <<chain, ens, age, missed, storeVars, watchVars, job, logVars>>

-----------------------------------------------------------------------------
SmallerOf(a, b) == IF a <= b THEN a ELSE b
Enter(phase) == [NoJob EXCEPT !.phase = phase]

WatchStart ==
    /\ job.phase = "watch" /\ job.step = "start"
    /\ \/ /\ watched = 0
          /\ watched' = Head0 /\ since' = Head0
          /\ job' = Enter("orchs")
       \/ /\ watched # 0
          /\ job' = IF watched + 1 > Head0 THEN Enter("orchs")
                    ELSE [job EXCEPT !.step = "chunk", !.latest = Head0]
          /\ UNCHANGED watchVars
    /\ UNCHANGED <<chain, rowVars, storeVars, logVars>>

\* find_affected_addresses: the reverse nodes of the tracked addresses, and the
\* forward nodes of the names the tables hold.
AffectedBy(b, a) ==
    \/ chain[b].topic = "name" /\ chain[b].node = a
    \/ chain[b].topic = "text" /\ chain[b].node = ens[a].name

\* Mutant of FetchChunk: the last block of a chunk is left out.
FetchChunkShort ==
    /\ job.phase = "watch" /\ job.step = "chunk"
    /\ LET upTo == SmallerOf(watched + WatchChunk, job.latest) IN
         job' = [job EXCEPT !.step = "next", !.upTo = upTo,
                    !.todo = {a \in Tracked : \E b \in watched + 1..upTo - 1 : AffectedBy(b, a)}]
    /\ UNCHANGED <<tableVars, logVars>>

FetchChunk ==
    /\ job.phase = "watch" /\ job.step = "chunk"
    /\ LET upTo == SmallerOf(watched + WatchChunk, job.latest) IN
         job' = [job EXCEPT !.step = "next", !.upTo = upTo,
                    !.todo = {a \in Tracked : \E b \in watched + 1..upTo : AffectedBy(b, a)}]
    /\ UNCHANGED <<tableVars, logVars>>

AdvanceWatch ==
    /\ job.phase = "watch" /\ job.step = "next" /\ job.todo = {}
    /\ watched' = Greatest(watched, job.upTo)
    /\ job' = IF job.upTo < job.latest THEN [job EXCEPT !.step = "chunk"] ELSE Enter("orchs")
    /\ UNCHANGED <<chain, rowVars, storeVars, since, logVars>>

\* eth_blockNumber, eth_getLogs or a query fails: the watcher gives up until the
\* next tick, and the sweep runs.
WatchFails ==
    /\ Fault
    /\ job.phase = "watch" /\ job.step \in {"start", "chunk"}
    /\ job' = Enter("orchs")
    /\ UNCHANGED tableVars

\* Rows that were never resolved, are older than the TTL, or (orchestrators) have
\* an avatar record and no stored file.
Pending(S) ==
    {a \in S : a \notin fresh \/ (S = Orchs /\ ens[a].avatar # None /\ ens[a].ext = None)}

\* Mutant of FirstOf: ordered by address alone.
FirstByAddress(S) ==
    {a \in S : Cardinality({b \in S : AddressOrder[b] < AddressOrder[a]}) < SweepLimit}

\* The least recently resolved first.
FirstOf(S) == {a \in S : Cardinality({b \in S : age[b] < age[a]}) < SweepLimit}

\* run_once: the orchestrators, then the gateways.
SweepStart ==
    /\ job.phase \in {"orchs", "gateways"} /\ job.step = "start"
    /\ job' = [job EXCEPT !.step = "next",
                  !.todo = FirstOf(Pending(IF job.phase = "orchs" THEN Orchs ELSE Gateways))]
    /\ UNCHANGED <<tableVars, logVars>>

SweepNext ==
    /\ job.phase \in {"orchs", "gateways"} /\ job.step = "next" /\ job.todo = {}
    /\ job' = IF job.phase = "orchs" THEN Enter("gateways") ELSE NoJob
    /\ UNCHANGED <<tableVars, logVars>>

-----------------------------------------------------------------------------
\* The address whose turn it is: the watcher goes by address, the sweep by age.
Place(a) == IF job.phase = "watch" THEN AddressOrder[a] ELSE age[a]
NextAddress == CHOOSE a \in job.todo : \A b \in job.todo : Place(a) <= Place(b)

\* A refresh of that address.
Current == IF job.step = "next" THEN NextAddress ELSE job.who
Refreshing(step) == job.step = step /\ job.todo # {}
Passed == [job EXCEPT !.step = "next", !.todo = @ \ {Current}, !.who = None,
                      !.at = 0, !.name = None, !.avatar = None]

\* The reverse record.  What follows reads L1 again, at whatever is latest then.
ReadName ==
    /\ Refreshing("next") /\ Current \notin Broken
    /\ LET name == Latest.reverse[Current] IN
         job' = [job EXCEPT !.who = Current, !.at = Head0, !.name = name,
                            !.step = IF name = None THEN "upsert" ELSE "owner"]
    /\ UNCHANGED <<tableVars, logVars>>

\* Mutant of CheckOwner: the forward record is not looked at.
SkipOwner ==
    /\ Refreshing("owner")
    /\ job' = [job EXCEPT !.step = "text"]
    /\ UNCHANGED <<tableVars, logVars>>

\* The name is only believed if it points back at the address.
CheckOwner ==
    /\ Refreshing("owner")
    /\ job' = IF Latest.owner[job.name] = Current THEN [job EXCEPT !.step = "text"]
              ELSE [job EXCEPT !.step = "upsert", !.name = None]
    /\ UNCHANGED <<tableVars, logVars>>

ReadAvatar ==
    /\ Refreshing("text")
    /\ job' = [job EXCEPT !.step = "upsert", !.avatar = Latest.text[job.name]]
    /\ UNCHANGED <<tableVars, logVars>>

\* ens_last_resolved_at = now().
Youngest(a) ==
    [b \in Tracked |-> IF b = a THEN Cardinality(Tracked)
                       ELSE IF age[b] > age[a] THEN age[b] - 1 ELSE age[b]]

\* The upsert leaves ens_avatar_stored_ext alone.
UpsertEns ==
    /\ Refreshing("upsert")
    /\ ens' = [ens EXCEPT ![Current] = [@ EXCEPT !.name = job.name, !.avatar = job.avatar, !.at = job.at]]
    /\ age' = Youngest(Current)
    /\ fresh' = fresh \cup {Current}
    /\ missed' = missed \ {Current}
    /\ job' = IF Current \notin Orchs THEN Passed
              ELSE [job EXCEPT !.step = IF job.avatar = None THEN "clear" ELSE "fetch"]
    /\ UNCHANGED <<chain, storeVars, watchVars, logVars>>

\* A reverting resolver, an L1 or a database error: the row stays as it was.
GiveUp ==
    /\ job' = Passed
    /\ missed' = IF job.phase = "watch" THEN missed \cup {Current} ELSE missed
    /\ UNCHANGED <<chain, ens, age, fresh, storeVars, watchVars>>

ResolverReverts == Refreshing("next") /\ Current \in Broken /\ GiveUp /\ UNCHANGED logVars

RefreshFails ==
    /\ Fault
    /\ \E step \in {"next", "owner", "text", "upsert"} : Refreshing(step)
    /\ GiveUp

-----------------------------------------------------------------------------
\* Mutant of FetchAvatar: what was fetched is stored whatever it is.
FetchUnsniffed ==
    /\ Refreshing("fetch")
    /\ job' = [job EXCEPT !.step = "write"]
    /\ UNCHANGED <<tableVars, logVars>>

\* cache_orchestrator_avatar.
FetchAvatar ==
    /\ Refreshing("fetch")
    /\ job.avatar \in KnownExts
    /\ job' = [job EXCEPT !.step = "write"]
    /\ UNCHANGED <<tableVars, logVars>>

\* Mutant of FetchFails: the cached file goes.
FetchFailsBlanking ==
    /\ Refreshing("fetch")
    /\ files' = [files EXCEPT ![Current] = {}]
    /\ job' = Passed
    /\ UNCHANGED <<chain, rowVars, damaged, watchVars, logVars>>

\* Unreachable, malformed, too large or not an image: what is cached stays.
FetchFails ==
    /\ Refreshing("fetch")
    /\ job' = Passed
    /\ UNCHANGED <<tableVars, logVars>>

\* The files of other types go, then the new one is renamed into place.
WriteFile ==
    /\ Refreshing("write")
    /\ files' = [files EXCEPT ![Current] = {job.avatar}]
    /\ job' = [job EXCEPT !.step = "mark"]
    /\ UNCHANGED <<chain, rowVars, damaged, watchVars, logVars>>

\* An I/O error comes after the files of other types are gone.
WriteFails ==
    /\ Fault
    /\ Refreshing("write")
    /\ files' = [files EXCEPT ![Current] = @ \cap {job.avatar}]
    /\ damaged' = damaged \cup {Current}
    /\ job' = Passed
    /\ UNCHANGED <<chain, rowVars, watchVars>>

\* No avatar record anymore: the files, then the marker.
ClearFiles ==
    /\ Refreshing("clear")
    /\ files' = [files EXCEPT ![Current] = {}]
    /\ job' = [job EXCEPT !.step = "mark"]
    /\ UNCHANGED <<chain, rowVars, damaged, watchVars, logVars>>

\* Errors of the removal are logged; the marker is cleared all the same.
ClearFails ==
    /\ Fault
    /\ Refreshing("clear")
    /\ job' = [job EXCEPT !.step = "mark"]
    /\ UNCHANGED tableVars

\* set_orchestrator_avatar_ext
MarkExt ==
    /\ Refreshing("mark")
    /\ ens' = [ens EXCEPT ![Current].ext = job.avatar]
    /\ damaged' = damaged \ {Current}
    /\ job' = Passed
    /\ UNCHANGED <<chain, age, fresh, missed, files, watchVars, logVars>>

MarkFails ==
    /\ Fault
    /\ Refreshing("mark")
    /\ damaged' = damaged \cup {Current}
    /\ job' = Passed
    /\ UNCHANGED <<chain, rowVars, files, watchVars>>

\* The process dies and starts again with the watcher.
EnricherRestarts ==
    /\ Fault
    /\ job # NoJob
    /\ job' = NoJob
    /\ damaged' = IF Refreshing("mark") THEN damaged \cup {Current} ELSE damaged
    /\ UNCHANGED <<chain, rowVars, files, watchVars>>

EnricherWorks ==
    \/ WatchStart \/ FetchChunk \/ AdvanceWatch \/ SweepStart \/ SweepNext
    \/ ReadName \/ CheckOwner \/ ReadAvatar \/ UpsertEns \/ ResolverReverts
    \/ FetchAvatar \/ FetchFails \/ WriteFile \/ ClearFiles \/ MarkExt

EnricherFails ==
    WatchFails \/ RefreshFails \/ WriteFails \/ ClearFails \/ MarkFails \/ EnricherRestarts

EnsNext == L1Block \/ Expire \/ EnricherWorks \/ EnricherFails

-----------------------------------------------------------------------------
EnsTypeOK ==
    /\ chain \in Seq(L1Records) /\ Head0 > 0
    /\ ens \in [Tracked -> [name : Names \cup {None}, avatar : Images \cup {None},
                            ext : KnownExts \cup {None}, at : 0..Head0]]
    /\ age \in [Tracked -> 1..Cardinality(Tracked)]
    /\ \A a, b \in Tracked : age[a] = age[b] => a = b
    /\ files \in [Tracked -> SUBSET KnownExts]
    /\ {fresh, missed, damaged, job.todo} \subseteq SUBSET Tracked
    /\ watched \in 0..Head0 /\ since \in 0..watched

\* The watcher's checkpoint never hides a change: whatever chunk a log falls into and
\* wherever a pass was cut, an address whose name, or whose stored name's avatar,
\* changed in a block below the checkpoint has been read at or after that block,
\* unless its refresh failed and was passed over.
WatcherNothingSkipped ==
    \A b \in (since + 1)..watched, a \in Tracked :
        AffectedBy(b, a) => ens[a].at >= b \/ a \in missed

\* A name is never shown for an address it was not pointing at: at some block since
\* the reverse record was read the forward record gave the address back, although
\* the records change between the calls of a refresh.  And "a transient fetch failure
\* can't blank a working avatar": between refreshes a recorded extension has its
\* file, unless an I/O error or a stop fell into the writing itself.
EnsRowsHold ==
    \A a \in Tracked :
        /\ ens[a].name # None =>
              /\ chain[ens[a].at].reverse[a] = ens[a].name
              /\ \E b \in ens[a].at..Head0 : chain[b].owner[ens[a].name] = a
        /\ \/ a \in damaged
           \/ job.step \in {"write", "mark"} /\ Current = a
           \/ ens[a].ext = None \/ ens[a].ext \in files[a]

\* The row says what L1 says.
TrueName(a) ==
    LET n == Latest.reverse[a] IN IF n # None /\ Latest.owner[n] = a THEN n ELSE None
MatchesL1(a) ==
    /\ ens[a].at # 0
    /\ ens[a].name = TrueName(a)
    /\ ens[a].avatar = IF TrueName(a) = None THEN None ELSE Latest.text[TrueName(a)]
=============================================================================
