--------------------------------- MODULE Triage ---------------------------------
(***************************************************************************)
(* The triage snapshots: cache.json (anchored audits) and feed.json        *)
(* (recent contract creations), written by refreshers that walk the chain  *)
(* while it grows.  One refresher is the scheduler inside the API process; *)
(* the others are manual runs of the refresh command, which may pick the   *)
(* block they walk up to.  Nothing keeps two refreshers apart; a save      *)
(* replaces the file in one rename.                                        *)
(*                                                                         *)
(* Logs and blocks up to the block number a refresher has read are final,  *)
(* so reading a whole range is one step.  Heads are read at the latest     *)
(* block, one call after the other.                                        *)
(*                                                                         *)
(* Faulty operators are deliberate mistakes that the properties are tried  *)
(* on.                                                                     *)
(***************************************************************************)
EXTENDS Naturals, Sequences, FiniteSets

CONSTANTS
    Contracts,    \* contracts that a transaction creates or someone audits
    Audited,      \* those that someone has audited
    Templates,    \* those whose code is a known proxy template
    Reverted,     \* those whose creation fails: their receipt names an address
    Scheduler,    \* the background refresher
    Manual,       \* runs of the refresh command
    ToBlocks,     \* blocks a manual run may be told to walk up to
    WindowOf,     \* blocks the cache walk of a refresher looks back
    FeedWindowOf, \* blocks the feed walk of a refresher looks back
    ChunkSize,    \* MAX_LOGS_RANGE: blocks per eth_getLogs call
    MaxRows,      \* FeedStore.MAX_ROWS
    MaxHeight,    \* bound on the length of the chain
    MaxAudits,    \* bound on the number of audits
    MaxFaults,    \* bound on RPC failures, missing heads and restarts
    None

Refreshers == {Scheduler} \cup Manual

ASSUME TriageAssumption ==
    /\ Templates \subseteq Contracts /\ Reverted \subseteq Contracts
    /\ Audited \subseteq Contracts
    /\ Scheduler \notin Manual
    /\ None \notin Contracts /\ IsFiniteSet(Contracts)
    /\ {WindowOf, FeedWindowOf} \subseteq [Refreshers -> Nat]
    /\ {MaxHeight, MaxAudits, MaxFaults} \subseteq Nat
    /\ ToBlocks \subseteq Nat
    /\ {ChunkSize, MaxRows} \subseteq Nat \ {0}

VARIABLES
    height,    \* number of the latest block
    audits,    \* the AuditSubmitted events, in order
    created,   \* block a contract was created in, 0 if before the chain began
    cache,     \* cache.json; history: `dropped`, what its walk dropped
    feed,      \* feed.json
    job,       \* what each refresher is doing
    faults     \* failures so far

chainVars == <<height, audits, created>>
vars == <<height, audits, created, cache, feed, job, faults>>

Blocks   == 0 .. MaxHeight
Classes  == {"audited", "queued", "skipped:template", "unknown"}
Event    == [target : Contracts, block : Blocks]
(* A root hash is named by its number among the audits of its target. *)
CacheRow == [target : Contracts, root : Nat, count : Nat, event : Nat, block : Blocks]
FeedRow  == [address : Contracts, block : Blocks, class : Classes]
Idle     == [pc |-> "idle", to |-> 0, todo |-> {}, target |-> None, root |-> 0, rows |-> {},
             dropped |-> {}]

Init ==
    /\ height = 0
    /\ audits = <<>>
    /\ created = [t \in Contracts |-> 0]
    /\ cache = [last |-> 0, rows |-> {}, dropped |-> {}]
    /\ feed = [last |-> 0, rows |-> {}]
    /\ job = [w \in Refreshers |-> Idle]
    /\ faults = 0

(* A manual run is over when it is done; the scheduler sleeps and ticks again. *)
Over(w) == [Idle EXCEPT !.pc = IF w \in Manual THEN "over" ELSE "idle"]

EventsOf(t) == {i \in DOMAIN audits : audits[i].target = t}
Count(t) == Cardinality(EventsOf(t))
(* The number of an event among those of its target. *)
Ordinal(i) == Cardinality({j \in EventsOf(audits[i].target) : j <= i})

-------------------------------------------------------------------------------
(* The chain: a block with at most two audits and any creations. *)

NewBlock(submitted, new) ==
    /\ height < MaxHeight
    /\ Len(audits) + Len(submitted) <= MaxAudits
    /\ height' = height + 1
    /\ audits' = audits \o [i \in DOMAIN submitted |->
                               [target |-> submitted[i], block |-> height + 1]]
    /\ \A t \in new : created[t] = 0 /\ EventsOf(t) = {}
    /\ created' = [t \in Contracts |-> IF t \in new THEN height + 1 ELSE created[t]]
    /\ UNCHANGED <<cache, feed, job, faults>>

-------------------------------------------------------------------------------
(* The cache walk. *)

Lowest(S) == CHOOSE x \in S : \A y \in S : x <= y
From(to, window) == IF to > window THEN to - window ELSE 0
ToBlock(w) == {height} \cup {to \in ToBlocks : w \in Manual /\ to <= height}

(* The last block of a chunk is taken for the first of the next but one. *)
FaultyChunks(from, to) ==
    {[first |-> from + k * ChunkSize + (IF k > 0 THEN 1 ELSE 0),
      last |-> from + (k + 1) * ChunkSize - 1] : k \in 0 .. (to - from) \div ChunkSize}

(* _chunked_get_logs: the ranges asked for, both ends included. *)
Chunks(from, to) ==
    {[first |-> from + k * ChunkSize,
      last |-> IF from + (k + 1) * ChunkSize - 1 < to
               THEN from + (k + 1) * ChunkSize - 1 ELSE to]
        : k \in 0 .. (to - from) \div ChunkSize}

LogsIn(from, to) ==
    {i \in DOMAIN audits :
        \E c \in Chunks(from, to) : c.first <= audits[i].block /\ audits[i].block <= c.last}

(* The event kept for a target: the first one of its highest block. *)
Kept(t, logs) ==
    LET mine == {i \in logs : audits[i].target = t}
    IN Lowest({i \in mine : \A j \in mine : audits[j].block <= audits[i].block})

StartCache(w, to) ==
    LET logs == LogsIn(From(to, WindowOf[w]), to) IN
    /\ job[w].pc = "idle"
    /\ job' = [job EXCEPT ![w] = [Idle EXCEPT
           !.pc = "heads", !.to = to,
           !.todo = {[target |-> t, event |-> Kept(t, logs)] :
                        t \in {audits[i].target : i \in logs}}]]
    /\ UNCHANGED <<chainVars, cache, feed, faults>>

(* getAudit of the latest block. *)
HeadOf(w, t) == Count(t)

(* read_audit is two calls: getAudit here, auditCount in ReadCount. *)
ReadHead(w, e) ==
    /\ job[w].pc = "heads"
    /\ e \in job[w].todo
    /\ job' = [job EXCEPT ![w].pc = "count", ![w].target = e,
                          ![w].root = HeadOf(w, e.target)]
    /\ UNCHANGED <<chainVars, cache, feed, faults>>

(* getAudit answers that a target whose event was seen was never audited:  *)
(* it is left out of the snapshot, which is saved all the same.            *)
HeadMissing(w, e) ==
    /\ job[w].pc = "heads"
    /\ e \in job[w].todo
    /\ faults < MaxFaults
    /\ faults' = faults + 1
    /\ job' = [job EXCEPT ![w].todo = @ \ {e}, ![w].dropped = @ \cup {e.target}]
    /\ UNCHANGED <<chainVars, cache, feed>>

ReadCount(w) ==
    LET e == job[w].target IN
    /\ job[w].pc = "count"
    /\ job' = [job EXCEPT
           ![w].pc = "heads",
           ![w].target = None,
           ![w].root = 0,
           ![w].todo = @ \ {e},
           ![w].rows = @ \cup {[target |-> e.target, root |-> job[w].root,
                                count |-> Count(e.target), event |-> e.event,
                                block |-> audits[e.event].block]}]
    /\ UNCHANGED <<chainVars, cache, feed, faults>>

(* The snapshot replaces the file. *)
SaveCache(w) ==
    /\ job[w].pc = "heads"
    /\ job[w].todo = {}
    /\ cache' = [last |-> job[w].to, rows |-> job[w].rows, dropped |-> job[w].dropped]
    /\ job' = [job EXCEPT ![w] = [Idle EXCEPT !.pc = "feed"]]
    /\ UNCHANGED <<chainVars, feed, faults>>

(* The failure ends the scheduler's loop. *)
FaultyCacheFails(w) ==
    /\ job[w].pc \in {"heads", "count"}
    /\ faults < MaxFaults
    /\ faults' = faults + 1
    /\ job' = [job EXCEPT ![w] = [Idle EXCEPT !.pc = "dead"]]
    /\ UNCHANGED <<chainVars, cache, feed>>

(* An RPC call failed: the cache file stays and the feed is walked anyway. *)
CacheFails(w) ==
    /\ job[w].pc \in {"heads", "count"}
    /\ faults < MaxFaults
    /\ faults' = faults + 1
    /\ job' = [job EXCEPT ![w] = [Idle EXCEPT !.pc = "feed"]]
    /\ UNCHANGED <<chainVars, cache, feed>>

-------------------------------------------------------------------------------
(* The feed walk. *)

(* classify_bytecode; code is unreadable when the call for it failed, and  *)
(* empty when the creation did.                                            *)
Classify(t, audited, readable) ==
    IF t \in audited THEN "audited"
    ELSE IF ~readable \/ t \in Reverted THEN "unknown"
    ELSE IF t \in Templates THEN "skipped:template"
    ELSE "queued"

(* The first block of the window is left out. *)
FaultyCreatedIn(from, to) ==
    {t \in Contracts : created[t] > 0 /\ from < created[t] /\ created[t] < to}

CreatedIn(from, to) ==
    {t \in Contracts : created[t] > 0 /\ from <= created[t] /\ created[t] <= to}

WalkDeploys(w, to) ==
    LET found == CreatedIn(From(to, FeedWindowOf[w]), to)
        audited == {r.target : r \in cache.rows} IN
    /\ job[w].pc = "feed"
    /\ \E unread \in SUBSET found :
           /\ unread # {} => faults < MaxFaults
           /\ faults' = IF unread = {} THEN faults ELSE faults + 1
           /\ job' = [job EXCEPT
                  ![w].pc = "merge",
                  ![w].to = to,
                  ![w].rows = {[address |-> t, block |-> created[t],
                                class |-> Classify(t, audited, t \notin unread)] : t \in found}]
    /\ UNCHANGED <<chainVars, cache, feed>>

(* All rows of the block where the feed is cut are kept. *)
FaultyNewest(rows) ==
    {{r \in rows : Cardinality({s \in rows : s.block > r.block}) < MaxRows}}

(* The newest MaxRows rows; the order of a block's rows decides which of   *)
(* them go, and the model leaves it open.                                  *)
Newest(rows) ==
    {kept \in SUBSET rows :
        /\ Cardinality(kept) <= MaxRows
        /\ kept # rows => Cardinality(kept) = MaxRows
        /\ \A r \in kept, s \in rows \ kept : s.block <= r.block}

(* FeedStore.merge: fresh rows win; the newest MaxRows are kept. *)
Merge(prev, fresh) ==
    Newest(fresh \cup {r \in prev : \A s \in fresh : s.address # r.address})

LoadFeed(w) ==
    /\ job[w].pc = "merge"
    /\ \E rows \in Merge(feed.rows, job[w].rows) :
           job' = [job EXCEPT ![w].pc = "save", ![w].rows = rows]
    /\ UNCHANGED <<chainVars, cache, feed, faults>>

SaveFeed(w) ==
    /\ job[w].pc = "save"
    /\ feed' = [last |-> job[w].to, rows |-> job[w].rows]
    /\ job' = [job EXCEPT ![w] = Over(w)]
    /\ UNCHANGED <<chainVars, cache, faults>>

FeedFails(w) ==
    /\ job[w].pc \in {"feed", "merge", "save"}
    /\ faults < MaxFaults
    /\ faults' = faults + 1
    /\ job' = [job EXCEPT ![w] = Over(w)]
    /\ UNCHANGED <<chainVars, cache, feed>>

-------------------------------------------------------------------------------

(* The process is killed; the scheduler starts again with its container. *)
Killed(w) ==
    /\ job[w].pc \notin {"idle", "over"}
    /\ faults < MaxFaults
    /\ faults' = faults + 1
    /\ job' = [job EXCEPT ![w] = Over(w)]
    /\ UNCHANGED <<chainVars, cache, feed>>

(* refresh --feed, and refresh --cache when it has walked the cache. *)
FeedOnly(w) ==
    /\ w \in Manual
    /\ job[w].pc = "idle"
    /\ job' = [job EXCEPT ![w].pc = "feed"]
    /\ UNCHANGED <<chainVars, cache, feed, faults>>

CacheOnly(w) ==
    /\ w \in Manual
    /\ job[w].pc = "feed"
    /\ job' = [job EXCEPT ![w] = Over(w)]
    /\ UNCHANGED <<chainVars, cache, feed, faults>>

Step(w) ==
    \/ \E to \in ToBlock(w) : StartCache(w, to)
    \/ \E e \in job[w].todo : ReadHead(w, e)
    \/ ReadCount(w)
    \/ SaveCache(w)
    \/ \E to \in ToBlock(w) : WalkDeploys(w, to)
    \/ LoadFeed(w)
    \/ SaveFeed(w)

ChainStep ==
    \E new \in SUBSET Contracts :
        \/ NewBlock(<<>>, new)
        \/ \E t \in Audited : NewBlock(<<t>>, new) \/ NewBlock(<<t, t>>, new)

Next ==
    \/ ChainStep
    \/ \E w \in Refreshers :
           \/ Step(w)
           \/ \E e \in job[w].todo : HeadMissing(w, e)
           \/ CacheFails(w)
           \/ FeedFails(w)
           \/ Killed(w)
           \/ FeedOnly(w)
           \/ CacheOnly(w)

(* The scheduler's loop goes on: every call it makes has a timeout and it  *)
(* survives every exception.                                               *)
Spec == Init /\ [][Next]_vars /\ WF_vars(Step(Scheduler))

-------------------------------------------------------------------------------
(***************************************************************************)
(* Properties.                                                             *)
(***************************************************************************)

(* Every variable has its type; the files hold one row per contract, and   *)
(* the feed at most MaxRows.                                               *)
TypeOK ==
    /\ height \in Blocks
    /\ audits \in Seq(Event)
    /\ created \in [Contracts -> Blocks]
    /\ cache.last \in Blocks /\ cache.rows \subseteq CacheRow
    /\ feed.last \in Blocks /\ feed.rows \subseteq FeedRow
    /\ \A r, s \in cache.rows : r.target = s.target => r = s
    /\ \A r, s \in feed.rows : r.address = s.address => r = s
    /\ cache.dropped \subseteq Contracts /\ Cardinality(feed.rows) <= MaxRows
    /\ faults \in 0 .. MaxFaults

(* However the walk interleaves with new audits, a cache row is never      *)
(* older than the event it was made from: the root it shows was the head   *)
(* at or after that event, its count is at least the root's number, and    *)
(* both are true of the chain.                                             *)
CacheRowsTruthful ==
    \A r \in cache.rows :
        /\ audits[r.event].target = r.target
        /\ r.block = audits[r.event].block /\ r.block <= cache.last
        /\ Ordinal(r.event) <= r.root
        /\ r.root <= r.count
        /\ r.count <= Count(r.target)

(* No audited contract is missed by a walk that looked far enough back,    *)
(* unless its head was missing then.                                       *)
CacheComplete ==
    \A i \in DOMAIN audits :
        audits[i].block <= cache.last
            /\ (\A w \in Refreshers : From(cache.last, WindowOf[w]) <= audits[i].block)
        => \/ \E r \in cache.rows : r.target = audits[i].target
           \/ audits[i].target \in cache.dropped

(* The cache tells the truth and the whole truth up to its last block. *)
CacheIsExact == CacheRowsTruthful /\ CacheComplete

(* A row of the feed names a created contract and its block; it is called  *)
(* audited only if an audit is anchored, a template only if it is one, and *)
(* is neither that nor queued if its creation failed.                      *)
FeedTruthful ==
    \A r \in feed.rows :
        /\ r.block = created[r.address] /\ r.block > 0
        /\ r.class = "audited" => Count(r.address) > 0
        /\ r.class = "skipped:template" => r.address \in Templates
        /\ r.class = "queued" => r.address \notin Templates
        /\ r.class \in {"queued", "skipped:template"} => r.address \notin Reverted

FullSince(block) == Cardinality(feed.rows) = MaxRows /\ \A r \in feed.rows : r.block >= block

(* Whoever saved the feed last and whatever it had loaded before, every    *)
(* contract created in the windows that are walked is in the feed, unless  *)
(* it is full of rows that are no older.                                   *)
FeedComplete ==
    \A t \in CreatedIn(0, feed.last) :
        \/ \E w \in Refreshers : created[t] < From(feed.last, FeedWindowOf[w])
        \/ \E r \in feed.rows : r.address = t
        \/ FullSince(created[t])

(* The feed tells the truth about its newest contracts and omits none. *)
FeedIsExact == FeedTruthful /\ FeedComplete

(* Every audit is shown by the cache in the end, unless the scheduler's    *)
(* window has moved past it.                                               *)
AuditsReachCache ==
    \A i \in 1 .. MaxAudits :
        i \in DOMAIN audits ~>
            /\ i \in DOMAIN audits
            /\ \/ \E r \in cache.rows :
                      r.target = audits[i].target /\ r.count >= Ordinal(i)
               \/ height > audits[i].block + WindowOf[Scheduler]

(* A created contract that gets audited is called audited in the feed in   *)
(* the end, unless it is no longer in the windows that are walked or the   *)
(* feed is full of contracts that are no older.                            *)
AuditsReachFeed ==
    \A t \in Audited :
        created[t] > 0 /\ Count(t) > 0 ~>
            \/ \E r \in feed.rows : r.address = t /\ r.class = "audited"
            \/ FullSince(created[t])
            \/ height > created[t] + FeedWindowOf[Scheduler]
            \/ \A i \in EventsOf(t) : height > audits[i].block + WindowOf[Scheduler]


(* Every audit comes to be shown by both snapshots, however often walks    *)
(* fail, are killed or overwrite each other in between.                    *)
AuditsAreShown == AuditsReachCache /\ AuditsReachFeed
===============================================================================
