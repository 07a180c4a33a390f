-------------------------------- MODULE Stores --------------------------------
(***************************************************************************)
(* The JSON files under engine/data that others than the triage refresher  *)
(* write, and the public routes that answer from files and chain:          *)
(*   - x402 receipts, recorded by the paid route and by the backfill       *)
(*     script, two processes;                                              *)
(*   - GET /api/audit, which joins head, count, pinned report and receipt; *)
(*   - the dispute snapshot, refreshed by processes that share one         *)
(*     temporary file;                                                     *)
(*   - GET /api/cache and GET /api/queries.                                *)
(* The API process runs its handlers one after the other: none of those    *)
(* here awaits anything.  A root hash is the position of its event in the  *)
(* chain's log.  Any read of a file may fail and is then taken for an      *)
(* absent file.                                                            *)
(*                                                                         *)
(* Faulty operators are deliberate mistakes that the properties are tried  *)
(* on.                                                                     *)
(***************************************************************************)
EXTENDS Naturals, Sequences, FiniteSets, SequencesExt, Ordering

CONSTANTS
    Targets,      \* audited contracts
    Refreshers,   \* processes that refresh the dispute snapshot
    Scenes,       \* which and how many events are emitted, which processes run
    SeverityOf,   \* severity of the audit at a position of the log
    Window,       \* blocks that the dispute and the query walk look back
    MaxEvents,    \* bound on the events of all scenes
    None

Kinds == {"audit", "dispute", "decision"}
Processes == {"api", "backfill", "triage"} \cup Refreshers

ASSUME StoresAssumption ==
    /\ \A s \in Scenes : s.kinds \subseteq Kinds /\ s.processes \subseteq Processes
                        /\ s.events \in 1 .. MaxEvents
    /\ {Window, MaxEvents} \subseteq Nat
    /\ DOMAIN SeverityOf = 1 .. MaxEvents
    /\ Targets # {} /\ IsFiniteSet(Refreshers)
    /\ None \notin Targets \cup Nat \cup BOOLEAN

VARIABLES
    scene,      \* the events and processes of this behaviour
    log,        \* the chain's events: [kind, target, block]
    receipts,   \* rows of x402_receipts.json
    writer,     \* per receipt writer: a ReceiptStore.record under way
    api,        \* the local variables of get_audit
    answer,     \* what get_audit answered last
    inodes,     \* contents of the files behind disputes.json and .tmp
    names,      \* the inodes of the two names
    refresh,    \* per refresher: a refresh under way
    cache       \* the rows of cache.json

receiptVars == <<receipts, writer>>
answerVars  == <<api, answer>>
disputeVars == <<inodes, names, refresh>>
vars == <<scene, log, receiptVars, answerVars, disputeVars, cache>>

Writers == {"api", "backfill"}
Runs(p) == p \in scene.processes

Idle  == [pc |-> "idle"]
Blank == [whole |-> FALSE]

Init ==
    /\ scene \in Scenes
    /\ log = <<[kind |-> "audit", target |-> CHOOSE t \in Targets : TRUE, block |-> 1]>>
    /\ receipts = {}
    /\ writer = [p \in Writers |-> Idle]
    /\ api = Idle
    /\ answer = None
    /\ inodes = [i \in 1 .. Cardinality(Refreshers) + 2 |-> Blank]
    /\ names = [json |-> None, tmp |-> None, trusted |-> TRUE]
    /\ refresh = [p \in Refreshers |-> Idle]
    /\ cache = {}

-------------------------------------------------------------------------------
(* The chain. *)

BlockNumber == log[Len(log)].block

(* A block with one or two events. *)
Event == {e \in [kind : scene.kinds, target : Targets, block : {BlockNumber + 1}] :
             e.kind # "audit" => e.target = log[1].target}
Emit ==
    /\ \E block \in {<<e>> : e \in Event} \cup (Event \X Event) :
         /\ Len(log \o block) <= scene.events
         /\ log' = log \o block
    /\ UNCHANGED <<scene, receiptVars, answerVars, disputeVars, cache>>

Audits(t) == {i \in DOMAIN log : log[i].kind = "audit" /\ log[i].target = t}
HeadOf(t) == CHOOSE i \in Audits(t) : \A j \in Audits(t) : j <= i
CountOf(t) == Cardinality(Audits(t))

(* eth_getLogs answers in the order of the log. *)
EventsBetween(kind, from, to) ==
    Ascending({i \in DOMAIN log : log[i].kind = kind /\ log[i].block \in from .. to})
From(to) == IF to < Window THEN 0 ELSE to - Window

-------------------------------------------------------------------------------
(* Receipts. *)

ReadRows == {receipts, {}}

(* The old rows are not kept. *)
FaultyUpsert(rows, row) == {r \in rows : r.target = row.target /\ r.root # row.root} \cup {row}

(* Of two rows of one root the last written stays, whichever is newer.     *)
Upsert(rows, row) == {r \in rows : r.root # row.root} \cup {row}

(* record: load ... *)
LoadReceipts(p, row) ==
    /\ writer[p] = Idle
    /\ \E rows \in ReadRows :
         writer' = [writer EXCEPT ![p] = [pc |-> "save", row |-> row, seen |-> rows,
                                          read |-> rows = receipts]]
    /\ UNCHANGED <<scene, log, receipts, answerVars, disputeVars, cache>>

(* recorded_at, in a clock that ticks with the log.  *)
Now == Len(log)

(* ... after a paid audit, while the API does nothing else ... *)
RecordPaid ==
    /\ Runs("api") /\ api = Idle
    /\ \E i \in DOMAIN log :
         /\ log[i].kind = "audit"
         /\ LoadReceipts("api", [root |-> i, target |-> log[i].target, at |-> Now, by |-> "api"])

(* ... and of the one receipt that backfill_x402_receipt.py knows, dated   *)
(* when the script was imported.                                           *)
Backfill ==
    /\ Runs("backfill")
    /\ \E at \in 1 .. Now :
         LoadReceipts("backfill", [root |-> 1, target |-> log[1].target, at |-> at,
                                   by |-> "backfill"])

(* Upsert and atomic replacement of the file. *)
SaveReceipts(p) ==
    /\ writer[p] # Idle
    /\ receipts' = Upsert(writer[p].seen, writer[p].row)
    /\ writer' = [writer EXCEPT ![p] = Idle]
    /\ UNCHANGED <<scene, log, answerVars, disputeVars, cache>>

(* The disk is full, or the process is killed: the file is as before. *)
SaveFails(p) ==
    /\ writer[p] # Idle
    /\ writer' = [writer EXCEPT ![p] = Idle]
    /\ UNCHANGED <<scene, log, receipts, answerVars, disputeVars, cache>>

(* The receipt of the target's latest paid audit is attached to any. *)
FaultyFindByRootHash(rows, root) ==
    LET found == {r \in rows : r.target = log[root].target}
    IN  IF found = {} THEN None ELSE CHOOSE r \in found : TRUE

FindByRootHash(rows, root) ==
    LET found == {r \in rows : r.root = root}
    IN  IF found = {} THEN None ELSE CHOOSE r \in found : TRUE

-------------------------------------------------------------------------------
(* GET /api/audit/{address}. *)

FaultyApiFree == Runs("api") /\ api = Idle
ApiFree == Runs("api") /\ api = Idle /\ writer["api"] = Idle
Respond(a) == answer' = a /\ api' = Idle

(* getAudit reverts for a target that was never audited. *)
GetAudit ==
    /\ ApiFree
    /\ \E t \in Targets :
         IF Audits(t) = {}
         THEN Respond([code |-> 404, target |-> t, since |-> Len(log)])
         ELSE /\ api' = [pc |-> "count", target |-> t, since |-> Len(log), root |-> HeadOf(t)]
              /\ answer' = None
    /\ UNCHANGED <<scene, log, receiptVars, disputeVars, cache>>

(* auditCount, a second call. *)
GetCount ==
    /\ api.pc = "count"
    /\ api' = [pc |-> "fetch", target |-> api.target, since |-> api.since, root |-> api.root,
               count |-> CountOf(api.target)]
    /\ UNCHANGED <<scene, log, receiptVars, answer, disputeVars, cache>>

(* A document hashes to itself; the gateway may also serve another audit's *)
(* or a forged one.                                                        *)
Documents == DOMAIN log \cup {0}

Match(document, root) == document = root

(* The report is fetched and hashed, or there is no usable answer; then    *)
(* the receipt is looked up in the same handler.                           *)
FetchReport ==
    /\ api.pc = "fetch"
    /\ \E doc \in Documents \cup {None}, rows \in ReadRows :
         Respond([code |-> 200, target |-> api.target, since |-> api.since,
                  root |-> api.root, count |-> api.count, report |-> doc,
                  match |-> IF doc = None THEN None ELSE Match(doc, api.root),
                  x402 |-> FindByRootHash(rows, api.root)])
    /\ UNCHANGED <<scene, log, receiptVars, disputeVars, cache>>

(* The node does not answer, or the gateway answers with something that is *)
(* not JSON: nothing catches either.                                       *)
GetFails ==
    /\ \/ ApiFree
       \/ api.pc \in {"count", "fetch"}
    /\ \E t \in Targets :
         /\ api # Idle => t = api.target
         /\ Respond([code |-> 500, target |-> t, since |-> Len(log)])
    /\ UNCHANGED <<scene, log, receiptVars, disputeVars, cache>>

-------------------------------------------------------------------------------
(* The dispute snapshot. *)

Writing(p) == refresh[p].pc \in {"write", "replace"}

(* block_number, or a to_block that is given, then one eth_getLogs. *)
WalkDisputes(p) ==
    /\ Runs(p) /\ refresh[p] = Idle
    /\ \E to \in 0 .. BlockNumber :
         refresh' = [refresh EXCEPT ![p] =
                        [pc |-> "open", last |-> to,
                         rows |-> EventsBetween("dispute", From(to), to)]]
    /\ UNCHANGED <<scene, log, receiptVars, answerVars, inodes, names, cache>>

Unused == DOMAIN inodes \ ({names.json, names.tmp}
                           \cup {refresh[q].fd : q \in {r \in Refreshers : Writing(r)}})

(* Nothing truncates what a killed refresh has left. *)
FaultyOpenTmp(p) ==
    /\ refresh[p].pc = "open"
    /\ LET fd == IF names.tmp = None THEN CHOOSE i \in Unused : TRUE ELSE names.tmp
           others == {q \in Refreshers : Writing(q)}
       IN  /\ names' = [names EXCEPT !.tmp = fd]
           /\ refresh' = [refresh EXCEPT ![p] = [pc |-> "write", last |-> @.last,
                                 rows |-> @.rows, fd |-> fd, alone |-> others = {}]]
    /\ UNCHANGED <<scene, log, inodes, receiptVars, answerVars, cache>>

(* disputes.tmp is opened, whoever else has it open, and truncated.  A     *)
(* refresh is alone if no other writes between its open and its replace.   *)
OpenTmp(p) ==
    /\ refresh[p].pc = "open"
    /\ LET fd == IF names.tmp = None THEN CHOOSE i \in Unused : TRUE ELSE names.tmp
           others == {q \in Refreshers : Writing(q)}
       IN  /\ inodes' = [inodes EXCEPT ![fd] = Blank]
           /\ names' = [names EXCEPT !.tmp = fd]
           /\ refresh' = [q \in Refreshers |->
                  IF q = p THEN [pc |-> "write", last |-> refresh[p].last,
                                 rows |-> refresh[p].rows, fd |-> fd, alone |-> others = {}]
                  ELSE IF q \in others THEN [refresh[q] EXCEPT !.alone = FALSE]
                  ELSE refresh[q]]
    /\ UNCHANGED <<scene, log, receiptVars, answerVars, cache>>

(* A file that is longer keeps its end. *)
Overwritten(old, last, rows) ==
    IF old.whole /\ Len(old.rows) > Len(rows) THEN Blank
    ELSE [whole |-> TRUE, last |-> last, rows |-> rows]

WriteTmp(p) ==
    /\ refresh[p].pc = "write"
    /\ inodes' = [inodes EXCEPT ![refresh[p].fd] = Overwritten(@, refresh[p].last, refresh[p].rows)]
    /\ refresh' = [refresh EXCEPT ![p].pc = "replace"]
    /\ UNCHANGED <<scene, log, receiptVars, answerVars, names, cache>>

(* Raises if another refresh has renamed the file. *)
ReplaceTmp(p) ==
    /\ refresh[p].pc = "replace"
    /\ names' = IF names.tmp = None THEN names
                ELSE [json |-> names.tmp, tmp |-> None, trusted |-> refresh[p].alone]
    /\ refresh' = [refresh EXCEPT ![p] = Idle]
    /\ UNCHANGED <<scene, log, receiptVars, answerVars, inodes, cache>>

(* eth_getLogs raises, the write does, or the process is killed. *)
RefreshEnds(p) ==
    /\ refresh[p] # Idle
    /\ refresh' = [refresh EXCEPT ![p] = Idle]
    /\ UNCHANGED <<scene, log, receiptVars, answerVars, inodes, names, cache>>

-------------------------------------------------------------------------------
(* GET /api/cache and GET /api/queries. *)

(* What Triage's refresher saves: a row for the head of every target. *)
SaveCache ==
    /\ Runs("triage")
    /\ cache' = {[target |-> t, severity |-> SeverityOf[HeadOf(t)], count |-> CountOf(t),
                  block |-> log[HeadOf(t)].block] : t \in {u \in Targets : Audits(u) # {}}}
    /\ UNCHANGED <<scene, log, receiptVars, answerVars, disputeVars>>

First(seq, limit) == SubSeq(seq, 1, IF limit < Len(seq) THEN limit ELSE Len(seq))

(* The rows of a severity, in the order of the file. *)
AskedFor(rows, severity) == SetToSeq({r \in rows : severity \in {None, r.severity}})

(* Latest block first, then highest count. *)
NewestFirst(rows) == SortedBy(rows, [i \in DOMAIN rows |-> <<-rows[i].block, -rows[i].count>>])

(* Cut before it is sorted. *)
FaultyBuildCacheResponse(rows, severity, limit) ==
    NewestFirst(First(AskedFor(rows, severity), limit))

BuildCacheResponse(rows, severity, limit) ==
    First(NewestFirst(AskedFor(rows, severity)), limit)

(* The window's decisions, latest block first; those of one block stay in  *)
(* the order of the log.                                                   *)
ReadDecisionsLive ==
    LET decisions == EventsBetween("decision", From(BlockNumber), BlockNumber)
    IN  SortedBy(decisions, [i \in DOMAIN decisions |-> <<-log[decisions[i]].block, 0>>])

AgentQueries(limit) == First(ReadDecisionsLive, limit)

-------------------------------------------------------------------------------
Next ==
    \/ Emit
    \/ RecordPaid \/ Backfill
    \/ \E p \in Writers : SaveReceipts(p) \/ SaveFails(p)
    \/ GetAudit \/ GetCount \/ FetchReport \/ GetFails
    \/ \E p \in Refreshers :
         WalkDisputes(p) \/ OpenTmp(p) \/ WriteTmp(p) \/ ReplaceTmp(p) \/ RefreshEnds(p)
    \/ SaveCache

Spec == Init /\ [][Next]_vars

-------------------------------------------------------------------------------
(* Properties. *)

TypeOK ==
    /\ scene \in Scenes
    /\ \A i \in DOMAIN log : /\ log[i].kind \in Kinds /\ log[i].target \in Targets
                             /\ i > 1 => log[i - 1].block <= log[i].block
    /\ \A r \in receipts : r.root \in DOMAIN log /\ r.at \in 1 .. Now /\ r.by \in Writers
    /\ \A p \in Writers : writer[p] = Idle \/ writer[p].pc = "save"
    /\ api.pc \in {"idle", "count", "fetch"}
    /\ api # Idle => writer["api"] = Idle
    /\ {names.json, names.tmp} \subseteq DOMAIN inodes \cup {None}
    /\ names.json = names.tmp => names.json = None
    /\ \A p \in Refreshers : refresh[p].pc \in {"idle", "open", "write", "replace"}

Count(t, n) == Cardinality({i \in Audits(t) : i <= n})

(* GET /api/audit says 404 only of a target without audits, and otherwise  *)
(* shows an audit that was the target's head when it was asked, a count    *)
(* that is at least that audit's and never ahead of the chain, a verdict   *)
(* that is positive only for the anchored document, and a receipt only if  *)
(* it is this very audit's.                                                *)
AuditAnswersHonest ==
    answer # None =>
        LET t == answer.target IN
        /\ answer.code = 404 => Count(t, answer.since) = 0
        /\ answer.code = 200 =>
             /\ answer.root \in Audits(t)
             /\ Count(t, answer.root) = Count(t, answer.since)
             /\ answer.count \in Count(t, answer.root) .. CountOf(t)
             /\ answer.report = None <=> answer.match = None
             /\ answer.match = TRUE <=> answer.report = answer.root
             /\ answer.x402 # None => /\ answer.x402.root = answer.root
                                      /\ answer.x402.target = t

(* There is one receipt per root, and a saved one only disappears for      *)
(* another of the same root, or in the save of a process that could not    *)
(* read the file or had read it before that receipt was saved.  The paid   *)
(* route does not put an older receipt in place of one that it has read;   *)
(* the script may.                                                         *)
ReceiptsKept ==
    [][/\ \A r, q \in receipts' : r.root = q.root => r = q
       /\ \A r \in receipts \ receipts' : \E p \in Writers :
            /\ writer[p] # Idle /\ writer'[p] = Idle
            /\ \/ writer[p].row.root = r.root /\ (writer[p].row.by = "api" => r.at <= writer[p].row.at)
               \/ ~writer[p].read \/ r \notin writer[p].seen
      ]_vars

(* Whatever was killed before: disputes.json as a refresh published it     *)
(* that no other interfered with is whole and has every dispute of its     *)
(* window, once and in order.                                              *)
DisputesFileWhole ==
    names.json # None /\ names.trusted =>
        LET file == inodes[names.json] IN
        /\ file.whole
        /\ file.rows = EventsBetween("dispute", From(file.last), file.last)

NewerRow(r, q) == r.block > q.block \/ (r.block = q.block /\ r.count > q.count)

CacheListHonest(limit, sev) ==
    LET items == BuildCacheResponse(cache, sev, limit)
        asked == {r \in cache : sev \in {None, r.severity}}
    IN  /\ Len(items) = IF limit < Cardinality(asked) THEN limit ELSE Cardinality(asked)
        /\ ToSet(items) \subseteq asked /\ IsInjective(items)
        /\ \A r \in asked \ ToSet(items), i \in DOMAIN items : ~NewerRow(r, items[i])
        /\ \A i, j \in DOMAIN items : i < j => ~NewerRow(items[j], items[i])

(* Decisions of one block are listed in the order of the log. *)
ListedBefore(d, e) == log[d].block > log[e].block \/ (log[d].block = log[e].block /\ d < e)

QueryListHonest(limit) ==
    LET items == AgentQueries(limit)
        asked == {i \in DOMAIN log : log[i].kind = "decision" /\ log[i].block + Window >= BlockNumber}
    IN  /\ Len(items) = IF limit < Cardinality(asked) THEN limit ELSE Cardinality(asked)
        /\ ToSet(items) \subseteq asked /\ IsInjective(items)
        /\ \A d \in asked \ ToSet(items), i \in DOMAIN items : ~ListedBefore(d, items[i])
        /\ \A i, j \in DOMAIN items : i < j => ~ListedBefore(items[j], items[i])

(* A list is as long as its limit and the rows asked for allow, no row     *)
(* that it leaves out or shows later belongs before one that it shows,     *)
(* every row it shows is one of those asked for, and none is shown twice.  *)
(* A scene without decisions and without the triage process lists nothing. *)
ListsNewestFirst ==
    "decision" \in scene.kinds \/ Runs("triage") =>
        \A limit \in 1 .. MaxEvents :
            /\ \A sev \in {None} \cup {SeverityOf[i] : i \in DOMAIN SeverityOf} :
                   CacheListHonest(limit, sev)
            /\ QueryListHonest(limit)
===============================================================================
