------------------------------ MODULE DisputeRun ------------------------------
(***************************************************************************)
(* Deciding a dispute from the command line: resolve_dispute_mainnet.py    *)
(* collects the case, has the model judge it, posts the verdict and writes *)
(* it to the ledger; verify_dispute_receipt.py confirms a decision.  Every *)
(* request is a step, after any of which a run may stop: what it waited    *)
(* for failed or it was killed.  How the oracle's transactions compete for *)
(* a nonce is OracleSigner's; here a broadcast one is mined or dropped.    *)
(*                                                                         *)
(* Faulty operators are deliberate mistakes that the properties are tried  *)
(* on.                                                                     *)
(***************************************************************************)
EXTENDS Naturals, Sequences, SequencesExt, FiniteSetsExt

CONSTANTS
    NameOf,        \* per audited contract the name of its source
    KnownTargets,  \* the contracts with a fallback: what source to take
    LocalNames,    \* the sources under contracts/
    Claims,        \* what disputers file: [uri : BOOLEAN, doc : Docs]
    Replies,       \* what the model answers: [fenced, pre, object, post]
    Runs,          \* runs of resolve_dispute_mainnet.py
    Verifier,      \* the run of verify_dispute_receipt.py
    Scenes,        \* which of these runs happen in one behaviour
    MaxDisputes,   \* bound on filed disputes
    None

Targets  == DOMAIN NameOf
Outcomes == {"DISMISSED", "AMENDED", "RETRACTED"}
Docs     == {"blank", "binary", "plain", "claim", "object", "long"}
Objects  == {reply.object : reply \in Replies}

ASSUME DisputeRunAssumption ==
    /\ MaxDisputes \in Nat
    /\ \A t \in DOMAIN KnownTargets : t \in Targets /\ KnownTargets[t] = NameOf[t]
    /\ \A claim \in Claims : claim.doc \in Docs
    /\ None \notin Runs \cup Outcomes \cup Targets \cup {"0", "1", "field", "whole", "start"}
    /\ \A o, p \in Objects : o.text = p.text => o = p

VARIABLES
    disputes,  \* the registry's disputes; an id is a position
    inflight,  \* broadcast resolveDispute transactions
    mined,     \* mined ones with their receipt status
    ledger,    \* rows of dispute_resolutions.mantle.md
    runs,      \* the local variables of the runs
    verifier   \* those of a verification

chainVars == <<disputes, inflight, mined>>
vars == <<chainVars, ledger, runs, verifier>>

NotRun == [pc |-> "new", dispute |-> None, claim |-> None, source |-> None,
           reply |-> None, verdict |-> None]

Init ==
    /\ disputes = <<>>
    /\ inflight = {}
    /\ mined = {}
    /\ ledger = <<>>
    /\ \E scene \in Scenes :
         /\ runs = [r \in Runs |-> IF r \in scene THEN NotRun ELSE [NotRun EXCEPT !.pc = "done"]]
         /\ verifier = [pc |-> IF Verifier \in scene THEN "new" ELSE "over",
                        code |-> None]

-------------------------------------------------------------------------------
(* The chain. *)

(* A dispute is filed against a Tier 2 report. *)
FileDispute ==
    /\ Len(disputes) < MaxDisputes
    /\ \E t \in Targets, claim \in Claims :
         disputes' = Append(disputes, [target |-> t, claim |-> claim, status |-> "PENDING",
                                       root |-> None, stake |-> "LOCKED"])
    /\ UNCHANGED <<inflight, mined, ledger, runs, verifier>>

Pending(d) == d \in DOMAIN disputes /\ disputes[d].status = "PENDING"

(* What the pool says of the report's stake: the registry of the staking   *)
(* era slashed it for a retraction, today's has no pool.                   *)
StakeAfter(outcome) ==
    {"LOCKED"} \cup (IF outcome = "RETRACTED" THEN {"SLASHED_DISPUTE"} ELSE {})

(* resolveDispute reverts unless the dispute is pending.                   *)
Mine(tx) ==
    LET d == tx.dispute IN
    /\ inflight' = inflight \ {tx}
    /\ mined' = mined \cup {[tx |-> tx, ok |-> Pending(d)]}
    /\ IF Pending(d)
       THEN \E stake \in StakeAfter(tx.verdict.outcome) :
              disputes' = [disputes EXCEPT ![d].status = tx.verdict.outcome,
                                           ![d].root = tx.verdict, ![d].stake = stake]
       ELSE UNCHANGED disputes
    /\ UNCHANGED <<ledger, runs, verifier>>

Drop(tx) == inflight' = inflight \ {tx} /\ UNCHANGED <<disputes, mined, ledger, runs, verifier>>

-------------------------------------------------------------------------------
(* resolve_one. *)

Goto(r, pc) == runs' = [runs EXCEPT ![r].pc = pc]

(* read_dispute; main refuses ids that are not numbers and other networks. *)
ReadDispute(r) ==
    /\ runs[r].pc = "new"
    /\ \E d \in 1 .. MaxDisputes :
         runs' = [runs EXCEPT
             ![r].dispute = d,
             ![r].pc = IF d \notin DOMAIN disputes THEN "stopped"
                       ELSE IF Pending(d) THEN "claim" ELSE "already"]
    /\ UNCHANGED <<chainVars, ledger, verifier>>

(* An empty, unreadable or blank document is refused.  Of an object with a *)
(* claim or a text that field counts, of everything else the whole, be it  *)
(* plain text or an object without either; a long claim is cut after 8000  *)
(* characters.                                                             *)
ParseCounterClaim(doc) ==
    CASE doc \in {"blank", "binary"} -> None
      [] doc = "claim"               -> "field"
      [] doc \in {"plain", "object"} -> "whole"
      [] doc = "long"                -> "start"

(* The gateway finds nothing under a URI, which is not made a CID first.   *)
FetchCounterClaim(r) ==
    /\ runs[r].pc = "claim"
    /\ LET filed == disputes[runs[r].dispute].claim
           claim == IF filed.uri THEN None ELSE ParseCounterClaim(filed.doc)
       IN  runs' = [runs EXCEPT ![r].claim = claim,
                                ![r].pc = IF claim = None THEN "refused" ELSE "source"]
    /\ UNCHANGED <<chainVars, ledger, verifier>>

(* The first local match for a list of guessed names. *)
FaultyKnownTarget(t) == CHOOSE n \in LocalNames : TRUE
KnownTarget(t) == IF t \in DOMAIN KnownTargets THEN KnownTargets[t] ELSE None

(* The explorer's verified source, or the local one of a known target. *)
SourceLoader(r) ==
    /\ runs[r].pc = "source"
    /\ LET t == disputes[runs[r].dispute].target
           fallback == IF KnownTarget(t) \in LocalNames THEN KnownTarget(t) ELSE None
       IN  \E source \in {NameOf[t], fallback} :
             runs' = [runs EXCEPT ![r].source = source,
                                  ![r].pc = IF source = None THEN "stopped" ELSE "judge"]
    /\ UNCHANGED <<chainVars, ledger, verifier>>

-------------------------------------------------------------------------------
(* The model's reply, a sequence of tokens. *)

(* Tokens: braces, the fence, "quote", "escape", and any other text. *)
LBrace == "{"
RBrace == "}"
Fence  == "fence"
Said(reply) == reply.pre \o reply.object.text \o reply.post
Text(reply) == IF reply.fenced THEN <<Fence>> \o Said(reply) ELSE Said(reply)

(* JSON: a string ends with the next quote that is not escaped; outside of *)
(* strings the braces balance at the end of the object and not before.     *)
Modes == {"outside", "inside", "escaped"}
After(mode, token) ==
    CASE mode = "escaped"                      -> "inside"
      [] mode = "inside" /\ token = "escape"   -> "escaped"
      [] mode = "inside" /\ token = "quote"    -> "outside"
      [] mode = "outside" /\ token = "quote"   -> "inside"
      [] OTHER                                 -> mode
Braces(text, mode, brace, n) ==
    Cardinality({i \in 1 .. n : mode[i] = "outside" /\ text[i] = brace})
IsObject(text) ==
    \E mode \in [1 .. Len(text) -> Modes] :
        /\ mode[1] = "outside" /\ text[1] = LBrace
        /\ \A i \in 1 .. Len(text) - 1 : mode[i + 1] = After(mode[i], text[i])
        /\ \A i \in 1 .. Len(text) - 1 :
               Braces(text, mode, RBrace, i) < Braces(text, mode, LBrace, i)
        /\ Braces(text, mode, RBrace, Len(text)) = Braces(text, mode, LBrace, Len(text))

(* A reply that begins with a fence is a fenced one, and what it is meant  *)
(* by is the first object in it.                                           *)
ASSUME ReplyAssumption ==
    \A reply \in Replies :
        /\ {reply.pre, reply.object.text, reply.post} \subseteq Seq(STRING)
        /\ reply.object.text # <<>> /\ IsObject(reply.object.text)
        /\ ~ reply.fenced /\ reply.pre # <<>> => Head(reply.pre) # Fence
        /\ \A o \in Objects, i \in DOMAIN reply.pre :
               ~ IsPrefix(o.text, SubSeq(Said(reply), i, Len(Said(reply))))

(* What stands between the first two fences of a text that begins with one. *)
Unfenced(text) ==
    IF text = <<>> \/ Head(text) # Fence THEN text
    ELSE LET rest == {i \in 2 .. Len(text) : text[i] = Fence}
         IN  SubSeq(text, 2, IF rest = {} THEN Len(text) ELSE Min(rest) - 1)

Opened == [length |-> 0, depth |-> 0, string |-> FALSE, escape |-> FALSE, closed |-> FALSE]

(* Braces are counted inside strings as well. *)
FaultyScan(s, token) ==
    IF s.closed THEN s
    ELSE LET n == [s EXCEPT !.length = @ + 1]
         IN  CASE token = LBrace -> [n EXCEPT !.depth = @ + 1]
               [] token = RBrace -> [n EXCEPT !.depth = @ - 1, !.closed = s.depth = 1]
               [] OTHER -> n

(* Braces are counted outside strings, up to the one that closes the first. *)
Scan(s, token) ==
    IF s.closed THEN s
    ELSE LET n == [s EXCEPT !.length = @ + 1, !.escape = FALSE]
         IN  IF s.escape THEN n
             ELSE IF s.string
             THEN [n EXCEPT !.escape = token = "escape", !.string = token # "quote"]
             ELSE CASE token = "quote" -> [n EXCEPT !.string = TRUE]
                    [] token = LBrace -> [n EXCEPT !.depth = @ + 1]
                    [] token = RBrace -> [n EXCEPT !.depth = @ - 1, !.closed = s.depth = 1]
                    [] OTHER -> n

JsonLoads(span) ==
    IF \E o \in Objects : o.text = span
    THEN (CHOOSE o \in Objects : o.text = span).outcome ELSE None

(* to_outcome_uint8. *)
FaultyOutcome(outcome) == outcome
Outcome(outcome) == IF outcome \in Outcomes THEN outcome ELSE None

(* The outcome of the first balanced object; None if there is none, if it  *)
(* is no JSON, or if its outcome is not one of the three.                  *)
ParseVerdict(text) ==
    LET body   == Unfenced(text)
        opens  == {i \in DOMAIN body : body[i] = LBrace}
        first  == Min(opens)
        s      == FoldLeft(Scan, Opened, SubSeq(body, first, Len(body)))
        loaded == JsonLoads(SubSeq(body, first, first + s.length - 1))
    IN  IF opens # {} /\ s.closed THEN Outcome(loaded) ELSE None

(* What the hash posted with a verdict commits to. *)
Verdicts == [outcome : Outcomes, text : {Text(reply) : reply \in Replies}]

ASSUME VerdictAssumption == None \notin Verdicts

(* run_dispute_reaudit and the verdict's hash, which covers the reply. *)
Judge(r) ==
    /\ runs[r].pc = "judge"
    /\ \E reply \in Replies :
         LET outcome == ParseVerdict(Text(reply)) IN
         runs' = [runs EXCEPT
             ![r].reply = reply,
             ![r].verdict = IF outcome = None THEN None
                            ELSE [outcome |-> outcome, text |-> Text(reply)],
             ![r].pc = IF outcome = None THEN "refused" ELSE "send"]
    /\ UNCHANGED <<chainVars, ledger, verifier>>

-------------------------------------------------------------------------------
(* Posting, and what is written down. *)

Call(r) == [by |-> r, dispute |-> runs[r].dispute, verdict |-> runs[r].verdict]

(* The estimate passes and the call is broadcast; else the run stops. *)
Send(r) ==
    /\ runs[r].pc = "send"
    /\ Pending(runs[r].dispute)
    /\ inflight' = inflight \cup {Call(r)}
    /\ Goto(r, "wait")
    /\ UNCHANGED <<disputes, mined, ledger, verifier>>

Receipts(r) == {m \in mined : m.tx = Call(r)}

(* The receipt's status is not looked at. *)
FaultyReceipt(r) ==
    /\ runs[r].pc = "wait"
    /\ Receipts(r) # {}
    /\ Goto(r, "ledger")
    /\ UNCHANGED <<chainVars, ledger, verifier>>

Receipt(r) ==
    /\ runs[r].pc = "wait"
    /\ \E m \in Receipts(r) : Goto(r, IF m.ok THEN "ledger" ELSE "stopped")
    /\ UNCHANGED <<chainVars, ledger, verifier>>

(* main appends what resolve_one returned; a summary of a dispute found    *)
(* resolved has neither outcome nor hash.                                  *)
AppendLedger(r) ==
    /\ runs[r].pc \in {"ledger", "already"}
    /\ ledger' = Append(ledger, [
           by |-> r, dispute |-> runs[r].dispute,
           status |-> IF runs[r].pc = "already" THEN "already_resolved" ELSE "resolved",
           root |-> runs[r].verdict])
    /\ Goto(r, "done")
    /\ UNCHANGED <<chainVars, verifier>>

(* A request failed or timed out, the estimate says that the call would    *)
(* revert, or the run was killed.                                          *)
Stop(r) ==
    /\ runs[r].pc \notin {"new", "done", "stopped", "refused"}
    /\ Goto(r, "stopped")
    /\ UNCHANGED <<chainVars, ledger, verifier>>

-------------------------------------------------------------------------------
(* verify_dispute_receipt.py: the exit code is 0 if no check failed. *)

Check(ok, next) == verifier' = [verifier EXCEPT !.pc = next, !.ok = @ /\ ok]

(* getDispute, and the checks of status, outcome and hash; pool tells      *)
(* whether a pool's address is at hand.                                    *)
VerifyDispute ==
    /\ verifier.pc = "new"
    /\ \E d \in 1 .. MaxDisputes, expect \in Outcomes \cup {None}, pool \in BOOLEAN,
          tx \in {m.tx : m \in mined} \cup {None} :
         verifier' =
             IF d \notin DOMAIN disputes THEN [pc |-> "over", code |-> "1"]
             ELSE [pc |-> "count", dispute |-> d, expect |-> expect, pool |-> pool, tx |-> tx,
                   code |-> None, status |-> disputes[d].status,
                   ok |-> /\ disputes[d].status # "PENDING"
                          /\ expect \in {None, disputes[d].status}
                          /\ disputes[d].root # None]
    /\ UNCHANGED <<chainVars, ledger, runs>>

VerifyCount ==
    /\ verifier.pc = "count"
    /\ Check(Len(disputes) >= verifier.dispute, "stake")
    /\ UNCHANGED <<chainVars, ledger, runs>>

(* stakeOf, only for a retraction and with a pool; the tier is 2 for every *)
(* report that can be disputed.                                            *)
VerifyStake ==
    /\ verifier.pc = "stake"
    /\ Check(verifier.status = "RETRACTED" /\ verifier.pool =>
                 disputes[verifier.dispute].stake = "SLASHED_DISPUTE", "event")
    /\ UNCHANGED <<chainVars, ledger, runs>>

(* The transaction's receipt has a DisputeResolved event, of any dispute;  *)
(* then the checks are counted.                                            *)
VerifyEvent ==
    /\ verifier.pc = "event"
    /\ LET emits == verifier.tx = None \/ \E m \in mined : m.tx = verifier.tx /\ m.ok
       IN  verifier' = [verifier EXCEPT !.pc = "over", !.ok = @ /\ emits,
                                        !.code = IF verifier.ok /\ emits THEN "0" ELSE "1"]
    /\ UNCHANGED <<chainVars, ledger, runs>>

(* A call to the node failed. *)
VerifyFails ==
    /\ verifier.pc \in {"count", "stake", "event"}
    /\ verifier' = [verifier EXCEPT !.pc = "over", !.code = "raised"]
    /\ UNCHANGED <<chainVars, ledger, runs>>

-------------------------------------------------------------------------------
Next ==
    \/ FileDispute
    \/ \E tx \in inflight : Mine(tx) \/ Drop(tx)
    \/ \E r \in Runs :
         \/ ReadDispute(r) \/ FetchCounterClaim(r) \/ SourceLoader(r) \/ Judge(r)
         \/ Send(r) \/ Receipt(r) \/ AppendLedger(r) \/ Stop(r)
    \/ VerifyDispute \/ VerifyCount \/ VerifyStake \/ VerifyEvent \/ VerifyFails

Spec == Init /\ [][Next]_vars

-------------------------------------------------------------------------------
(* Properties. *)

Ids        == 1 .. MaxDisputes
Sources    == {NameOf[t] : t \in Targets} \cup LocalNames \cup {None}
Dispute    == [target : Targets, claim : Claims, status : {"PENDING"} \cup Outcomes,
               root : Verdicts \cup {None},
               stake : {"LOCKED", "SLASHED_DISPUTE"}]
Transaction == [by : Runs, dispute : Ids, verdict : Verdicts]
RunState   == [pc : {"new", "claim", "source", "judge", "send", "wait", "ledger", "already",
                     "done", "stopped", "refused"},
               dispute : Ids \cup {None}, claim : {"field", "whole", "start", None},
               source : Sources, reply : Replies \cup {None}, verdict : Verdicts \cup {None}]
Row        == [by : Runs, dispute : Ids, status : {"resolved", "already_resolved"},
               root : Verdicts \cup {None}]
Verification ==
    [pc : {"new", "over"}, code : {None, "1"}]
    \cup [pc : {"count", "stake", "event", "over"}, dispute : Ids,
          expect : Outcomes \cup {None}, pool : BOOLEAN, tx : Transaction \cup {None},
          code : {None, "0", "1", "raised"}, status : {"PENDING"} \cup Outcomes, ok : BOOLEAN]

TypeOK ==
    /\ disputes \in Seq(Dispute)
    /\ Len(disputes) <= MaxDisputes
    /\ \A d \in DOMAIN disputes : disputes[d].status = "PENDING" <=> disputes[d].root = None
    /\ inflight \subseteq Transaction
    /\ mined \subseteq [tx : Transaction, ok : BOOLEAN]
    /\ ledger \in Seq(Row)
    /\ runs \in [Runs -> RunState]
    /\ verifier \in Verification

(* What is read of each document a disputer may file.  That an object      *)
(* without a claim counts as a whole is what the code does (fetch.py:52);  *)
(* the docstring of fetch.py says that it is rejected.                     *)
Read == [claim |-> "field", plain |-> "whole", object |-> "whole", long |-> "start"]

(* A verdict rests on the disputer's claim as far as the script reads it   *)
(* (Read), the disputed contract's own source and the outcome that the     *)
(* model's object states, whatever braces, quotes and prose surround or    *)
(* fill it.  A run refuses only a claim that cannot be fetched or read, or *)
(* a reply with prose that opens a brace, with a second fence before its   *)
(* object ends, or without an outcome.                                     *)
DecidedOnTheCase ==
    \A r \in Runs :
        LET run == runs[r] IN
        /\ run.verdict # None =>
             /\ ~ disputes[run.dispute].claim.uri
             /\ disputes[run.dispute].claim.doc \in DOMAIN Read
             /\ run.claim = Read[disputes[run.dispute].claim.doc]
             /\ run.source = NameOf[disputes[run.dispute].target]
             /\ run.verdict.outcome = run.reply.object.outcome
        /\ run.pc = "refused" =>
             IF run.claim = None
             THEN LET claim == disputes[run.dispute].claim
                  IN  claim.uri \/ claim.doc \in {"blank", "binary"}
             ELSE \/ Contains(run.reply.pre, LBrace)
                  \/ /\ run.reply.fenced
                     /\ Contains(run.reply.pre, Fence) \/ Contains(run.reply.object.text, Fence)
                  \/ run.reply.object.outcome \notin Outcomes

Decided(d) == d \in DOMAIN disputes /\ disputes[d].status # "PENDING"

(* What the scripts leave behind is true of the chain and stays so: a row  *)
(* of the ledger carries the verdict that stands, or says of a decided     *)
(* dispute that it was; a dispute has one row with a verdict at most, and  *)
(* has none only while the run that posted it is on its way, or if that    *)
(* run stopped.  A verification that exits with 0 names a decided dispute, *)
(* with the expected outcome and the stake slashed for a retraction; one   *)
(* that finds a decided dispute as expected does exit with 0.              *)
RecordsTrue ==
    /\ \A i \in DOMAIN ledger :
         LET row == ledger[i] IN
         /\ Decided(row.dispute)
         /\ row.status = "resolved" =>
              /\ row.root = disputes[row.dispute].root
              /\ \A j \in DOMAIN ledger :
                   ledger[j].dispute = row.dispute /\ ledger[j].status = "resolved" => i = j
         /\ row.status = "already_resolved" => row.root = None
    /\ \A d \in DOMAIN disputes : Decided(d) =>
         \E r \in Runs :
             /\ [tx |-> Call(r), ok |-> TRUE] \in mined
             /\ runs[r].dispute = d /\ runs[r].verdict = disputes[d].root
             /\ \/ runs[r].pc \in {"wait", "ledger", "stopped"}
                \/ \E i \in DOMAIN ledger : ledger[i].by = r /\ ledger[i].status = "resolved"
    /\ verifier.code \in {"0", "1"} /\ "dispute" \in DOMAIN verifier =>
         LET d == disputes[verifier.dispute] IN
         /\ verifier.code = "0" =>
              /\ d.status # "PENDING" /\ d.status = verifier.status
              /\ verifier.expect \in {None, d.status}
              /\ d.status = "RETRACTED" /\ verifier.pool => d.stake = "SLASHED_DISPUTE"
         /\ verifier.code = "1" =>
              \/ verifier.status = "PENDING"
              \/ verifier.expect \notin {None, d.status}
              \/ d.status = "RETRACTED" /\ verifier.pool /\ d.stake # "SLASHED_DISPUTE"
              \/ verifier.tx # None /\ [tx |-> verifier.tx, ok |-> TRUE] \notin mined
===============================================================================
