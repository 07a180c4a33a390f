------------------------------- MODULE Pipeline -------------------------------
(***************************************************************************)
(* One audit from the look-up of the source to the anchored report, as the *)
(* paid route runs it and as the pipeline scripts do: Tier 1 checks, the   *)
(* language model's reasoning with its retries, the guard, the report and  *)
(* its hash, the pin, the anchor.  The explorer, the node, the model and   *)
(* the pinning service may fail at every call.                             *)
(*                                                                         *)
(* A root hash is the document that it hashes.                             *)
(*                                                                         *)
(* Faulty operators are deliberate mistakes that the properties are tried  *)
(* on.                                                                     *)
(***************************************************************************)
EXTENDS Guard

CONSTANTS
    Target,          \* the contract to be audited
    Impl,            \* its implementation, when it is a proxy
    Demo,            \* a contract of this repository, with a source file in it
    SourceText,      \* the source text of each of the three
    CodeText,        \* the target's bytecode in hex
    Checks(_, _),    \* findings of the five checks on a source and a bytecode
    Replies,         \* what the model may answer
    Metrics,         \* numbers of the metrics artifact, as JSON prints them
    Worlds,          \* what the explorer and the agent may know, see World
    TriesPerModel,   \* attempts per model of RetryingGemini
    Absent

Contracts == {Target, Impl, Demo}

World == [listing     : {"unverified", "verified", "proxy"},
          implListed  : BOOLEAN,   \* the implementation is verified, too
          hinted      : BOOLEAN,   \* MANTLEPROOF_TARGET_NAME names the target's file
          metrics     : Metrics]

Text == Seq(Alphabet)

(* A finding of a check, and an element of a model's JSON array. *)
Findings == [id : Nat, severity : SeveritySet, label : LabelSet,
             finding : Text, fix : Text, evidence : Text]
Elements == {[object |-> FALSE]}
            \cup [object : {TRUE}, id : Nat, severity : STRING, label : STRING,
                  finding : Text, fix : Text, evidence : Text]

ASSUME PipelineAssumption ==
    /\ Worlds \subseteq World
    /\ Cardinality(Contracts) = 3
    /\ Absent \notin Contracts \cup Replies \cup Nat
    /\ SourceText \in [Contracts -> Text]
    /\ \A c \in Contracts : SourceText[c] # <<>>   \* flat() names every file
    /\ CodeText \in Text
    /\ \A s \in Contracts \cup {Absent}, c \in {CodeText, <<>>} : Checks(s, c) \in Seq(Findings)
    /\ \A r \in Replies : r.kind = "array" => r.items \in Seq(Elements)
    /\ TriesPerModel \in Nat \ {0}

VARIABLES
    world,     \* what the explorer and the agent know of the target
    run,       \* the local variables of run_audit and of the script's main
    pinned,    \* the documents on IPFS, a CID being a position
    anchored   \* the AuditSubmitted events of the run

auditVars == <<world, run, pinned, anchored>>

AuditInit ==
    /\ world \in Worlds
    /\ run \in [pc : {"resolve"}, caller : {"route", "script"}, tier : {2},
                source : {Absent}, code : {<<>>}, tier1 : {<<>>}, tries : {0},
                reply : {Absent}, report : {<<>>}, cid : {Absent}]
    /\ pinned = <<>>
    /\ anchored = <<>>

At_(pc) == run.pc = pc
Go(pc)  == run' = [run EXCEPT !.pc = pc]

-------------------------------------------------------------------------------
(* Source and bytecode. *)

(* What get_source may find: the target's own source, that of the          *)
(* implementation behind a proxy, or nothing; an explorer that answers     *)
(* "NOTOK" to either look-up looks like one that knows nothing.            *)
Findable ==
    {Absent}
    \cup (IF world.listing # "unverified" THEN {Target} ELSE {})
    \cup (IF world.listing = "proxy" /\ world.implListed THEN {Impl} ELSE {})

(* The first file that _local_source finds. *)
LocalSource == IF world.hinted THEN Target ELSE Demo

(* An audit without source goes on as a Tier 2 audit. *)
FaultyResolve ==
    /\ At_("resolve")
    /\ \E s \in Findable :
         run' = [run EXCEPT !.pc = "code",
                    !.source = IF s = Absent /\ run.caller = "script" THEN LocalSource ELSE s]
    /\ UNCHANGED <<world, pinned, anchored>>

(* run_audit falls back to Tier 1, the scripts to a file of the repository. *)
Resolve ==
    /\ At_("resolve")
    /\ \E s \in Findable :
         run' = [run EXCEPT !.pc = "code",
                    !.source = IF s = Absent /\ run.caller = "script" THEN LocalSource ELSE s,
                    !.tier   = IF s = Absent /\ run.caller = "route" THEN 1 ELSE 2]
    /\ UNCHANGED <<world, pinned, anchored>>

(* The explorer's call raises: the route's audit fails, the script takes   *)
(* its file.                                                               *)
ResolveFails ==
    /\ At_("resolve")
    /\ run' = IF run.caller = "script"
              THEN [run EXCEPT !.pc = "code", !.source = LocalSource]
              ELSE [run EXCEPT !.pc = "failed"]
    /\ UNCHANGED <<world, pinned, anchored>>

(* eth_getCode, or no bytecode when the node does not answer. *)
GetCode ==
    /\ At_("code")
    /\ \E c \in {CodeText, <<>>} : run' = [run EXCEPT !.pc = "tier1", !.code = c]
    /\ UNCHANGED <<world, pinned, anchored>>

-------------------------------------------------------------------------------
(* Tier 1 and Tier 2. *)

TextOf(s) == IF s = Absent THEN <<>> ELSE SourceText[s]

(* Highest severity first, then by check; findings alike keep their order. *)
Sorted(fs) ==
    SortedBy(fs, [i \in DOMAIN fs |-> <<RankIn(Severities, fs[i].severity), fs[i].id>>])

RunTier1 ==
    /\ At_("tier1")
    /\ run' = [run EXCEPT !.tier1 = Sorted(Checks(run.source, run.code)),
                          !.pc = IF run.tier = 2 /\ TextOf(run.source) # <<>>
                                 THEN "reason" ELSE "build"]
    /\ UNCHANGED <<world, pinned, anchored>>

(* The model answers, whatever that is. *)
Reason ==
    /\ At_("reason")
    /\ \E r \in Replies : run' = [run EXCEPT !.pc = "build", !.reply = r, !.tries = 0]
    /\ UNCHANGED <<world, pinned, anchored>>

(* The route asks one model once; the scripts ask gemini-2.5-pro and then  *)
(* gemini-2.5-flash, TriesPerModel times each.                             *)
Tries == IF run.caller = "script" THEN 2 * TriesPerModel ELSE 1

(* One attempt more than there are. *)
FaultyReasonFails ==
    /\ At_("reason")
    /\ run' = [run EXCEPT !.tries = @ + 1,
                          !.pc = IF run.tries = Tries THEN "failed" ELSE "reason"]
    /\ UNCHANGED <<world, pinned, anchored>>

(* The call raises ProviderError; after the last attempt, so does reason.  *)
ReasonFails ==
    /\ At_("reason")
    /\ run' = [run EXCEPT !.tries = @ + 1,
                          !.pc = IF run.tries + 1 = Tries THEN "failed" ELSE "reason"]
    /\ UNCHANGED <<world, pinned, anchored>>

-------------------------------------------------------------------------------
(* The report. *)

RunCorpus == Corpus(TextOf(run.source), run.code, run.tier1)
Unguarded == Outcome(<<>>, <<>>, <<>>)

Worst(fs) == IF fs = <<>> THEN "info" ELSE fs[1].severity   \* of sorted findings

(* A JSON encoder prints a whole number without a fraction. *)
ReEncode(number) == IF number = "1.0" THEN "1" ELSE number
FaultyNormalizeNumbers(number) == number
NormalizeNumbers(number) == ReEncode(number)

(* The union of both tiers' findings; the guard's counts are part of a     *)
(* Tier 2 report, and so is the reason why there was no Tier 2.            *)
ReportOn(reasoned, guarded, findings) ==
    [tier     |-> run.tier,
     findings |-> findings,
     severity |-> Worst(findings),
     masked   |-> guarded.maskedCount,
     drops    |-> guarded.labelDrops,
     each     |-> guarded.perFinding,
     skipped  |-> run.tier = 2 /\ ~reasoned,
     metrics  |-> NormalizeNumbers(world.metrics)]

(* build_report: the hash is taken, then put into the report. *)
BuildReport ==
    /\ At_("build")
    /\ \E reasoned \in {run.tier = 2 /\ run.reply # Absent} :
       \E guarded \in {IF reasoned THEN ApplyGuard(ParseFindings(run.reply), RunCorpus)
                       ELSE Unguarded} :
       \E doc \in {ReportOn(reasoned, guarded, Sorted(run.tier1 \o guarded.findings))} :
           run' = [run EXCEPT !.pc = "pin", !.report = [body |-> doc, root |-> doc]]
    /\ UNCHANGED <<world, pinned, anchored>>

Pin ==
    /\ At_("pin")
    /\ pinned' = Append(pinned, run.report)
    /\ run' = [run EXCEPT !.pc = "anchor", !.cid = Len(pinned) + 1]
    /\ UNCHANGED <<world, anchored>>

(* No JWT, no connection, or no CID in the answer. *)
PinFails == At_("pin") /\ Go("failed") /\ UNCHANGED <<world, pinned, anchored>>

(* anchor_audit returns, or it raises before or after the transaction got  *)
(* into a block.                                                           *)
Anchor ==
    /\ At_("anchor")
    /\ \/ /\ anchored' = Append(anchored, [root     |-> run.report.root,
                                           cid      |-> run.cid,
                                           severity |-> run.report.body.severity,
                                           tier     |-> run.tier])
          /\ Go("done") \/ Go("failed")
       \/ UNCHANGED anchored /\ Go("failed")
    /\ UNCHANGED <<world, pinned>>

(* main of the scripts: 0 when anchored, 3 when only the report is there,  *)
(* 1 when there is none.                                                   *)
ExitCode == IF run.pc = "done" THEN 0 ELSE IF run.report # <<>> THEN 3 ELSE 1

AuditNext ==
    \/ Resolve \/ ResolveFails \/ GetCode \/ RunTier1
    \/ Reason \/ ReasonFails
    \/ BuildReport \/ Pin \/ PinFails \/ Anchor

AuditSpec == AuditInit /\ [][AuditNext]_auditVars

-------------------------------------------------------------------------------
(* Properties. *)

AuditTypeOK ==
    /\ world \in World
    /\ run.pc \in {"resolve", "code", "tier1", "reason", "build", "pin", "anchor", "done", "failed"}
    /\ run.caller \in {"route", "script"}
    /\ run.tier \in {1, 2}
    /\ run.source \in Contracts \cup {Absent}
    /\ run.code \in {CodeText, <<>>}
    /\ run.tries \in 0 .. Tries
    /\ run.reply \in Replies \cup {Absent}
    /\ run.cid \in {Absent} \cup DOMAIN pinned
    /\ Len(anchored) <= 1

(* What a reader may get from a gateway: the bytes as they were pinned, or *)
(* printed again by another JSON encoder.                                  *)
Fetched(doc) == {doc, [doc EXCEPT !.body.metrics = ReEncode(@)]}

(* Every anchored root belongs to a document that is on IPFS at the        *)
(* anchored CID, and whoever fetches it, in whatever encoding, and drops   *)
(* root_hash gets the anchored root again; severity and tier on chain are  *)
(* the document's, and a script exits with 0 only with its report anchored *)
(* and with 1 only with nothing pinned.                                    *)
AnchoredIsReadable ==
    /\ \A i \in DOMAIN anchored :
         LET a == anchored[i] IN
           /\ a.cid \in DOMAIN pinned
           /\ \A doc \in Fetched(pinned[a.cid]) :
                /\ doc.body = a.root
                /\ doc.root = a.root
                /\ a.tier = doc.body.tier
                /\ \A f \in ToSet(doc.body.findings) :
                     RankIn(Severities, a.severity) <= RankIn(Severities, f.severity)
    /\ run.pc = "done" => ExitCode = 0 /\ anchored # <<>>
    /\ run.pc = "failed" /\ ExitCode = 1 => pinned = <<>> /\ anchored = <<>>

Overlap(c, d) == c.from < d.to /\ d.from < c.to

(* What the documentation promises of a kept claim: amounts and            *)
(* percentages are in the source or in a Tier 1 finding, never only in the *)
(* bytecode, where short numbers are easily found.                         *)
Grounded(t, c, corpus) ==
    IF Patterns[c.kind] \in {"dollar", "percent"}
    THEN Norm(ClaimIn(t, c)) = <<>> \/ OccursIn(Norm(ClaimIn(t, c)), corpus.strict)
    ELSE IsSupported(t, c, corpus)

(* `after` is `before` with the claims of `masked` replaced: they are      *)
(* unsupported and apart from each other, and a claim that does not touch  *)
(* a masked one is grounded or lies behind the start of one that is.      *)
FairlyMasked(before, after, claims, masked, corpus) ==
    /\ after = Replace(before, masked)
    /\ \A c \in masked : /\ ~IsSupported(before, c, corpus)
                         /\ \A d \in masked : c = d \/ ~Overlap(c, d)
    /\ \A c \in claims :
         \/ \E d \in masked : Overlap(c, d)
         \/ \E d \in claims :
              Overlap(c, d) /\ d.from <= c.from /\ Grounded(before, d, corpus)

(* What a model's finding became, with n claims masked.  Its evidence is   *)
(* as the model wrote it: parse_findings takes it over (lines 114 to 124)  *)
(* and apply_guard does not scan it (211 and 212), although the module's   *)
(* docstring promises that of every claim in the model's output.           *)
Became(f, g, n, corpus) ==
    \E c1 \in {ExtractClaims(f.finding)}, c2 \in {ExtractClaims(f.fix)} :
    \E m1 \in SUBSET c1, m2 \in SUBSET c2 :
        /\ n = Cardinality(m1) + Cardinality(m2)
        /\ FairlyMasked(f.finding, g.finding, c1, m1, corpus)
        /\ FairlyMasked(f.fix, g.fix, c2, m2, corpus)
        /\ g.label = IF n > 0 THEN DropLabel(f.label) ELSE f.label
        /\ g.severity = f.severity /\ g.id = f.id
        /\ g.evidence = f.evidence

(* The pinned report of a Tier 2 audit accounts for the model's reply: it  *)
(* has every finding of the reply; in its text and its suggested fix, and  *)
(* in these two only, each $, %, hex and address claim is supported or     *)
(* masked unless an overlapping claim shields it; its label is one tier    *)
(* lower exactly if something was masked, its evidence is unchanged and    *)
(* unchecked, and the public counts are right; the Tier 1 findings stand   *)
(* next to them as the checks wrote them.                                  *)
GuardAccounted ==
    \A i \in DOMAIN pinned, corpus \in {RunCorpus},
       parsed \in {IF run.reply = Absent THEN <<>> ELSE ParseFindings(run.reply)} :
        LET body == pinned[i].body
        IN  /\ Len(body.each) = Len(parsed)
            /\ Len(body.findings) = Len(parsed) + Len(run.tier1)
            /\ \A f \in ToSet(run.tier1) : f \in ToSet(body.findings)
            /\ \A j \in DOMAIN parsed : \E g \in ToSet(body.findings) :
                 Became(parsed[j], g, body.each[j], corpus)
            /\ body.masked = FoldLeft(+, 0, body.each)
            /\ body.drops = Cardinality({j \in DOMAIN body.each : body.each[j] > 0})

(* A report says Tier 2 exactly if the model answered on a source; the     *)
(* paid route reasons about nobody's source but the target's or its        *)
(* implementation's.                                                       *)
TierIsHonest ==
    \A i \in DOMAIN pinned :
        LET body == pinned[i].body IN
          /\ (body.tier = 2) = (run.source # Absent /\ run.reply # Absent)
          /\ ~body.skipped
          /\ run.caller = "route" /\ body.tier = 2 =>
                run.source = Target \/ (run.source = Impl /\ world.listing = "proxy")

===============================================================================
