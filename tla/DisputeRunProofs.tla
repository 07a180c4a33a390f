-------------------------- MODULE DisputeRunProofs --------------------------
(***************************************************************************)
(* Theorems about DisputeRun, for any number of runs, disputes, claims and *)
(* replies: a verdict is the one that the model's object states, and the   *)
(* ledger and the verifier tell the truth about the chain.                 *)
(***************************************************************************)
EXTENDS DisputeRun, SequenceTheorems, FiniteSetTheorems, WellFoundedInduction, TLAPS

(***************************************************************************)
(* The inductive invariant.                                                *)
(***************************************************************************)

CallOf(r, st) == [by |-> r, dispute |-> st.dispute, verdict |-> st.verdict]
Confirmed(tx) == [tx |-> tx, ok |-> TRUE] \in mined
Posted(r) == \E i \in DOMAIN ledger : ledger[i].by = r /\ ledger[i].status = "resolved"

(* What run r, in state st, knows and has done. *)
RunInv(r, st) ==
    /\ st.pc \notin {"new", "done", "stopped"} => st.dispute \in DOMAIN disputes
    /\ st.pc \in {"new", "claim", "source", "judge", "already"} => st.verdict = None
    /\ st.pc \in {"send", "wait", "ledger"} => st.verdict \in Verdicts
    /\ st.pc = "already" => Decided(st.dispute)
    /\ st.pc = "ledger" => Confirmed(CallOf(r, st))
    /\ st.pc = "done" /\ st.verdict # None => Posted(r)
RunsInv == \A r \in Runs : RunInv(r, runs[r])

(* A transaction is its run's call, broadcast once, and a dispute is       *)
(* decided by exactly one.                                                 *)
SentBy(tx) == tx = CallOf(tx.by, runs[tx.by]) /\ tx.dispute \in DOMAIN disputes
TxInv ==
    /\ \A tx \in inflight : SentBy(tx) /\ runs[tx.by].pc \in {"wait", "stopped"}
    /\ \A m \in mined :
         /\ SentBy(m.tx) /\ runs[m.tx.by].pc \in {"wait", "ledger", "done", "stopped"}
         /\ m.tx \notin inflight
         /\ m.ok => disputes[m.tx.dispute].root = m.tx.verdict
    /\ \A m, n \in mined : m.ok /\ n.ok /\ m.tx.dispute = n.tx.dispute => m.tx = n.tx
    /\ \A d \in DOMAIN disputes :
         Decided(d) => \E m \in mined : m.ok /\ m.tx.dispute = d

(* A row is its run's last and only word. *)
LedgerInv ==
    /\ \A i \in DOMAIN ledger :
         LET row == ledger[i] IN
         /\ runs[row.by].pc = "done"
         /\ row.dispute = runs[row.by].dispute /\ row.root = runs[row.by].verdict
         /\ Decided(row.dispute)
         /\ row.status = "resolved" => Confirmed(CallOf(row.by, runs[row.by]))
         /\ row.status = "already_resolved" => row.root = None
    /\ \A i, j \in DOMAIN ledger : ledger[i].by = ledger[j].by => i = j

ChainInv == TypeOK /\ RunsInv /\ TxInv /\ LedgerInv

-------------------------------------------------------------------------------
(***************************************************************************)
(* The scripts' own steps.                                                 *)
(***************************************************************************)

(* A run's state is a record of its type with a known position.            *)
LEMMA Typed ==
    ASSUME ChainInv, NEW r \in Runs
    PROVE  runs[r] \in RunState /\ RunInv(r, runs[r])
BY DEF ChainInv, TypeOK, RunsInv

(* A row of the ledger is of its type.                                     *)
LEMMA RowTyped ==
    ASSUME ChainInv, NEW i \in DOMAIN ledger
    PROVE  ledger[i] \in Row /\ ledger[i].by \in Runs
<1>1. ledger \in Seq(Row)
  BY DEF ChainInv, TypeOK
<1>2. ledger[i] \in Row
  BY <1>1
<1>. QED
  BY <1>2 DEF Row

(* A step that changes nothing but a run keeps the invariant if the new    *)
(* state fits and what was sent stays what it was.                         *)
LEMMA OwnStep ==
    ASSUME ChainInv, NEW r \in Runs, NEW st \in RunState,
           runs' = [runs EXCEPT ![r] = st], UNCHANGED <<chainVars, ledger, verifier>>,
           RunInv(r, st), runs[r].pc # "done",
           runs[r].pc \in {"wait", "ledger", "stopped"} =>
               /\ st.dispute = runs[r].dispute /\ st.verdict = runs[r].verdict
               /\ st.pc \in {"wait", "ledger", "stopped"},
           (\E tx \in inflight : tx.by = r) => st.pc \in {"wait", "stopped"}
    PROVE  ChainInv'
<1>1. runs \in [Runs -> RunState]
  BY DEF ChainInv, TypeOK
<1>2. runs'[r] = st /\ \A p \in Runs : p # r => runs'[p] = runs[p]
  BY <1>1
<1>3. TypeOK'
  BY DEF ChainInv, TypeOK, chainVars
<1>4. RunsInv'
  <2>1. ASSUME NEW p \in Runs, NEW q, RunInv(p, q)
        PROVE  RunInv(p, q)'
    BY <2>1 DEF RunInv, Decided, Confirmed, Posted, chainVars
  <2>2. ASSUME NEW p \in Runs
        PROVE  RunInv(p, runs[p])'
    <3>1. PICK q : q = runs'[p]
      OBVIOUS
    <3>2. RunInv(p, q)
      BY <1>2, <3>1 DEF ChainInv, RunsInv
    <3>3. RunInv(p, q)'
      BY <2>1, <3>2
    <3>. QED
      BY <3>1, <3>3
  <2>. QED
    BY <2>2 DEF RunsInv
<1>5. TxInv'
  <2>1. ASSUME NEW tx, tx.by \in Runs, SentBy(tx), runs[tx.by].pc \in {"wait", "ledger", "done", "stopped"}
        PROVE  /\ SentBy(tx)'
               /\ runs'[tx.by].pc \in {"wait", "ledger", "done", "stopped"}
    BY <1>2, <2>1 DEF SentBy, CallOf, chainVars
  <2>2. \A tx \in inflight \cup {m.tx : m \in mined} : tx.by \in Runs
    BY DEF ChainInv, TypeOK, Transaction
  <2>3. \A tx \in inflight : SentBy(tx)' /\ runs'[tx.by].pc \in {"wait", "stopped"}
    BY <1>2, <2>1, <2>2 DEF ChainInv, TxInv
  <2>4. \A m \in mined :
            /\ SentBy(m.tx)'
            /\ runs'[m.tx.by].pc \in {"wait", "ledger", "done", "stopped"}
    BY <2>1, <2>2 DEF ChainInv, TxInv
  <2>. QED
    BY <2>3, <2>4 DEF ChainInv, TxInv, Decided, chainVars
<1>6. LedgerInv'
  <2>1. \A i \in DOMAIN ledger : ledger[i].by \in Runs
    BY RowTyped
  <2>2. \A i \in DOMAIN ledger : runs'[ledger[i].by] = runs[ledger[i].by]
    BY <1>2, <2>1 DEF ChainInv, LedgerInv
  <2>3. \A i \in DOMAIN ledger :
            LET row == ledger[i] IN
            /\ runs'[row.by].pc = "done"
            /\ row.dispute = runs'[row.by].dispute /\ row.root = runs'[row.by].verdict
            /\ Decided(row.dispute)'
            /\ row.status = "resolved" => Confirmed(CallOf(row.by, runs'[row.by]))
            /\ row.status = "already_resolved" => row.root = None
    BY <2>2 DEF ChainInv, LedgerInv, Decided, chainVars
  <2>. QED
    BY <2>3 DEF ChainInv, LedgerInv, Confirmed, CallOf, chainVars
<1>. QED
  BY <1>3, <1>4, <1>5, <1>6 DEF ChainInv

(* What the scan of a reply yields is an outcome, or none.                 *)
LEMMA OutcomeTyped ==
    ASSUME NEW text
    PROVE  ParseVerdict(text) \in Outcomes \cup {None}
BY DEF ParseVerdict, Outcome

(* Of a document either nothing is read, or what Read says.                *)
LEMMA ClaimRead ==
    ASSUME DisputeRunAssumption, NEW doc \in Docs
    PROVE  /\ ParseCounterClaim(doc) \in {"field", "whole", "start", None}
           /\ doc \in {"blank", "binary"} => ParseCounterClaim(doc) = None
           /\ doc \notin {"blank", "binary"} =>
                /\ doc \in DOMAIN Read
                /\ ParseCounterClaim(doc) = Read[doc]
                /\ ParseCounterClaim(doc) # None
<1>1. None \notin {"field", "whole", "start"}
  BY DEF DisputeRunAssumption
<1>2. CASE doc \in {"blank", "binary"}
  BY <1>2 DEF ParseCounterClaim
<1>3. CASE doc = "claim"
  BY <1>1, <1>3 DEF ParseCounterClaim, Read
<1>4. CASE doc \in {"plain", "object"}
  BY <1>1, <1>4 DEF ParseCounterClaim, Read
<1>5. CASE doc = "long"
  BY <1>1, <1>5 DEF ParseCounterClaim, Read
<1>. QED
  BY <1>2, <1>3, <1>4, <1>5 DEF Docs

(* What is filed is a document.                                            *)
LEMMA FiledDoc ==
    ASSUME DisputeRunAssumption, ChainInv, NEW d \in DOMAIN disputes
    PROVE  disputes[d].claim.doc \in Docs
<1>1. disputes \in Seq(Dispute)
  BY DEF ChainInv, TypeOK
<1>2. disputes[d] \in Dispute
  BY <1>1
<1>. QED
  BY <1>2 DEF Dispute, DisputeRunAssumption

(* A step that collects the case leaves nothing behind.                    *)
LEMMA CaseKeeps ==
    ASSUME DisputeRunAssumption, VerdictAssumption, ChainInv, NEW r \in Runs,
           ReadDispute(r) \/ FetchCounterClaim(r) \/ SourceLoader(r) \/ Judge(r)
    PROVE  ChainInv'
<1>1. runs[r] \in RunState /\ RunInv(r, runs[r])
  BY Typed
<1>2. UNCHANGED <<chainVars, ledger, verifier>>
  BY DEF ReadDispute, FetchCounterClaim, SourceLoader, Judge
<1>3. runs[r].pc \in {"new", "claim", "source", "judge"}
  BY DEF ReadDispute, FetchCounterClaim, SourceLoader, Judge
<1>4. ~ \E tx \in inflight : tx.by = r
  BY <1>3 DEF ChainInv, TxInv
<1>5. ASSUME NEW st \in RunState, runs' = [runs EXCEPT ![r] = st], RunInv(r, st)
      PROVE  ChainInv'
  BY <1>2, <1>3, <1>4, <1>5, OwnStep
<1>6. CASE ReadDispute(r)
  <2>1. PICK d \in Ids, pc \in {"stopped", "claim", "already"} :
            /\ pc = IF d \notin DOMAIN disputes THEN "stopped"
                    ELSE IF Pending(d) THEN "claim" ELSE "already"
            /\ runs' = [runs EXCEPT ![r].dispute = d, ![r].pc = pc]
    BY <1>6 DEF ReadDispute, Ids
  <2>2. PICK st : st = [runs[r] EXCEPT !.dispute = d, !.pc = pc]
    OBVIOUS
  <2>3. st \in RunState /\ st.pc = pc /\ st.dispute = d /\ st.verdict = runs[r].verdict
    BY <1>1, <2>2 DEF RunState
  <2>4. runs' = [runs EXCEPT ![r] = st]
    BY <2>1, <2>2 DEF ChainInv, TypeOK
  <2>5. RunInv(r, st)
    BY <1>1, <1>6, <2>1, <2>3 DEF ReadDispute, RunInv, Pending, Decided
  <2>. QED
    BY <1>5, <2>3, <2>4, <2>5
<1>7. CASE FetchCounterClaim(r)
  <2>1. PICK claim \in {"field", "whole", "start", None} :
            claim = IF disputes[runs[r].dispute].claim.uri THEN None
                    ELSE ParseCounterClaim(disputes[runs[r].dispute].claim.doc)
    <3>1. runs[r].dispute \in DOMAIN disputes
      BY <1>1, <1>7 DEF FetchCounterClaim, RunInv
    <3>2. PICK doc \in Docs : doc = disputes[runs[r].dispute].claim.doc
      BY <3>1, FiledDoc
    <3>. QED
      BY <3>2, ClaimRead
  <2>2. PICK pc \in {"refused", "source"} : pc = IF claim = None THEN "refused" ELSE "source"
    OBVIOUS
  <2>3. runs' = [runs EXCEPT ![r].claim = claim, ![r].pc = pc]
    BY <1>7, <2>1, <2>2 DEF FetchCounterClaim
  <2>4. PICK st : st = [runs[r] EXCEPT !.claim = claim, !.pc = pc]
    OBVIOUS
  <2>5. /\ st \in RunState /\ st.pc = pc
        /\ st.dispute = runs[r].dispute /\ st.verdict = runs[r].verdict
    BY <1>1, <2>4 DEF RunState
  <2>6. runs' = [runs EXCEPT ![r] = st]
    BY <2>3, <2>4 DEF ChainInv, TypeOK
  <2>7. RunInv(r, st)
    BY <1>1, <1>7, <2>5 DEF FetchCounterClaim, RunInv
  <2>. QED
    BY <1>5, <2>5, <2>6, <2>7
<1>8. CASE SourceLoader(r)
  <2>1. disputes[runs[r].dispute].target \in Targets
    <3>1. disputes \in Seq(Dispute) /\ runs[r].dispute \in DOMAIN disputes
      BY <1>1, <1>8 DEF SourceLoader, RunInv, ChainInv, TypeOK
    <3>2. disputes[runs[r].dispute] \in Dispute
      BY <3>1
    <3>. QED
      BY <3>2 DEF Dispute
  <2>2. PICK source \in Sources :
            runs' = [runs EXCEPT ![r].source = source,
                                 ![r].pc = IF source = None THEN "stopped" ELSE "judge"]
    <3>1. PICK t \in Targets : t = disputes[runs[r].dispute].target
      BY <2>1
    <3>2. PICK fallback \in Sources :
              fallback = IF KnownTarget(t) \in LocalNames THEN KnownTarget(t) ELSE None
      BY DEF Sources
    <3>3. PICK source \in {NameOf[t], fallback} :
            runs' = [runs EXCEPT ![r].source = source,
                                 ![r].pc = IF source = None THEN "stopped" ELSE "judge"]
      BY <1>8, <3>1, <3>2 DEF SourceLoader
    <3>4. source \in Sources
      BY <3>2, <3>3 DEF Sources
    <3>. QED
      BY <3>3, <3>4
  <2>3. PICK pc \in {"stopped", "judge"} : pc = IF source = None THEN "stopped" ELSE "judge"
    OBVIOUS
  <2>4. PICK st : st = [runs[r] EXCEPT !.source = source, !.pc = pc]
    OBVIOUS
  <2>5. /\ st \in RunState /\ st.pc = pc
        /\ st.dispute = runs[r].dispute /\ st.verdict = runs[r].verdict
    BY <1>1, <2>4 DEF RunState
  <2>6. runs' = [runs EXCEPT ![r] = st]
    BY <2>2, <2>3, <2>4 DEF ChainInv, TypeOK
  <2>7. RunInv(r, st)
    BY <1>1, <1>8, <2>5 DEF SourceLoader, RunInv
  <2>. QED
    BY <1>5, <2>5, <2>6, <2>7
<1>9. CASE Judge(r)
  <2>1. PICK reply \in Replies, outcome \in Outcomes \cup {None} :
            /\ outcome = ParseVerdict(Text(reply))
            /\ runs' = [runs EXCEPT
                   ![r].reply = reply,
                   ![r].verdict = IF outcome = None THEN None
                                  ELSE [outcome |-> outcome, text |-> Text(reply)],
                   ![r].pc = IF outcome = None THEN "refused" ELSE "send"]
    BY <1>9, OutcomeTyped DEF Judge
  <2>2. PICK verdict \in Verdicts \cup {None} :
            verdict = IF outcome = None THEN None
                      ELSE [outcome |-> outcome, text |-> Text(reply)]
    BY DEF Verdicts
  <2>3. PICK pc \in {"refused", "send"} : pc = IF outcome = None THEN "refused" ELSE "send"
    OBVIOUS
  <2>4. PICK st : st = [runs[r] EXCEPT !.reply = reply, !.verdict = verdict, !.pc = pc]
    OBVIOUS
  <2>5. /\ st \in RunState /\ st.pc = pc
        /\ st.dispute = runs[r].dispute /\ st.verdict = verdict
    BY <1>1, <2>4 DEF RunState
  <2>6. runs' = [runs EXCEPT ![r] = st]
    BY <2>1, <2>2, <2>3, <2>4 DEF ChainInv, TypeOK
  <2>7. RunInv(r, st)
    <3>1. pc = "send" => verdict \in Verdicts
      BY <2>2, <2>3 DEF Verdicts
    <3>. QED
      BY <1>1, <1>9, <2>5, <3>1 DEF Judge, RunInv
  <2>. QED
    BY <1>5, <2>5, <2>6, <2>7
<1>. QED
  BY <1>6, <1>7, <1>8, <1>9

(* A run that waits goes on to the ledger only with its own verdict mined. *)
LEMMA WaitKeeps ==
    ASSUME VerdictAssumption, ChainInv, NEW r \in Runs, Receipt(r) \/ Stop(r)
    PROVE  ChainInv'
<1>1. runs[r] \in RunState /\ RunInv(r, runs[r])
  BY Typed
<1>2. PICK pc \in {"ledger", "stopped"} : runs' = [runs EXCEPT ![r].pc = pc]
  BY DEF Receipt, Stop, Goto
<1>3. /\ UNCHANGED <<chainVars, ledger, verifier>>
      /\ runs[r].pc \notin {"new", "done", "stopped"}
      /\ pc = "ledger" => runs[r].pc = "wait" /\ \E m \in Receipts(r) : m.ok
  <2>1. CASE Receipt(r)
    <3>1. PICK m \in Receipts(r) : runs' = [runs EXCEPT ![r].pc = IF m.ok THEN "ledger" ELSE "stopped"]
      BY <2>1 DEF Receipt, Goto
    <3>2. pc = IF m.ok THEN "ledger" ELSE "stopped"
      BY <1>1, <1>2, <3>1 DEF ChainInv, TypeOK, RunState
    <3>. QED
      BY <2>1, <3>2 DEF Receipt
  <2>2. CASE Stop(r)
    <3>1. pc = "stopped"
      BY <1>1, <1>2, <2>2 DEF Stop, Goto, ChainInv, TypeOK, RunState
    <3>. QED
      BY <2>2, <3>1 DEF Stop
  <2>. QED
    BY <2>1, <2>2
<1>4. PICK st : st = [runs[r] EXCEPT !.pc = pc]
  OBVIOUS
<1>5. /\ st \in RunState /\ st.pc = pc
      /\ st.dispute = runs[r].dispute /\ st.verdict = runs[r].verdict
  BY <1>1, <1>4 DEF RunState
<1>6. runs' = [runs EXCEPT ![r] = st]
  BY <1>2, <1>4 DEF ChainInv, TypeOK
<1>7. pc = "ledger" => Confirmed(CallOf(r, st)) /\ ~ \E tx \in inflight : tx.by = r
  <2>1. ASSUME NEW m \in mined, m.tx = Call(r), m.ok
        PROVE  Confirmed(CallOf(r, st)) /\ ~ \E tx \in inflight : tx.by = r
    <3>1. m = [tx |-> m.tx, ok |-> TRUE]
      BY <2>1 DEF ChainInv, TypeOK
    <3>2. Call(r) = CallOf(r, st) /\ Call(r) = CallOf(r, runs[r])
      BY <1>5 DEF Call, CallOf
    <3>3. \A tx \in inflight : tx.by = r => tx = m.tx
      BY <2>1, <3>2 DEF ChainInv, TxInv, SentBy
    <3>. QED
      BY <2>1, <3>1, <3>2, <3>3 DEF Confirmed, ChainInv, TxInv
  <2>. QED
    BY <1>3, <2>1 DEF Receipts
<1>8. RunInv(r, st)
  BY <1>1, <1>3, <1>5, <1>7 DEF RunInv
<1>. QED
  BY <1>3, <1>5, <1>6, <1>7, <1>8, OwnStep

(* A verdict is broadcast once: its run has sent nothing before and sends  *)
(* nothing after.                                                          *)
LEMMA SendKeeps ==
    ASSUME DisputeRunAssumption, VerdictAssumption, ChainInv, NEW r \in Runs, Send(r)
    PROVE  ChainInv'
<1>1. runs[r] \in RunState /\ RunInv(r, runs[r]) /\ runs \in [Runs -> RunState]
  BY Typed DEF ChainInv, TypeOK
<1>2. PICK tx : tx = Call(r)
  OBVIOUS
<1>3. tx.by = r /\ tx.dispute = runs[r].dispute /\ tx.verdict = runs[r].verdict
  BY <1>2 DEF Call
<1>4. tx \in Transaction /\ tx.dispute \in DOMAIN disputes
  <2>1. runs[r].dispute \in DOMAIN disputes /\ runs[r].verdict \in Verdicts
    BY <1>1 DEF Send, RunInv
  <2>2. runs[r].dispute \in Ids
    BY <1>1, <2>1, DisputeRunAssumption DEF RunState, ChainInv, TypeOK, Ids, DisputeRunAssumption
  <2>. QED
    BY <1>2, <2>1, <2>2 DEF Call, Transaction
<1>5. /\ inflight' = inflight \cup {tx} /\ UNCHANGED <<disputes, mined, ledger, verifier>>
      /\ runs[r].pc = "send"
  BY <1>2 DEF Send
<1>6. PICK st : st = [runs[r] EXCEPT !.pc = "wait"]
  OBVIOUS
<1>7. /\ st \in RunState /\ st.pc = "wait"
      /\ st.dispute = runs[r].dispute /\ st.verdict = runs[r].verdict
  BY <1>1, <1>6 DEF RunState
<1>8. /\ runs' = [runs EXCEPT ![r] = st]
      /\ runs'[r] = st /\ \A p \in Runs : p # r => runs'[p] = runs[p]
  BY <1>1, <1>6 DEF Send, Goto
<1>9. /\ \A old \in inflight : old.by \in Runs /\ old.by # r
      /\ \A m \in mined : m.tx.by \in Runs /\ m.tx.by # r
      /\ \A i \in DOMAIN ledger : ledger[i].by \in Runs /\ ledger[i].by # r
  BY <1>5, RowTyped DEF ChainInv, TypeOK, TxInv, LedgerInv, Transaction
<1>10. TypeOK'
  BY <1>4, <1>5, <1>7, <1>8 DEF ChainInv, TypeOK
<1>11. RunsInv'
  <2>1. ASSUME NEW p \in Runs, NEW q, RunInv(p, q)
        PROVE  RunInv(p, q)'
    BY <1>5, <2>1 DEF RunInv, Decided, Confirmed, Posted
  <2>2. RunInv(r, st)
    BY <1>1, <1>5, <1>7 DEF RunInv
  <2>3. ASSUME NEW p \in Runs
        PROVE  RunInv(p, runs[p])'
    <3>1. PICK q : q = runs'[p]
      OBVIOUS
    <3>2. RunInv(p, q)
      BY <1>8, <2>2, <3>1 DEF ChainInv, RunsInv
    <3>3. RunInv(p, q)'
      BY <2>1, <3>2
    <3>. QED
      BY <3>1, <3>3
  <2>. QED
    BY <2>3 DEF RunsInv
<1>12. TxInv'
  <2>1. SentBy(tx)' /\ runs'[tx.by].pc = "wait"
    <3>1. tx = CallOf(tx.by, st)
      BY <1>2, <1>3, <1>7 DEF Call, CallOf
    <3>2. runs'[tx.by] = st
      BY <1>3, <1>8
    <3>. QED
      BY <1>4, <1>5, <1>7, <3>1, <3>2 DEF SentBy, CallOf
  <2>2. \A old \in inflight : SentBy(old)' /\ runs'[old.by].pc \in {"wait", "stopped"}
    BY <1>5, <1>8, <1>9 DEF ChainInv, TxInv, SentBy, CallOf
  <2>3. \A m \in mined :
            /\ SentBy(m.tx)' /\ runs'[m.tx.by].pc \in {"wait", "ledger", "done", "stopped"}
    BY <1>5, <1>8, <1>9 DEF ChainInv, TxInv, SentBy, CallOf
  <2>4. \A m \in mined : m.tx # tx
    BY <1>3, <1>9
  <2>. QED
    BY <1>5, <2>1, <2>2, <2>3, <2>4 DEF ChainInv, TxInv, Decided
<1>13. LedgerInv'
  <2>1. \A i \in DOMAIN ledger : runs'[ledger[i].by] = runs[ledger[i].by]
    BY <1>8, <1>9
  <2>2. \A i \in DOMAIN ledger :
            LET row == ledger[i] IN
            /\ runs'[row.by].pc = "done"
            /\ row.dispute = runs'[row.by].dispute /\ row.root = runs'[row.by].verdict
            /\ Decided(row.dispute)'
            /\ row.status = "resolved" => Confirmed(CallOf(row.by, runs'[row.by]))
            /\ row.status = "already_resolved" => row.root = None
    BY <1>5, <2>1 DEF ChainInv, LedgerInv, Decided
  <2>. QED
    BY <1>5, <2>2 DEF ChainInv, LedgerInv, Confirmed, CallOf
<1>. QED
  BY <1>10, <1>11, <1>12, <1>13 DEF ChainInv

(* A run writes one row, with the verdict it saw mined or without one.     *)
LEMMA AppendKeeps ==
    ASSUME DisputeRunAssumption, VerdictAssumption, ChainInv, NEW r \in Runs, AppendLedger(r)
    PROVE  ChainInv'
<1>1. runs[r] \in RunState /\ RunInv(r, runs[r]) /\ runs \in [Runs -> RunState]
  BY Typed DEF ChainInv, TypeOK
<1>2. PICK row : row = [by |-> r, dispute |-> runs[r].dispute,
                        status |-> IF runs[r].pc = "already" THEN "already_resolved"
                                   ELSE "resolved",
                        root |-> runs[r].verdict]
  OBVIOUS
<1>3. /\ ledger' = Append(ledger, row) /\ UNCHANGED <<chainVars, verifier>>
      /\ runs[r].pc \in {"ledger", "already"}
  BY <1>2 DEF AppendLedger
<1>4. /\ row \in Row /\ row.by = r /\ row.dispute = runs[r].dispute
      /\ row.root = runs[r].verdict /\ runs[r].dispute \in DOMAIN disputes
      /\ row.status = "already_resolved" <=> runs[r].pc = "already"
      /\ row.status = "resolved" <=> runs[r].pc = "ledger"
  <2>1. runs[r].dispute \in DOMAIN disputes
    BY <1>1, <1>3 DEF RunInv
  <2>2. runs[r].dispute \in Ids
    BY <1>1, <2>1, DisputeRunAssumption DEF RunState, ChainInv, TypeOK, Ids, DisputeRunAssumption
  <2>3. runs[r].verdict \in Verdicts \cup {None}
    BY <1>1 DEF RunState
  <2>. QED
    BY <1>2, <1>3, <2>1, <2>2, <2>3 DEF Row
<1>5. PICK st : st = [runs[r] EXCEPT !.pc = "done"]
  OBVIOUS
<1>6. /\ st \in RunState /\ st.pc = "done"
      /\ st.dispute = runs[r].dispute /\ st.verdict = runs[r].verdict
  BY <1>1, <1>5 DEF RunState
<1>7. /\ runs' = [runs EXCEPT ![r] = st]
      /\ runs'[r] = st /\ \A p \in Runs : p # r => runs'[p] = runs[p]
  BY <1>1, <1>5 DEF AppendLedger, Goto
<1>8. /\ ledger \in Seq(Row) /\ DOMAIN ledger = 1 .. Len(ledger) /\ Len(ledger) \in Nat
      /\ DOMAIN ledger' = 1 .. Len(ledger) + 1 /\ ledger'[Len(ledger) + 1] = row
      /\ \A i \in 1 .. Len(ledger) : ledger'[i] = ledger[i]
  BY <1>3 DEF ChainInv, TypeOK
<1>9. /\ \A tx \in inflight : tx.by \in Runs /\ tx.by # r
      /\ \A i \in DOMAIN ledger : ledger[i].by \in Runs /\ ledger[i].by # r
  <2>1. \A tx \in inflight : tx.by \in Runs
    BY DEF ChainInv, TypeOK, Transaction
  <2>2. \A tx \in inflight : tx.by # r
    BY <1>3 DEF ChainInv, TxInv
  <2>3. \A i \in DOMAIN ledger : ledger[i].by \in Runs
    BY RowTyped
  <2>4. \A i \in DOMAIN ledger : ledger[i].by # r
    BY <1>3 DEF ChainInv, LedgerInv
  <2>. QED
    BY <2>1, <2>2, <2>3, <2>4
<1>10. TypeOK'
  BY <1>3, <1>4, <1>6, <1>7 DEF ChainInv, TypeOK, chainVars
<1>11. RunsInv'
  <2>1. \A p \in Runs : Posted(p) => Posted(p)'
    BY <1>8 DEF Posted
  <2>2. ASSUME NEW p \in Runs, NEW q, RunInv(p, q)
        PROVE  RunInv(p, q)'
    BY <1>3, <2>1, <2>2 DEF RunInv, Decided, Confirmed, chainVars
  <2>3. RunInv(r, st)'
    <3>1. runs[r].pc = "ledger" => Posted(r)'
      BY <1>4, <1>8 DEF Posted
    <3>2. runs[r].pc = "already" => runs[r].verdict = None
      BY <1>1 DEF RunInv
    <3>. QED
      BY <1>3, <1>6, <3>1, <3>2 DEF RunInv
  <2>4. ASSUME NEW p \in Runs
        PROVE  RunInv(p, runs[p])'
    <3>1. PICK q : q = runs'[p]
      OBVIOUS
    <3>2. RunInv(p, q)'
      BY <1>7, <2>2, <2>3, <3>1 DEF ChainInv, RunsInv
    <3>. QED
      BY <3>1, <3>2
  <2>. QED
    BY <2>4 DEF RunsInv
<1>12. TxInv'
  <2>1. ASSUME NEW tx, tx.by \in Runs, SentBy(tx),
               runs[tx.by].pc \in {"wait", "ledger", "done", "stopped"}
        PROVE  /\ SentBy(tx)'
               /\ runs'[tx.by].pc \in {"wait", "ledger", "done", "stopped"}
    BY <1>3, <1>6, <1>7, <2>1 DEF SentBy, CallOf, chainVars
  <2>2. \A m \in mined : m.tx.by \in Runs
    BY DEF ChainInv, TypeOK, Transaction
  <2>3. \A tx \in inflight : SentBy(tx)' /\ runs'[tx.by].pc \in {"wait", "stopped"}
    BY <1>3, <1>7, <1>9 DEF ChainInv, TxInv, SentBy, CallOf, chainVars
  <2>4. \A m \in mined :
            /\ SentBy(m.tx)'
            /\ runs'[m.tx.by].pc \in {"wait", "ledger", "done", "stopped"}
    BY <2>1, <2>2 DEF ChainInv, TxInv
  <2>. QED
    BY <1>3, <2>3, <2>4 DEF ChainInv, TxInv, Decided, chainVars
<1>13. LedgerInv'
  <2>. DEFINE Fits(e) ==
           /\ runs'[e.by].pc = "done"
           /\ e.dispute = runs'[e.by].dispute /\ e.root = runs'[e.by].verdict
           /\ Decided(e.dispute)
           /\ e.status = "resolved" => Confirmed(CallOf(e.by, runs'[e.by]))
           /\ e.status = "already_resolved" => e.root = None
  <2>1. Fits(row)
    <3>1. runs[r].pc = "ledger" => Confirmed(CallOf(r, runs[r])) /\ Decided(runs[r].dispute)
      <4>1. SUFFICES ASSUME runs[r].pc = "ledger"
                     PROVE  Decided(runs[r].dispute)
        BY <1>1 DEF RunInv
      <4>2. PICK m \in mined : m = [tx |-> CallOf(r, runs[r]), ok |-> TRUE]
        BY <1>1, <4>1 DEF RunInv, Confirmed
      <4>3. disputes[runs[r].dispute].root = runs[r].verdict
        BY <4>2 DEF ChainInv, TxInv, CallOf
      <4>4. runs[r].verdict # None
        BY <1>1, <4>1, VerdictAssumption DEF RunInv, VerdictAssumption
      <4>. QED
        BY <1>4, <4>3, <4>4 DEF Decided, ChainInv, TypeOK
    <3>2. runs[r].pc = "already" => Decided(runs[r].dispute) /\ runs[r].verdict = None
      BY <1>1 DEF RunInv
    <3>3. runs'[row.by] = st /\ CallOf(r, st) = CallOf(r, runs[r])
      BY <1>4, <1>6, <1>7 DEF CallOf
    <3>. QED
      BY <1>3, <1>4, <1>6, <3>1, <3>2, <3>3 DEF Decided, Confirmed, CallOf, chainVars
  <2>2. \A i \in 1 .. Len(ledger) : Fits(ledger[i])
    <3>1. ASSUME NEW i \in 1 .. Len(ledger)
          PROVE  Fits(ledger[i])
      <4>1. PICK e, own : e = ledger[i] /\ own = runs[e.by]
        OBVIOUS
      <4>2. runs'[e.by] = own
        BY <1>7, <1>8, <1>9, <4>1
      <4>3. /\ own.pc = "done" /\ e.dispute = own.dispute /\ e.root = own.verdict
            /\ Decided(e.dispute)
            /\ e.status = "resolved" => Confirmed(CallOf(e.by, own))
            /\ e.status = "already_resolved" => e.root = None
        BY <1>8, <4>1 DEF ChainInv, LedgerInv
      <4>4. Fits(e)
        BY <4>2, <4>3
      <4>. QED
        BY <4>1, <4>4
    <3>. QED
      BY <3>1
  <2>3. \A i \in DOMAIN ledger' : Fits(ledger'[i])
    BY <1>8, <2>1, <2>2
  <2>4. \A i, j \in DOMAIN ledger' : ledger'[i].by = ledger'[j].by => i = j
    <3>1. \A i, j \in 1 .. Len(ledger) : ledger[i].by = ledger[j].by => i = j
      BY <1>8 DEF ChainInv, LedgerInv
    <3>. QED
      BY <1>4, <1>8, <1>9, <3>1
  <2>. QED
    BY <1>3, <2>3, <2>4 DEF LedgerInv, Confirmed, CallOf, Decided, chainVars
<1>. QED
  BY <1>10, <1>11, <1>12, <1>13 DEF ChainInv

-------------------------------------------------------------------------------
(***************************************************************************)
(* The chain's steps.                                                      *)
(***************************************************************************)

(* What the chain may do to what the scripts have seen: disputes are added *)
(* and decided ones stay; a transaction's receipt is final.                *)
ChainGrows ==
    /\ \A d \in DOMAIN disputes :
         /\ d \in DOMAIN disputes'
         /\ disputes[d].status # "PENDING" => disputes'[d] = disputes[d]
    /\ \A d \in DOMAIN disputes' : d \notin DOMAIN disputes =>
         /\ disputes'[d].status = "PENDING"
    /\ mined \subseteq mined'
    /\ \A m \in mined', n \in mined : m.tx = n.tx => m \in mined

(* What holds of a run's state still holds when the chain grows.           *)
LEMMA RunsKeep ==
    ASSUME RunsInv, ChainGrows, UNCHANGED <<runs, ledger>>
    PROVE  RunsInv'
<1>1. ASSUME NEW r \in Runs, NEW st, RunInv(r, st)
      PROVE  RunInv(r, st)'
  BY <1>1 DEF RunInv, ChainGrows, Decided, Confirmed, Posted
<1>2. ASSUME NEW r \in Runs
      PROVE  RunInv(r, runs[r])'
  <2>1. PICK st : st = runs[r]
    OBVIOUS
  <2>2. RunInv(r, st)'
    BY <1>1, <2>1 DEF RunsInv
  <2>. QED
    BY <2>1, <2>2
<1>. QED
  BY <1>2 DEF RunsInv

(* So does what holds of a row.                                            *)
LEMMA RowsKeep ==
    ASSUME ChainInv, ChainGrows, UNCHANGED <<runs, ledger>>
    PROVE  LedgerInv'
<1>1. ASSUME NEW i \in DOMAIN ledger
      PROVE  LET row == ledger[i] IN
             /\ runs[row.by].pc = "done"
             /\ row.dispute = runs[row.by].dispute /\ row.root = runs[row.by].verdict
             /\ row.dispute \in DOMAIN disputes' /\ disputes'[row.dispute].status # "PENDING"
             /\ row.status = "resolved" =>
                  [tx |-> CallOf(row.by, runs[row.by]), ok |-> TRUE] \in mined'
             /\ row.status = "already_resolved" => row.root = None
  <2>1. PICK e, own : e = ledger[i] /\ own = runs[e.by]
    OBVIOUS
  <2>2. /\ own.pc = "done" /\ e.dispute = own.dispute /\ e.root = own.verdict
        /\ Decided(e.dispute)
        /\ e.status = "resolved" => Confirmed(CallOf(e.by, own))
        /\ e.status = "already_resolved" => e.root = None
    BY <2>1 DEF ChainInv, LedgerInv
  <2>3. e.dispute \in DOMAIN disputes' /\ disputes'[e.dispute].status # "PENDING"
    BY <2>2 DEF ChainGrows, Decided
  <2>4. e.status = "resolved" => [tx |-> CallOf(e.by, own), ok |-> TRUE] \in mined'
    BY <2>2 DEF ChainGrows, Confirmed
  <2>. QED
    BY <2>1, <2>2, <2>3, <2>4
<1>2. \A i, j \in DOMAIN ledger : ledger[i].by = ledger[j].by => i = j
  BY DEF ChainInv, LedgerInv
<1>. QED
  BY <1>1, <1>2 DEF LedgerInv, Decided, Confirmed, CallOf

(* Filing a dispute adds an undecided one.                                 *)
LEMMA FileKeeps ==
    ASSUME DisputeRunAssumption, VerdictAssumption, ChainInv, FileDispute
    PROVE  ChainInv' /\ ChainGrows
<1>1. PICK t \in Targets, claim \in Claims :
          disputes' = Append(disputes, [target |-> t, claim |-> claim, status |-> "PENDING",
                                        root |-> None, stake |-> "LOCKED"])
  BY DEF FileDispute
<1>2. PICK f \in Dispute : /\ disputes' = Append(disputes, f)
                           /\ f.status = "PENDING" /\ f.root = None
  BY <1>1 DEF Dispute
<1>3. /\ disputes \in Seq(Dispute) /\ DOMAIN disputes = 1 .. Len(disputes)
      /\ Len(disputes) \in Nat
      /\ disputes' \in Seq(Dispute) /\ Len(disputes') = Len(disputes) + 1
      /\ DOMAIN disputes' = 1 .. Len(disputes) + 1
      /\ disputes'[Len(disputes) + 1] = f
      /\ \A d \in 1 .. Len(disputes) : disputes'[d] = disputes[d]
  BY <1>2 DEF ChainInv, TypeOK
<1>4. UNCHANGED <<inflight, mined, ledger, runs, verifier>> /\ Len(disputes) < MaxDisputes
  BY DEF FileDispute
<1>5. ChainGrows
  BY <1>2, <1>3, <1>4 DEF ChainGrows
<1>6. TypeOK'
  <2>1. Len(disputes') <= MaxDisputes
    BY <1>3, <1>4, DisputeRunAssumption DEF DisputeRunAssumption
  <2>2. \A d \in DOMAIN disputes' : disputes'[d].status = "PENDING" <=> disputes'[d].root = None
    BY <1>2, <1>3 DEF ChainInv, TypeOK
  <2>. QED
    BY <1>3, <1>4, <2>1, <2>2 DEF ChainInv, TypeOK
<1>7. TxInv'
  <2>1. \A tx : SentBy(tx) => SentBy(tx)'
    BY <1>3, <1>4 DEF SentBy, CallOf
  <2>2. \A tx \in inflight : SentBy(tx)' /\ runs'[tx.by].pc \in {"wait", "stopped"}
    BY <1>4, <2>1 DEF ChainInv, TxInv
  <2>3. \A m \in mined :
            /\ SentBy(m.tx)' /\ runs'[m.tx.by].pc \in {"wait", "ledger", "done", "stopped"}
            /\ m.tx \notin inflight
            /\ m.ok => disputes'[m.tx.dispute].root = m.tx.verdict
    BY <1>3, <1>4, <2>1 DEF ChainInv, TxInv, SentBy
  <2>4. \A d \in DOMAIN disputes' : Decided(d)' => d \in DOMAIN disputes /\ Decided(d)
    BY <1>2, <1>3 DEF Decided
  <2>. QED
    BY <1>4, <2>2, <2>3, <2>4 DEF ChainInv, TxInv
<1>9. RunsInv'
  BY <1>4, <1>5, RunsKeep DEF ChainInv
<1>. QED
  BY <1>4, <1>5, <1>6, <1>7, <1>9, RowsKeep DEF ChainInv

(* A dropped transaction leaves no trace.                                  *)
LEMMA DropKeeps ==
    ASSUME ChainInv, NEW tx \in inflight, Drop(tx)
    PROVE  ChainInv' /\ ChainGrows
<1>1. ChainGrows
  BY DEF Drop, ChainGrows, ChainInv, TypeOK
<1>2. TypeOK'
  BY DEF Drop, ChainInv, TypeOK
<1>3. TxInv'
  <2>1. \A old : SentBy(old) => SentBy(old)'
    BY DEF SentBy, CallOf, Drop
  <2>. QED
    BY <2>1 DEF Drop, ChainInv, TxInv, Decided
<1>5. RunsInv' /\ LedgerInv'
  BY <1>1, RunsKeep, RowsKeep DEF ChainInv, Drop
<1>. QED
  BY <1>1, <1>2, <1>3, <1>5 DEF ChainInv

(* A mined verdict decides its dispute if nothing did before.              *)
LEMMA MineKeeps ==
    ASSUME DisputeRunAssumption, VerdictAssumption, ChainInv, NEW tx \in inflight, Mine(tx)
    PROVE  ChainInv' /\ ChainGrows
<1>0. PICK d : d = tx.dispute
  OBVIOUS
<1>1. PICK ok \in BOOLEAN : d = tx.dispute /\ ok = Pending(d)
  <2>1. Pending(d) \in BOOLEAN
    BY DEF Pending
  <2>. QED
    BY <1>0, <2>1
<1>2. PICK new : new = [tx |-> tx, ok |-> ok]
  OBVIOUS
<1>3. /\ new.tx = tx /\ new.ok = ok /\ tx \in Transaction /\ new \in [tx : Transaction, ok : BOOLEAN]
      /\ tx.verdict \in Verdicts /\ tx.verdict.outcome \in Outcomes /\ tx.verdict # None
      /\ tx.by \in Runs
  BY <1>2, VerdictAssumption DEF ChainInv, TypeOK, Transaction, Verdicts, VerdictAssumption
<1>4. /\ inflight' = inflight \ {tx} /\ mined' = mined \cup {new}
      /\ UNCHANGED <<ledger, runs, verifier>>
  BY <1>1, <1>2 DEF Mine
<1>5. /\ SentBy(tx) /\ runs[tx.by].pc \in {"wait", "stopped"} /\ d \in DOMAIN disputes
      /\ \A m \in mined : m.tx # tx
  BY <1>1 DEF ChainInv, TxInv, SentBy
<1>6. disputes \in Seq(Dispute) /\ disputes[d] \in Dispute
  <2>1. disputes \in Seq(Dispute)
    BY DEF ChainInv, TypeOK
  <2>. QED
    BY <1>5, <2>1
<1>7. PICK stake \in StakeAfter(tx.verdict.outcome) :
          disputes' = IF ok THEN [disputes EXCEPT ![d].status = tx.verdict.outcome,
                                                  ![d].root = tx.verdict,
                                                  ![d].stake = stake]
                      ELSE disputes
  <2>1. \E stake : stake \in StakeAfter(tx.verdict.outcome)
    BY DEF StakeAfter
  <2>. QED
    BY <1>1, <2>1 DEF Mine
<1>17. PICK one : one = [disputes[d] EXCEPT !.status = tx.verdict.outcome,
                                            !.root = tx.verdict, !.stake = stake]
  OBVIOUS
<1>8. /\ one \in Dispute /\ one.status = tx.verdict.outcome /\ one.root = tx.verdict
      /\ one.status # "PENDING"
  BY <1>3, <1>6, <1>17 DEF Dispute, Outcomes, StakeAfter
<1>9. disputes' = IF ok THEN [disputes EXCEPT ![d] = one] ELSE disputes
  BY <1>5, <1>6, <1>7, <1>17
<1>10. /\ disputes' \in Seq(Dispute) /\ Len(disputes') = Len(disputes)
       /\ DOMAIN disputes' = DOMAIN disputes
       /\ ok => disputes'[d] = one
       /\ \A e \in DOMAIN disputes : e # d => disputes'[e] = disputes[e]
       /\ ~ok => disputes' = disputes
  BY <1>5, <1>6, <1>8, <1>9
<1>11. ok <=> disputes[d].status = "PENDING"
  BY <1>1, <1>5 DEF Pending
<1>12. ChainGrows
  BY <1>3, <1>4, <1>5, <1>10, <1>11 DEF ChainGrows
<1>13. TypeOK'
  <2>1. \A e \in DOMAIN disputes' : disputes'[e].status = "PENDING" <=> disputes'[e].root = None
    BY <1>3, <1>8, <1>10 DEF ChainInv, TypeOK
  <2>. QED
    BY <1>3, <1>4, <1>10, <2>1 DEF ChainInv, TypeOK
<1>14. TxInv'
  <2>1. \A old : SentBy(old) => SentBy(old)'
    BY <1>4, <1>10 DEF SentBy, CallOf
  <2>2. \A m \in mined : m.ok => m.tx.dispute # d \/ ~ok
    <3>1. \A m \in mined : m.ok /\ m.tx.dispute = d => disputes[d].root \in Verdicts
      BY DEF ChainInv, TxInv, TypeOK, Transaction
    <3>. QED
      BY <1>5, <1>11, <3>1, VerdictAssumption DEF ChainInv, TypeOK, VerdictAssumption
  <2>3. \A old \in inflight' : SentBy(old)' /\ runs'[old.by].pc \in {"wait", "stopped"}
    BY <1>4, <2>1 DEF ChainInv, TxInv
  <2>4. \A m \in mined :
            /\ SentBy(m.tx)' /\ runs'[m.tx.by].pc \in {"wait", "ledger", "done", "stopped"}
            /\ m.tx \notin inflight'
            /\ m.ok => disputes'[m.tx.dispute].root = m.tx.verdict
    BY <1>4, <1>10, <2>1, <2>2 DEF ChainInv, TxInv, SentBy
  <2>5. /\ SentBy(new.tx)' /\ runs'[new.tx.by].pc \in {"wait", "ledger", "done", "stopped"}
        /\ new.tx \notin inflight'
        /\ new.ok => disputes'[new.tx.dispute].root = new.tx.verdict
    BY <1>1, <1>3, <1>4, <1>5, <1>8, <1>10, <2>1
  <2>6. \A m, n \in mined' : m.ok /\ n.ok /\ m.tx.dispute = n.tx.dispute => m.tx = n.tx
    BY <1>1, <1>3, <1>4, <2>2 DEF ChainInv, TxInv
  <2>7. \A e \in DOMAIN disputes' :
            disputes'[e].status # "PENDING" => \E m \in mined' : m.ok /\ m.tx.dispute = e
    <3>1. ASSUME NEW e \in DOMAIN disputes, e = d, ok
          PROVE  \E m \in mined' : m.ok /\ m.tx.dispute = e
      BY <1>1, <1>3, <1>4, <3>1
    <3>2. ASSUME NEW e \in DOMAIN disputes, disputes[e].status # "PENDING"
          PROVE  \E m \in mined' : m.ok /\ m.tx.dispute = e
      BY <1>4, <3>2 DEF ChainInv, TxInv, Decided
    <3>. QED
      BY <1>10, <3>1, <3>2
  <2>. QED
    BY <1>4, <2>3, <2>4, <2>5, <2>6, <2>7 DEF TxInv, Decided
<1>16. RunsInv' /\ LedgerInv'
  BY <1>4, <1>12, RunsKeep, RowsKeep DEF ChainInv
<1>. QED
  BY <1>12, <1>13, <1>14, <1>16 DEF ChainInv

-------------------------------------------------------------------------------
(***************************************************************************)
(* A verification, and the theorems.                                       *)
(***************************************************************************)

(* What a verification of dispute d in state v has found still stands.     *)
Agrees(v) == v.status # "PENDING" /\ v.expect \in {None, v.status}
Slashed(v) ==
    v.status = "RETRACTED" /\ v.pool => disputes[v.dispute].stake = "SLASHED_DISPUTE"
Emitted(v) == v.tx # None => Confirmed(v.tx)
Asked == [pc : {"count", "stake", "event", "over"}, dispute : Ids,
          expect : Outcomes \cup {None}, pool : BOOLEAN, tx : Transaction \cup {None},
          code : {None, "0", "1", "raised"}, status : {"PENDING"} \cup Outcomes, ok : BOOLEAN]
FoundInv(v) ==
    /\ v.dispute \in DOMAIN disputes
    /\ v.status # "PENDING" => disputes[v.dispute].status = v.status
    /\ v.tx # None => \E m \in mined : m.tx = v.tx
    /\ v.pc # "over" => v.code = None
    /\ v.pc \in {"count", "stake"} => (v.ok <=> Agrees(v))
    /\ v.pc = "event" => (v.ok <=> Agrees(v) /\ Slashed(v))
    /\ v.code = "0" => Agrees(v) /\ Slashed(v) /\ Emitted(v)
    /\ v.code = "1" => ~(Agrees(v) /\ Slashed(v) /\ Emitted(v))
VerifierInv == verifier \in Asked => FoundInv(verifier)

(* A verification is of one of two kinds, told apart by its fields.        *)
LEMMA AskedOrNot ==
    ASSUME TypeOK
    PROVE  verifier \in Asked <=> "dispute" \in DOMAIN verifier
BY DEF TypeOK, Verification, Asked

(* Findings stand when the chain grows.                                    *)
LEMMA FindingsStand ==
    ASSUME TypeOK, ChainGrows, NEW v \in Asked, FoundInv(v)
    PROVE  FoundInv(v)'
<1>1. v.status # "PENDING" => disputes'[v.dispute] = disputes[v.dispute]
  BY DEF FoundInv, ChainGrows
<1>2. v.dispute \in DOMAIN disputes' /\ v.tx # None => \E m \in mined' : m.tx = v.tx
  BY DEF FoundInv, ChainGrows
<1>3. v.tx # None => (Confirmed(v.tx)' <=> Confirmed(v.tx))
  <2>1. ASSUME v.tx # None, [tx |-> v.tx, ok |-> TRUE] \in mined'
        PROVE  [tx |-> v.tx, ok |-> TRUE] \in mined
    BY <2>1 DEF FoundInv, ChainGrows
  <2>. QED
    BY <2>1 DEF Confirmed, ChainGrows
<1>. QED
  BY <1>1, <1>2, <1>3 DEF FoundInv, ChainGrows, Agrees, Slashed, Emitted

ScriptStep(r) ==
    \/ ReadDispute(r) \/ FetchCounterClaim(r) \/ SourceLoader(r) \/ Judge(r)
    \/ Send(r) \/ Receipt(r) \/ AppendLedger(r) \/ Stop(r)
VerifyStep == VerifyDispute \/ VerifyCount \/ VerifyStake \/ VerifyEvent \/ VerifyFails

(* Whoever else moves, the verification's findings are kept.               *)
LEMMA OthersKeep ==
    ASSUME DisputeRunAssumption, VerdictAssumption, ChainInv, VerifierInv,
           \/ FileDispute
           \/ \E tx \in inflight : Mine(tx) \/ Drop(tx)
           \/ \E r \in Runs : ScriptStep(r)
    PROVE  ChainInv' /\ VerifierInv'
<1>1. ChainInv' /\ ChainGrows
  <2>1. CASE FileDispute
    BY <2>1, FileKeeps
  <2>2. ASSUME NEW tx \in inflight, Mine(tx) \/ Drop(tx)
        PROVE  ChainInv' /\ ChainGrows
    BY <2>2, MineKeeps, DropKeeps
  <2>3. ASSUME NEW r \in Runs, ScriptStep(r)
        PROVE  ChainInv' /\ ChainGrows
    <3>1. ChainInv'
      BY <2>3, CaseKeeps, SendKeeps, WaitKeeps, AppendKeeps DEF ScriptStep
    <3>2. UNCHANGED <<disputes, mined>>
      BY <2>3 DEF ScriptStep, ReadDispute, FetchCounterClaim, SourceLoader, Judge, Send,
                  Receipt, AppendLedger, Stop, chainVars
    <3>. QED
      BY <3>1, <3>2 DEF ChainGrows
  <2>. QED
    BY <2>1, <2>2, <2>3
<1>2. UNCHANGED verifier
  BY DEF FileDispute, Mine, Drop, ScriptStep, ReadDispute, FetchCounterClaim, SourceLoader,
         Judge, Send, Receipt, AppendLedger, Stop
<1>3. VerifierInv'
  <2>1. PICK v : v = verifier
    OBVIOUS
  <2>2. v \in Asked => FoundInv(v)'
    BY <1>1, <2>1, FindingsStand DEF VerifierInv, ChainInv
  <2>. QED
    BY <1>2, <2>1, <2>2 DEF VerifierInv
<1>. QED
  BY <1>1, <1>3

(* A step of the verification finds what is true of the chain.             *)
LEMMA VerifyFinds ==
    ASSUME DisputeRunAssumption, VerdictAssumption, ChainInv, VerifierInv, VerifyStep
    PROVE  ChainInv' /\ VerifierInv'
<1>1. UNCHANGED <<chainVars, ledger, runs>>
  BY DEF VerifyStep, VerifyDispute, VerifyCount, VerifyStake, VerifyEvent, VerifyFails
<1>2. PICK w : w = verifier'
  OBVIOUS
<1>. SUFFICES w \in Verification /\ (w \in Asked => FoundInv(w))
  <2>1. w \in Verification => ChainInv'
    <3>1. ASSUME NEW r \in Runs, NEW st, RunInv(r, st)
          PROVE  RunInv(r, st)'
      BY <1>1, <3>1 DEF RunInv, Decided, Confirmed, Posted, chainVars
    <3>2. RunsInv'
      BY <1>1, RunsKeep DEF ChainInv, ChainGrows, chainVars
    <3>3. LedgerInv'
      BY <1>1, RowsKeep DEF ChainGrows, chainVars
    <3>4. TxInv'
      BY <1>1 DEF ChainInv, TxInv, SentBy, CallOf, Decided, chainVars
    <3>5. w \in Verification => TypeOK'
      BY <1>1, <1>2 DEF ChainInv, TypeOK, chainVars
    <3>. QED
      BY <3>2, <3>3, <3>4, <3>5 DEF ChainInv
  <2>2. FoundInv(w) => FoundInv(w)'
    BY <1>1 DEF FoundInv, Agrees, Slashed, Emitted, Confirmed, chainVars
  <2>. QED
    BY <1>2, <2>1, <2>2 DEF VerifierInv
<1>3. CASE VerifyDispute
  <2>1. PICK d \in 1 .. MaxDisputes, expect \in Outcomes \cup {None}, pool \in BOOLEAN,
             tx \in {m.tx : m \in mined} \cup {None} :
          verifier' =
              IF d \notin DOMAIN disputes THEN [pc |-> "over", code |-> "1"]
              ELSE [pc |-> "count", dispute |-> d, expect |-> expect, pool |-> pool, tx |-> tx,
                    code |-> None, status |-> disputes[d].status,
                    ok |-> /\ disputes[d].status # "PENDING"
                           /\ expect \in {None, disputes[d].status}
                           /\ disputes[d].root # None]
    BY <1>3 DEF VerifyDispute
  <2>2. CASE d \notin DOMAIN disputes
    <3>1. w = [pc |-> "over", code |-> "1"]
      BY <1>2, <2>1, <2>2
    <3>2. "dispute" \notin DOMAIN w
      BY <3>1
    <3>. QED
      BY <3>1, <3>2 DEF Verification, Asked
  <2>3. CASE d \in DOMAIN disputes
    <3>0. PICK status : status = disputes[d].status
      OBVIOUS
    <3>1. PICK ok \in BOOLEAN :
              ok = (/\ status # "PENDING" /\ expect \in {None, status}
                    /\ disputes[d].root # None)
      OBVIOUS
    <3>2. w = [pc |-> "count", dispute |-> d, expect |-> expect, pool |-> pool, tx |-> tx,
               code |-> None, status |-> status, ok |-> ok]
      BY <1>2, <2>1, <2>3, <3>0, <3>1
    <3>3. disputes[d] \in Dispute /\ (status = "PENDING" <=> disputes[d].root = None)
      <4>1. disputes \in Seq(Dispute)
        BY DEF ChainInv, TypeOK
      <4>2. disputes[d] \in Dispute
        BY <2>3, <4>1
      <4>. QED
        BY <2>3, <3>0, <4>2 DEF ChainInv, TypeOK
    <3>4. tx \in Transaction \cup {None} /\ status \in {"PENDING"} \cup Outcomes
      BY <3>0, <3>3 DEF ChainInv, TypeOK, Dispute
    <3>5. w \in Asked
      BY <3>2, <3>4 DEF Asked, Ids
    <3>6. FoundInv(w)
      <4>1. /\ w.dispute = d /\ w.status = status /\ w.pc = "count" /\ w.tx = tx
            /\ w.code = None /\ w.expect = expect /\ w.ok = ok
        BY <3>2
      <4>2. w.code \notin {"0", "1"}
        BY <4>1, DisputeRunAssumption DEF DisputeRunAssumption
      <4>3. w.ok <=> Agrees(w)
        BY <2>3, <3>0, <3>1, <3>3, <4>1 DEF Agrees
      <4>. QED
        BY <2>1, <2>3, <3>0, <4>1, <4>2, <4>3 DEF FoundInv
    <3>. QED
      BY <3>5, <3>6 DEF Verification, Asked
  <2>. QED
    BY <2>2, <2>3
<1>4. ASSUME VerifyCount \/ VerifyStake \/ VerifyEvent \/ VerifyFails
      PROVE  verifier \in Asked /\ FoundInv(verifier)
  <2>1. verifier.pc \in {"count", "stake", "event"}
    BY <1>4 DEF VerifyCount, VerifyStake, VerifyEvent, VerifyFails
  <2>2. verifier \in Asked
    BY <2>1 DEF ChainInv, TypeOK, Verification, Asked
  <2>. QED
    BY <2>2 DEF VerifierInv
<1>5. CASE VerifyCount
  <2>1. PICK v \in Asked : v = verifier /\ FoundInv(v) /\ v.pc = "count"
    BY <1>4, <1>5 DEF VerifyCount
  <2>2. Len(disputes) >= v.dispute
    BY <2>1 DEF FoundInv, ChainInv, TypeOK
  <2>3. PICK ok \in BOOLEAN : ok <=> v.ok /\ Len(disputes) >= v.dispute
    OBVIOUS
  <2>4. w = [v EXCEPT !.pc = "stake", !.ok = ok]
    BY <1>2, <1>5, <2>1, <2>3 DEF VerifyCount, Check, Asked
  <2>5. w \in Asked /\ FoundInv(w)
    BY <2>1, <2>2, <2>3, <2>4 DEF Asked, FoundInv, Agrees, Slashed, Emitted
  <2>. QED
    BY <2>5 DEF Verification, Asked
<1>6. CASE VerifyStake
  <2>1. PICK v \in Asked : v = verifier /\ FoundInv(v) /\ v.pc = "stake"
    BY <1>4, <1>6 DEF VerifyStake
  <2>2. PICK ok \in BOOLEAN : ok <=> v.ok /\ Slashed(v)
    OBVIOUS
  <2>3. w = [v EXCEPT !.pc = "event", !.ok = ok]
    BY <1>2, <1>6, <2>1, <2>2 DEF VerifyStake, Check, Slashed, Asked
  <2>4. w \in Asked /\ FoundInv(w)
    BY <2>1, <2>2, <2>3 DEF Asked, FoundInv, Agrees, Slashed, Emitted
  <2>. QED
    BY <2>4 DEF Verification, Asked
<1>7. CASE VerifyEvent
  <2>1. PICK v \in Asked : v = verifier /\ FoundInv(v) /\ v.pc = "event"
    BY <1>4, <1>7 DEF VerifyEvent
  <2>2. Emitted(v) <=> v.tx = None \/ \E m \in mined : m.tx = v.tx /\ m.ok
    <3>1. ASSUME NEW m \in mined, m.tx = v.tx, m.ok
          PROVE  [tx |-> v.tx, ok |-> TRUE] \in mined
      <4>1. m = [tx |-> v.tx, ok |-> TRUE]
        BY <3>1 DEF ChainInv, TypeOK
      <4>. QED
        BY <4>1
    <3>. QED
      BY <3>1 DEF Emitted, Confirmed
  <2>3. PICK ok \in BOOLEAN : ok <=> v.ok /\ Emitted(v)
    OBVIOUS
  <2>4. PICK code \in {"0", "1"} : code = IF ok THEN "0" ELSE "1"
    OBVIOUS
  <2>5. w = [v EXCEPT !.pc = "over", !.ok = ok, !.code = code]
    BY <1>2, <1>7, <2>1, <2>2, <2>3, <2>4 DEF VerifyEvent, Asked
  <2>6. w \in Asked
    BY <2>5 DEF Asked
  <2>7. FoundInv(w)
    BY <2>1, <2>3, <2>4, <2>5 DEF Asked, FoundInv, Agrees, Slashed, Emitted
  <2>. QED
    BY <2>6, <2>7 DEF Verification, Asked
<1>8. CASE VerifyFails
  <2>1. PICK v \in Asked : v = verifier /\ FoundInv(v)
    BY <1>4, <1>8
  <2>2. w = [v EXCEPT !.pc = "over", !.code = "raised"]
    BY <1>2, <1>8, <2>1 DEF VerifyFails
  <2>3. w \in Asked /\ FoundInv(w)
    BY <2>1, <2>2 DEF Asked, FoundInv
  <2>. QED
    BY <2>3 DEF Verification, Asked
<1>. QED
  BY <1>3, <1>5, <1>6, <1>7, <1>8 DEF VerifyStep

(* The invariant holds before any run has begun.                           *)
LEMMA ChainInit ==
    ASSUME DisputeRunAssumption, Init
    PROVE  ChainInv /\ VerifierInv
<1>1. PICK scene \in Scenes :
          /\ runs = [r \in Runs |-> IF r \in scene THEN NotRun ELSE [NotRun EXCEPT !.pc = "done"]]
          /\ verifier = [pc |-> IF Verifier \in scene THEN "new" ELSE "over", code |-> None]
  BY DEF Init
<1>2. /\ disputes = <<>> /\ inflight = {} /\ mined = {} /\ ledger = <<>>
  BY DEF Init
<1>3. \A r \in Runs : runs[r].pc \in {"new", "done"} /\ runs[r].verdict = None
  BY <1>1 DEF NotRun
<1>4. runs \in [Runs -> RunState]
  <2>1. NotRun \in RunState /\ [NotRun EXCEPT !.pc = "done"] \in RunState
    BY DEF NotRun, RunState, Sources
  <2>. QED
    BY <1>1, <2>1
<1>5. verifier \in Verification /\ "dispute" \notin DOMAIN verifier
  <2>1. PICK pc \in {"new", "over"} : verifier = [pc |-> pc, code |-> None]
    BY <1>1
  <2>. QED
    BY <2>1 DEF Verification
<1>6. TypeOK
  BY <1>2, <1>4, <1>5, DisputeRunAssumption DEF TypeOK, DisputeRunAssumption
<1>7. RunsInv
  BY <1>3 DEF RunsInv, RunInv
<1>8. TxInv /\ LedgerInv
  BY <1>2 DEF TxInv, LedgerInv
<1>9. VerifierInv
  BY <1>5, <1>6, AskedOrNot DEF VerifierInv
<1>. QED
  BY <1>6, <1>7, <1>8, <1>9 DEF ChainInv

(* Every behaviour keeps both invariants: scripts, chain and verification. *)
THEOREM RecordsInvariant == Spec => [](ChainInv /\ VerifierInv)
<1>. USE DisputeRunAssumption, VerdictAssumption
<1>1. Init => ChainInv /\ VerifierInv
  BY ChainInit
<1>2. (ChainInv /\ VerifierInv) /\ [Next]_vars => (ChainInv /\ VerifierInv)'
  <2>. SUFFICES ASSUME ChainInv, VerifierInv, [Next]_vars
                PROVE  ChainInv' /\ VerifierInv'
    OBVIOUS
  <2>1. CASE \/ FileDispute
             \/ \E tx \in inflight : Mine(tx) \/ Drop(tx)
             \/ \E r \in Runs : ScriptStep(r)
    BY <2>1, OthersKeep
  <2>2. CASE VerifyStep
    BY <2>2, VerifyFinds
  <2>3. CASE UNCHANGED vars
    <3>1. UNCHANGED <<disputes, inflight, mined, ledger, runs, verifier>>
      BY <2>3 DEF vars, chainVars
    <3>2. ChainGrows
      BY <3>1 DEF ChainGrows
    <3>3. RunsInv' /\ LedgerInv'
      BY <3>1, <3>2, RunsKeep, RowsKeep DEF ChainInv
    <3>4. TypeOK' /\ TxInv'
      BY <3>1 DEF ChainInv, TypeOK, TxInv, SentBy, CallOf, Decided
    <3>5. VerifierInv'
      BY <3>1 DEF VerifierInv, FoundInv, Agrees, Slashed, Emitted, Confirmed
    <3>. QED
      BY <3>3, <3>4, <3>5 DEF ChainInv
  <2>. QED
    BY <2>1, <2>2, <2>3 DEF Next, ScriptStep, VerifyStep
<1>. QED
  BY <1>1, <1>2, PTL DEF Spec

(* resolve_one's variables, the registry's disputes, the ledger's rows and *)
(* what verify_dispute_receipt.py has read keep their types.               *)
THEOREM TypeCorrect == Spec => []TypeOK
<1>1. ChainInv => TypeOK
  BY DEF ChainInv
<1>. QED
  BY <1>1, RecordsInvariant, PTL

(* What resolve_dispute_mainnet.py writes and what the exit code of        *)
(* verify_dispute_receipt.py says is true of the chain and stays so.       *)
THEOREM RecordsStayTrue == Spec => []RecordsTrue
<1>. USE DisputeRunAssumption, VerdictAssumption
<1>1. ChainInv /\ VerifierInv => RecordsTrue
  <2>. SUFFICES ASSUME ChainInv, VerifierInv
                PROVE  RecordsTrue
    OBVIOUS
  <2>1. ASSUME NEW i \in DOMAIN ledger
        PROVE  LET row == ledger[i] IN
               /\ Decided(row.dispute)
               /\ row.status = "resolved" =>
                    /\ row.root = disputes[row.dispute].root
                    /\ \A j \in DOMAIN ledger :
                         ledger[j].dispute = row.dispute /\ ledger[j].status = "resolved"
                         => i = j
               /\ row.status = "already_resolved" => row.root = None
    <3>. DEFINE tx(k) == CallOf(ledger[k].by, runs[ledger[k].by])
    <3>1. ASSUME NEW k \in DOMAIN ledger, ledger[k].status = "resolved"
          PROVE  /\ [tx |-> tx(k), ok |-> TRUE] \in mined
                 /\ tx(k).by = ledger[k].by /\ tx(k).dispute = ledger[k].dispute
                 /\ tx(k).verdict = ledger[k].root
      BY <3>1 DEF ChainInv, LedgerInv, Confirmed, CallOf
    <3>. HIDE DEF tx
    <3>2. ASSUME ledger[i].status = "resolved"
          PROVE  ledger[i].root = disputes[ledger[i].dispute].root
      <4>1. PICK m : m = [tx |-> tx(i), ok |-> TRUE]
        OBVIOUS
      <4>2. m \in mined /\ m.tx = tx(i) /\ m.ok
        BY <3>1, <3>2, <4>1
      <4>3. disputes[m.tx.dispute].root = m.tx.verdict
        BY <4>2 DEF ChainInv, TxInv
      <4>. QED
        BY <3>1, <3>2, <4>2, <4>3
    <3>3. ASSUME ledger[i].status = "resolved", NEW j \in DOMAIN ledger,
                 ledger[j].dispute = ledger[i].dispute, ledger[j].status = "resolved"
          PROVE  i = j
      <4>1. PICK m, n : m = [tx |-> tx(i), ok |-> TRUE] /\ n = [tx |-> tx(j), ok |-> TRUE]
        OBVIOUS
      <4>2. /\ m \in mined /\ m.tx = tx(i) /\ m.ok
            /\ n \in mined /\ n.tx = tx(j) /\ n.ok
        BY <3>1, <3>3, <4>1
      <4>3. /\ m.tx.dispute = ledger[i].dispute /\ m.tx.by = ledger[i].by
            /\ n.tx.dispute = ledger[j].dispute /\ n.tx.by = ledger[j].by
        BY <3>1, <3>3, <4>2
      <4>4. m.tx = n.tx
        BY <3>3, <4>2, <4>3 DEF ChainInv, TxInv
      <4>5. ledger[i].by = ledger[j].by
        BY <4>3, <4>4
      <4>. QED
        BY <4>5 DEF ChainInv, LedgerInv
    <3>. QED
      BY <3>2, <3>3 DEF ChainInv, LedgerInv
  <2>2. ASSUME NEW d \in DOMAIN disputes, Decided(d)
        PROVE  \E r \in Runs :
                   /\ [tx |-> Call(r), ok |-> TRUE] \in mined
                   /\ runs[r].dispute = d /\ runs[r].verdict = disputes[d].root
                   /\ \/ runs[r].pc \in {"wait", "ledger", "stopped"}
                      \/ \E i \in DOMAIN ledger : ledger[i].by = r /\ ledger[i].status = "resolved"
    <3>1. PICK m \in mined : m.ok /\ m.tx.dispute = d
      BY <2>2 DEF ChainInv, TxInv
    <3>2. PICK r : r = m.tx.by
      OBVIOUS
    <3>3. /\ m.tx \in Transaction /\ r \in Runs /\ m = [tx |-> m.tx, ok |-> TRUE]
          /\ m.tx.verdict # None
      BY <3>1, <3>2 DEF ChainInv, TypeOK, Transaction, VerdictAssumption
    <3>4. /\ m.tx = CallOf(r, runs[r]) /\ m.tx = Call(r)
          /\ runs[r].pc \in {"wait", "ledger", "done", "stopped"}
          /\ disputes[d].root = m.tx.verdict
      BY <3>1, <3>2 DEF ChainInv, TxInv, SentBy, CallOf, Call
    <3>5. runs[r].dispute = d /\ runs[r].verdict = disputes[d].root /\ runs[r].verdict # None
      BY <3>1, <3>3, <3>4 DEF CallOf
    <3>6. runs[r].pc = "done" => Posted(r)
      BY <3>3, <3>5 DEF ChainInv, RunsInv, RunInv
    <3>. QED
      BY <3>3, <3>4, <3>5, <3>6 DEF Posted
  <2>3. ASSUME verifier.code \in {"0", "1"}, "dispute" \in DOMAIN verifier
        PROVE  LET d == disputes[verifier.dispute] IN
               /\ verifier.code = "0" =>
                    /\ d.status # "PENDING" /\ d.status = verifier.status
                    /\ verifier.expect \in {None, d.status}
                    /\ d.status = "RETRACTED" /\ verifier.pool => d.stake = "SLASHED_DISPUTE"
               /\ verifier.code = "1" =>
                    \/ verifier.status = "PENDING"
                    \/ verifier.expect \notin {None, d.status}
                    \/ d.status = "RETRACTED" /\ verifier.pool /\ d.stake # "SLASHED_DISPUTE"
                    \/ verifier.tx # None /\ [tx |-> verifier.tx, ok |-> TRUE] \notin mined
    <3>1. FoundInv(verifier)
      BY <2>3, AskedOrNot DEF VerifierInv, ChainInv
    <3>. QED
      BY <3>1 DEF FoundInv, Agrees, Slashed, Emitted, Confirmed
  <2>. QED
    BY <2>1, <2>2, <2>3 DEF RecordsTrue
<1>. QED
  BY <1>1, RecordsInvariant, PTL

-------------------------------------------------------------------------------
(***************************************************************************)
(* Folding over a sequence: its value after every token.                   *)
(***************************************************************************)

(* A set of naturals has a least member. *)
LEMMA LeastMember ==
    ASSUME NEW S \in SUBSET Nat, S # {}
    PROVE  \E x \in S : \A y \in S : x <= y
<1>. DEFINE T == {0 .. x : x \in S}
<1>1. T \subseteq FiniteSubsetsOf(Nat) /\ T # {}
  <2>1. ASSUME NEW x \in S PROVE 0 .. x \in FiniteSubsetsOf(Nat)
    <3>1. x \in Int /\ 0 .. x \subseteq Nat
      OBVIOUS
    <3>2. IsFiniteSet(0 .. x)
      BY <3>1, FS_Interval
    <3>. QED
      BY <3>1, <3>2 DEF FiniteSubsetsOf
  <2>. QED
    BY <2>1
<1>2. PICK t \in T : \A u \in T : ~ (<<u, t>> \in StrictSubsetOrdering(Nat))
  BY <1>1, FS_StrictSubsetOrderingWellFounded, WFMin
<1>3. PICK x \in S : t = 0 .. x
  BY <1>2
<1>4. ASSUME NEW y \in S PROVE x <= y
  <2>1. CASE y < x
    <3>1. 0 .. y \subseteq 0 .. x /\ x \in 0 .. x /\ x \notin 0 .. y
      BY <2>1
    <3>2. <<0 .. y, t>> \in StrictSubsetOrdering(Nat)
      BY <1>3, <3>1 DEF StrictSubsetOrdering
    <3>. QED
      BY <1>2, <3>2
  <2>. QED
    BY <2>1
<1>. QED
  BY <1>4

(* A set of numbers up to n has a greatest member, which Max names.        *)
LEMMA MaxOf ==
    ASSUME NEW n \in Nat, NEW S \in SUBSET (1 .. n), S # {}
    PROVE  Max(S) \in S /\ \A x \in S : x <= Max(S)
<1>. DEFINE D == {n - x : x \in S}
<1>1. D \in SUBSET Nat /\ D # {}
  <2>1. \A x \in S : n - x \in Nat
    OBVIOUS
  <2>. QED
    BY <2>1
<1>2. PICK d \in D : \A e \in D : d <= e
  BY <1>1, LeastMember
<1>3. PICK x \in S : d = n - x
  OBVIOUS
<1>4. ASSUME NEW y \in S PROVE x >= y
  <2>1. n - y \in D
    OBVIOUS
  <2>2. n - x <= n - y
    BY <1>2, <1>3, <2>1
  <2>. QED
    BY <2>2
<1>. DEFINE P(z) == z \in S /\ \A y \in S : z >= y
<1>5. P(CHOOSE z : P(z))
  <2>1. P(x)
    BY <1>4
  <2>. QED
    BY <2>1, Zenon
<1>6. Max(S) = CHOOSE z : P(z)
  BY Zenon DEF Max
<1>. QED
  BY <1>5, <1>6

(* ... and so has it a least one, Min.                                     *)
LEMMA MinOf ==
    ASSUME NEW S \in SUBSET Nat, S # {}
    PROVE  Min(S) \in S /\ \A x \in S : Min(S) <= x
<1>. DEFINE P(z) == z \in S /\ \A y \in S : z <= y
<1>1. PICK x : P(x)
  BY LeastMember
<1>2. P(CHOOSE z : P(z))
  BY <1>1, Zenon
<1>3. Min(S) = CHOOSE z : P(z)
  BY Zenon DEF Min
<1>. QED
  BY <1>2, <1>3

(* The recursion behind FoldLeft: `it` folds every set of positions up to n. *)
FoldStep(seq, it, s) == IF s = {} THEN Opened ELSE Scan(it[s \ {Max(s)}], seq[Max(s)])
FoldsTo(seq, n, it) == it = [s \in SUBSET (1 .. n) |-> FoldStep(seq, it, s)]

(* The recursion has a solution.                                           *)
LEMMA FoldExists ==
    ASSUME NEW seq, NEW n \in Nat
    PROVE  \E it : FoldsTo(seq, n, it)
<1>. DEFINE Bad == {m \in Nat : ~ \E it : FoldsTo(seq, m, it)}
<1>1. CASE Bad # {}
  <2>1. PICK m \in Bad : \A k \in Bad : m <= k
    BY <1>1, LeastMember
  <2>2. CASE m = 0
    <3>. DEFINE it == [s \in SUBSET (1 .. 0) |-> Opened]
    <3>1. \A s \in SUBSET (1 .. 0) : FoldStep(seq, it, s) = Opened
      BY DEF FoldStep
    <3>2. FoldsTo(seq, 0, it)
      BY <3>1 DEF FoldsTo
    <3>. QED
      BY <2>1, <2>2, <3>2
  <2>3. CASE m # 0
    <3>1. m - 1 \in Nat /\ m - 1 \notin Bad
      BY <2>1, <2>3
    <3>2. PICK f : FoldsTo(seq, m - 1, f)
      BY <3>1
    <3>3. PICK g : g = [s \in SUBSET (1 .. m) |-> FoldStep(seq, f, s)]
      OBVIOUS
    <3>4. ASSUME NEW s \in SUBSET (1 .. m - 1)
          PROVE  g[s] = f[s]
      <4>1. s \in SUBSET (1 .. m)
        BY <3>1
      <4>. QED
        BY <3>2, <3>3, <4>1 DEF FoldsTo
    <3>5. ASSUME NEW s \in SUBSET (1 .. m), s # {}
          PROVE  s \ {Max(s)} \in SUBSET (1 .. m - 1)
      <4>1. Max(s) \in s /\ \A x \in s : x <= Max(s)
        BY <3>5, MaxOf
      <4>2. ASSUME NEW x \in s \ {Max(s)} PROVE x \in 1 .. m - 1
          <5>1. x \in 1 .. m /\ x <= Max(s) /\ x # Max(s) /\ Max(s) \in 1 .. m
            BY <4>1, <4>2
          <5>. QED
            BY <5>1
      <4>. QED
        BY <4>2
    <3>6. ASSUME NEW s \in SUBSET (1 .. m)
          PROVE  FoldStep(seq, g, s) = FoldStep(seq, f, s)
      BY <3>4, <3>5 DEF FoldStep
    <3>7. FoldsTo(seq, m, g)
      BY <3>3, <3>6 DEF FoldsTo
    <3>. QED
      BY <2>1, <3>7
  <2>. QED
    BY <2>2, <2>3
<1>. QED
  BY <1>1

(* The scan of a text, state by state: f[k] is what it is after k tokens.  *)
Scans(seq, f) ==
    /\ f[0] = Opened
    /\ \A k \in 1 .. Len(seq) : f[k] = Scan(f[k - 1], seq[k])

(* FoldLeft(Scan, ...) is the last state of the scan.                      *)
LEMMA FoldIsScan ==
    ASSUME NEW seq \in Seq(STRING)
    PROVE  \E f : Scans(seq, f) /\ FoldLeft(Scan, Opened, seq) = f[Len(seq)]
<1>. DEFINE n == Len(seq)
            it == CHOOSE g : FoldsTo(seq, n, g)
            f == [k \in 0 .. n |-> it[1 .. k]]
<1>1. n \in Nat /\ DOMAIN seq = 1 .. n
  OBVIOUS
<1>2. FoldsTo(seq, n, it)
  BY <1>1, FoldExists
<1>3. FoldLeft(Scan, Opened, seq) = it[1 .. n]
  <2>1. FoldLeft(Scan, Opened, seq)
          = (CHOOSE g : g = [s \in SUBSET DOMAIN seq |->
                IF s = {} THEN Opened ELSE Scan(g[s \ {Max(s)}], seq[Max(s)])])[DOMAIN seq]
    BY Zenon DEF FoldLeft, MapThenFoldSet
  <2>. QED
    BY <1>1, <2>1, Zenon DEF FoldsTo, FoldStep
<1>4. f[0] = Opened
  <2>1. 1 .. 0 = {} /\ {} \in SUBSET (1 .. n)
    OBVIOUS
  <2>2. it[{}] = Opened
    BY <1>2, <2>1 DEF FoldsTo, FoldStep
  <2>3. 0 \in 0 .. n
    BY <1>1
  <2>. QED
    BY <2>1, <2>2, <2>3
<1>5. ASSUME NEW k \in 1 .. n
      PROVE  f[k] = Scan(f[k - 1], seq[k])
  <2>1. 1 .. k \in SUBSET (1 .. n) /\ 1 .. k # {} /\ 1 .. k \in SUBSET (1 .. k) /\ k \in Nat
    <3>1. k \in Nat /\ 1 <= k /\ k <= n
      BY <1>1
    <3>2. \A x \in 1 .. k : x \in 1 .. n
      BY <1>1, <3>1
    <3>3. k \in 1 .. k
      BY <3>1
    <3>. QED
      BY <3>1, <3>2, <3>3
  <2>2. Max(1 .. k) = k
    <3>1. Max(1 .. k) \in 1 .. k /\ \A x \in 1 .. k : x <= Max(1 .. k)
      BY <2>1, MaxOf
    <3>. QED
      BY <3>1
  <2>3. (1 .. k) \ {k} = 1 .. k - 1
    BY <2>1
  <2>4. it[1 .. k] = Scan(it[1 .. k - 1], seq[k])
    <3>1. it[1 .. k] = FoldStep(seq, it, 1 .. k)
      BY <1>2, <2>1, Zenon DEF FoldsTo
    <3>. QED
      BY <2>1, <2>2, <2>3, <3>1, Zenon DEF FoldStep
  <2>5. k \in 0 .. n /\ k - 1 \in 0 .. n
    BY <1>1, <2>1
  <2>. QED
    BY <2>4, <2>5
<1>6. f[n] = it[1 .. n]
  BY <1>1
<1>7. Scans(seq, f)
  BY <1>4, <1>5 DEF Scans
<1>. QED
  BY <1>3, <1>6, <1>7

-------------------------------------------------------------------------------
(***************************************************************************)
(* The scan of a JSON text.                                                *)
(***************************************************************************)

(* The tokens differ.                                                      *)
LEMMA TokensDiffer ==
    /\ LBrace # RBrace /\ LBrace # Fence /\ RBrace # Fence
    /\ {LBrace, RBrace} \cap {"quote", "escape"} = {}
<1>1. LBrace # RBrace /\ LBrace # Fence /\ RBrace # Fence
  BY Zenon DEF LBrace, RBrace, Fence
<1>2. LBrace # "quote" /\ LBrace # "escape" /\ RBrace # "quote" /\ RBrace # "escape"
  BY Zenon DEF LBrace, RBrace
<1>. QED
  BY <1>1, <1>2

(* The state after l tokens at brace depth d, within or outside a string.  *)
At(l, d, mode) ==
    [length |-> l, depth |-> d, string |-> mode # "outside", escape |-> mode = "escaped",
     closed |-> FALSE]

(* What one token does to the scan.                                        *)
LEMMA ScanToken ==
    ASSUME NEW l \in Nat, NEW d \in Nat, NEW mode \in Modes, NEW token \in STRING
    PROVE  /\ mode = "outside" /\ token = LBrace =>
                Scan(At(l, d, mode), token) = At(l + 1, d + 1, mode)
           /\ mode = "outside" /\ token = RBrace /\ d # 1 =>
                Scan(At(l, d, mode), token) = At(l + 1, d - 1, mode)
           /\ mode = "outside" /\ token = RBrace /\ d = 1 =>
                /\ Scan(At(l, d, mode), token).closed
                /\ Scan(At(l, d, mode), token).length = l + 1
           /\ mode # "outside" \/ token \notin {LBrace, RBrace} =>
                Scan(At(l, d, mode), token) = At(l + 1, d, After(mode, token))
<1>1. CASE mode = "outside" /\ token = LBrace
  BY <1>1, TokensDiffer DEF Scan, At
<1>2. CASE mode = "outside" /\ token = RBrace
  BY <1>2, TokensDiffer DEF Scan, At
<1>3. CASE mode = "outside" /\ token \notin {LBrace, RBrace}
  <2>1. CASE token = "quote"
    <3>1. After(mode, token) = "inside"
      BY <1>3, <2>1 DEF After
    <3>. QED
      BY <1>3, <2>1, <3>1 DEF Scan, At
  <2>2. CASE token # "quote"
    <3>1. After(mode, token) = "outside"
      BY <1>3, <2>2 DEF After
    <3>. QED
      BY <1>3, <2>2, <3>1 DEF Scan, At
  <2>. QED
    BY <2>1, <2>2
<1>4. CASE mode = "inside"
  <2>1. CASE token = "quote"
    <3>1. After(mode, token) = "outside"
      BY <1>4, <2>1 DEF After
    <3>. QED
      BY <1>4, <2>1, <3>1 DEF Scan, At
  <2>2. CASE token = "escape"
    <3>1. After(mode, token) = "escaped"
      BY <1>4, <2>2 DEF After
    <3>. QED
      BY <1>4, <2>2, <3>1 DEF Scan, At
  <2>3. CASE token \notin {"quote", "escape"}
    <3>1. After(mode, token) = "inside"
      BY <1>4, <2>3 DEF After
    <3>. QED
      BY <1>4, <2>3, <3>1 DEF Scan, At
  <2>. QED
    BY <2>1, <2>2, <2>3
<1>5. CASE mode = "escaped"
  BY <1>5 DEF Scan, At, After
<1>. QED
  BY <1>1, <1>2, <1>3, <1>4, <1>5 DEF Modes

(* The braces outside of strings, counted one token further.               *)
LEMMA BracesCount ==
    ASSUME NEW text, NEW mode, NEW brace, NEW n \in Nat
    PROVE  /\ Braces(text, mode, brace, n) \in Nat
           /\ Braces(text, mode, brace, 0) = 0
           /\ Braces(text, mode, brace, n + 1)
                = Braces(text, mode, brace, n)
                    + (IF mode[n + 1] = "outside" /\ text[n + 1] = brace THEN 1 ELSE 0)
<1>. DEFINE Of(m) == {i \in 1 .. m : mode[i] = "outside" /\ text[i] = brace}
<1>1. IsFiniteSet(Of(n))
  <2>1. n \in Int /\ Of(n) \subseteq 1 .. n
    OBVIOUS
  <2>2. IsFiniteSet(1 .. n)
    BY <2>1, FS_Interval
  <2>. QED
    BY <2>1, <2>2, FS_Subset
<1>2. Of(0) = {} /\ Cardinality({}) = 0
  BY FS_EmptySet
<1>3. CASE mode[n + 1] = "outside" /\ text[n + 1] = brace
  <2>1. Of(n + 1) = Of(n) \cup {n + 1} /\ n + 1 \notin Of(n)
    BY <1>3
  <2>2. Cardinality(Of(n + 1)) = Cardinality(Of(n)) + 1
    BY <1>1, <2>1, FS_AddElement
  <2>. QED
    BY <1>1, <1>2, <1>3, <2>2, FS_CardinalityType DEF Braces
<1>4. CASE ~ (mode[n + 1] = "outside" /\ text[n + 1] = brace)
  <2>1. Of(n + 1) = Of(n)
    BY <1>4
  <2>2. Cardinality(Of(n)) \in Nat
    BY <1>1, FS_CardinalityType
  <2>. QED
    BY <1>2, <1>4, <2>1, <2>2 DEF Braces
<1>. QED
  BY <1>3, <1>4

(* An object's text, its modes, and the depth after each of its tokens.    *)
Nested(text, mode, d) ==
    /\ mode \in [1 .. Len(text) -> Modes]
    /\ d \in [0 .. Len(text) -> Nat]
    /\ mode[1] = "outside" /\ text[1] = LBrace
    /\ \A i \in 1 .. Len(text) - 1 : mode[i + 1] = After(mode[i], text[i])
    /\ \A i \in 1 .. Len(text) :
          d[i] = IF mode[i] = "outside" /\ text[i] = LBrace THEN d[i - 1] + 1
                 ELSE IF mode[i] = "outside" /\ text[i] = RBrace THEN d[i - 1] - 1 ELSE d[i - 1]
    /\ d[0] = 0 /\ d[Len(text)] = 0
    /\ \A i \in 1 .. Len(text) - 1 : d[i] > 0

(* The same, looking back.                                                 *)
LEMMA BracesBack ==
    ASSUME NEW text, NEW mode, NEW brace, NEW n \in Nat \ {0}
    PROVE  /\ \A i \in 0 .. n : Braces(text, mode, brace, i) \in Nat
           /\ Braces(text, mode, brace, 0) = 0
           /\ \A i \in 1 .. n :
                 Braces(text, mode, brace, i) = Braces(text, mode, brace, i - 1)
                     + (IF mode[i] = "outside" /\ text[i] = brace THEN 1 ELSE 0)
<1>1. ASSUME NEW i \in 0 .. n PROVE Braces(text, mode, brace, i) \in Nat
  <2>1. i \in Nat
    OBVIOUS
  <2>. QED
    BY <2>1, BracesCount
<1>2. ASSUME NEW i \in 1 .. n
      PROVE  Braces(text, mode, brace, i) = Braces(text, mode, brace, i - 1)
                 + (IF mode[i] = "outside" /\ text[i] = brace THEN 1 ELSE 0)
  <2>1. PICK j \in Nat : j = i - 1 /\ j + 1 = i
    OBVIOUS
  <2>2. Braces(text, mode, brace, j + 1) = Braces(text, mode, brace, j)
          + (IF mode[j + 1] = "outside" /\ text[j + 1] = brace THEN 1 ELSE 0)
    BY BracesCount
  <2>. QED
    BY <2>1, <2>2
<1>3. Braces(text, mode, brace, 0) = 0
  BY BracesCount
<1>. QED
  BY <1>1, <1>2, <1>3

(* ... and as a function of the position.                                  *)
Counts(c, text, mode, brace, n) ==
    /\ c \in [0 .. n -> Nat]
    /\ \A i \in 0 .. n : c[i] = Braces(text, mode, brace, i)
    /\ c[0] = 0
    /\ \A i \in 1 .. n :
         c[i] = c[i - 1] + (IF mode[i] = "outside" /\ text[i] = brace THEN 1 ELSE 0)

(* There is this function.                                                 *)
LEMMA BracesFunction ==
    ASSUME NEW text, NEW mode, NEW brace, NEW n \in Nat \ {0}
    PROVE  \E c : Counts(c, text, mode, brace, n)
<1>1. /\ \A i \in 0 .. n : Braces(text, mode, brace, i) \in Nat
      /\ Braces(text, mode, brace, 0) = 0
      /\ \A i \in 1 .. n :
            Braces(text, mode, brace, i) = Braces(text, mode, brace, i - 1)
                + (IF mode[i] = "outside" /\ text[i] = brace THEN 1 ELSE 0)
  BY BracesBack
<1>2. 0 \in 0 .. n /\ \A i \in 1 .. n : i \in 0 .. n /\ i - 1 \in 0 .. n
  OBVIOUS
<1>3. PICK c : c = [i \in 0 .. n |-> Braces(text, mode, brace, i)]
  OBVIOUS
<1>4. c \in [0 .. n -> Nat] /\ \A i \in 0 .. n : c[i] = Braces(text, mode, brace, i)
  BY <1>1, <1>3
<1>5. c[0] = 0
  BY <1>1, <1>2, <1>4
<1>6. ASSUME NEW i \in 1 .. n
      PROVE  c[i] = c[i - 1] + (IF mode[i] = "outside" /\ text[i] = brace THEN 1 ELSE 0)
  <2>1. /\ c[i] = Braces(text, mode, brace, i)
        /\ c[i - 1] = Braces(text, mode, brace, i - 1)
    BY <1>2, <1>4
  <2>. QED
    BY <1>1, <2>1
<1>. QED
  BY <1>4, <1>5, <1>6 DEF Counts

(* An object's braces nest.                                                *)
LEMMA ObjectNests ==
    ASSUME NEW text \in Seq(STRING), text # <<>>, IsObject(text)
    PROVE  \E mode, d : Nested(text, mode, d)
<1>. DEFINE n == Len(text)
<1>1. n \in Nat \ {0}
  BY EmptySeq
<1>2. PICK mode \in [1 .. n -> Modes] :
        /\ mode[1] = "outside" /\ text[1] = LBrace
        /\ \A i \in 1 .. n - 1 : mode[i + 1] = After(mode[i], text[i])
        /\ \A i \in 1 .. n - 1 : Braces(text, mode, RBrace, i) < Braces(text, mode, LBrace, i)
        /\ Braces(text, mode, RBrace, n) = Braces(text, mode, LBrace, n)
  BY DEF IsObject
<1>3. PICK o : Counts(o, text, mode, LBrace, n)
  BY <1>1, BracesFunction
<1>4. PICK c : Counts(c, text, mode, RBrace, n)
  BY <1>1, BracesFunction
<1>5. /\ \A i \in 1 .. n - 1 : c[i] < o[i]
      /\ c[n] = o[n]
  <2>1. n \in 0 .. n /\ \A i \in 1 .. n - 1 : i \in 0 .. n
    BY <1>1
  <2>. QED
    BY <1>2, <1>3, <1>4, <2>1 DEF Counts
<1>6. \A i \in 0 .. n : c[i] <= o[i]
  <2>1. ASSUME NEW i \in 0 .. n PROVE c[i] <= o[i]
    <3>1. i = 0 \/ i = n \/ i \in 1 .. n - 1
      BY <1>1
    <3>. QED
      BY <1>3, <1>4, <1>5, <3>1 DEF Counts
  <2>. QED
    BY <2>1
<1>7. PICK d : d = [i \in 0 .. n |-> o[i] - c[i]]
  OBVIOUS
<1>8. d \in [0 .. n -> Nat]
  <2>1. ASSUME NEW i \in 0 .. n PROVE o[i] - c[i] \in Nat
    <3>1. o[i] \in Nat /\ c[i] \in Nat /\ c[i] <= o[i]
      BY <1>3, <1>4, <1>6 DEF Counts
    <3>. QED
      BY <3>1
  <2>. QED
    BY <1>7, <2>1
<1>9. ASSUME NEW i \in 1 .. n
       PROVE  d[i] = IF mode[i] = "outside" /\ text[i] = LBrace THEN d[i - 1] + 1
                     ELSE IF mode[i] = "outside" /\ text[i] = RBrace THEN d[i - 1] - 1
                     ELSE d[i - 1]
  <2>1. i \in 0 .. n /\ i - 1 \in 0 .. n
    BY <1>1
  <2>2. /\ d[i] = o[i] - c[i] /\ d[i - 1] = o[i - 1] - c[i - 1]
        /\ o[i - 1] \in Nat /\ c[i - 1] \in Nat
    BY <1>3, <1>4, <1>7, <2>1 DEF Counts
  <2>3. o[i] = o[i - 1] + (IF mode[i] = "outside" /\ text[i] = LBrace THEN 1 ELSE 0)
    BY <1>3 DEF Counts
  <2>4. c[i] = c[i - 1] + (IF mode[i] = "outside" /\ text[i] = RBrace THEN 1 ELSE 0)
    BY <1>4 DEF Counts
  <2>5. CASE mode[i] = "outside" /\ text[i] = LBrace
    BY <2>2, <2>3, <2>4, <2>5, TokensDiffer
  <2>6. CASE mode[i] = "outside" /\ text[i] = RBrace
    BY <2>2, <2>3, <2>4, <2>6, TokensDiffer
  <2>7. CASE mode[i] # "outside" \/ text[i] \notin {LBrace, RBrace}
    BY <2>2, <2>3, <2>4, <2>7
  <2>. QED
    BY <2>5, <2>6, <2>7
<1>10. d[0] = 0 /\ d[n] = 0 /\ \A i \in 1 .. n - 1 : d[i] > 0
  <2>1. 0 \in 0 .. n /\ n \in 0 .. n /\ \A i \in 1 .. n - 1 : i \in 0 .. n
    BY <1>1
  <2>2. \A i \in 0 .. n : o[i] \in Nat /\ c[i] \in Nat
    BY <1>3, <1>4 DEF Counts
  <2>3. d[0] = 0
    BY <1>3, <1>4, <1>7, <2>1 DEF Counts
  <2>4. d[n] = 0
    BY <1>3, <1>4, <1>5, <1>7, <2>1, <2>2 DEF Counts
  <2>5. ASSUME NEW i \in 1 .. n - 1 PROVE d[i] > 0
    <3>1. d[i] = o[i] - c[i] /\ o[i] \in Nat /\ c[i] \in Nat /\ c[i] < o[i]
      BY <1>3, <1>4, <1>5, <1>7, <2>1, <2>2 DEF Counts
    <3>. QED
      BY <3>1
  <2>. QED
    BY <2>3, <2>4, <2>5
<1>11. Nested(text, mode, d)
  BY <1>2, <1>8, <1>9, <1>10 DEF Nested
<1>. QED
  BY <1>11

(* Where the scan is after k tokens: within the object, or at its end.     *)
Follows(text, mode, d, f, k) ==
    /\ k < Len(text) => f[k] = At(k, d[k], mode[k + 1])
    /\ k >= Len(text) => f[k].closed /\ f[k].length = Len(text)

(* One token within the object leads on within it, or to its end.          *)
LEMMA ScanFollows ==
    ASSUME NEW text \in Seq(STRING), NEW mode, NEW d, Nested(text, mode, d),
           NEW f, NEW k \in Nat, k < Len(text), Follows(text, mode, d, f, k),
           f[k + 1] = Scan(f[k], text[k + 1])
    PROVE  Follows(text, mode, d, f, k + 1)
<1>1. /\ k + 1 \in 1 .. Len(text) /\ k \in 0 .. Len(text)
      /\ k \in Nat /\ Len(text) \in Nat /\ (k + 1) - 1 = k
  BY LenProperties
<1>2. PICK m, token, e : m = mode[k + 1] /\ token = text[k + 1] /\ e = d[k]
  OBVIOUS
<1>3. m \in Modes /\ token \in STRING /\ e \in Nat
  BY <1>1, <1>2, ElementOfSeq DEF Nested
<1>4. f[k + 1] = Scan(At(k, e, m), token)
  BY <1>2 DEF Follows
<1>5. d[k + 1] = IF m = "outside" /\ token = LBrace THEN e + 1
                 ELSE IF m = "outside" /\ token = RBrace THEN e - 1 ELSE e
  BY <1>1, <1>2 DEF Nested
<1>6. CASE k + 1 = Len(text)
  <2>1. d[k + 1] = 0
    BY <1>6 DEF Nested
  <2>2. k = 0 => m = "outside" /\ token = LBrace
    BY <1>2 DEF Nested
  <2>3. k # 0 => e > 0
    <3>1. k # 0 => k \in 1 .. Len(text) - 1
      BY <1>1
    <3>. QED
      BY <1>2, <3>1 DEF Nested
  <2>4. m = "outside" /\ token = RBrace /\ e = 1
    BY <1>3, <1>5, <2>1, <2>2, <2>3
  <2>5. f[k + 1].closed /\ f[k + 1].length = k + 1
    BY <1>3, <1>4, <2>4, ScanToken
  <2>. QED
    BY <1>1, <1>6, <2>5 DEF Follows
<1>7. CASE k + 1 # Len(text)
  <2>1. k + 1 \in 1 .. Len(text) - 1 /\ k + 1 < Len(text)
    BY <1>1, <1>7
  <2>2. d[k + 1] > 0
    BY <2>1 DEF Nested
  <2>3. mode[(k + 1) + 1] = After(m, token)
    BY <1>2, <2>1 DEF Nested
  <2>4. f[k + 1] = At(k + 1, d[k + 1], After(m, token))
    <3>1. CASE m = "outside" /\ token = LBrace
      <4>1. f[k + 1] = At(k + 1, e + 1, m)
        BY <1>3, <1>4, <3>1, ScanToken
      <4>2. After(m, token) = m
        BY <3>1, TokensDiffer DEF After
      <4>. QED
        BY <1>5, <3>1, <4>1, <4>2
    <3>2. CASE m = "outside" /\ token = RBrace
      <4>1. d[k + 1] = e - 1
        BY <1>5, <3>2, TokensDiffer
      <4>2. e # 1
        BY <1>3, <2>2, <4>1
      <4>3. f[k + 1] = At(k + 1, e - 1, m)
        BY <1>3, <1>4, <3>2, <4>2, ScanToken
      <4>4. After(m, token) = m
        BY <3>2, TokensDiffer DEF After
      <4>. QED
        BY <4>1, <4>3, <4>4
    <3>3. CASE m # "outside" \/ token \notin {LBrace, RBrace}
      <4>1. f[k + 1] = At(k + 1, e, After(m, token))
        BY <1>3, <1>4, <3>3, ScanToken
      <4>2. d[k + 1] = e
        BY <1>5, <3>3
      <4>. QED
        BY <4>1, <4>2
    <3>. QED
      BY <3>1, <3>2, <3>3
  <2>. QED
    BY <1>1, <2>1, <2>3, <2>4 DEF Follows
<1>. QED
  BY <1>6, <1>7

(* A scan that starts with an object stops at its end, and not without it. *)
LEMMA ScanFindsObject ==
    ASSUME NEW text \in Seq(STRING), text # <<>>, IsObject(text),
           NEW seq \in Seq(STRING), NEW f, Scans(seq, f),
           \A k \in 1 .. Len(seq) : k <= Len(text) => seq[k] = text[k]
    PROVE  /\ f[Len(seq)].closed => Len(text) <= Len(seq) /\ f[Len(seq)].length = Len(text)
           /\ Len(text) <= Len(seq) => f[Len(seq)].closed
<1>1. PICK mode, d : Nested(text, mode, d)
  BY ObjectNests
<1>2. Len(text) \in Nat \ {0} /\ Len(seq) \in Nat
  BY EmptySeq, LenProperties
<1>3. Follows(text, mode, d, f, 0)
  <2>1. f[0] = Opened /\ d[0] = 0 /\ mode[0 + 1] = "outside"
    BY <1>1 DEF Scans, Nested
  <2>2. Opened = At(0, 0, "outside")
    BY DEF Opened, At
  <2>. QED
    BY <1>2, <2>1, <2>2 DEF Follows
<1>4. ASSUME NEW k \in Nat, k < Len(seq), Follows(text, mode, d, f, k)
      PROVE  Follows(text, mode, d, f, k + 1)
  <2>1. k + 1 \in 1 .. Len(seq) /\ (k + 1) - 1 = k
    BY <1>2, <1>4
  <2>2. f[k + 1] = Scan(f[k], seq[k + 1])
    BY <2>1 DEF Scans
  <2>3. CASE k >= Len(text)
    <3>1. f[k].closed /\ f[k].length = Len(text)
      BY <1>4, <2>3 DEF Follows
    <3>2. f[k + 1] = f[k]
      BY <2>2, <3>1 DEF Scan
    <3>. QED
      BY <1>2, <2>3, <3>1, <3>2 DEF Follows
  <2>4. CASE k < Len(text)
    <3>1. k + 1 <= Len(text)
      BY <1>2, <2>4
    <3>2. seq[k + 1] = text[k + 1]
      BY <2>1, <3>1
    <3>. QED
      BY <1>1, <1>4, <2>2, <2>4, <3>2, ScanFollows
  <2>. QED
    BY <1>2, <2>3, <2>4
<1>5. Follows(text, mode, d, f, Len(seq))
  <2>. DEFINE Bad == {k \in Nat : k <= Len(seq) /\ ~ Follows(text, mode, d, f, k)}
  <2>1. CASE Bad # {}
    <3>1. PICK k \in Bad : \A j \in Bad : k <= j
      <4>1. Bad \in SUBSET Nat
        OBVIOUS
      <4>. QED
        BY <2>1, <4>1, LeastMember
    <3>2. k \in Nat /\ k <= Len(seq) /\ ~ Follows(text, mode, d, f, k)
      BY <3>1
    <3>3. k - 1 \in Nat /\ k - 1 < Len(seq) /\ (k - 1) + 1 = k
      BY <1>2, <1>3, <3>2
    <3>4. k - 1 \notin Bad
      BY <3>1, <3>3
    <3>5. Follows(text, mode, d, f, k - 1)
      BY <3>3, <3>4
    <3>. QED
      BY <1>4, <3>2, <3>3, <3>5
  <2>2. CASE Bad = {}
    BY <1>2, <2>2
  <2>. QED
    BY <2>1, <2>2
<1>6. Len(seq) < Len(text) => ~ f[Len(seq)].closed
  BY <1>5 DEF Follows, At
<1>. QED
  BY <1>2, <1>5, <1>6 DEF Follows

(* Within an object the scan is not closed.                                *)
LEMMA OpenAt ==
    ASSUME NEW k, NEW d, NEW mode
    PROVE  ~ At(k, d, mode).closed
BY DEF At

(* A scan that starts with a brace counts no more tokens than it has seen. *)
Within(f, k) ==
    \/ \E d \in Nat \ {0}, mode \in Modes : f[k] = At(k, d, mode)
    \/ f[k].closed /\ f[k].length \in 1 .. k

(* ... after one more token as well ...                                    *)
LEMMA ScanWithin ==
    ASSUME NEW f, NEW k \in Nat \ {0}, Within(f, k), NEW token \in STRING,
           f[k + 1] = Scan(f[k], token)
    PROVE  Within(f, k + 1)
<1>1. CASE f[k].closed
  <2>1. f[k].length \in 1 .. k
    BY <1>1, OpenAt DEF Within
  <2>2. f[k + 1] = f[k]
    BY <1>1 DEF Scan
  <2>. QED
    BY <1>1, <2>1, <2>2 DEF Within
<1>2. CASE ~ f[k].closed
  <2>1. PICK d \in Nat \ {0}, mode \in Modes : f[k] = At(k, d, mode)
    BY <1>2 DEF Within
  <2>2. f[k + 1] = Scan(At(k, d, mode), token)
    BY <2>1
  <2>3. CASE mode = "outside" /\ token = LBrace
    <3>1. f[k + 1] = At(k + 1, d + 1, mode)
      BY <2>2, <2>3, ScanToken
    <3>. QED
      BY <3>1 DEF Within
  <2>4. CASE mode = "outside" /\ token = RBrace /\ d # 1
    <3>1. f[k + 1] = At(k + 1, d - 1, mode)
      BY <2>2, <2>4, ScanToken
    <3>2. d - 1 \in Nat \ {0}
      BY <2>4
    <3>. QED
      BY <3>1, <3>2 DEF Within
  <2>5. CASE mode = "outside" /\ token = RBrace /\ d = 1
    <3>1. f[k + 1].closed /\ f[k + 1].length = k + 1
      BY <2>2, <2>5, ScanToken
    <3>. QED
      BY <3>1 DEF Within
  <2>6. CASE mode # "outside" \/ token \notin {LBrace, RBrace}
    <3>1. f[k + 1] = At(k + 1, d, After(mode, token))
      BY <2>2, <2>6, ScanToken
    <3>2. After(mode, token) \in Modes
      BY DEF After, Modes
    <3>. QED
      BY <3>1, <3>2 DEF Within
  <2>. QED
    BY <2>3, <2>4, <2>5, <2>6
<1>. QED
  BY <1>1, <1>2

(* ... and at the end.                                                     *)
LEMMA ScanBounded ==
    ASSUME NEW seq \in Seq(STRING), seq # <<>>, seq[1] = LBrace, NEW f, Scans(seq, f),
           f[Len(seq)].closed
    PROVE  f[Len(seq)].length \in 1 .. Len(seq)
<1>1. Len(seq) \in Nat \ {0}
  BY EmptySeq
<1>2. Within(f, 1)
  <2>1. 1 \in 1 .. Len(seq) /\ 1 - 1 = 0
    BY <1>1
  <2>2. f[1] = Scan(f[0], seq[1]) /\ f[0] = Opened
    BY <2>1 DEF Scans
  <2>3. Opened = At(0, 0, "outside")
    BY DEF Opened, At
  <2>4. seq[1] \in STRING
    BY <2>1, ElementOfSeq
  <2>5. f[1] = At(0 + 1, 0 + 1, "outside")
    <3>1. "outside" \in Modes /\ 0 \in Nat
      BY DEF Modes
    <3>2. Scan(At(0, 0, "outside"), LBrace) = At(0 + 1, 0 + 1, "outside")
      BY <2>4, <3>1, ScanToken
    <3>. QED
      BY <2>2, <2>3, <3>2
  <2>. QED
    BY <2>5 DEF Within, Modes
<1>3. ASSUME NEW k \in Nat \ {0}, k < Len(seq), Within(f, k)
      PROVE  Within(f, k + 1)
  <2>1. k + 1 \in 1 .. Len(seq) /\ (k + 1) - 1 = k
    BY <1>1, <1>3
  <2>2. f[k + 1] = Scan(f[k], seq[k + 1]) /\ seq[k + 1] \in STRING
    BY <2>1, ElementOfSeq DEF Scans
  <2>. QED
    BY <1>3, <2>2, ScanWithin
<1>4. Within(f, Len(seq))
  <2>. DEFINE Bad == {k \in Nat \ {0} : k <= Len(seq) /\ ~ Within(f, k)}
  <2>1. CASE Bad # {}
    <3>1. PICK k \in Bad : \A j \in Bad : k <= j
      <4>1. Bad \in SUBSET Nat
        OBVIOUS
      <4>. QED
        BY <2>1, <4>1, LeastMember
    <3>2. k \in Nat \ {0} /\ k <= Len(seq) /\ ~ Within(f, k)
      BY <3>1
    <3>3. k - 1 \in Nat \ {0} /\ k - 1 < Len(seq) /\ (k - 1) + 1 = k
      BY <1>1, <1>2, <3>2
    <3>4. k - 1 \notin Bad
      BY <3>1, <3>3
    <3>5. Within(f, k - 1)
      BY <3>3, <3>4
    <3>. QED
      BY <1>3, <3>2, <3>3, <3>5
  <2>2. CASE Bad = {}
    BY <1>1, <2>2
  <2>. QED
    BY <2>1, <2>2
<1>. QED
  BY <1>4, OpenAt DEF Within

(***************************************************************************)
(* Reading a reply.                                                        *)
(***************************************************************************)

(* What a reply is made of.                                                *)
LEMMA SaidParts ==
    ASSUME NEW reply \in Replies
    PROVE  /\ Said(reply) \in Seq(STRING) /\ reply.pre \in Seq(STRING)
           /\ reply.object.text \in Seq(STRING) /\ reply.object.text # <<>>
           /\ Len(reply.pre) \in Nat /\ Len(reply.object.text) \in Nat \ {0}
           /\ Len(Said(reply)) \in Nat
           /\ Len(reply.pre) + Len(reply.object.text) <= Len(Said(reply))
           /\ \A i \in 1 .. Len(reply.pre) : Said(reply)[i] = reply.pre[i]
           /\ \A i \in 1 .. Len(reply.object.text) :
                 Said(reply)[Len(reply.pre) + i] = reply.object.text[i]
           /\ reply.object.text[1] = LBrace
<1>1. PICK pre, text, post : pre = reply.pre /\ text = reply.object.text /\ post = reply.post
  OBVIOUS
<1>2. /\ pre \in Seq(STRING) /\ text \in Seq(STRING) /\ post \in Seq(STRING)
      /\ text # <<>> /\ IsObject(text)
  BY <1>1, ReplyAssumption
<1>3. Len(pre) \in Nat /\ Len(text) \in Nat \ {0} /\ Len(post) \in Nat
  BY <1>2, EmptySeq, LenProperties
<1>4. PICK front : front = pre \o text
  OBVIOUS
<1>5. /\ front \in Seq(STRING) /\ Len(front) = Len(pre) + Len(text)
      /\ \A i \in 1 .. Len(pre) + Len(text) :
            front[i] = IF i <= Len(pre) THEN pre[i] ELSE text[i - Len(pre)]
  BY <1>2, <1>4, ConcatProperties
<1>6. PICK said : said = front \o post
  OBVIOUS
<1>7. /\ said \in Seq(STRING) /\ Len(said) = Len(front) + Len(post)
      /\ \A i \in 1 .. Len(front) + Len(post) :
            said[i] = IF i <= Len(front) THEN front[i] ELSE post[i - Len(front)]
  <2>1. front \in Seq(STRING) /\ post \in Seq(STRING)
    BY <1>2, <1>5
  <2>. QED
    BY <1>6, <2>1, ConcatProperties
<1>8. ASSUME NEW i \in 1 .. Len(pre) PROVE said[i] = pre[i]
  <2>1. /\ i \in 1 .. Len(pre) + Len(text) /\ i \in 1 .. Len(front) + Len(post)
        /\ i <= Len(front) /\ i <= Len(pre)
    BY <1>3, <1>5
  <2>. QED
    BY <1>5, <1>7, <2>1
<1>9. ASSUME NEW i \in 1 .. Len(text) PROVE said[Len(pre) + i] = text[i]
  <2>1. PICK j : j = Len(pre) + i
    OBVIOUS
  <2>2. /\ j \in 1 .. Len(pre) + Len(text) /\ j \in 1 .. Len(front) + Len(post)
        /\ j <= Len(front) /\ ~ (j <= Len(pre)) /\ j - Len(pre) = i
    BY <1>3, <1>5, <2>1
  <2>3. said[j] = front[j] /\ front[j] = text[j - Len(pre)]
    BY <1>5, <1>7, <2>2
  <2>. QED
    BY <2>1, <2>2, <2>3
<1>10. text[1] = LBrace
  BY <1>2 DEF IsObject
<1>11. Said(reply) = said
  BY <1>1, <1>4, <1>6 DEF Said
<1>12. Len(said) \in Nat /\ Len(pre) + Len(text) <= Len(said)
  BY <1>3, <1>5, <1>7
<1>. QED
  BY <1>1, <1>2, <1>3, <1>7, <1>8, <1>9, <1>10, <1>11, <1>12

(* The first m tokens of what a reply says, all of its object unless there *)
(* is a second fence.                                                      *)
Reaches(reply, body, m) ==
    /\ m \in 0 .. Len(Said(reply)) /\ body = SubSeq(Said(reply), 1, m)
    /\ m < Len(reply.pre) + Len(reply.object.text) =>
         /\ reply.fenced
         /\ Contains(reply.pre, Fence) \/ Contains(reply.object.text, Fence)

(* This is what the fences leave of a reply.                               *)
LEMMA BodyReaches ==
    ASSUME NEW reply \in Replies
    PROVE  \E m : Reaches(reply, Unfenced(Text(reply)), m)
<1>1. PICK said, pre, text : said = Said(reply) /\ pre = reply.pre /\ text = reply.object.text
  OBVIOUS
<1>2. /\ said \in Seq(STRING) /\ pre \in Seq(STRING) /\ text \in Seq(STRING)
      /\ Len(pre) \in Nat /\ Len(text) \in Nat \ {0} /\ Len(said) \in Nat
      /\ Len(pre) + Len(text) <= Len(said)
      /\ \A i \in 1 .. Len(pre) : said[i] = pre[i]
      /\ \A i \in 1 .. Len(text) : said[Len(pre) + i] = text[i]
      /\ text[1] = LBrace
  BY <1>1, SaidParts
<1>3. CASE ~ reply.fenced
  <2>1. Text(reply) = said
    BY <1>1, <1>3 DEF Text
  <2>2. said[1] # Fence
    <3>1. CASE pre = <<>>
      <4>1. Len(pre) = 0 /\ 1 \in 1 .. Len(text)
        BY <1>2, <3>1
      <4>2. said[0 + 1] = text[1]
        BY <1>2, <4>1
      <4>. QED
        BY <1>2, <4>2, TokensDiffer
    <3>2. CASE pre # <<>>
      <4>1. Head(pre) # Fence
        BY <1>1, <1>3, <3>2, ReplyAssumption
      <4>2. Head(pre) = pre[1] /\ 1 \in 1 .. Len(pre)
        BY <1>2, <3>2, EmptySeq
      <4>. QED
        BY <1>2, <4>1, <4>2
    <3>. QED
      BY <3>1, <3>2
  <2>3. said # <<>> /\ Head(said) = said[1]
    <3>1. Len(said) # 0
      BY <1>2
    <3>. QED
      BY <1>2, <3>1, EmptySeq
  <2>4. Unfenced(said) = said
    BY <2>2, <2>3 DEF Unfenced
  <2>5. said = SubSeq(said, 1, Len(said))
    BY <1>2, SubSeqFull
  <2>6. Len(said) \in 0 .. Len(said) /\ ~ (Len(said) < Len(pre) + Len(text))
    BY <1>2
  <2>. QED
    BY <1>1, <2>1, <2>4, <2>5, <2>6 DEF Reaches
<1>4. CASE reply.fenced
  <2>. DEFINE L == Len(said)
  <2>1. PICK all : all = <<Fence>> \o said
    OBVIOUS
  <2>2. Text(reply) = all
    BY <1>1, <1>4, <2>1 DEF Text
  <2>3. /\ all # <<>> /\ Len(all) = L + 1 /\ Head(all) = Fence
        /\ \A i \in 1 .. L : all[i + 1] = said[i]
    BY <1>2, <2>1
  <2>4. PICK rest : rest = {i \in 2 .. Len(all) : all[i] = Fence}
    OBVIOUS
  <2>5. PICK e : e = IF rest = {} THEN Len(all) ELSE Min(rest) - 1
    OBVIOUS
  <2>6. e \in 1 .. L + 1 /\ (e < L + 1 => all[e + 1] = Fence)
    <3>1. CASE rest = {}
      BY <1>2, <2>3, <2>5, <3>1
    <3>2. CASE rest # {}
      <4>1. PICK q : q = Min(rest)
        OBVIOUS
      <4>2. rest \in SUBSET Nat
        <5>1. rest \in SUBSET (2 .. Len(all)) /\ 2 .. Len(all) \subseteq Nat
          BY <2>4
        <5>. QED
          BY <5>1
      <4>3. q \in rest
        BY <3>2, <4>1, <4>2, MinOf
      <4>4. q \in 2 .. L + 1 /\ all[q] = Fence /\ e = q - 1
        BY <2>3, <2>4, <2>5, <3>2, <4>1, <4>3
      <4>5. e \in 1 .. L + 1 /\ e + 1 = q
        BY <1>2, <4>4
      <4>. QED
        BY <4>4, <4>5
    <3>. QED
      BY <3>1, <3>2
  <2>7. Unfenced(all) = SubSeq(all, 2, e)
    BY <2>3, <2>4, <2>5 DEF Unfenced
  <2>8. PICK m : m = e - 1
    OBVIOUS
  <2>9. m \in 0 .. L /\ e = m + 1
    BY <1>2, <2>6, <2>8
  <2>10. m < L => said[m + 1] = Fence
    <3>1. m < L => m + 1 \in 1 .. L /\ e < L + 1 /\ (m + 1) + 1 = e + 1
      BY <1>2, <2>6, <2>9
    <3>. QED
      BY <2>3, <2>6, <3>1
  <2>11. ASSUME m < Len(pre) + Len(text)
         PROVE  Contains(pre, Fence) \/ Contains(text, Fence)
    <3>1. said[m + 1] = Fence
      BY <1>2, <2>9, <2>10, <2>11
    <3>2. CASE m < Len(pre)
      <4>1. m + 1 \in 1 .. Len(pre)
        BY <1>2, <2>9, <3>2
      <4>2. pre[m + 1] = Fence
        BY <1>2, <3>1, <4>1
      <4>. QED
        BY <1>2, <4>1, <4>2 DEF Contains
    <3>3. CASE ~ (m < Len(pre))
      <4>1. PICK i : i = m + 1 - Len(pre)
        OBVIOUS
      <4>2. i \in 1 .. Len(text) /\ Len(pre) + i = m + 1
        BY <1>2, <2>9, <2>11, <3>3, <4>1
      <4>3. text[i] = Fence
        BY <1>2, <3>1, <4>2
      <4>. QED
        BY <4>2, <4>3 DEF Contains
    <3>. QED
      BY <3>2, <3>3
  <2>12. SubSeq(all, 2, e) = SubSeq(said, 1, m)
    <3>1. e \in Int /\ m \in Int /\ e - 2 + 1 = m
      BY <1>2, <2>6, <2>9
    <3>2. \A i \in 1 .. m : said[i] \in STRING /\ all[i + 1] = said[i]
      <4>1. \A i \in 1 .. m : i \in 1 .. L
        BY <1>2, <2>9
      <4>. QED
        BY <1>2, <2>3, <4>1, ElementOfSeq
    <3>3. \A i \in 2 .. e : all[i] \in STRING
      <4>1. ASSUME NEW i \in 2 .. e PROVE all[i] \in STRING
        <5>1. i - 1 \in 1 .. m /\ (i - 1) + 1 = i
          BY <1>2, <2>6, <2>9
        <5>. QED
          BY <3>2, <5>1
      <4>. QED
        BY <4>1
    <3>4. /\ SubSeq(all, 2, e) \in Seq(STRING)
          /\ Len(SubSeq(all, 2, e)) = m
          /\ \A i \in 1 .. m : SubSeq(all, 2, e)[i] = all[2 + i - 1]
      <4>1. /\ SubSeq(all, 2, e) \in Seq(STRING)
            /\ Len(SubSeq(all, 2, e)) = IF 2 <= e THEN e - 2 + 1 ELSE 0
            /\ \A i \in 1 .. e - 2 + 1 : SubSeq(all, 2, e)[i] = all[2 + i - 1]
        BY <3>1, <3>3, SubSeqProperties
      <4>. QED
        BY <1>2, <2>9, <3>1, <4>1
    <3>5. /\ SubSeq(said, 1, m) \in Seq(STRING)
          /\ Len(SubSeq(said, 1, m)) = m
          /\ \A i \in 1 .. m : SubSeq(said, 1, m)[i] = said[i]
      <4>1. /\ SubSeq(said, 1, m) \in Seq(STRING)
            /\ Len(SubSeq(said, 1, m)) = IF 1 <= m THEN m - 1 + 1 ELSE 0
            /\ \A i \in 1 .. m - 1 + 1 : SubSeq(said, 1, m)[i] = said[1 + i - 1]
        BY <3>1, <3>2, SubSeqProperties
      <4>2. m - 1 + 1 = m /\ \A i \in 1 .. m : 1 + i - 1 = i
        BY <3>1
      <4>. QED
        BY <1>2, <2>9, <4>1, <4>2
    <3>6. \A i \in 1 .. m : 2 + i - 1 = i + 1
      BY <3>1
    <3>7. \A i \in 1 .. m : SubSeq(all, 2, e)[i] = SubSeq(said, 1, m)[i]
      BY <3>2, <3>4, <3>5, <3>6
    <3>. QED
      BY <3>4, <3>5, <3>7, SeqEqual
  <2>. QED
    BY <1>1, <1>4, <2>2, <2>7, <2>9, <2>11, <2>12 DEF Reaches
<1>. QED
  BY <1>3, <1>4

(* The verdict on a body, spelled out: `first` is where its first brace is *)
(* and `s` where the scan from there ends.                                 *)
LEMMA VerdictOf ==
    ASSUME NEW text, NEW body, body = Unfenced(text),
           NEW opens, opens = {i \in DOMAIN body : body[i] = LBrace}, opens # {},
           NEW first, first = Min(opens),
           NEW s, s = FoldLeft(Scan, Opened, SubSeq(body, first, Len(body)))
    PROVE  ParseVerdict(text)
             = IF s.closed THEN Outcome(JsonLoads(SubSeq(body, first, first + s.length - 1)))
               ELSE None
BY Zenon DEF ParseVerdict

(* A slice of a text, token by token.                                      *)
LEMMA Slice ==
    ASSUME NEW seq \in Seq(STRING), NEW i \in Nat \ {0}, NEW j \in Nat,
           i <= j + 1, j <= Len(seq)
    PROVE  /\ SubSeq(seq, i, j) \in Seq(STRING)
           /\ Len(SubSeq(seq, i, j)) = j - i + 1
           /\ \A k \in 1 .. j - i + 1 : SubSeq(seq, i, j)[k] = seq[i + k - 1]
<1>1. Len(seq) \in Nat
  BY LenProperties
<1>2. ASSUME NEW k \in i .. j PROVE seq[k] \in STRING
  <2>1. k \in 1 .. Len(seq)
    BY <1>1
  <2>. QED
    BY <2>1, ElementOfSeq
<1>3. i \in Int /\ j \in Int
  OBVIOUS
<1>4. /\ SubSeq(seq, i, j) \in Seq(STRING)
      /\ Len(SubSeq(seq, i, j)) = IF i <= j THEN j - i + 1 ELSE 0
      /\ \A k \in 1 .. j - i + 1 : SubSeq(seq, i, j)[k] = seq[i + k - 1]
  BY <1>2, <1>3, SubSeqProperties
<1>. QED
  BY <1>4

(* An object's text loads as that object.                                  *)
LEMMA Loads ==
    ASSUME NEW reply \in Replies
    PROVE  JsonLoads(reply.object.text) = reply.object.outcome
<1>1. PICK o : o = reply.object
  OBVIOUS
<1>2. o \in Objects
  BY <1>1 DEF Objects
<1>. DEFINE P(p) == p \in Objects /\ p.text = o.text
<1>3. P(CHOOSE p : P(p))
  BY <1>2, Zenon
<1>4. (CHOOSE p : P(p)) = o
  BY <1>2, <1>3, DisputeRunAssumption
<1>5. (CHOOSE p \in Objects : p.text = o.text) = CHOOSE p : P(p)
  BY Zenon
<1>. QED
  BY <1>1, <1>2, <1>4, <1>5, Zenon DEF JsonLoads

(* What the script takes a reply for is what its object says, and it takes *)
(* it for nothing only if the prose opens a brace, if a second fence cuts  *)
(* the object off, or if that states no outcome.                           *)
LEMMA ReadRight ==
    ASSUME NEW reply \in Replies
    PROVE  /\ ParseVerdict(Text(reply)) \in {None, reply.object.outcome}
           /\ ParseVerdict(Text(reply)) = None =>
                \/ Contains(reply.pre, LBrace)
                \/ /\ reply.fenced
                   /\ Contains(reply.pre, Fence) \/ Contains(reply.object.text, Fence)
                \/ reply.object.outcome \notin Outcomes
<1>1. PICK said, pre, text : said = Said(reply) /\ pre = reply.pre /\ text = reply.object.text
  OBVIOUS
<1>2. /\ said \in Seq(STRING) /\ pre \in Seq(STRING) /\ text \in Seq(STRING) /\ text # <<>>
      /\ Len(pre) \in Nat /\ Len(text) \in Nat \ {0} /\ Len(said) \in Nat
      /\ Len(pre) + Len(text) <= Len(said)
      /\ \A i \in 1 .. Len(pre) : said[i] = pre[i]
      /\ \A i \in 1 .. Len(text) : said[Len(pre) + i] = text[i]
      /\ text[1] = LBrace
  BY <1>1, SaidParts
<1>3. PICK body : body = Unfenced(Text(reply))
  OBVIOUS
<1>4. PICK m : Reaches(reply, body, m)
  BY <1>3, BodyReaches
<1>5. /\ m \in 0 .. Len(said)
      /\ body \in Seq(STRING) /\ Len(body) = m /\ DOMAIN body = 1 .. m
      /\ \A i \in 1 .. m : body[i] = said[i]
  <2>1. m \in 0 .. Len(said) /\ body = SubSeq(said, 1, m)
    BY <1>1, <1>4 DEF Reaches
  <2>2. 1 \in Nat \ {0} /\ m \in Nat /\ 1 <= m + 1 /\ m <= Len(said)
    BY <1>2, <2>1
  <2>3. /\ SubSeq(said, 1, m) \in Seq(STRING)
        /\ Len(SubSeq(said, 1, m)) = m - 1 + 1
        /\ \A i \in 1 .. m - 1 + 1 : SubSeq(said, 1, m)[i] = said[1 + i - 1]
    BY <1>2, <2>2, Slice
  <2>4. m - 1 + 1 = m /\ \A i \in 1 .. m : 1 + i - 1 = i
    BY <2>2
  <2>5. body \in Seq(STRING) /\ Len(body) = m /\ \A i \in 1 .. m : body[i] = said[i]
    BY <2>1, <2>3, <2>4
  <2>6. DOMAIN body = 1 .. m
    BY <2>5, LenProperties
  <2>. QED
    BY <2>1, <2>5, <2>6
<1>6. PICK opens : opens = {i \in DOMAIN body : body[i] = LBrace}
  OBVIOUS
<1>7. opens \in SUBSET (1 .. m) /\ (m > Len(pre) => Len(pre) + 1 \in opens)
  <2>1. ASSUME m > Len(pre)
        PROVE  Len(pre) + 1 \in opens
    <3>1. Len(pre) + 1 \in 1 .. m /\ 1 \in 1 .. Len(text)
      BY <1>2, <1>5, <2>1
    <3>2. body[Len(pre) + 1] = LBrace
      BY <1>2, <1>5, <3>1
    <3>. QED
      BY <1>5, <1>6, <3>1, <3>2
  <2>. QED
    BY <1>5, <1>6, <2>1
<1>8. PICK first : first = Min(opens)
  OBVIOUS
<1>9. CASE opens = {}
  <2>1. ParseVerdict(Text(reply)) = None
    BY <1>3, <1>6, <1>9, Zenon DEF ParseVerdict
  <2>2. m < Len(pre) + Len(text)
    BY <1>2, <1>5, <1>7, <1>9
  <2>3. reply.fenced /\ (Contains(reply.pre, Fence) \/ Contains(reply.object.text, Fence))
    BY <1>1, <1>4, <2>2 DEF Reaches
  <2>. QED
    BY <2>1, <2>3
<1>. SUFFICES ASSUME opens # {}
              PROVE  /\ ParseVerdict(Text(reply)) \in {None, reply.object.outcome}
                     /\ ParseVerdict(Text(reply)) = None =>
                          \/ Contains(reply.pre, LBrace)
                          \/ /\ reply.fenced
                             /\ Contains(reply.pre, Fence) \/ Contains(reply.object.text, Fence)
                          \/ reply.object.outcome \notin Outcomes
  BY <1>9
<1>10. first \in 1 .. m /\ body[first] = LBrace /\ first <= Len(pre) + 1
  <2>1. opens \in SUBSET Nat
    BY <1>7
  <2>2. first \in opens /\ \A i \in opens : first <= i
    BY <1>8, <2>1, MinOf
  <2>3. first \in 1 .. m /\ body[first] = LBrace
    BY <1>6, <1>7, <2>2
  <2>. QED
    BY <1>2, <1>5, <1>7, <2>2, <2>3
<1>11. PICK seq : seq = SubSeq(body, first, Len(body))
  OBVIOUS
<1>12. /\ seq \in Seq(STRING) /\ Len(seq) = m - first + 1
       /\ \A k \in 1 .. Len(seq) : seq[k] = said[first + k - 1]
  <2>1. first \in Nat \ {0} /\ m \in Nat /\ first <= m /\ m <= Len(body)
    BY <1>5, <1>10
  <2>2. /\ seq \in Seq(STRING) /\ Len(seq) = m - first + 1
        /\ \A k \in 1 .. m - first + 1 : seq[k] = body[first + k - 1]
    BY <1>5, <1>11, <2>1, Slice
  <2>3. \A k \in 1 .. m - first + 1 : first + k - 1 \in 1 .. m
    BY <2>1
  <2>. QED
    BY <1>5, <2>2, <2>3
<1>13. PICK f : Scans(seq, f) /\ FoldLeft(Scan, Opened, seq) = f[Len(seq)]
  BY <1>12, FoldIsScan
<1>14. PICK s : s = f[Len(seq)]
  OBVIOUS
<1>15. ParseVerdict(Text(reply))
         = IF s.closed THEN Outcome(JsonLoads(SubSeq(body, first, first + s.length - 1)))
           ELSE None
  <2>1. opens # {} /\ s = FoldLeft(Scan, Opened, SubSeq(body, first, Len(body)))
    BY <1>7, <1>11, <1>13, <1>14
  <2>. QED
    BY <1>3, <1>6, <1>8, <2>1, VerdictOf
<1>16. CASE first = Len(pre) + 1
  <2>1. \A k \in 1 .. Len(seq) : k <= Len(text) => seq[k] = text[k]
    <3>1. ASSUME NEW k \in 1 .. Len(seq), k <= Len(text) PROVE seq[k] = text[k]
      <4>1. k \in 1 .. Len(text) /\ first + k - 1 = Len(pre) + k
        BY <1>2, <1>16, <3>1
      <4>. QED
        BY <1>2, <1>12, <4>1
    <3>. QED
      BY <3>1
  <2>2. IsObject(text)
    BY <1>1, ReplyAssumption
  <2>3. /\ s.closed => Len(text) <= Len(seq) /\ s.length = Len(text)
        /\ Len(text) <= Len(seq) => s.closed
    BY <1>2, <1>12, <1>13, <1>14, <2>1, <2>2, ScanFindsObject
  <2>4. CASE s.closed
    <3>1. PICK span : span = SubSeq(body, first, first + s.length - 1)
      OBVIOUS
    <3>2. PICK e : e = first + s.length - 1
      OBVIOUS
    <3>3. /\ first \in Nat \ {0} /\ e \in Nat /\ first <= e /\ e <= Len(body)
          /\ e - first + 1 = Len(text)
      <4>1. s.length = Len(text) /\ Len(text) <= Len(seq) /\ Len(seq) = m - first + 1
        BY <1>12, <2>3, <2>4
      <4>2. first \in 1 .. m /\ m \in 0 .. Len(said) /\ Len(body) = m
        BY <1>5, <1>10
      <4>3. e = first + Len(text) - 1
        BY <3>2, <4>1
      <4>. QED
        BY <1>2, <4>1, <4>2, <4>3
    <3>4. /\ span \in Seq(STRING) /\ Len(span) = Len(text)
          /\ \A k \in 1 .. Len(text) : span[k] = body[first + k - 1]
      <4>1. /\ SubSeq(body, first, e) \in Seq(STRING)
            /\ Len(SubSeq(body, first, e)) = e - first + 1
            /\ \A k \in 1 .. e - first + 1 : SubSeq(body, first, e)[k] = body[first + k - 1]
        BY <1>5, <3>3, Slice
      <4>. QED
        BY <3>1, <3>2, <3>3, <4>1
    <3>5. \A k \in 1 .. Len(text) : span[k] = text[k]
      <4>1. ASSUME NEW k \in 1 .. Len(text) PROVE span[k] = text[k]
        <5>1. first + k - 1 \in 1 .. m /\ first + k - 1 = Len(pre) + k
          BY <1>2, <1>5, <1>10, <1>16, <3>3
        <5>. QED
          BY <1>2, <1>5, <3>4, <5>1
      <4>. QED
        BY <4>1
    <3>6. span = text
      BY <1>2, <3>4, <3>5, SeqEqual
    <3>7. JsonLoads(span) = reply.object.outcome
      BY <1>1, <3>6, Loads
    <3>. QED
      <4>1. ParseVerdict(Text(reply)) = Outcome(reply.object.outcome)
        BY <1>15, <2>4, <3>1, <3>7
      <4>. QED
        BY <4>1, DisputeRunAssumption DEF Outcome
  <2>5. CASE ~ s.closed
    <3>1. m < Len(pre) + Len(text)
      BY <1>2, <1>5, <1>12, <1>16, <2>3, <2>5
    <3>2. reply.fenced /\ (Contains(reply.pre, Fence) \/ Contains(reply.object.text, Fence))
      BY <1>1, <1>4, <3>1 DEF Reaches
    <3>. QED
      BY <1>15, <2>5, <3>2
  <2>. QED
    BY <2>4, <2>5
<1>17. CASE first # Len(pre) + 1
  <2>1. first \in 1 .. Len(pre) /\ DOMAIN pre = 1 .. Len(pre)
    BY <1>2, <1>10, <1>17, LenProperties
  <2>2. Contains(reply.pre, LBrace)
    BY <1>1, <1>2, <1>5, <1>10, <2>1 DEF Contains
  <2>3. ASSUME s.closed
        PROVE  JsonLoads(SubSeq(body, first, first + s.length - 1)) = None
    <3>1. PICK span, e : e = first + s.length - 1 /\ span = SubSeq(body, first, e)
      OBVIOUS
    <3>2. s.length \in 1 .. Len(seq)
      <4>1. seq # <<>> /\ seq[1] = LBrace
        <5>1. 1 \in 1 .. Len(seq) /\ first + 1 - 1 = first /\ Len(seq) # 0
          BY <1>2, <1>5, <1>10, <1>12
        <5>. QED
          BY <1>5, <1>10, <1>12, <5>1, EmptySeq
      <4>. QED
        BY <1>12, <1>13, <1>14, <2>3, <4>1, ScanBounded
    <3>3. /\ first \in Nat \ {0} /\ e \in Nat /\ first <= e /\ e <= Len(body)
          /\ e - first + 1 = s.length /\ s.length \in Nat \ {0}
          /\ e <= Len(said) /\ first <= Len(said)
      <4>1. PICK k : k = s.length
        OBVIOUS
      <4>2. k \in 1 .. Len(seq) /\ Len(seq) = m - first + 1 /\ e = first + k - 1
        BY <1>12, <3>1, <3>2, <4>1
      <4>3. first \in 1 .. m /\ m \in 0 .. Len(said) /\ Len(body) = m
        BY <1>5, <1>10
      <4>4. k \in Nat \ {0} /\ first \in Nat \ {0} /\ m \in Nat
        BY <1>2, <1>12, <4>2, <4>3
      <4>5. e \in Nat /\ first <= e /\ e <= m /\ e - first + 1 = k
        BY <4>2, <4>4
      <4>6. m <= Len(said) /\ first <= m
        BY <1>2, <4>3
      <4>. QED
        BY <1>2, <4>1, <4>3, <4>4, <4>5, <4>6
    <3>4. /\ span \in Seq(STRING) /\ Len(span) = s.length
          /\ \A k \in 1 .. s.length : span[k] = said[first + k - 1]
      <4>1. /\ SubSeq(body, first, e) \in Seq(STRING)
            /\ Len(SubSeq(body, first, e)) = e - first + 1
            /\ \A k \in 1 .. e - first + 1 : SubSeq(body, first, e)[k] = body[first + k - 1]
        BY <1>5, <3>3, Slice
      <4>2. \A k \in 1 .. s.length : first + k - 1 \in 1 .. m
        BY <1>5, <3>3
      <4>. QED
        BY <1>5, <3>1, <3>3, <4>1, <4>2
    <3>5. PICK tail : tail = SubSeq(said, first, Len(said))
      OBVIOUS
    <3>6. /\ tail \in Seq(STRING) /\ Len(tail) = Len(said) - first + 1
          /\ \A k \in 1 .. Len(tail) : tail[k] = said[first + k - 1]
      <4>1. Len(said) \in Nat /\ Len(said) <= Len(said)
        BY <1>2
      <4>2. /\ SubSeq(said, first, Len(said)) \in Seq(STRING)
            /\ Len(SubSeq(said, first, Len(said))) = Len(said) - first + 1
            /\ \A k \in 1 .. Len(said) - first + 1 :
                  SubSeq(said, first, Len(said))[k] = said[first + k - 1]
        BY <1>2, <3>3, <4>1, Slice
      <4>. QED
        BY <3>5, <4>2
    <3>7. IsPrefix(span, tail)
      <4>1. Len(span) \in Nat /\ 1 <= Len(span) /\ Len(span) <= Len(tail) /\ 1 \in Nat \ {0}
        BY <1>2, <3>3, <3>4, <3>6
      <4>2. SubSeq(span, 1, Len(span)) = span
        BY <3>4, SubSeqFull
      <4>3. /\ SubSeq(tail, 1, Len(span)) \in Seq(STRING)
            /\ Len(SubSeq(tail, 1, Len(span))) = Len(span) - 1 + 1
            /\ \A k \in 1 .. Len(span) - 1 + 1 :
                  SubSeq(tail, 1, Len(span))[k] = tail[1 + k - 1]
        BY <3>6, <4>1, Slice
      <4>4. /\ Len(span) - 1 + 1 = Len(span)
            /\ \A k \in 1 .. Len(span) : 1 + k - 1 = k /\ k \in 1 .. Len(tail)
        BY <3>6, <4>1, <1>2, <3>3
      <4>5. \A k \in 1 .. Len(span) : SubSeq(tail, 1, Len(span))[k] = span[k]
        BY <3>4, <3>6, <4>3, <4>4
      <4>6. SubSeq(tail, 1, Len(span)) = span
        BY <3>4, <4>3, <4>4, <4>5, SeqEqual
      <4>. QED
        BY <4>1, <4>2, <4>6 DEF IsPrefix
    <3>8. \A o \in Objects : o.text # span
      <4>1. \A o \in Objects : ~ IsPrefix(o.text, tail)
        BY <1>1, <2>1, <3>5, ReplyAssumption
      <4>. QED
        BY <3>7, <4>1
    <3>. QED
      BY <3>1, <3>8 DEF JsonLoads
  <2>4. ParseVerdict(Text(reply)) = None
    BY <1>15, <2>3, DisputeRunAssumption DEF Outcome
  <2>. QED
    BY <2>2, <2>4
<1>. QED
  BY <1>16, <1>17

-------------------------------------------------------------------------------
(***************************************************************************)
(* What a verdict rests on.                                                *)
(***************************************************************************)

(* What run state st knows of its dispute is what was filed. *)
Heard(st) ==
    /\ st.dispute \in DOMAIN disputes /\ st.claim # None
    /\ ~ disputes[st.dispute].claim.uri
    /\ disputes[st.dispute].claim.doc \in DOMAIN Read
    /\ st.claim = Read[disputes[st.dispute].claim.doc]
Sourced(st) == st.source = NameOf[disputes[st.dispute].target]
Unfit(st) ==
    /\ st.dispute \in DOMAIN disputes
    /\ IF st.claim = None
       THEN LET claim == disputes[st.dispute].claim
            IN  claim.uri \/ claim.doc \in {"blank", "binary"}
       ELSE \/ Contains(st.reply.pre, LBrace)
            \/ /\ st.reply.fenced
               /\ Contains(st.reply.pre, Fence) \/ Contains(st.reply.object.text, Fence)
            \/ st.reply.object.outcome \notin Outcomes
CaseOf(st) ==
    /\ st.pc \in {"source", "judge"} => Heard(st)
    /\ st.pc = "judge" => Sourced(st)
    /\ st.verdict # None =>
         Heard(st) /\ Sourced(st) /\ st.verdict.outcome = st.reply.object.outcome
    /\ st.pc = "refused" => Unfit(st)
CaseInv == \A r \in Runs : CaseOf(runs[r])

(* What a dispute is filed against and with never changes. *)
FilingsStand ==
    \A d \in DOMAIN disputes :
        /\ d \in DOMAIN disputes'
        /\ disputes'[d].claim = disputes[d].claim /\ disputes'[d].target = disputes[d].target

(* A step of the chain leaves the filings alone.                           *)
LEMMA FilingsKept ==
    ASSUME ChainInv, Next
    PROVE  FilingsStand
<1>1. disputes \in Seq(Dispute) /\ Len(disputes) \in Nat /\ DOMAIN disputes = 1 .. Len(disputes)
  BY LenProperties DEF ChainInv, TypeOK
<1>2. ASSUME NEW t \in Targets, NEW claim \in Claims,
             disputes' = Append(disputes, [target |-> t, claim |-> claim, status |-> "PENDING",
                                           root |-> None, stake |-> "LOCKED"])
      PROVE  FilingsStand
  <2>1. PICK f : f = [target |-> t, claim |-> claim, status |-> "PENDING",
                      root |-> None, stake |-> "LOCKED"]
    OBVIOUS
  <2>2. disputes' = Append(disputes, f)
    BY <1>2, <2>1
  <2>3. /\ DOMAIN disputes' = 1 .. Len(disputes) + 1
        /\ \A d \in 1 .. Len(disputes) : disputes'[d] = disputes[d]
    BY <1>1, <2>2
  <2>. QED
    BY <1>1, <2>3 DEF FilingsStand
<1>3. ASSUME NEW tx \in inflight, Mine(tx)
      PROVE  FilingsStand
  <2>1. PICK d : d = tx.dispute
    OBVIOUS
  <2>2. CASE Pending(d)
    <3>1. disputes[d] \in Dispute /\ d \in DOMAIN disputes
      BY <1>1, <2>2 DEF Pending
    <3>0. PICK stake :
              disputes' = [disputes EXCEPT ![d].status = tx.verdict.outcome,
                                           ![d].root = tx.verdict, ![d].stake = stake]
      BY <1>3, <2>1, <2>2 DEF Mine
    <3>2. PICK one : one = [disputes[d] EXCEPT !.status = tx.verdict.outcome,
                                               !.root = tx.verdict, !.stake = stake]
      OBVIOUS
    <3>3. one.claim = disputes[d].claim /\ one.target = disputes[d].target
      BY <3>1, <3>2 DEF Dispute
    <3>4. disputes' = [disputes EXCEPT ![d] = one]
      BY <1>1, <3>0, <3>1, <3>2
    <3>. QED
      BY <1>1, <3>1, <3>3, <3>4 DEF FilingsStand
  <2>3. CASE ~ Pending(d)
    BY <1>3, <2>1, <2>3 DEF Mine, FilingsStand
  <2>. QED
    BY <2>2, <2>3
<1>4. CASE UNCHANGED disputes
  BY <1>4 DEF FilingsStand
<1>5. FileDispute => FilingsStand
  BY <1>2 DEF FileDispute
<1>6. ASSUME NEW tx \in inflight PROVE Drop(tx) => UNCHANGED disputes
  BY DEF Drop
<1>7. ASSUME NEW r \in Runs PROVE ScriptStep(r) => UNCHANGED disputes
  BY DEF ScriptStep, ReadDispute, FetchCounterClaim, SourceLoader, Judge, Send, Receipt,
         AppendLedger, Stop, chainVars
<1>8. VerifyStep => UNCHANGED disputes
  BY DEF VerifyStep, VerifyDispute, VerifyCount, VerifyStake, VerifyEvent, VerifyFails,
         chainVars
<1>. QED
  BY <1>3, <1>4, <1>5, <1>6, <1>7, <1>8 DEF Next, ScriptStep, VerifyStep

(* What a run found out stays true.                                        *)
LEMMA CaseStands ==
    ASSUME FilingsStand, NEW st, CaseOf(st)
    PROVE  CaseOf(st)'
<1>1. Heard(st) => Heard(st)' /\ (Sourced(st) => Sourced(st)')
  BY DEF FilingsStand, Heard, Sourced
<1>2. Unfit(st) => Unfit(st)'
  BY DEF FilingsStand, Unfit
<1>. QED
  BY <1>1, <1>2 DEF CaseOf

(* A run takes from the filing what it judges by, and judges by no other.  *)
LEMMA CaseMade ==
    ASSUME DisputeRunAssumption, VerdictAssumption, ChainInv, CaseInv,
           NEW r \in Runs, ScriptStep(r)
    PROVE  \E st : runs' = [runs EXCEPT ![r] = st] /\ CaseOf(st)
<1>1. PICK old \in RunState : old = runs[r] /\ RunInv(r, old) /\ CaseOf(old)
  BY Typed DEF CaseInv
<1>2. runs \in [Runs -> RunState] /\ None \notin {"field", "whole", "start"}
  BY DisputeRunAssumption DEF ChainInv, TypeOK, DisputeRunAssumption
<1>3. ASSUME NEW pc, runs' = [runs EXCEPT ![r].pc = pc],
             pc \notin {"source", "judge", "refused"}
      PROVE  \E st : runs' = [runs EXCEPT ![r] = st] /\ CaseOf(st)
  <2>1. PICK st : st = [old EXCEPT !.pc = pc]
    OBVIOUS
  <2>2. /\ st.pc = pc /\ st.dispute = old.dispute /\ st.claim = old.claim
        /\ st.source = old.source /\ st.reply = old.reply /\ st.verdict = old.verdict
    BY <2>1 DEF RunState
  <2>3. CaseOf(st)
    BY <1>1, <1>3, <2>2 DEF CaseOf, Heard, Sourced
  <2>4. runs' = [runs EXCEPT ![r] = st]
    BY <1>1, <1>2, <1>3, <2>1
  <2>. QED
    BY <2>3, <2>4
<1>4. CASE ReadDispute(r)
  <2>1. PICK d \in Ids, pc \in {"stopped", "claim", "already"} :
            runs' = [runs EXCEPT ![r].dispute = d, ![r].pc = pc]
    BY <1>4 DEF ReadDispute, Ids
  <2>2. PICK st : st = [old EXCEPT !.dispute = d, !.pc = pc]
    OBVIOUS
  <2>3. st.pc = pc /\ st.verdict = old.verdict
    BY <2>2 DEF RunState
  <2>4. old.verdict = None
    BY <1>1, <1>4 DEF ReadDispute, RunInv
  <2>5. CaseOf(st)
    BY <2>3, <2>4 DEF CaseOf
  <2>6. runs' = [runs EXCEPT ![r] = st]
    BY <1>1, <1>2, <2>1, <2>2
  <2>. QED
    BY <2>5, <2>6
<1>5. CASE FetchCounterClaim(r)
  <2>1. PICK filed : filed = disputes[old.dispute].claim
    OBVIOUS
  <2>0. filed.doc \in Docs
    BY <1>1, <1>5, <2>1, FiledDoc DEF FetchCounterClaim, RunInv
  <2>2. PICK claim \in {"field", "whole", "start", None} :
            claim = IF filed.uri THEN None ELSE ParseCounterClaim(filed.doc)
    BY <2>0, ClaimRead
  <2>3. PICK pc \in {"refused", "source"} : pc = IF claim = None THEN "refused" ELSE "source"
    OBVIOUS
  <2>4. runs' = [runs EXCEPT ![r].claim = claim, ![r].pc = pc]
    BY <1>1, <1>5, <2>1, <2>2, <2>3 DEF FetchCounterClaim
  <2>5. PICK st : st = [old EXCEPT !.claim = claim, !.pc = pc]
    OBVIOUS
  <2>6. /\ st.pc = pc /\ st.claim = claim /\ st.dispute = old.dispute
        /\ st.verdict = old.verdict
    BY <2>5 DEF RunState
  <2>7. old.verdict = None /\ old.dispute \in DOMAIN disputes
    BY <1>1, <1>5 DEF FetchCounterClaim, RunInv
  <2>8. claim = None => filed.uri \/ filed.doc \in {"blank", "binary"}
    BY <2>0, <2>2, ClaimRead
  <2>9. claim # None =>
            ~ filed.uri /\ filed.doc \in DOMAIN Read /\ claim = Read[filed.doc]
    BY <2>0, <2>2, ClaimRead
  <2>10. pc = "source" => Heard(st)
    BY <2>1, <2>3, <2>6, <2>7, <2>9 DEF Heard
  <2>11. pc = "refused" => Unfit(st)
    BY <2>1, <2>3, <2>6, <2>7, <2>8 DEF Unfit
  <2>12. CaseOf(st)
    BY <2>3, <2>6, <2>7, <2>10, <2>11 DEF CaseOf
  <2>13. runs' = [runs EXCEPT ![r] = st]
    BY <1>1, <1>2, <2>4, <2>5
  <2>. QED
    BY <2>12, <2>13
<1>6. CASE SourceLoader(r)
  <2>1. old.pc = "source" /\ old.verdict = None /\ Heard(old)
    BY <1>1, <1>6 DEF SourceLoader, RunInv, CaseOf
  <2>2. PICK t : t = disputes[old.dispute].target
    OBVIOUS
  <2>3. t \in Targets
    <3>1. disputes \in Seq(Dispute) /\ old.dispute \in DOMAIN disputes
      BY <2>1 DEF Heard, ChainInv, TypeOK
    <3>2. disputes[old.dispute] \in Dispute
      BY <3>1
    <3>. QED
      BY <2>2, <3>2 DEF Dispute
  <2>4. PICK fallback :
            fallback = IF KnownTarget(t) \in LocalNames THEN KnownTarget(t) ELSE None
    OBVIOUS
  <2>5. fallback \in {NameOf[t], None}
    BY <2>4, DisputeRunAssumption DEF KnownTarget, DisputeRunAssumption
  <2>6. PICK source \in {NameOf[t], fallback} :
            runs' = [runs EXCEPT ![r].source = source,
                                 ![r].pc = IF source = None THEN "stopped" ELSE "judge"]
    BY <1>1, <1>6, <2>2, <2>4 DEF SourceLoader
  <2>7. PICK pc \in {"stopped", "judge"} : pc = IF source = None THEN "stopped" ELSE "judge"
    OBVIOUS
  <2>8. PICK st : st = [old EXCEPT !.source = source, !.pc = pc]
    OBVIOUS
  <2>9. /\ st.pc = pc /\ st.source = source /\ st.claim = old.claim
        /\ st.dispute = old.dispute /\ st.verdict = old.verdict
    BY <2>8 DEF RunState
  <2>10. pc = "judge" => Heard(st) /\ Sourced(st)
    BY <2>1, <2>2, <2>5, <2>6, <2>7, <2>9 DEF Heard, Sourced
  <2>11. CaseOf(st)
    BY <2>1, <2>7, <2>9, <2>10 DEF CaseOf
  <2>12. runs' = [runs EXCEPT ![r] = st]
    BY <1>1, <1>2, <2>6, <2>7, <2>8
  <2>. QED
    BY <2>11, <2>12
<1>7. CASE Judge(r)
  <2>1. old.pc = "judge" /\ Heard(old) /\ Sourced(old)
    BY <1>1, <1>7 DEF Judge, CaseOf
  <2>2. PICK reply \in Replies, outcome \in Outcomes \cup {None} :
            /\ outcome = ParseVerdict(Text(reply))
            /\ runs' = [runs EXCEPT
                   ![r].reply = reply,
                   ![r].verdict = IF outcome = None THEN None
                                  ELSE [outcome |-> outcome, text |-> Text(reply)],
                   ![r].pc = IF outcome = None THEN "refused" ELSE "send"]
    BY <1>7, OutcomeTyped DEF Judge
  <2>3. PICK verdict \in Verdicts \cup {None} :
            verdict = IF outcome = None THEN None
                      ELSE [outcome |-> outcome, text |-> Text(reply)]
    BY DEF Verdicts
  <2>4. PICK pc \in {"refused", "send"} : pc = IF outcome = None THEN "refused" ELSE "send"
    OBVIOUS
  <2>5. PICK st : st = [old EXCEPT !.reply = reply, !.verdict = verdict, !.pc = pc]
    OBVIOUS
  <2>6. /\ st.pc = pc /\ st.reply = reply /\ st.verdict = verdict
        /\ st.dispute = old.dispute /\ st.claim = old.claim /\ st.source = old.source
    BY <2>5 DEF RunState
  <2>7. /\ outcome \in {None, reply.object.outcome}
        /\ outcome = None =>
             \/ Contains(reply.pre, LBrace)
             \/ /\ reply.fenced
                /\ Contains(reply.pre, Fence) \/ Contains(reply.object.text, Fence)
             \/ reply.object.outcome \notin Outcomes
    BY <2>2, ReadRight
  <2>8. Heard(st) /\ Sourced(st)
    BY <2>1, <2>6 DEF Heard, Sourced
  <2>9. verdict # None => verdict.outcome = reply.object.outcome
    BY <2>3, <2>7
  <2>10. pc = "refused" => Unfit(st)
    BY <2>4, <2>6, <2>7, <2>8 DEF Unfit, Heard
  <2>11. CaseOf(st)
    BY <2>4, <2>6, <2>8, <2>9, <2>10 DEF CaseOf
  <2>12. runs' = [runs EXCEPT ![r] = st]
    BY <1>1, <1>2, <2>2, <2>3, <2>4, <2>5
  <2>. QED
    BY <2>11, <2>12
<1>8. CASE Send(r) \/ AppendLedger(r) \/ Stop(r)
  <2>1. PICK pc \in {"wait", "done", "stopped"} : runs' = [runs EXCEPT ![r].pc = pc]
    BY <1>8 DEF Send, AppendLedger, Stop, Goto
  <2>. QED
    BY <1>3, <2>1
<1>9. CASE Receipt(r)
  <2>1. PICK pc \in {"ledger", "stopped"} : runs' = [runs EXCEPT ![r].pc = pc]
    BY <1>9 DEF Receipt, Goto
  <2>. QED
    BY <1>3, <2>1
<1>. QED
  BY <1>4, <1>5, <1>6, <1>7, <1>8, <1>9 DEF ScriptStep

(* Every step keeps what all verdicts and refusals rest on.                *)
LEMMA CaseKept ==
    ASSUME DisputeRunAssumption, VerdictAssumption, ChainInv, CaseInv, [Next]_vars
    PROVE  CaseInv'
<1>1. FilingsStand
  <2>1. UNCHANGED vars => FilingsStand
    BY DEF vars, chainVars, FilingsStand
  <2>. QED
    BY <2>1, FilingsKept
<1>2. ASSUME NEW p \in Runs, NEW st, st = runs'[p], CaseOf(st)
      PROVE  CaseOf(runs[p])'
  <2>1. CaseOf(st)'
    BY <1>1, <1>2, CaseStands
  <2>. QED
    BY <1>2, <2>1
<1>3. CASE UNCHANGED runs
  <2>1. ASSUME NEW p \in Runs PROVE CaseOf(runs[p])'
    <3>1. PICK st : st = runs'[p]
      OBVIOUS
    <3>2. CaseOf(st)
      BY <1>3, <3>1 DEF CaseInv
    <3>. QED
      BY <1>2, <3>1, <3>2
  <2>. QED
    BY <2>1 DEF CaseInv
<1>4. ASSUME NEW r \in Runs, ScriptStep(r)
      PROVE  CaseInv'
  <2>1. PICK new : runs' = [runs EXCEPT ![r] = new] /\ CaseOf(new)
    BY <1>4, CaseMade
  <2>2. runs \in [Runs -> RunState]
    BY DEF ChainInv, TypeOK
  <2>3. ASSUME NEW p \in Runs PROVE CaseOf(runs[p])'
    <3>1. PICK st : st = runs'[p]
      OBVIOUS
    <3>2. PICK old : old = runs[p] /\ CaseOf(old)
      BY DEF CaseInv
    <3>3. st = new \/ st = old
      BY <2>1, <2>2, <3>1, <3>2
    <3>4. CaseOf(st)
      BY <2>1, <3>2, <3>3
    <3>. QED
      BY <1>2, <3>1, <3>4
  <2>. QED
    BY <2>3 DEF CaseInv
<1>5. CASE FileDispute \/ VerifyStep \/ UNCHANGED vars
  <2>1. UNCHANGED runs
    BY <1>5 DEF FileDispute, VerifyStep, VerifyDispute, VerifyCount, VerifyStake, VerifyEvent,
                VerifyFails, vars
  <2>. QED
    BY <1>3, <2>1
<1>6. ASSUME NEW tx \in inflight, Mine(tx) \/ Drop(tx)
      PROVE  CaseInv'
  <2>1. UNCHANGED runs
    BY <1>6 DEF Mine, Drop
  <2>. QED
    BY <1>3, <2>1
<1>. QED
  BY <1>4, <1>5, <1>6 DEF Next, ScriptStep, VerifyStep

(* A verdict of resolve_dispute_mainnet.py rests on what Read says of the  *)
(* disputer's document (a JSON object without a claim counts as a whole,   *)
(* other than fetch.py:7 has it), the disputed contract's own source and   *)
(* what the model's object states; and a run refuses nothing that it could *)
(* have judged.                                                            *)
THEOREM VerdictsRest == Spec => []DecidedOnTheCase
<1>. USE DisputeRunAssumption, VerdictAssumption
<1>1. Init => CaseInv
  <2>. SUFFICES ASSUME Init
                PROVE  CaseInv
    OBVIOUS
  <2>1. PICK scene \in Scenes :
            runs = [r \in Runs |-> IF r \in scene THEN NotRun ELSE [NotRun EXCEPT !.pc = "done"]]
    BY DEF Init
  <2>2. \A r \in Runs : runs[r].pc \in {"new", "done"} /\ runs[r].verdict = None
    BY <2>1 DEF NotRun
  <2>. QED
    BY <2>2 DEF CaseInv, CaseOf
<1>2. ChainInv /\ CaseInv /\ [Next]_vars => CaseInv'
  BY CaseKept
<1>3. ASSUME CaseInv
      PROVE  DecidedOnTheCase
  <2>1. ASSUME NEW r \in Runs
        PROVE  LET run == runs[r] IN
               /\ run.verdict # None =>
                    /\ ~ disputes[run.dispute].claim.uri
                    /\ disputes[run.dispute].claim.doc \in DOMAIN Read
                    /\ run.claim = Read[disputes[run.dispute].claim.doc]
                    /\ run.source = NameOf[disputes[run.dispute].target]
                    /\ run.verdict.outcome = run.reply.object.outcome
               /\ run.pc = "refused" =>
                    IF run.claim = None
                    THEN LET claim == disputes[run.dispute].claim
                         IN  claim.uri \/ claim.doc \in {"blank", "binary"}
                    ELSE \/ Contains(run.reply.pre, LBrace)
                         \/ /\ run.reply.fenced
                            /\ \/ Contains(run.reply.pre, Fence)
                               \/ Contains(run.reply.object.text, Fence)
                         \/ run.reply.object.outcome \notin Outcomes
    <3>1. PICK st : st = runs[r] /\ CaseOf(st)
      BY <1>3 DEF CaseInv
    <3>. QED
      BY <3>1 DEF CaseOf, Heard, Sourced, Unfit
  <2>. QED
    BY <2>1 DEF DecidedOnTheCase
<1>. QED
  BY <1>1, <1>2, <1>3, RecordsInvariant, PTL DEF Spec
=============================================================================
