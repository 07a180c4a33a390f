--------------------------- MODULE CustomersProofs ---------------------------
(***************************************************************************)
(* Theorems about Customers, for any number of agents, contracts, audits   *)
(* and runs: what the agents log and record has its audit and its deeds.   *)
(***************************************************************************)
EXTENDS Customers, FiniteSetTheorems, TLAPS

(***************************************************************************)
(* The inductive invariant.                                                *)
(***************************************************************************)

(* What an agent has broadcast, mined or not. *)
Sends(a) ==
    {queue[a][i] : i \in DOMAIN queue[a]} \cup {receipts[a][i].tx : i \in DOMAIN receipts[a]}

(* The registry has an audit of that root and contract. *)
Grounded(root, t) == root \in DOMAIN anchored /\ anchored[root].target = t

Aimed  == Busy \ {"target", "deploying"}
Judged == {"deposit", "depositing", "decide", "deciding", "record"}
Buying == {"pay", "paying", "pipeline", "reporting"}

(* No run of agent a for that contract came to its end.                    *)
Unrecorded(a, t) == \A row \in ledger[a] : row.target # t

(* The kinds of transaction that a run has sent at most when it is at pc. *)
SoFar(pc) ==
    IF pc = "target" THEN {}
    ELSE IF pc \in {"deploying", "look", "pay"} THEN {"deploy"}
    ELSE IF pc \in {"paying", "pipeline", "reporting", "read", "deposit"} THEN {"deploy", "pay"}
    ELSE IF pc \in {"depositing", "decide"} THEN {"deploy", "pay", "deposit"}
    ELSE {"deploy", "pay", "deposit", "decision"}

(* What agent a, whose run is in state r, knows and has done.              *)
RunInv(a, r) ==
    /\ r.pc \in Busy => r.n \in 1 .. MaxRuns
    /\ r.pc \in Aimed =>
         /\ r.target \in Targets
         /\ kind[a] = "yield" => r.target = Router
    /\ r.pc = "deploying" => kind[a] # "yield"
    /\ r.pc \in {"deposit", "depositing"} => kind[a] = "yield"
    /\ r.pc \in {"look", "decide", "deciding"} => kind[a] # "deployer"
    /\ r.pc \in Judged =>
         Grounded(r.audit, r.target) /\ Acceptable(a, r.audit) /\ r.pipelineRoot \in {0, r.audit}
    /\ r.pc \in {"target", "deploying", "look", "pay", "paying"} => ~r.paid /\ r.pipelineRoot = 0
    /\ r.pc \in {"pipeline", "reporting"} => r.paid
    /\ r.pc \in {"reporting", "read"} \cup Judged => (r.paid <=> r.pipelineRoot # 0)
    /\ r.pc \in Busy /\ r.paid => Happened(a, "pay", r.n)
    /\ r.pc \in {"decide", "deciding", "record"} /\ kind[a] = "yield" =>
         Happened(a, "deposit", r.n)
    /\ r.pc = "record" /\ kind[a] # "deployer" => Happened(a, "decision", r.n)
    /\ r.pc \in Busy => \A tx \in Sends(a) : tx.run = r.n =>
         /\ tx.kind \in SoFar(r.pc)
         /\ tx.kind = "decision" => tx.target = r.target /\ tx.root = r.audit
    /\ r.pc \in Buying /\ kind[a] # "deployer" => Unrecorded(a, r.target)
    /\ r.pc = "deploying" /\ kind[a] # "deployer" => \A tx \in Sends(a) :
         tx.run = r.n => Unrecorded(a, tx.target)

(* A deposit or a decision follows from the audit that it names.           *)
TxInv(a, tx) ==
    /\ tx.run <= run[a].n
    /\ tx.kind = "deposit" =>
         /\ kind[a] = "yield" /\ tx.target = Router
         /\ Grounded(tx.root, Router) /\ Acceptable(a, tx.root)
    /\ tx.kind = "decision" =>
         /\ Grounded(tx.root, tx.target) /\ Acceptable(a, tx.root)
         /\ kind[a] = "yield" => Happened(a, "deposit", tx.run)

(* A run sends one transaction of a kind at most.                          *)
Alike(tx, other) == tx.kind = other.kind /\ tx.run = other.run
OnceInv(a) ==
    /\ \A i, j \in DOMAIN queue[a] : Alike(queue[a][i], queue[a][j]) => i = j
    /\ \A i, j \in DOMAIN receipts[a] : Alike(receipts[a][i].tx, receipts[a][j].tx) => i = j
    /\ \A i \in DOMAIN queue[a], j \in DOMAIN receipts[a] :
         ~Alike(queue[a][i], receipts[a][j].tx)

(* A row is the record of a run that is over, after which its contract is  *)
(* not paid for.                                                           *)
RowInv(a, row) ==
    /\ row.n <= run[a].n
    /\ run[a].pc # "done" => row.n < run[a].n
    /\ Grounded(row.root, row.target) /\ Acceptable(a, row.root)
    /\ row.paid => Happened(a, "pay", row.n) /\ row.pipelineRoot = row.root
    /\ ~row.paid => row.pipelineRoot = 0
    /\ kind[a] # "deployer" => Happened(a, "decision", row.n)
    /\ kind[a] = "yield" => Happened(a, "deposit", row.n) /\ row.target = Router
    /\ \A tx \in Sends(a) : tx.kind = "decision" /\ tx.run = row.n =>
         tx.target = row.target /\ tx.root = row.root
    /\ kind[a] # "deployer" => \A tx \in Sends(a) :
         tx.kind = "pay" /\ tx.target = row.target => tx.run <= row.n

AgentInv(a) ==
    /\ RunInv(a, run[a])
    /\ \A tx \in Sends(a) : TxInv(a, tx)
    /\ OnceInv(a)
    /\ \A row \in ledger[a] : RowInv(a, row)

(* A contract that was audited has a newest audit.                         *)
LogInv ==
    /\ Len(anchored) <= MaxAudits
    /\ \A t : (\E i \in DOMAIN anchored : anchored[i].target = t) =>
         \E i \in DOMAIN anchored :
             /\ anchored[i].target = t
             /\ \A j \in DOMAIN anchored : anchored[j].target = t => j <= i

(* The decisions that DecisionLog counts. *)
Counted ==
    LET of(a) == {tx \in DOMAIN receipts[a] : Good(a, tx) /\ receipts[a][tx].tx.kind = "decision"}
    IN  UNION {{a} \X of(a) : a \in Agents}

CustomersInv == TypeOK /\ LogInv /\ IsFiniteSet(Counted) /\ \A a \in Agents : AgentInv(a)

-------------------------------------------------------------------------------
(***************************************************************************)
(* What stays.                                                             *)
(***************************************************************************)

(* Audits and receipts are only added. *)
Grows(a) ==
    /\ kind' = kind
    /\ \A i \in DOMAIN anchored : i \in DOMAIN anchored' /\ anchored'[i] = anchored[i]
    /\ \A i \in DOMAIN receipts[a] : i \in DOMAIN receipts'[a] /\ receipts'[a][i] = receipts[a][i]

(* So an audit stays what it is, and what happened has happened.           *)
LEMMA FactsStay ==
    ASSUME NEW a \in Agents, Grows(a)
    PROVE  /\ \A root, t : Grounded(root, t) => Grounded(root, t)'
           /\ \A root \in DOMAIN anchored : Acceptable(a, root) => Acceptable(a, root)'
           /\ \A what, n : Happened(a, what, n) => Happened(a, what, n)'
<1>1. \A root, t : Grounded(root, t) => Grounded(root, t)'
  BY DEF Grows, Grounded
<1>2. \A root \in DOMAIN anchored : Acceptable(a, root) => Acceptable(a, root)'
  BY DEF Grows, Acceptable, Severity
<1>3. \A what, n : Happened(a, what, n) => Happened(a, what, n)'
  BY DEF Grows, Happened
<1>. QED
  BY <1>1, <1>2, <1>3

(* What an agent has sent is of its type. *)
LEMMA SendsTyped ==
    ASSUME TypeOK, NEW a \in Agents
    PROVE  Sends(a) \subseteq Tx
<1>1. queue[a] \in Seq(Tx) /\ receipts[a] \in Seq([tx : Tx, ok : BOOLEAN])
  BY DEF TypeOK
<1>2. \A i \in DOMAIN queue[a] : queue[a][i] \in Tx
  BY <1>1
<1>3. ASSUME NEW i \in DOMAIN receipts[a]
      PROVE  receipts[a][i].tx \in Tx
  <2>1. PICK S : S = [tx : Tx, ok : BOOLEAN]
    OBVIOUS
  <2>2. receipts[a] \in Seq(S)
    BY <1>1, <2>1
  <2>3. receipts[a][i] \in S
    BY <2>2
  <2>. QED
    BY <2>1, <2>3
<1>. QED
  BY <1>2, <1>3 DEF Sends

(* A step of agent a leaves its old transactions and rows what they are if *)
(* a new transaction is its present run's and fits.                        *)
LEMMA OldStays ==
    ASSUME TypeOK, NEW a \in Agents, AgentInv(a), Grows(a), NEW st \in Run,
           run'[a] = st, run[a] \in Run,
           st.n >= run[a].n,
           run[a].pc = "done" /\ st.n = run[a].n => st.pc = "done",
           \A tx \in Sends(a)' : tx \in Sends(a) \/
               (/\ tx.run = run[a].n /\ run[a].pc # "done" /\ TxInv(a, tx)'
                /\ tx.kind = "pay" /\ kind[a] # "deployer" => Unrecorded(a, tx.target))
    PROVE  /\ \A tx \in Sends(a)' : TxInv(a, tx)'
           /\ \A row \in ledger[a] : RowInv(a, row)'
<1>. USE FactsStay
<1>1. ASSUME NEW tx \in Sends(a)
      PROVE  TxInv(a, tx)'
  <2>1. TxInv(a, tx) /\ tx \in Tx
    BY SendsTyped DEF AgentInv
  <2>2. tx.run <= st.n
    BY <2>1 DEF TxInv, Tx, Run
  <2>3. kind' = kind
    BY DEF Grows
  <2>4. /\ \A root \in DOMAIN anchored : Acceptable(a, root) => Acceptable(a, root)'
        /\ \A root, t : Grounded(root, t) => Grounded(root, t)' /\ root \in DOMAIN anchored
    BY DEF Grounded
  <2>. QED
    BY <2>1, <2>2, <2>3, <2>4 DEF TxInv
<1>2. ASSUME NEW row \in ledger[a]
      PROVE  RowInv(a, row)'
  <2>1. RowInv(a, row) /\ row \in Row
    BY DEF AgentInv, TypeOK
  <2>2. row.n <= st.n /\ (st.pc # "done" => row.n < st.n)
    BY <2>1 DEF RowInv, Row, Run
  <2>3. kind' = kind
    BY DEF Grows
  <2>4. Grounded(row.root, row.target)' /\ Acceptable(a, row.root)'
    BY <2>1 DEF RowInv, Grounded
  <2>5. ASSUME NEW tx \in Sends(a)'
        PROVE  /\ tx.kind = "decision" /\ tx.run = row.n =>
                    tx.target = row.target /\ tx.root = row.root
               /\ kind[a] # "deployer" /\ tx.kind = "pay" /\ tx.target = row.target =>
                    tx.run <= row.n
    <3>1. CASE tx \in Sends(a)
      BY <2>1, <3>1 DEF RowInv
    <3>2. CASE /\ tx.run = run[a].n /\ run[a].pc # "done" /\ TxInv(a, tx)'
               /\ tx.kind = "pay" /\ kind[a] # "deployer" => Unrecorded(a, tx.target)
      <4>1. row.n < run[a].n
        BY <2>1, <3>2 DEF RowInv
      <4>. QED
        BY <2>1, <3>2, <4>1 DEF Row, Run, Unrecorded
    <3>. QED
      BY <3>1, <3>2
  <2>6. /\ row.paid => Happened(a, "pay", row.n)' /\ row.pipelineRoot = row.root
        /\ ~row.paid => row.pipelineRoot = 0
        /\ kind[a] # "deployer" => Happened(a, "decision", row.n)'
        /\ kind[a] = "yield" => Happened(a, "deposit", row.n)' /\ row.target = Router
    BY <2>1 DEF RowInv
  <2>. QED
    BY <2>2, <2>3, <2>4, <2>5, <2>6 DEF RowInv
<1>. QED
  BY <1>1, <1>2

(* An agent is not affected by what the others do. *)
LEMMA OthersStay ==
    ASSUME TypeOK, NEW a \in Agents, AgentInv(a), Grows(a),
           run'[a] = run[a], cached'[a] = cached[a], ledger'[a] = ledger[a],
           queue'[a] = queue[a], receipts'[a] = receipts[a]
    PROVE  AgentInv(a)'
<1>. USE FactsStay
<1>1. Sends(a)' = Sends(a)
  BY DEF Sends
<1>2. PICK st : st = run[a]
  OBVIOUS
<1>3. st \in Run /\ run[a] \in Run /\ st.n >= run[a].n
  BY <1>2 DEF TypeOK, Run
<1>4. (\A tx \in Sends(a)' : TxInv(a, tx)') /\ \A row \in ledger[a] : RowInv(a, row)'
  BY <1>1, <1>2, <1>3, OldStays
<1>5. RunInv(a, st)'
  <2>1. RunInv(a, st)
    BY <1>2 DEF AgentInv
  <2>2. kind' = kind
    BY DEF Grows
  <2>3. st.pc \in Judged => Grounded(st.audit, st.target)' /\ Acceptable(a, st.audit)'
    BY <2>1 DEF RunInv, Grounded
  <2>. QED
    BY <1>1, <2>1, <2>2, <2>3 DEF RunInv, Unrecorded
<1>6. OnceInv(a)'
  BY DEF AgentInv, OnceInv, Alike
<1>. QED
  BY <1>2, <1>4, <1>5, <1>6 DEF AgentInv

(* A step of agent a, seen from the others. *)
LEMMA OneMoves ==
    ASSUME CustomersInv, NEW a \in Agents, NEW b \in Agents, b # a, Grows(b),
           \/ UNCHANGED run \/ \E st : run' = [run EXCEPT ![a] = st],
           \/ UNCHANGED cached \/ \E t : cached' = [cached EXCEPT ![a] = t],
           \/ UNCHANGED ledger \/ \E rows : ledger' = [ledger EXCEPT ![a] = rows],
           \/ UNCHANGED queue \/ \E q : queue' = [queue EXCEPT ![a] = q],
           \/ UNCHANGED receipts \/ \E q : receipts' = [receipts EXCEPT ![a] = q]
    PROVE  AgentInv(b)'
<1>1. /\ run'[b] = run[b] /\ cached'[b] = cached[b] /\ ledger'[b] = ledger[b]
      /\ queue'[b] = queue[b] /\ receipts'[b] = receipts[b]
  BY DEF CustomersInv, TypeOK
<1>. QED
  BY <1>1, OthersStay DEF CustomersInv

-------------------------------------------------------------------------------
(***************************************************************************)
(* The steps of a run that change nothing but its own variables.           *)
(***************************************************************************)

(* Such a step is one to a state that fits. *)
LEMMA OwnStep ==
    ASSUME CustomersInv, NEW a \in Agents, NEW st \in Run,
           run' = [run EXCEPT ![a] = st], UNCHANGED <<kind, files, chain>>,
           st.n >= run[a].n, run[a].pc = "done" => st.n > run[a].n,
           RunInv(a, st)
    PROVE  CustomersInv'
<1>1. UNCHANGED <<kind, cached, ledger, queue, receipts, anchored>>
  BY DEF files, chain
<1>2. TypeOK'
  BY <1>1 DEF CustomersInv, TypeOK
<1>3. \A b \in Agents : Grows(b)
  BY <1>1 DEF Grows
<1>4. run \in [Agents -> Run] /\ run'[a] = st /\ run[a] \in Run
  BY DEF CustomersInv, TypeOK
<1>5. AgentInv(a)'
  <2>1. Sends(a)' = Sends(a)
    BY <1>1 DEF Sends
  <2>2. (\A tx \in Sends(a)' : TxInv(a, tx)') /\ \A row \in ledger[a] : RowInv(a, row)'
    <3>1. run[a].pc = "done" /\ st.n = run[a].n => st.pc = "done"
      BY <1>4 DEF Run
    <3>2. TypeOK /\ AgentInv(a)
      BY DEF CustomersInv
    <3>. QED
      BY <1>1, <1>3, <1>4, <2>1, <3>1, <3>2, OldStays
  <2>3. RunInv(a, st)'
    BY <1>1, <2>1 DEF RunInv, Unrecorded, Grounded, Acceptable, Severity, Happened
  <2>4. OnceInv(a)'
    BY <1>1 DEF CustomersInv, AgentInv, OnceInv, Alike
  <2>. QED
    BY <1>1, <1>4, <2>2, <2>3, <2>4 DEF AgentInv
<1>6. \A b \in Agents : b # a => AgentInv(b)'
  BY <1>1, <1>3, OneMoves
<1>7. LogInv' /\ IsFiniteSet(Counted)'
  BY <1>1 DEF CustomersInv, LogInv, Counted, Good
<1>. QED
  BY <1>2, <1>5, <1>6, <1>7 DEF CustomersInv

(* getAudit finds the newest audit of a contract if there is one. *)
LEMMA HeadFound ==
    ASSUME CustomersAssumption, TypeOK, LogInv, NEW t
    PROVE  /\ HeadOf(t) \in 0 .. MaxAudits
           /\ HeadOf(t) # 0 => Grounded(HeadOf(t), t)
           /\ HeadOf(t) = 0 => \A i \in DOMAIN anchored : anchored[i].target # t
<1>. DEFINE of == {i \in DOMAIN anchored : anchored[i].target = t}
<1>1. HeadOf(t) = IF of = {} THEN 0 ELSE CHOOSE i \in of : \A j \in of : j <= i
  BY DEF HeadOf
<1>2. DOMAIN anchored = 1 .. Len(anchored) /\ Len(anchored) \in Nat /\ Len(anchored) <= MaxAudits
  BY DEF TypeOK, LogInv
<1>3. CASE of = {}
  BY <1>1, <1>3, CustomersAssumption DEF CustomersAssumption
<1>4. CASE of # {}
  <2>1. \E i \in of : \A j \in of : j <= i
    BY <1>4 DEF LogInv
  <2>2. HeadOf(t) \in of
    BY <1>1, <1>4, <2>1
  <2>. QED
    BY <1>2, <2>2, CustomersAssumption DEF Grounded, CustomersAssumption
<1>. QED
  BY <1>3, <1>4

(* The steps that only move the run on. *)
RunStep(a) ==
    \/ Start(a) \/ UseRouter(a) \/ ReuseTarget(a) \/ (\E t \in Targets : GivenTarget(a, t))
    \/ LookUp(a) \/ Paid(a) \/ PipelineEnds(a)
    \/ ReadAudit(a) \/ Deposited(a) \/ Decided(a) \/ Fail(a)

(* Every one of them leads to a state that fits. *)
LEMMA RunKeeps ==
    ASSUME CustomersAssumption, CustomersInv, NEW a \in Agents, RunStep(a)
    PROVE  CustomersInv'
<1>1. /\ run \in [Agents -> Run] /\ run[a] \in Run /\ kind[a] \in Kinds
      /\ cached[a] \in Targets \cup {None}
      /\ RunInv(a, run[a])
  BY DEF CustomersInv, TypeOK, AgentInv
<1>2. UNCHANGED <<kind, files, chain>>
  BY DEF RunStep, Start, UseRouter, ReuseTarget, GivenTarget, TakeTarget, LookUp, Paid, PipelineEnds, ReadAudit,
         Deposited, Decided, Fail
<1>3. ASSUME NEW st \in Run, run' = [run EXCEPT ![a] = st],
             st.n >= run[a].n, run[a].pc = "done" => st.n > run[a].n, RunInv(a, st)
      PROVE  CustomersInv'
  BY <1>2, <1>3, OwnStep
<1>0. ASSUME NEW st \in Run, run' = [run EXCEPT ![a] = st],
             st.n = run[a].n, run[a].pc # "done", RunInv(a, st)
      PROVE  CustomersInv'
  <2>1. st.n >= run[a].n
    BY <1>0 DEF Run
  <2>. QED
    BY <1>0, <1>3, <2>1
<1>4. ASSUME NEW pc \in Busy \cup Over, NEW st, st = [run[a] EXCEPT !.pc = pc],
             run' = [run EXCEPT ![a].pc = pc], run[a].pc # "done", RunInv(a, st)
      PROVE  CustomersInv'
  <2>1. st \in Run /\ st.n >= run[a].n
    BY <1>1, <1>4 DEF Run
  <2>2. run' = [run EXCEPT ![a] = st]
    BY <1>1, <1>4
  <2>. QED
    BY <1>3, <1>4, <2>1, <2>2
<1>5. ASSUME run' = [run EXCEPT ![a].pc = "raised"], run[a].pc # "done"
      PROVE  CustomersInv'
  <2>1. PICK st : st = [run[a] EXCEPT !.pc = "raised"]
    OBVIOUS
  <2>2. st.pc = "raised"
    BY <1>1, <2>1 DEF Run
  <2>3. RunInv(a, st)
    BY <2>2 DEF RunInv, Busy, Aimed, Judged, Buying
  <2>. QED
    BY <1>4, <1>5, <2>1, <2>3 DEF Over
<1>6. CASE Start(a)
  <2>0. PICK n : n = run[a].n + 1
    OBVIOUS
  <2>1. PICK st : st = [Idle EXCEPT !.pc = "target", !.n = n]
    OBVIOUS
  <2>2. /\ st \in Run /\ st.pc = "target" /\ st.n = run[a].n + 1 /\ ~st.paid
        /\ st.pipelineRoot = 0
    <3>1. n \in 0 .. MaxRuns
      BY <1>1, <1>6, <2>0, CustomersAssumption DEF Start, Run, CustomersAssumption
    <3>2. Idle \in Run /\ ~Idle.paid /\ Idle.pipelineRoot = 0
      BY CustomersAssumption DEF Idle, Run, Over, CustomersAssumption
    <3>. QED
      BY <2>0, <2>1, <3>1, <3>2 DEF Run, Busy
  <2>3. st.n \in 1 .. MaxRuns /\ \A tx \in Sends(a) : tx.run # st.n
    <3>1. \A tx \in Sends(a) : tx \in Tx /\ tx.run <= run[a].n
      BY SendsTyped DEF CustomersInv, AgentInv, TxInv
    <3>. QED
      BY <1>1, <1>6, <2>2, <3>1, CustomersAssumption DEF Start, Run, Tx, CustomersAssumption
  <2>4. RunInv(a, st)
    BY <2>2, <2>3 DEF RunInv, Aimed, Judged, Buying
  <2>. QED
    <3>1. run' = [run EXCEPT ![a] = st]
      BY <1>6, <2>0, <2>1 DEF Start
    <3>2. st.n >= run[a].n /\ st.n > run[a].n
      BY <1>1, <2>2 DEF Run
    <3>. QED
      BY <1>3, <2>2, <2>4, <3>1, <3>2
<1>7. CASE UseRouter(a)
  <2>1. PICK st : st = [run[a] EXCEPT !.pc = "look", !.target = Router]
    OBVIOUS
  <2>2. /\ st \in Run /\ st.pc = "look" /\ st.target = Router /\ st.n = run[a].n
        /\ st.paid = run[a].paid /\ st.pipelineRoot = run[a].pipelineRoot
    BY <1>1, <2>1, CustomersAssumption DEF Run, Busy, CustomersAssumption
  <2>3. run' = [run EXCEPT ![a] = st] /\ run[a].pc = "target" /\ kind[a] = "yield"
    BY <1>1, <1>7, <2>1 DEF UseRouter
  <2>4. RunInv(a, st)
    BY <1>1, <2>2, <2>3, CustomersAssumption
       DEF RunInv, Busy, Aimed, Judged, Buying, SoFar, CustomersAssumption
  <2>. QED
    BY <1>0, <2>2, <2>3, <2>4
<1>8. CASE ReuseTarget(a) \/ \E t \in Targets : GivenTarget(a, t)
  <2>0. PICK t \in Targets : TakeTarget(a, t)
    BY <1>1, <1>8 DEF ReuseTarget, GivenTarget
  <2>1. PICK pc \in {"look", "pay"} : pc = IF kind[a] = "trading" THEN "look" ELSE "pay"
    OBVIOUS
  <2>2. PICK st : st = [run[a] EXCEPT !.pc = pc, !.target = t]
    OBVIOUS
  <2>3. /\ st \in Run /\ st.pc = pc /\ st.target = t /\ st.n = run[a].n
        /\ st.paid = run[a].paid /\ st.pipelineRoot = run[a].pipelineRoot
    BY <1>1, <2>2 DEF Run, Busy
  <2>4. run' = [run EXCEPT ![a] = st] /\ run[a].pc = "target" /\ kind[a] # "yield"
    BY <1>1, <2>0, <2>1, <2>2 DEF TakeTarget
  <2>5. RunInv(a, st)
    BY <1>1, <2>1, <2>3, <2>4 DEF RunInv, Busy, Aimed, Judged, Buying, SoFar, Kinds
  <2>. QED
    BY <1>0, <2>3, <2>4, <2>5
<1>9. CASE LookUp(a)
  <2>1. PICK pc \in {"read", "pay"} : pc = IF HeadOf(run[a].target) # 0 THEN "read" ELSE "pay"
    OBVIOUS
  <2>2. PICK st : st = [run[a] EXCEPT !.pc = pc]
    OBVIOUS
  <2>3. /\ st.pc = pc /\ st.target = run[a].target /\ st.n = run[a].n
        /\ st.paid = run[a].paid /\ st.pipelineRoot = run[a].pipelineRoot
    BY <1>1, <2>2 DEF Run
  <2>4. run' = [run EXCEPT ![a].pc = pc] /\ run[a].pc = "look"
    BY <1>9, <2>1 DEF LookUp, Goto
  <2>5. pc = "pay" => Unrecorded(a, run[a].target)
    <3>1. SUFFICES ASSUME pc = "pay", NEW row \in ledger[a], row.target = run[a].target
                   PROVE  FALSE
      BY DEF Unrecorded
    <3>2. \A i \in DOMAIN anchored : anchored[i].target # run[a].target
      BY <2>1, <3>1, HeadFound DEF CustomersInv
    <3>3. RowInv(a, row)
      BY DEF CustomersInv, AgentInv
    <3>. QED
      BY <3>1, <3>2, <3>3 DEF RowInv, Grounded
  <2>6. RunInv(a, st)
    BY <1>1, <2>3, <2>4, <2>5 DEF RunInv, Busy, Aimed, Judged, Buying, SoFar
  <2>. QED
    BY <1>4, <2>2, <2>4, <2>6 DEF Busy
<1>10. CASE Paid(a)
  <2>1. CASE Mined(a, "pay", {TRUE}) /\ run' = [run EXCEPT ![a].pc = "pipeline", ![a].paid = TRUE]
    <3>1. PICK st : st = [run[a] EXCEPT !.pc = "pipeline", !.paid = TRUE]
      OBVIOUS
    <3>2. /\ st \in Run /\ st.pc = "pipeline" /\ st.target = run[a].target
          /\ st.n = run[a].n /\ st.paid
      BY <1>1, <3>1 DEF Run, Busy
    <3>3. run' = [run EXCEPT ![a] = st] /\ run[a].pc = "paying"
      BY <1>1, <1>10, <2>1, <3>1 DEF Paid
    <3>4. Happened(a, "pay", st.n)
      BY <2>1, <3>2 DEF Mined, Happened
    <3>5. RunInv(a, st)
      BY <1>1, <3>2, <3>3, <3>4 DEF RunInv, Busy, Aimed, Judged, Buying, SoFar
    <3>. QED
      BY <1>0, <3>2, <3>3, <3>5
  <2>2. CASE run' = [run EXCEPT ![a].pc = "raised"]
    BY <1>5, <1>10, <2>2 DEF Paid
  <2>. QED
    BY <1>10, <2>1, <2>2 DEF Paid, Goto
<1>11. CASE PipelineEnds(a)
  <2>1. PICK st : st = [run[a] EXCEPT !.pc = "read"]
    OBVIOUS
  <2>2. /\ st.pc = "read" /\ st.target = run[a].target /\ st.n = run[a].n
        /\ st.paid = run[a].paid /\ st.pipelineRoot = run[a].pipelineRoot
    BY <1>1, <2>1 DEF Run
  <2>3. run' = [run EXCEPT ![a].pc = "read"] /\ run[a].pc = "reporting"
    BY <1>11 DEF PipelineEnds, Goto
  <2>4. RunInv(a, st)
    BY <1>1, <2>2, <2>3 DEF RunInv, Busy, Aimed, Judged, Buying, SoFar
  <2>. QED
    BY <1>4, <2>1, <2>3, <2>4 DEF Busy
<1>12. CASE ReadAudit(a)
  <2>1. PICK head : head = HeadOf(run[a].target)
    OBVIOUS
  <2>2. PICK pc : pc = IF /\ head # 0 /\ run[a].pipelineRoot \in {0, head}
                          /\ Acceptable(a, head) THEN AfterRead(a) ELSE "raised"
    OBVIOUS
  <2>3. AfterRead(a) = CASE kind[a] = "deployer" -> "record"
                         [] kind[a] = "trading"  -> "decide"
                         [] kind[a] = "yield"    -> "deposit"
    BY DEF AfterRead
  <2>4. /\ head \in 0 .. MaxAudits /\ (head # 0 => Grounded(head, run[a].target))
        /\ AfterRead(a) \in {"record", "decide", "deposit"}
    BY <1>1, <2>1, <2>3, HeadFound DEF CustomersInv, Kinds
  <2>5. PICK st : st = [run[a] EXCEPT !.audit = head, !.pc = pc]
    OBVIOUS
  <2>6. /\ st \in Run /\ st.pc = pc /\ st.target = run[a].target /\ st.n = run[a].n
        /\ st.paid = run[a].paid /\ st.pipelineRoot = run[a].pipelineRoot /\ st.audit = head
    BY <1>1, <2>2, <2>4, <2>5 DEF Run, Busy, Over
  <2>7. run' = [run EXCEPT ![a] = st] /\ run[a].pc = "read"
    BY <1>1, <1>12, <2>1, <2>2, <2>5 DEF ReadAudit
  <2>8. CASE pc = "raised"
    <3>1. RunInv(a, st)
      BY <2>6, <2>8 DEF RunInv, Busy, Aimed, Judged, Buying
    <3>. QED
      BY <1>0, <2>6, <2>7, <3>1
  <2>9. CASE pc # "raised"
    <3>1. /\ pc = AfterRead(a) /\ head # 0 /\ run[a].pipelineRoot \in {0, head}
          /\ Acceptable(a, head) /\ Grounded(head, run[a].target)
      BY <2>2, <2>4, <2>9
    <3>2. /\ pc = "record" => kind[a] = "deployer"
          /\ pc = "decide" => kind[a] = "trading"
          /\ pc = "deposit" => kind[a] = "yield"
      BY <1>1, <2>3, <3>1 DEF Kinds
    <3>3. \A tx \in Sends(a) : tx.run = st.n =>
              tx.kind \in {"deploy", "pay"} /\ tx.kind \in SoFar(pc)
      BY <1>1, <2>4, <2>6, <2>7, <3>1 DEF RunInv, Busy, SoFar
    <3>4. RunInv(a, st)
      BY <1>1, <2>4, <2>6, <2>7, <3>1, <3>2, <3>3 DEF RunInv, Busy, Aimed, Judged, Buying
    <3>. QED
      BY <1>0, <2>6, <2>7, <3>4
  <2>. QED
    BY <2>8, <2>9
<1>13. ASSUME NEW what \in {"deposit", "decision"}, NEW next \in {"decide", "record"},
              NEW st, st = [run[a] EXCEPT !.pc = next],
              Receipt(a, what, next), run[a].pc # "done",
              Happened(a, what, run[a].n) => RunInv(a, st)
       PROVE  CustomersInv'
  <2>1. CASE Mined(a, what, {TRUE}) /\ Goto(a, next)
    <3>1. Happened(a, what, run[a].n)
      BY <2>1 DEF Mined, Happened
    <3>. QED
      BY <1>4, <1>13, <2>1, <3>1 DEF Goto, Busy
  <2>2. CASE Goto(a, "raised")
    BY <1>5, <1>13, <2>2 DEF Goto
  <2>. QED
    BY <1>13, <2>1, <2>2 DEF Receipt
<1>14. CASE Deposited(a)
  <2>1. PICK st : st = [run[a] EXCEPT !.pc = "decide"]
    OBVIOUS
  <2>2. /\ st.pc = "decide" /\ st.target = run[a].target /\ st.n = run[a].n
        /\ st.paid = run[a].paid /\ st.pipelineRoot = run[a].pipelineRoot
        /\ st.audit = run[a].audit
    BY <1>1, <2>1 DEF Run
  <2>3. run[a].pc = "depositing" /\ Receipt(a, "deposit", "decide")
    BY <1>14 DEF Deposited
  <2>4. Happened(a, "deposit", run[a].n) => RunInv(a, st)
    BY <1>1, <2>2, <2>3 DEF RunInv, Busy, Aimed, Judged, Buying, SoFar
  <2>. QED
    BY <1>13, <2>1, <2>3, <2>4
<1>15. CASE Decided(a)
  <2>1. PICK st : st = [run[a] EXCEPT !.pc = "record"]
    OBVIOUS
  <2>2. /\ st.pc = "record" /\ st.target = run[a].target /\ st.n = run[a].n
        /\ st.paid = run[a].paid /\ st.pipelineRoot = run[a].pipelineRoot
        /\ st.audit = run[a].audit
    BY <1>1, <2>1 DEF Run
  <2>3. run[a].pc = "deciding" /\ Receipt(a, "decision", "record")
    BY <1>15 DEF Decided
  <2>4. Happened(a, "decision", run[a].n) => RunInv(a, st)
    BY <1>1, <2>2, <2>3 DEF RunInv, Busy, Aimed, Judged, Buying, SoFar
  <2>. QED
    BY <1>13, <2>1, <2>3, <2>4
<1>16. CASE Fail(a)
  BY <1>5, <1>16 DEF Fail, Goto, Busy
<1>. QED
  BY <1>6, <1>7, <1>8, <1>9, <1>10, <1>11, <1>12, <1>14, <1>15, <1>16 DEF RunStep

-------------------------------------------------------------------------------
(***************************************************************************)
(* Broadcasts.                                                             *)
(***************************************************************************)

(* A transaction may be broadcast if it fits, is the first of its kind in  *)
(* its run, and is no payment for a contract that its agent has a row of.  *)
LEMMA SendStep ==
    ASSUME CustomersInv, NEW a \in Agents, NEW tx \in Tx, NEW st \in Run,
           queue' = [queue EXCEPT ![a] = Append(@, tx)], run' = [run EXCEPT ![a] = st],
           UNCHANGED <<kind, files, receipts, anchored>>,
           run[a].pc \in Busy, st.n = run[a].n, tx.run = run[a].n, RunInv(a, st), TxInv(a, tx),
           tx.kind \notin SoFar(run[a].pc), tx.kind \in SoFar(st.pc),
           tx.kind = "decision" => tx.target = st.target /\ tx.root = st.audit,
           tx.kind = "pay" /\ kind[a] # "deployer" => Unrecorded(a, tx.target),
           st.pc = "deploying" /\ kind[a] # "deployer" =>
               Unrecorded(a, tx.target) /\ SoFar(run[a].pc) = {}
    PROVE  CustomersInv'
<1>1. UNCHANGED <<kind, cached, ledger, receipts, anchored>>
  BY DEF files
<1>2. /\ run \in [Agents -> Run] /\ run'[a] = st /\ run[a] \in Run /\ st.n >= run[a].n
      /\ queue \in [Agents -> Seq(Tx)] /\ queue[a] \in Seq(Tx)
      /\ queue'[a] = Append(queue[a], tx)
  BY DEF CustomersInv, TypeOK, Run
<1>3. TypeOK'
  <2>1. Append(queue[a], tx) \in Seq(Tx)
    BY <1>2
  <2>. QED
    BY <1>1, <2>1 DEF CustomersInv, TypeOK
<1>4. \A b \in Agents : Grows(b)
  BY <1>1 DEF Grows
<1>5. PICK q : q = queue[a]
  OBVIOUS
<1>6. /\ q \in Seq(Tx) /\ queue'[a] = Append(q, tx)
      /\ DOMAIN q = 1 .. Len(q) /\ Len(q) \in Nat
      /\ DOMAIN queue'[a] = 1 .. Len(q) + 1 /\ queue'[a][Len(q) + 1] = tx
      /\ \A i \in 1 .. Len(q) : queue'[a][i] = q[i]
  BY <1>2, <1>5
<1>7. Sends(a)' = Sends(a) \cup {tx}
  <2>1. {queue'[a][i] : i \in 1 .. Len(q) + 1} = {q[i] : i \in 1 .. Len(q)} \cup {tx}
    BY <1>6
  <2>. QED
    BY <1>1, <1>5, <1>6, <2>1 DEF Sends
<1>8. \A old \in Sends(a) : ~Alike(old, tx)
  BY DEF CustomersInv, AgentInv, RunInv, Alike
<1>9. TxInv(a, tx)'
  BY <1>1, <1>2 DEF TxInv, Grounded, Acceptable, Severity, Happened
<1>10. (\A old \in Sends(a)' : TxInv(a, old)') /\ \A row \in ledger[a] : RowInv(a, row)'
  <2>1. run[a].pc # "done"
    BY DEF Busy
  <2>2. TypeOK /\ AgentInv(a)
    BY DEF CustomersInv
  <2>. QED
    BY <1>1, <1>2, <1>4, <1>7, <1>9, <2>1, <2>2, OldStays
<1>11. RunInv(a, st)'
  <2>1. RunInv(a, run[a])
    BY DEF CustomersInv, AgentInv
  <2>2. st.pc = "deploying" /\ kind[a] # "deployer" =>
            \A old \in Sends(a)' : old.run = st.n => Unrecorded(a, old.target)
    BY <1>7, <2>1 DEF RunInv
  <2>. QED
    BY <1>1, <1>7, <2>2 DEF RunInv, Unrecorded, Grounded, Acceptable, Severity, Happened
<1>12. OnceInv(a)'
  <2>1. /\ \A i \in DOMAIN q : ~Alike(q[i], tx)
        /\ \A i \in DOMAIN receipts[a] : ~Alike(receipts[a][i].tx, tx)
    BY <1>5, <1>8 DEF Sends
  <2>2. \A i, j \in DOMAIN q : Alike(q[i], q[j]) => i = j
    BY <1>5 DEF CustomersInv, AgentInv, OnceInv
  <2>3. \A i \in DOMAIN q, j \in DOMAIN receipts[a] : ~Alike(q[i], receipts[a][j].tx)
    BY <1>5 DEF CustomersInv, AgentInv, OnceInv
  <2>4. \A i, j \in DOMAIN queue'[a] : Alike(queue'[a][i], queue'[a][j]) => i = j
    <3>1. ASSUME NEW i \in 1 .. Len(q) + 1, NEW j \in 1 .. Len(q) + 1,
                 Alike(queue'[a][i], queue'[a][j]), i # j
          PROVE  FALSE
      <4>1. CASE i = Len(q) + 1
        <5>1. j \in 1 .. Len(q) /\ Alike(q[j], tx)
          BY <1>6, <3>1, <4>1 DEF Alike
        <5>. QED
          BY <1>6, <2>1, <5>1
      <4>2. CASE j = Len(q) + 1
        <5>1. i \in 1 .. Len(q) /\ Alike(q[i], tx)
          BY <1>6, <3>1, <4>2 DEF Alike
        <5>. QED
          BY <1>6, <2>1, <5>1
      <4>3. CASE i \in 1 .. Len(q) /\ j \in 1 .. Len(q)
        BY <1>6, <2>2, <3>1, <4>3
      <4>. QED
        BY <1>6, <4>1, <4>2, <4>3
    <3>. QED
      BY <1>6, <3>1
  <2>5. \A i \in DOMAIN queue'[a], j \in DOMAIN receipts[a] :
            ~Alike(queue'[a][i], receipts[a][j].tx)
    <3>1. ASSUME NEW i \in 1 .. Len(q) + 1, NEW j \in DOMAIN receipts[a]
          PROVE  ~Alike(queue'[a][i], receipts[a][j].tx)
      <4>1. CASE i = Len(q) + 1
        <5>1. ~Alike(receipts[a][j].tx, tx) /\ queue'[a][i] = tx
          BY <1>6, <2>1, <4>1
        <5>. QED
          BY <5>1 DEF Alike
      <4>2. CASE i \in 1 .. Len(q)
        <5>1. ~Alike(q[i], receipts[a][j].tx) /\ queue'[a][i] = q[i]
          BY <1>6, <2>3, <4>2
        <5>. QED
          BY <5>1
      <4>. QED
        BY <1>6, <4>1, <4>2
    <3>. QED
      BY <1>6, <3>1
  <2>. QED
    BY <1>1, <2>4, <2>5 DEF CustomersInv, AgentInv, OnceInv, Alike
<1>13. AgentInv(a)'
  BY <1>1, <1>2, <1>10, <1>11, <1>12 DEF AgentInv
<1>14. \A b \in Agents : b # a => AgentInv(b)'
  BY <1>1, <1>4, OneMoves
<1>15. LogInv' /\ IsFiniteSet(Counted)'
  BY <1>1 DEF CustomersInv, LogInv, Counted, Good
<1>. QED
  BY <1>3, <1>13, <1>14, <1>15 DEF CustomersInv

(* A contract that has a row was decided on, so it is no new one.          *)
LEMMA RowTaken ==
    ASSUME CustomersInv, NEW a \in Agents, NEW row \in ledger[a], kind[a] # "deployer"
    PROVE  row.target \in Taken
<1>1. RowInv(a, row)
  BY DEF CustomersInv, AgentInv
<1>2. PICK i \in DOMAIN receipts[a] :
         receipts[a][i].tx.kind = "decision" /\ receipts[a][i].tx.run = row.n
  BY <1>1 DEF RowInv, Happened
<1>3. receipts[a][i].tx.target = row.target
  BY <1>1, <1>2 DEF RowInv, Sends
<1>. QED
  BY <1>3 DEF Taken

(* All broadcasts of the agents are such.                                  *)
LEMMA BroadcastKeeps ==
    ASSUME CustomersAssumption, CustomersInv, NEW a \in Agents,
           DeployTarget(a) \/ Pay(a) \/ Deposit(a) \/ Decide(a)
    PROVE  CustomersInv'
<1>1. /\ run \in [Agents -> Run] /\ run[a] \in Run /\ kind[a] \in Kinds
      /\ RunInv(a, run[a])
  BY DEF CustomersInv, TypeOK, AgentInv
<1>2. UNCHANGED <<kind, files, receipts, anchored>>
  BY DEF DeployTarget, Pay, Deposit, Decide
<1>3. ASSUME NEW what \in {"deploy", "pay", "deposit", "decision"}, NEW t \in Targets,
             NEW root \in 0 .. MaxAudits, NEW pc \in Busy, Broadcast(a, what, t, root, pc),
             run[a].pc \in Busy,
             what \notin SoFar(run[a].pc), what \in SoFar(pc), SoFar(run[a].pc) \subseteq SoFar(pc),
             what = "decision" => t = run[a].target /\ root = run[a].audit,
             what = "pay" /\ kind[a] # "deployer" => Unrecorded(a, t),
             pc = "deploying" /\ kind[a] # "deployer" =>
                 Unrecorded(a, t) /\ SoFar(run[a].pc) = {},
             NEW tx, tx = [kind |-> what, run |-> run[a].n, target |-> t, root |-> root],
             TxInv(a, tx),
             NEW st, st = [run[a] EXCEPT !.pc = pc], RunInv(a, st)
      PROVE  CustomersInv'
  <2>1. run[a].n \in 1 .. MaxRuns
    BY <1>1, <1>3 DEF RunInv
  <2>2. tx \in Tx /\ tx.kind = what /\ tx.run = run[a].n /\ tx.target = t /\ tx.root = root
    BY <1>3, <2>1 DEF Tx
  <2>3. /\ st \in Run /\ st.pc = pc /\ st.n = run[a].n /\ st.target = run[a].target
        /\ st.audit = run[a].audit
    BY <1>1, <1>3 DEF Run
  <2>4. queue' = [queue EXCEPT ![a] = Append(@, tx)] /\ run' = [run EXCEPT ![a] = st]
    BY <1>1, <1>3 DEF Broadcast, Goto
  <2>. QED
    BY <1>2, <1>3, <2>2, <2>3, <2>4, SendStep
<1>5. CASE DeployTarget(a)
  <2>1. PICK t \in Targets : t \notin Taken /\ Broadcast(a, "deploy", t, 0, "deploying")
    BY <1>5 DEF DeployTarget
  <2>2. PICK st : st = [run[a] EXCEPT !.pc = "deploying"]
    OBVIOUS
  <2>3. PICK tx : tx = [kind |-> "deploy", run |-> run[a].n, target |-> t, root |-> 0]
    OBVIOUS
  <2>4. run[a].pc = "target" /\ kind[a] # "yield" /\ cached[a] = None
    BY <1>5 DEF DeployTarget
  <2>5. /\ st.pc = "deploying" /\ st.target = run[a].target /\ st.n = run[a].n
        /\ st.paid = run[a].paid /\ st.pipelineRoot = run[a].pipelineRoot
    BY <1>1, <2>2 DEF Run
  <2>6. kind[a] # "deployer" => Unrecorded(a, t) /\ SoFar(run[a].pc) = {}
    <3>1. ASSUME kind[a] # "deployer", NEW row \in ledger[a]
          PROVE  row.target \in Taken
      BY <3>1, RowTaken
    <3>. QED
      BY <2>1, <2>4, <3>1 DEF Unrecorded, SoFar
  <2>7. RunInv(a, st)
    BY <1>1, <2>4, <2>5, <2>6 DEF RunInv, Busy, Aimed, Judged, Buying, SoFar
  <2>8. TxInv(a, tx)
    BY <1>1, <2>3 DEF TxInv, Run
  <2>. QED
    BY <1>3, <2>1, <2>2, <2>3, <2>4, <2>6, <2>7, <2>8, CustomersAssumption
       DEF Busy, SoFar, CustomersAssumption
<1>6. CASE Pay(a)
  <2>1. Broadcast(a, "pay", run[a].target, 0, "paying") /\ run[a].pc = "pay"
    BY <1>6 DEF Pay
  <2>2. PICK st : st = [run[a] EXCEPT !.pc = "paying"]
    OBVIOUS
  <2>3. PICK tx : tx = [kind |-> "pay", run |-> run[a].n, target |-> run[a].target, root |-> 0]
    OBVIOUS
  <2>4. /\ st.pc = "paying" /\ st.target = run[a].target /\ st.n = run[a].n
        /\ st.paid = run[a].paid /\ st.pipelineRoot = run[a].pipelineRoot
    BY <1>1, <2>2 DEF Run
  <2>5. RunInv(a, st)
    BY <1>1, <2>1, <2>4 DEF RunInv, Busy, Aimed, Judged, Buying, SoFar
  <2>6. TxInv(a, tx)
    BY <1>1, <2>3 DEF TxInv, Run
  <2>7. run[a].target \in Targets /\ (kind[a] # "deployer" => Unrecorded(a, run[a].target))
    BY <1>1, <2>1 DEF RunInv, Busy, Aimed, Buying
  <2>. QED
    BY <1>3, <2>1, <2>2, <2>3, <2>5, <2>6, <2>7, CustomersAssumption
       DEF Busy, SoFar, CustomersAssumption
<1>7. CASE Deposit(a)
  <2>1. Broadcast(a, "deposit", Router, run[a].audit, "depositing") /\ run[a].pc = "deposit"
    BY <1>7 DEF Deposit
  <2>2. PICK st : st = [run[a] EXCEPT !.pc = "depositing"]
    OBVIOUS
  <2>3. PICK tx : tx = [kind |-> "deposit", run |-> run[a].n, target |-> Router,
                        root |-> run[a].audit]
    OBVIOUS
  <2>4. /\ st.pc = "depositing" /\ st.target = run[a].target /\ st.n = run[a].n
        /\ st.paid = run[a].paid /\ st.pipelineRoot = run[a].pipelineRoot
        /\ st.audit = run[a].audit
    BY <1>1, <2>2 DEF Run
  <2>5. RunInv(a, st)
    BY <1>1, <2>1, <2>4 DEF RunInv, Busy, Aimed, Judged, Buying, SoFar
  <2>6. TxInv(a, tx)
    BY <1>1, <2>1, <2>3 DEF TxInv, RunInv, Run, Busy, Aimed, Judged
  <2>7. run[a].audit \in 0 .. MaxAudits
    BY <1>1 DEF Run
  <2>. QED
    BY <1>3, <2>1, <2>2, <2>3, <2>5, <2>6, <2>7, CustomersAssumption
       DEF Busy, SoFar, CustomersAssumption
<1>8. CASE Decide(a)
  <2>1. Broadcast(a, "decision", run[a].target, run[a].audit, "deciding") /\ run[a].pc = "decide"
    BY <1>8 DEF Decide
  <2>2. PICK st : st = [run[a] EXCEPT !.pc = "deciding"]
    OBVIOUS
  <2>3. PICK tx : tx = [kind |-> "decision", run |-> run[a].n, target |-> run[a].target,
                        root |-> run[a].audit]
    OBVIOUS
  <2>4. /\ st.pc = "deciding" /\ st.target = run[a].target /\ st.n = run[a].n
        /\ st.paid = run[a].paid /\ st.pipelineRoot = run[a].pipelineRoot
        /\ st.audit = run[a].audit
    BY <1>1, <2>2 DEF Run
  <2>5. RunInv(a, st)
    BY <1>1, <2>1, <2>4 DEF RunInv, Busy, Aimed, Judged, Buying, SoFar
  <2>6. TxInv(a, tx)
    BY <1>1, <2>1, <2>3 DEF TxInv, RunInv, Run, Busy, Aimed, Judged
  <2>7. run[a].audit \in 0 .. MaxAudits /\ run[a].target \in Targets
    BY <1>1, <2>1 DEF Run, RunInv, Busy, Aimed
  <2>. QED
    BY <1>3, <2>1, <2>2, <2>3, <2>5, <2>6, <2>7, CustomersAssumption
       DEF Busy, SoFar, CustomersAssumption
<1>. QED
  BY <1>5, <1>6, <1>7, <1>8

-------------------------------------------------------------------------------
(***************************************************************************)
(* The other steps of an agent.                                            *)
(***************************************************************************)

(* The new address is none that the agent has a row of.                    *)
LEMMA DeployedKeeps ==
    ASSUME CustomersAssumption, CustomersInv, NEW a \in Agents, Deployed(a)
    PROVE  CustomersInv'
<1>1. /\ run \in [Agents -> Run] /\ run[a] \in Run /\ kind[a] \in Kinds
      /\ cached \in [Agents -> Targets \cup {None}]
      /\ RunInv(a, run[a]) /\ TypeOK /\ AgentInv(a)
  BY DEF CustomersInv, TypeOK, AgentInv
<1>2. PICK i \in DOMAIN receipts[a] :
         /\ receipts[a][i].tx.kind = "deploy" /\ receipts[a][i].tx.run = run[a].n
         /\ cached' = [cached EXCEPT ![a] = receipts[a][i].tx.target]
         /\ run' = [run EXCEPT ![a].pc = "pay", ![a].target = receipts[a][i].tx.target]
  BY DEF Deployed
<1>3. PICK t : t = receipts[a][i].tx.target
  OBVIOUS
<1>4. t \in Targets
  <2>1. receipts[a][i].tx \in Tx
    BY <1>1, SendsTyped DEF Sends
  <2>. QED
    BY <1>3, <2>1 DEF Tx
<1>5. UNCHANGED <<kind, ledger, queue, receipts, anchored>> /\ run[a].pc = "deploying"
  BY DEF Deployed, chain
<1>6. PICK st : st = [run[a] EXCEPT !.pc = "pay", !.target = t]
  OBVIOUS
<1>7. /\ st \in Run /\ st.pc = "pay" /\ st.target = t /\ st.n = run[a].n
      /\ st.paid = run[a].paid /\ st.pipelineRoot = run[a].pipelineRoot
  BY <1>1, <1>4, <1>6 DEF Run, Busy
<1>8. run' = [run EXCEPT ![a] = st] /\ run'[a] = st /\ cached' = [cached EXCEPT ![a] = t]
      /\ cached'[a] = t
  BY <1>1, <1>2, <1>3, <1>6
<1>9. \A b \in Agents : Grows(b)
  BY <1>5 DEF Grows
<1>10. TypeOK'
  BY <1>1, <1>4, <1>5, <1>7, <1>8 DEF TypeOK
<1>11. Sends(a)' = Sends(a)
  BY <1>5 DEF Sends
<1>12. kind[a] # "yield" /\ (kind[a] # "deployer" => Unrecorded(a, t))
  <2>1. receipts[a][i].tx \in Sends(a)
    BY DEF Sends
  <2>. QED
    BY <1>1, <1>2, <1>3, <1>5, <2>1 DEF RunInv
<1>13. RunInv(a, st)'
  BY <1>1, <1>5, <1>7, <1>8, <1>4, <1>11, <1>12
     DEF RunInv, Unrecorded, Happened, Busy, Aimed, Judged, Buying, SoFar
<1>14. (\A tx \in Sends(a)' : TxInv(a, tx)') /\ \A row \in ledger[a] : RowInv(a, row)'
  <2>1. st.n >= run[a].n
    BY <1>7 DEF Run
  <2>. QED
    BY <1>1, <1>5, <1>7, <1>8, <1>9, <1>11, <1>12, <2>1, OldStays
<1>15. OnceInv(a)'
  BY <1>1, <1>5 DEF AgentInv, OnceInv, Alike
<1>16. AgentInv(a)'
  BY <1>5, <1>8, <1>13, <1>14, <1>15 DEF AgentInv
<1>17. \A b \in Agents : b # a => AgentInv(b)'
  BY <1>5, <1>8, <1>9, OneMoves
<1>18. LogInv' /\ IsFiniteSet(Counted)'
  <2>1. LogInv'
    BY <1>5 DEF CustomersInv, LogInv
  <2>2. Counted' = Counted
    BY <1>5 DEF Counted, Good
  <2>. QED
    BY <2>1, <2>2 DEF CustomersInv
<1>. QED
  BY <1>10, <1>16, <1>17, <1>18 DEF CustomersInv

(* A new audit is the newest of its contract, and the others keep theirs.  *)
LEMMA LogGrows ==
    ASSUME TypeOK, LogInv, Len(anchored) < MaxAudits, CustomersAssumption,
           NEW t \in Targets, NEW s \in Severities,
           anchored' = Append(anchored, [target |-> t, severity |-> s])
    PROVE  /\ anchored' \in Seq([target : Targets, severity : Severities])
           /\ LogInv'
           /\ Len(anchored) \in Nat /\ Len(anchored') = Len(anchored) + 1
           /\ Len(anchored') \in 1 .. MaxAudits
           /\ \A i \in DOMAIN anchored : i \in DOMAIN anchored' /\ anchored'[i] = anchored[i]
<1>1. PICK S : S = [target : Targets, severity : Severities]
  OBVIOUS
<1>2. PICK new : new = [target |-> t, severity |-> s]
  OBVIOUS
<1>3. new \in S /\ new.target = t /\ anchored \in Seq(S) /\ anchored' = Append(anchored, new)
  BY <1>1, <1>2 DEF TypeOK
<1>4. PICK n : n = Len(anchored)
  OBVIOUS
<1>5. /\ anchored' \in Seq(S) /\ n \in Nat /\ Len(anchored') = n + 1
      /\ DOMAIN anchored = 1 .. n /\ DOMAIN anchored' = 1 .. n + 1
      /\ anchored'[n + 1] = new
      /\ \A i \in 1 .. n : anchored'[i] = anchored[i]
  BY <1>3, <1>4
<1>6. n + 1 <= MaxAudits
  BY <1>4, <1>5, CustomersAssumption DEF CustomersAssumption
<1>7. ASSUME NEW u, \E i \in DOMAIN anchored' : anchored'[i].target = u
      PROVE  \E i \in DOMAIN anchored' :
                 /\ anchored'[i].target = u
                 /\ \A j \in DOMAIN anchored' : anchored'[j].target = u => j <= i
  <2>1. CASE u = t
    <3>1. /\ n + 1 \in DOMAIN anchored' /\ anchored'[n + 1].target = u
          /\ \A j \in DOMAIN anchored' : j <= n + 1
      BY <1>3, <1>5, <2>1
    <3>. QED
      BY <3>1
  <2>2. CASE u # t
    <3>1. \E i \in DOMAIN anchored : anchored[i].target = u
      BY <1>3, <1>5, <1>7, <2>2
    <3>2. PICK i \in DOMAIN anchored :
              /\ anchored[i].target = u
              /\ \A j \in DOMAIN anchored : anchored[j].target = u => j <= i
      BY <3>1 DEF LogInv
    <3>3. i \in DOMAIN anchored' /\ anchored'[i].target = u
      BY <1>5, <3>2
    <3>4. ASSUME NEW j \in DOMAIN anchored', anchored'[j].target = u
          PROVE  j <= i
      <4>1. j \in DOMAIN anchored /\ anchored[j].target = u
        BY <1>3, <1>5, <2>2, <3>4
      <4>. QED
        BY <3>2, <4>1
    <3>. QED
      BY <3>3, <3>4
  <2>. QED
    BY <2>1, <2>2
<1>8. LogInv'
  BY <1>5, <1>6, <1>7 DEF LogInv
<1>9. Len(anchored') \in 1 .. MaxAudits
  BY <1>5, <1>6, CustomersAssumption DEF CustomersAssumption
<1>. QED
  BY <1>1, <1>4, <1>5, <1>8, <1>9

(* What anyone has audited is a contract. *)
LEMMA TakenTyped ==
    ASSUME CustomersAssumption, TypeOK
    PROVE  Taken \subseteq Targets
<1>1. ASSUME NEW a \in Agents
      PROVE  /\ \A i \in DOMAIN queue[a] : queue[a][i].target \in Targets
             /\ \A i \in DOMAIN receipts[a] : receipts[a][i].tx.target \in Targets
  BY SendsTyped DEF Sends, Tx
<1>. QED
  BY <1>1, CustomersAssumption DEF Taken, CustomersAssumption

(* An audit of others takes nothing from an agent. *)
LEMMA OthersAnchorKeeps ==
    ASSUME CustomersAssumption, CustomersInv, NEW t \in Taken, NEW s \in Severities,
           OthersAnchor(t, s)
    PROVE  CustomersInv'
<1>1. UNCHANGED <<kind, run, cached, ledger, queue, receipts>>
  BY DEF OthersAnchor, files
<1>2. /\ anchored' \in Seq([target : Targets, severity : Severities])
      /\ LogInv'
      /\ \A i \in DOMAIN anchored : i \in DOMAIN anchored' /\ anchored'[i] = anchored[i]
  BY TakenTyped, LogGrows DEF CustomersInv, OthersAnchor
<1>3. \A b \in Agents : Grows(b)
  BY <1>1, <1>2 DEF Grows
<1>4. \A b \in Agents : AgentInv(b)'
  BY <1>1, <1>3, OthersStay DEF CustomersInv
<1>5. TypeOK'
  BY <1>1, <1>2 DEF CustomersInv, TypeOK
<1>6. IsFiniteSet(Counted)'
  BY <1>1 DEF CustomersInv, Counted, Good
<1>. QED
  BY <1>2, <1>4, <1>5, <1>6 DEF CustomersInv

(* Nor does the audit that the agent bought, which its run then knows. *)
LEMMA PipelineAnchorsKeeps ==
    ASSUME CustomersAssumption, CustomersInv, NEW a \in Agents, NEW s \in Severities,
           PipelineAnchors(a, s)
    PROVE  CustomersInv'
<1>1. /\ run \in [Agents -> Run] /\ run[a] \in Run /\ kind[a] \in Kinds
      /\ RunInv(a, run[a]) /\ TypeOK /\ AgentInv(a)
  BY DEF CustomersInv, TypeOK, AgentInv
<1>2. UNCHANGED <<kind, cached, ledger, queue, receipts>> /\ run[a].pc = "pipeline"
  BY DEF PipelineAnchors, files
<1>3. run[a].target \in Targets
  BY <1>1, <1>2 DEF RunInv, Busy, Aimed
<1>4. /\ anchored' \in Seq([target : Targets, severity : Severities])
      /\ LogInv'
      /\ Len(anchored') \in 1 .. MaxAudits
      /\ \A i \in DOMAIN anchored : i \in DOMAIN anchored' /\ anchored'[i] = anchored[i]
  BY <1>3, LogGrows DEF CustomersInv, PipelineAnchors
<1>5. PICK root : root = Len(anchored')
  OBVIOUS
<1>6. PICK st : st = [run[a] EXCEPT !.pc = "reporting", !.pipelineRoot = root]
  OBVIOUS
<1>7. root \in 1 .. MaxAudits /\ root \in 0 .. MaxAudits /\ root # 0
  BY <1>4, <1>5
<1>8. /\ st \in Run /\ st.pc = "reporting" /\ st.target = run[a].target /\ st.n = run[a].n
      /\ st.paid = run[a].paid /\ st.pipelineRoot = root
  BY <1>1, <1>6, <1>7 DEF Run, Busy
<1>9. run' = [run EXCEPT ![a] = st] /\ run'[a] = st
  BY <1>1, <1>5, <1>6 DEF PipelineAnchors
<1>10. \A b \in Agents : Grows(b)
  BY <1>2, <1>4 DEF Grows
<1>11. TypeOK'
  BY <1>1, <1>2, <1>4, <1>8, <1>9 DEF TypeOK
<1>12. Sends(a)' = Sends(a)
  BY <1>2 DEF Sends
<1>13. RunInv(a, st)'
  BY <1>1, <1>2, <1>7, <1>8, <1>12
     DEF RunInv, Unrecorded, Happened, Busy, Aimed, Judged, Buying, SoFar
<1>14. (\A tx \in Sends(a)' : TxInv(a, tx)') /\ \A row \in ledger[a] : RowInv(a, row)'
  <2>1. st.n >= run[a].n
    BY <1>8 DEF Run
  <2>. QED
    BY <1>1, <1>2, <1>8, <1>9, <1>10, <1>12, <2>1, OldStays
<1>15. OnceInv(a)'
  BY <1>1, <1>2 DEF AgentInv, OnceInv, Alike
<1>16. AgentInv(a)'
  BY <1>2, <1>9, <1>13, <1>14, <1>15 DEF AgentInv
<1>17. \A b \in Agents : b # a => AgentInv(b)'
  BY <1>2, <1>9, <1>10, OneMoves
<1>18. Counted' = Counted
  BY <1>2 DEF Counted, Good
<1>. QED
  BY <1>4, <1>11, <1>16, <1>17, <1>18 DEF CustomersInv

(* The new row is true, and no run after the one that writes it has paid.  *)
LEMMA RecordKeeps ==
    ASSUME CustomersAssumption, CustomersInv, NEW a \in Agents, Record(a)
    PROVE  CustomersInv'
<1>1. /\ run \in [Agents -> Run] /\ run[a] \in Run /\ kind[a] \in Kinds
      /\ ledger \in [Agents -> SUBSET Row]
      /\ RunInv(a, run[a]) /\ TypeOK /\ AgentInv(a)
  BY DEF CustomersInv, TypeOK, AgentInv
<1>2. UNCHANGED <<kind, cached, queue, receipts, anchored>> /\ run[a].pc = "record"
  BY DEF Record, chain
<1>3. PICK new : new = [n |-> run[a].n, target |-> run[a].target, paid |-> run[a].paid,
                        pipelineRoot |-> run[a].pipelineRoot, root |-> run[a].audit]
  OBVIOUS
<1>4. PICK st : st = [run[a] EXCEPT !.pc = "done"]
  OBVIOUS
<1>5. /\ st \in Run /\ st.pc = "done" /\ st.n = run[a].n
  BY <1>1, <1>4 DEF Run, Over
<1>6. run' = [run EXCEPT ![a] = st] /\ run'[a] = st
  BY <1>1, <1>4 DEF Record, Goto
<1>7. ledger' = [ledger EXCEPT ![a] = ledger[a] \cup {new}] /\ ledger'[a] = ledger[a] \cup {new}
  BY <1>1, <1>3 DEF Record
<1>8. /\ run[a].n \in 1 .. MaxRuns /\ run[a].target \in Targets
      /\ Grounded(run[a].audit, run[a].target) /\ Acceptable(a, run[a].audit)
      /\ run[a].pipelineRoot \in {0, run[a].audit}
      /\ run[a].paid <=> run[a].pipelineRoot # 0
  BY <1>1, <1>2 DEF RunInv, Busy, Aimed, Judged
<1>9. run[a].audit \in 1 .. MaxAudits
  <2>1. DOMAIN anchored = 1 .. Len(anchored)
    BY <1>1 DEF TypeOK
  <2>2. run[a].audit \in 0 .. MaxAudits /\ run[a].audit \in 1 .. Len(anchored)
    BY <1>1, <1>8, <2>1 DEF Run, Grounded
  <2>. QED
    BY <2>2
<1>10. /\ new \in Row /\ new.n = run[a].n /\ new.target = run[a].target /\ new.paid = run[a].paid
       /\ new.pipelineRoot = run[a].pipelineRoot /\ new.root = run[a].audit
  BY <1>1, <1>3, <1>8, <1>9 DEF Row, Run
<1>11. TypeOK'
  <2>1. ledger[a] \cup {new} \in SUBSET Row
    BY <1>1, <1>10
  <2>. QED
    BY <1>1, <1>2, <1>5, <1>6, <1>7, <2>1 DEF TypeOK
<1>12. \A b \in Agents : Grows(b)
  BY <1>2 DEF Grows
<1>13. Sends(a)' = Sends(a)
  BY <1>2 DEF Sends
<1>14. (\A tx \in Sends(a)' : TxInv(a, tx)') /\ \A row \in ledger[a] : RowInv(a, row)'
  <2>1. st.n >= run[a].n
    BY <1>5 DEF Run
  <2>. QED
    BY <1>1, <1>2, <1>5, <1>6, <1>12, <1>13, <2>1, OldStays
<1>15. RowInv(a, new)'
  <2>1. new.n <= st.n
    BY <1>5, <1>10 DEF Run
  <2>2. new.paid => Happened(a, "pay", new.n) /\ new.pipelineRoot = new.root
    BY <1>1, <1>2, <1>8, <1>10 DEF RunInv, Busy
  <2>3. ~new.paid => new.pipelineRoot = 0
    BY <1>8, <1>10
  <2>4. /\ kind[a] # "deployer" => Happened(a, "decision", new.n)
        /\ kind[a] = "yield" => Happened(a, "deposit", new.n) /\ new.target = Router
    BY <1>1, <1>2, <1>10 DEF RunInv, Aimed, Busy
  <2>5. \A tx \in Sends(a) : tx.kind = "decision" /\ tx.run = new.n =>
            tx.target = new.target /\ tx.root = new.root
    BY <1>1, <1>2, <1>10 DEF RunInv, Busy
  <2>6. \A tx \in Sends(a) : tx.run <= new.n
    BY <1>1, <1>10 DEF AgentInv, TxInv
  <2>. QED
    BY <1>2, <1>5, <1>6, <1>8, <1>10, <1>13, <2>1, <2>2, <2>3, <2>4, <2>5, <2>6
       DEF RowInv, Grounded, Acceptable, Severity, Happened
<1>16. RunInv(a, st)'
  BY <1>5 DEF RunInv, Busy, Aimed, Judged, Buying
<1>17. OnceInv(a)'
  BY <1>1, <1>2 DEF AgentInv, OnceInv, Alike
<1>18. AgentInv(a)'
  BY <1>6, <1>7, <1>14, <1>15, <1>16, <1>17 DEF AgentInv
<1>19. \A b \in Agents : b # a => AgentInv(b)'
  BY <1>2, <1>6, <1>7, <1>12, OneMoves
<1>20. LogInv' /\ Counted' = Counted
  BY <1>1, <1>2 DEF CustomersInv, LogInv, Counted, Good
<1>. QED
  BY <1>11, <1>18, <1>19, <1>20 DEF CustomersInv

(* A transaction moves from the queue to the receipts.                     *)
LEMMA MineKeeps ==
    ASSUME CustomersInv, NEW a \in Agents, Mine(a)
    PROVE  CustomersInv'
<1>1. /\ run \in [Agents -> Run] /\ run[a] \in Run /\ TypeOK /\ AgentInv(a)
      /\ queue \in [Agents -> Seq(Tx)] /\ receipts \in [Agents -> Seq([tx : Tx, ok : BOOLEAN])]
  BY DEF CustomersInv, TypeOK, AgentInv
<1>2. UNCHANGED <<kind, run, cached, ledger, anchored>>
  BY DEF Mine, files
<1>3. PICK q : q = queue[a]
  OBVIOUS
<1>4. PICK R : R = [tx : Tx, ok : BOOLEAN]
  OBVIOUS
<1>5. PICK old : old = receipts[a]
  OBVIOUS
<1>6. PICK ok \in BOOLEAN :
         receipts' = [receipts EXCEPT ![a] = Append(@, [tx |-> queue[a][1], ok |-> ok])]
  BY DEF Mine
<1>7. PICK new : new = [tx |-> q[1], ok |-> ok]
  OBVIOUS
<1>8. /\ q \in Seq(Tx) /\ q # <<>> /\ old \in Seq(R)
      /\ queue' = [queue EXCEPT ![a] = Tail(q)] /\ queue'[a] = Tail(q)
      /\ receipts' = [receipts EXCEPT ![a] = Append(old, new)]
      /\ receipts'[a] = Append(old, new)
  BY <1>1, <1>3, <1>4, <1>5, <1>6, <1>7 DEF Mine
<1>9. new \in R /\ new.tx = q[1]
  BY <1>4, <1>7, <1>8
<1>10. PICK m : m = Len(q) - 1
  OBVIOUS
<1>11. PICK k : k = Len(old)
  OBVIOUS
<1>12. /\ m \in Nat /\ DOMAIN q = 1 .. m + 1
       /\ DOMAIN queue'[a] = 1 .. m /\ \A i \in 1 .. m : queue'[a][i] = q[i + 1]
       /\ Tail(q) \in Seq(Tx)
  <2>1. Len(q) \in Nat /\ Len(q) # 0 /\ DOMAIN q = 1 .. Len(q)
    BY <1>8
  <2>2. m \in Nat /\ Len(q) = m + 1
    BY <1>10, <2>1
  <2>3. /\ Tail(q) \in Seq(Tx) /\ Len(Tail(q)) = m
        /\ \A i \in 1 .. m : Tail(q)[i] = q[i + 1]
    BY <1>8, <2>2
  <2>4. DOMAIN Tail(q) = 1 .. m
    BY <2>3
  <2>. QED
    BY <1>8, <2>1, <2>2, <2>3, <2>4
<1>13. /\ k \in Nat /\ DOMAIN old = 1 .. k /\ DOMAIN receipts'[a] = 1 .. k + 1
       /\ receipts'[a][k + 1] = new /\ \A i \in 1 .. k : receipts'[a][i] = old[i]
       /\ Append(old, new) \in Seq(R)
  BY <1>8, <1>9, <1>11
<1>14. TypeOK'
  BY <1>1, <1>2, <1>4, <1>8, <1>12, <1>13 DEF TypeOK
<1>15. \A b \in Agents : Grows(b)
  <2>1. \A b \in Agents : b # a => receipts'[b] = receipts[b]
    BY <1>1, <1>8
  <2>2. \A i \in DOMAIN receipts[a] : i \in DOMAIN receipts'[a] /\ receipts'[a][i] = receipts[a][i]
    BY <1>5, <1>13
  <2>. QED
    BY <1>2, <2>1, <2>2 DEF Grows
<1>16. Sends(a)' = Sends(a)
  <2>1. {q[i] : i \in 1 .. m + 1} = {q[1]} \cup {q[i + 1] : i \in 1 .. m}
    <3>1. \A i \in 1 .. m + 1 : i = 1 \/ (i - 1 \in 1 .. m /\ i = (i - 1) + 1)
      BY <1>12
    <3>2. \A i \in 1 .. m : i + 1 \in 1 .. m + 1
      BY <1>12
    <3>3. 1 \in 1 .. m + 1
      BY <1>12
    <3>. QED
      BY <3>1, <3>2, <3>3
  <2>2. {queue'[a][i] : i \in DOMAIN queue'[a]} = {q[i + 1] : i \in 1 .. m}
    BY <1>12
  <2>3. {receipts'[a][i].tx : i \in 1 .. k + 1} = {q[1]} \cup {old[i].tx : i \in 1 .. k}
    BY <1>9, <1>13
  <2>4. Sends(a) = {q[i] : i \in 1 .. m + 1} \cup {old[i].tx : i \in 1 .. k}
    BY <1>3, <1>5, <1>12, <1>13 DEF Sends
  <2>5. Sends(a)' = {q[i + 1] : i \in 1 .. m} \cup {receipts'[a][i].tx : i \in 1 .. k + 1}
    BY <1>12, <1>13, <2>2 DEF Sends
  <2>. QED
    BY <2>1, <2>3, <2>4, <2>5
<1>17. PICK st : st = run[a]
  OBVIOUS
<1>18. (\A tx \in Sends(a)' : TxInv(a, tx)') /\ \A row \in ledger[a] : RowInv(a, row)'
  <2>1. st.n >= run[a].n /\ st \in Run /\ run'[a] = st
    BY <1>1, <1>2, <1>17 DEF Run
  <2>. QED
    BY <1>1, <1>2, <1>15, <1>16, <1>17, <2>1, OldStays
<1>19. RunInv(a, st)'
  <2>1. RunInv(a, st)
    BY <1>1, <1>17 DEF AgentInv
  <2>2. \A what, n : Happened(a, what, n) => Happened(a, what, n)'
    BY <1>15, FactsStay
  <2>. QED
    BY <1>2, <1>16, <2>1, <2>2 DEF RunInv, Unrecorded, Grounded, Acceptable, Severity
<1>20. OnceInv(a)'
  <2>1. /\ \A i, j \in 1 .. m + 1 : Alike(q[i], q[j]) => i = j
        /\ \A i, j \in 1 .. k : Alike(old[i].tx, old[j].tx) => i = j
        /\ \A i \in 1 .. m + 1, j \in 1 .. k : ~Alike(q[i], old[j].tx)
    BY <1>1, <1>3, <1>5, <1>12, <1>13 DEF AgentInv, OnceInv
  <2>2. ASSUME NEW i \in 1 .. m, NEW j \in 1 .. m, Alike(queue'[a][i], queue'[a][j])
        PROVE  i = j
    <3>1. i + 1 \in 1 .. m + 1 /\ j + 1 \in 1 .. m + 1 /\ Alike(q[i + 1], q[j + 1])
      BY <1>12, <2>2
    <3>2. i + 1 = j + 1
      BY <2>1, <3>1
    <3>. QED
      BY <1>12, <3>2
  <2>3. ASSUME NEW i \in 1 .. k + 1, NEW j \in 1 .. k + 1,
               Alike(receipts'[a][i].tx, receipts'[a][j].tx), i # j
        PROVE  FALSE
    <3>1. 1 \in 1 .. m + 1
      BY <1>12
    <3>2. CASE i = k + 1
      <4>1. j \in 1 .. k /\ Alike(q[1], old[j].tx)
        BY <1>9, <1>13, <2>3, <3>2
      <4>. QED
        BY <2>1, <3>1, <4>1
    <3>3. CASE j = k + 1
      <4>1. i \in 1 .. k /\ Alike(q[1], old[i].tx)
        BY <1>9, <1>13, <2>3, <3>3 DEF Alike
      <4>. QED
        BY <2>1, <3>1, <4>1
    <3>4. CASE i \in 1 .. k /\ j \in 1 .. k
      BY <1>13, <2>1, <2>3, <3>4
    <3>. QED
      BY <1>13, <3>2, <3>3, <3>4
  <2>4. ASSUME NEW i \in 1 .. m, NEW j \in 1 .. k + 1, Alike(queue'[a][i], receipts'[a][j].tx)
        PROVE  FALSE
    <3>1. 1 \in 1 .. m + 1 /\ i + 1 \in 1 .. m + 1 /\ i + 1 # 1
      BY <1>12
    <3>2. CASE j = k + 1
      <4>1. Alike(q[i + 1], q[1])
        BY <1>9, <1>12, <1>13, <2>4, <3>2
      <4>. QED
        BY <2>1, <3>1, <4>1
    <3>3. CASE j \in 1 .. k
      <4>1. Alike(q[i + 1], old[j].tx)
        BY <1>12, <1>13, <2>4, <3>3
      <4>. QED
        BY <2>1, <3>1, <3>3, <4>1
    <3>. QED
      BY <1>13, <3>2, <3>3
  <2>. QED
    BY <1>12, <1>13, <2>2, <2>3, <2>4 DEF OnceInv, Alike
<1>21. AgentInv(a)'
  BY <1>2, <1>17, <1>18, <1>19, <1>20 DEF AgentInv
<1>22. \A b \in Agents : b # a => AgentInv(b)'
  BY <1>2, <1>8, <1>15, OneMoves
<1>23. LogInv'
  BY <1>2 DEF CustomersInv, LogInv
<1>24. IsFiniteSet(Counted)'
  <2>1. Counted' \subseteq Counted \cup {<<a, k + 1>>}
    <3>1. ASSUME NEW b \in Agents, NEW i \in DOMAIN receipts'[b],
                 receipts'[b][i].ok, receipts'[b][i].tx.kind = "decision",
                 <<b, i>> # <<a, k + 1>>
          PROVE  i \in DOMAIN receipts[b] /\ receipts[b][i] = receipts'[b][i]
      <4>1. CASE b = a
        BY <1>5, <1>13, <3>1, <4>1
      <4>2. CASE b # a
        BY <1>1, <1>8, <4>2
      <4>. QED
        BY <4>1, <4>2
    <3>. QED
      BY <3>1 DEF Counted, Good
  <2>2. IsFiniteSet(Counted \cup {<<a, k + 1>>})
    BY FS_AddElement DEF CustomersInv
  <2>. QED
    BY <2>1, <2>2, FS_Subset
<1>. QED
  BY <1>14, <1>21, <1>22, <1>23, <1>24 DEF CustomersInv

-------------------------------------------------------------------------------
(***************************************************************************)
(* The invariant.                                                          *)
(***************************************************************************)

(* At first nobody has done anything. *)
LEMMA CustomersInit ==
    ASSUME CustomersAssumption, Init
    PROVE  CustomersInv
<1>1. anchored = <<>> /\ \A a \in Agents : /\ queue[a] = <<>> /\ receipts[a] = <<>>
                                           /\ ledger[a] = {} /\ run[a] = Idle
  BY DEF Init
<1>2. DOMAIN <<>> = {} /\ Len(<<>>) = 0
  OBVIOUS
<1>3. Idle \in Run /\ Idle.pc = "idle"
  BY CustomersAssumption DEF Idle, Run, Over, CustomersAssumption
<1>4. TypeOK
  <2>1. <<>> \in Seq(Tx) /\ <<>> \in Seq([tx : Tx, ok : BOOLEAN])
        /\ <<>> \in Seq([target : Targets, severity : Severities])
    OBVIOUS
  <2>. QED
    BY <1>3, <2>1 DEF Init, TypeOK
<1>5. LogInv
  BY <1>1, <1>2, CustomersAssumption DEF LogInv, CustomersAssumption
<1>6. Counted = {}
  BY <1>1, <1>2 DEF Counted
<1>7. ASSUME NEW a \in Agents
      PROVE  AgentInv(a)
  <2>1. Sends(a) = {} /\ DOMAIN queue[a] = {} /\ DOMAIN receipts[a] = {}
    BY <1>1, <1>2 DEF Sends
  <2>2. RunInv(a, run[a])
    BY <1>1, <1>3 DEF RunInv, Busy, Aimed, Judged, Buying
  <2>. QED
    BY <1>1, <2>1, <2>2 DEF AgentInv, OnceInv
<1>. QED
  BY <1>4, <1>5, <1>6, <1>7, FS_EmptySet DEF CustomersInv

(* Every step, of an agent, of the chain or of others, keeps the invariant. *)
LEMMA CustomersStep ==
    ASSUME CustomersAssumption, CustomersInv, [Next]_vars
    PROVE  CustomersInv'
<1>1. ASSUME NEW a \in Agents, AgentStep(a)
      PROVE  CustomersInv'
  <2>1. CASE RunStep(a)
    BY <2>1, RunKeeps
  <2>2. CASE DeployTarget(a) \/ Pay(a) \/ Deposit(a) \/ Decide(a)
    BY <2>2, BroadcastKeeps
  <2>3. CASE Deployed(a)
    BY <2>3, DeployedKeeps
  <2>4. CASE \E s \in Severities : PipelineAnchors(a, s)
    BY <2>4, PipelineAnchorsKeeps
  <2>5. CASE Record(a)
    BY <2>5, RecordKeeps
  <2>. QED
    BY <1>1, <2>1, <2>2, <2>3, <2>4, <2>5 DEF AgentStep, RunStep
<1>2. ASSUME NEW a \in Agents, Mine(a)
      PROVE  CustomersInv'
  BY <1>2, MineKeeps
<1>3. ASSUME NEW t \in Taken, NEW s \in Severities, OthersAnchor(t, s)
      PROVE  CustomersInv'
  BY <1>3, OthersAnchorKeeps
<1>4. CASE UNCHANGED vars
  <2>1. UNCHANGED <<kind, run, cached, ledger, queue, receipts, anchored>>
    BY <1>4 DEF vars, files, chain
  <2>2. \A b \in Agents : Grows(b)
    BY <2>1 DEF Grows
  <2>3. \A b \in Agents : AgentInv(b)'
    BY <2>1, <2>2, OthersStay DEF CustomersInv
  <2>4. TypeOK' /\ LogInv'
    BY <2>1 DEF CustomersInv, TypeOK, LogInv
  <2>5. Counted' = Counted
    BY <2>1 DEF Counted, Good
  <2>. QED
    BY <2>3, <2>4, <2>5 DEF CustomersInv
<1>. QED
  BY <1>1, <1>2, <1>3, <1>4 DEF Next

(* The invariant holds in every state of every agent, whoever else acts.   *)
THEOREM CustomersInvariant == Spec => []CustomersInv
<1>1. Init => CustomersInv
  BY CustomersInit, CustomersAssumption
<1>2. CustomersInv /\ [Next]_vars => CustomersInv'
  BY CustomersStep, CustomersAssumption
<1>. QED
  BY <1>1, <1>2, PTL DEF Spec

(* Every variable has its type, whatever stops and whatever is mined late. *)
THEOREM TypeCorrect == Spec => []TypeOK
<1>1. CustomersInv => TypeOK
  BY DEF CustomersInv
<1>. QED
  BY <1>1, CustomersInvariant, PTL

-------------------------------------------------------------------------------
(***************************************************************************)
(* What follows from it.                                                   *)
(***************************************************************************)

(* Of what is mined, TxInv has the audit. *)
LEMMA InvFollowAudits ==
    ASSUME CustomersInv
    PROVE  DecisionsFollowAudits
<1>1. SUFFICES ASSUME NEW a \in Agents, NEW i \in DOMAIN receipts[a],
                      receipts[a][i].tx.kind = "decision"
               PROVE  LET tx == receipts[a][i].tx IN
                      /\ tx.root \in DOMAIN anchored
                      /\ anchored[tx.root].target = tx.target
                      /\ kind[a] = "trading" => Severity(tx.root) >= MEDIUM
                      /\ kind[a] = "yield"   => Severity(tx.root) < HIGH
  BY DEF DecisionsFollowAudits
<1>2. PICK tx : tx = receipts[a][i].tx
  OBVIOUS
<1>3. tx \in Sends(a) /\ tx.kind = "decision"
  BY <1>1, <1>2 DEF Sends
<1>4. Grounded(tx.root, tx.target) /\ Acceptable(a, tx.root)
  BY <1>3 DEF CustomersInv, AgentInv, TxInv
<1>. QED
  BY <1>2, <1>4 DEF Grounded, Acceptable

(* The audit of a deposit is one of the first tx.root audits: the last. *)
LEMMA InvDepositsApproved ==
    ASSUME CustomersInv
    PROVE  DepositsApproved
<1>1. SUFFICES ASSUME NEW a \in Agents, NEW i \in DOMAIN receipts[a]
               PROVE  LET tx == receipts[a][i].tx IN
                      /\ tx.kind = "deposit" =>
                             \E r \in 1 .. tx.root :
                                 anchored[r].target = Router /\ Severity(r) < HIGH
                      /\ tx.kind = "decision" /\ kind[a] = "yield" =>
                             Happened(a, "deposit", tx.run)
  BY DEF DepositsApproved
<1>2. PICK tx : tx = receipts[a][i].tx
  OBVIOUS
<1>3. tx \in Sends(a) /\ TxInv(a, tx)
  BY <1>2 DEF Sends, CustomersInv, AgentInv
<1>4. ASSUME tx.kind = "deposit"
      PROVE  \E r \in 1 .. tx.root : anchored[r].target = Router /\ Severity(r) < HIGH
  <2>1. DOMAIN anchored = 1 .. Len(anchored) /\ Len(anchored) \in Nat
    BY DEF CustomersInv, TypeOK
  <2>2. /\ tx.root \in 1 .. Len(anchored) /\ anchored[tx.root].target = Router
        /\ Severity(tx.root) < HIGH
    BY <1>3, <1>4, <2>1 DEF TxInv, Grounded, Acceptable
  <2>3. tx.root \in 1 .. tx.root
    BY <2>1, <2>2
  <2>. QED
    BY <2>2, <2>3
<1>5. tx.kind = "decision" /\ kind[a] = "yield" => Happened(a, "deposit", tx.run)
  BY <1>3 DEF TxInv
<1>. QED
  BY <1>2, <1>4, <1>5

(* RowInv has it all. *)
LEMMA InvLedgerTruthful ==
    ASSUME CustomersInv
    PROVE  LedgerTruthful
BY DEF CustomersInv, AgentInv, RowInv, Grounded, LedgerTruthful

(* The transaction of a kind in a run is the one that succeeded, if one    *)
(* did.                                                                    *)
LEMMA TxIsGood ==
    ASSUME CustomersInv, NEW a \in Agents, NEW what, NEW n, Happened(a, what, n),
           NEW d \in TxOf(a, what, n)
    PROVE  /\ Good(a, d) /\ receipts[a][d].tx.kind = what /\ receipts[a][d].tx.run = n
           /\ receipts[a][d].tx \in Sends(a)
<1>1. PICK i \in DOMAIN receipts[a] : /\ receipts[a][i].ok
                                      /\ receipts[a][i].tx.kind = what
                                      /\ receipts[a][i].tx.run = n
  BY DEF Happened
<1>2. /\ d \in DOMAIN receipts[a]
      /\ receipts[a][d].tx.kind = what /\ receipts[a][d].tx.run = n
  BY DEF TxOf
<1>3. d = i
  BY <1>1, <1>2 DEF CustomersInv, AgentInv, OnceInv, Alike
<1>. QED
  BY <1>1, <1>2, <1>3 DEF Good, Sends

(* The decision of a row passes its checks, but for the number of others.  *)
LEMMA DecisionPasses ==
    ASSUME CustomersInv, NEW a \in Agents, NEW row \in ledger[a], kind[a] # "deployer",
           NEW d \in TxOf(a, "decision", row.n), NEW decisions
    PROVE  /\ DecisionChecks(a, row.target, row.root, d, Action(a), decisions) <=>
                  Decisions >= decisions
           /\ Decisions \in Nat /\ Decisions >= 1
<1>1. RowInv(a, row)
  BY DEF CustomersInv, AgentInv
<1>2. /\ Good(a, d) /\ receipts[a][d].tx.kind = "decision" /\ receipts[a][d].tx.run = row.n
      /\ receipts[a][d].tx \in Sends(a)
  BY <1>1, TxIsGood DEF RowInv
<1>3. receipts[a][d].tx.target = row.target /\ receipts[a][d].tx.root = row.root
  BY <1>1, <1>2 DEF RowInv
<1>4. Decisions = Cardinality(Counted)
  BY DEF Decisions, Counted
<1>5. <<a, d>> \in Counted
  BY <1>2 DEF Counted, Good
<1>6. Decisions \in Nat /\ Decisions # 0
  <2>1. Counted # {} /\ IsFiniteSet(Counted)
    BY <1>5 DEF CustomersInv
  <2>. QED
    BY <1>4, <2>1, FS_CardinalityType, FS_EmptySet
<1>. QED
  BY <1>2, <1>3, <1>6 DEF DecisionChecks

(* A row passes the script of its demo with the transactions of its run.   *)
LEMMA InvRowsVerify ==
    ASSUME CustomersAssumption, CustomersInv
    PROVE  RowsVerify
<1>1. SUFFICES ASSUME NEW a \in Agents, NEW row \in ledger[a],
                      HeadOf(row.target) = row.root
               PROVE  CASE kind[a] = "deployer" ->
                               VerifyDemo1(row.target, row.root) <=> Severity(row.root) = HIGH
                        [] kind[a] = "trading" ->
                               \A d \in TxOf(a, "decision", row.n) :
                                   VerifyDemo2(a, row.target, row.root, d) <=>
                                       Severity(row.root) = HIGH /\ Len(anchored) >= 2
                        [] kind[a] = "yield" ->
                               \A l \in TxOf(a, "deposit", row.n),
                                  d \in TxOf(a, "decision", row.n) :
                                   VerifyDemo3(a, row.target, row.root, l, d) <=>
                                       Decisions >= 2 /\ Len(anchored) >= 3
  BY DEF RowsVerify
<1>2. RowInv(a, row) /\ kind[a] \in Kinds
  BY DEF CustomersInv, AgentInv, TypeOK
<1>3. /\ row.root \in DOMAIN anchored /\ Len(anchored) \in Nat /\ Len(anchored) >= 1
      /\ row.root # 0 /\ Severity(row.root) \in 0 .. 3
  <2>1. PICK S : S = [target : Targets, severity : Severities]
    OBVIOUS
  <2>2. anchored \in Seq(S) /\ row.root \in DOMAIN anchored
    BY <1>2, <2>1 DEF CustomersInv, TypeOK, RowInv, Grounded
  <2>3. anchored[row.root] \in S
    BY <2>2
  <2>4. Severity(row.root) \in 0 .. 3
    BY <2>1, <2>3, CustomersAssumption DEF Severity, CustomersAssumption
  <2>5. Len(anchored) \in Nat /\ row.root \in 1 .. Len(anchored)
    BY <2>2
  <2>. QED
    BY <2>2, <2>4, <2>5
<1>4. \A grades, audits : AuditChecks(row.target, row.root, grades, audits) <=>
          Severity(row.root) \in grades /\ Len(anchored) >= audits
  BY <1>1, <1>3 DEF AuditChecks
<1>5. CASE kind[a] = "deployer"
  <2>1. VerifyDemo1(row.target, row.root) <=> Severity(row.root) = HIGH
    BY <1>3, <1>4 DEF VerifyDemo1
  <2>. QED
    BY <1>5, <2>1
<1>6. CASE kind[a] = "trading"
  <2>1. ASSUME NEW d \in TxOf(a, "decision", row.n)
        PROVE  VerifyDemo2(a, row.target, row.root, d) <=>
                   Severity(row.root) = HIGH /\ Len(anchored) >= 2
    <3>1. Action(a) = "DECLINED"
      BY <1>6 DEF Action
    <3>2. DecisionChecks(a, row.target, row.root, d, "DECLINED", 1)
      BY <1>6, <3>1, DecisionPasses
    <3>. QED
      BY <1>4, <3>2 DEF VerifyDemo2
  <2>. QED
    BY <1>6, <2>1
<1>7. CASE kind[a] = "yield"
  <2>1. ASSUME NEW l \in TxOf(a, "deposit", row.n), NEW d \in TxOf(a, "decision", row.n)
        PROVE  VerifyDemo3(a, row.target, row.root, l, d) <=>
                   Decisions >= 2 /\ Len(anchored) >= 3
    <3>1. Action(a) = "APPROVED"
      BY <1>7 DEF Action
    <3>2. DecisionChecks(a, row.target, row.root, d, "APPROVED", 2) <=> Decisions >= 2
      BY <1>7, <3>1, DecisionPasses
    <3>3. Severity(row.root) \in 0 .. (HIGH - 1)
      BY <1>2, <1>3, <1>7 DEF RowInv, Acceptable, HIGH
    <3>4. DepositChecks(a, row.target, l)
      <4>1. /\ Good(a, l) /\ receipts[a][l].tx.kind = "deposit"
            /\ receipts[a][l].tx \in Sends(a)
        BY <1>2, <1>7, TxIsGood DEF RowInv
      <4>2. receipts[a][l].tx.target = Router /\ row.target = Router
        BY <1>2, <1>7, <4>1 DEF CustomersInv, AgentInv, TxInv, RowInv
      <4>. QED
        BY <4>1, <4>2 DEF DepositChecks
    <3>. QED
      BY <1>4, <3>2, <3>3, <3>4 DEF VerifyDemo3
  <2>. QED
    BY <1>7, <2>1
<1>. QED
  BY <1>2, <1>5, <1>6, <1>7 DEF Kinds

(* Decisions and deposits follow from audits, and the ledgers are true and *)
(* stand up to verification, whatever fails and whoever else has the same  *)
(* contracts audited meanwhile.                                            *)
THEOREM GroundsHold == Spec => []DecisionsGrounded
<1>1. CustomersInv => DecisionsGrounded
  BY InvFollowAudits, InvDepositsApproved, InvLedgerTruthful, InvRowsVerify,
     CustomersAssumption DEF DecisionsGrounded
<1>. QED
  BY <1>1, CustomersInvariant, PTL

(* Trading and yield agents pay for no audit of a contract after a run for *)
(* it that was recorded, whatever else they are told to buy in between.    *)
THEOREM PaymentsEnd == Spec => []PaysUntilAudited
<1>1. ASSUME CustomersInv
      PROVE  PaysUntilAudited
  <2>1. SUFFICES ASSUME NEW a \in Agents, kind[a] # "deployer", NEW row \in ledger[a],
                        NEW n \in (row.n + 1) .. MaxRuns, PaysFor(a, row.target, n)
                 PROVE  FALSE
    BY DEF PaysUntilAudited
  <2>2. PICK tx \in Sends(a) : tx.kind = "pay" /\ tx.target = row.target /\ tx.run = n
    BY <2>1 DEF PaysFor, Sends
  <2>3. n <= row.n
    BY <1>1, <2>1, <2>2 DEF CustomersInv, AgentInv, RowInv
  <2>4. row \in Row
    BY <1>1 DEF CustomersInv, TypeOK
  <2>5. row.n \in Nat /\ MaxRuns \in Nat
    BY <2>4, CustomersAssumption DEF Row, CustomersAssumption
  <2>. QED
    BY <2>3, <2>5
<1>. QED
  BY <1>1, CustomersInvariant, PTL
=============================================================================
