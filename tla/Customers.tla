------------------------------- MODULE Customers -------------------------------
(***************************************************************************)
(* The customer agents: programs that buy an audit, read it back from the  *)
(* registry, act on it and leave a record.  The deployer agent has its own *)
(* contract audited, the trading agent declines to swap a bad token, the   *)
(* yield agent deposits into a router that is good enough.  All three log  *)
(* to a ledger file, the last two also to the contract DecisionLog.        *)
(*                                                                         *)
(* A run may stop anywhere, by an error, a timeout or a kill, while what   *)
(* it has broadcast is still mined later, and the next run knows nothing   *)
(* but a file with the address of the target, unless it is given another.  *)
(* Meanwhile others have the same contracts audited.                       *)
(*                                                                         *)
(* A root hash is the position of its audit in `anchored`.  Operators      *)
(* whose name starts with Faulty are deliberate mistakes that the          *)
(* properties are tried on; nothing else uses them.                        *)
(***************************************************************************)
EXTENDS Naturals, Sequences, FiniteSets

CONSTANTS
    Agents,      \* accounts of customer agents
    Targets,     \* contracts, deployed or not
    Router,      \* the contract the yield agent deposits into
    None,        \* no contract
    Severities,  \* severities of reports, 0 (INFO) .. 3 (HIGH)
    MaxAudits,   \* bound on the number of audits
    MaxRuns      \* bound on an agent's runs

ASSUME CustomersAssumption ==
    /\ Router \in Targets /\ None \notin Targets
    /\ Severities \subseteq 0 .. 3
    /\ MaxAudits \in Nat /\ MaxRuns \in Nat

VARIABLES
    kind,       \* the program an agent runs
    run,        \* an agent's present run: where it is and its local variables
    cached,     \* deployments/<network>.<agent>.json: the target, if deployed
    ledger,     \* validation/demo<n>_receipts.md: the rows of an agent
    queue,      \* transactions of an agent that are not mined, in nonce order
    receipts,   \* mined transactions of an agent, in order
    anchored    \* audits in the registry, in order

files == <<cached, ledger>>
chain == <<queue, receipts, anchored>>
vars  == <<kind, run, files, chain>>

Kinds  == {"deployer", "trading", "yield"}
MEDIUM == 2
HIGH   == 3

Busy == {"target", "deploying", "look", "pay", "paying", "pipeline", "reporting",
         "read", "deposit", "depositing", "decide", "deciding", "record"}
Over == {"idle", "done", "raised"}
Tx   == [kind : {"deploy", "pay", "deposit", "decision"}, run : 1 .. MaxRuns,
         target : Targets, root : 0 .. MaxAudits]
Run  == [pc : Busy \cup Over, n : 0 .. MaxRuns, target : Targets \cup {None},
         paid : BOOLEAN, pipelineRoot : 0 .. MaxAudits, audit : 0 .. MaxAudits]
Row  == [n : 1 .. MaxRuns, target : Targets, paid : BOOLEAN,
         pipelineRoot : 0 .. MaxAudits, root : 1 .. MaxAudits]
Idle == [pc |-> "idle", n |-> 0, target |-> None, paid |-> FALSE,
         pipelineRoot |-> 0, audit |-> 0]

Init ==
    /\ kind \in [Agents -> Kinds]
    /\ run = [a \in Agents |-> Idle]
    /\ cached = [a \in Agents |-> None]
    /\ ledger = [a \in Agents |-> {}]
    /\ queue = [a \in Agents |-> <<>>]
    /\ receipts = [a \in Agents |-> <<>>]
    /\ anchored = <<>>

-------------------------------------------------------------------------------
(* What the agents share. *)

Goto(a, pc) == run' = [run EXCEPT ![a].pc = pc]

(* writeContract and deployContract: sign, broadcast, wait for the receipt. *)
Broadcast(a, what, t, root, pc) ==
    /\ queue' = [queue EXCEPT
           ![a] = Append(@, [kind |-> what, run |-> run[a].n, target |-> t, root |-> root])]
    /\ Goto(a, pc)

(* Whether the receipt of a transaction of this run is there, and good. *)
Mined(a, what, ok) ==
    \E i \in DOMAIN receipts[a] :
        /\ receipts[a][i].tx.kind = what
        /\ receipts[a][i].tx.run = run[a].n
        /\ receipts[a][i].ok \in ok

(* A reverted transaction ends the run. *)
Receipt(a, what, next) ==
    \/ Mined(a, what, {TRUE}) /\ Goto(a, next)
    \/ Mined(a, what, {FALSE}) /\ Goto(a, "raised")

(* The report getAudit returns for a target, 0 if there is none. *)
HeadOf(t) ==
    LET of == {i \in DOMAIN anchored : anchored[i].target = t}
    IN  IF of = {} THEN 0 ELSE CHOOSE i \in of : \A j \in of : j <= i

Severity(root) == anchored[root].severity

-------------------------------------------------------------------------------
(* A run, from top to bottom. *)

Start(a) ==
    /\ run[a].pc \in Over
    /\ run[a].n < MaxRuns
    /\ run' = [run EXCEPT ![a] = [Idle EXCEPT !.pc = "target", !.n = run[a].n + 1]]
    /\ UNCHANGED <<kind, files, chain>>

(* The yield agent's target is given. *)
UseRouter(a) ==
    /\ run[a].pc = "target"
    /\ kind[a] = "yield"
    /\ run' = [run EXCEPT ![a].pc = "look", ![a].target = Router]
    /\ UNCHANGED <<kind, files, chain>>

(* The file is read without looking whether it exists. *)
FaultyReuseTarget(a) ==
    /\ run[a].pc = "target"
    /\ kind[a] # "yield"
    /\ run' = [run EXCEPT ![a].pc = IF kind[a] = "trading" THEN "look" ELSE "pay",
                          ![a].target = cached[a]]
    /\ UNCHANGED <<kind, files, chain>>

(* The others take a target that is there; only the trading agent then     *)
(* looks whether it is audited.                                            *)
TakeTarget(a, t) ==
    /\ run[a].pc = "target"
    /\ kind[a] # "yield"
    /\ run' = [run EXCEPT ![a].pc = IF kind[a] = "trading" THEN "look" ELSE "pay",
                          ![a].target = t]
    /\ UNCHANGED <<kind, files, chain>>

(* The target of an earlier run. *)
ReuseTarget(a) == cached[a] # None /\ TakeTarget(a, cached[a])

Taken == {Router} \cup
         (UNION {{queue[a][i].target : i \in DOMAIN queue[a]} : a \in Agents}) \cup
         (UNION {{receipts[a][i].tx.target : i \in DOMAIN receipts[a]} : a \in Agents})

(* --token or --vault: any contract, whatever the file says, which stays   *)
(* as it is.                                                               *)
GivenTarget(a, t) == TakeTarget(a, t) /\ t \in Taken

(* Without one, they deploy it, to a new address. *)
DeployTarget(a) ==
    /\ run[a].pc = "target"
    /\ kind[a] # "yield"
    /\ cached[a] = None
    /\ \E t \in Targets \ Taken : Broadcast(a, "deploy", t, 0, "deploying")
    /\ UNCHANGED <<kind, files, receipts, anchored>>

(* The receipt has the address, whatever its status; it is cached.  The     *)
(* verification of the source that follows may fail.                       *)
Deployed(a) ==
    /\ run[a].pc = "deploying"
    /\ \E i \in DOMAIN receipts[a] :
           LET tx == receipts[a][i].tx IN
           /\ tx.kind = "deploy" /\ tx.run = run[a].n
           /\ cached' = [cached EXCEPT ![a] = tx.target]
           /\ run' = [run EXCEPT ![a].pc = "pay", ![a].target = tx.target]
    /\ UNCHANGED <<kind, ledger, chain>>

(* The result of isAudited is logged but not used. *)
FaultyLookUp(a) ==
    /\ run[a].pc = "look"
    /\ Goto(a, "pay")
    /\ UNCHANGED <<kind, files, chain>>

(* isAudited: an audited target is not bought again. *)
LookUp(a) ==
    /\ run[a].pc = "look"
    /\ Goto(a, IF HeadOf(run[a].target) # 0 THEN "read" ELSE "pay")
    /\ UNCHANGED <<kind, files, chain>>

(* payForAudit, at the price that was just read. *)
Pay(a) ==
    /\ run[a].pc = "pay"
    /\ Broadcast(a, "pay", run[a].target, 0, "paying")
    /\ UNCHANGED <<kind, files, receipts, anchored>>

Paid(a) ==
    /\ run[a].pc = "paying"
    /\ \/ /\ Mined(a, "pay", {TRUE})
          /\ run' = [run EXCEPT ![a].pc = "pipeline", ![a].paid = TRUE]
       \/ /\ Mined(a, "pay", {FALSE})
          /\ Goto(a, "raised")
    /\ UNCHANGED <<kind, files, chain>>

(* The engine, run as a subprocess, anchors its report ... *)
PipelineAnchors(a, s) ==
    /\ run[a].pc = "pipeline"
    /\ Len(anchored) < MaxAudits
    /\ anchored' = Append(anchored, [target |-> run[a].target, severity |-> s])
    /\ run' = [run EXCEPT ![a].pc = "reporting", ![a].pipelineRoot = Len(anchored')]
    /\ UNCHANGED <<kind, files, queue, receipts>>

(* ... and prints its root hash and that of the transaction. *)
PipelineEnds(a) ==
    /\ run[a].pc = "reporting"
    /\ Goto(a, "read")
    /\ UNCHANGED <<kind, files, chain>>

(* What the agent makes of a severity: the trading agent has come for a    *)
(* bad token, the yield agent for a router that is not bad.                *)
Acceptable(a, root) ==
    /\ kind[a] = "trading" => Severity(root) >= MEDIUM
    /\ kind[a] = "yield"   => Severity(root) < HIGH

AfterRead(a) ==
    CASE kind[a] = "deployer" -> "record"
      [] kind[a] = "trading"  -> "decide"
      [] kind[a] = "yield"    -> "deposit"

(* The severity is read from the registry, the root hash taken from the    *)
(* engine's output, and the two are not compared.                          *)
FaultyReadAudit(a) ==
    LET head == HeadOf(run[a].target) IN
    /\ run[a].pc = "read"
    /\ run' = [run EXCEPT
           ![a].audit = IF run[a].pipelineRoot # 0 THEN run[a].pipelineRoot ELSE head,
           ![a].pc = IF head # 0 /\ Acceptable(a, head) THEN AfterRead(a) ELSE "raised"]
    /\ UNCHANGED <<kind, files, chain>>

(* getAudit reverts if there is no audit; one that is not the engine's own *)
(* ends the run, and so does a severity the agent did not come for.        *)
ReadAudit(a) ==
    LET head == HeadOf(run[a].target)
        own  == run[a].pipelineRoot \in {0, head}
    IN
    /\ run[a].pc = "read"
    /\ run' = [run EXCEPT
           ![a].audit = head,
           ![a].pc = IF head # 0 /\ own /\ Acceptable(a, head) THEN AfterRead(a) ELSE "raised"]
    /\ UNCHANGED <<kind, files, chain>>

(* addLiquidityNATIVE, after a simulation that did not revert. *)
Deposit(a) ==
    /\ run[a].pc = "deposit"
    /\ Broadcast(a, "deposit", Router, run[a].audit, "depositing")
    /\ UNCHANGED <<kind, files, receipts, anchored>>

Deposited(a) ==
    /\ run[a].pc = "depositing"
    /\ Receipt(a, "deposit", "decide")
    /\ UNCHANGED <<kind, files, chain>>

(* logDecision: DECLINED by the trading agent, APPROVED by the yield agent. *)
Decide(a) ==
    /\ run[a].pc = "decide"
    /\ Broadcast(a, "decision", run[a].target, run[a].audit, "deciding")
    /\ UNCHANGED <<kind, files, receipts, anchored>>

Decided(a) ==
    /\ run[a].pc = "deciding"
    /\ Receipt(a, "decision", "record")
    /\ UNCHANGED <<kind, files, chain>>

(* A row is appended to the ledger at the very end. *)
Record(a) ==
    /\ run[a].pc = "record"
    /\ ledger' = [ledger EXCEPT ![a] = @ \cup
           {[n |-> run[a].n, target |-> run[a].target, paid |-> run[a].paid,
             pipelineRoot |-> run[a].pipelineRoot, root |-> run[a].audit]}]
    /\ Goto(a, "done")
    /\ UNCHANGED <<kind, cached, chain>>

(* Too little MNT, a failed call, a receipt that is late, an engine that   *)
(* exits with an error or a kill.  The deployer agent's return with exit   *)
(* code 3 is the same.                                                     *)
Fail(a) ==
    /\ run[a].pc \in Busy
    /\ Goto(a, "raised")
    /\ UNCHANGED <<kind, files, chain>>

-------------------------------------------------------------------------------
(* The chain. *)

(* The next transaction of an account is mined, and may revert: the price  *)
(* was raised, the pair has moved, or gas ran out.                         *)
Mine(a) ==
    /\ queue[a] # <<>>
    /\ \E ok \in BOOLEAN :
           receipts' = [receipts EXCEPT ![a] = Append(@, [tx |-> queue[a][1], ok |-> ok])]
    /\ queue' = [queue EXCEPT ![a] = Tail(@)]
    /\ UNCHANGED <<kind, run, files, anchored>>

(* Someone else's audit, or one that a failed engine run left in the pool. *)
OthersAnchor(t, s) ==
    /\ Len(anchored) < MaxAudits
    /\ anchored' = Append(anchored, [target |-> t, severity |-> s])
    /\ UNCHANGED <<kind, run, files, queue, receipts>>

-------------------------------------------------------------------------------
(* verify_demo<n>_receipt.py: anyone may check what an agent claims, with  *)
(* the hashes of its ledger row and nothing but the chain and the report.  *)
(* The oracle signs every audit, and its report hashes to its root.        *)

(* Checks the three have in common.  Of the transaction that is said to    *)
(* have anchored the report only status and sender are looked at.          *)
AuditChecks(t, root, grades, audits) ==
    /\ root # 0
    /\ HeadOf(t) = root
    /\ Severity(root) \in grades
    /\ Len(anchored) >= audits

Good(a, tx) == tx \in DOMAIN receipts[a] /\ receipts[a][tx].ok

(* DecisionLog.count *)
Decisions ==
    LET of(a) == {tx \in DOMAIN receipts[a] : Good(a, tx) /\ receipts[a][tx].tx.kind = "decision"}
    IN  Cardinality(UNION {{a} \X of(a) : a \in Agents})

Action(a) == IF kind[a] = "trading" THEN "DECLINED" ELSE "APPROVED"

(* The receipt has the event Decision(agent, target, root, action, reason). *)
DecisionChecks(a, t, root, tx, action, decisions) ==
    /\ Good(a, tx)
    /\ receipts[a][tx].tx.kind = "decision"
    /\ receipts[a][tx].tx.target = t
    /\ receipts[a][tx].tx.root = root
    /\ Action(a) = action
    /\ Decisions >= decisions

(* The agent called the router; of all it sends, only deposits go there.   *)
DepositChecks(a, t, tx) ==
    /\ Good(a, tx)
    /\ receipts[a][tx].tx.kind = "deposit"
    /\ receipts[a][tx].tx.target = t

VerifyDemo1(t, root) == AuditChecks(t, root, {HIGH}, 1)

VerifyDemo2(a, t, root, decision) ==
    /\ AuditChecks(t, root, {HIGH}, 2)
    /\ DecisionChecks(a, t, root, decision, "DECLINED", 1)

VerifyDemo3(a, t, root, deposit, decision) ==
    /\ AuditChecks(t, root, 0 .. (HIGH - 1), 3)
    /\ DecisionChecks(a, t, root, decision, "APPROVED", 2)
    /\ DepositChecks(a, t, deposit)

-------------------------------------------------------------------------------

AgentStep(a) ==
    \/ Start(a)
    \/ UseRouter(a)
    \/ ReuseTarget(a)
    \/ \E t \in Targets : GivenTarget(a, t)
    \/ DeployTarget(a)
    \/ Deployed(a)
    \/ LookUp(a)
    \/ Pay(a)
    \/ Paid(a)
    \/ \E s \in Severities : PipelineAnchors(a, s)
    \/ PipelineEnds(a)
    \/ ReadAudit(a)
    \/ Deposit(a)
    \/ Deposited(a)
    \/ Decide(a)
    \/ Decided(a)
    \/ Record(a)
    \/ Fail(a)

Next ==
    \/ \E a \in Agents : AgentStep(a) \/ Mine(a)
    \/ \E t \in Taken, s \in Severities : OthersAnchor(t, s)

Spec == Init /\ [][Next]_vars

-------------------------------------------------------------------------------
(***************************************************************************)
(* Properties.                                                             *)
(***************************************************************************)

(* Every state variable holds a value of its type. *)
TypeOK ==
    /\ kind \in [Agents -> Kinds]
    /\ run \in [Agents -> Run]
    /\ cached \in [Agents -> Targets \cup {None}]
    /\ ledger \in [Agents -> SUBSET Row]
    /\ queue \in [Agents -> Seq(Tx)]
    /\ receipts \in [Agents -> Seq([tx : Tx, ok : BOOLEAN])]
    /\ anchored \in Seq([target : Targets, severity : Severities])

(* What DecisionLog says of an agent can be checked against the registry:  *)
(* the audit it refers to is one of that contract, and its severity is one *)
(* that the decision follows from, whoever else had the contract audited   *)
(* before, during or after the run.                                        *)
DecisionsFollowAudits ==
    \A a \in Agents : \A i \in DOMAIN receipts[a] :
        LET tx == receipts[a][i].tx IN
        tx.kind = "decision" =>
            /\ tx.root \in DOMAIN anchored
            /\ anchored[tx.root].target = tx.target
            /\ kind[a] = "trading" => Severity(tx.root) >= MEDIUM
            /\ kind[a] = "yield"   => Severity(tx.root) < HIGH

Happened(a, what, n) ==
    \E i \in DOMAIN receipts[a] :
        /\ receipts[a][i].ok
        /\ receipts[a][i].tx.kind = what
        /\ receipts[a][i].tx.run = n

(* MNT goes into the router only after an audit of it that is below HIGH,  *)
(* and each approval that is logged has a deposit of the same run.         *)
DepositsApproved ==
    \A a \in Agents : \A i \in DOMAIN receipts[a] :
        LET tx == receipts[a][i].tx IN
        /\ tx.kind = "deposit" =>
               \E r \in 1 .. tx.root : anchored[r].target = Router /\ Severity(r) < HIGH
        /\ tx.kind = "decision" /\ kind[a] = "yield" => Happened(a, "deposit", tx.run)

(* A row of the ledger is true: its payment, deposit and decision are      *)
(* transactions of that very run that succeeded, and the audit it names is *)
(* the one that run paid for, or an older one if it did not pay.           *)
LedgerTruthful ==
    \A a \in Agents : \A row \in ledger[a] :
        /\ row.paid => Happened(a, "pay", row.n) /\ row.pipelineRoot = row.root
        /\ ~row.paid => row.pipelineRoot = 0
        /\ anchored[row.root].target = row.target
        /\ kind[a] # "deployer" => Happened(a, "decision", row.n)
        /\ kind[a] = "yield" => Happened(a, "deposit", row.n)

TxOf(a, what, n) ==
    {i \in DOMAIN receipts[a] : receipts[a][i].tx.kind = what /\ receipts[a][i].tx.run = n}

(* A row of the ledger stands up to verification, by the script of its     *)
(* demo and with the transactions of its run, until its contract is        *)
(* audited again.  It is refused for nothing but the grade that the demo   *)
(* is to show (a trading agent also declines MEDIUM) and, early on, for    *)
(* the number of audits and decisions that the demos before it have left.  *)
RowsVerify ==
    \A a \in Agents : \A row \in ledger[a] :
        HeadOf(row.target) = row.root =>
            CASE kind[a] = "deployer" ->
                     VerifyDemo1(row.target, row.root) <=> Severity(row.root) = HIGH
              [] kind[a] = "trading" ->
                     \A d \in TxOf(a, "decision", row.n) :
                         VerifyDemo2(a, row.target, row.root, d) <=>
                             Severity(row.root) = HIGH /\ Len(anchored) >= 2
              [] kind[a] = "yield" ->
                     \A l \in TxOf(a, "deposit", row.n), d \in TxOf(a, "decision", row.n) :
                         VerifyDemo3(a, row.target, row.root, l, d) <=>
                             Decisions >= 2 /\ Len(anchored) >= 3

(* What the agents log on the chain and write in their ledgers has its     *)
(* audit and its deeds, and can be verified by others.                     *)
DecisionsGrounded ==
    DecisionsFollowAudits /\ DepositsApproved /\ LedgerTruthful /\ RowsVerify

PaysFor(a, t, n) ==
    \/ \E i \in DOMAIN queue[a] :
           queue[a][i].kind = "pay" /\ queue[a][i].target = t /\ queue[a][i].run = n
    \/ \E i \in DOMAIN receipts[a] :
           LET tx == receipts[a][i].tx IN tx.kind = "pay" /\ tx.target = t /\ tx.run = n

(* The trading and the yield agent buy a contract's audit no more once a   *)
(* run for it came to its end, even if runs before it failed at any point  *)
(* and runs in between were for other contracts.                           *)
PaysUntilAudited ==
    \A a \in Agents : kind[a] # "deployer" =>
        \A row \in ledger[a] : \A n \in (row.n + 1) .. MaxRuns : ~PaysFor(a, row.target, n)
===============================================================================
