------------------------------- MODULE Registry -------------------------------
(***************************************************************************)
(* The on-chain half of MantleProof: MantleProofRegistry, which keeps the  *)
(* latest audit of every target and the disputes filed against audits, and *)
(* the MantleProofAgent it is linked to, whose memory chains every audit.  *)
(*                                                                         *)
(* A transaction is one step.  A call that reverts changes nothing, so it  *)
(* is no step at all: every revert of the contract is a guard here.  A     *)
(* refund calls the disputer, who may refuse (revert) it; the call happens *)
(* after the contract has finished writing, so whatever the callee does is *)
(* the same as doing it in the next transaction.                           *)
(*                                                                         *)
(* Operators whose name starts with Faulty are deliberate mistakes, used   *)
(* to see that the properties at the end notice them; nothing else uses    *)
(* them.                                                                   *)
(***************************************************************************)
EXTENDS Naturals, Sequences, FiniteSets, Amounts

CONSTANTS
    Targets,      \* contract addresses that get audited
    Roots,        \* non-zero report root hashes
    Verdicts,     \* hashes of re-audit verdicts (reAuditRootHash)
    Accounts,     \* externally owned accounts and contracts that send calls
    Oracle,       \* oracleSigner, fixed at construction
    Owner,        \* owner of the registry and of the agents
    Refusers,     \* accounts whose receive function reverts
    Stakes,       \* values sent with submitDispute
    Agents,       \* deployed MantleProofAgent contracts
    None,         \* the zero address / zero hash
    MaxAudits,    \* bound on the length of the event log
    MaxMemory,    \* bound on an agent's memory chain
    MaxDisputes   \* bound on the number of disputes

ASSUME RegistryAssumption ==
    /\ Oracle \in Accounts /\ Owner \in Accounts
    /\ Refusers \subseteq Accounts
    /\ Stakes \subseteq Nat
    /\ None \notin Targets \cup Roots \cup Verdicts \cup Agents
    /\ {MaxAudits, MaxMemory, MaxDisputes} \subseteq Nat

VARIABLES
    latest,          \* _latest: the head report of every target
    auditTier,       \* auditTier: tier by root hash, 0 when never submitted
    auditTarget,     \* auditTarget: target by root hash
    auditCount,      \* auditCount: submissions per target
    disputes,        \* _disputes without the reserved entry 0
    disputesByRoot,  \* _disputesByRoot
    agent,           \* agent: the linked MantleProofAgent
    balance,         \* MNT held by the registry
    auditor,         \* MantleProofAgent.auditor, per agent
    memory,          \* the roots chained into MantleProofAgent.memoryRoot
    log,             \* the AuditSubmitted events emitted so far
    paid,            \* history: MNT sent to the disputer of each dispute
    swept            \* history: MNT taken by sweepForfeited

auditVars   == <<latest, auditTier, auditTarget, auditCount, log>>
disputeVars == <<disputes, disputesByRoot, paid>>
agentVars   == <<auditor, memory>>
fundVars    == <<balance, swept>>
registryVars == <<latest, auditTier, auditTarget, auditCount, log, disputes,
                  disputesByRoot, paid, agent, auditor, memory, balance, swept>>

Tiers    == {1, 2}
Outcomes == {"DISMISSED", "AMENDED", "RETRACTED"}
Statuses == Outcomes \cup {"PENDING"}
Auditors == {"nobody", "registry", "other"}

Report   == [rootHash : Roots, tier : Tiers, submitter : Accounts]
NoReport == [rootHash |-> None, tier |-> 0, submitter |-> None]
Event    == [target : Targets, rootHash : Roots, tier : Tiers]
Dispute  == [rootHash : Roots, disputer : Accounts, counterStake : Stakes,
             status : Statuses, reAuditRootHash : Verdicts \cup {None}]

-------------------------------------------------------------------------------

Init ==
    /\ latest = [t \in Targets |-> NoReport]
    /\ auditTier = [r \in Roots |-> 0]
    /\ auditTarget = [r \in Roots |-> None]
    /\ auditCount = [t \in Targets |-> 0]
    /\ log = <<>>
    /\ disputes = <<>>
    /\ disputesByRoot = [r \in Roots |-> <<>>]
    /\ paid = <<>>
    /\ agent = None
    /\ auditor = [a \in Agents |-> "nobody"]
    /\ memory = [a \in Agents |-> <<>>]
    /\ balance = 0
    /\ swept = 0

(* setAgent: the owner points the registry at an agent, or at none. *)
SetAgent(who, a) ==
    /\ who = Owner
    /\ agent' = a
    /\ UNCHANGED <<auditVars, disputeVars, agentVars, fundVars>>

(* setAuditor of an agent: who may advance its memory from now on. *)
SetAuditor(who, a, x) ==
    /\ who = Owner
    /\ auditor' = [auditor EXCEPT ![a] = x]
    /\ UNCHANGED <<auditVars, disputeVars, agent, memory, fundVars>>

(* updateMemoryRoot called by `caller`: the next memoryRoot hashes the     *)
(* previous one with the root, which an appended sequence stands for.      *)
AdvanceMemory(a, caller, r) ==
    /\ auditor[a] = caller
    /\ memory' = [memory EXCEPT ![a] = Append(@, r)]

(* Another auditor than the registry advances an agent directly. *)
UpdateMemoryRoot(a, r) ==
    /\ Len(memory[a]) < MaxMemory
    /\ AdvanceMemory(a, "other", r)
    /\ UNCHANGED <<auditVars, disputeVars, agent, auditor, fundVars>>

FaultyValidTier(k) == k # 0

ValidTier(k) == k \in Tiers

(* The first target of a root is kept when the root is anchored again. *)
FaultyRecordOnce(who, t, k, r) ==
    /\ latest' = [latest EXCEPT
                    ![t] = [rootHash |-> r, tier |-> k, submitter |-> who]]
    /\ auditTier' = [auditTier EXCEPT ![r] = k]
    /\ auditTarget' = [auditTarget EXCEPT ![r] = IF @ = None THEN t ELSE @]
    /\ auditCount' = [auditCount EXCEPT ![t] = @ + 1]
    /\ log' = Append(log, [target |-> t, rootHash |-> r, tier |-> k])

(* The bookkeeping of submitAudit: head, indexes by root, counter, event. *)
RecordAudit(who, t, k, r) ==
    /\ latest' = [latest EXCEPT
                    ![t] = [rootHash |-> r, tier |-> k, submitter |-> who]]
    /\ auditTier' = [auditTier EXCEPT ![r] = k]
    /\ auditTarget' = [auditTarget EXCEPT ![r] = t]
    /\ auditCount' = [auditCount EXCEPT ![t] = @ + 1]
    /\ log' = Append(log, [target |-> t, rootHash |-> r, tier |-> k])

(* NotAuditor is caught instead of reverting the audit. *)
FaultyAdvanceAgent(r) ==
    \/ /\ agent # None => auditor[agent] # "registry"
       /\ UNCHANGED memory
    \/ /\ agent # None
       /\ AdvanceMemory(agent, "registry", r)

(* Advancing the linked agent: NotAuditor reverts the whole submitAudit. *)
AdvanceAgent(r) ==
    \/ /\ agent = None
       /\ UNCHANGED memory
    \/ /\ agent # None
       /\ AdvanceMemory(agent, "registry", r)

SubmitAudit(who, t, k, r) ==
    /\ Len(log) < MaxAudits
    /\ who = Oracle
    /\ ValidTier(k)
    /\ RecordAudit(who, t, k, r)
    /\ AdvanceAgent(r)
    /\ UNCHANGED <<disputeVars, agent, auditor, fundVars>>

Disputable(r) == auditTier[r] = 2

SubmitDispute(who, r, stake) ==
    /\ Len(disputes) < MaxDisputes
    /\ Disputable(r)
    /\ disputes' = Append(disputes,
                     [rootHash |-> r, disputer |-> who, counterStake |-> stake,
                      status |-> "PENDING", reAuditRootHash |-> None])
    /\ disputesByRoot' = [disputesByRoot EXCEPT ![r] = Append(@, Len(disputes) + 1)]
    /\ paid' = Append(paid, 0)
    /\ balance' = balance + stake
    /\ UNCHANGED <<auditVars, agent, agentVars, swept>>

FaultyResolvable(d) == disputes[d].status # "DISMISSED"

Resolvable(d) == disputes[d].status = "PENDING"

(* What resolveDispute sends back to the disputer. *)
Refund(d, outcome) ==
    IF outcome \in {"AMENDED", "RETRACTED"} THEN disputes[d].counterStake ELSE 0

FaultyCanPay(to, amount) == amount <= balance

(* The refund call succeeds: the registry has the money and it is accepted. *)
CanPay(to, amount) ==
    amount # 0 => amount <= balance /\ to \notin Refusers

ResolveDispute(who, d, outcome, verdict) ==
    LET amount == Refund(d, outcome) IN
    /\ who = Oracle
    /\ d \in DOMAIN disputes
    /\ outcome # "PENDING"
    /\ Resolvable(d)
    /\ CanPay(disputes[d].disputer, amount)
    /\ disputes' = [disputes EXCEPT ![d].status = outcome,
                                    ![d].reAuditRootHash = verdict]
    /\ paid' = [paid EXCEPT ![d] = @ + amount]
    /\ balance' = balance - amount
    /\ UNCHANGED <<auditVars, disputesByRoot, agent, agentVars, swept>>

(* sweepForfeited: the owner takes everything the registry holds. *)
SweepForfeited(who, to) ==
    /\ who = Owner
    /\ balance # 0
    /\ to \notin Refusers
    /\ swept' = swept + balance
    /\ balance' = 0
    /\ UNCHANGED <<auditVars, disputeVars, agent, agentVars>>

-------------------------------------------------------------------------------

AuditStep   == \E who \in Accounts, t \in Targets, k \in 0 .. 3, r \in Roots :
                   SubmitAudit(who, t, k, r)
DisputeStep == \E who \in Accounts, r \in Roots, s \in Stakes :
                   SubmitDispute(who, r, s)
ResolveStep == \E who \in Accounts, d \in 1 .. MaxDisputes,
                  o \in Statuses, v \in Verdicts :
                   ResolveDispute(who, d, o, v)
SweepStep   == \E who, to \in Accounts : SweepForfeited(who, to)
AdminStep   == \E who \in Accounts :
                   \/ \E a \in Agents \cup {None} : SetAgent(who, a)
                   \/ \E a \in Agents, x \in Auditors : SetAuditor(who, a, x)
MemoryStep  == \E a \in Agents, r \in Roots : UpdateMemoryRoot(a, r)

Next ==
    \/ AuditStep
    \/ DisputeStep
    \/ ResolveStep
    \/ SweepStep
    \/ AdminStep
    \/ MemoryStep

Spec == Init /\ [][Next]_registryVars

-------------------------------------------------------------------------------
(***************************************************************************)
(* Properties.                                                             *)
(***************************************************************************)

(* Every state variable holds a value of its type. *)
TypeOK ==
    /\ latest \in [Targets -> Report \cup {NoReport}]
    /\ auditTier \in [Roots -> {0} \cup Tiers]
    /\ auditTarget \in [Roots -> Targets \cup {None}]
    /\ auditCount \in [Targets -> Nat]
    /\ log \in Seq(Event)
    /\ disputes \in Seq(Dispute)
    /\ disputesByRoot \in [Roots -> Seq(Nat)]
    /\ paid \in Seq(Nat)
    /\ Len(paid) = Len(disputes)
    /\ agent \in Agents \cup {None}
    /\ auditor \in [Agents -> Auditors]
    /\ memory \in [Agents -> Seq(Roots)]
    /\ balance \in Nat
    /\ swept \in Nat

(* The indexes by root and the head by target agree although they are      *)
(* written separately and overwritten by later audits: a root is known to  *)
(* auditTier iff it is known to auditTarget, its target then has a head,   *)
(* and if that head is this very root its tier is the indexed one.  The    *)
(* resolver walks dispute -> auditTarget -> getAudit and relies on it.     *)
IndexAgreesWithHead ==
    \A r \in Roots :
        IF auditTier[r] = 0
        THEN auditTarget[r] = None
        ELSE /\ auditTarget[r] \in Targets
             /\ latest[auditTarget[r]] # NoReport
             /\ latest[auditTarget[r]].rootHash = r =>
                    latest[auditTarget[r]].tier = auditTier[r]

(* The log entries of a target, as positions in the log. *)
Logged(t) == {i \in DOMAIN log : log[i].target = t}

(* Off-chain readers reconstruct a target's head and count from the event  *)
(* log: the head is the last AuditSubmitted of the target and auditCount   *)
(* the number of them.                                                     *)
LogReplaysHeads ==
    \A t \in Targets :
        /\ auditCount[t] = Cardinality(Logged(t))
        /\ latest[t] # NoReport <=> Logged(t) # {}
        /\ \A i \in Logged(t) :
               (\A j \in Logged(t) : j <= i) =>
                   /\ latest[t].rootHash = log[i].rootHash
                   /\ latest[t].tier = log[i].tier

(* Only a root that was anchored as a Tier 2 audit is ever disputed, even  *)
(* if the root is anchored again later.                                    *)
DisputesTargetTier2 ==
    \A d \in DOMAIN disputes :
        \E i \in DOMAIN log : /\ log[i].rootHash = disputes[d].rootHash
                              /\ log[i].tier = 2

(* getDisputesForRoot lists exactly the disputes of a root, in the order   *)
(* they were filed and each once.                                          *)
DisputeIndexExact ==
    \A r \in Roots :
        LET ids == disputesByRoot[r] IN
        /\ {ids[i] : i \in DOMAIN ids} =
               {d \in DOMAIN disputes : disputes[d].rootHash = r}
        /\ \A i, j \in DOMAIN ids : i < j => ids[i] < ids[j]

(* A dispute pays its disputer the counter-stake exactly once, and only if *)
(* it was AMENDED or RETRACTED.                                            *)
RefundExactlyOnce ==
    \A d \in DOMAIN disputes :
        paid[d] = IF disputes[d].status \in {"AMENDED", "RETRACTED"}
                  THEN disputes[d].counterStake ELSE 0

(* The registry's records, written map by map and overwritten by later     *)
(* audits, tell one story: heads, indexes by root, counters, events and    *)
(* the dispute lists agree with each other.                                *)
RecordsConsistent ==
    /\ IndexAgreesWithHead
    /\ LogReplaysHeads
    /\ DisputesTargetTier2
    /\ DisputeIndexExact

(* The counter-stakes of a set of disputes, in total. *)
CounterStake == [d \in DOMAIN disputes |-> disputes[d].counterStake]
StakeOf(ids) == TotalOf(CounterStake, ids)
WithStatus(s) == {d \in DOMAIN disputes : disputes[d].status = s}
Unreturned == WithStatus("PENDING") \cup WithStatus("DISMISSED")

(* No MNT is created or lost: what the registry holds and what was swept   *)
(* are together the stakes of the disputes that are pending or dismissed.  *)
StakesAccountedFor == balance + swept = StakeOf(Unreturned)

(* A refund of a refusing disputer never goes through, so such a dispute   *)
(* stays PENDING until the oracle dismisses it.                            *)
RefusedRefundStaysOpen ==
    \A d \in DOMAIN disputes :
        disputes[d].disputer \in Refusers /\ disputes[d].counterStake # 0 =>
            disputes[d].status \in {"PENDING", "DISMISSED"}

(* Counter-stakes are settled to the last unit: each refund was made once  *)
(* and only for its verdict, one that was refused leaves no trace of the   *)
(* verdict it came with, and what was not refunded is held or was swept.   *)
RefundsSettled == RefundExactlyOnce /\ RefusedRefundStaysOpen /\ StakesAccountedFor

(* sweepForfeited is documented as the sweep of forfeited counter-stakes:  *)
(* the stakes of disputes still pending would stay covered.                *)
PendingStakesCovered == balance >= StakeOf(WithStatus("PENDING"))

(* Disputes are append-only and a verdict is final: who disputed what and  *)
(* for how much never changes, nor does anything once the dispute is no    *)
(* longer PENDING.                                                         *)
VerdictIsFinal ==
    [][/\ Len(disputes') >= Len(disputes)
       /\ \A d \in DOMAIN disputes :
              /\ disputes[d].status # "PENDING" => disputes'[d] = disputes[d]
              /\ disputes'[d].rootHash = disputes[d].rootHash
              /\ disputes'[d].disputer = disputes[d].disputer
              /\ disputes'[d].counterStake = disputes[d].counterStake
      ]_registryVars

(* Every anchored audit advances the linked agent by its root, and while   *)
(* the registry is an agent's auditor nothing else advances it.            *)
MemoryFollowsLog ==
    [][/\ log' # log /\ agent # None =>
              memory'[agent] = Append(memory[agent], log'[Len(log')].rootHash)
       /\ \A a \in Agents :
              memory'[a] # memory[a] /\ auditor[a] = "registry" =>
                  a = agent /\ log' # log
      ]_registryVars
===============================================================================
