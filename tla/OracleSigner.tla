----------------------------- MODULE OracleSigner -----------------------------
(***************************************************************************)
(* The engine's processes that write to the registry with the oracle key,  *)
(* composed with the chain.  A client is one run of anchor_audit (from the *)
(* x402 route or a pipeline script) or of resolve_one (from the dispute    *)
(* script).  All of them sign with the same key: each reads the account's  *)
(* nonce, estimates the call, broadcasts it and waits for a receipt, and   *)
(* nothing in the engine keeps two of them apart.                          *)
(*                                                                         *)
(* The transaction pool and the miner are the chain's.  Between any two    *)
(* steps of a client another client's transaction may be mined, a dispute  *)
(* filed, a target audited again or the registry swept.                    *)
(*                                                                         *)
(* As in Registry, Faulty operators are deliberate mistakes that the       *)
(* properties are tried on.                                                *)
(***************************************************************************)
EXTENDS Registry

CONSTANTS
    Clients,   \* runs of the engine that hold the oracle key
    MaxTries   \* bound on how often a client is started again

ASSUME OracleSignerAssumption ==
    /\ MaxTries \in Nat
    /\ Verdicts = [by : Clients, judged : Roots, outcome : Outcomes]

VARIABLES
    nonce,   \* number of the oracle account's mined transactions
    pool,    \* broadcast transactions that are not mined yet
    mined,   \* mined transactions with their receipt status
    made,    \* root hashes of the reports built so far
    client   \* what each client is doing

signerVars == <<nonce, pool, mined, made, client>>
oracleVars == <<registryVars, signerVars>>

(* A run that is under way, by the step it takes next. *)
Busy  == {"load", "judge", "nonce", "estimate", "send", "wait"}
(* A run that is over: it returned a receipt, found the dispute resolved,  *)
(* or raised.                                                              *)
Ended == {"done", "already", "raised"}

AuditCall   == [kind : {"audit"}, target : Targets, tier : Tiers, rootHash : Roots]
ResolveCall == [kind : {"resolve"}, dispute : 1 .. MaxDisputes,
                outcome : Outcomes \cup {None}, verdict : Verdicts \cup {None}]
Call   == AuditCall \cup ResolveCall
NoCall == [kind |-> "none"]
Tx     == [nonce : Nat, from : Clients, try : Nat, call : Call]
Idle   == [pc |-> "idle", call |-> NoCall, judged |-> None, seen |-> 0, try |-> 0]

OInit ==
    /\ Init
    /\ nonce = 0
    /\ pool = {}
    /\ mined = {}
    /\ made = {}
    /\ client = [c \in Clients |-> Idle]

-------------------------------------------------------------------------------
(* Client steps. *)

Goto(c, pc) == client' = [client EXCEPT ![c].pc = pc]
Only(c, pc) == /\ client[c].pc = pc
               /\ UNCHANGED <<registryVars, nonce, mined>>

(* run_audit has built a report and pinned it; its root hash is new because *)
(* the report carries the time it was generated at.                         *)
StartAudit(c, t, k, r) ==
    /\ Only(c, "idle")
    /\ r \notin made
    /\ made' = made \cup {r}
    /\ client' = [client EXCEPT
           ![c].pc = "nonce",
           ![c].call = [kind |-> "audit", target |-> t, tier |-> k, rootHash |-> r]]
    /\ UNCHANGED pool

(* resolve_one reads the dispute and stops unless it is pending. *)
StartResolve(c, d) ==
    /\ Only(c, "idle")
    /\ client' = [client EXCEPT
           ![c].pc = IF d \notin DOMAIN disputes THEN "raised"
                     ELSE IF disputes[d].status # "PENDING" THEN "already"
                     ELSE "load",
           ![c].call = [kind |-> "resolve", dispute |-> d,
                        outcome |-> None, verdict |-> None]]
    /\ UNCHANGED <<pool, made>>

(* The target itself is handed on instead of its audit. *)
FaultyLoadedAudit(d) == auditTarget[disputes[d].rootHash]

(* The audit that is loaded is the head of the disputed report's target. *)
LoadedAudit(d) == latest[auditTarget[disputes[d].rootHash]].rootHash

LoadAudit(c) ==
    /\ Only(c, "load")
    /\ client' = [client EXCEPT
           ![c].pc = "judge",
           ![c].judged = LoadedAudit(client[c].call.dispute)]
    /\ UNCHANGED <<pool, made>>

(* Two outcomes share a number. *)
FaultyJudge(c) ==
    /\ Only(c, "judge")
    /\ \E o \in Outcomes :
           client' = [client EXCEPT
               ![c].pc = "nonce",
               ![c].call.outcome = IF o = "RETRACTED" THEN "AMENDED" ELSE o,
               ![c].call.verdict =
                   [by |-> c, judged |-> client[c].judged, outcome |-> o]]
    /\ UNCHANGED <<pool, made>>

(* The re-audit yields an outcome; the verdict's hash commits to it. *)
Judge(c) ==
    /\ Only(c, "judge")
    /\ \E o \in Outcomes :
           client' = [client EXCEPT
               ![c].pc = "nonce",
               ![c].call.outcome = o,
               ![c].call.verdict =
                   [by |-> c, judged |-> client[c].judged, outcome |-> o]]
    /\ UNCHANGED <<pool, made>>

(* get_transaction_count: the mined count, blind to the pool. *)
ReadNonce(c) ==
    /\ Only(c, "nonce")
    /\ client' = [client EXCEPT ![c].pc = "estimate", ![c].seen = nonce]
    /\ UNCHANGED <<pool, made>>

(* Whether the registry would accept the call in the present state. *)
Succeeds(call) ==
    IF call.kind = "audit"
    THEN ValidTier(call.tier) /\ (agent # None => auditor[agent] = "registry")
    ELSE /\ call.dispute \in DOMAIN disputes
         /\ Resolvable(call.dispute)
         /\ CanPay(disputes[call.dispute].disputer,
                   Refund(call.dispute, call.outcome))

(* build_transaction estimates the gas and raises if the call would revert. *)
Estimate(c) ==
    /\ Only(c, "estimate")
    /\ Goto(c, IF Succeeds(client[c].call) THEN "send" ELSE "raised")
    /\ UNCHANGED <<pool, made>>

Signed(c) == [nonce |-> client[c].seen, from |-> c, try |-> client[c].try,
              call |-> client[c].call]
Rivals(tx) == {x \in pool : x.nonce = tx.nonce}

(* send_raw_transaction: a nonce already mined is refused; one that is in  *)
(* the pool is refused or replaces the transaction there, as fees decide.  *)
Send(c) ==
    /\ Only(c, "send")
    /\ \/ /\ Signed(c).nonce = nonce
          /\ pool' = (pool \ Rivals(Signed(c))) \cup {Signed(c)}
          /\ Goto(c, "wait")
       \/ /\ Signed(c).nonce # nonce \/ Rivals(Signed(c)) # {}
          /\ Goto(c, "raised")
          /\ UNCHANGED pool
    /\ UNCHANGED made

(* The node accepted the transaction but the client lost the answer. *)
LoseAnswer(c) ==
    /\ Only(c, "send")
    /\ Signed(c).nonce = nonce
    /\ pool' = (pool \ Rivals(Signed(c))) \cup {Signed(c)}
    /\ Goto(c, "raised")
    /\ UNCHANGED made

(* The receipt arrived; status 0 raises. *)
Receipt(c) ==
    /\ Only(c, "wait")
    /\ \E m \in mined :
           /\ m.tx = Signed(c)
           /\ Goto(c, IF m.ok THEN "done" ELSE "raised")
    /\ UNCHANGED <<pool, made>>

(* No receipt within the timeout: raise, whatever becomes of the            *)
(* transaction.                                                             *)
Timeout(c) ==
    /\ Only(c, "wait")
    /\ \A m \in mined : m.tx # Signed(c)
    /\ Goto(c, "raised")
    /\ UNCHANGED <<pool, made>>

(* An RPC, IPFS, source or model call failed, or the verdict did not parse. *)
Fail(c) ==
    /\ client[c].pc \in {"load", "judge", "nonce", "estimate", "send"}
    /\ Goto(c, "raised")
    /\ UNCHANGED <<registryVars, nonce, mined, pool, made>>

(* A run that raised broadcasts its report again. *)
FaultyRerun(c) ==
    /\ Only(c, "raised")
    /\ client[c].try < MaxTries
    /\ client' = [client EXCEPT ![c].pc = "nonce", ![c].try = @ + 1]
    /\ UNCHANGED <<pool, made>>

(* A run that is over is followed by another: a retry of what raised, by   *)
(* hand or by the caller, or the next job.                                 *)
Rerun(c) ==
    /\ \E pc \in Ended : Only(c, pc)
    /\ client[c].try < MaxTries
    /\ client' = [client EXCEPT ![c] = [Idle EXCEPT !.try = client[c].try + 1]]
    /\ UNCHANGED <<pool, made>>

ClientStep(c) ==
    \/ LoadAudit(c)
    \/ Judge(c)
    \/ ReadNonce(c)
    \/ Estimate(c)
    \/ Send(c)
    \/ Receipt(c)
    \/ Timeout(c)

-------------------------------------------------------------------------------
(* Chain steps. *)

Execute(call) ==
    \/ /\ call.kind = "audit"
       /\ SubmitAudit(Oracle, call.target, call.tier, call.rootHash)
    \/ /\ call.kind = "resolve"
       /\ ResolveDispute(Oracle, call.dispute, call.outcome, call.verdict)

(* A refund that fails leaves the verdict in place. *)
FaultyMine(tx) ==
    LET call == tx.call IN
    /\ tx \in pool
    /\ tx.nonce = nonce
    /\ \/ Succeeds(call) /\ Execute(call)
       \/ /\ ~Succeeds(call)
          /\ call.kind = "resolve"
          /\ disputes' = [disputes EXCEPT ![call.dispute].status = call.outcome]
          /\ UNCHANGED <<auditVars, disputesByRoot, paid, agent, agentVars, fundVars>>
    /\ mined' = mined \cup {[tx |-> tx, ok |-> Succeeds(call)]}
    /\ nonce' = nonce + 1
    /\ pool' = pool \ Rivals(tx)
    /\ UNCHANGED <<made, client>>

(* The next transaction of the account is mined, and may revert. *)
Mine(tx) ==
    /\ tx \in pool
    /\ tx.nonce = nonce
    /\ \/ Succeeds(tx.call) /\ Execute(tx.call)
       \/ ~Succeeds(tx.call) /\ UNCHANGED registryVars
    /\ mined' = mined \cup {[tx |-> tx, ok |-> Succeeds(tx.call)]}
    /\ nonce' = nonce + 1
    /\ pool' = pool \ Rivals(tx)
    /\ UNCHANGED <<made, client>>

(* Transactions of other accounts. *)
OthersStep ==
    /\ \/ DisputeStep
       \/ SweepStep
       \/ AdminStep
       \/ MemoryStep
    /\ UNCHANGED signerVars

ONext ==
    \/ \E c \in Clients :
           \/ \E t \in Targets, k \in Tiers, r \in Roots : StartAudit(c, t, k, r)
           \/ \E d \in 1 .. MaxDisputes : StartResolve(c, d)
           \/ ClientStep(c)
           \/ LoseAnswer(c)
           \/ Fail(c)
           \/ Rerun(c)
    \/ \E tx \in pool : Mine(tx)
    \/ OthersStep

OSpec == OInit /\ [][ONext]_oracleVars

-------------------------------------------------------------------------------
(***************************************************************************)
(* Properties.                                                             *)
(***************************************************************************)

OTypeOK ==
    /\ nonce \in Nat
    /\ pool \subseteq Tx
    /\ mined \subseteq [tx : Tx, ok : BOOLEAN]
    /\ made \subseteq Roots
    /\ client \in [Clients -> [pc : Busy \cup Ended \cup {"idle"},
                              call : Call \cup {NoCall},
                              judged : Roots \cup {None},
                              seen : Nat, try : 0 .. MaxTries]]

Anchored(call) ==
    \E i \in DOMAIN log :
        log[i] = [target |-> call.target, rootHash |-> call.rootHash, tier |-> call.tier]

Posted(call) ==
    /\ call.dispute \in DOMAIN disputes
    /\ disputes[call.dispute].status = call.outcome
    /\ disputes[call.dispute].reAuditRootHash = call.verdict

(* What a run returns is true of the chain, and stays true whatever the    *)
(* other runs do: a transaction hash means the audit is logged or this     *)
(* very verdict stands, and already_resolved means the dispute is.         *)
ReportedIsOnChain ==
    \A c \in Clients :
        LET call == client[c].call IN
        /\ client[c].pc = "done" =>
               IF call.kind = "audit" THEN Anchored(call) ELSE Posted(call)
        /\ client[c].pc = "already" => disputes[call.dispute].status # "PENDING"

(* However often runs are repeated and transactions replaced, a report is  *)
(* anchored at most once.                                                  *)
AnchoredAtMostOnce ==
    \A i, j \in DOMAIN log : log[i].rootHash = log[j].rootHash => i = j

(* The runs' reports and the log agree in both directions: nothing that    *)
(* was reported is missing, nothing is there twice.                        *)
ReportsMatchLog == ReportedIsOnChain /\ AnchoredAtMostOnce

(* The hash stored with a resolved dispute is that of a verdict with the   *)
(* outcome stored next to it, so the verdict can be re-derived from it.    *)
VerdictCommitsToOutcome ==
    \A d \in DOMAIN disputes :
        disputes[d].status # "PENDING" =>
            disputes[d].reAuditRootHash.outcome = disputes[d].status

(* A dispute is decided by judging the report that was disputed.           *)
DisputedReportIsJudged ==
    \A d \in DOMAIN disputes :
        disputes[d].status # "PENDING" =>
            disputes[d].reAuditRootHash.judged = disputes[d].rootHash
===============================================================================
