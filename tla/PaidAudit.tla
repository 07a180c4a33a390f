------------------------------- MODULE PaidAudit -------------------------------
(***************************************************************************)
(* The paid audit: clients that look for a cached audit and else pay for   *)
(* one, the engine's x402 route, and the two chains it touches (the audit  *)
(* is anchored on Mantle, the payment settles on Base).                    *)
(*                                                                         *)
(* The route's handler blocks the engine's only worker from verify to      *)
(* reply, so requests are served one after the other and reads wait; what  *)
(* runs in between are the clients, their timeouts, the chains and the     *)
(* pipeline scripts.                                                       *)
(*                                                                         *)
(* Faulty operators are deliberate mistakes that the properties are tried  *)
(* on.                                                                     *)
(***************************************************************************)
EXTENDS Naturals, Sequences, SequencesExt

CONSTANTS
    Calls,      \* runs of a client, each with an authorization of its own
    Direct,     \* those that pay without looking for a cached audit
    Targets,
    TargetOf,   \* the contract a call wants audited
    Roots,      \* root hashes of the reports the engine can build
    None

ASSUME PaidAuditAssumption ==
    /\ Direct \subseteq Calls
    /\ TargetOf \in [Calls -> Targets]
    /\ None \notin Calls \cup Roots

VARIABLES
    pc,        \* where each call stands
    auth,      \* the call's EIP-3009 authorization, as Base sees it
    queue,     \* paid requests the engine has not looked at yet
    serving,   \* the request in the handler
    head,      \* getAudit: latest root of every target
    auditOf,   \* history: the audit anchored for a call
    floating,  \* anchors whose outcome the engine did not wait for
    receipts   \* the receipt store, by root

chainVars == <<head, auditOf, floating>>
vars == <<pc, auth, queue, serving, head, auditOf, floating, receipts>>

Stages == {"check", "ask", "sign", "waiting",
           "free", "paid", "refused", "failed", "gaveup"}
AuthStates == {"unsigned", "valid", "inflight", "spent", "expired"}
Steps == {"verify", "pipeline", "settle", "record", "reply", "hung"}

NotServing == [call |-> None, step |-> "verify", report |-> None, settled |-> FALSE]

Init ==
    /\ pc = [c \in Calls |-> IF c \in Direct THEN "ask" ELSE "check"]
    /\ auth = [c \in Calls |-> "unsigned"]
    /\ queue = <<>>
    /\ serving = NotServing
    /\ head = [t \in Targets |-> None]
    /\ auditOf = [c \in Calls |-> None]
    /\ floating = {}
    /\ receipts = [r \in Roots |-> None]

WorkerFree == serving.call = None
Move(c, from, to) == /\ pc[c] = from
                     /\ pc' = [pc EXCEPT ![c] = to]

-------------------------------------------------------------------------------
(* The client. *)

ClientOnly == UNCHANGED <<auth, queue, serving, chainVars, receipts>>

(* fetchAudit: an audit that exists is returned for free. *)
Check(c) ==
    /\ WorkerFree
    /\ Move(c, "check", IF head[TargetOf[c]] # None THEN "free" ELSE "ask")
    /\ ClientOnly

(* The read timed out or failed, which is taken for "not audited". *)
CheckFails(c) == Move(c, "check", "ask") /\ ClientOnly

(* The unpaid POST is answered 402 with the payment requirements. *)
Ask(c) == WorkerFree /\ Move(c, "ask", "sign") /\ ClientOnly

(* No engine, unusable requirements, or a wallet without the money. *)
Stop(c) == /\ \E from \in {"ask", "sign"} : Move(c, from, "failed")
           /\ ClientOnly

(* Sign an authorization with a fresh nonce and POST it. *)
Pay(c) ==
    /\ Move(c, "sign", "waiting")
    /\ auth' = [auth EXCEPT ![c] = "valid"]
    /\ queue' = Append(queue, c)
    /\ UNCHANGED <<serving, chainVars, receipts>>

(* The client's timeout; the engine may see the request nevertheless. *)
GiveUp(c) ==
    /\ Move(c, "waiting", "gaveup")
    /\ \/ UNCHANGED queue
       \/ \E i \in DOMAIN queue : queue[i] = c /\ queue' = RemoveAt(queue, i)
    /\ UNCHANGED <<auth, serving, chainVars, receipts>>

-------------------------------------------------------------------------------
(* The handler. *)

At(step) == serving.call # None /\ serving.step = step

Accept ==
    /\ WorkerFree
    /\ queue # <<>>
    /\ serving' = [NotServing EXCEPT !.call = Head(queue)]
    /\ queue' = Tail(queue)
    /\ UNCHANGED <<pc, auth, chainVars, receipts>>

Answer(status) ==
    /\ pc' = [pc EXCEPT ![serving.call] = IF @ = "waiting" THEN status ELSE @]
    /\ serving' = NotServing

(* The payment is taken as soon as it is verified. *)
FaultyVerify ==
    /\ At("verify")
    /\ auth[serving.call] = "valid"
    /\ auth' = [auth EXCEPT ![serving.call] = "spent"]
    /\ serving' = [serving EXCEPT !.step = "pipeline"]
    /\ UNCHANGED <<pc, queue, chainVars, receipts>>

(* The facilitator finds the authorization valid. *)
Verify ==
    /\ At("verify")
    /\ auth[serving.call] = "valid"
    /\ serving' = [serving EXCEPT !.step = "pipeline"]
    /\ UNCHANGED <<pc, auth, queue, chainVars, receipts>>

(* 402, 502 or 503: payment malformed or invalid, facilitator down, or no  *)
(* payTo configured.                                                       *)
Refuse ==
    /\ At("verify")
    /\ Answer("refused")
    /\ UNCHANGED <<auth, queue, chainVars, receipts>>

Fresh(r) ==
    /\ r \notin {head[t] : t \in Targets} \cup {auditOf[c] : c \in Calls}
    /\ \A f \in floating : f.root # r
    /\ receipts[r] = None

Anchor(c, r) ==
    /\ head' = [head EXCEPT ![TargetOf[c]] = r]
    /\ auditOf' = [auditOf EXCEPT ![c] = r]

(* run_audit returns: report pinned, submitAudit mined. *)
Audit(r) ==
    /\ At("pipeline")
    /\ Fresh(r)
    /\ Anchor(serving.call, r)
    /\ serving' = [serving EXCEPT !.step = "settle", !.report = r]
    /\ UNCHANGED <<pc, auth, queue, floating, receipts>>

(* run_audit raises: 500, nothing settled. *)
AuditFails ==
    /\ At("pipeline")
    /\ Answer("refused")
    /\ UNCHANGED <<auth, queue, chainVars, receipts>>

(* The model's answer never comes: the default provider sets no timeout.   *)
(* The only worker waits for it, with everybody else.                      *)
ModelHangs ==
    /\ At("pipeline")
    /\ serving' = [serving EXCEPT !.step = "hung"]
    /\ UNCHANGED <<pc, auth, queue, chainVars, receipts>>

(* run_audit raises because the receipt of a broadcast submitAudit did not *)
(* come in time.                                                           *)
AuditLate(r) ==
    /\ At("pipeline")
    /\ Fresh(r)
    /\ floating' = floating \cup {[call |-> serving.call, root |-> r]}
    /\ Answer("refused")
    /\ UNCHANGED <<auth, queue, head, auditOf, receipts>>

(* The facilitator broadcast the transfer and reports its hash. *)
Settle ==
    /\ At("settle")
    /\ auth[serving.call] = "valid"
    /\ auth' = [auth EXCEPT ![serving.call] = "spent"]
    /\ serving' = [serving EXCEPT !.step = "record", !.settled = TRUE]
    /\ UNCHANGED <<pc, queue, chainVars, receipts>>

(* A settlement that fails is tried again until it does not.  *)
FaultySettleFails ==
    /\ At("settle")
    /\ UNCHANGED vars

(* It reports a failure or cannot be reached: settle_error. *)
SettleFails ==
    /\ At("settle")
    /\ serving' = [serving EXCEPT !.step = "record"]
    /\ UNCHANGED <<pc, auth, queue, chainVars, receipts>>

(* A lost answer counts as settled. *)
FaultySettleLost ==
    /\ At("settle")
    /\ auth[serving.call] = "valid"
    /\ auth' = [auth EXCEPT ![serving.call] = "inflight"]
    /\ serving' = [serving EXCEPT !.step = "record", !.settled = TRUE]
    /\ UNCHANGED <<pc, queue, chainVars, receipts>>

(* It broadcast the transfer but its answer was lost: settle_error too. *)
SettleLost ==
    /\ At("settle")
    /\ auth[serving.call] = "valid"
    /\ auth' = [auth EXCEPT ![serving.call] = "inflight"]
    /\ serving' = [serving EXCEPT !.step = "record"]
    /\ UNCHANGED <<pc, queue, chainVars, receipts>>

FaultyReceiptRow == [call |-> None, settled |-> serving.settled]

ReceiptRow == [call |-> serving.call, settled |-> serving.settled]

(* The receipt is stored by root hash, best effort. *)
Record ==
    /\ At("record")
    /\ \/ receipts' = [receipts EXCEPT ![serving.report] = ReceiptRow]
       \/ UNCHANGED receipts
    /\ serving' = [serving EXCEPT !.step = "reply"]
    /\ UNCHANGED <<pc, auth, queue, chainVars>>

(* 200, whether or not the payment settled. *)
Reply ==
    /\ At("reply")
    /\ Answer("paid")
    /\ UNCHANGED <<auth, queue, chainVars, receipts>>

HandlerStep ==
    \/ Accept
    \/ Verify
    \/ Refuse
    \/ \E r \in Roots : Audit(r) \/ AuditLate(r)
    \/ AuditFails
    \/ Settle
    \/ SettleFails
    \/ SettleLost
    \/ Record
    \/ Reply

-------------------------------------------------------------------------------
(* The chains and the pipeline scripts. *)

(* A floating submitAudit is mined after all. *)
LateAnchor(f) ==
    /\ f \in floating
    /\ Anchor(f.call, f.root)
    /\ floating' = floating \ {f}
    /\ UNCHANGED <<pc, auth, queue, serving, receipts>>

(* A pipeline script audits the target on its own account. *)
ScriptAnchor(t, r) ==
    /\ Fresh(r)
    /\ head' = [head EXCEPT ![t] = r]
    /\ UNCHANGED <<pc, auth, queue, serving, auditOf, floating, receipts>>

Land(c) ==
    /\ auth[c] = "inflight"
    /\ auth' = [auth EXCEPT ![c] = "spent"]
    /\ UNCHANGED <<pc, queue, serving, chainVars, receipts>>

(* validBefore passes. *)
Expire(c) ==
    /\ auth[c] \in {"valid", "inflight"}
    /\ auth' = [auth EXCEPT ![c] = "expired"]
    /\ UNCHANGED <<pc, queue, serving, chainVars, receipts>>

ClientStep == \E c \in Calls :
    \/ Check(c)
    \/ CheckFails(c)
    \/ Ask(c)
    \/ Stop(c)
    \/ Pay(c)
    \/ GiveUp(c)

ChainStep ==
    \/ \E f \in floating : LateAnchor(f)
    \/ \E t \in Targets, r \in Roots : ScriptAnchor(t, r)
    \/ \E c \in Calls : Land(c) \/ Expire(c)

Next == ClientStep \/ HandlerStep \/ ModelHangs \/ ChainStep

(* The handler's calls to facilitator, explorer, node and gateway have     *)
(* timeouts and raise when they run out, so a handler with something to do *)
(* goes on.  The model call has none and may never return.  Clients and    *)
(* chains owe nothing.                                                     *)
Spec == Init /\ [][Next]_vars /\ WF_vars(HandlerStep)

-------------------------------------------------------------------------------
(***************************************************************************)
(* Properties.                                                             *)
(***************************************************************************)

(* Every variable has its type. *)
TypeOK ==
    /\ pc \in [Calls -> Stages]
    /\ auth \in [Calls -> AuthStates]
    /\ queue \in Seq(Calls)
    /\ serving \in [call : Calls \cup {None}, step : Steps,
                    report : Roots \cup {None}, settled : BOOLEAN]
    /\ head \in [Targets -> Roots \cup {None}]
    /\ auditOf \in [Calls -> Roots \cup {None}]
    /\ floating \subseteq [call : Calls, root : Roots]
    /\ receipts \in [Roots -> {None} \cup [call : Calls, settled : BOOLEAN]]

(* The route implements AuditThenPay: no charge without an anchored audit, *)
(* however verification, the pipeline, settlement and the client's timeout *)
(* interleave and fail.                                                    *)
Promise == INSTANCE AuditThenPay
    WITH audit <- auditOf, charged <- [c \in Calls |-> auth[c] = "spent"]
ChargedOnlyForAudit == Promise!Spec

(* A call that got an error status is not charged then or later: "the user *)
(* is NOT charged".                                                        *)
RefusedIsNeverCharged ==
    \A c \in Calls : pc[c] = "refused" => auth[c] \notin {"inflight", "spent"}

(* A receipt is attached to the audit of the call that paid, that audit is *)
(* anchored, and a receipt that names a payment is backed by one.          *)
ReceiptsAreTruthful ==
    \A r \in Roots :
        receipts[r] # None =>
            /\ auditOf[receipts[r].call] = r
            /\ receipts[r].settled => auth[receipts[r].call] = "spent"

(* A 200 means that an audit made for this call is anchored.               *)
ReturnedMeansAnchored ==
    \A c \in Calls :
        pc[c] = "paid" => auditOf[c] # None /\ head[TargetOf[c]] # None

(* What a call was told is and stays true of both chains, whatever lands,  *)
(* expires or is anchored later: an error means no charge, a 200 means an  *)
(* anchored audit, a stored receipt names the audit it paid for.           *)
AnswersAreTrue ==
    /\ RefusedIsNeverCharged
    /\ ReturnedMeansAnchored
    /\ ReceiptsAreTruthful

(* Every paid request is answered unless its client stops waiting or the   *)
(* worker hangs in the model call of some request: nothing else, neither   *)
(* the requests before it nor a failing facilitator, holds it up for ever. *)
PaidRequestsAnswered ==
    \A c \in Calls : pc[c] = "waiting" ~> pc[c] # "waiting" \/ At("hung")

===============================================================================
