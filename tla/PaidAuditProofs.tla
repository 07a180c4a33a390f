--------------------------- MODULE PaidAuditProofs ---------------------------
(***************************************************************************)
(* Theorems about PaidAudit, for any number of calls, targets and reports: *)
(* what a call was told is true of both chains, and the route implements   *)
(* AuditThenPay.                                                           *)
(***************************************************************************)
EXTENDS PaidAudit, SequenceTheorems, TLAPS

(***************************************************************************)
(* The inductive invariant.  A paid call is in one place at a time: in the *)
(* queue, in the handler, afloat, or over.                                 *)
(***************************************************************************)

Queued(c) == \E i \in DOMAIN queue : queue[i] = c
Afloat(c) == \E f \in floating : f.call = c

(* The authorization has not been used for a transfer, and may have run out. *)
Unused(c) == auth[c] \in {"valid", "expired"}
Pending(c) == pc[c] \in {"waiting", "gaveup"}

CallInv(c) ==
    /\ pc[c] \in {"check", "ask", "sign", "free", "failed"} =>
           /\ auth[c] = "unsigned" /\ auditOf[c] = None
           /\ ~Queued(c) /\ serving.call # c /\ ~Afloat(c)
    /\ Queued(c) =>
           /\ Pending(c) /\ Unused(c) /\ auditOf[c] = None
           /\ serving.call # c /\ ~Afloat(c)
    /\ serving.call = c => Pending(c) /\ ~Afloat(c)
    /\ Afloat(c) =>
           pc[c] \in {"refused", "gaveup"} /\ Unused(c) /\ auditOf[c] = None
    /\ pc[c] = "refused" => Unused(c)
    /\ auth[c] \in {"inflight", "spent"} => auditOf[c] # None
    /\ auditOf[c] # None => head[TargetOf[c]] # None
    /\ pc[c] = "paid" => auditOf[c] # None

(* What the handler knows at each of its steps. *)
ServingInv ==
    LET c == serving.call IN
    c # None =>
        /\ auth[c] # "unsigned"
        /\ serving.step \in {"verify", "pipeline"} => Unused(c) /\ auditOf[c] = None
        /\ serving.step \in {"verify", "pipeline", "settle"} =>
               Unused(c) /\ ~serving.settled
        /\ serving.step \in {"settle", "record", "reply"} =>
               auditOf[c] = serving.report /\ serving.report \in Roots
        /\ serving.settled => auth[c] = "spent"

(* A call waits in the queue once. *)
QueuedOnce == \A i, j \in DOMAIN queue : queue[i] = queue[j] => i = j

(* A report is anchored, or afloat, for one call. *)
RootsUnique ==
    /\ \A c, d \in Calls : auditOf[c] = auditOf[d] /\ auditOf[c] # None => c = d
    /\ \A f \in floating, c \in Calls : auditOf[c] # f.root
    /\ \A f, g \in floating : f.root = g.root \/ f.call = g.call => f = g

RouteInv ==
    /\ TypeOK
    /\ \A c \in Calls : CallInv(c)
    /\ ServingInv
    /\ QueuedOnce
    /\ RootsUnique
    /\ ReceiptsAreTruthful

-------------------------------------------------------------------------------
(***************************************************************************)
(* The queue.                                                              *)
(***************************************************************************)

(* A paid request joins the queue once.                                    *)
LEMMA Joins ==
    ASSUME TypeOK, QueuedOnce, NEW c \in Calls, ~Queued(c), queue' = Append(queue, c)
    PROVE  /\ queue' \in Seq(Calls) /\ QueuedOnce'
           /\ \A d \in Calls : Queued(d)' <=> Queued(d) \/ d = c
<1>1. queue \in Seq(Calls) /\ DOMAIN queue = 1 .. Len(queue) /\ Len(queue) \in Nat
  BY DEF TypeOK
<1>2. /\ queue' \in Seq(Calls) /\ Len(queue') = Len(queue) + 1
      /\ queue'[Len(queue) + 1] = c
      /\ \A i \in 1 .. Len(queue) : queue'[i] = queue[i]
  BY <1>1, AppendProperties
<1>3. DOMAIN queue' = DOMAIN queue \cup {Len(queue) + 1}
  BY <1>1, <1>2
<1>. QED
  BY <1>1, <1>2, <1>3 DEF Queued, QueuedOnce

(* The handler takes the oldest request, which is then not in the queue.   *)
LEMMA Leaves ==
    ASSUME TypeOK, QueuedOnce, queue # <<>>, queue' = Tail(queue)
    PROVE  /\ queue' \in Seq(Calls) /\ QueuedOnce'
           /\ Head(queue) \in Calls /\ Queued(Head(queue))
           /\ \A d \in Calls : Queued(d)' => Queued(d) /\ d # Head(queue)
<1>1. queue \in Seq(Calls) /\ DOMAIN queue = 1 .. Len(queue) /\ Len(queue) \in Nat
  BY DEF TypeOK
<1>2. /\ Head(queue) \in Calls /\ queue' \in Seq(Calls) /\ Len(queue') = Len(queue) - 1
      /\ \A i \in 1 .. Len(queue') : queue'[i] = queue[i + 1]
      /\ Head(queue) = queue[1] /\ Len(queue) >= 1
  BY <1>1, HeadTailProperties
<1>3. DOMAIN queue' = 1 .. Len(queue')
  BY <1>2
<1>4. \A i \in DOMAIN queue' : i + 1 \in DOMAIN queue /\ queue'[i] = queue[i + 1]
  BY <1>1, <1>2, <1>3
<1>5. ~(\E i \in DOMAIN queue' : queue'[i] = queue[1])
  BY <1>1, <1>2, <1>3, <1>4 DEF QueuedOnce
<1>6. QueuedOnce'
  BY <1>1, <1>3, <1>4 DEF QueuedOnce
<1>7. \A d \in Calls : Queued(d)' => Queued(d)
  BY <1>4 DEF Queued
<1>8. Queued(queue[1])
  BY <1>1, <1>2 DEF Queued
<1>. QED
  BY <1>2, <1>5, <1>6, <1>7, <1>8 DEF Queued

(* A request that is withdrawn takes no other with it.                     *)
LEMMA Withdrawn ==
    ASSUME TypeOK, QueuedOnce, NEW k \in DOMAIN queue, queue' = RemoveAt(queue, k)
    PROVE  /\ queue' \in Seq(Calls) /\ QueuedOnce'
           /\ \A d \in Calls : Queued(d)' => Queued(d)
<1>. DEFINE before == SubSeq(queue, 1, k - 1)
            after  == SubSeq(queue, k + 1, Len(queue))
<1>1. /\ queue \in Seq(Calls) /\ DOMAIN queue = 1 .. Len(queue) /\ Len(queue) \in Nat
      /\ k \in 1 .. Len(queue)
  BY DEF TypeOK
<1>2. /\ before \in Seq(Calls) /\ Len(before) = k - 1
      /\ \A i \in 1 .. k - 1 : before[i] = queue[i]
  <2>1. 1 \in Int /\ k - 1 \in Int /\ \A i \in 1 .. k - 1 : queue[i] \in Calls
    BY <1>1
  <2>2. /\ before \in Seq(Calls)
        /\ Len(before) = IF 1 <= k - 1 THEN k - 1 - 1 + 1 ELSE 0
        /\ \A i \in 1 .. k - 1 - 1 + 1 : before[i] = queue[1 + i - 1]
    BY <2>1, SubSeqProperties
  <2>. QED
    BY <1>1, <2>2
<1>3. /\ after \in Seq(Calls) /\ Len(after) = Len(queue) - k
      /\ \A i \in 1 .. Len(queue) - k : after[i] = queue[k + i]
  <2>1. /\ k + 1 \in Int /\ Len(queue) \in Int
        /\ \A i \in k + 1 .. Len(queue) : queue[i] \in Calls
    BY <1>1
  <2>2. /\ after \in Seq(Calls)
        /\ Len(after) = IF k + 1 <= Len(queue) THEN Len(queue) - (k + 1) + 1 ELSE 0
        /\ \A i \in 1 .. Len(queue) - (k + 1) + 1 : after[i] = queue[k + 1 + i - 1]
    BY <2>1, SubSeqProperties
  <2>. QED
    BY <1>1, <2>2
<1>4. queue' = before \o after
  BY DEF RemoveAt
<1>. HIDE DEF before, after
<1>5. /\ queue' \in Seq(Calls) /\ Len(queue') = Len(before) + Len(after)
      /\ \A i \in 1 .. Len(before) + Len(after) :
             queue'[i] = IF i <= Len(before) THEN before[i] ELSE after[i - Len(before)]
  BY <1>2, <1>3, <1>4, ConcatProperties
<1>6. /\ DOMAIN queue' = 1 .. Len(queue) - 1
      /\ \A i \in 1 .. Len(queue) - 1 :
             queue'[i] = IF i < k THEN queue[i] ELSE queue[i + 1]
  <2>1. Len(queue') = Len(queue) - 1 /\ DOMAIN queue' = 1 .. Len(queue')
    BY <1>1, <1>2, <1>3, <1>5
  <2>2. ASSUME NEW i \in 1 .. Len(queue) - 1
        PROVE  queue'[i] = IF i < k THEN queue[i] ELSE queue[i + 1]
    <3>1. CASE i < k
      BY <1>1, <1>2, <1>3, <1>5, <3>1
    <3>2. CASE i >= k
      <4>1. queue'[i] = after[i - (k - 1)]
        BY <1>1, <1>2, <1>3, <1>5, <3>2
      <4>2. i - (k - 1) \in 1 .. Len(queue) - k /\ k + (i - (k - 1)) = i + 1
        BY <1>1, <3>2
      <4>3. after[i - (k - 1)] = queue[k + (i - (k - 1))]
        BY <1>3, <4>2
      <4>. QED
        BY <1>1, <3>2, <4>1, <4>2, <4>3
    <3>. QED
      BY <1>1, <3>1, <3>2
  <2>. QED
    BY <2>1, <2>2
<1>7. \A d \in Calls : Queued(d)' => Queued(d)
  <2>. SUFFICES ASSUME NEW d \in Calls, NEW i \in 1 .. Len(queue) - 1, queue'[i] = d
                PROVE  \E j \in 1 .. Len(queue) : queue[j] = d
    BY <1>1, <1>6 DEF Queued
  <2>1. i \in 1 .. Len(queue) /\ i + 1 \in 1 .. Len(queue)
    BY <1>1
  <2>. QED
    BY <1>6, <2>1
<1>8. QueuedOnce'
  <2>. SUFFICES ASSUME NEW i \in 1 .. Len(queue) - 1, NEW j \in 1 .. Len(queue) - 1,
                       queue'[i] = queue'[j]
                PROVE  i = j
    BY <1>6 DEF QueuedOnce
  <2>1. /\ i \in 1 .. Len(queue) /\ i + 1 \in 1 .. Len(queue)
        /\ j \in 1 .. Len(queue) /\ j + 1 \in 1 .. Len(queue)
    BY <1>1
  <2>2. \A x, y \in 1 .. Len(queue) : queue[x] = queue[y] => x = y
    BY <1>1 DEF QueuedOnce
  <2>. QED
    BY <1>1, <1>6, <2>1, <2>2
<1>. QED
  BY <1>5, <1>7, <1>8

-------------------------------------------------------------------------------
(***************************************************************************)
(* Steps of the clients.                                                   *)
(***************************************************************************)

(* Before it pays a call is known to nobody else.                          *)
LEMMA MovesKeep ==
    ASSUME RouteInv, NEW c \in Calls,
           NEW from \in {"check", "ask", "sign"}, NEW to \in {"free", "ask", "sign", "failed"},
           Move(c, from, to), ClientOnly
    PROVE  RouteInv'
<1>1. /\ pc[c] = from /\ pc' = [pc EXCEPT ![c] = to] /\ pc \in [Calls -> Stages]
      /\ auth' = auth /\ queue' = queue /\ serving' = serving /\ head' = head
      /\ auditOf' = auditOf /\ floating' = floating /\ receipts' = receipts
  BY DEF Move, ClientOnly, chainVars, RouteInv, TypeOK
<1>2. TypeOK'
  BY <1>1 DEF RouteInv, TypeOK, Stages
<1>3. ASSUME NEW d \in Calls
      PROVE  CallInv(d)'
  <2>1. CallInv(d) /\ CallInv(c)
    BY DEF RouteInv
  <2>2. /\ Queued(d)' = Queued(d) /\ Afloat(d)' = Afloat(d) /\ Unused(d)' = Unused(d)
    BY <1>1 DEF Queued, Afloat, Unused
  <2>3. CASE d = c
    BY <1>1, <2>1, <2>2, <2>3 DEF CallInv, Pending
  <2>4. CASE d # c
    BY <1>1, <2>1, <2>2, <2>4 DEF CallInv, Pending
  <2>. QED
    BY <2>3, <2>4
<1>4. ServingInv' /\ QueuedOnce' /\ RootsUnique' /\ ReceiptsAreTruthful'
  BY <1>1 DEF RouteInv, ServingInv, Unused, QueuedOnce, RootsUnique, ReceiptsAreTruthful
<1>. QED
  BY <1>2, <1>3, <1>4 DEF RouteInv

(* Paying puts the call into the queue with a fresh authorization.         *)
LEMMA PayKeeps ==
    ASSUME RouteInv, NEW c \in Calls, Pay(c)
    PROVE  RouteInv'
<1>1. /\ pc[c] = "sign" /\ pc' = [pc EXCEPT ![c] = "waiting"] /\ pc \in [Calls -> Stages]
      /\ auth' = [auth EXCEPT ![c] = "valid"] /\ auth \in [Calls -> AuthStates]
      /\ queue' = Append(queue, c) /\ serving' = serving /\ head' = head
      /\ auditOf' = auditOf /\ floating' = floating /\ receipts' = receipts
  BY DEF Pay, Move, chainVars, RouteInv, TypeOK
<1>2. /\ CallInv(c) /\ ~Queued(c) /\ serving.call # c /\ ~Afloat(c)
      /\ auth[c] = "unsigned" /\ auditOf[c] = None
  BY <1>1 DEF RouteInv, CallInv
<1>3. /\ queue' \in Seq(Calls) /\ QueuedOnce'
      /\ \A d \in Calls : Queued(d)' <=> Queued(d) \/ d = c
  BY <1>1, <1>2, Joins DEF RouteInv
<1>4. TypeOK'
  BY <1>1, <1>3 DEF RouteInv, TypeOK, Stages, AuthStates
<1>5. ASSUME NEW d \in Calls
      PROVE  CallInv(d)'
  <2>1. CallInv(d) /\ Afloat(d)' = Afloat(d)
    BY <1>1 DEF RouteInv, Afloat
  <2>2. CASE d = c
    BY <1>1, <1>2, <1>3, <2>1, <2>2 DEF CallInv, Pending, Unused
  <2>3. CASE d # c
    BY <1>1, <1>3, <2>1, <2>3 DEF CallInv, Pending, Unused
  <2>. QED
    BY <2>2, <2>3
<1>6. ServingInv'
  <2>1. CASE serving.call = None
    BY <1>1, <2>1 DEF ServingInv
  <2>2. CASE serving.call # None
    BY <1>1, <1>2, <2>2 DEF RouteInv, ServingInv, Unused, TypeOK
  <2>. QED
    BY <2>1, <2>2
<1>7. RootsUnique'
  BY <1>1 DEF RouteInv, RootsUnique
<1>8. ReceiptsAreTruthful'
  <2>. SUFFICES ASSUME NEW r \in Roots, receipts[r] # None
                PROVE  /\ auditOf[receipts[r].call] = r
                       /\ receipts[r].settled => auth'[receipts[r].call] = "spent"
    BY <1>1 DEF ReceiptsAreTruthful
  <2>1. /\ auditOf[receipts[r].call] = r
        /\ receipts[r].settled => auth[receipts[r].call] = "spent"
        /\ receipts[r].call \in Calls
    BY DEF RouteInv, ReceiptsAreTruthful, TypeOK
  <2>. QED
    BY <1>1, <1>2, <2>1
<1>. QED
  BY <1>3, <1>4, <1>5, <1>6, <1>7, <1>8 DEF RouteInv

(* A client that gives up leaves everything to the engine.                 *)
LEMMA GiveUpKeeps ==
    ASSUME RouteInv, NEW c \in Calls, GiveUp(c)
    PROVE  RouteInv'
<1>1. /\ pc[c] = "waiting" /\ pc' = [pc EXCEPT ![c] = "gaveup"] /\ pc \in [Calls -> Stages]
      /\ auth' = auth /\ serving' = serving /\ head' = head
      /\ auditOf' = auditOf /\ floating' = floating /\ receipts' = receipts
  BY DEF GiveUp, Move, chainVars, RouteInv, TypeOK
<1>2. /\ queue' \in Seq(Calls) /\ QueuedOnce'
      /\ \A d \in Calls : Queued(d)' => Queued(d)
  <2>1. CASE UNCHANGED queue
    BY <2>1 DEF RouteInv, TypeOK, QueuedOnce, Queued
  <2>2. CASE \E i \in DOMAIN queue : queue' = RemoveAt(queue, i)
    BY <2>2, Withdrawn DEF RouteInv
  <2>. QED
    BY <2>1, <2>2 DEF GiveUp
<1>3. TypeOK'
  BY <1>1, <1>2 DEF RouteInv, TypeOK, Stages
<1>4. ASSUME NEW d \in Calls
      PROVE  CallInv(d)'
  <2>1. CallInv(d) /\ Afloat(d)' = Afloat(d) /\ Unused(d)' = Unused(d)
    BY <1>1 DEF RouteInv, Afloat, Unused
  <2>2. CASE d = c
    BY <1>1, <1>2, <2>1, <2>2 DEF CallInv, Pending
  <2>3. CASE d # c
    BY <1>1, <1>2, <2>1, <2>3 DEF CallInv, Pending
  <2>. QED
    BY <2>2, <2>3
<1>5. ServingInv' /\ RootsUnique' /\ ReceiptsAreTruthful'
  BY <1>1 DEF RouteInv, ServingInv, Unused, RootsUnique, ReceiptsAreTruthful
<1>. QED
  BY <1>2, <1>3, <1>4, <1>5 DEF RouteInv

-------------------------------------------------------------------------------
(***************************************************************************)
(* Steps of the handler.                                                   *)
(***************************************************************************)

(* The handler takes a request that was waiting, unserved and unpaid.      *)
LEMMA AcceptKeeps ==
    ASSUME RouteInv, PaidAuditAssumption, Accept
    PROVE  RouteInv'
<1>1. /\ serving.call = None /\ queue # <<>> /\ queue' = Tail(queue)
      /\ serving' = [NotServing EXCEPT !.call = Head(queue)]
      /\ pc' = pc /\ auth' = auth /\ head' = head
      /\ auditOf' = auditOf /\ floating' = floating /\ receipts' = receipts
  BY DEF Accept, WorkerFree, chainVars
<1>2. PICK c \in Calls :
          /\ c = Head(queue) /\ Queued(c)
          /\ queue' \in Seq(Calls) /\ QueuedOnce'
          /\ \A d \in Calls : Queued(d)' => Queued(d) /\ d # c
  BY <1>1, Leaves DEF RouteInv
<1>3. CallInv(c)
  BY <1>2 DEF RouteInv
<1>4. /\ Pending(c) /\ Unused(c) /\ auditOf[c] = None /\ ~Afloat(c)
  BY <1>2, <1>3 DEF CallInv
<1>5. serving' = [call |-> c, step |-> "verify", report |-> None, settled |-> FALSE]
  BY <1>1, <1>2 DEF NotServing
<1>6. TypeOK'
  <2>1. serving' \in [call : Calls \cup {None}, step : Steps,
                     report : Roots \cup {None}, settled : BOOLEAN]
    BY <1>5 DEF Steps
  <2>. QED
    BY <1>1, <1>2, <2>1 DEF RouteInv, TypeOK
<1>7. ASSUME NEW d \in Calls
      PROVE  CallInv(d)'
  <2>1. CallInv(d) /\ Afloat(d)' = Afloat(d) /\ Unused(d)' = Unused(d)
        /\ Pending(d)' = Pending(d) /\ serving'.call = c
    BY <1>1, <1>5 DEF RouteInv, Afloat, Unused, Pending
  <2>2. CASE d = c
    <3>1. /\ Pending(c)' /\ Unused(c)' /\ ~Afloat(c)' /\ ~Queued(c)'
          /\ auditOf'[c] = None
      BY <1>1, <1>2, <1>4, <2>1, <2>2
    <3>2. pc'[c] \in {"waiting", "gaveup"} /\ auth'[c] \in {"valid", "expired"}
      BY <3>1 DEF Pending, Unused
    <3>. QED
      BY <2>2, <3>1, <3>2 DEF CallInv
  <2>3. CASE d # c
    BY <1>1, <1>2, <2>1, <2>3 DEF CallInv
  <2>. QED
    BY <2>2, <2>3
<1>8. ServingInv'
  BY <1>1, <1>4, <1>5 DEF ServingInv, Unused
<1>9. RootsUnique' /\ ReceiptsAreTruthful'
  BY <1>1 DEF RouteInv, RootsUnique, ReceiptsAreTruthful
<1>. QED
  BY <1>2, <1>6, <1>7, <1>8, <1>9 DEF RouteInv

(* A request that is answered leaves the handler; an error is an answer    *)
(* only while the authorization is unused.                                 *)
LEMMA AnswersKeep ==
    ASSUME RouteInv, PaidAuditAssumption, Refuse \/ AuditFails \/ Reply
    PROVE  RouteInv'
<1>. DEFINE c == serving.call
<1>1. PICK status \in {"refused", "paid"} :
          /\ pc' = [pc EXCEPT ![c] = IF pc[c] = "waiting" THEN status ELSE pc[c]]
          /\ status = "refused" => serving.step \in {"verify", "pipeline"}
          /\ status = "paid" => serving.step = "reply"
  BY DEF Refuse, AuditFails, Reply, Answer, At
<1>2. /\ c # None /\ serving' = NotServing /\ queue' = queue
      /\ auth' = auth /\ head' = head
      /\ auditOf' = auditOf /\ floating' = floating /\ receipts' = receipts
  BY DEF Refuse, AuditFails, Reply, Answer, At, chainVars
<1>3. /\ pc \in [Calls -> Stages] /\ c \in Calls /\ CallInv(c) /\ ServingInv
      /\ serving'.call = None /\ None \notin Calls /\ None \notin Roots
  BY <1>2 DEF RouteInv, TypeOK, NotServing, PaidAuditAssumption
<1>. HIDE DEF c
<1>4. Pending(c) /\ ~Afloat(c) /\ ~Queued(c)
  BY <1>3 DEF CallInv, c
<1>5. /\ status = "refused" => Unused(c)
      /\ status = "paid" => auditOf[c] # None
  BY <1>1, <1>2, <1>3 DEF ServingInv, c
<1>6. TypeOK'
  BY <1>1, <1>2, <1>3 DEF RouteInv, TypeOK, Stages, NotServing, Steps
<1>7. ASSUME NEW d \in Calls
      PROVE  CallInv(d)'
  <2>1. CallInv(d) /\ Afloat(d)' = Afloat(d) /\ Unused(d)' = Unused(d)
        /\ Queued(d)' = Queued(d)
    BY <1>2 DEF RouteInv, Afloat, Unused, Queued
  <2>2. CASE d = c
    BY <1>1, <1>2, <1>3, <1>4, <1>5, <2>1, <2>2 DEF CallInv, Pending
  <2>3. CASE d # c
    BY <1>1, <1>2, <1>3, <2>1, <2>3 DEF CallInv, Pending
  <2>. QED
    BY <2>2, <2>3
<1>8. ServingInv' /\ QueuedOnce' /\ RootsUnique' /\ ReceiptsAreTruthful'
  BY <1>2, <1>3 DEF RouteInv, ServingInv, QueuedOnce, RootsUnique, ReceiptsAreTruthful
<1>. QED
  BY <1>6, <1>7, <1>8 DEF RouteInv

(* A worker that hangs keeps its request, unaudited and unpaid.            *)
LEMMA HangsKeep ==
    ASSUME RouteInv, ModelHangs
    PROVE  RouteInv'
<1>1. /\ serving.call # None /\ serving' = [serving EXCEPT !.step = "hung"]
      /\ pc' = pc /\ auth' = auth /\ queue' = queue /\ head' = head
      /\ auditOf' = auditOf /\ floating' = floating /\ receipts' = receipts
  BY DEF ModelHangs, At, chainVars
<1>2. serving \in [call : Calls \cup {None}, step : Steps,
                  report : Roots \cup {None}, settled : BOOLEAN]
  BY DEF RouteInv, TypeOK
<1>3. /\ serving'.call = serving.call /\ serving'.step = "hung"
      /\ serving'.settled = serving.settled
      /\ serving' \in [call : Calls \cup {None}, step : Steps,
                       report : Roots \cup {None}, settled : BOOLEAN]
  BY <1>1, <1>2 DEF Steps
<1>4. TypeOK'
  BY <1>1, <1>3 DEF RouteInv, TypeOK
<1>5. ASSUME NEW d \in Calls
      PROVE  CallInv(d)'
  BY <1>1, <1>3 DEF RouteInv, CallInv, Pending, Unused, Queued, Afloat
<1>6. ServingInv'
  BY <1>1, <1>3 DEF RouteInv, ServingInv, Unused
<1>7. QueuedOnce' /\ RootsUnique' /\ ReceiptsAreTruthful'
  BY <1>1 DEF RouteInv, QueuedOnce, RootsUnique, ReceiptsAreTruthful
<1>. QED
  BY <1>4, <1>5, <1>6, <1>7 DEF RouteInv

(* A fresh report is neither anchored nor afloat for any call.             *)
LEMMA FreshIsNew ==
    ASSUME TypeOK, NEW r \in Roots, Fresh(r)
    PROVE  /\ \A c \in Calls : auditOf[c] # r
           /\ \A f \in floating : f.root # r
BY DEF Fresh

(* Anchoring for a call that has no audit, with a report that is no other  *)
(* call's, by the handler or afterwards.                                   *)
LEMMA AnchorEffect ==
    ASSUME RouteInv, PaidAuditAssumption, NEW c \in Calls, NEW r \in Roots,
           Anchor(c, r), auditOf[c] = None, \A d \in Calls : auditOf[d] # r
    PROVE  /\ auditOf' \in [Calls -> Roots \cup {None}] /\ head' \in [Targets -> Roots \cup {None}]
           /\ auditOf'[c] = r /\ r # None
           /\ \A d \in Calls : d # c => auditOf'[d] = auditOf[d]
           /\ \A d \in Calls : auditOf'[d] # None => head'[TargetOf[d]] # None
           /\ \A d, e \in Calls : auditOf'[d] = auditOf'[e] /\ auditOf'[d] # None => d = e
<1>1. /\ auditOf \in [Calls -> Roots \cup {None}] /\ head \in [Targets -> Roots \cup {None}]
      /\ auditOf' = [auditOf EXCEPT ![c] = r]
      /\ head' = [head EXCEPT ![TargetOf[c]] = r]
      /\ TargetOf \in [Calls -> Targets] /\ r # None
  BY DEF RouteInv, TypeOK, Anchor, PaidAuditAssumption
<1>2. \A d \in Calls : auditOf[d] # None => head[TargetOf[d]] # None
  BY DEF RouteInv, CallInv
<1>3. \A d, e \in Calls : auditOf[d] = auditOf[e] /\ auditOf[d] # None => d = e
  BY DEF RouteInv, RootsUnique
<1>. QED
  BY <1>1, <1>2, <1>3

(* Receipts of other calls are untouched when a call gets its audit.       *)
LEMMA ReceiptsSurvive ==
    ASSUME RouteInv, PaidAuditAssumption, NEW c \in Calls, auditOf[c] = None,
           \A d \in Calls : d # c => auditOf'[d] = auditOf[d],
           UNCHANGED <<auth, receipts>>
    PROVE  ReceiptsAreTruthful'
<1>. SUFFICES ASSUME NEW r \in Roots, receipts[r] # None
              PROVE  /\ auditOf'[receipts[r].call] = r
                     /\ receipts[r].settled => auth[receipts[r].call] = "spent"
  BY DEF ReceiptsAreTruthful
<1>1. /\ auditOf[receipts[r].call] = r /\ receipts[r].call \in Calls
      /\ receipts[r].settled => auth[receipts[r].call] = "spent"
  BY DEF RouteInv, ReceiptsAreTruthful, TypeOK
<1>2. r # None
  BY DEF PaidAuditAssumption
<1>. QED
  BY <1>1, <1>2

(* The pipeline anchors a new report for the call that is being served.    *)
LEMMA AuditKeeps ==
    ASSUME RouteInv, PaidAuditAssumption, NEW r \in Roots, Audit(r)
    PROVE  RouteInv'
<1>1. /\ serving.call # None /\ serving.step = "pipeline" /\ Fresh(r)
      /\ Anchor(serving.call, r)
      /\ serving' = [serving EXCEPT !.step = "settle", !.report = r]
      /\ pc' = pc /\ auth' = auth /\ queue' = queue
      /\ floating' = floating /\ receipts' = receipts
  BY DEF Audit, At
<1>2. PICK c \in Calls : c = serving.call
  BY <1>1 DEF RouteInv, TypeOK
<1>3. /\ Unused(c) /\ auditOf[c] = None /\ ~serving.settled /\ CallInv(c) /\ ~Afloat(c)
      /\ \A d \in Calls : auditOf[d] # r
      /\ \A f \in floating : f.root # r
  BY <1>1, <1>2, FreshIsNew DEF RouteInv, ServingInv, CallInv
<1>4. /\ auditOf' \in [Calls -> Roots \cup {None}] /\ head' \in [Targets -> Roots \cup {None}]
      /\ auditOf'[c] = r /\ r # None
      /\ \A d \in Calls : d # c => auditOf'[d] = auditOf[d]
      /\ \A d \in Calls : auditOf'[d] # None => head'[TargetOf[d]] # None
      /\ \A d, e \in Calls : auditOf'[d] = auditOf'[e] /\ auditOf'[d] # None => d = e
  BY <1>1, <1>2, <1>3, AnchorEffect
<1>5. /\ serving' \in [call : Calls \cup {None}, step : Steps,
                       report : Roots \cup {None}, settled : BOOLEAN]
      /\ serving'.call = c /\ serving'.step = "settle" /\ serving'.report = r
      /\ ~serving'.settled
  BY <1>1, <1>2, <1>3 DEF RouteInv, TypeOK, Steps
<1>6. TypeOK'
  BY <1>1, <1>4, <1>5 DEF RouteInv, TypeOK
<1>7. ASSUME NEW d \in Calls
      PROVE  CallInv(d)'
  <2>1. CallInv(d) /\ Afloat(d)' = Afloat(d) /\ Unused(d)' = Unused(d)
        /\ Queued(d)' = Queued(d) /\ Pending(d)' = Pending(d)
    BY <1>1 DEF RouteInv, Afloat, Unused, Queued, Pending
  <2>2. CASE d = c
    BY <1>1, <1>2, <1>3, <1>4, <1>5, <2>1, <2>2 DEF CallInv, Pending
  <2>3. CASE d # c
    BY <1>1, <1>2, <1>4, <1>5, <2>1, <2>3 DEF CallInv
  <2>. QED
    BY <2>2, <2>3
<1>8. ServingInv'
  BY <1>1, <1>3, <1>4, <1>5 DEF ServingInv, Unused
<1>9. RootsUnique'
  BY <1>1, <1>3, <1>4 DEF RouteInv, RootsUnique
<1>10. QueuedOnce' /\ ReceiptsAreTruthful'
  BY <1>1, <1>3, <1>4, ReceiptsSurvive DEF RouteInv, QueuedOnce
<1>. QED
  BY <1>6, <1>7, <1>8, <1>9, <1>10 DEF RouteInv

(* A submitAudit whose receipt did not come in time stays afloat, and the  *)
(* call is refused.                                                        *)
LEMMA AuditLateKeeps ==
    ASSUME RouteInv, PaidAuditAssumption, NEW r \in Roots, AuditLate(r)
    PROVE  RouteInv'
<1>1. /\ serving.call # None /\ serving.step = "pipeline" /\ Fresh(r)
      /\ floating' = floating \cup {[call |-> serving.call, root |-> r]}
      /\ pc' = [pc EXCEPT ![serving.call] =
                    IF pc[serving.call] = "waiting" THEN "refused" ELSE pc[serving.call]]
      /\ serving' = NotServing
      /\ auth' = auth /\ queue' = queue /\ head' = head
      /\ auditOf' = auditOf /\ receipts' = receipts
  BY DEF AuditLate, At, Answer
<1>2. PICK c \in Calls : c = serving.call
  BY <1>1 DEF RouteInv, TypeOK
<1>3. /\ Unused(c) /\ auditOf[c] = None /\ Pending(c) /\ CallInv(c)
      /\ ~Afloat(c) /\ ~Queued(c)
      /\ \A d \in Calls : auditOf[d] # r
      /\ \A f \in floating : f.root # r
      /\ serving'.call = None /\ None \notin Calls
  BY <1>1, <1>2, FreshIsNew
     DEF RouteInv, ServingInv, CallInv, NotServing, PaidAuditAssumption
<1>4. PICK g \in [call : Calls, root : Roots] : g.call = c /\ g.root = r
                                               /\ floating' = floating \cup {g}
  BY <1>1, <1>2
<1>5. TypeOK'
  BY <1>1, <1>2, <1>4 DEF RouteInv, TypeOK, Stages, NotServing, Steps
<1>6. ASSUME NEW d \in Calls
      PROVE  CallInv(d)'
  <2>1. CallInv(d) /\ Unused(d)' = Unused(d) /\ Queued(d)' = Queued(d)
        /\ (Afloat(d)' <=> Afloat(d) \/ d = c)
    BY <1>1, <1>4 DEF RouteInv, Afloat, Unused, Queued
  <2>2. pc \in [Calls -> Stages]
    BY DEF RouteInv, TypeOK
  <2>3. CASE d = c
    <3>1. pc'[c] \in {"refused", "gaveup"}
      BY <1>1, <1>2, <1>3, <2>2 DEF Pending
    <3>. QED
      BY <1>1, <1>3, <2>1, <2>3, <3>1 DEF CallInv, Unused
  <2>4. CASE d # c
    BY <1>1, <1>2, <1>3, <2>1, <2>2, <2>4 DEF CallInv, Pending
  <2>. QED
    BY <2>3, <2>4
<1>7. RootsUnique'
  <2>1. /\ \A f \in floating : f.call # c /\ f.root # g.root
        /\ \A d \in Calls : auditOf[d] # g.root
    BY <1>3, <1>4 DEF Afloat
  <2>. QED
    BY <1>1, <1>4, <2>1 DEF RouteInv, RootsUnique
<1>8. ServingInv' /\ QueuedOnce' /\ ReceiptsAreTruthful'
  BY <1>1, <1>3 DEF RouteInv, ServingInv, QueuedOnce, ReceiptsAreTruthful
<1>. QED
  BY <1>5, <1>6, <1>7, <1>8 DEF RouteInv

(* The handler goes on with an unchanged report and payment.               *)
LEMMA GoesOn ==
    ASSUME RouteInv, PaidAuditAssumption, Verify \/ SettleFails
    PROVE  RouteInv'
<1>1. PICK step \in {"pipeline", "record"} :
          /\ serving.call # None /\ serving' = [serving EXCEPT !.step = step]
          /\ step = "pipeline" => serving.step = "verify"
          /\ step = "record" => serving.step = "settle"
          /\ pc' = pc /\ auth' = auth /\ queue' = queue /\ head' = head
          /\ auditOf' = auditOf /\ floating' = floating /\ receipts' = receipts
  BY DEF Verify, SettleFails, At, chainVars
<1>2. /\ serving' \in [call : Calls \cup {None}, step : Steps,
                       report : Roots \cup {None}, settled : BOOLEAN]
      /\ serving'.call = serving.call /\ serving'.step = step
      /\ serving'.report = serving.report /\ serving'.settled = serving.settled
  BY <1>1 DEF RouteInv, TypeOK, Steps
<1>3. TypeOK'
  BY <1>1, <1>2 DEF RouteInv, TypeOK
<1>4. ASSUME NEW d \in Calls
      PROVE  CallInv(d)'
  BY <1>1, <1>2 DEF RouteInv, CallInv, Pending, Unused, Queued, Afloat
<1>5. ServingInv'
  BY <1>1, <1>2 DEF RouteInv, ServingInv, Unused
<1>6. RootsUnique' /\ QueuedOnce' /\ ReceiptsAreTruthful'
  BY <1>1 DEF RouteInv, RootsUnique, QueuedOnce, ReceiptsAreTruthful
<1>. QED
  BY <1>3, <1>4, <1>5, <1>6 DEF RouteInv

(* An authorization only ever moves towards spent or expired, and spent is *)
(* the end of it, so receipts that name a payment stay backed.             *)
LEMMA ReceiptsBacked ==
    ASSUME RouteInv, \A d \in Calls : auth[d] = "spent" => auth'[d] = "spent",
           UNCHANGED <<auditOf, receipts>>
    PROVE  ReceiptsAreTruthful'
<1>. SUFFICES ASSUME NEW r \in Roots, receipts[r] # None
              PROVE  /\ auditOf[receipts[r].call] = r
                     /\ receipts[r].settled => auth'[receipts[r].call] = "spent"
  BY DEF ReceiptsAreTruthful
<1>1. /\ auditOf[receipts[r].call] = r /\ receipts[r].call \in Calls
      /\ receipts[r].settled => auth[receipts[r].call] = "spent"
  BY DEF RouteInv, ReceiptsAreTruthful, TypeOK
<1>. QED
  BY <1>1

(* A transfer is broadcast only for a call whose audit is anchored.        *)
LEMMA SettlesKeep ==
    ASSUME RouteInv, PaidAuditAssumption, Settle \/ SettleLost
    PROVE  RouteInv'
<1>1. PICK c \in Calls : c = serving.call
  BY DEF RouteInv, TypeOK, Settle, SettleLost, At
<1>2. PICK s \in {"spent", "inflight"} :
          /\ auth[c] = "valid" /\ auth' = [auth EXCEPT ![c] = s]
          /\ serving.step = "settle"
          /\ \/ s = "spent" /\ serving' = [serving EXCEPT !.step = "record", !.settled = TRUE]
             \/ s = "inflight" /\ serving' = [serving EXCEPT !.step = "record"]
          /\ pc' = pc /\ queue' = queue /\ head' = head
          /\ auditOf' = auditOf /\ floating' = floating /\ receipts' = receipts
  BY <1>1 DEF Settle, SettleLost, At, chainVars
<1>3. /\ auth \in [Calls -> AuthStates] /\ CallInv(c) /\ ServingInv
      /\ None \notin Calls /\ None \notin Roots
  BY DEF RouteInv, TypeOK, PaidAuditAssumption
<1>4. /\ auditOf[c] = serving.report /\ serving.report \in Roots /\ auditOf[c] # None
      /\ Pending(c) /\ ~Afloat(c) /\ ~Queued(c) /\ ~serving.settled
  BY <1>1, <1>2, <1>3 DEF ServingInv, CallInv
<1>5. /\ serving' \in [call : Calls \cup {None}, step : Steps,
                       report : Roots \cup {None}, settled : BOOLEAN]
      /\ serving'.call = c /\ serving'.step = "record"
      /\ serving'.report = serving.report /\ serving'.settled => s = "spent"
  BY <1>1, <1>2, <1>4 DEF RouteInv, TypeOK, Steps
<1>6. TypeOK'
  BY <1>2, <1>3, <1>5 DEF RouteInv, TypeOK, AuthStates
<1>7. ASSUME NEW d \in Calls
      PROVE  CallInv(d)'
  <2>1. CallInv(d) /\ Afloat(d)' = Afloat(d) /\ Queued(d)' = Queued(d)
        /\ Pending(d)' = Pending(d)
    BY <1>2 DEF RouteInv, Afloat, Queued, Pending
  <2>2. CASE d = c
    BY <1>1, <1>2, <1>4, <1>5, <2>1, <2>2 DEF CallInv, Pending
  <2>3. CASE d # c
    BY <1>1, <1>2, <1>3, <1>5, <2>1, <2>3 DEF CallInv, Unused
  <2>. QED
    BY <2>2, <2>3
<1>8. ServingInv'
  BY <1>2, <1>3, <1>4, <1>5 DEF ServingInv
<1>9. ReceiptsAreTruthful'
  BY <1>2, <1>3, ReceiptsBacked
<1>10. RootsUnique' /\ QueuedOnce'
  BY <1>2 DEF RouteInv, RootsUnique, QueuedOnce
<1>. QED
  BY <1>6, <1>7, <1>8, <1>9, <1>10 DEF RouteInv

(* The receipt that is stored names the call, its audit and its payment.   *)
LEMMA RecordKeeps ==
    ASSUME RouteInv, PaidAuditAssumption, Record
    PROVE  RouteInv'
<1>1. /\ serving.call # None /\ serving.step = "record"
      /\ serving' = [serving EXCEPT !.step = "reply"]
      /\ \/ receipts' = [receipts EXCEPT ![serving.report] = ReceiptRow]
         \/ receipts' = receipts
      /\ pc' = pc /\ auth' = auth /\ queue' = queue /\ head' = head
      /\ auditOf' = auditOf /\ floating' = floating
  BY DEF Record, At, chainVars
<1>2. /\ serving' \in [call : Calls \cup {None}, step : Steps,
                       report : Roots \cup {None}, settled : BOOLEAN]
      /\ serving'.call = serving.call /\ serving'.step = "reply"
      /\ serving'.report = serving.report /\ serving'.settled = serving.settled
  BY <1>1 DEF RouteInv, TypeOK, Steps
<1>3. /\ serving.call \in Calls /\ serving.settled \in BOOLEAN /\ serving.report \in Roots
      /\ auditOf[serving.call] = serving.report
      /\ serving.settled => auth[serving.call] = "spent"
  BY <1>1 DEF RouteInv, TypeOK, ServingInv
<1>4. /\ receipts \in [Roots -> {None} \cup [call : Calls, settled : BOOLEAN]]
      /\ ReceiptRow \in [call : Calls, settled : BOOLEAN]
      /\ ReceiptRow.call = serving.call /\ ReceiptRow.settled = serving.settled
  BY <1>3 DEF RouteInv, TypeOK, ReceiptRow
<1>5. TypeOK'
  BY <1>1, <1>2, <1>4 DEF RouteInv, TypeOK
<1>6. ASSUME NEW d \in Calls
      PROVE  CallInv(d)'
  BY <1>1, <1>2 DEF RouteInv, CallInv, Pending, Unused, Queued, Afloat
<1>7. ServingInv'
  BY <1>1, <1>2 DEF RouteInv, ServingInv, Unused
<1>8. ReceiptsAreTruthful'
  <2>. SUFFICES ASSUME NEW r \in Roots, receipts'[r] # None
                PROVE  /\ auditOf[receipts'[r].call] = r
                       /\ receipts'[r].settled => auth[receipts'[r].call] = "spent"
    BY <1>1 DEF ReceiptsAreTruthful
  <2>1. CASE receipts'[r] = receipts[r]
    BY <2>1 DEF RouteInv, ReceiptsAreTruthful
  <2>2. CASE r = serving.report /\ receipts'[r] = ReceiptRow
    BY <1>3, <1>4, <2>2
  <2>. QED
    BY <1>1, <1>4, <2>1, <2>2
<1>9. RootsUnique' /\ QueuedOnce'
  BY <1>1 DEF RouteInv, RootsUnique, QueuedOnce
<1>. QED
  BY <1>5, <1>6, <1>7, <1>8, <1>9 DEF RouteInv

-------------------------------------------------------------------------------
(***************************************************************************)
(* Steps of the chains.                                                    *)
(***************************************************************************)

(* A late anchor reaches a call that is over, and charges nothing.         *)
LEMMA LateAnchorKeeps ==
    ASSUME RouteInv, PaidAuditAssumption, NEW f \in floating, LateAnchor(f)
    PROVE  RouteInv'
<1>1. /\ Anchor(f.call, f.root) /\ floating' = floating \ {f}
      /\ pc' = pc /\ auth' = auth /\ queue' = queue /\ serving' = serving
      /\ receipts' = receipts
  BY DEF LateAnchor
<1>2. PICK c \in Calls, r \in Roots : f.call = c /\ f.root = r
  BY DEF RouteInv, TypeOK
<1>3. /\ Afloat(c) /\ CallInv(c) /\ None \notin Calls
      /\ \A d \in Calls : auditOf[d] # r
      /\ \A g \in floating : g.root = r \/ g.call = c => g = f
  BY <1>2 DEF RouteInv, Afloat, RootsUnique, PaidAuditAssumption
<1>4. /\ pc[c] \in {"refused", "gaveup"} /\ Unused(c) /\ auditOf[c] = None
      /\ serving.call # c /\ ~Queued(c)
  BY <1>3 DEF CallInv
<1>5. /\ auditOf' \in [Calls -> Roots \cup {None}] /\ head' \in [Targets -> Roots \cup {None}]
      /\ auditOf'[c] = r /\ r # None
      /\ \A d \in Calls : d # c => auditOf'[d] = auditOf[d]
      /\ \A d \in Calls : auditOf'[d] # None => head'[TargetOf[d]] # None
      /\ \A d, e \in Calls : auditOf'[d] = auditOf'[e] /\ auditOf'[d] # None => d = e
  BY <1>1, <1>2, <1>3, <1>4, AnchorEffect
<1>6. TypeOK'
  BY <1>1, <1>5 DEF RouteInv, TypeOK
<1>7. ASSUME NEW d \in Calls
      PROVE  CallInv(d)'
  <2>1. CallInv(d) /\ Unused(d)' = Unused(d) /\ Queued(d)' = Queued(d)
        /\ Pending(d)' = Pending(d)
    BY <1>1 DEF RouteInv, Unused, Queued, Pending
  <2>2. CASE d = c
    <3>1. ~Afloat(c)'
      BY <1>1, <1>2, <1>3 DEF Afloat
    <3>. QED
      BY <1>1, <1>4, <1>5, <2>1, <2>2, <3>1 DEF CallInv
  <2>3. CASE d # c
    <3>1. Afloat(d)' = Afloat(d)
      BY <1>1, <1>2, <2>3 DEF Afloat
    <3>. QED
      BY <1>1, <1>5, <2>1, <2>3, <3>1 DEF CallInv
  <2>. QED
    BY <2>2, <2>3
<1>8. ServingInv'
  <2>. SUFFICES ASSUME serving.call # None
                PROVE  ServingInv'
    BY <1>1 DEF ServingInv
  <2>1. serving.call \in Calls
    BY DEF RouteInv, TypeOK
  <2>2. auditOf'[serving.call] = auditOf[serving.call]
    BY <1>4, <1>5, <2>1
  <2>. QED
    BY <1>1, <2>2 DEF RouteInv, ServingInv, Unused
<1>9. RootsUnique'
  BY <1>1, <1>2, <1>3, <1>5 DEF RouteInv, RootsUnique
<1>10. QueuedOnce' /\ ReceiptsAreTruthful'
  BY <1>1, <1>4, <1>5, ReceiptsSurvive DEF RouteInv, QueuedOnce
<1>. QED
  BY <1>6, <1>7, <1>8, <1>9, <1>10 DEF RouteInv

(* Other audits and the fate of transfers leave every answer true.         *)
LEMMA ChainsKeep ==
    ASSUME RouteInv, PaidAuditAssumption,
           \/ \E t \in Targets, r \in Roots : ScriptAnchor(t, r)
           \/ \E c \in Calls : Land(c) \/ Expire(c)
    PROVE  RouteInv'
<1>1. ASSUME NEW t \in Targets, NEW r \in Roots, ScriptAnchor(t, r)
      PROVE  RouteInv'
  <2>1. /\ head' = [head EXCEPT ![t] = r] /\ head \in [Targets -> Roots \cup {None}]
        /\ pc' = pc /\ auth' = auth /\ queue' = queue /\ serving' = serving
        /\ auditOf' = auditOf /\ floating' = floating /\ receipts' = receipts
        /\ TargetOf \in [Calls -> Targets] /\ r # None
    BY <1>1 DEF ScriptAnchor, RouteInv, TypeOK, PaidAuditAssumption
  <2>2. TypeOK'
    BY <2>1 DEF RouteInv, TypeOK
  <2>3. ASSUME NEW d \in Calls
        PROVE  CallInv(d)'
    <3>1. head[TargetOf[d]] # None => head'[TargetOf[d]] # None
      BY <2>1
    <3>. QED
      BY <2>1, <3>1 DEF RouteInv, CallInv, Pending, Unused, Queued, Afloat
  <2>. QED
    BY <2>1, <2>2, <2>3
       DEF RouteInv, ServingInv, Unused, QueuedOnce, RootsUnique, ReceiptsAreTruthful
<1>2. ASSUME NEW c \in Calls, Land(c) \/ Expire(c)
      PROVE  RouteInv'
  <2>1. PICK s \in {"spent", "expired"} :
            /\ auth' = [auth EXCEPT ![c] = s] /\ auth[c] \in {"valid", "inflight"}
            /\ s = "spent" => auth[c] = "inflight"
            /\ pc' = pc /\ queue' = queue /\ serving' = serving /\ head' = head
            /\ auditOf' = auditOf /\ floating' = floating /\ receipts' = receipts
    BY <1>2 DEF Land, Expire, chainVars
  <2>2. auth \in [Calls -> AuthStates]
    BY DEF RouteInv, TypeOK
  <2>3. TypeOK'
    BY <2>1, <2>2 DEF RouteInv, TypeOK, AuthStates
  <2>4. ASSUME NEW d \in Calls
        PROVE  CallInv(d)'
    <3>1. CallInv(d) /\ Afloat(d)' = Afloat(d) /\ Queued(d)' = Queued(d)
          /\ Pending(d)' = Pending(d)
      BY <2>1 DEF RouteInv, Afloat, Queued, Pending
    <3>2. CASE d = c
      BY <2>1, <2>2, <3>1, <3>2 DEF CallInv, Unused
    <3>3. CASE d # c
      BY <2>1, <2>2, <3>1, <3>3 DEF CallInv, Unused
    <3>. QED
      BY <3>2, <3>3
  <2>5. ServingInv'
    <3>1. CASE serving.call = None
      BY <2>1, <3>1 DEF ServingInv
    <3>2. CASE serving.call # None
      <4>1. serving.call \in Calls
        BY <3>2 DEF RouteInv, TypeOK
      <4>. QED
        BY <2>1, <2>2, <3>2, <4>1 DEF RouteInv, ServingInv, Unused
    <3>. QED
      BY <3>1, <3>2
  <2>6. ReceiptsAreTruthful'
    BY <2>1, <2>2, ReceiptsBacked
  <2>7. RootsUnique' /\ QueuedOnce'
    BY <2>1 DEF RouteInv, RootsUnique, QueuedOnce
  <2>. QED
    BY <2>3, <2>4, <2>5, <2>6, <2>7 DEF RouteInv
<1>. QED
  BY <1>1, <1>2

-------------------------------------------------------------------------------
(***************************************************************************)
(* The theorems.                                                           *)
(***************************************************************************)

(* Nothing is asked, paid or anchored at first.                            *)
LEMMA RouteInit == PaidAuditAssumption /\ Init => RouteInv
<1>. SUFFICES ASSUME PaidAuditAssumption, Init
              PROVE  RouteInv
  OBVIOUS
<1>1. /\ pc \in [Calls -> Stages] /\ \A c \in Calls : pc[c] \in {"ask", "check"}
      /\ auth = [c \in Calls |-> "unsigned"] /\ queue = <<>> /\ serving.call = None
      /\ serving \in [call : Calls \cup {None}, step : Steps,
                      report : Roots \cup {None}, settled : BOOLEAN]
      /\ auditOf = [c \in Calls |-> None] /\ head = [t \in Targets |-> None]
      /\ floating = {} /\ receipts = [r \in Roots |-> None] /\ None \notin Calls
  BY DEF Init, Stages, Steps, NotServing, PaidAuditAssumption
<1>2. DOMAIN queue = {}
  BY <1>1
<1>3. TypeOK
  BY <1>1 DEF TypeOK, AuthStates
<1>4. ASSUME NEW c \in Calls
      PROVE  CallInv(c)
  BY <1>1, <1>2 DEF CallInv, Queued, Afloat
<1>. QED
  BY <1>1, <1>2, <1>3, <1>4
     DEF RouteInv, ServingInv, QueuedOnce, RootsUnique, ReceiptsAreTruthful

(* Every step of clients, handler and chains keeps the invariant.          *)
LEMMA RouteStep ==
    ASSUME RouteInv, PaidAuditAssumption, [Next]_vars
    PROVE  RouteInv'
<1>1. ASSUME NEW c \in Calls, Check(c) \/ CheckFails(c) \/ Ask(c) \/ Stop(c)
      PROVE  RouteInv'
  <2>1. ClientOnly
    BY <1>1 DEF Check, CheckFails, Ask, Stop
  <2>2. \E from \in {"check", "ask", "sign"}, to \in {"free", "ask", "sign", "failed"} :
            Move(c, from, to)
    BY <1>1 DEF Check, CheckFails, Ask, Stop
  <2>. QED
    BY <2>1, <2>2, MovesKeep
<1>2. ASSUME ClientStep
      PROVE  RouteInv'
  BY <1>1, <1>2, PayKeeps, GiveUpKeeps DEF ClientStep
<1>3. ASSUME HandlerStep
      PROVE  RouteInv'
  BY <1>3, AcceptKeeps, AnswersKeep, AuditKeeps, AuditLateKeeps, GoesOn, SettlesKeep,
     RecordKeeps DEF HandlerStep
<1>4. ASSUME ChainStep
      PROVE  RouteInv'
  BY <1>4, LateAnchorKeeps, ChainsKeep DEF ChainStep
<1>5. CASE UNCHANGED vars
  BY <1>5 DEF vars, chainVars, RouteInv, TypeOK, CallInv, Pending, Unused, Queued, Afloat,
     ServingInv, QueuedOnce, RootsUnique, ReceiptsAreTruthful
<1>. QED
  BY <1>2, <1>3, <1>4, <1>5, HangsKeep DEF Next

(* The safety part of the specification.                                   *)
LEMMA SafeSpec == Spec => Init /\ [][Next]_vars
BY PTL DEF Spec

(* A paid call is in one place at a time and a report is made for one      *)
(* call, whatever times out, is lost or lands late.                        *)
THEOREM RouteInvariant == Spec => []RouteInv
<1>1. Init => RouteInv
  BY RouteInit, PaidAuditAssumption
<1>2. RouteInv /\ [Next]_vars => RouteInv'
  BY RouteStep, PaidAuditAssumption
<1>. QED
  BY <1>1, <1>2, SafeSpec, PTL

(* Every variable keeps its type, for any number of calls and reports.     *)
THEOREM TypeCorrect == Spec => []TypeOK
<1>1. RouteInv => TypeOK
  BY DEF RouteInv
<1>. QED
  BY <1>1, RouteInvariant, PTL

(* What a call was told stays true of both chains: an error means that it  *)
(* is never charged, a 200 that its audit is anchored, a receipt that the  *)
(* payment it names was made for the audit it names.                       *)
THEOREM AnswersTrue == Spec => []AnswersAreTrue
<1>1. ASSUME RouteInv PROVE AnswersAreTrue
  <2>1. \A c \in Calls : CallInv(c)
    BY <1>1 DEF RouteInv
  <2>2. RefusedIsNeverCharged
    BY <2>1 DEF RefusedIsNeverCharged, CallInv, Unused
  <2>3. ReturnedMeansAnchored
    BY <2>1 DEF ReturnedMeansAnchored, CallInv
  <2>. QED
    BY <1>1, <2>2, <2>3 DEF AnswersAreTrue, RouteInv
<1>2. RouteInv => AnswersAreTrue
  BY <1>1
<1>. QED
  BY <1>2, RouteInvariant, PTL

(* A step of the route is a step of the promise, or leaves it unchanged.   *)
LEMMA PromiseStep ==
    ASSUME RouteInv, PaidAuditAssumption, [Next]_vars
    PROVE  [Promise!Next]_<<auditOf, [c \in Calls |-> auth[c] = "spent"]>>
<1>. DEFINE charged == [c \in Calls |-> auth[c] = "spent"]
<1>1. auth \in [Calls -> AuthStates] /\ auditOf \in [Calls -> Roots \cup {None}]
  BY DEF RouteInv, TypeOK
<1>2. ASSUME NEW c \in Calls, NEW r \in Roots, Anchor(c, r), auditOf[c] = None,
             \A d \in Calls : auditOf[d] # r, auth' = auth
      PROVE  Promise!Next
  <2>1. Promise!Deliver(c, r)
    BY <1>2 DEF Promise!Deliver, Anchor
  <2>. QED
    BY <2>1 DEF Promise!Next
<1>3. ASSUME NEW c \in Calls, auditOf[c] # None, auth[c] # "spent",
             auth' = [auth EXCEPT ![c] = "spent"], auditOf' = auditOf
      PROVE  Promise!Next
  <2>1. charged' = [charged EXCEPT ![c] = TRUE]
    BY <1>1, <1>3
  <2>2. Promise!Charge(c)
    BY <1>3, <2>1 DEF Promise!Charge
  <2>. QED
    BY <2>2 DEF Promise!Next
<1>4. ASSUME NEW c \in Calls, NEW s \in AuthStates, s # "spent", auth[c] # "spent",
             auth' = [auth EXCEPT ![c] = s], auditOf' = auditOf
      PROVE  UNCHANGED <<auditOf, charged>>
  BY <1>1, <1>4
<1>5. ASSUME auth' = auth, auditOf' = auditOf
      PROVE  UNCHANGED <<auditOf, charged>>
  BY <1>5
<1>. HIDE DEF charged
<1>6. ASSUME ClientStep
      PROVE  UNCHANGED <<auditOf, charged>>
  <2>1. ASSUME NEW c \in Calls, Pay(c)
        PROVE  UNCHANGED <<auditOf, charged>>
    <3>1. /\ auth[c] = "unsigned" /\ auth' = [auth EXCEPT ![c] = "valid"]
          /\ auditOf' = auditOf
      BY <2>1 DEF Pay, Move, chainVars, RouteInv, CallInv
    <3>. QED
      BY <1>4, <3>1 DEF AuthStates
  <2>2. ASSUME NEW c \in Calls, Check(c) \/ CheckFails(c) \/ Ask(c) \/ Stop(c) \/ GiveUp(c)
        PROVE  UNCHANGED <<auditOf, charged>>
    BY <1>5, <2>2 DEF Check, CheckFails, Ask, Stop, GiveUp, ClientOnly, chainVars
  <2>. QED
    BY <1>6, <2>1, <2>2 DEF ClientStep
<1>7. ASSUME HandlerStep
      PROVE  Promise!Next \/ UNCHANGED <<auditOf, charged>>
  <2>1. ASSUME NEW r \in Roots, Audit(r)
        PROVE  Promise!Next
    <3>1. /\ serving.call \in Calls /\ auditOf[serving.call] = None /\ auth' = auth
          /\ Anchor(serving.call, r) /\ Fresh(r)
      BY <2>1 DEF Audit, At, RouteInv, TypeOK, ServingInv
    <3>. QED
      BY <1>2, <3>1, FreshIsNew DEF RouteInv
  <2>2. ASSUME Settle \/ SettleLost
        PROVE  Promise!Next \/ UNCHANGED <<auditOf, charged>>
    <3>1. /\ serving.call \in Calls /\ auditOf[serving.call] # None
          /\ auth[serving.call] = "valid" /\ auditOf' = auditOf
      BY <2>2 DEF Settle, SettleLost, At, chainVars, RouteInv, TypeOK, ServingInv,
         PaidAuditAssumption
    <3>2. \/ auth' = [auth EXCEPT ![serving.call] = "spent"]
          \/ auth' = [auth EXCEPT ![serving.call] = "inflight"]
      BY <2>2 DEF Settle, SettleLost
    <3>. QED
      BY <1>3, <1>4, <3>1, <3>2 DEF AuthStates
  <2>3. ASSUME \/ Accept \/ Verify \/ Refuse \/ AuditFails \/ SettleFails \/ Record \/ Reply
               \/ \E r \in Roots : AuditLate(r)
        PROVE  UNCHANGED <<auditOf, charged>>
    BY <1>5, <2>3 DEF Accept, Verify, Refuse, AuditFails, SettleFails, Record, Reply,
       AuditLate, chainVars
  <2>. QED
    BY <1>7, <2>1, <2>2, <2>3 DEF HandlerStep
<1>8. ASSUME ChainStep
      PROVE  Promise!Next \/ UNCHANGED <<auditOf, charged>>
  <2>1. ASSUME NEW f \in floating, LateAnchor(f)
        PROVE  Promise!Next
    <3>1. /\ f.call \in Calls /\ f.root \in Roots /\ Anchor(f.call, f.root)
          /\ auth' = auth /\ Afloat(f.call)
      BY <2>1 DEF LateAnchor, RouteInv, TypeOK, Afloat
    <3>2. auditOf[f.call] = None /\ \A d \in Calls : auditOf[d] # f.root
      BY <3>1 DEF RouteInv, CallInv, RootsUnique
    <3>. QED
      BY <1>2, <3>1, <3>2
  <2>2. ASSUME NEW t \in Targets, NEW r \in Roots, ScriptAnchor(t, r)
        PROVE  UNCHANGED <<auditOf, charged>>
    BY <1>5, <2>2 DEF ScriptAnchor
  <2>3. ASSUME NEW c \in Calls, Land(c)
        PROVE  Promise!Next
    <3>1. /\ auth[c] = "inflight" /\ auth' = [auth EXCEPT ![c] = "spent"]
          /\ auditOf' = auditOf /\ auditOf[c] # None
      BY <2>3 DEF Land, chainVars, RouteInv, CallInv
    <3>. QED
      BY <1>3, <3>1
  <2>4. ASSUME NEW c \in Calls, Expire(c)
        PROVE  UNCHANGED <<auditOf, charged>>
    <3>1. /\ auth[c] \in {"valid", "inflight"} /\ auth' = [auth EXCEPT ![c] = "expired"]
          /\ auditOf' = auditOf
      BY <2>4 DEF Expire, chainVars
    <3>. QED
      BY <1>4, <3>1 DEF AuthStates
  <2>. QED
    BY <1>8, <2>1, <2>2, <2>3, <2>4 DEF ChainStep
<1>9. CASE ModelHangs \/ UNCHANGED vars
  BY <1>5, <1>9 DEF ModelHangs, vars, chainVars
<1>. QED
  BY <1>6, <1>7, <1>8, <1>9 DEF Next, charged

(* The route implements AuditThenPay: whatever fails or is lost on the     *)
(* way, a call gets at most one audit, a report is made for one call, and  *)
(* a call is charged at most once and only when its audit is anchored.     *)
THEOREM RouteImplementsPromise == Spec => ChargedOnlyForAudit
<1>1. Init => Promise!Init
  BY DEF Init, Promise!Init
<1>2. RouteInv /\ [Next]_vars =>
          [Promise!Next]_<<auditOf, [c \in Calls |-> auth[c] = "spent"]>>
  BY PromiseStep, PaidAuditAssumption
<1>. QED
  BY <1>1, <1>2, SafeSpec, RouteInvariant, PTL DEF ChargedOnlyForAudit, Promise!Spec
===============================================================================
