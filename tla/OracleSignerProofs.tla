-------------------------- MODULE OracleSignerProofs --------------------------
(***************************************************************************)
(* Theorems about Registry, for every set of targets, roots, accounts and  *)
(* stakes and every bound, and about OracleSigner, for every number of     *)
(* runs that share the oracle key: the composition implements Registry, so *)
(* that every theorem about the registry holds of it, and what its runs    *)
(* report is true.                                                         *)
(***************************************************************************)
EXTENDS OracleSigner, SequenceTheorems, FiniteSetTheorems, TLAPS

(***************************************************************************)
(* Totals: how one changes when an amount is added or taken away.          *)
(***************************************************************************)

(* An amount of n is n units. *)
LEMMA UnitsOfOne ==
    ASSUME NEW x, NEW n \in Nat
    PROVE  /\ IsFiniteSet({x} \X (1 .. n))
           /\ Cardinality({x} \X (1 .. n)) = n
<1>1. IsFiniteSet({x}) /\ Cardinality({x}) = 1
  BY FS_Singleton
<1>2. IsFiniteSet(1 .. n)
  BY FS_Interval
<1>3. Cardinality(1 .. n) = IF 1 > n THEN 0 ELSE n - 1 + 1
  BY FS_Interval
<1>4. Cardinality(1 .. n) = n
  BY <1>3
<1>5. /\ IsFiniteSet({x} \X (1 .. n))
      /\ Cardinality({x} \X (1 .. n)) = Cardinality({x}) * Cardinality(1 .. n)
  BY <1>1, <1>2, FS_Product
<1>. QED
  BY <1>1, <1>4, <1>5

(* The total of nothing. *)
LEMMA TotalEmpty ==
    ASSUME NEW amount
    PROVE  /\ IsFiniteSet(UnitsOf(amount, {}))
           /\ TotalOf(amount, {}) = 0
<1>1. UnitsOf(amount, {}) = {}
  BY DEF UnitsOf
<1>. QED
  BY <1>1, FS_EmptySet DEF TotalOf

(* The total depends on the amounts of the set's members only. *)
LEMMA TotalSame ==
    ASSUME NEW f, NEW g, NEW S, \A x \in S : f[x] = g[x]
    PROVE  /\ UnitsOf(f, S) = UnitsOf(g, S)
           /\ TotalOf(f, S) = TotalOf(g, S)
<1>1. UnitsOf(f, S) = UnitsOf(g, S)
  BY DEF UnitsOf
<1>. QED
  BY <1>1 DEF TotalOf

(* A new member adds its amount. *)
LEMMA TotalAdd ==
    ASSUME NEW f, NEW S, NEW x, x \notin S, f[x] \in Nat,
           IsFiniteSet(UnitsOf(f, S))
    PROVE  /\ IsFiniteSet(UnitsOf(f, S \cup {x}))
           /\ TotalOf(f, S \cup {x}) = TotalOf(f, S) + f[x]
<1>. DEFINE block == {x} \X (1 .. f[x])
<1>1. UnitsOf(f, S \cup {x}) = UnitsOf(f, S) \cup block
  BY DEF UnitsOf
<1>2. UnitsOf(f, S) \cap block = {}
  BY DEF UnitsOf
<1>3. IsFiniteSet(block) /\ Cardinality(block) = f[x]
  BY UnitsOfOne
<1>. HIDE DEF block
<1>4. /\ IsFiniteSet(UnitsOf(f, S) \cup block)
      /\ Cardinality(UnitsOf(f, S) \cup block)
             = Cardinality(UnitsOf(f, S)) + Cardinality(block) - Cardinality({})
  BY <1>2, <1>3, FS_Union
<1>5. Cardinality(UnitsOf(f, S)) \in Nat
  BY FS_CardinalityType
<1>6. Cardinality({}) = 0
  BY FS_EmptySet
<1>7. Cardinality(UnitsOf(f, S) \cup block) = Cardinality(UnitsOf(f, S)) + f[x]
  BY <1>3, <1>4, <1>5, <1>6
<1>8. Cardinality(UnitsOf(f, S \cup {x})) = Cardinality(UnitsOf(f, S)) + f[x]
  BY <1>1, <1>7
<1>. QED
  BY <1>1, <1>4, <1>8 DEF TotalOf

(* A member that leaves takes its amount away, which the total covers. *)
LEMMA TotalRemove ==
    ASSUME NEW f, NEW S, NEW x \in S, f[x] \in Nat,
           IsFiniteSet(UnitsOf(f, S))
    PROVE  /\ IsFiniteSet(UnitsOf(f, S \ {x}))
           /\ TotalOf(f, S) \in Nat
           /\ TotalOf(f, S \ {x}) = TotalOf(f, S) - f[x]
<1>1. UnitsOf(f, S \ {x}) \in SUBSET UnitsOf(f, S)
  BY DEF UnitsOf
<1>2. IsFiniteSet(UnitsOf(f, S \ {x}))
  BY <1>1, FS_Subset
<1>3. (S \ {x}) \cup {x} = S
  OBVIOUS
<1>4. TotalOf(f, (S \ {x}) \cup {x}) = TotalOf(f, S \ {x}) + f[x]
  BY <1>2, TotalAdd
<1>5. TotalOf(f, S \ {x}) \in Nat /\ TotalOf(f, S) \in Nat
  BY <1>2, FS_CardinalityType DEF TotalOf
<1>. QED
  BY <1>2, <1>3, <1>4, <1>5

-------------------------------------------------------------------------------
(***************************************************************************)
(* The registry.                                                           *)
(***************************************************************************)

(***************************************************************************)
(* Type correctness, by the action that changes each group of variables.   *)
(***************************************************************************)

(* Resolving a dispute leaves a list of disputes of the same length, and   *)
(* changes no dispute but the one resolved.                                *)
LEMMA ResolveDisputeEffect ==
    ASSUME TypeOK, RegistryAssumption,
           NEW who \in Accounts, NEW d \in 1 .. MaxDisputes,
           NEW o \in Statuses, NEW v \in Verdicts,
           ResolveDispute(who, d, o, v)
    PROVE  /\ d \in 1 .. Len(disputes)
           /\ disputes' \in Seq(Dispute)
           /\ Len(disputes') = Len(disputes)
           /\ disputes[d] \in Dispute
           /\ disputes[d].status = "PENDING"
           /\ disputes'[d].status = o
           /\ disputes'[d].reAuditRootHash = v
           /\ disputes'[d].rootHash = disputes[d].rootHash
           /\ disputes'[d].disputer = disputes[d].disputer
           /\ disputes'[d].counterStake = disputes[d].counterStake
           /\ \A e \in 1 .. Len(disputes) : e # d => disputes'[e] = disputes[e]
<1>1. /\ disputes \in Seq(Dispute)
      /\ d \in 1 .. Len(disputes)
      /\ disputes[d].status = "PENDING"
      /\ disputes' = [disputes EXCEPT ![d].status = o, ![d].reAuditRootHash = v]
  BY DEF ResolveDispute, Resolvable, TypeOK
<1>. DEFINE e == [disputes[d] EXCEPT !.status = o, !.reAuditRootHash = v]
<1>2. disputes[d] \in Dispute
  BY <1>1
<1>3. e \in Dispute
  BY <1>2 DEF Dispute
<1>4. disputes' = [disputes EXCEPT ![d] = e]
  BY <1>1, <1>2 DEF Dispute
<1>5. /\ e.status = o
      /\ e.reAuditRootHash = v
      /\ e.rootHash = disputes[d].rootHash
      /\ e.disputer = disputes[d].disputer
      /\ e.counterStake = disputes[d].counterStake
  BY <1>2 DEF Dispute
<1>. HIDE DEF e
<1>6. /\ disputes' \in Seq(Dispute)
      /\ Len(disputes') = Len(disputes)
      /\ \A j \in 1 .. Len(disputes) :
             disputes'[j] = IF j = d THEN e ELSE disputes[j]
  BY <1>1, <1>3, <1>4, ExceptSeq
<1>. QED
  BY <1>1, <1>2, <1>5, <1>6

(* What a resolution pays is the disputer's counter-stake or nothing, and  *)
(* the registry holds it.                                                  *)
LEMMA RefundCovered ==
    ASSUME TypeOK, RegistryAssumption,
           NEW who \in Accounts, NEW d \in 1 .. MaxDisputes,
           NEW o \in Statuses, NEW v \in Verdicts,
           ResolveDispute(who, d, o, v)
    PROVE  /\ Refund(d, o) \in Nat
           /\ Refund(d, o) <= balance
           /\ Refund(d, o) # 0 => disputes[d].disputer \notin Refusers
<1>1. disputes[d] \in Dispute
  BY DEF ResolveDispute, TypeOK
<1>2. disputes[d].counterStake \in Nat
  BY <1>1 DEF Dispute, RegistryAssumption
<1>3. Refund(d, o) \in Nat
  BY <1>2 DEF Refund
<1>. QED
  BY <1>3 DEF ResolveDispute, CanPay, TypeOK

LEMMA TypeInit == RegistryAssumption /\ Init => TypeOK
  BY DEF RegistryAssumption, Init, TypeOK, Auditors, NoReport

LEMMA TypeStep ==
    ASSUME RegistryAssumption, TypeOK, [Next]_registryVars
    PROVE  TypeOK'
<1>. USE DEF registryVars, auditVars, disputeVars, agentVars, fundVars
<1>1. ASSUME NEW who \in Accounts, NEW t \in Targets, NEW k \in 0 .. 3,
             NEW r \in Roots, SubmitAudit(who, t, k, r)
      PROVE  TypeOK'
  <2>1. k \in Tiers
    BY <1>1 DEF SubmitAudit, ValidTier
  <2>2. [rootHash |-> r, tier |-> k, submitter |-> who] \in Report
    BY <2>1 DEF Report
  <2>3. [target |-> t, rootHash |-> r, tier |-> k] \in Event
    BY <2>1 DEF Event
  <2>4. /\ latest' \in [Targets -> Report \cup {NoReport}]
        /\ auditTier' \in [Roots -> {0} \cup Tiers]
        /\ auditTarget' \in [Roots -> Targets \cup {None}]
        /\ auditCount' \in [Targets -> Nat]
        /\ log' \in Seq(Event)
    BY <1>1, <2>1, <2>2, <2>3 DEF SubmitAudit, RecordAudit, TypeOK
  <2>5. memory' \in [Agents -> Seq(Roots)]
    <3>1. CASE agent = None
      BY <1>1, <3>1 DEF SubmitAudit, AdvanceAgent, TypeOK, RegistryAssumption
    <3>2. CASE agent # None
      <4>1. agent \in Agents /\ memory[agent] \in Seq(Roots)
        BY <3>2 DEF TypeOK
      <4>2. Append(memory[agent], r) \in Seq(Roots)
        BY <4>1, AppendProperties
      <4>. QED
        BY <1>1, <3>2, <4>1, <4>2 DEF SubmitAudit, AdvanceAgent, AdvanceMemory, TypeOK
    <3>. QED
      BY <3>1, <3>2
  <2>. QED
    BY <1>1, <2>4, <2>5 DEF SubmitAudit, TypeOK
<1>2. ASSUME NEW who \in Accounts, NEW r \in Roots, NEW s \in Stakes,
             SubmitDispute(who, r, s)
      PROVE  TypeOK'
  <2>1. [rootHash |-> r, disputer |-> who, counterStake |-> s,
         status |-> "PENDING", reAuditRootHash |-> None] \in Dispute
    BY DEF Dispute, Statuses
  <2>2. s \in Nat
    BY DEF RegistryAssumption
  <2>3. disputes' \in Seq(Dispute)
    BY <1>2, <2>1, AppendProperties DEF SubmitDispute, TypeOK
  <2>4. disputesByRoot' \in [Roots -> Seq(Nat)]
    <3>1. disputesByRoot[r] \in Seq(Nat) /\ Len(disputes) + 1 \in Nat
      BY DEF TypeOK
    <3>2. Append(disputesByRoot[r], Len(disputes) + 1) \in Seq(Nat)
      BY <3>1, AppendProperties
    <3>. QED
      BY <1>2, <3>2 DEF SubmitDispute, TypeOK
  <2>5. /\ paid' \in Seq(Nat)
        /\ Len(paid') = Len(disputes')
    BY <1>2, <2>1, AppendProperties DEF SubmitDispute, TypeOK
  <2>. QED
    BY <1>2, <2>2, <2>3, <2>4, <2>5 DEF SubmitDispute, TypeOK
<1>3. ASSUME NEW who \in Accounts, NEW d \in 1 .. MaxDisputes,
             NEW o \in Statuses, NEW v \in Verdicts,
             ResolveDispute(who, d, o, v)
      PROVE  TypeOK'
  <2>1. disputes' \in Seq(Dispute) /\ Len(disputes') = Len(disputes)
    BY <1>3, ResolveDisputeEffect
  <2>2. /\ paid' \in Seq(Nat)
        /\ Len(paid') = Len(paid)
        /\ balance' \in Nat
    <3>1. d \in 1 .. Len(paid) /\ paid[d] \in Nat
      <4>1. d \in 1 .. Len(disputes)
        BY <1>3, ResolveDisputeEffect
      <4>2. paid \in Seq(Nat) /\ Len(paid) = Len(disputes)
        BY DEF TypeOK
      <4>. QED
        BY <4>1, <4>2, ElementOfSeq
    <3>2. /\ Refund(d, o) \in Nat
          /\ Refund(d, o) <= balance
      BY <1>3, RefundCovered
    <3>3. /\ paid' = [paid EXCEPT ![d] = paid[d] + Refund(d, o)]
          /\ balance' = balance - Refund(d, o)
      BY <1>3 DEF ResolveDispute
    <3>4. /\ [paid EXCEPT ![d] = paid[d] + Refund(d, o)] \in Seq(Nat)
          /\ Len([paid EXCEPT ![d] = paid[d] + Refund(d, o)]) = Len(paid)
      BY <3>1, <3>2, ExceptSeq DEF TypeOK
    <3>. QED
      BY <3>2, <3>3, <3>4 DEF TypeOK
  <2>. QED
    BY <1>3, <2>1, <2>2 DEF ResolveDispute, TypeOK
<1>4. ASSUME NEW who \in Accounts, NEW to \in Accounts, SweepForfeited(who, to)
      PROVE  TypeOK'
  BY <1>4 DEF SweepForfeited, TypeOK
<1>5. ASSUME NEW who \in Accounts, NEW a \in Agents \cup {None}, SetAgent(who, a)
      PROVE  TypeOK'
  BY <1>5 DEF SetAgent, TypeOK
<1>6. ASSUME NEW who \in Accounts, NEW a \in Agents, NEW x \in Auditors,
             SetAuditor(who, a, x)
      PROVE  TypeOK'
  BY <1>6 DEF SetAuditor, TypeOK
<1>7. ASSUME NEW a \in Agents, NEW r \in Roots, UpdateMemoryRoot(a, r)
      PROVE  TypeOK'
  BY <1>7 DEF UpdateMemoryRoot, AdvanceMemory, TypeOK
<1>8. CASE UNCHANGED registryVars
  BY <1>8 DEF TypeOK
<1>. QED
  BY <1>1, <1>2, <1>3, <1>4, <1>5, <1>6, <1>7, <1>8
     DEF Next, AuditStep, DisputeStep, ResolveStep, SweepStep, AdminStep, MemoryStep

(* Every variable keeps its type; in particular the balance never becomes  *)
(* negative, whatever order refunds and sweeps come in.                    *)
THEOREM TypeCorrect == Spec => []TypeOK
<1>1. Init => TypeOK
  BY TypeInit, RegistryAssumption
<1>2. TypeOK /\ [Next]_registryVars => TypeOK'
  BY TypeStep, RegistryAssumption
<1>. QED
  BY <1>1, <1>2, PTL DEF Spec

-------------------------------------------------------------------------------
(***************************************************************************)
(* Which steps touch the audits, and which the disputes.                   *)
(***************************************************************************)

(* A step either leaves the audit indexes alone or is a submitAudit.       *)
LEMMA AuditCases ==
    ASSUME [Next]_registryVars
    PROVE  \/ UNCHANGED auditVars
           \/ \E who \in Accounts, t \in Targets, k \in Tiers, r \in Roots :
                  SubmitAudit(who, t, k, r)
<1>1. ASSUME NEW who \in Accounts, NEW t \in Targets, NEW k \in 0 .. 3,
             NEW r \in Roots, SubmitAudit(who, t, k, r)
      PROVE  k \in Tiers
  BY <1>1 DEF SubmitAudit, ValidTier
<1>. QED
  BY <1>1 DEF Next, AuditStep, DisputeStep, ResolveStep, SweepStep, AdminStep,
     MemoryStep, SubmitDispute, ResolveDispute, SweepForfeited, SetAgent,
     SetAuditor, UpdateMemoryRoot, registryVars, auditVars

(* A step either leaves the disputes alone, or files one or resolves one.  *)
LEMMA DisputeCases ==
    ASSUME [Next]_registryVars
    PROVE  \/ UNCHANGED disputeVars
           \/ \E who \in Accounts, r \in Roots, s \in Stakes :
                  SubmitDispute(who, r, s)
           \/ \E who \in Accounts, d \in 1 .. MaxDisputes, o \in Statuses,
                 v \in Verdicts : ResolveDispute(who, d, o, v)
  BY DEF Next, AuditStep, DisputeStep, ResolveStep, SweepStep, AdminStep,
     MemoryStep, SubmitAudit, SweepForfeited, SetAgent, SetAuditor,
     UpdateMemoryRoot, registryVars, disputeVars

(* Filing appends one pending dispute, not yet paid, and keeps the others. *)
LEMMA SubmitDisputeEffect ==
    ASSUME TypeOK, RegistryAssumption,
           NEW who \in Accounts, NEW r \in Roots, NEW s \in Stakes,
           SubmitDispute(who, r, s)
    PROVE  /\ Len(disputes') = Len(disputes) + 1
           /\ disputes'[Len(disputes) + 1].status = "PENDING"
           /\ disputes'[Len(disputes) + 1].rootHash = r
           /\ disputes'[Len(disputes) + 1].disputer = who
           /\ disputes'[Len(disputes) + 1].counterStake = s
           /\ paid'[Len(disputes) + 1] = 0
           /\ \A e \in 1 .. Len(disputes) : /\ disputes'[e] = disputes[e]
                                           /\ paid'[e] = paid[e]
<1>. DEFINE new == [rootHash |-> r, disputer |-> who, counterStake |-> s,
                    status |-> "PENDING", reAuditRootHash |-> None]
<1>1. new \in Dispute
  BY DEF Dispute, Statuses
<1>2. /\ disputes \in Seq(Dispute) /\ paid \in Seq(Nat)
      /\ Len(paid) = Len(disputes)
      /\ disputes' = Append(disputes, new)
      /\ paid' = Append(paid, 0)
  BY DEF SubmitDispute, TypeOK
<1>. HIDE DEF new
<1>3. /\ Len(disputes') = Len(disputes) + 1
      /\ disputes'[Len(disputes) + 1] = new
      /\ \A e \in 1 .. Len(disputes) : disputes'[e] = disputes[e]
  BY <1>1, <1>2, AppendProperties
<1>4. /\ Len(paid') = Len(paid) + 1
      /\ paid'[Len(paid) + 1] = 0
      /\ \A e \in 1 .. Len(paid) : paid'[e] = paid[e]
  BY <1>2, AppendProperties
<1>. QED
  BY <1>2, <1>3, <1>4 DEF new

(* Resolving pays the resolved dispute its refund and no other dispute.    *)
LEMMA ResolvePays ==
    ASSUME TypeOK, RegistryAssumption,
           NEW who \in Accounts, NEW d \in 1 .. MaxDisputes,
           NEW o \in Statuses, NEW v \in Verdicts,
           ResolveDispute(who, d, o, v)
    PROVE  /\ o \in Outcomes
           /\ paid'[d] = paid[d] + Refund(d, o)
           /\ \A e \in 1 .. Len(disputes) : e # d => paid'[e] = paid[e]
<1>1. d \in 1 .. Len(paid) /\ paid \in Seq(Nat) /\ Len(paid) = Len(disputes)
  BY ResolveDisputeEffect DEF TypeOK
<1>2. o \in Outcomes
  BY DEF ResolveDispute, Statuses
<1>3. paid' = [paid EXCEPT ![d] = paid[d] + Refund(d, o)]
  BY DEF ResolveDispute
<1>4. paid[d] + Refund(d, o) \in Nat
  BY <1>1, RefundCovered, ElementOfSeq
<1>. QED
  BY <1>1, <1>2, <1>3, <1>4, ExceptSeq

-------------------------------------------------------------------------------
(***************************************************************************)
(* Refunds.                                                                *)
(***************************************************************************)

LEMMA RefundStep ==
    ASSUME RegistryAssumption, TypeOK, RefundExactlyOnce, [Next]_registryVars
    PROVE  RefundExactlyOnce'
<1>. USE DEF RefundExactlyOnce
<1>1. disputes \in Seq(Dispute) /\ DOMAIN disputes = 1 .. Len(disputes)
  BY DEF TypeOK
<1>2. disputes' \in Seq(Dispute) /\ DOMAIN disputes' = 1 .. Len(disputes')
  BY TypeStep DEF TypeOK
<1>3. CASE UNCHANGED disputeVars
  BY <1>3 DEF disputeVars
<1>4. ASSUME NEW who \in Accounts, NEW r \in Roots, NEW s \in Stakes,
             SubmitDispute(who, r, s)
      PROVE  RefundExactlyOnce'
  <2>. SUFFICES ASSUME NEW e \in 1 .. Len(disputes')
                PROVE  paid'[e] = IF disputes'[e].status \in {"AMENDED", "RETRACTED"}
                                  THEN disputes'[e].counterStake ELSE 0
    BY <1>2
  <2>1. CASE e \in 1 .. Len(disputes)
    BY <1>1, <1>4, <2>1, SubmitDisputeEffect
  <2>2. CASE e = Len(disputes) + 1
    BY <1>4, <2>2, SubmitDisputeEffect
  <2>. QED
    BY <1>1, <1>4, <2>1, <2>2, SubmitDisputeEffect
<1>5. ASSUME NEW who \in Accounts, NEW d \in 1 .. MaxDisputes, NEW o \in Statuses,
             NEW v \in Verdicts, ResolveDispute(who, d, o, v)
      PROVE  RefundExactlyOnce'
  <2>. SUFFICES ASSUME NEW e \in 1 .. Len(disputes)
                PROVE  paid'[e] = IF disputes'[e].status \in {"AMENDED", "RETRACTED"}
                                  THEN disputes'[e].counterStake ELSE 0
    BY <1>2, <1>5, ResolveDisputeEffect
  <2>1. CASE e # d
    BY <1>1, <1>5, <2>1, ResolveDisputeEffect, ResolvePays
  <2>2. CASE e = d
    <3>1. disputes[d] \in Dispute /\ disputes[d].status = "PENDING"
      BY <1>1, <1>5, ResolveDisputeEffect
    <3>2. paid[d] = 0
      BY <1>1, <3>1, <2>2
    <3>3. /\ disputes'[d].status = o
          /\ disputes'[d].counterStake = disputes[d].counterStake
      BY <1>5, <3>1, ResolveDisputeEffect DEF Dispute
    <3>4. paid'[d] = Refund(d, o) /\ o \in Outcomes
      BY <1>5, <3>2, ResolvePays, RefundCovered
    <3>. QED
      BY <2>2, <3>3, <3>4 DEF Refund
  <2>. QED
    BY <2>1, <2>2
<1>. QED
  BY <1>3, <1>4, <1>5, DisputeCases

(* However disputes, resolutions and sweeps interleave, a disputer gets    *)
(* the counter-stake back once, and only on AMENDED or RETRACTED.          *)
THEOREM RefundsExact == Spec => []RefundExactlyOnce
<1>1. Init => RefundExactlyOnce
  BY DEF Init, RefundExactlyOnce
<1>2. TypeOK /\ RefundExactlyOnce /\ [Next]_registryVars => RefundExactlyOnce'
  BY RefundStep, RegistryAssumption
<1>. QED
  BY <1>1, <1>2, TypeCorrect, PTL DEF Spec

LEMMA RefusedStep ==
    ASSUME RegistryAssumption, TypeOK, RefusedRefundStaysOpen, [Next]_registryVars
    PROVE  RefusedRefundStaysOpen'
<1>. USE DEF RefusedRefundStaysOpen
<1>1. disputes \in Seq(Dispute) /\ DOMAIN disputes = 1 .. Len(disputes)
  BY DEF TypeOK
<1>2. disputes' \in Seq(Dispute) /\ DOMAIN disputes' = 1 .. Len(disputes')
  BY TypeStep DEF TypeOK
<1>3. CASE UNCHANGED disputeVars
  BY <1>3 DEF disputeVars
<1>4. ASSUME NEW who \in Accounts, NEW r \in Roots, NEW s \in Stakes,
             SubmitDispute(who, r, s)
      PROVE  RefusedRefundStaysOpen'
  <2>. SUFFICES ASSUME NEW e \in 1 .. Len(disputes'),
                       disputes'[e].disputer \in Refusers,
                       disputes'[e].counterStake # 0
                PROVE  disputes'[e].status \in {"PENDING", "DISMISSED"}
    BY <1>2
  <2>1. CASE e \in 1 .. Len(disputes)
    BY <1>1, <1>4, <2>1, SubmitDisputeEffect
  <2>2. CASE e = Len(disputes) + 1
    BY <1>4, <2>2, SubmitDisputeEffect
  <2>. QED
    BY <1>1, <1>4, <2>1, <2>2, SubmitDisputeEffect
<1>5. ASSUME NEW who \in Accounts, NEW d \in 1 .. MaxDisputes, NEW o \in Statuses,
             NEW v \in Verdicts, ResolveDispute(who, d, o, v)
      PROVE  RefusedRefundStaysOpen'
  <2>1. disputes[d] \in Dispute
    BY <1>1, <1>5, ResolveDisputeEffect
  <2>2. /\ disputes'[d].status = o
        /\ disputes'[d].disputer = disputes[d].disputer
        /\ disputes'[d].counterStake = disputes[d].counterStake
    BY <1>5, <2>1, ResolveDisputeEffect DEF Dispute
  <2>3. disputes[d].disputer \in Refusers /\ disputes[d].counterStake # 0
            => o = "DISMISSED"
    BY <1>5, ResolvePays, RefundCovered DEF Refund, Outcomes
  <2>. SUFFICES ASSUME NEW e \in 1 .. Len(disputes),
                       disputes'[e].disputer \in Refusers,
                       disputes'[e].counterStake # 0
                PROVE  disputes'[e].status \in {"PENDING", "DISMISSED"}
    BY <1>2, <1>5, ResolveDisputeEffect
  <2>4. CASE e # d
    BY <1>1, <1>5, <2>4, ResolveDisputeEffect
  <2>5. CASE e = d
    BY <2>2, <2>3, <2>5
  <2>. QED
    BY <2>4, <2>5
<1>. QED
  BY <1>3, <1>4, <1>5, DisputeCases

(* A disputer that refuses its refund keeps its dispute open: the whole    *)
(* resolveDispute reverts, so only a dismissal can ever close it.          *)
THEOREM RefusedRefunds == Spec => []RefusedRefundStaysOpen
<1>1. Init => RefusedRefundStaysOpen
  BY DEF Init, RefusedRefundStaysOpen
<1>2. TypeOK /\ RefusedRefundStaysOpen /\ [Next]_registryVars => RefusedRefundStaysOpen'
  BY RefusedStep, RegistryAssumption
<1>. QED
  BY <1>1, <1>2, TypeCorrect, PTL DEF Spec

LEMMA FinalStep ==
    ASSUME RegistryAssumption, TypeOK, [Next]_registryVars
    PROVE  /\ Len(disputes') >= Len(disputes)
           /\ \A d \in DOMAIN disputes :
                  /\ disputes[d].status # "PENDING" => disputes'[d] = disputes[d]
                  /\ disputes'[d].rootHash = disputes[d].rootHash
                  /\ disputes'[d].disputer = disputes[d].disputer
                  /\ disputes'[d].counterStake = disputes[d].counterStake
<1>1. disputes \in Seq(Dispute) /\ DOMAIN disputes = 1 .. Len(disputes)
  BY DEF TypeOK
<1>2. CASE UNCHANGED disputeVars
  BY <1>1, <1>2 DEF disputeVars
<1>3. ASSUME NEW who \in Accounts, NEW r \in Roots, NEW s \in Stakes,
             SubmitDispute(who, r, s)
      PROVE  /\ Len(disputes') >= Len(disputes)
             /\ \A d \in DOMAIN disputes : disputes'[d] = disputes[d]
  BY <1>1, <1>3, SubmitDisputeEffect
<1>4. ASSUME NEW who \in Accounts, NEW d \in 1 .. MaxDisputes, NEW o \in Statuses,
             NEW v \in Verdicts, ResolveDispute(who, d, o, v)
      PROVE  /\ Len(disputes') = Len(disputes)
             /\ disputes[d].status = "PENDING"
             /\ disputes'[d].rootHash = disputes[d].rootHash
             /\ disputes'[d].disputer = disputes[d].disputer
             /\ disputes'[d].counterStake = disputes[d].counterStake
             /\ \A e \in DOMAIN disputes : e # d => disputes'[e] = disputes[e]
  <2>1. disputes[d] \in Dispute
    BY <1>1, <1>4, ResolveDisputeEffect
  <2>. QED
    BY <1>1, <1>4, <2>1, ResolveDisputeEffect DEF Dispute
<1>. QED
  BY <1>1, <1>2, <1>3, <1>4, DisputeCases

(* No later call rewrites what was disputed or how it was decided.         *)
THEOREM VerdictsFinal == Spec => VerdictIsFinal
<1>1. TypeOK /\ [Next]_registryVars =>
          [/\ Len(disputes') >= Len(disputes)
           /\ \A d \in DOMAIN disputes :
                  /\ disputes[d].status # "PENDING" => disputes'[d] = disputes[d]
                  /\ disputes'[d].rootHash = disputes[d].rootHash
                  /\ disputes'[d].disputer = disputes[d].disputer
                  /\ disputes'[d].counterStake = disputes[d].counterStake]_registryVars
  BY FinalStep, RegistryAssumption
<1>. QED
  BY <1>1, TypeCorrect, PTL DEF Spec, VerdictIsFinal

-------------------------------------------------------------------------------
(***************************************************************************)
(* Accounting.  The inductive invariant adds that the units staked are a   *)
(* finite set, without which their number means nothing.                   *)
(***************************************************************************)

StakeInv ==
    /\ IsFiniteSet(UnitsOf(CounterStake, Unreturned))
    /\ StakesAccountedFor

LEMMA StakeStep ==
    ASSUME RegistryAssumption, TypeOK, StakeInv, [Next]_registryVars
    PROVE  StakeInv'
<1>. USE DEF StakeInv, StakesAccountedFor, StakeOf
<1>1. disputes \in Seq(Dispute) /\ DOMAIN disputes = 1 .. Len(disputes)
  BY DEF TypeOK
<1>2. disputes' \in Seq(Dispute) /\ DOMAIN disputes' = 1 .. Len(disputes')
  BY TypeStep DEF TypeOK
<1>3. balance \in Nat /\ swept \in Nat
  BY DEF TypeOK
<1>4. \A d \in DOMAIN disputes : CounterStake[d] = disputes[d].counterStake
  BY DEF CounterStake
<1>5. \A d \in DOMAIN disputes' : CounterStake'[d] = disputes'[d].counterStake
  BY DEF CounterStake
<1>6. Unreturned = {d \in DOMAIN disputes : disputes[d].status \in {"PENDING", "DISMISSED"}}
  BY DEF Unreturned, WithStatus
<1>7. Unreturned' =
        {d \in DOMAIN disputes' : disputes'[d].status \in {"PENDING", "DISMISSED"}}
  BY DEF Unreturned, WithStatus
<1>8. ASSUME UNCHANGED <<disputes, balance, swept>>
      PROVE  StakeInv'
  BY <1>8 DEF CounterStake, Unreturned, WithStatus
<1>9. ASSUME NEW who \in Accounts, NEW r \in Roots, NEW s \in Stakes,
             SubmitDispute(who, r, s)
      PROVE  StakeInv'
  <2>. DEFINE n == Len(disputes) + 1
  <2>0. /\ Len(disputes) \in Nat
        /\ DOMAIN disputes' = 1 .. n
        /\ disputes'[n].status = "PENDING"
        /\ disputes'[n].counterStake = s
        /\ \A e \in DOMAIN disputes : disputes'[e] = disputes[e]
    <3>1. /\ Len(disputes') = Len(disputes) + 1
          /\ disputes'[Len(disputes) + 1].status = "PENDING"
          /\ disputes'[Len(disputes) + 1].counterStake = s
          /\ \A e \in 1 .. Len(disputes) : disputes'[e] = disputes[e]
      BY <1>9, SubmitDisputeEffect
    <3>. QED
      BY <1>1, <1>2, <3>1
  <2>1. /\ n \notin Unreturned
        /\ Unreturned' = Unreturned \cup {n}
        /\ \A d \in Unreturned : CounterStake[d] = CounterStake'[d]
        /\ CounterStake'[n] = s
    <3>1. n \notin Unreturned
      BY <1>1, <1>6, <2>0
    <3>2. n \in DOMAIN disputes' /\ DOMAIN disputes' = DOMAIN disputes \cup {n}
      BY <1>1, <2>0
    <3>3. Unreturned' = Unreturned \cup {n}
      BY <1>6, <1>7, <2>0, <3>2
    <3>4. \A d \in Unreturned : CounterStake[d] = CounterStake'[d]
      BY <1>4, <1>5, <1>6, <2>0, <3>2
    <3>5. CounterStake'[n] = s
      BY <1>5, <2>0, <3>2
    <3>. QED
      BY <3>1, <3>3, <3>4, <3>5
  <2>2. s \in Nat
    BY DEF RegistryAssumption
  <2>. HIDE DEF n
  <2>3. /\ UnitsOf(CounterStake', Unreturned) = UnitsOf(CounterStake, Unreturned)
        /\ TotalOf(CounterStake', Unreturned) = TotalOf(CounterStake, Unreturned)
    BY <2>1, TotalSame
  <2>4. /\ IsFiniteSet(UnitsOf(CounterStake', Unreturned \cup {n}))
        /\ TotalOf(CounterStake', Unreturned \cup {n})
               = TotalOf(CounterStake', Unreturned) + CounterStake'[n]
    BY <2>1, <2>2, <2>3, TotalAdd
  <2>5. balance' = balance + s /\ swept' = swept
    BY <1>9 DEF SubmitDispute
  <2>6. TotalOf(CounterStake', Unreturned') = balance + swept + s
    BY <2>1, <2>3, <2>4
  <2>. QED
    BY <1>3, <2>1, <2>2, <2>4, <2>5, <2>6
<1>10. ASSUME NEW who \in Accounts, NEW d \in 1 .. MaxDisputes, NEW o \in Statuses,
              NEW v \in Verdicts, ResolveDispute(who, d, o, v)
       PROVE  StakeInv'
  <2>0. /\ DOMAIN disputes' = DOMAIN disputes
        /\ d \in DOMAIN disputes
        /\ disputes[d].status = "PENDING"
        /\ disputes'[d].status = o
        /\ \A e \in DOMAIN disputes : e # d => disputes'[e] = disputes[e]
        /\ \A e \in DOMAIN disputes : disputes'[e].counterStake = disputes[e].counterStake
    <3>1. /\ d \in 1 .. Len(disputes) /\ Len(disputes') = Len(disputes)
          /\ disputes[d].status = "PENDING" /\ disputes'[d].status = o
          /\ disputes'[d].counterStake = disputes[d].counterStake
          /\ \A e \in 1 .. Len(disputes) : e # d => disputes'[e] = disputes[e]
      BY <1>10, ResolveDisputeEffect
    <3>. QED
      BY <1>1, <1>2, <3>1
  <2>1. \A e \in DOMAIN disputes : CounterStake'[e] = CounterStake[e]
    BY <1>4, <1>5, <2>0
  <2>2. /\ balance' = balance - Refund(d, o) /\ swept' = swept
        /\ Refund(d, o) \in Nat
    BY <1>10, RefundCovered DEF ResolveDispute
  <2>3. CASE o = "DISMISSED"
    <3>1. Unreturned' = Unreturned
      BY <1>6, <1>7, <2>0, <2>3
    <3>2. /\ UnitsOf(CounterStake, Unreturned) = UnitsOf(CounterStake', Unreturned)
          /\ TotalOf(CounterStake, Unreturned) = TotalOf(CounterStake', Unreturned)
      BY <1>6, <2>1, TotalSame
    <3>3. Refund(d, o) = 0
      BY <2>3 DEF Refund
    <3>. QED
      BY <1>3, <2>2, <3>1, <3>2, <3>3
  <2>4. CASE o \in {"AMENDED", "RETRACTED"}
    <3>1. /\ d \in Unreturned
          /\ Unreturned' = Unreturned \ {d}
      BY <1>6, <1>7, <2>0, <2>4
    <3>2. Refund(d, o) = CounterStake[d]
      BY <1>1, <1>4, <1>10, <2>4, ResolveDisputeEffect DEF Refund
    <3>3. /\ IsFiniteSet(UnitsOf(CounterStake, Unreturned \ {d}))
          /\ TotalOf(CounterStake, Unreturned \ {d})
                 = TotalOf(CounterStake, Unreturned) - CounterStake[d]
      BY <2>2, <3>1, <3>2, TotalRemove
    <3>4. /\ UnitsOf(CounterStake, Unreturned \ {d}) = UnitsOf(CounterStake', Unreturned \ {d})
          /\ TotalOf(CounterStake, Unreturned \ {d}) = TotalOf(CounterStake', Unreturned \ {d})
      BY <1>6, <2>1, TotalSame
    <3>5. TotalOf(CounterStake', Unreturned') = balance + swept - Refund(d, o)
      <4>1. TotalOf(CounterStake', Unreturned') = TotalOf(CounterStake, Unreturned \ {d})
        BY <3>1, <3>4
      <4>2. TotalOf(CounterStake, Unreturned) = balance + swept
        OBVIOUS
      <4>. QED
        BY <1>3, <2>2, <3>2, <3>3, <4>1, <4>2
    <3>. QED
      BY <1>3, <2>2, <3>1, <3>3, <3>4, <3>5
  <2>. QED
    BY <1>10, <2>3, <2>4, ResolvePays DEF Outcomes
<1>11. ASSUME NEW who \in Accounts, NEW to \in Accounts, SweepForfeited(who, to)
       PROVE  StakeInv'
  <2>1. /\ disputes' = disputes
        /\ swept' = swept + balance
        /\ balance' = 0
    BY <1>11 DEF SweepForfeited, disputeVars
  <2>2. CounterStake' = CounterStake /\ Unreturned' = Unreturned
    BY <2>1 DEF CounterStake, Unreturned, WithStatus
  <2>. QED
    BY <1>3, <2>1, <2>2
<1>12. \/ UNCHANGED <<disputes, balance, swept>>
       \/ \E who \in Accounts, r \in Roots, s \in Stakes : SubmitDispute(who, r, s)
       \/ \E who \in Accounts, d \in 1 .. MaxDisputes, o \in Statuses, v \in Verdicts :
              ResolveDispute(who, d, o, v)
       \/ \E who, to \in Accounts : SweepForfeited(who, to)
  BY DEF Next, AuditStep, DisputeStep, ResolveStep, SweepStep, AdminStep,
     MemoryStep, SubmitAudit, SetAgent, SetAuditor, UpdateMemoryRoot,
     registryVars, disputeVars, fundVars
<1>. QED
  BY <1>8, <1>9, <1>10, <1>11, <1>12

(* What the registry holds and what the owner took out of it are at every  *)
(* moment the counter-stakes of the disputes that got no refund.           *)
THEOREM StakesAccounted == Spec => []StakesAccountedFor
<1>1. Init => StakeInv
  <2>. SUFFICES ASSUME Init PROVE StakeInv
    OBVIOUS
  <2>1. Unreturned = {}
    BY DEF Init, Unreturned, WithStatus
  <2>2. balance = 0 /\ swept = 0
    BY DEF Init
  <2>. QED
    BY <2>1, <2>2, TotalEmpty DEF StakeInv, StakesAccountedFor, StakeOf
<1>2. TypeOK /\ StakeInv /\ [Next]_registryVars => StakeInv'
  BY StakeStep, RegistryAssumption
<1>3. StakeInv => StakesAccountedFor
  BY DEF StakeInv
<1>. QED
  BY <1>1, <1>2, <1>3, TypeCorrect, PTL DEF Spec

-------------------------------------------------------------------------------
(***************************************************************************)
(* The audit indexes and the log.                                          *)
(***************************************************************************)

(* submitAudit, as the audit variables see it. *)
LEMMA SubmitAuditEffect ==
    ASSUME TypeOK, NEW who \in Accounts, NEW t \in Targets, NEW k \in Tiers,
           NEW r \in Roots, SubmitAudit(who, t, k, r)
    PROVE  /\ latest'[t].rootHash = r /\ latest'[t].tier = k /\ latest'[t] # NoReport
           /\ \A u \in Targets : u # t => latest'[u] = latest[u]
           /\ auditTier'[r] = k /\ auditTarget'[r] = t
           /\ \A q \in Roots : q # r => /\ auditTier'[q] = auditTier[q]
                                       /\ auditTarget'[q] = auditTarget[q]
           /\ auditCount'[t] = auditCount[t] + 1
           /\ \A u \in Targets : u # t => auditCount'[u] = auditCount[u]
           /\ Len(log') = Len(log) + 1
           /\ log'[Len(log) + 1].target = t
           /\ log'[Len(log) + 1].rootHash = r
           /\ log'[Len(log) + 1].tier = k
           /\ \A i \in 1 .. Len(log) : log'[i] = log[i]
<1>. DEFINE rep == [rootHash |-> r, tier |-> k, submitter |-> who]
            evt == [target |-> t, rootHash |-> r, tier |-> k]
<1>1. /\ latest' = [latest EXCEPT ![t] = rep]
      /\ auditTier' = [auditTier EXCEPT ![r] = k]
      /\ auditTarget' = [auditTarget EXCEPT ![r] = t]
      /\ auditCount' = [auditCount EXCEPT ![t] = auditCount[t] + 1]
      /\ log' = Append(log, evt)
  BY DEF SubmitAudit, RecordAudit
<1>2. evt \in Event /\ log \in Seq(Event)
  BY DEF Event, TypeOK
<1>3. rep.rootHash = r /\ rep.tier = k /\ k # 0
  BY DEF Tiers
<1>4. rep # NoReport
  BY <1>3 DEF NoReport
<1>5. evt.target = t /\ evt.rootHash = r /\ evt.tier = k
  OBVIOUS
<1>. HIDE DEF rep, evt
<1>6. /\ Len(log') = Len(log) + 1
      /\ log'[Len(log) + 1] = evt
      /\ \A i \in 1 .. Len(log) : log'[i] = log[i]
  BY <1>1, <1>2, AppendProperties
<1>7. /\ latest'[t] = rep
      /\ \A u \in Targets : u # t => latest'[u] = latest[u]
  BY <1>1 DEF TypeOK
<1>8. /\ auditTier'[r] = k /\ auditTarget'[r] = t
      /\ \A q \in Roots : q # r => /\ auditTier'[q] = auditTier[q]
                                  /\ auditTarget'[q] = auditTarget[q]
  BY <1>1 DEF TypeOK
<1>9. /\ auditCount'[t] = auditCount[t] + 1
      /\ \A u \in Targets : u # t => auditCount'[u] = auditCount[u]
  BY <1>1 DEF TypeOK
<1>. QED
  BY <1>3, <1>4, <1>5, <1>6, <1>7, <1>8, <1>9

LEMMA IndexStep ==
    ASSUME RegistryAssumption, TypeOK, IndexAgreesWithHead, [Next]_registryVars
    PROVE  IndexAgreesWithHead'
<1>. USE DEF IndexAgreesWithHead
<1>1. CASE UNCHANGED auditVars
  BY <1>1 DEF auditVars
<1>2. ASSUME NEW who \in Accounts, NEW t \in Targets, NEW k \in Tiers,
             NEW r \in Roots, SubmitAudit(who, t, k, r)
      PROVE  IndexAgreesWithHead'
  <2>1. /\ latest'[t].rootHash = r /\ latest'[t].tier = k /\ latest'[t] # NoReport
        /\ \A u \in Targets : u # t => latest'[u] = latest[u]
        /\ auditTier'[r] = k /\ auditTarget'[r] = t
        /\ \A q \in Roots : q # r => /\ auditTier'[q] = auditTier[q]
                                    /\ auditTarget'[q] = auditTarget[q]
    BY <1>2, SubmitAuditEffect
  <2>2. k # 0
    BY DEF Tiers
  <2>. SUFFICES ASSUME NEW q \in Roots
                PROVE  IF auditTier'[q] = 0
                       THEN auditTarget'[q] = None
                       ELSE /\ auditTarget'[q] \in Targets
                            /\ latest'[auditTarget'[q]] # NoReport
                            /\ latest'[auditTarget'[q]].rootHash = q =>
                                   latest'[auditTarget'[q]].tier = auditTier'[q]
    OBVIOUS
  <2>3. CASE q = r
    BY <2>1, <2>2, <2>3
  <2>4. CASE q # r /\ auditTarget[q] = t
    BY <2>1, <2>4, RegistryAssumption
  <2>5. CASE q # r /\ auditTarget[q] # t
    BY <2>1, <2>5
  <2>. QED
    BY <2>3, <2>4, <2>5
<1>. QED
  BY <1>1, <1>2, AuditCases

(* Whatever is anchored over it, a root the registry knows leads to a      *)
(* target with a head, and a head agrees with the index on its tier.       *)
THEOREM IndexesAgree == Spec => []IndexAgreesWithHead
<1>1. Init => IndexAgreesWithHead
  BY DEF Init, IndexAgreesWithHead
<1>2. TypeOK /\ IndexAgreesWithHead /\ [Next]_registryVars => IndexAgreesWithHead'
  BY IndexStep, RegistryAssumption
<1>. QED
  BY <1>1, <1>2, TypeCorrect, PTL DEF Spec

(* Strengthening of DisputesTargetTier2: a tier in the index is the tier   *)
(* of an event of that root, so a dispute accepted now is about an audit   *)
(* already logged as Tier 2.                                               *)
TiersLogged ==
    \A r \in Roots : auditTier[r] # 0 =>
        \E i \in DOMAIN log : log[i].rootHash = r /\ log[i].tier = auditTier[r]

LEMMA Tier2Step ==
    ASSUME RegistryAssumption, TypeOK, TiersLogged, DisputesTargetTier2,
           [Next]_registryVars
    PROVE  TiersLogged' /\ DisputesTargetTier2'
<1>1. /\ log \in Seq(Event) /\ DOMAIN log = 1 .. Len(log) /\ Len(log) \in Nat
      /\ disputes \in Seq(Dispute) /\ DOMAIN disputes = 1 .. Len(disputes)
      /\ Len(disputes) \in Nat
  BY DEF TypeOK
<1>2. /\ log' \in Seq(Event) /\ DOMAIN log' = 1 .. Len(log')
      /\ disputes' \in Seq(Dispute) /\ DOMAIN disputes' = 1 .. Len(disputes')
  BY TypeStep DEF TypeOK
<1>3. TiersLogged' /\ DOMAIN log \subseteq DOMAIN log'
                   /\ \A i \in DOMAIN log : log'[i] = log[i]
  <2>1. CASE UNCHANGED auditVars
    BY <2>1 DEF auditVars, TiersLogged
  <2>2. ASSUME NEW who \in Accounts, NEW t \in Targets, NEW k \in Tiers,
               NEW r \in Roots, SubmitAudit(who, t, k, r)
        PROVE  TiersLogged' /\ DOMAIN log \subseteq DOMAIN log'
                            /\ \A i \in DOMAIN log : log'[i] = log[i]
    <3>1. /\ auditTier'[r] = k
          /\ \A q \in Roots : q # r => auditTier'[q] = auditTier[q]
          /\ Len(log') = Len(log) + 1
          /\ log'[Len(log) + 1].rootHash = r
          /\ log'[Len(log) + 1].tier = k
          /\ \A i \in 1 .. Len(log) : log'[i] = log[i]
      BY <2>2, SubmitAuditEffect
    <3>2. /\ DOMAIN log \subseteq DOMAIN log'
          /\ Len(log) + 1 \in DOMAIN log'
          /\ \A i \in DOMAIN log : log'[i] = log[i]
      BY <1>1, <1>2, <3>1
    <3>3. TiersLogged'
      <4>. SUFFICES ASSUME NEW q \in Roots, auditTier'[q] # 0
                    PROVE  \E i \in DOMAIN log' : /\ log'[i].rootHash = q
                                                  /\ log'[i].tier = auditTier'[q]
        BY DEF TiersLogged
      <4>1. CASE q = r
        BY <3>1, <3>2, <4>1
      <4>2. CASE q # r
        BY <3>1, <3>2, <4>2 DEF TiersLogged
      <4>. QED
        BY <4>1, <4>2
    <3>. QED
      BY <3>2, <3>3
  <2>. QED
    BY <2>1, <2>2, AuditCases
<1>4. ASSUME NEW e \in DOMAIN disputes
      PROVE  \E i \in DOMAIN log' : /\ log'[i].rootHash = disputes[e].rootHash
                                    /\ log'[i].tier = 2
  BY <1>3, <1>4 DEF DisputesTargetTier2
<1>5. CASE UNCHANGED disputeVars
  BY <1>3, <1>4, <1>5 DEF disputeVars, DisputesTargetTier2
<1>6. ASSUME NEW who \in Accounts, NEW r \in Roots, NEW s \in Stakes,
             SubmitDispute(who, r, s)
      PROVE  DisputesTargetTier2'
  <2>1. /\ Len(disputes') = Len(disputes) + 1
        /\ disputes'[Len(disputes) + 1].rootHash = r
        /\ \A e \in 1 .. Len(disputes) : disputes'[e] = disputes[e]
    BY <1>6, SubmitDisputeEffect
  <2>2. \E i \in DOMAIN log : log[i].rootHash = r /\ log[i].tier = 2
    BY <1>6 DEF SubmitDispute, Disputable, TiersLogged
  <2>. SUFFICES ASSUME NEW e \in 1 .. Len(disputes')
                PROVE  \E i \in DOMAIN log' : /\ log'[i].rootHash = disputes'[e].rootHash
                                              /\ log'[i].tier = 2
    BY <1>2 DEF DisputesTargetTier2
  <2>3. CASE e \in 1 .. Len(disputes)
    BY <1>1, <1>4, <2>1, <2>3
  <2>4. CASE e = Len(disputes) + 1
    BY <1>3, <2>1, <2>2, <2>4
  <2>. QED
    BY <1>1, <2>1, <2>3, <2>4
<1>7. ASSUME NEW who \in Accounts, NEW d \in 1 .. MaxDisputes, NEW o \in Statuses,
             NEW v \in Verdicts, ResolveDispute(who, d, o, v)
      PROVE  DisputesTargetTier2'
  <2>1. /\ DOMAIN disputes' = DOMAIN disputes
        /\ \A e \in DOMAIN disputes : disputes'[e].rootHash = disputes[e].rootHash
    BY <1>1, <1>2, <1>7, FinalStep, ResolveDisputeEffect
  <2>. QED
    BY <1>4, <2>1 DEF DisputesTargetTier2
<1>. QED
  BY <1>3, <1>5, <1>6, <1>7, DisputeCases

(* Every dispute is about a root that was anchored as a Tier 2 audit.      *)
THEOREM OnlyTier2Disputed == Spec => []DisputesTargetTier2
<1>1. Init => TiersLogged /\ DisputesTargetTier2
  BY DEF Init, TiersLogged, DisputesTargetTier2
<1>2. TypeOK /\ TiersLogged /\ DisputesTargetTier2 /\ [Next]_registryVars
          => TiersLogged' /\ DisputesTargetTier2'
  BY Tier2Step, RegistryAssumption
<1>. QED
  BY <1>1, <1>2, TypeCorrect, PTL DEF Spec

LEMMA ReplayStep ==
    ASSUME RegistryAssumption, TypeOK, LogReplaysHeads, [Next]_registryVars
    PROVE  LogReplaysHeads'
<1>1. /\ log \in Seq(Event) /\ DOMAIN log = 1 .. Len(log) /\ Len(log) \in Nat
      /\ auditCount \in [Targets -> Nat]
  BY DEF TypeOK
<1>2. DOMAIN log' = 1 .. Len(log')
  BY TypeStep DEF TypeOK
<1>3. CASE UNCHANGED auditVars
  BY <1>3 DEF auditVars, LogReplaysHeads, Logged
<1>4. ASSUME NEW who \in Accounts, NEW t \in Targets, NEW k \in Tiers,
             NEW r \in Roots, SubmitAudit(who, t, k, r)
      PROVE  LogReplaysHeads'
  <2>. DEFINE n == Len(log) + 1
  <2>1. /\ latest'[t].rootHash = r /\ latest'[t].tier = k /\ latest'[t] # NoReport
        /\ \A u \in Targets : u # t => latest'[u] = latest[u]
        /\ auditCount'[t] = auditCount[t] + 1
        /\ \A u \in Targets : u # t => auditCount'[u] = auditCount[u]
        /\ Len(log') = n
        /\ log'[n].target = t
        /\ log'[n].rootHash = r
        /\ log'[n].tier = k
        /\ \A i \in 1 .. Len(log) : log'[i] = log[i]
    BY <1>4, SubmitAuditEffect
  <2>2. /\ n \notin DOMAIN log /\ DOMAIN log' = DOMAIN log \cup {n}
        /\ \A i \in DOMAIN log' : i <= n /\ i \in Int
        /\ n \in Int
    BY <1>1, <1>2, <2>1
  <2>. HIDE DEF n
  <2>. SUFFICES ASSUME NEW u \in Targets
                PROVE  /\ auditCount'[u] = Cardinality(Logged(u)')
                       /\ latest'[u] # NoReport <=> Logged(u)' # {}
                       /\ \A i \in Logged(u)' :
                              (\A j \in Logged(u)' : j <= i) =>
                                  /\ latest'[u].rootHash = log'[i].rootHash
                                  /\ latest'[u].tier = log'[i].tier
    BY DEF LogReplaysHeads
  <2>3. Logged(u) \subseteq DOMAIN log
    BY DEF Logged
  <2>4. CASE u = t
    <3>1. Logged(u)' = Logged(u) \cup {n} /\ n \notin Logged(u)
      BY <1>1, <2>1, <2>2, <2>4 DEF Logged
    <3>2. IsFiniteSet(Logged(u))
      <4>1. 1 \in Int /\ Len(log) \in Int
        BY <1>1
      <4>2. IsFiniteSet(1 .. Len(log))
        BY <4>1, FS_Interval
      <4>. QED
        BY <1>1, <2>3, <4>2, FS_Subset
    <3>3. Cardinality(Logged(u) \cup {n}) = Cardinality(Logged(u)) + 1
      BY <3>1, <3>2, FS_AddElement
    <3>4. auditCount'[u] = Cardinality(Logged(u)')
      BY <2>1, <2>4, <3>1, <3>3 DEF LogReplaysHeads
    <3>5. ASSUME NEW i \in Logged(u)', \A j \in Logged(u)' : j <= i
          PROVE  i = n
      <4>1. n <= i
        BY <3>1, <3>5
      <4>2. i \in DOMAIN log'
        BY <2>2, <2>3, <3>1
      <4>. QED
        BY <2>2, <4>1, <4>2
    <3>. QED
      BY <2>1, <2>4, <3>1, <3>4, <3>5
  <2>5. CASE u # t
    <3>1. Logged(u)' = Logged(u)
      BY <1>1, <2>1, <2>2, <2>5 DEF Logged
    <3>2. \A i \in Logged(u) : log'[i] = log[i]
      BY <1>1, <2>1, <2>3
    <3>. QED
      BY <2>1, <2>5, <3>1, <3>2 DEF LogReplaysHeads
  <2>. QED
    BY <2>4, <2>5
<1>. QED
  BY <1>3, <1>4, AuditCases

(* The event log determines every head and every count, so a reader that   *)
(* replays AuditSubmitted events agrees with getAudit and auditCount.      *)
THEOREM LogReplays == Spec => []LogReplaysHeads
<1>1. ASSUME Init PROVE LogReplaysHeads
  <2>1. \A t \in Targets : Logged(t) = {} /\ auditCount[t] = 0 /\ latest[t] = NoReport
    BY <1>1 DEF Init, Logged
  <2>2. Cardinality({}) = 0
    BY FS_EmptySet
  <2>. QED
    BY <2>1, <2>2 DEF LogReplaysHeads
<1>2. TypeOK /\ LogReplaysHeads /\ [Next]_registryVars => LogReplaysHeads'
  BY ReplayStep, RegistryAssumption
<1>. QED
  BY <1>1, <1>2, TypeCorrect, PTL DEF Spec

LEMMA MemoryStepEffect ==
    ASSUME RegistryAssumption, TypeOK, [Next]_registryVars
    PROVE  /\ log' # log /\ agent # None =>
                  memory'[agent] = Append(memory[agent], log'[Len(log')].rootHash)
           /\ \A a \in Agents :
                  memory'[a] # memory[a] /\ auditor[a] = "registry" =>
                      a = agent /\ log' # log
<1>1. log \in Seq(Event) /\ Len(log) \in Nat /\ memory \in [Agents -> Seq(Roots)]
  BY DEF TypeOK
<1>2. ASSUME NEW who \in Accounts, NEW t \in Targets, NEW k \in Tiers,
             NEW r \in Roots, SubmitAudit(who, t, k, r)
      PROVE  /\ log' # log /\ log'[Len(log')].rootHash = r
             /\ agent # None => memory'[agent] = Append(memory[agent], r)
             /\ \A a \in Agents : memory'[a] # memory[a] => a = agent
  <2>1. Len(log') = Len(log) + 1 /\ log'[Len(log) + 1].rootHash = r
    BY <1>2, SubmitAuditEffect
  <2>2. CASE agent = None
    BY <1>1, <1>2, <2>1, <2>2 DEF SubmitAudit, AdvanceAgent, RegistryAssumption
  <2>3. CASE agent # None
    <3>1. agent \in Agents
      BY <2>3 DEF TypeOK
    <3>2. memory' = [memory EXCEPT ![agent] = Append(memory[agent], r)]
      BY <1>2, <2>3 DEF SubmitAudit, AdvanceAgent, AdvanceMemory
    <3>. QED
      BY <1>1, <2>1, <3>1, <3>2
  <2>. QED
    BY <2>2, <2>3
<1>3. ASSUME NEW b \in Agents, NEW r \in Roots, UpdateMemoryRoot(b, r)
      PROVE  /\ log' = log
             /\ \A a \in Agents : memory'[a] # memory[a] => auditor[a] = "other"
  BY <1>1, <1>3 DEF UpdateMemoryRoot, AdvanceMemory, auditVars
<1>4. \/ log' = log /\ memory' = memory
      \/ \E b \in Agents, r \in Roots : UpdateMemoryRoot(b, r)
      \/ \E who \in Accounts, t \in Targets, k \in Tiers, r \in Roots :
             SubmitAudit(who, t, k, r)
  BY DEF Next, AuditStep, DisputeStep, ResolveStep, SweepStep, AdminStep, MemoryStep,
     SubmitAudit, ValidTier, SubmitDispute, ResolveDispute, SweepForfeited, SetAgent,
     SetAuditor, registryVars, auditVars, agentVars
<1>. QED
  BY <1>2, <1>3, <1>4

(* An agent's memory and the audit log advance together: no audit is       *)
(* anchored past a linked agent, and an agent audited by the registry      *)
(* remembers nothing that was not anchored.                                *)
THEOREM MemoryCompounds == Spec => MemoryFollowsLog
<1>1. TypeOK /\ [Next]_registryVars =>
          [/\ log' # log /\ agent # None =>
                  memory'[agent] = Append(memory[agent], log'[Len(log')].rootHash)
           /\ \A a \in Agents :
                  memory'[a] # memory[a] /\ auditor[a] = "registry" =>
                      a = agent /\ log' # log]_registryVars
  BY MemoryStepEffect, RegistryAssumption
<1>. QED
  BY <1>1, TypeCorrect, PTL DEF Spec, MemoryFollowsLog

-------------------------------------------------------------------------------
(***************************************************************************)
(* The dispute lists by root.                                              *)
(***************************************************************************)

(* What submitDispute appends to the list of a root is the position of the *)
(* new dispute, which no list holds yet and which is above all it holds.   *)
LEMMA DisputeIndexStep ==
    ASSUME RegistryAssumption, TypeOK, DisputeIndexExact, [Next]_registryVars
    PROVE  DisputeIndexExact'
<1>1. /\ disputes \in Seq(Dispute) /\ DOMAIN disputes = 1 .. Len(disputes)
      /\ Len(disputes) \in Nat /\ disputesByRoot \in [Roots -> Seq(Nat)]
  BY DEF TypeOK
<1>2. disputes' \in Seq(Dispute) /\ DOMAIN disputes' = 1 .. Len(disputes')
  BY TypeStep DEF TypeOK
<1>3. CASE UNCHANGED disputeVars
  BY <1>3 DEF disputeVars, DisputeIndexExact
<1>4. ASSUME NEW who \in Accounts, NEW r \in Roots, NEW s \in Stakes,
             SubmitDispute(who, r, s)
      PROVE  DisputeIndexExact'
  <2>. DEFINE n == Len(disputes) + 1
              list == disputesByRoot[r]
  <2>1. /\ Len(disputes') = n /\ disputes'[n].rootHash = r
        /\ \A d \in DOMAIN disputes : disputes'[d] = disputes[d]
    BY <1>1, <1>4, SubmitDisputeEffect
  <2>2. disputesByRoot' = [disputesByRoot EXCEPT ![r] = Append(list, n)]
    BY <1>4 DEF SubmitDispute
  <2>3. /\ DOMAIN disputes' = DOMAIN disputes \cup {n} /\ n \in Nat
        /\ \A d \in DOMAIN disputes : d < n /\ d # n
    BY <1>1, <1>2, <2>1
  <2>4. list \in Seq(Nat) /\ Len(list) \in Nat /\ DOMAIN list = 1 .. Len(list)
    BY <1>1
  <2>. HIDE DEF n
  <2>. SUFFICES ASSUME NEW q \in Roots
                PROVE  LET ids == disputesByRoot'[q] IN
                       /\ {ids[i] : i \in DOMAIN ids} =
                              {d \in DOMAIN disputes' : disputes'[d].rootHash = q}
                       /\ \A i, j \in DOMAIN ids : i < j => ids[i] < ids[j]
    BY DEF DisputeIndexExact
  <2>5. CASE q # r
    <3>1. disputesByRoot'[q] = disputesByRoot[q]
      BY <1>1, <2>2, <2>5
    <3>2. {d \in DOMAIN disputes' : disputes'[d].rootHash = q} =
              {d \in DOMAIN disputes : disputes[d].rootHash = q}
      BY <2>1, <2>3, <2>5
    <3>. QED
      BY <3>1, <3>2 DEF DisputeIndexExact
  <2>6. CASE q = r
    <3>. DEFINE new == Append(list, n)
    <3>1. /\ new \in Seq(Nat) /\ Len(new) = Len(list) + 1 /\ new[Len(list) + 1] = n
          /\ \A i \in 1 .. Len(list) : new[i] = list[i]
      BY <2>3, <2>4, AppendProperties
    <3>2. DOMAIN new = DOMAIN list \cup {Len(list) + 1}
      BY <2>4, <3>1
    <3>3. disputesByRoot'[q] = new
      BY <1>1, <2>2, <2>6
    <3>4. /\ {list[i] : i \in DOMAIN list} =
                 {d \in DOMAIN disputes : disputes[d].rootHash = r}
          /\ \A i, j \in DOMAIN list : i < j => list[i] < list[j]
      BY DEF DisputeIndexExact
    <3>. HIDE DEF new
    <3>5. {new[i] : i \in DOMAIN new} = {list[i] : i \in DOMAIN list} \cup {n}
      <4>1. \A i \in DOMAIN list : new[i] = list[i]
        BY <2>4, <3>1
      <4>2. new[Len(list) + 1] = n
        BY <3>1
      <4>. QED
        BY <3>2, <4>1, <4>2
    <3>6. {d \in DOMAIN disputes' : disputes'[d].rootHash = r} =
              {d \in DOMAIN disputes : disputes[d].rootHash = r} \cup {n}
      BY <2>1, <2>3
    <3>7. \A i \in DOMAIN list : list[i] < n
      BY <2>3, <3>4
    <3>8. ASSUME NEW i \in DOMAIN new, NEW j \in DOMAIN new, i < j
          PROVE  new[i] < new[j]
      <4>1. i \in DOMAIN list
        BY <2>4, <3>2, <3>8
      <4>2. CASE j \in DOMAIN list
        BY <2>4, <3>1, <3>4, <3>8, <4>1, <4>2
      <4>3. CASE j = Len(list) + 1
        BY <2>4, <3>1, <3>7, <4>1, <4>3
      <4>. QED
        BY <3>2, <4>2, <4>3
    <3>. QED
      BY <2>6, <3>3, <3>4, <3>5, <3>6, <3>8
  <2>. QED
    BY <2>5, <2>6
<1>5. ASSUME NEW who \in Accounts, NEW d \in 1 .. MaxDisputes, NEW o \in Statuses,
             NEW v \in Verdicts, ResolveDispute(who, d, o, v)
      PROVE  DisputeIndexExact'
  <2>1. disputesByRoot' = disputesByRoot
    BY <1>5 DEF ResolveDispute
  <2>2. DOMAIN disputes' = DOMAIN disputes
    BY <1>1, <1>2, <1>5, ResolveDisputeEffect
  <2>3. \A e \in DOMAIN disputes : disputes'[e].rootHash = disputes[e].rootHash
    BY <1>1, <1>5, ResolveDisputeEffect
  <2>. QED
    BY <2>1, <2>2, <2>3 DEF DisputeIndexExact
<1>. QED
  BY <1>3, <1>4, <1>5, DisputeCases

(* getDisputesForRoot lists the disputes of a root, each once and in the   *)
(* order they were filed, whatever else is anchored, resolved or swept.    *)
THEOREM DisputeIndexes == Spec => []DisputeIndexExact
<1>1. ASSUME Init PROVE DisputeIndexExact
  <2>1. \A r \in Roots : disputesByRoot[r] = <<>>
    BY <1>1 DEF Init
  <2>2. DOMAIN disputes = {}
    BY <1>1 DEF Init
  <2>. QED
    BY <2>1, <2>2 DEF DisputeIndexExact
<1>2. TypeOK /\ DisputeIndexExact /\ [Next]_registryVars => DisputeIndexExact'
  BY DisputeIndexStep, RegistryAssumption
<1>. QED
  BY <1>1, <1>2, TypeCorrect, PTL DEF Spec

(* The registry's records agree with each other in every reachable state:  *)
(* heads, indexes by root, counters, events and dispute lists.             *)
THEOREM RecordsAgree == Spec => []RecordsConsistent
<1>1. IndexAgreesWithHead /\ LogReplaysHeads /\ DisputesTargetTier2
          /\ DisputeIndexExact => RecordsConsistent
  BY DEF RecordsConsistent
<1>. QED
  BY <1>1, IndexesAgree, LogReplays, OnlyTier2Disputed, DisputeIndexes, PTL

(* Every refund was made once, for its verdict, to a disputer that took it, *)
(* and the stakes not refunded are in the registry or were swept.           *)
THEOREM RefundsSettle == Spec => []RefundsSettled
<1>1. RefundExactlyOnce /\ RefusedRefundStaysOpen /\ StakesAccountedFor => RefundsSettled
  BY DEF RefundsSettled
<1>. QED
  BY <1>1, RefundsExact, RefusedRefunds, StakesAccounted, PTL

-------------------------------------------------------------------------------
(***************************************************************************)
(* The runs that share the oracle key: their inductive invariant.          *)
(***************************************************************************)

(* What the resolver finds by walking from a dispute to the head of the    *)
(* disputed report's target: every disputed root was anchored.             *)
DisputedKnown ==
    \A d \in DOMAIN disputes : auditTier[disputes[d].rootHash] # 0

RegistryInv == TypeOK /\ IndexAgreesWithHead /\ DisputedKnown

(* A call that the engine may broadcast. *)
Complete(call) ==
    \/ call \in AuditCall
    \/ /\ call \in [kind : {"resolve"}, dispute : 1 .. MaxDisputes,
                    outcome : Outcomes, verdict : Verdicts]
       /\ call.verdict.outcome = call.outcome

(* A call whose dispute is not judged yet. *)
Undecided == [kind : {"resolve"}, dispute : 1 .. MaxDisputes,
              outcome : {None}, verdict : {None}]

ClientState == [pc : Busy \cup Ended \cup {"idle"}, call : Call \cup {NoCall},
                judged : Roots \cup {None}, seen : Nat, try : 0 .. MaxTries]

Decided(d) == d \in DOMAIN disputes /\ disputes[d].status # "PENDING"

(* What a run knows at each of its steps. *)
Ready(st) ==
    /\ st.pc \in {"nonce", "estimate", "send", "wait", "done"} => Complete(st.call)
    /\ st.pc \in {"load", "judge"} =>
           st.call \in Undecided /\ st.call.dispute \in DOMAIN disputes
    /\ st.pc = "judge" => st.judged \in Roots
    /\ st.pc = "already" => Decided(st.call.dispute)
Prepared == \A c \in Clients : Ready(client[c])

Txs == pool \cup {m.tx : m \in mined}
SignedBy(c, st) == [nonce |-> st.seen, from |-> c, try |-> st.try, call |-> st.call]

(* A transaction is signed by a run, once, with the call it had prepared;  *)
(* the pool holds only the next nonce.                                     *)
Sent ==
    /\ \A tx \in Txs :
           /\ Complete(tx.call)
           /\ tx.try <= client[tx.from].try
           /\ tx.try = client[tx.from].try =>
                  /\ client[tx.from].pc \in {"wait", "done", "raised"}
                  /\ tx = SignedBy(tx.from, client[tx.from])
    /\ \A tx \in pool : tx.nonce = nonce
    /\ \A m \in mined : m.tx.nonce < nonce

IsAudit(call) == call.kind = "audit"
SameReport(call, other) ==
    IsAudit(call) /\ IsAudit(other) /\ call.rootHash = other.rootHash

(* A report belongs to one run and to one transaction. *)
Owned ==
    /\ \A c \in Clients : IsAudit(client[c].call) => client[c].call.rootHash \in made
    /\ \A tx \in Txs : IsAudit(tx.call) => tx.call.rootHash \in made
    /\ \A c, e \in Clients : SameReport(client[c].call, client[e].call) => c = e
    /\ \A tx \in Txs, c \in Clients :
           SameReport(tx.call, client[c].call) => tx.from = c /\ tx.try = client[c].try
    /\ \A tx, ux \in Txs : SameReport(tx.call, ux.call) => tx = ux

(* A receipt tells what the registry shows. *)
Effect(m) ==
    m.ok => IF IsAudit(m.tx.call) THEN Anchored(m.tx.call) ELSE Posted(m.tx.call)
Confirmed(tx) == \E m \in mined : m.ok /\ m.tx = tx
Logs(m, i) == IsAudit(m.tx.call) /\ m.tx.call.rootHash = log[i].rootHash

(* The registry shows what was mined, and logs nothing else. *)
Shown ==
    /\ \A m \in mined : Effect(m)
    /\ \A i \in DOMAIN log : \E m \in mined : Logs(m, i)
    /\ \A c \in Clients : client[c].pc = "done" => Confirmed(SignedBy(c, client[c]))

SignerInv ==
    /\ RegistryInv /\ OTypeOK /\ Prepared /\ Sent /\ Owned /\ Shown
    /\ AnchoredAtMostOnce /\ VerdictCommitsToOutcome

-------------------------------------------------------------------------------
(***************************************************************************)
(* The registry under the composition.                                     *)
(***************************************************************************)

(* What a step of the registry keeps: logged events, filed disputes and    *)
(* verdicts.                                                               *)
LEMMA RegistryKeeps ==
    ASSUME RegistryInv, [Next]_registryVars
    PROVE  /\ RegistryInv'
           /\ DOMAIN log \subseteq DOMAIN log'
           /\ \A i \in DOMAIN log : log'[i] = log[i]
           /\ DOMAIN disputes \subseteq DOMAIN disputes'
           /\ \A d \in DOMAIN disputes :
                  disputes[d].status # "PENDING" => disputes'[d] = disputes[d]
<1>1. TypeOK' /\ IndexAgreesWithHead'
  BY TypeStep, IndexStep, RegistryAssumption DEF RegistryInv
<1>2. /\ log \in Seq(Event) /\ DOMAIN log = 1 .. Len(log) /\ Len(log) \in Nat
      /\ disputes \in Seq(Dispute) /\ DOMAIN disputes = 1 .. Len(disputes)
      /\ Len(disputes) \in Nat
  BY DEF RegistryInv, TypeOK
<1>3. /\ DOMAIN log' = 1 .. Len(log') /\ Len(log') \in Nat
      /\ DOMAIN disputes' = 1 .. Len(disputes') /\ Len(disputes') \in Nat
  BY <1>1 DEF TypeOK
<1>4. /\ Len(disputes') >= Len(disputes)
      /\ \A d \in DOMAIN disputes :
             /\ disputes[d].status # "PENDING" => disputes'[d] = disputes[d]
             /\ disputes'[d].rootHash = disputes[d].rootHash
  BY FinalStep, RegistryAssumption DEF RegistryInv
<1>5. DOMAIN disputes \subseteq DOMAIN disputes'
  BY <1>2, <1>3, <1>4
<1>6. /\ DOMAIN log \subseteq DOMAIN log'
      /\ \A i \in DOMAIN log : log'[i] = log[i]
      /\ \A q \in Roots : auditTier[q] # 0 => auditTier'[q] # 0
  <2>1. CASE UNCHANGED auditVars
    BY <2>1 DEF auditVars
  <2>2. ASSUME NEW who \in Accounts, NEW t \in Targets, NEW k \in Tiers,
               NEW r \in Roots, SubmitAudit(who, t, k, r)
        PROVE  /\ DOMAIN log \subseteq DOMAIN log'
               /\ \A i \in DOMAIN log : log'[i] = log[i]
               /\ \A q \in Roots : auditTier[q] # 0 => auditTier'[q] # 0
    <3>1. /\ Len(log') = Len(log) + 1
          /\ \A i \in 1 .. Len(log) : log'[i] = log[i]
          /\ auditTier'[r] = k
          /\ \A q \in Roots : q # r => auditTier'[q] = auditTier[q]
      BY <2>2, SubmitAuditEffect DEF RegistryInv
    <3>2. k # 0
      BY DEF Tiers
    <3>3. DOMAIN log \subseteq DOMAIN log'
      BY <1>2, <1>3, <3>1
    <3>. QED
      BY <1>2, <3>1, <3>2, <3>3
  <2>. QED
    BY <2>1, <2>2, AuditCases
<1>7. ASSUME NEW d \in DOMAIN disputes
      PROVE  auditTier'[disputes'[d].rootHash] # 0
  <2>1. disputes[d] \in Dispute
    BY <1>2, <1>7
  <2>2. disputes[d].rootHash \in Roots
    BY <2>1 DEF Dispute
  <2>3. auditTier[disputes[d].rootHash] # 0
    BY <1>7 DEF RegistryInv, DisputedKnown
  <2>. QED
    BY <1>4, <1>6, <1>7, <2>2, <2>3
<1>8. DisputedKnown'
  <2>1. CASE UNCHANGED disputeVars
    BY <1>7, <2>1 DEF disputeVars, DisputedKnown
  <2>2. ASSUME NEW who \in Accounts, NEW r \in Roots, NEW s \in Stakes,
               SubmitDispute(who, r, s)
        PROVE  DisputedKnown'
    <3>1. /\ Len(disputes') = Len(disputes) + 1
          /\ disputes'[Len(disputes) + 1].rootHash = r
      BY <2>2, SubmitDisputeEffect, RegistryAssumption DEF RegistryInv
    <3>2. auditTier'[r] # 0
      BY <1>6, <2>2 DEF SubmitDispute, Disputable
    <3>. SUFFICES ASSUME NEW d \in 1 .. Len(disputes')
                  PROVE  auditTier'[disputes'[d].rootHash] # 0
      BY <1>3 DEF DisputedKnown
    <3>3. d \in DOMAIN disputes \/ d = Len(disputes) + 1
      BY <1>2, <3>1
    <3>. QED
      BY <1>7, <3>1, <3>2, <3>3
  <2>3. ASSUME NEW who \in Accounts, NEW d \in 1 .. MaxDisputes, NEW o \in Statuses,
               NEW v \in Verdicts, ResolveDispute(who, d, o, v)
        PROVE  DisputedKnown'
    <3>1. Len(disputes') = Len(disputes)
      BY <2>3, ResolveDisputeEffect, RegistryAssumption DEF RegistryInv
    <3>. QED
      BY <1>2, <1>3, <1>7, <3>1 DEF DisputedKnown
  <2>. QED
    BY <2>1, <2>2, <2>3, DisputeCases
<1>. QED
  BY <1>1, <1>4, <1>5, <1>6, <1>8 DEF RegistryInv

(* A transaction the engine sent is, mined, a step of the registry.        *)
LEMMA ExecuteMaps ==
    ASSUME NEW call, Complete(call), Execute(call)
    PROVE  \/ /\ call \in AuditCall
              /\ SubmitAudit(Oracle, call.target, call.tier, call.rootHash)
              /\ AuditStep
           \/ /\ call.kind = "resolve"
              /\ call.dispute \in 1 .. MaxDisputes /\ call.outcome \in Outcomes
              /\ call.verdict \in Verdicts /\ call.verdict.outcome = call.outcome
              /\ ResolveDispute(Oracle, call.dispute, call.outcome, call.verdict)
              /\ ResolveStep
<1>1. CASE call \in AuditCall
  <2>1. /\ call.kind = "audit" /\ call.target \in Targets /\ call.tier \in Tiers
        /\ call.rootHash \in Roots
    BY <1>1 DEF AuditCall
  <2>2. SubmitAudit(Oracle, call.target, call.tier, call.rootHash)
    BY <2>1 DEF Execute
  <2>3. call.tier \in 0 .. 3
    BY <2>1 DEF Tiers
  <2>4. AuditStep
    BY <2>1, <2>2, <2>3, RegistryAssumption DEF AuditStep
  <2>. QED
    BY <1>1, <2>2, <2>4
<1>2. CASE /\ call \in [kind : {"resolve"}, dispute : 1 .. MaxDisputes,
                        outcome : Outcomes, verdict : Verdicts]
           /\ call.verdict.outcome = call.outcome
  <2>1. /\ call.kind = "resolve" /\ call.dispute \in 1 .. MaxDisputes
        /\ call.outcome \in Outcomes /\ call.verdict \in Verdicts
    BY <1>2
  <2>2. ResolveDispute(Oracle, call.dispute, call.outcome, call.verdict)
    BY <2>1 DEF Execute
  <2>3. ResolveStep
    BY <2>1, <2>2, RegistryAssumption DEF ResolveStep, Statuses
  <2>. QED
    BY <1>2, <2>1, <2>2, <2>3
<1>. QED
  BY <1>1, <1>2 DEF Complete

(* Every step of the composition is a step of the registry, or leaves it   *)
(* alone.                                                                  *)
LEMMA StepMaps ==
    ASSUME SignerInv, [ONext]_oracleVars
    PROVE  [Next]_registryVars
<1>1. ASSUME NEW c \in Clients, NEW t \in Targets, NEW k \in Tiers, NEW r \in Roots,
             StartAudit(c, t, k, r)
      PROVE  UNCHANGED registryVars
  BY <1>1 DEF StartAudit, Only
<1>2. ASSUME NEW c \in Clients, NEW d \in 1 .. MaxDisputes, StartResolve(c, d)
      PROVE  UNCHANGED registryVars
  BY <1>2 DEF StartResolve, Only
<1>3. ASSUME NEW c \in Clients, ClientStep(c) \/ LoseAnswer(c) \/ Fail(c) \/ Rerun(c)
      PROVE  UNCHANGED registryVars
  BY <1>3 DEF ClientStep, LoadAudit, Judge, ReadNonce, Estimate, Send, Receipt,
     Timeout, LoseAnswer, Fail, Rerun, Only
<1>4. ASSUME NEW tx \in pool, Mine(tx)
      PROVE  [Next]_registryVars
  <2>1. Complete(tx.call)
    BY DEF SignerInv, Sent, Txs
  <2>. QED
    BY <1>4, <2>1, ExecuteMaps DEF Mine, Next
<1>5. CASE OthersStep
  BY <1>5 DEF OthersStep, Next
<1>6. CASE UNCHANGED oracleVars
  BY <1>6 DEF oracleVars
<1>. QED
  BY <1>1, <1>2, <1>3, <1>4, <1>5, <1>6 DEF ONext

-------------------------------------------------------------------------------
(***************************************************************************)
(* Steps of a run.                                                         *)
(***************************************************************************)

(* A run that changes its own state only, and holds no report but its own  *)
(* or a new one, keeps the invariant.                                      *)
LEMMA RunStep ==
    ASSUME SignerInv, NEW c \in Clients, NEW new \in ClientState,
           client' = [client EXCEPT ![c] = new],
           UNCHANGED <<registryVars, nonce, mined, pool>>,
           made \subseteq made', made' \subseteq Roots,
           Ready(new),
           \/ /\ client[c].pc \notin {"wait", "done", "raised"}
              /\ new.try = client[c].try
           \/ /\ client[c].pc \in {"wait", "done", "raised"}
              /\ new.pc \in {"done", "raised"}
              /\ SignedBy(c, new) = SignedBy(c, client[c])
           \/ new.try > client[c].try,
           new.pc = "done" => Confirmed(SignedBy(c, new)),
           IsAudit(new.call) =>
               \/ new.call = client[c].call /\ new.try = client[c].try
               \/ new.call.rootHash \notin made /\ new.call.rootHash \in made'
    PROVE  SignerInv'
<1>1. /\ client \in [Clients -> ClientState] /\ pool \subseteq Tx
      /\ mined \subseteq [tx : Tx, ok : BOOLEAN]
  BY DEF SignerInv, OTypeOK, ClientState
<1>2. /\ client'[c] = new
      /\ \A e \in Clients : e # c => client'[e] = client[e]
      /\ Txs' = Txs /\ Txs \subseteq Tx
  BY <1>1 DEF Txs
<1>3. RegistryInv' /\ AnchoredAtMostOnce' /\ VerdictCommitsToOutcome'
  BY DEF SignerInv, RegistryInv, TypeOK, IndexAgreesWithHead, DisputedKnown,
     AnchoredAtMostOnce, VerdictCommitsToOutcome, registryVars
<1>4. OTypeOK'
  <2>1. client' \in [Clients -> ClientState]
    BY <1>1
  <2>. QED
    BY <2>1 DEF SignerInv, OTypeOK, ClientState
<1>5. Prepared'
  <2>1. disputes' = disputes
    BY DEF registryVars
  <2>. SUFFICES ASSUME NEW e \in Clients
                PROVE  Ready(client[e])'
    BY DEF Prepared
  <2>2. Ready(client'[e])
    BY <1>2 DEF SignerInv, Prepared
  <2>. QED
    BY <2>1, <2>2 DEF Ready, Decided
<1>6. Sent'
  <2>. SUFFICES ASSUME NEW tx \in Txs
                PROVE  /\ tx.try <= client'[tx.from].try
                       /\ tx.try = client'[tx.from].try =>
                              /\ client'[tx.from].pc \in {"wait", "done", "raised"}
                              /\ tx = SignedBy(tx.from, client'[tx.from])
    BY <1>2 DEF SignerInv, Sent
  <2>1. /\ tx.try <= client[tx.from].try
        /\ tx.try = client[tx.from].try =>
               /\ client[tx.from].pc \in {"wait", "done", "raised"}
               /\ tx = SignedBy(tx.from, client[tx.from])
        /\ tx.from \in Clients /\ tx.try \in Nat
    BY <1>2 DEF SignerInv, Sent, Tx
  <2>2. client[c].try \in Nat /\ new.try \in Nat
    BY <1>1, OracleSignerAssumption DEF ClientState
  <2>3. CASE tx.from # c
    BY <1>2, <2>1, <2>3
  <2>4. CASE tx.from = c
    <3>1. tx.try <= client[c].try /\ client'[tx.from] = new
      BY <1>2, <2>1, <2>4
    <3>2. CASE new.try > client[c].try
      BY <2>1, <2>2, <3>1, <3>2
    <3>3. CASE /\ client[c].pc \notin {"wait", "done", "raised"}
               /\ new.try = client[c].try
      BY <2>1, <2>4, <3>1, <3>3
    <3>4. CASE /\ new.pc \in {"done", "raised"}
               /\ SignedBy(c, new) = SignedBy(c, client[c])
      <4>1. new.try = client[c].try
        BY <3>4 DEF SignedBy
      <4>. QED
        BY <2>1, <2>4, <3>1, <3>4, <4>1
    <3>. QED
      BY <3>2, <3>3, <3>4
  <2>. QED
    BY <2>3, <2>4
<1>7. Owned'
  <2>1. /\ \A e \in Clients : IsAudit(client[e].call) => client[e].call.rootHash \in made
        /\ \A tx \in Txs : IsAudit(tx.call) => tx.call.rootHash \in made
        /\ \A d, e \in Clients : SameReport(client[d].call, client[e].call) => d = e
        /\ \A tx \in Txs, e \in Clients :
               SameReport(tx.call, client[e].call) => tx.from = e /\ tx.try = client[e].try
        /\ \A tx, ux \in Txs : SameReport(tx.call, ux.call) => tx = ux
    BY DEF SignerInv, Owned
  <2>2. \A e \in Clients :
            IsAudit(client'[e].call) => client'[e].call.rootHash \in made'
    BY <1>2, <2>1
  <2>3. ASSUME NEW e \in Clients, e # c
        PROVE  ~SameReport(client[e].call, new.call)
    BY <2>1, <2>3 DEF SameReport
  <2>4. \A d, e \in Clients : SameReport(client'[d].call, client'[e].call) => d = e
    <3>. SUFFICES ASSUME NEW d \in Clients, NEW e \in Clients, d # e
                  PROVE  ~SameReport(client'[d].call, client'[e].call)
      OBVIOUS
    <3>1. CASE d # c /\ e # c
      BY <1>2, <2>1, <3>1
    <3>2. CASE d = c
      BY <1>2, <2>3, <3>2 DEF SameReport
    <3>3. CASE e = c
      BY <1>2, <2>3, <3>3
    <3>. QED
      BY <3>1, <3>2, <3>3
  <2>5. \A tx \in Txs, e \in Clients :
            SameReport(tx.call, client'[e].call) => tx.from = e /\ tx.try = client'[e].try
    <3>. SUFFICES ASSUME NEW tx \in Txs, NEW e \in Clients,
                         SameReport(tx.call, client'[e].call)
                  PROVE  tx.from = e /\ tx.try = client'[e].try
      OBVIOUS
    <3>1. CASE e # c
      BY <1>2, <2>1, <3>1
    <3>2. CASE e = c
      BY <1>2, <2>1, <3>2 DEF SameReport
    <3>. QED
      BY <3>1, <3>2
  <2>. QED
    BY <1>2, <2>1, <2>2, <2>4, <2>5 DEF Owned
<1>8. Shown'
  <2>1. /\ \A m \in mined : Effect(m)
        /\ \A i \in DOMAIN log : \E m \in mined : Logs(m, i)
        /\ \A e \in Clients : client[e].pc = "done" => Confirmed(SignedBy(e, client[e]))
    BY DEF SignerInv, Shown
  <2>2. mined' = mined /\ log' = log /\ disputes' = disputes
    BY DEF registryVars
  <2>3. /\ \A m \in mined' : Effect(m)'
        /\ \A i \in DOMAIN log' : \E m \in mined' : Logs(m, i)'
    BY <2>1, <2>2 DEF Effect, Anchored, Posted, Logs
  <2>4. ASSUME NEW e \in Clients, client'[e].pc = "done"
        PROVE  Confirmed(SignedBy(e, client[e]))'
    <3>1. Confirmed(SignedBy(e, client'[e]))
      BY <1>2, <2>1, <2>4
    <3>. QED
      BY <2>2, <3>1 DEF Confirmed, SignedBy
  <2>. QED
    BY <2>3, <2>4 DEF Shown
<1>. QED
  BY <1>3, <1>4, <1>5, <1>6, <1>7, <1>8 DEF SignerInv

(* Broadcasting keeps the invariant: whatever it replaces in the pool, the *)
(* report it carries is in no other transaction.                           *)
LEMMA SendStep ==
    ASSUME SignerInv, NEW c \in Clients, NEW pc \in {"wait", "raised"},
           client[c].pc = "send", client[c].seen = nonce,
           pool' = (pool \ Rivals(Signed(c))) \cup {Signed(c)},
           client' = [client EXCEPT ![c].pc = pc],
           UNCHANGED <<registryVars, nonce, mined, made>>
    PROVE  SignerInv'
<1>. DEFINE st  == client[c]
            new == [st EXCEPT !.pc = pc]
            tx  == SignedBy(c, st)
<1>1. /\ client \in [Clients -> ClientState] /\ pool \subseteq Tx
      /\ mined \subseteq [tx : Tx, ok : BOOLEAN] /\ nonce \in Nat /\ st \in ClientState
  BY DEF SignerInv, OTypeOK, ClientState
<1>2. Complete(st.call) /\ st.call \in Call
  BY DEF SignerInv, Prepared, Ready, Complete, Call, ResolveCall
<1>3. /\ new \in ClientState /\ new.pc = pc /\ new.call = st.call /\ new.try = st.try
      /\ SignedBy(c, new) = tx /\ Signed(c) = tx
  BY <1>1 DEF ClientState, Busy, Ended, SignedBy, Signed
<1>4. /\ tx \in Tx /\ tx.from = c /\ tx.try = st.try /\ tx.call = st.call
      /\ tx.nonce = nonce
  BY <1>1, <1>2, OracleSignerAssumption DEF Tx, SignedBy, ClientState
<1>5. client' = [client EXCEPT ![c] = new]
  OBVIOUS
<1>. HIDE DEF new, tx
<1>6. /\ client'[c] = new
      /\ \A e \in Clients : e # c => client'[e] = client[e]
      /\ pool' \subseteq pool \cup {tx} /\ Txs' \subseteq Txs \cup {tx} /\ Txs \subseteq Tx
  BY <1>1, <1>3, <1>5 DEF Txs
<1>7. RegistryInv' /\ AnchoredAtMostOnce' /\ VerdictCommitsToOutcome'
  BY DEF SignerInv, RegistryInv, TypeOK, IndexAgreesWithHead, DisputedKnown,
     AnchoredAtMostOnce, VerdictCommitsToOutcome, registryVars
<1>8. OTypeOK'
  <2>1. client' \in [Clients -> ClientState] /\ pool' \subseteq Tx
    BY <1>1, <1>3, <1>4, <1>5, <1>6
  <2>. QED
    BY <2>1 DEF SignerInv, OTypeOK, ClientState
<1>9. Prepared'
  <2>1. disputes' = disputes
    BY DEF registryVars
  <2>. SUFFICES ASSUME NEW e \in Clients
                PROVE  Ready(client[e])'
    BY DEF Prepared
  <2>2. Ready(client'[e])
    BY <1>2, <1>3, <1>6 DEF SignerInv, Prepared, Ready
  <2>. QED
    BY <2>1, <2>2 DEF Ready, Decided
<1>10. \A x \in Txs : ~(x.from = c /\ x.try = st.try)
  BY DEF SignerInv, Sent
<1>11. Sent'
  <2>1. ASSUME NEW x \in Txs'
        PROVE  /\ Complete(x.call)
               /\ x.try <= client'[x.from].try
               /\ x.try = client'[x.from].try =>
                      /\ client'[x.from].pc \in {"wait", "done", "raised"}
                      /\ x = SignedBy(x.from, client'[x.from])
    <3>1. CASE x = tx
      BY <1>1, <1>2, <1>3, <1>4, <1>6, <3>1, OracleSignerAssumption DEF ClientState
    <3>2. CASE x \in Txs
      <4>1. /\ Complete(x.call) /\ x.try <= client[x.from].try
            /\ x.try = client[x.from].try =>
                   /\ client[x.from].pc \in {"wait", "done", "raised"}
                   /\ x = SignedBy(x.from, client[x.from])
            /\ x.from \in Clients
        BY <1>6, <3>2 DEF SignerInv, Sent, Tx
      <4>2. CASE x.from # c
        BY <1>6, <4>1, <4>2
      <4>3. CASE x.from = c
        BY <1>3, <1>6, <1>10, <3>2, <4>1, <4>3
      <4>. QED
        BY <4>2, <4>3
    <3>. QED
      BY <1>6, <2>1, <3>1, <3>2
  <2>2. /\ \A x \in pool' : x.nonce = nonce'
        /\ \A m \in mined' : m.tx.nonce < nonce'
    BY <1>4, <1>6 DEF SignerInv, Sent
  <2>. QED
    BY <2>1, <2>2 DEF Sent
<1>12. Owned'
  <2>1. /\ \A e \in Clients : IsAudit(client[e].call) => client[e].call.rootHash \in made
        /\ \A x \in Txs : IsAudit(x.call) => x.call.rootHash \in made
        /\ \A d, e \in Clients : SameReport(client[d].call, client[e].call) => d = e
        /\ \A x \in Txs, e \in Clients :
               SameReport(x.call, client[e].call) => x.from = e /\ x.try = client[e].try
        /\ \A x, y \in Txs : SameReport(x.call, y.call) => x = y
    BY DEF SignerInv, Owned
  <2>2. \A e \in Clients : client'[e].call = client[e].call /\ client'[e].try = client[e].try
    BY <1>3, <1>6
  <2>3. \A x \in Txs : ~SameReport(x.call, tx.call) /\ ~SameReport(tx.call, x.call)
    BY <1>4, <1>10, <2>1 DEF SameReport
  <2>4. \A x \in Txs' : IsAudit(x.call) => x.call.rootHash \in made
    BY <1>4, <1>6, <2>1
  <2>5. \A x \in Txs', e \in Clients :
            SameReport(x.call, client'[e].call) => x.from = e /\ x.try = client'[e].try
    BY <1>4, <1>6, <2>1, <2>2
  <2>6. \A x, y \in Txs' : SameReport(x.call, y.call) => x = y
    BY <1>6, <2>1, <2>3
  <2>. QED
    BY <2>1, <2>2, <2>4, <2>5, <2>6 DEF Owned
<1>13. Shown'
  <2>1. mined' = mined /\ log' = log /\ disputes' = disputes
    BY DEF registryVars
  <2>2. /\ \A m \in mined' : Effect(m)'
        /\ \A i \in DOMAIN log' : \E m \in mined' : Logs(m, i)'
    BY <2>1 DEF SignerInv, Shown, Effect, Anchored, Posted, Logs
  <2>3. ASSUME NEW e \in Clients, client'[e].pc = "done"
        PROVE  Confirmed(SignedBy(e, client[e]))'
    <3>1. e # c
      BY <1>3, <1>6, <2>3
    <3>2. Confirmed(SignedBy(e, client'[e]))
      BY <1>6, <2>3, <3>1 DEF SignerInv, Shown
    <3>. QED
      BY <2>1, <3>2 DEF Confirmed, SignedBy
  <2>. QED
    BY <2>2, <2>3 DEF Shown
<1>. QED
  BY <1>7, <1>8, <1>9, <1>11, <1>12, <1>13 DEF SignerInv

-------------------------------------------------------------------------------
(***************************************************************************)
(* Steps of the chain.                                                     *)
(***************************************************************************)

(* What the runs know of the registry stays true in any step of it.        *)
LEMMA KnowledgeStays ==
    ASSUME SignerInv, [Next]_registryVars
    PROVE  /\ \A st \in ClientState :
                  Ready(st) => Ready(st)'
           /\ \A m \in mined : Effect(m)'
<1>1. /\ DOMAIN log \subseteq DOMAIN log'
      /\ \A i \in DOMAIN log : log'[i] = log[i]
      /\ DOMAIN disputes \subseteq DOMAIN disputes'
      /\ \A d \in DOMAIN disputes :
             disputes[d].status # "PENDING" => disputes'[d] = disputes[d]
  BY RegistryKeeps DEF SignerInv
<1>2. ASSUME NEW st \in ClientState, Ready(st)
      PROVE  Ready(st)'
  BY <1>1, <1>2 DEF Ready, Decided
<1>3. ASSUME NEW m \in mined
      PROVE  Effect(m)'
  <2>1. Effect(m) /\ Complete(m.tx.call)
    BY DEF SignerInv, Shown, Sent, Txs
  <2>2. CASE IsAudit(m.tx.call)
    BY <1>1, <2>1, <2>2 DEF Effect, Anchored
  <2>3. CASE ~IsAudit(m.tx.call)
    <3>1. m.tx.call.outcome \in Outcomes
      BY <2>1, <2>3 DEF Complete, IsAudit, AuditCall
    <3>2. m.tx.call.outcome # "PENDING"
      BY <3>1 DEF Outcomes
    <3>3. m.ok => Posted(m.tx.call)
      BY <2>1, <2>3 DEF Effect
    <3>4. m.ok => Posted(m.tx.call)'
      BY <1>1, <3>2, <3>3 DEF Posted
    <3>. QED
      BY <2>3, <3>4 DEF Effect
  <2>. QED
    BY <2>2, <2>3
<1>. QED
  BY <1>2, <1>3

(* A step of another account keeps the invariant.                          *)
LEMMA OthersKeep ==
    ASSUME SignerInv, OthersStep
    PROVE  SignerInv'
<1>1. [Next]_registryVars
  BY DEF OthersStep, Next
<1>2. /\ UNCHANGED signerVars /\ UNCHANGED auditVars
      /\ nonce' = nonce /\ pool' = pool /\ mined' = mined /\ made' = made
      /\ client' = client
  BY DEF OthersStep, signerVars, DisputeStep, SweepStep, AdminStep, MemoryStep,
     SubmitDispute, SweepForfeited, SetAgent, SetAuditor, UpdateMemoryRoot, auditVars
<1>3. log' = log /\ Txs' = Txs
  BY <1>2 DEF auditVars, Txs
<1>4. RegistryInv'
  BY <1>1, RegistryKeeps DEF SignerInv
<1>5. OTypeOK' /\ client \in [Clients -> ClientState]
  BY <1>2 DEF SignerInv, OTypeOK, ClientState
<1>6. Prepared'
  <2>. SUFFICES ASSUME NEW e \in Clients
                PROVE  Ready(client[e])'
    BY DEF Prepared
  <2>1. client[e] \in ClientState /\ Ready(client[e])
    BY <1>5 DEF SignerInv, Prepared
  <2>. QED
    BY <1>1, <1>2, <2>1, KnowledgeStays DEF Ready, Decided
<1>7. Sent' /\ Owned'
  BY <1>2, <1>3 DEF SignerInv, Sent, Owned, SignedBy
<1>8. AnchoredAtMostOnce'
  BY <1>3 DEF SignerInv, AnchoredAtMostOnce
<1>9. Shown'
  <2>1. \A m \in mined' : Effect(m)'
    BY <1>1, <1>2, KnowledgeStays
  <2>2. /\ \A i \in DOMAIN log' : \E m \in mined' : Logs(m, i)'
        /\ \A e \in Clients : client'[e].pc = "done" => Confirmed(SignedBy(e, client[e]))'
    BY <1>2, <1>3 DEF SignerInv, Shown, Logs, Confirmed, SignedBy
  <2>. QED
    BY <2>1, <2>2 DEF Shown
<1>10. VerdictCommitsToOutcome'
  <2>1. CASE UNCHANGED disputeVars
    BY <2>1 DEF disputeVars, SignerInv, VerdictCommitsToOutcome
  <2>2. ASSUME NEW who \in Accounts, NEW r \in Roots, NEW s \in Stakes,
               SubmitDispute(who, r, s)
        PROVE  VerdictCommitsToOutcome'
    <3>1. /\ DOMAIN disputes = 1 .. Len(disputes) /\ Len(disputes) \in Nat
          /\ DOMAIN disputes' = 1 .. Len(disputes')
      BY <1>4 DEF SignerInv, RegistryInv, TypeOK
    <3>2. /\ Len(disputes') = Len(disputes) + 1
          /\ disputes'[Len(disputes) + 1].status = "PENDING"
          /\ \A e \in 1 .. Len(disputes) : disputes'[e] = disputes[e]
      BY <2>2, SubmitDisputeEffect, RegistryAssumption DEF SignerInv, RegistryInv
    <3>. QED
      BY <3>1, <3>2 DEF SignerInv, VerdictCommitsToOutcome
  <2>. QED
    BY <2>1, <2>2 DEF OthersStep, DisputeStep, SweepStep, AdminStep, MemoryStep,
       SweepForfeited, SetAgent, SetAuditor, UpdateMemoryRoot, disputeVars
<1>. QED
  BY <1>4, <1>5, <1>6, <1>7, <1>8, <1>9, <1>10 DEF SignerInv

(* What mining a transaction that succeeds does to the registry.           *)
LEMMA MinedEffect ==
    ASSUME SignerInv, NEW tx \in pool, Execute(tx.call)
    PROVE  /\ [Next]_registryVars
           /\ IF IsAudit(tx.call) THEN Anchored(tx.call)' ELSE Posted(tx.call)'
           /\ \A i \in DOMAIN log' :
                  i \notin DOMAIN log =>
                      /\ i = Len(log) + 1
                      /\ IsAudit(tx.call) /\ tx.call.rootHash = log'[i].rootHash
           /\ VerdictCommitsToOutcome'
<1>1. Complete(tx.call)
  BY DEF SignerInv, Sent, Txs
<1>2. [Next]_registryVars
  BY <1>1, ExecuteMaps DEF Next
<1>3. /\ TypeOK /\ TypeOK'
      /\ DOMAIN log = 1 .. Len(log) /\ Len(log) \in Nat /\ DOMAIN log' = 1 .. Len(log')
      /\ DOMAIN disputes = 1 .. Len(disputes) /\ DOMAIN disputes' = 1 .. Len(disputes')
  BY <1>2, RegistryKeeps DEF SignerInv, RegistryInv, TypeOK
<1>4. CASE /\ tx.call \in AuditCall
           /\ SubmitAudit(Oracle, tx.call.target, tx.call.tier, tx.call.rootHash)
  <2>. DEFINE r == tx.call.rootHash
              evt == [target |-> tx.call.target, rootHash |-> r, tier |-> tx.call.tier]
  <2>1. IsAudit(tx.call) /\ evt \in Event /\ r \in Roots
    BY <1>4 DEF AuditCall, IsAudit, Event
  <2>2. log' = Append(log, evt) /\ log \in Seq(Event) /\ disputes' = disputes
    BY <1>3, <1>4 DEF SubmitAudit, RecordAudit, disputeVars, TypeOK
  <2>3. evt.rootHash = r
    OBVIOUS
  <2>. HIDE DEF evt
  <2>4. /\ Len(log') = Len(log) + 1 /\ log'[Len(log) + 1] = evt
        /\ Len(log) + 1 \in DOMAIN log'
    BY <1>3, <2>1, <2>2, AppendProperties
  <2>5. Anchored(tx.call)'
    BY <2>4 DEF Anchored, evt
  <2>6. \A i \in DOMAIN log' : i \notin DOMAIN log => i = Len(log) + 1
    BY <1>3, <2>4
  <2>7. VerdictCommitsToOutcome'
    BY <2>2 DEF SignerInv, VerdictCommitsToOutcome
  <2>. QED
    BY <1>2, <2>1, <2>3, <2>4, <2>5, <2>6, <2>7
<1>5. CASE /\ tx.call.kind = "resolve"
           /\ tx.call.dispute \in 1 .. MaxDisputes /\ tx.call.outcome \in Outcomes
           /\ tx.call.verdict \in Verdicts /\ tx.call.verdict.outcome = tx.call.outcome
           /\ ResolveDispute(Oracle, tx.call.dispute, tx.call.outcome, tx.call.verdict)
  <2>1. /\ ~IsAudit(tx.call) /\ Oracle \in Accounts
        /\ tx.call.outcome \in Statuses
    BY <1>5, RegistryAssumption DEF IsAudit, Statuses
  <2>2. PICK who \in Accounts, d \in 1 .. MaxDisputes, o \in Statuses, v \in Verdicts :
            /\ d = tx.call.dispute /\ o = tx.call.outcome /\ v = tx.call.verdict
            /\ o \in Outcomes /\ v.outcome = o /\ ResolveDispute(who, d, o, v)
    BY <1>5, <2>1
  <2>3. /\ d \in 1 .. Len(disputes) /\ Len(disputes') = Len(disputes)
        /\ disputes'[d].status = o /\ disputes'[d].reAuditRootHash = v
        /\ \A e \in 1 .. Len(disputes) : e # d => disputes'[e] = disputes[e]
    <3>1. TypeOK /\ ResolveDispute(who, d, o, v)
      BY <1>3, <2>2
    <3>2. /\ d \in 1 .. Len(disputes) /\ Len(disputes') = Len(disputes)
          /\ disputes'[d].status = o
      BY <3>1, ResolveDisputeEffect, RegistryAssumption
    <3>3. disputes'[d].reAuditRootHash = v
      BY <3>1, ResolveDisputeEffect, RegistryAssumption
    <3>4. \A e \in 1 .. Len(disputes) : e # d => disputes'[e] = disputes[e]
      BY <3>1, ResolveDisputeEffect, RegistryAssumption
    <3>. QED
      BY <3>2, <3>3, <3>4
  <2>4. log' = log
    BY <2>2 DEF ResolveDispute, auditVars
  <2>5. Posted(tx.call)'
    BY <1>3, <2>2, <2>3 DEF Posted
  <2>6. VerdictCommitsToOutcome'
    BY <1>3, <2>2, <2>3 DEF SignerInv, VerdictCommitsToOutcome
  <2>. QED
    BY <1>2, <2>1, <2>4, <2>5, <2>6
<1>. QED
  BY <1>1, <1>4, <1>5, ExecuteMaps

(* Mining the next transaction keeps the invariant.  A report whose event  *)
(* is new was not logged before, because the transaction that logged it    *)
(* would have had a smaller nonce and be this one.                         *)
LEMMA MineKeeps ==
    ASSUME SignerInv, NEW tx \in pool, Mine(tx)
    PROVE  SignerInv'
<1>. DEFINE m == [tx |-> tx, ok |-> Succeeds(tx.call)]
<1>1. /\ tx.nonce = nonce /\ nonce' = nonce + 1 /\ nonce \in Nat
      /\ mined' = mined \cup {m} /\ pool' = pool \ Rivals(tx)
      /\ made' = made /\ client' = client
      /\ tx \in Tx /\ mined \subseteq [tx : Tx, ok : BOOLEAN]
  BY DEF Mine, SignerInv, OTypeOK
<1>2. m.tx = tx /\ m.ok = Succeeds(tx.call) /\ m \in [tx : Tx, ok : BOOLEAN]
  <2>1. Succeeds(tx.call) \in BOOLEAN
    BY DEF Succeeds, CanPay, Resolvable, ValidTier
  <2>. QED
    BY <1>1, <2>1
<1>3. \/ m.ok /\ Execute(tx.call)
      \/ ~m.ok /\ UNCHANGED registryVars
  BY <1>2 DEF Mine
<1>. HIDE DEF m
<1>4. [Next]_registryVars
  BY <1>3, MinedEffect
<1>5. /\ pool' = {} /\ tx \in Txs /\ Txs' \subseteq Txs
      /\ \A x \in mined' : x = m \/ x \in mined
  <2>1. \A x \in pool : x.nonce = nonce
    BY DEF SignerInv, Sent
  <2>2. pool' = {}
    BY <1>1, <2>1 DEF Rivals
  <2>. QED
    BY <1>1, <1>2, <2>2 DEF Txs
<1>6. RegistryInv'
  BY <1>4, RegistryKeeps DEF SignerInv
<1>7. OTypeOK' /\ client \in [Clients -> ClientState]
  BY <1>1, <1>2, <1>5 DEF SignerInv, OTypeOK, ClientState
<1>8. Prepared'
  <2>. SUFFICES ASSUME NEW e \in Clients
                PROVE  Ready(client[e])'
    BY DEF Prepared
  <2>1. client[e] \in ClientState /\ Ready(client[e])
    BY <1>7 DEF SignerInv, Prepared
  <2>. QED
    BY <1>1, <1>4, <2>1, KnowledgeStays DEF Ready, Decided
<1>9. Sent'
  <2>1. \A x \in mined : x.tx.nonce \in Nat /\ x.tx.nonce < nonce
    BY <1>1 DEF SignerInv, Sent, Tx
  <2>2. \A x \in mined' : x.tx.nonce < nonce'
    BY <1>1, <1>2, <1>5, <2>1
  <2>. QED
    BY <1>1, <1>5, <2>2 DEF SignerInv, Sent, SignedBy
<1>10. Owned'
  BY <1>1, <1>5 DEF SignerInv, Owned
<1>11. Shown'
  <2>1. \A x \in mined' : Effect(x)'
    BY <1>2, <1>3, <1>4, <1>5, KnowledgeStays, MinedEffect DEF Effect
  <2>2. ASSUME NEW i \in DOMAIN log'
        PROVE  \E x \in mined' : Logs(x, i)'
    <3>1. CASE i \in DOMAIN log
      <4>1. log'[i] = log[i]
        BY <1>4, <3>1, RegistryKeeps DEF SignerInv
      <4>2. \E x \in mined : Logs(x, i)
        BY <3>1 DEF SignerInv, Shown
      <4>. QED
        BY <1>1, <4>1, <4>2 DEF Logs
    <3>2. CASE i \notin DOMAIN log
      <4>1. Execute(tx.call)
        BY <1>3, <2>2, <3>2 DEF registryVars
      <4>2. IsAudit(tx.call) /\ tx.call.rootHash = log'[i].rootHash
        BY <2>2, <3>2, <4>1, MinedEffect
      <4>. QED
        BY <1>1, <1>2, <4>2 DEF Logs
    <3>. QED
      BY <3>1, <3>2
  <2>3. \A e \in Clients : client'[e].pc = "done" => Confirmed(SignedBy(e, client[e]))'
    BY <1>1 DEF SignerInv, Shown, Confirmed, SignedBy
  <2>. QED
    BY <2>1, <2>2, <2>3 DEF Shown
<1>12. AnchoredAtMostOnce'
  <2>1. CASE UNCHANGED registryVars
    BY <2>1 DEF SignerInv, AnchoredAtMostOnce, registryVars
  <2>2. CASE Execute(tx.call)
    <3>1. /\ DOMAIN log \subseteq DOMAIN log'
          /\ \A i \in DOMAIN log : log'[i] = log[i]
          /\ \A i \in DOMAIN log' :
                 i \notin DOMAIN log =>
                     /\ i = Len(log) + 1
                     /\ IsAudit(tx.call) /\ tx.call.rootHash = log'[i].rootHash
      BY <1>4, <2>2, MinedEffect, RegistryKeeps DEF SignerInv
    <3>2. ASSUME NEW i \in DOMAIN log, IsAudit(tx.call)
          PROVE  log[i].rootHash # tx.call.rootHash
      <4>. SUFFICES ASSUME log[i].rootHash = tx.call.rootHash
                    PROVE  FALSE
        OBVIOUS
      <4>1. PICK x \in mined : IsAudit(x.tx.call) /\ x.tx.call.rootHash = log[i].rootHash
        BY <3>2 DEF SignerInv, Shown, Logs
      <4>2. x.tx \in Txs /\ SameReport(x.tx.call, tx.call)
        BY <3>2, <4>1 DEF Txs, SameReport
      <4>3. x.tx = tx
        BY <1>5, <4>2 DEF SignerInv, Owned
      <4>4. x.tx.nonce < nonce
        BY DEF SignerInv, Sent
      <4>. QED
        BY <1>1, <4>3, <4>4
    <3>. SUFFICES ASSUME NEW i \in DOMAIN log', NEW j \in DOMAIN log',
                         log'[i].rootHash = log'[j].rootHash
                  PROVE  i = j
      BY DEF AnchoredAtMostOnce
    <3>3. CASE i \in DOMAIN log /\ j \in DOMAIN log
      BY <3>1, <3>3 DEF SignerInv, AnchoredAtMostOnce
    <3>4. CASE i \notin DOMAIN log /\ j \notin DOMAIN log
      BY <3>1, <3>4
    <3>5. CASE i \in DOMAIN log /\ j \notin DOMAIN log
      BY <3>1, <3>2, <3>5
    <3>6. CASE i \notin DOMAIN log /\ j \in DOMAIN log
      BY <3>1, <3>2, <3>6
    <3>. QED
      BY <3>3, <3>4, <3>5, <3>6
  <2>. QED
    BY <1>3, <2>1, <2>2
<1>13. VerdictCommitsToOutcome'
  <2>1. UNCHANGED registryVars => disputes' = disputes
    BY DEF registryVars
  <2>. QED
    BY <1>3, <2>1, MinedEffect DEF SignerInv, VerdictCommitsToOutcome
<1>. QED
  BY <1>6, <1>7, <1>8, <1>9, <1>10, <1>11, <1>12, <1>13 DEF SignerInv

-------------------------------------------------------------------------------
(***************************************************************************)
(* The invariant, by the step a run takes.                                 *)
(***************************************************************************)

(* Nothing is under way when the registry is deployed.                     *)
LEMMA SignerInit == OInit => SignerInv
<1>. SUFFICES ASSUME OInit
              PROVE  SignerInv
  OBVIOUS
<1>1. /\ TypeOK /\ log = <<>> /\ disputes = <<>>
      /\ nonce = 0 /\ pool = {} /\ mined = {} /\ made = {}
      /\ client = [c \in Clients |-> Idle] /\ Txs = {}
  BY TypeInit, RegistryAssumption DEF OInit, Init, Txs
<1>2. DOMAIN log = {} /\ DOMAIN disputes = {}
  BY <1>1
<1>3. RegistryInv
  BY <1>1, <1>2 DEF OInit, Init, RegistryInv, IndexAgreesWithHead, DisputedKnown
<1>4. Idle \in ClientState
  BY OracleSignerAssumption DEF Idle, ClientState
<1>5. OTypeOK
  BY <1>1, <1>4 DEF OTypeOK, ClientState
<1>6. Prepared /\ \A c \in Clients : ~IsAudit(client[c].call) /\ client[c].pc # "done"
  BY <1>1 DEF Prepared, Ready, Idle, NoCall, IsAudit
<1>. QED
  BY <1>1, <1>2, <1>3, <1>5, <1>6
     DEF SignerInv, Sent, Owned, SameReport, Shown, AnchoredAtMostOnce,
         VerdictCommitsToOutcome

(* A run that only moves on, with the call it has.                         *)
LEMMA MoveOn ==
    ASSUME SignerInv, NEW c \in Clients,
           NEW pc \in {"estimate", "send", "done", "raised"}, NEW seen \in Nat,
           client' = [client EXCEPT ![c].pc = pc, ![c].seen = seen],
           UNCHANGED <<registryVars, nonce, mined, pool, made>>,
           \/ client[c].pc \notin {"wait", "done", "raised"} /\ pc # "done"
           \/ /\ client[c].pc \in {"wait", "done", "raised"}
              /\ pc \in {"done", "raised"} /\ seen = client[c].seen,
           pc = "raised" \/ Complete(client[c].call),
           pc = "done" => Confirmed(Signed(c))
    PROVE  SignerInv'
<1>. DEFINE st  == client[c]
            new == [st EXCEPT !.pc = pc, !.seen = seen]
<1>1. st \in ClientState /\ made \subseteq Roots
  BY DEF SignerInv, OTypeOK, ClientState
<1>2. /\ new \in ClientState /\ new.pc = pc /\ new.seen = seen
      /\ new.call = st.call /\ new.try = st.try
  BY <1>1 DEF ClientState, Busy, Ended
<1>3. client' = [client EXCEPT ![c] = new]
  OBVIOUS
<1>. HIDE DEF new
<1>4. Ready(new)
  BY <1>2 DEF Ready
<1>5. /\ pc \in {"done", "raised"} /\ seen = st.seen => SignedBy(c, new) = SignedBy(c, st)
      /\ SignedBy(c, st) = Signed(c)
  BY <1>2 DEF SignedBy, Signed
<1>6. new.pc = "done" => Confirmed(SignedBy(c, new))
  BY <1>2, <1>5
<1>. QED
  BY <1>1, <1>2, <1>3, <1>4, <1>5, <1>6, RunStep

(* A run starts with a report nobody has, or with a dispute that it found  *)
(* pending; a run that starts again owns nothing any more.                 *)
LEMMA StartsKeep ==
    ASSUME SignerInv, NEW c \in Clients,
           \/ \E t \in Targets, k \in Tiers, r \in Roots : StartAudit(c, t, k, r)
           \/ \E d \in 1 .. MaxDisputes : StartResolve(c, d)
           \/ Rerun(c)
    PROVE  SignerInv'
<1>. DEFINE st == client[c]
<1>1. st \in ClientState /\ made \subseteq Roots
  BY DEF SignerInv, OTypeOK, ClientState
<1>2. ASSUME NEW t \in Targets, NEW k \in Tiers, NEW r \in Roots, StartAudit(c, t, k, r)
      PROVE  SignerInv'
  <2>. DEFINE call == [kind |-> "audit", target |-> t, tier |-> k, rootHash |-> r]
              new  == [st EXCEPT !.pc = "nonce", !.call = call]
  <2>1. call \in AuditCall /\ call.rootHash = r
    BY DEF AuditCall
  <2>. HIDE DEF call
  <2>2. /\ new \in ClientState /\ new.pc = "nonce" /\ new.call = call /\ new.try = st.try
        /\ client' = [client EXCEPT ![c] = new]
    BY <1>1, <1>2, <2>1 DEF StartAudit, ClientState, Busy, Call, call
  <2>. HIDE DEF new
  <2>3. Ready(new)
    BY <2>1, <2>2 DEF Ready, Complete
  <2>4. /\ st.pc = "idle" /\ r \notin made /\ made' = made \cup {r}
        /\ UNCHANGED <<registryVars, nonce, mined, pool>>
    BY <1>2 DEF StartAudit, Only
  <2>. QED
    BY <1>1, <2>1, <2>2, <2>3, <2>4, RunStep
<1>3. ASSUME NEW d \in 1 .. MaxDisputes, StartResolve(c, d)
      PROVE  SignerInv'
  <2>. DEFINE call == [kind |-> "resolve", dispute |-> d, outcome |-> None, verdict |-> None]
              pc   == IF d \notin DOMAIN disputes THEN "raised"
                      ELSE IF disputes[d].status # "PENDING" THEN "already"
                      ELSE "load"
              new  == [st EXCEPT !.pc = pc, !.call = call]
  <2>1. /\ call \in Undecided /\ call \in ResolveCall /\ call.dispute = d
        /\ ~IsAudit(call)
    BY DEF Undecided, ResolveCall, IsAudit
  <2>2. /\ pc \in {"raised", "already", "load"}
        /\ pc = "already" => Decided(d)
        /\ pc = "load" => d \in DOMAIN disputes
    BY DEF Decided
  <2>. HIDE DEF call, pc
  <2>3. /\ new \in ClientState /\ new.pc = pc /\ new.call = call /\ new.try = st.try
        /\ client' = [client EXCEPT ![c] = new]
    BY <1>1, <1>3, <2>1, <2>2
       DEF StartResolve, ClientState, Busy, Ended, Call, call, pc
  <2>. HIDE DEF new
  <2>4. Ready(new) /\ ~IsAudit(new.call) /\ new.pc # "done"
    BY <2>1, <2>2, <2>3 DEF Ready
  <2>5. /\ st.pc = "idle" /\ made' = made
        /\ UNCHANGED <<registryVars, nonce, mined, pool>>
    BY <1>3 DEF StartResolve, Only
  <2>. QED
    BY <1>1, <2>3, <2>4, <2>5, RunStep
<1>4. CASE Rerun(c)
  <2>. DEFINE new == [Idle EXCEPT !.try = st.try + 1]
  <2>1. /\ st.try < MaxTries /\ client' = [client EXCEPT ![c] = new] /\ made' = made
        /\ UNCHANGED <<registryVars, nonce, mined, pool>>
    BY <1>4 DEF Rerun, Only
  <2>2. st.try \in Nat /\ st.try + 1 \in 0 .. MaxTries
    BY <1>1, <2>1, OracleSignerAssumption DEF ClientState
  <2>3. /\ new \in ClientState /\ new.pc = "idle" /\ new.try > st.try
        /\ new.call = NoCall
    BY <2>2 DEF ClientState, Idle
  <2>. HIDE DEF new
  <2>4. Ready(new) /\ ~IsAudit(new.call)
    BY <2>3 DEF Ready, IsAudit, NoCall
  <2>. QED
    BY <1>1, <2>1, <2>3, <2>4, RunStep
<1>. QED
  BY <1>2, <1>3, <1>4

(* What is loaded for judging is an audit: every disputed root leads to a  *)
(* head.                                                                   *)
LEMMA LoadedIsAudit ==
    ASSUME RegistryInv, NEW d \in DOMAIN disputes
    PROVE  LoadedAudit(d) \in Roots
<1>. DEFINE q == disputes[d].rootHash
            t == auditTarget[q]
<1>1. disputes \in Seq(Dispute) /\ latest \in [Targets -> Report \cup {NoReport}]
  BY DEF RegistryInv, TypeOK
<1>2. disputes[d] \in Dispute
  BY <1>1
<1>3. q \in Roots /\ auditTier[q] # 0
  BY <1>2 DEF Dispute, RegistryInv, DisputedKnown
<1>4. t \in Targets /\ latest[t] # NoReport
  BY <1>3 DEF RegistryInv, IndexAgreesWithHead
<1>5. latest[t] \in Report
  BY <1>1, <1>4
<1>. QED
  BY <1>5 DEF LoadedAudit, Report

(* The dispute judged is still there and its head is an anchored report.   *)
LEMMA JudgingKeeps ==
    ASSUME SignerInv, NEW c \in Clients, LoadAudit(c) \/ Judge(c)
    PROVE  SignerInv'
<1>. DEFINE st == client[c]
<1>1. st \in ClientState /\ made \subseteq Roots /\ Ready(st)
  BY DEF SignerInv, OTypeOK, ClientState, Prepared
<1>2. /\ st.pc \in {"load", "judge"} /\ made' = made
      /\ UNCHANGED <<registryVars, nonce, mined, pool>>
  BY DEF LoadAudit, Judge, Only
<1>3. /\ st.call \in Undecided /\ st.call.dispute \in DOMAIN disputes
      /\ st.call \in ResolveCall
  BY <1>1, <1>2 DEF Ready, Undecided, ResolveCall
<1>4. CASE LoadAudit(c)
  <2>. DEFINE a   == LoadedAudit(st.call.dispute)
              new == [st EXCEPT !.pc = "judge", !.judged = a]
  <2>1. a \in Roots
    BY <1>3, LoadedIsAudit DEF SignerInv
  <2>. HIDE DEF a
  <2>2. /\ new \in ClientState /\ new.pc = "judge" /\ new.judged = a
        /\ new.call = st.call /\ new.try = st.try
        /\ client' = [client EXCEPT ![c] = new]
    BY <1>1, <1>4, <2>1 DEF LoadAudit, ClientState, Busy, a
  <2>. HIDE DEF new
  <2>3. Ready(new)
    BY <1>3, <2>1, <2>2 DEF Ready
  <2>. QED
    BY <1>1, <1>2, <2>2, <2>3, RunStep
<1>5. CASE Judge(c)
  <2>1. st.judged \in Roots
    BY <1>1, <1>5 DEF Judge, Only, Ready
  <2>2. PICK o \in Outcomes :
            client' = [client EXCEPT
                ![c].pc = "nonce",
                ![c].call.outcome = o,
                ![c].call.verdict = [by |-> c, judged |-> st.judged, outcome |-> o]]
    BY <1>5 DEF Judge
  <2>. DEFINE v    == [by |-> c, judged |-> st.judged, outcome |-> o]
              call == [st.call EXCEPT !.outcome = o, !.verdict = v]
              new  == [st EXCEPT !.pc = "nonce", !.call = call]
  <2>3. v \in Verdicts /\ v.outcome = o
    BY <2>1, OracleSignerAssumption
  <2>. HIDE DEF v
  <2>4. /\ call \in [kind : {"resolve"}, dispute : 1 .. MaxDisputes,
                     outcome : Outcomes, verdict : Verdicts]
        /\ call.outcome = o /\ call.verdict = v /\ call.kind = "resolve"
    BY <1>3, <2>3 DEF Undecided
  <2>5. client' = [client EXCEPT ![c] = new]
    BY <1>1, <1>3, <2>2 DEF ClientState, Undecided, v
  <2>. HIDE DEF call
  <2>6. Complete(call) /\ call \in Call /\ ~IsAudit(call)
    BY <2>3, <2>4 DEF Complete, Call, ResolveCall, IsAudit
  <2>7. /\ new \in ClientState /\ new.pc = "nonce" /\ new.call = call
        /\ new.try = st.try
    BY <1>1, <2>6 DEF ClientState, Busy
  <2>. HIDE DEF new
  <2>8. Ready(new)
    BY <2>6, <2>7 DEF Ready
  <2>. QED
    BY <1>1, <1>2, <2>5, <2>6, <2>7, <2>8, RunStep
<1>. QED
  BY <1>4, <1>5

(* From the nonce to the receipt, with every way of giving up on the way.  *)
LEMMA BroadcastsKeep ==
    ASSUME SignerInv, NEW c \in Clients,
           ReadNonce(c) \/ Estimate(c) \/ Send(c) \/ LoseAnswer(c) \/ Receipt(c)
               \/ Timeout(c) \/ Fail(c)
    PROVE  SignerInv'
<1>. DEFINE st == client[c]
<1>1. /\ st \in ClientState /\ Ready(st) /\ nonce \in Nat /\ st.seen \in Nat
      /\ client \in [Clients -> ClientState] /\ Signed(c).nonce = st.seen
  BY DEF SignerInv, OTypeOK, ClientState, Prepared, Signed
<1>2. ASSUME NEW pc, Goto(c, pc)
      PROVE  client' = [client EXCEPT ![c].pc = pc, ![c].seen = st.seen]
  BY <1>1, <1>2 DEF Goto, ClientState
<1>3. CASE ReadNonce(c)
  <2>1. st.pc = "nonce" /\ Complete(st.call)
    BY <1>1, <1>3 DEF ReadNonce, Only, Ready
  <2>. QED
    BY <1>1, <1>3, <2>1, MoveOn DEF ReadNonce, Only
<1>4. CASE Estimate(c)
  <2>1. /\ st.pc = "estimate" /\ Complete(st.call)
        /\ UNCHANGED <<registryVars, nonce, mined, pool, made>>
    BY <1>1, <1>4 DEF Estimate, Only, Ready
  <2>2. PICK pc \in {"send", "raised"} : Goto(c, pc)
    BY <1>4 DEF Estimate
  <2>3. client' = [client EXCEPT ![c].pc = pc, ![c].seen = st.seen]
    BY <1>2, <2>2
  <2>4. pc # "done" /\ pc \in {"estimate", "send", "done", "raised"}
    BY <2>2
  <2>. QED
    BY <1>1, <2>1, <2>3, <2>4, MoveOn
<1>5. CASE Fail(c)
  <2>1. /\ st.pc \in {"load", "judge", "nonce", "estimate", "send"} /\ Goto(c, "raised")
        /\ UNCHANGED <<registryVars, nonce, mined, pool, made>>
    BY <1>5 DEF Fail
  <2>. QED
    BY <1>1, <1>2, <2>1, MoveOn
<1>6. CASE Timeout(c)
  <2>1. /\ st.pc = "wait" /\ Goto(c, "raised")
        /\ UNCHANGED <<registryVars, nonce, mined, pool, made>>
    BY <1>6 DEF Timeout, Only
  <2>. QED
    BY <1>1, <1>2, <2>1, MoveOn
<1>7. CASE Receipt(c)
  <2>1. /\ st.pc = "wait" /\ Complete(st.call)
        /\ UNCHANGED <<registryVars, nonce, mined, pool, made>>
    BY <1>1, <1>7 DEF Receipt, Only, Ready
  <2>2. PICK m \in mined : m.tx = Signed(c) /\ Goto(c, IF m.ok THEN "done" ELSE "raised")
    BY <1>7 DEF Receipt
  <2>3. PICK pc \in {"done", "raised"} : Goto(c, pc) /\ (pc = "done" => m.ok)
    BY <2>2
  <2>4. pc = "done" => Confirmed(Signed(c))
    BY <2>2, <2>3 DEF Confirmed
  <2>5. client' = [client EXCEPT ![c].pc = pc, ![c].seen = st.seen]
    BY <1>2, <2>3
  <2>. QED
    BY <1>1, <2>1, <2>3, <2>4, <2>5, MoveOn
<1>8. CASE Send(c) \/ LoseAnswer(c)
  <2>1. /\ st.pc = "send" /\ UNCHANGED <<registryVars, nonce, mined, made>>
    BY <1>8 DEF Send, LoseAnswer, Only
  <2>2. CASE /\ Signed(c).nonce = nonce
             /\ pool' = (pool \ Rivals(Signed(c))) \cup {Signed(c)}
             /\ \E pc \in {"wait", "raised"} : Goto(c, pc)
    BY <1>1, <2>1, <2>2, SendStep DEF Goto
  <2>3. CASE Goto(c, "raised") /\ UNCHANGED pool
    BY <1>1, <1>2, <2>1, <2>3, MoveOn
  <2>. QED
    BY <1>8, <2>2, <2>3 DEF Send, LoseAnswer
<1>. QED
  BY <1>3, <1>4, <1>5, <1>6, <1>7, <1>8

(* Every step of the composition keeps the invariant.                      *)
LEMMA SignerStep ==
    ASSUME SignerInv, [ONext]_oracleVars
    PROVE  SignerInv'
<1>1. ASSUME NEW c \in Clients,
             \/ \E t \in Targets, k \in Tiers, r \in Roots : StartAudit(c, t, k, r)
             \/ \E d \in 1 .. MaxDisputes : StartResolve(c, d)
             \/ ClientStep(c)
             \/ LoseAnswer(c)
             \/ Fail(c)
             \/ Rerun(c)
      PROVE  SignerInv'
  BY <1>1, StartsKeep, JudgingKeeps, BroadcastsKeep DEF ClientStep
<1>2. ASSUME NEW tx \in pool, Mine(tx)
      PROVE  SignerInv'
  BY <1>2, MineKeeps
<1>3. CASE OthersStep
  BY <1>3, OthersKeep
<1>4. CASE UNCHANGED oracleVars
  BY <1>4 DEF oracleVars, registryVars, signerVars, SignerInv, RegistryInv, TypeOK,
     IndexAgreesWithHead, DisputedKnown, OTypeOK, Prepared, Ready, Decided, Sent, Txs,
     SignedBy, Owned, Shown, Effect, Anchored, Posted, Logs, Confirmed,
     AnchoredAtMostOnce, VerdictCommitsToOutcome
<1>. QED
  BY <1>1, <1>2, <1>3, <1>4 DEF ONext

-------------------------------------------------------------------------------
(***************************************************************************)
(* The theorems.                                                           *)
(***************************************************************************)

(* Types, what each run knows, who signed what and what the registry shows *)
(* of it: together these survive every step of runs, chain and others.     *)
THEOREM SignerInvariant == OSpec => []SignerInv
<1>1. SignerInv /\ [ONext]_oracleVars => SignerInv'
  BY SignerStep
<1>. QED
  BY <1>1, SignerInit, PTL DEF OSpec

(* Types, for any number of runs: in particular what a run is about to     *)
(* judge is always an anchored report, whatever happened since it read the *)
(* dispute.                                                                *)
THEOREM OTypeCorrect == OSpec => []OTypeOK
<1>1. SignerInv => OTypeOK
  BY DEF SignerInv
<1>. QED
  BY <1>1, SignerInvariant, PTL

(* The runs, the pool and the miner together implement the registry: what  *)
(* reaches it are its own calls, so all that is proved of Spec is true of  *)
(* the deployed system.                                                    *)
THEOREM ImplementsRegistry == OSpec => Spec
<1>1. OInit => Init
  BY DEF OInit
<1>2. SignerInv /\ [ONext]_oracleVars => [Next]_registryVars
  BY StepMaps
<1>. QED
  BY <1>1, <1>2, SignerInvariant, PTL DEF OSpec, Spec

(* However runs share the key, time out, lose answers and replace each     *)
(* other's transactions, what a run reports is on chain and a report is    *)
(* logged at most once.                                                    *)
THEOREM ReportsTruthful == OSpec => []ReportsMatchLog
<1>1. ASSUME SignerInv PROVE ReportsMatchLog
  <2>1. ASSUME NEW c \in Clients, client[c].pc = "done"
        PROVE  IF client[c].call.kind = "audit" THEN Anchored(client[c].call)
               ELSE Posted(client[c].call)
    <3>1. PICK m \in mined : m.ok /\ m.tx = SignedBy(c, client[c])
      BY <1>1, <2>1 DEF SignerInv, Shown, Confirmed
    <3>2. Effect(m) /\ m.tx.call = client[c].call
      BY <1>1, <3>1 DEF SignerInv, Shown, SignedBy
    <3>. QED
      BY <3>1, <3>2 DEF Effect, IsAudit
  <2>2. ASSUME NEW c \in Clients, client[c].pc = "already"
        PROVE  disputes[client[c].call.dispute].status # "PENDING"
    BY <1>1, <2>2 DEF SignerInv, Prepared, Ready, Decided
  <2>. QED
    BY <1>1, <2>1, <2>2 DEF SignerInv, ReportsMatchLog, ReportedIsOnChain
<1>2. SignerInv => ReportsMatchLog
  BY <1>1
<1>. QED
  BY <1>2, SignerInvariant, PTL

(* The verdict hash stored with a resolved dispute commits to the outcome  *)
(* stored next to it, whichever of the competing runs was mined.           *)
THEOREM VerdictsCommit == OSpec => []VerdictCommitsToOutcome
<1>1. SignerInv => VerdictCommitsToOutcome
  BY DEF SignerInv
<1>. QED
  BY <1>1, SignerInvariant, PTL

(* Because the composition implements the registry, the registry's own     *)
(* theorems hold of it: its records agree with each other and every refund *)
(* is settled, with the engine's runs as the only oracle.                  *)
THEOREM ComposedRegistry == OSpec => [](RecordsConsistent /\ RefundsSettled)
BY ImplementsRegistry, RecordsAgree, RefundsSettle, PTL
===============================================================================
