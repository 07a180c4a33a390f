---------------------------- MODULE EngineProofs ----------------------------
(***************************************************************************)
(* Theorems about the engine's Stores and Pipeline, which are put together *)
(* here because both sort.                                                 *)
(*                                                                         *)
(* Stores, for any targets, refreshers, scenes and windows: receipts are   *)
(* only lost where the code loses them, GET /api/audit tells the truth, a  *)
(* dispute snapshot that nobody interfered with is whole, and the lists of *)
(* the read routes show what comes first.                                  *)
(*                                                                         *)
(* Pipeline, for any sources, checks, replies and lengths of hex claims:   *)
(* the guard accounts for the model's reply, a report's tier is honest,    *)
(* and what is anchored can be read.                                       *)
(***************************************************************************)
EXTENDS Stores, Pipeline, SequenceTheorems, FiniteSetTheorems, FunctionTheorems,
        WellFoundedInduction, TLAPS

(***************************************************************************)
(* The inductive invariant.                                                *)
(***************************************************************************)

LogEvent == [kind : Kinds, target : Targets, block : Nat]
LogInv ==
    /\ scene \in Scenes
    /\ log \in Seq(LogEvent) /\ log # <<>>
    /\ \A i \in DOMAIN log : log[i].block <= BlockNumber
    /\ \A i \in DOMAIN log : i > 1 => log[i - 1].block <= log[i].block

(* A receipt is of an audit in the log and names its target; there is one  *)
(* per root, in the file and in what a writer has read of it.  The paid    *)
(* route has read none that is newer than its own.                         *)
ReceiptTrue(r) ==
    /\ r.root \in DOMAIN log
    /\ r.target = log[r.root].target
    /\ r.at \in 1 .. Now
    /\ r.by \in Writers
ReceiptsTrue(rows) ==
    /\ \A r \in rows : ReceiptTrue(r)
    /\ \A r, q \in rows : r.root = q.root => r = q
WriterInv(st) ==
    \/ st = Idle
    \/ /\ st = [pc |-> "save", row |-> st.row, seen |-> st.seen, read |-> st.read]
       /\ ReceiptTrue(st.row)
       /\ ReceiptsTrue(st.seen)
       /\ st.row.by = "api" => \A r \in st.seen : r.at <= st.row.at
ReceiptInv ==
    /\ ReceiptsTrue(receipts)
    /\ DOMAIN writer = Writers /\ writer = [p \in Writers |-> writer[p]]
    /\ \A p \in Writers : WriterInv(writer[p])

(* get_audit has read the head of target t, when the log had `since`       *)
(* events.                                                                 *)
HeadRead(t, since, root) ==
    /\ t \in Targets
    /\ since \in 0 .. Len(log)
    /\ root \in Audits(t)
    /\ Count(t, root) = Count(t, since)
CountRead(t, root, count) == count \in Count(t, root) .. CountOf(t)
ApiInv(a) ==
    \/ a = Idle
    \/ a.pc = "count" /\ HeadRead(a.target, a.since, a.root)
    \/ /\ a.pc = "fetch" /\ HeadRead(a.target, a.since, a.root)
       /\ CountRead(a.target, a.root, a.count)
AnswerTrue(a) ==
    \/ a = None
    \/ a.code = 500
    \/ a.code = 404 /\ a.since \in 0 .. Len(log) /\ Count(a.target, a.since) = 0
    \/ /\ a.code = 200
       /\ HeadRead(a.target, a.since, a.root)
       /\ CountRead(a.target, a.root, a.count)
       /\ a.report = None <=> a.match = None
       /\ a.match = TRUE <=> a.report = a.root
       /\ a.x402 # None => a.x402.root = a.root /\ a.x402.target = a.target
AnswerInv ==
    /\ ApiInv(api)
    /\ api # Idle => writer["api"] = Idle
    /\ AnswerTrue(answer)

(* A refresh has all disputes of its window from its log call on.          *)
Exact(last, rows) ==
    /\ last \in Nat /\ last <= BlockNumber
    /\ rows = EventsBetween("dispute", From(last), last)
RefreshTrue(st) ==
    \/ st = Idle
    \/ /\ st.pc = "open"
       /\ st = [pc |-> "open", last |-> st.last, rows |-> st.rows]
       /\ Exact(st.last, st.rows)
    \/ /\ st.pc \in {"write", "replace"}
       /\ st = [pc |-> st.pc, last |-> st.last, rows |-> st.rows,
                fd |-> st.fd, alone |-> st.alone]
       /\ Exact(st.last, st.rows)
       /\ st.fd \in DOMAIN inodes
       /\ st.alone \in BOOLEAN
(* Who writes alone has disputes.tmp for itself: it is empty before the    *)
(* write and what was written after it.                                    *)
AloneTrue(p, st) ==
    st.pc \in {"write", "replace"} /\ st.alone =>
        /\ \A q \in Refreshers : Writing(q) => q = p
        /\ names.tmp = st.fd
        /\ inodes[st.fd] = IF st.pc = "write" THEN Blank
                           ELSE [whole |-> TRUE, last |-> st.last, rows |-> st.rows]
NamesInv ==
    /\ names = [json |-> names.json, tmp |-> names.tmp, trusted |-> names.trusted]
    /\ {names.json, names.tmp} \subseteq DOMAIN inodes \cup {None}
    /\ names.json = names.tmp => names.json = None
(* Nobody can still write to a trusted disputes.json.                      *)
TrustInv ==
    names.json # None /\ names.trusted =>
        /\ \A q \in Refreshers : Writing(q) => refresh[q].fd # names.json
        /\ inodes[names.json].whole
        /\ Exact(inodes[names.json].last, inodes[names.json].rows)
DisputeInv ==
    /\ DOMAIN inodes = 1 .. Cardinality(Refreshers) + 2
    /\ inodes = [i \in DOMAIN inodes |-> inodes[i]]
    /\ DOMAIN refresh = Refreshers /\ refresh = [p \in Refreshers |-> refresh[p]]
    /\ \A p \in Refreshers : RefreshTrue(refresh[p])
    /\ \A p \in Refreshers : AloneTrue(p, refresh[p])
    /\ NamesInv
    /\ TrustInv

StoresInv == LogInv /\ ReceiptInv /\ AnswerInv /\ DisputeInv

-------------------------------------------------------------------------------
(***************************************************************************)
(* Numbers and finite sets.                                                *)
(***************************************************************************)

(* A set of naturals has a least member. *)
LEMMA LeastMember ==
    ASSUME NEW S \in SUBSET Nat, S # {}
    PROVE  \E x \in S : \A y \in S : x <= y
<1>. DEFINE T == {0 .. x : x \in S}
<1>1. T \subseteq FiniteSubsetsOf(Nat) /\ T # {}
  <2>1. ASSUME NEW x \in S PROVE 0 .. x \in FiniteSubsetsOf(Nat)
    <3>1. x \in Int /\ 0 .. x \subseteq Nat
      OBVIOUS
    <3>2. IsFiniteSet(0 .. x)
      BY <3>1, FS_Interval
    <3>. QED
      BY <3>1, <3>2 DEF FiniteSubsetsOf
  <2>. QED
    BY <2>1
<1>2. PICK t \in T : \A u \in T : ~ (<<u, t>> \in StrictSubsetOrdering(Nat))
  BY <1>1, FS_StrictSubsetOrderingWellFounded, WFMin
<1>3. PICK x \in S : t = 0 .. x
  BY <1>2
<1>4. ASSUME NEW y \in S PROVE x <= y
  <2>1. CASE y < x
    <3>1. 0 .. y \subseteq 0 .. x /\ x \in 0 .. x /\ x \notin 0 .. y
      BY <2>1
    <3>2. <<0 .. y, t>> \in StrictSubsetOrdering(Nat)
      BY <1>3, <3>1 DEF StrictSubsetOrdering
    <3>. QED
      BY <1>2, <3>2
  <2>. QED
    BY <2>1
<1>. QED
  BY <1>4

(* A bounded measure has a greatest value. *)
LEMMA GreatestMember ==
    ASSUME NEW S, S # {}, NEW f, NEW N \in Nat, \A x \in S : f[x] \in 0 .. N
    PROVE  \E x \in S : \A y \in S : f[y] <= f[x]
<1>. DEFINE D == {N - f[x] : x \in S}
<1>1. D \in SUBSET Nat /\ D # {}
  OBVIOUS
<1>2. PICK d \in D : \A e \in D : d <= e
  BY <1>1, LeastMember
<1>3. PICK x \in S : d = N - f[x]
  BY <1>2
<1>4. ASSUME NEW y \in S PROVE f[y] <= f[x]
  <2>1. d <= N - f[y]
    BY <1>2
  <2>. QED
    BY <2>1, <1>3
<1>. QED
  BY <1>4

-------------------------------------------------------------------------------
(***************************************************************************)
(* The log only grows.                                                     *)
(***************************************************************************)

(* What a step does to the log: events stay, new ones are in later blocks. *)
LogGrows ==
    /\ log' \in Seq(LogEvent) /\ log' # <<>>
    /\ Len(log) <= Len(log')
    /\ \A i \in DOMAIN log : i \in DOMAIN log' /\ log'[i] = log[i]
    /\ \A i \in DOMAIN log' \ DOMAIN log : Len(log) < i /\ BlockNumber < log'[i].block
    /\ BlockNumber <= BlockNumber'

(* Events are numbered from one, the latest block being the last one's.    *)
LEMMA LogFacts ==
    ASSUME LogInv
    PROVE  /\ Len(log) \in Nat \ {0} /\ DOMAIN log = 1 .. Len(log)
           /\ \A i \in DOMAIN log : log[i] \in LogEvent
           /\ \A i \in DOMAIN log : log[i].block \in Nat
           /\ BlockNumber \in Nat
<1>1. Len(log) \in Nat \ {0} /\ DOMAIN log = 1 .. Len(log)
  BY EmptySeq DEF LogInv
<1>2. \A i \in DOMAIN log : log[i] \in LogEvent
  BY DEF LogInv
<1>3. \A i \in DOMAIN log : log[i].block \in Nat
  BY <1>2 DEF LogEvent
<1>4. Len(log) \in DOMAIN log
  BY <1>1
<1>. QED
  BY <1>1, <1>2, <1>3, <1>4 DEF BlockNumber

(* A step that emits nothing.                                              *)
LEMMA LogStays ==
    ASSUME LogInv, log' = log, scene' = scene
    PROVE  LogInv' /\ LogGrows
<1>1. BlockNumber' = BlockNumber /\ BlockNumber \in Nat /\ Len(log) \in Nat
  BY LogFacts DEF BlockNumber
<1>. QED
  BY <1>1 DEF LogInv, LogGrows, BlockNumber

(* The events of a block come to the end of the log.                       *)
LEMMA AppendedGrows ==
    ASSUME LogInv, NEW block \in Seq(LogEvent), block # <<>>,
           \A i \in DOMAIN block : block[i].block = BlockNumber + 1,
           log' = log \o block, scene' = scene
    PROVE  LogInv' /\ LogGrows
<1>. DEFINE n == Len(log)
            m == Len(block)
<1>1. /\ n \in Nat \ {0} /\ DOMAIN log = 1 .. n /\ BlockNumber \in Nat
      /\ \A i \in DOMAIN log : log[i] \in LogEvent /\ log[i].block \in Nat
  BY LogFacts
<1>2. m \in Nat \ {0} /\ DOMAIN block = 1 .. m
  BY EmptySeq
<1>3. /\ log' \in Seq(LogEvent) /\ Len(log') = n + m
      /\ \A i \in 1 .. n + m : log'[i] = IF i <= n THEN log[i] ELSE block[i - n]
  BY ConcatProperties DEF LogInv
<1>4. DOMAIN log' = 1 .. n + m
  BY <1>3
<1>. HIDE DEF n, m
<1>5. \A i \in DOMAIN log : i \in DOMAIN log' /\ log'[i] = log[i]
  BY <1>1, <1>2, <1>3, <1>4
<1>6. ASSUME NEW i \in DOMAIN log' \ DOMAIN log
      PROVE  n < i /\ log'[i].block = BlockNumber + 1
  <2>1. i \in Nat /\ n < i /\ i - n \in 1 .. m /\ i \in 1 .. n + m /\ ~(i <= n)
    BY <1>1, <1>2, <1>4
  <2>2. log'[i] = block[i - n]
    BY <1>3, <2>1
  <2>. QED
    BY <1>2, <2>1, <2>2
<1>7. BlockNumber' = BlockNumber + 1
  <2>1. n + m \in DOMAIN log' \ DOMAIN log
    BY <1>1, <1>2, <1>4
  <2>2. log'[n + m].block = BlockNumber + 1
    BY <1>6, <2>1
  <2>. QED
    BY <1>3, <2>2 DEF BlockNumber
<1>8. \A i \in DOMAIN log : log[i].block <= BlockNumber
  BY DEF LogInv
<1>9. \A i \in DOMAIN log' : log'[i].block <= BlockNumber'
  <2>1. ASSUME NEW i \in DOMAIN log' PROVE log'[i].block <= BlockNumber'
    <3>1. CASE i \in DOMAIN log
      BY <1>1, <1>5, <1>7, <1>8, <3>1
    <3>2. CASE i \notin DOMAIN log
      BY <1>1, <1>6, <1>7, <3>2
    <3>. QED
      BY <3>1, <3>2
  <2>. QED
    BY <2>1
<1>10. ASSUME NEW i \in DOMAIN log', i > 1 PROVE log'[i - 1].block <= log'[i].block
  <2>1. i \in Nat /\ i - 1 \in DOMAIN log'
    BY <1>1, <1>2, <1>4, <1>10
  <2>2. CASE i \in DOMAIN log
    <3>1. i - 1 \in DOMAIN log /\ log[i - 1].block <= log[i].block
      BY <1>1, <1>10, <2>1, <2>2 DEF LogInv
    <3>. QED
      BY <1>5, <2>2, <3>1
  <2>3. CASE i \notin DOMAIN log
    <3>1. log'[i].block = BlockNumber + 1
      BY <1>6, <2>3
    <3>2. log'[i - 1].block <= BlockNumber + 1
      BY <1>7, <1>9, <2>1
    <3>. QED
      BY <3>1, <3>2
  <2>. QED
    BY <2>2, <2>3
<1>11. n <= n + m /\ log' # <<>>
  BY <1>1, <1>2, <1>3, EmptySeq
<1>12. LogInv'
  BY <1>3, <1>9, <1>10, <1>11 DEF LogInv
<1>13. BlockNumber < BlockNumber + 1 /\ BlockNumber <= BlockNumber'
  BY <1>1, <1>7
<1>14. LogGrows
  BY <1>3, <1>5, <1>6, <1>11, <1>13 DEF LogGrows, n
<1>. QED
  BY <1>12, <1>14

(* A block has one or two events of the kinds of the scene.                *)
LEMMA EmitGrows ==
    ASSUME LogInv, Emit
    PROVE  LogInv' /\ LogGrows
<1>1. scene' = scene
  BY DEF Emit
<1>2. BlockNumber \in Nat /\ scene.kinds \subseteq Kinds
  BY LogFacts, StoresAssumption DEF LogInv
<1>3. ASSUME NEW e \in Event PROVE e \in LogEvent /\ e.block = BlockNumber + 1
  BY <1>2 DEF Event, LogEvent
<1>4. ASSUME NEW e \in Event, log' = log \o <<e>> PROVE LogInv' /\ LogGrows
  <2>1. /\ <<e>> \in Seq(LogEvent) /\ <<e>> # <<>>
        /\ \A i \in DOMAIN <<e>> : <<e>>[i].block = BlockNumber + 1
    BY <1>3
  <2>. QED
    BY <1>1, <1>4, <2>1, AppendedGrows
<1>5. ASSUME NEW d \in Event, NEW e \in Event, log' = log \o <<d, e>>
      PROVE  LogInv' /\ LogGrows
  <2>1. /\ <<d, e>> \in Seq(LogEvent) /\ <<d, e>> # <<>>
        /\ \A i \in DOMAIN <<d, e>> : <<d, e>>[i].block = BlockNumber + 1
    BY <1>3
  <2>. QED
    BY <1>1, <1>5, <2>1, AppendedGrows
<1>6. \/ \E e \in Event : log' = log \o <<e>>
      \/ \E d, e \in Event : log' = log \o <<d, e>>
  <2>1. PICK block \in {<<e>> : e \in Event} \cup (Event \X Event) : log' = log \o block
    BY DEF Emit
  <2>2. CASE block \in {<<e>> : e \in Event}
    BY <2>1, <2>2
  <2>3. CASE block \in Event \X Event
    <3>1. PICK d \in Event, e \in Event : block = <<d, e>>
      BY <2>3
    <3>. QED
      BY <2>1, <3>1
  <2>. QED
    BY <2>2, <2>3
<1>. QED
  BY <1>4, <1>5, <1>6

(* Audits of a target up to a position of the log.                         *)
LEMMA CountFacts ==
    ASSUME LogInv, NEW t
    PROVE  /\ \A n : Count(t, n) \in Nat /\ Count(t, n) <= CountOf(t)
           /\ CountOf(t) \in Nat
           /\ IsFiniteSet(Audits(t)) /\ Audits(t) \subseteq 1 .. Len(log)
<1>1. Len(log) \in Nat /\ DOMAIN log = 1 .. Len(log)
  BY LogFacts
<1>2. Audits(t) \in SUBSET (1 .. Len(log)) /\ IsFiniteSet(1 .. Len(log))
  BY <1>1, FS_Interval DEF Audits
<1>3. IsFiniteSet(Audits(t))
  BY <1>2, FS_Subset
<1>4. CountOf(t) \in Nat
  BY <1>3, FS_CardinalityType DEF CountOf
<1>5. ASSUME NEW n PROVE Count(t, n) \in Nat /\ Count(t, n) <= CountOf(t)
  <2>1. {i \in Audits(t) : i <= n} \in SUBSET Audits(t)
    OBVIOUS
  <2>. QED
    BY <1>3, <2>1, FS_Subset, FS_CardinalityType DEF Count, CountOf
<1>. QED
  BY <1>2, <1>3, <1>4, <1>5

(* New events do not change what was counted.                              *)
LEMMA CountsKept ==
    ASSUME LogInv, LogInv', LogGrows, NEW t
    PROVE  /\ \A n \in 0 .. Len(log) : Count(t, n)' = Count(t, n)
           /\ Audits(t) \subseteq Audits(t)'
           /\ CountOf(t) \in Nat /\ CountOf(t)' \in Nat /\ CountOf(t) <= CountOf(t)'
<1>1. /\ Len(log) \in Nat /\ DOMAIN log = 1 .. Len(log)
      /\ Len(log') \in Nat /\ DOMAIN log' = 1 .. Len(log')
  BY LogFacts DEF LogGrows
<1>2. ASSUME NEW n \in 0 .. Len(log) PROVE Count(t, n)' = Count(t, n)
  <2>1. ASSUME NEW i \in DOMAIN log', i <= n
        PROVE  i \in DOMAIN log /\ log'[i] = log[i]
    BY <1>1, <2>1 DEF LogGrows
  <2>2. \A i \in DOMAIN log : i \in DOMAIN log' /\ log'[i] = log[i]
    BY DEF LogGrows
  <2>3. {i \in {k \in DOMAIN log' : log'[k].kind = "audit" /\ log'[k].target = t} : i <= n}
        = {i \in {k \in DOMAIN log : log[k].kind = "audit" /\ log[k].target = t} : i <= n}
    BY <2>1, <2>2
  <2>. QED
    BY <2>3 DEF Count, Audits
<1>3. Audits(t) \in SUBSET (Audits(t)')
  BY DEF Audits, LogGrows
<1>4. IsFiniteSet(Audits(t)')
  <2>1. Audits(t)' \in SUBSET (1 .. Len(log')) /\ IsFiniteSet(1 .. Len(log'))
    BY <1>1, FS_Interval DEF Audits
  <2>. QED
    BY <2>1, FS_Subset
<1>5. /\ IsFiniteSet(Audits(t))
      /\ Cardinality(Audits(t)) <= Cardinality(Audits(t)')
  BY <1>3, <1>4, FS_Subset
<1>. QED
  BY <1>2, <1>3, <1>4, <1>5, FS_CardinalityType DEF CountOf

(* Nor the disputes of a window that has passed.                           *)
LEMMA ExactKept ==
    ASSUME LogInv, LogInv', LogGrows, NEW last, NEW rows, Exact(last, rows)
    PROVE  Exact(last, rows)'
<1>1. last \in Nat /\ last <= BlockNumber /\ BlockNumber \in Nat /\ From(last) \in Int
  BY LogFacts, StoresAssumption DEF Exact, From
<1>2. BlockNumber <= BlockNumber'
  BY DEF LogGrows
<1>3. BlockNumber' \in Nat
  <2>1. Len(log') \in DOMAIN log' /\ \A i \in DOMAIN log' : log'[i] \in LogEvent
    BY EmptySeq DEF LogGrows
  <2>. QED
    BY <2>1 DEF BlockNumber, LogEvent
<1>4. \A i \in DOMAIN log : i \in DOMAIN log' /\ log'[i] = log[i]
  BY DEF LogGrows
<1>5. ASSUME NEW i \in DOMAIN log', log'[i].block \in From(last) .. last
      PROVE  i \in DOMAIN log
  BY <1>1, <1>5 DEF LogGrows
<1>6. {i \in DOMAIN log' : log'[i].kind = "dispute" /\ log'[i].block \in From(last) .. last}
      = {i \in DOMAIN log : log[i].kind = "dispute" /\ log[i].block \in From(last) .. last}
  BY <1>4, <1>5
<1>7. EventsBetween("dispute", From(last), last)' = EventsBetween("dispute", From(last), last)
  BY <1>6 DEF EventsBetween, From
<1>8. last <= BlockNumber'
  BY <1>1, <1>2, <1>3
<1>. QED
  BY <1>1, <1>7, <1>8 DEF Exact, From

-------------------------------------------------------------------------------
(***************************************************************************)
(* Receipts.                                                               *)
(***************************************************************************)

(* Receipts stay true of a growing log.                                    *)
LEMMA ReceiptsTrueKept ==
    ASSUME LogGrows, NEW rows, ReceiptsTrue(rows)
    PROVE  ReceiptsTrue(rows)'
<1>1. ASSUME NEW r, ReceiptTrue(r) PROVE ReceiptTrue(r)'
  <2>1. Len(log) \in Nat /\ Len(log') \in Nat /\ Len(log) <= Len(log')
    BY DEF LogGrows
  <2>. QED
    BY <1>1, <2>1 DEF LogGrows, ReceiptTrue, Now
<1>. QED
  BY <1>1 DEF ReceiptsTrue

(* A record under way stays true of a growing log.                         *)
LEMMA WriterKept ==
    ASSUME LogGrows, NEW st, WriterInv(st)
    PROVE  WriterInv(st)'
<1>1. CASE st = Idle
  BY <1>1 DEF WriterInv, Idle
<1>2. CASE st # Idle
  <2>1. ReceiptTrue(st.row)'
    BY <1>2, ReceiptsTrueKept DEF WriterInv, ReceiptsTrue
  <2>2. ReceiptsTrue(st.seen)'
    BY <1>2, ReceiptsTrueKept DEF WriterInv
  <2>. QED
    BY <1>2, <2>1, <2>2 DEF WriterInv
<1>. QED
  BY <1>1, <1>2

(* One writer moves on, or none.                                           *)
LEMMA WriterMoves ==
    ASSUME ReceiptInv, LogGrows, NEW p \in Writers, NEW st,
           writer' = [writer EXCEPT ![p] = st], WriterInv(st), ReceiptsTrue(receipts)'
    PROVE  ReceiptInv'
<1>1. /\ DOMAIN writer' = Writers /\ writer' = [q \in Writers |-> writer'[q]]
      /\ \A q \in Writers : writer'[q] = IF q = p THEN st ELSE writer[q]
  BY DEF ReceiptInv
<1>2. ASSUME NEW q \in Writers PROVE WriterInv(writer[q])'
  <2>1. PICK s : s = writer'[q]
    OBVIOUS
  <2>2. WriterInv(s)
    BY <1>1, <2>1 DEF ReceiptInv
  <2>3. WriterInv(s)'
    BY <2>2, WriterKept
  <2>. QED
    BY <2>1, <2>3 DEF WriterInv
<1>. QED
  BY <1>1, <1>2 DEF ReceiptInv

(* Nobody reads or writes receipts, while the log may grow.                *)
LEMMA ReceiptsStay ==
    ASSUME ReceiptInv, LogGrows, UNCHANGED receiptVars
    PROVE  ReceiptInv'
<1>1. receipts' = receipts /\ writer' = writer
  BY DEF receiptVars
<1>2. ReceiptsTrue(receipts)'
  <2>1. PICK rows : rows = receipts
    OBVIOUS
  <2>2. ReceiptsTrue(rows)'
    BY <2>1, ReceiptsTrueKept DEF ReceiptInv
  <2>. QED
    BY <1>1, <2>1, <2>2 DEF ReceiptsTrue
<1>3. ASSUME NEW q \in Writers PROVE WriterInv(writer[q])'
  <2>1. PICK s : s = writer[q]
    OBVIOUS
  <2>2. WriterInv(s)
    BY <2>1 DEF ReceiptInv
  <2>3. WriterInv(s)'
    BY <2>2, WriterKept
  <2>. QED
    BY <1>1, <2>1, <2>3 DEF WriterInv
<1>. QED
  BY <1>1, <1>2, <1>3 DEF ReceiptInv

(* What a record reads is true, and so is the row it is about.             *)
LEMMA LoadReceiptsStep ==
    ASSUME LogInv, ReceiptInv, NEW p \in Writers, NEW row, ReceiptTrue(row),
           row.by = "api" => row.at = Now, LoadReceipts(p, row)
    PROVE  LogGrows /\ LogInv' /\ ReceiptInv'
<1>1. receipts' = receipts /\ log' = log /\ scene' = scene
  BY DEF LoadReceipts
<1>2. LogGrows /\ LogInv'
  BY <1>1, LogStays
<1>3. PICK rows \in ReadRows :
         writer' = [writer EXCEPT ![p] = [pc |-> "save", row |-> row, seen |-> rows,
                                          read |-> rows = receipts]]
  BY DEF LoadReceipts
<1>4. PICK st :
         /\ st = [pc |-> "save", row |-> row, seen |-> rows, read |-> rows = receipts]
         /\ writer' = [writer EXCEPT ![p] = st]
  BY <1>3, Zenon
<1>5. ReceiptsTrue(rows)
  <2>1. rows = receipts \/ rows = {}
    BY <1>3 DEF ReadRows
  <2>. QED
    BY <2>1 DEF ReceiptInv, ReceiptsTrue
<1>6. PICK read : read = (rows = receipts)
  OBVIOUS
<1>7. st = [pc |-> "save", row |-> row, seen |-> rows, read |-> read]
  BY <1>4, <1>6, Zenon
<1>8. WriterInv(st)
  <2>1. row.by = "api" => \A r \in rows : r.at <= row.at
    BY <1>5 DEF ReceiptsTrue, ReceiptTrue
  <2>. QED
    BY <1>5, <1>7, <2>1 DEF WriterInv
<1>9. ReceiptsTrue(receipts)'
  <2>1. PICK old : old = receipts
    OBVIOUS
  <2>2. ReceiptsTrue(old)'
    BY <1>2, <2>1, ReceiptsTrueKept DEF ReceiptInv
  <2>. QED
    BY <1>1, <2>1, <2>2 DEF ReceiptsTrue
<1>. QED
  BY <1>2, <1>4, <1>8, <1>9, WriterMoves

(* Saving keeps the file true, one receipt per root.                       *)
LEMMA SaveReceiptsStep ==
    ASSUME LogInv, ReceiptInv, NEW p \in Writers, SaveReceipts(p) \/ SaveFails(p)
    PROVE  LogGrows /\ LogInv' /\ ReceiptInv'
<1>1. /\ writer[p] # Idle /\ log' = log /\ scene' = scene
      /\ writer' = [writer EXCEPT ![p] = Idle]
      /\ receipts' = receipts \/ receipts' = Upsert(writer[p].seen, writer[p].row)
  BY DEF SaveReceipts, SaveFails
<1>2. LogGrows /\ LogInv'
  BY <1>1, LogStays
<1>3. PICK st : st = writer[p]
  OBVIOUS
<1>4. ReceiptTrue(st.row) /\ ReceiptsTrue(st.seen)
  BY <1>1, <1>3 DEF ReceiptInv, WriterInv
<1>5. PICK rows : rows = receipts'
  OBVIOUS
<1>6. ReceiptsTrue(rows)
  <2>1. CASE rows = receipts
    BY <2>1 DEF ReceiptInv
  <2>2. CASE rows = Upsert(st.seen, st.row)
    BY <1>4, <2>2 DEF Upsert, ReceiptsTrue
  <2>. QED
    BY <1>1, <1>3, <1>5, <2>1, <2>2
<1>7. ReceiptsTrue(rows)'
  BY <1>2, <1>6, ReceiptsTrueKept
<1>8. ReceiptsTrue(receipts)'
  BY <1>5, <1>7 DEF ReceiptsTrue
<1>9. WriterInv(Idle)
  BY DEF WriterInv
<1>. QED
  BY <1>1, <1>2, <1>8, <1>9, WriterMoves

-------------------------------------------------------------------------------
(***************************************************************************)
(* GET /api/audit.                                                         *)
(***************************************************************************)

(* What was the head when it was asked stays that.                         *)
LEMMA HeadReadKept ==
    ASSUME LogInv, LogInv', LogGrows, NEW t, NEW since, NEW root, HeadRead(t, since, root)
    PROVE  HeadRead(t, since, root)'
<1>1. /\ Len(log) \in Nat /\ Len(log') \in Nat /\ Len(log) <= Len(log')
      /\ since \in 0 .. Len(log)
  BY LogFacts DEF LogGrows, HeadRead
<1>2. since \in 0 .. Len(log')
  BY <1>1
<1>3. root \in 0 .. Len(log)
  BY CountFacts DEF HeadRead
<1>4. Count(t, root)' = Count(t, root) /\ Count(t, since)' = Count(t, since)
  BY <1>1, <1>3, CountsKept
<1>5. root \in Audits(t)'
  BY CountsKept DEF HeadRead
<1>. QED
  BY <1>2, <1>4, <1>5 DEF HeadRead

(* A count that was asked later never runs ahead of the chain.             *)
LEMMA CountReadKept ==
    ASSUME LogInv, LogInv', LogGrows, NEW t, NEW root \in Audits(t), NEW count,
           CountRead(t, root, count)
    PROVE  CountRead(t, root, count)'
<1>1. root \in 0 .. Len(log)
  BY CountFacts, LogFacts
<1>2. Count(t, root)' = Count(t, root) /\ Count(t, root) \in Nat
  BY <1>1, CountsKept, CountFacts
<1>3. CountOf(t) \in Nat /\ CountOf(t)' \in Nat /\ CountOf(t) <= CountOf(t)'
  BY CountsKept
<1>. QED
  BY <1>2, <1>3 DEF CountRead

(* Hence what get_audit holds between its calls stays true,                *)
LEMMA ApiKept ==
    ASSUME LogInv, LogInv', LogGrows, NEW a, ApiInv(a)
    PROVE  ApiInv(a)'
<1>1. CASE a = Idle
  BY <1>1 DEF ApiInv
<1>2. CASE a.pc = "count" /\ HeadRead(a.target, a.since, a.root)
  <2>1. HeadRead(a.target, a.since, a.root)'
    BY <1>2, HeadReadKept
  <2>. QED
    BY <1>2, <2>1 DEF ApiInv
<1>3. CASE /\ a.pc = "fetch" /\ HeadRead(a.target, a.since, a.root)
           /\ CountRead(a.target, a.root, a.count)
  <2>1. HeadRead(a.target, a.since, a.root)'
    BY <1>3, HeadReadKept
  <2>2. CountRead(a.target, a.root, a.count)'
    BY <1>3, CountReadKept DEF HeadRead
  <2>. QED
    BY <1>3, <2>1, <2>2 DEF ApiInv
<1>. QED
  BY <1>1, <1>2, <1>3 DEF ApiInv

(* and so does the answer that was given.                                  *)
LEMMA AnswerKept ==
    ASSUME LogInv, LogInv', LogGrows, NEW a, AnswerTrue(a)
    PROVE  AnswerTrue(a)'
<1>1. CASE a = None \/ a.code = 500
  BY <1>1 DEF AnswerTrue
<1>2. CASE a.code = 404 /\ a.since \in 0 .. Len(log) /\ Count(a.target, a.since) = 0
  <2>1. Count(a.target, a.since)' = 0
    <3>1. PICK t, n : t = a.target /\ n = a.since
      OBVIOUS
    <3>2. n \in 0 .. Len(log) /\ Count(t, n) = 0
      BY <1>2, <3>1
    <3>3. Count(t, n)' = Count(t, n)
      BY <3>2, CountsKept
    <3>. QED
      BY <3>1, <3>2, <3>3
  <2>2. a.since \in 0 .. Len(log')
    BY <1>2, LogFacts DEF LogGrows
  <2>. QED
    BY <1>2, <2>1, <2>2 DEF AnswerTrue
<1>3. CASE /\ a.code = 200
           /\ HeadRead(a.target, a.since, a.root)
           /\ CountRead(a.target, a.root, a.count)
           /\ a.report = None <=> a.match = None
           /\ a.match = TRUE <=> a.report = a.root
           /\ a.x402 # None => a.x402.root = a.root /\ a.x402.target = a.target
  <2>1. HeadRead(a.target, a.since, a.root)'
    BY <1>3, HeadReadKept
  <2>2. CountRead(a.target, a.root, a.count)'
    BY <1>3, CountReadKept DEF HeadRead
  <2>. QED
    BY <1>3, <2>1, <2>2, Zenon DEF AnswerTrue
<1>. QED
  BY <1>1, <1>2, <1>3, Zenon DEF AnswerTrue

(* A step that leaves the route alone, and gives the API process nothing   *)
(* else to do while the route is at work.                                  *)
LEMMA AnswersStay ==
    ASSUME LogInv, LogInv', LogGrows, AnswerInv, UNCHANGED answerVars,
           api # Idle => writer'["api"] = Idle
    PROVE  AnswerInv'
<1>1. api' = api /\ answer' = answer
  BY DEF answerVars
<1>2. PICK a, b : a = api /\ b = answer
  OBVIOUS
<1>3. ApiInv(a)' /\ AnswerTrue(b)'
  BY <1>2, ApiKept, AnswerKept DEF AnswerInv
<1>4. ApiInv(api)' /\ AnswerTrue(answer)'
  BY <1>1, <1>2, <1>3 DEF ApiInv, AnswerTrue
<1>. QED
  BY <1>1, <1>4 DEF AnswerInv

(* The head is the last audit.                                             *)
LEMMA HeadFacts ==
    ASSUME LogInv, NEW t \in Targets, Audits(t) # {}
    PROVE  HeadRead(t, Len(log), HeadOf(t))
<1>1. /\ Len(log) \in Nat /\ Audits(t) \subseteq 1 .. Len(log)
  BY LogFacts, CountFacts
<1>2. PICK h \in Audits(t) : \A j \in Audits(t) : j <= h
  <2>. DEFINE id == [i \in Audits(t) |-> i]
  <2>1. \A i \in Audits(t) : id[i] \in 0 .. Len(log)
    BY <1>1
  <2>2. \E h \in Audits(t) : \A j \in Audits(t) : id[j] <= id[h]
    <3>. HIDE DEF id
    <3>. QED
      BY <1>1, <2>1, GreatestMember
  <2>. QED
    BY <2>2
<1>3. HeadOf(t) \in Audits(t) /\ \A j \in Audits(t) : j <= HeadOf(t)
  BY <1>2 DEF HeadOf
<1>4. {i \in Audits(t) : i <= HeadOf(t)} = {i \in Audits(t) : i <= Len(log)}
  BY <1>1, <1>3
<1>5. Count(t, HeadOf(t)) = Count(t, Len(log))
  BY <1>4 DEF Count
<1>. QED
  BY <1>1, <1>3, <1>5 DEF HeadRead

(* The route's steps: none leaves the API process to anybody else.         *)
LEMMA GetAuditStep ==
    ASSUME LogInv, AnswerInv, GetAudit
    PROVE  AnswerInv'
<1>1. log' = log /\ scene' = scene /\ writer' = writer /\ writer["api"] = Idle
  BY DEF GetAudit, ApiFree, receiptVars
<1>2. LogInv' /\ LogGrows
  BY <1>1, LogStays
<1>3. PICK t \in Targets :
         IF Audits(t) = {}
         THEN Respond([code |-> 404, target |-> t, since |-> Len(log)])
         ELSE /\ api' = [pc |-> "count", target |-> t, since |-> Len(log), root |-> HeadOf(t)]
              /\ answer' = None
  BY DEF GetAudit
<1>4. CASE Audits(t) = {}
  <2>1. PICK a : a = [code |-> 404, target |-> t, since |-> Len(log)]
    OBVIOUS
  <2>2. api' = Idle /\ answer' = a
    BY <1>3, <1>4, <2>1 DEF Respond
  <2>3. Count(t, Len(log)) = 0
    <3>1. {i \in Audits(t) : i <= Len(log)} = {}
      BY <1>4
    <3>. QED
      BY <3>1, FS_EmptySet DEF Count
  <2>4. AnswerTrue(a)
    BY <2>1, <2>3, LogFacts DEF AnswerTrue
  <2>5. AnswerTrue(a)'
    BY <1>2, <2>4, AnswerKept
  <2>. QED
    BY <2>2, <2>5 DEF AnswerInv, ApiInv, AnswerTrue
<1>5. CASE Audits(t) # {}
  <2>1. PICK a : a = [pc |-> "count", target |-> t, since |-> Len(log), root |-> HeadOf(t)]
    OBVIOUS
  <2>2. api' = a /\ answer' = None
    BY <1>3, <1>5, <2>1
  <2>3. ApiInv(a)
    BY <1>5, <2>1, HeadFacts DEF ApiInv
  <2>4. ApiInv(a)'
    BY <1>2, <2>3, ApiKept
  <2>. QED
    BY <1>1, <2>2, <2>4 DEF AnswerInv, ApiInv, AnswerTrue
<1>. QED
  BY <1>4, <1>5

(* The count is asked after the head.                                      *)
LEMMA GetCountStep ==
    ASSUME LogInv, AnswerInv, GetCount
    PROVE  AnswerInv'
<1>1. /\ log' = log /\ scene' = scene /\ writer' = writer /\ answer' = answer
      /\ api.pc = "count"
  BY DEF GetCount, receiptVars
<1>2. LogInv' /\ LogGrows
  BY <1>1, LogStays
<1>3. PICK a, b : a = api /\ b = answer
  OBVIOUS
<1>4. HeadRead(a.target, a.since, a.root) /\ api # Idle
  BY <1>1, <1>3 DEF AnswerInv, ApiInv, Idle
<1>5. PICK c : c = [pc |-> "fetch", target |-> a.target, since |-> a.since, root |-> a.root,
                    count |-> CountOf(a.target)]
  OBVIOUS
<1>6. api' = c
  BY <1>3, <1>5 DEF GetCount
<1>7. CountRead(a.target, a.root, CountOf(a.target))
  BY CountFacts DEF CountRead
<1>8. ApiInv(c)
  BY <1>4, <1>5, <1>7 DEF ApiInv
<1>9. ApiInv(c)' /\ AnswerTrue(b)'
  BY <1>2, <1>3, <1>8, ApiKept, AnswerKept DEF AnswerInv
<1>10. ApiInv(api)' /\ AnswerTrue(answer)'
  BY <1>1, <1>3, <1>6, <1>9 DEF ApiInv, AnswerTrue
<1>11. writer'["api"] = Idle
  BY <1>1, <1>4 DEF AnswerInv
<1>. QED
  BY <1>10, <1>11 DEF AnswerInv

(* The verdict is on the document fetched, the receipt of this root.       *)
LEMMA FetchReportStep ==
    ASSUME LogInv, ReceiptInv, AnswerInv, FetchReport
    PROVE  AnswerInv'
<1>1. log' = log /\ scene' = scene /\ api.pc = "fetch"
  BY DEF FetchReport
<1>2. LogInv' /\ LogGrows
  BY <1>1, LogStays
<1>3. PICK a : a = api
  OBVIOUS
<1>4. HeadRead(a.target, a.since, a.root) /\ CountRead(a.target, a.root, a.count)
  BY <1>1, <1>3 DEF AnswerInv, ApiInv, Idle
<1>5. PICK doc \in Documents \cup {None}, rows \in ReadRows :
         Respond([code |-> 200, target |-> a.target, since |-> a.since,
                  root |-> a.root, count |-> a.count, report |-> doc,
                  match |-> IF doc = None THEN None ELSE Match(doc, a.root),
                  x402 |-> FindByRootHash(rows, a.root)])
  BY <1>3 DEF FetchReport
<1>6. PICK m : m = IF doc = None THEN None ELSE Match(doc, a.root)
  OBVIOUS
<1>7. PICK x : x = FindByRootHash(rows, a.root)
  OBVIOUS
<1>8. PICK b : b = [code |-> 200, target |-> a.target, since |-> a.since,
                    root |-> a.root, count |-> a.count, report |-> doc, match |-> m, x402 |-> x]
  OBVIOUS
<1>9. answer' = b /\ api' = Idle
  BY <1>5, <1>6, <1>7, <1>8, Zenon DEF Respond
<1>10. a.root \in Nat /\ a.root \in DOMAIN log /\ a.target = log[a.root].target
  BY <1>4, LogFacts DEF HeadRead, Audits
<1>11. None \notin Nat /\ None # TRUE /\ None # FALSE
  BY StoresAssumption
<1>12. /\ doc = None <=> m = None
       /\ m = TRUE <=> doc = a.root
  <2>1. CASE doc = None
    <3>1. m = None /\ doc # a.root
      BY <1>6, <1>10, <1>11, <2>1
    <3>. QED
      BY <1>11, <2>1, <3>1, Zenon
  <2>2. CASE doc # None
    <3>1. m = (doc = a.root)
      BY <1>6, <2>2, Zenon DEF Match
    <3>2. CASE doc = a.root
      <4>1. m = TRUE
        BY <3>1, <3>2, Zenon
      <4>. QED
        BY <1>11, <2>2, <3>2, <4>1, Zenon
    <3>3. CASE doc # a.root
      <4>1. m = FALSE
        BY <3>1, <3>3, Zenon
      <4>. QED
        BY <1>11, <2>2, <3>3, <4>1, Zenon
    <3>. QED
      BY <3>2, <3>3
  <2>. QED
    BY <2>1, <2>2
<1>13. x # None => x.root = a.root /\ x.target = a.target
  <2>1. rows = receipts \/ rows = {}
    BY <1>5 DEF ReadRows
  <2>2. \A r \in rows : r.target = log[r.root].target
    BY <2>1 DEF ReceiptInv, ReceiptsTrue, ReceiptTrue
  <2>3. ASSUME x # None PROVE x \in rows /\ x.root = a.root
    BY <1>7, <2>3 DEF FindByRootHash
  <2>. QED
    BY <1>10, <2>2, <2>3
<1>14. AnswerTrue(b)
  <2>1. /\ b.code = 200 /\ b.target = a.target /\ b.since = a.since /\ b.root = a.root
        /\ b.count = a.count /\ b.report = doc /\ b.match = m /\ b.x402 = x
    BY <1>8, Zenon
  <2>2. /\ HeadRead(b.target, b.since, b.root)
        /\ CountRead(b.target, b.root, b.count)
    BY <1>4, <2>1, Zenon
  <2>3. /\ b.report = None <=> b.match = None
        /\ b.match = TRUE <=> b.report = b.root
    BY <1>12, <2>1, Zenon
  <2>4. b.x402 # None => b.x402.root = b.root /\ b.x402.target = b.target
    BY <1>13, <2>1, Zenon
  <2>. QED
    BY <2>1, <2>2, <2>3, <2>4, Zenon DEF AnswerTrue
<1>15. AnswerTrue(b)'
  BY <1>2, <1>14, AnswerKept
<1>. QED
  BY <1>9, <1>15, Zenon DEF AnswerInv, ApiInv, AnswerTrue

(* An error answers nothing.                                               *)
LEMMA GetFailsStep ==
    ASSUME LogInv, AnswerInv, GetFails
    PROVE  AnswerInv'
<1>1. PICK t \in Targets : Respond([code |-> 500, target |-> t, since |-> Len(log)])
  BY DEF GetFails
<1>. QED
  BY <1>1 DEF Respond, AnswerInv, ApiInv, AnswerTrue

-------------------------------------------------------------------------------
(***************************************************************************)
(* The dispute snapshot.                                                   *)
(***************************************************************************)

(* A refresh keeps its exact rows while the log grows.                     *)
LEMMA RefreshKept ==
    ASSUME LogInv, LogInv', LogGrows, DOMAIN inodes' = DOMAIN inodes,
           NEW st, RefreshTrue(st)
    PROVE  RefreshTrue(st)'
<1>1. CASE st = Idle
  BY <1>1 DEF RefreshTrue
<1>2. CASE st # Idle
  <2>1. Exact(st.last, st.rows)
    BY <1>2 DEF RefreshTrue
  <2>2. Exact(st.last, st.rows)'
    BY <2>1, ExactKept
  <2>. QED
    BY <1>2, <2>2 DEF RefreshTrue
<1>. QED
  BY <1>1, <1>2

(* New events change nothing about the snapshot.                           *)
LEMMA DisputeKept ==
    ASSUME LogInv, LogInv', LogGrows, DisputeInv, UNCHANGED disputeVars
    PROVE  DisputeInv'
<1>1. inodes' = inodes /\ names' = names /\ refresh' = refresh
  BY DEF disputeVars
<1>2. ASSUME NEW q \in Refreshers PROVE RefreshTrue(refresh[q])'
  <2>1. PICK s : s = refresh[q]
    OBVIOUS
  <2>2. RefreshTrue(s)'
    BY <1>1, <2>1, RefreshKept DEF DisputeInv
  <2>. QED
    BY <1>1, <2>1, <2>2 DEF RefreshTrue
<1>3. ASSUME NEW q \in Refreshers PROVE AloneTrue(q, refresh[q])'
  BY <1>1 DEF DisputeInv, AloneTrue, Writing
<1>4. NamesInv'
  BY <1>1 DEF DisputeInv, NamesInv
<1>5. TrustInv'
  <2>1. PICK f : f = inodes[names.json]
    OBVIOUS
  <2>2. ASSUME names.json # None, names.trusted
        PROVE  Exact(f.last, f.rows)'
    BY <2>1, <2>2, ExactKept DEF DisputeInv, TrustInv
  <2>. QED
    BY <1>1, <2>1, <2>2 DEF DisputeInv, TrustInv, Writing, Exact
<1>. QED
  BY <1>1, <1>2, <1>3, <1>4, <1>5 DEF DisputeInv

(* The inode that an open takes: one that nobody else can write to through *)
(* another name.                                                           *)
TmpInode == IF names.tmp = None THEN CHOOSE i \in Unused : TRUE ELSE names.tmp

(* There are more inodes than two names and all refreshers can hold.       *)
LEMMA UnusedLeft ==
    ASSUME DisputeInv, NEW p \in Refreshers, refresh[p].pc = "open", names.tmp = None
    PROVE  Unused # {}
<1>. DEFINE writing == {r \in Refreshers : Writing(r)}
            fds == {refresh[q].fd : q \in writing}
            n == Cardinality(Refreshers)
<1>1. n \in Nat /\ DOMAIN inodes = 1 .. n + 2
  BY StoresAssumption, FS_CardinalityType DEF DisputeInv
<1>2. IsFiniteSet(fds) /\ Cardinality(fds) <= n
  <2>1. IsFiniteSet(writing) /\ Cardinality(writing) <= n
    BY StoresAssumption, FS_Subset
  <2>2. [q \in writing |-> refresh[q].fd] \in Surjection(writing, fds)
    BY DEF Surjection
  <2>3. IsFiniteSet(fds) /\ Cardinality(fds) <= Cardinality(writing)
    BY <2>1, <2>2, FS_Surjection
  <2>4. Cardinality(fds) \in Nat /\ Cardinality(writing) \in Nat
    BY <2>1, <2>3, FS_CardinalityType
  <2>. QED
    BY <1>1, <2>1, <2>3, <2>4
<1>. HIDE DEF fds, writing, n
<1>3. IsFiniteSet(fds \cup {names.json}) /\ Cardinality(fds \cup {names.json}) <= n + 1
  <2>1. PICK j : j = names.json
    OBVIOUS
  <2>2. /\ IsFiniteSet(fds \cup {j})
        /\ \/ Cardinality(fds \cup {j}) = Cardinality(fds)
           \/ Cardinality(fds \cup {j}) = Cardinality(fds) + 1
    BY <1>2, FS_AddElement
  <2>3. Cardinality(fds) \in Nat
    BY <1>2, FS_CardinalityType
  <2>. QED
    BY <1>1, <1>2, <2>1, <2>2, <2>3
<1>4. None \notin 1 .. n + 2
  BY <1>1, StoresAssumption
<1>5. ASSUME Unused = {} PROVE 1 .. n + 2 \subseteq fds \cup {names.json}
  BY <1>1, <1>4, <1>5 DEF Unused, fds, writing
<1>6. ASSUME 1 .. n + 2 \subseteq fds \cup {names.json} PROVE FALSE
  <2>1. Cardinality(1 .. n + 2) <= Cardinality(fds \cup {names.json})
    BY <1>3, <1>6, FS_Subset
  <2>2. Cardinality(1 .. n + 2) = n + 2
    <3>1. 1 \in Int /\ n + 2 \in Int /\ ~(1 > n + 2) /\ n + 2 - 1 + 1 = n + 2
      BY <1>1
    <3>. QED
      BY <3>1, FS_Interval
  <2>3. Cardinality(fds \cup {names.json}) \in Nat
    BY <1>3, FS_CardinalityType
  <2>. QED
    BY <1>1, <1>3, <2>1, <2>2, <2>3
<1>. QED
  BY <1>5, <1>6

(* The inode exists and is not the published one.                          *)
LEMMA TmpInodeFacts ==
    ASSUME DisputeInv, NEW p \in Refreshers, refresh[p].pc = "open"
    PROVE  TmpInode \in DOMAIN inodes /\ TmpInode # names.json /\ TmpInode # None
<1>1. None \notin DOMAIN inodes
  BY StoresAssumption, FS_CardinalityType DEF DisputeInv
<1>2. CASE names.tmp = None
  <2>1. TmpInode \in Unused
    BY <1>2, UnusedLeft DEF TmpInode
  <2>. QED
    BY <1>1, <2>1 DEF Unused
<1>3. CASE names.tmp # None
  BY <1>1, <1>3 DEF TmpInode, DisputeInv, NamesInv
<1>. QED
  BY <1>2, <1>3

(* The states of one refresher, all others unchanged.                      *)
LEMMA RefreshMoves ==
    ASSUME DisputeInv, NEW p \in Refreshers, NEW st, refresh' = [refresh EXCEPT ![p] = st]
    PROVE  /\ DOMAIN refresh' = Refreshers /\ refresh' = [q \in Refreshers |-> refresh'[q]]
           /\ \A q \in Refreshers : refresh'[q] = IF q = p THEN st ELSE refresh[q]
           /\ st.pc \notin {"write", "replace"} =>
                \A q \in Refreshers : Writing(q)' => Writing(q) /\ q # p
  BY DEF DisputeInv, Writing

(* One refresh goes to a state in which it does not write, or no longer.   *)
LEMMA WritesNoMore ==
    ASSUME LogInv, DisputeInv, UNCHANGED <<scene, log>>,
           NEW p \in Refreshers, NEW st, RefreshTrue(st), st.pc \notin {"write", "replace"},
           refresh' = [refresh EXCEPT ![p] = st], UNCHANGED <<inodes, names>>
    PROVE  DisputeInv'
<1>1. log' = log /\ scene' = scene /\ inodes' = inodes /\ names' = names
  OBVIOUS
<1>2. LogInv' /\ LogGrows
  BY <1>1, LogStays
<1>3. /\ DOMAIN refresh' = Refreshers /\ refresh' = [q \in Refreshers |-> refresh'[q]]
      /\ \A q \in Refreshers : refresh'[q] = IF q = p THEN st ELSE refresh[q]
      /\ \A q \in Refreshers : Writing(q)' => Writing(q) /\ q # p
  BY RefreshMoves
<1>4. ASSUME NEW q \in Refreshers PROVE RefreshTrue(refresh[q])'
  <2>1. PICK s : s = refresh'[q]
    OBVIOUS
  <2>2. RefreshTrue(s)
    BY <1>3, <2>1 DEF DisputeInv
  <2>3. RefreshTrue(s)'
    BY <1>1, <1>2, <2>2, RefreshKept
  <2>. QED
    BY <2>1, <2>3 DEF RefreshTrue
<1>5. ASSUME NEW q \in Refreshers PROVE AloneTrue(q, refresh[q])'
  <2>1. CASE q = p
    BY <1>3, <2>1 DEF AloneTrue
  <2>2. CASE q # p
    <3>1. refresh'[q] = refresh[q] /\ AloneTrue(q, refresh[q])
      BY <1>3, <2>2 DEF DisputeInv
    <3>. QED
      BY <1>1, <1>3, <3>1 DEF AloneTrue
  <2>. QED
    BY <2>1, <2>2
<1>6. NamesInv'
  BY <1>1 DEF DisputeInv, NamesInv
<1>7. TrustInv'
  <2>1. PICK f : f = inodes[names.json]
    OBVIOUS
  <2>2. ASSUME names.json # None, names.trusted
        PROVE  /\ \A q \in Refreshers : Writing(q)' => refresh'[q].fd # names.json
               /\ f.whole /\ Exact(f.last, f.rows)'
    BY <1>2, <1>3, <2>1, <2>2, ExactKept DEF DisputeInv, TrustInv
  <2>. QED
    BY <1>1, <2>1, <2>2 DEF TrustInv, Exact
<1>. QED
  BY <1>1, <1>3, <1>4, <1>5, <1>6, <1>7 DEF DisputeInv

(* A walk has the exact rows of its window.                                *)
LEMMA WalkDisputesStep ==
    ASSUME LogInv, DisputeInv, NEW p \in Refreshers, WalkDisputes(p)
    PROVE  DisputeInv'
<1>1. PICK to \in 0 .. BlockNumber :
         refresh' = [refresh EXCEPT ![p] = [pc |-> "open", last |-> to,
                        rows |-> EventsBetween("dispute", From(to), to)]]
  BY DEF WalkDisputes
<1>2. PICK rows : rows = EventsBetween("dispute", From(to), to)
  OBVIOUS
<1>3. PICK st : st = [pc |-> "open", last |-> to, rows |-> rows]
  OBVIOUS
<1>4. Exact(to, rows)
  BY <1>1, <1>2, LogFacts DEF Exact
<1>5. RefreshTrue(st) /\ st.pc = "open"
  BY <1>3, <1>4 DEF RefreshTrue
<1>6. refresh' = [refresh EXCEPT ![p] = st]
  BY <1>1, <1>2, <1>3
<1>7. UNCHANGED <<scene, log, inodes, names>>
  BY DEF WalkDisputes
<1>. QED
  BY <1>5, <1>6, <1>7, WritesNoMore

(* A refresh may end anywhere.                                             *)
LEMMA RefreshEndsStep ==
    ASSUME LogInv, DisputeInv, NEW p \in Refreshers, RefreshEnds(p)
    PROVE  DisputeInv'
<1>1. RefreshTrue(Idle) /\ Idle.pc \notin {"write", "replace"}
  BY DEF RefreshTrue, Idle
<1>2. refresh' = [refresh EXCEPT ![p] = Idle] /\ UNCHANGED <<scene, log, inodes, names>>
  BY DEF RefreshEnds
<1>. QED
  BY <1>1, <1>2, WritesNoMore

(* Whoever opens disputes.tmp truncates it, and is not alone with it if    *)
(* another refresh writes; that one is not alone any more either.          *)
LEMMA OpenTmpStep ==
    ASSUME LogInv, DisputeInv, NEW p \in Refreshers, OpenTmp(p)
    PROVE  DisputeInv'
<1>1. /\ refresh[p].pc = "open" /\ log' = log /\ scene' = scene
      /\ inodes' = [inodes EXCEPT ![TmpInode] = Blank]
      /\ names' = [names EXCEPT !.tmp = TmpInode]
  BY DEF OpenTmp, TmpInode
<1>2. LogInv' /\ LogGrows
  BY <1>1, LogStays
<1>3. PICK fd, n, st : fd = TmpInode /\ n = names /\ st = refresh[p]
  OBVIOUS
<1>4. fd \in DOMAIN inodes /\ fd # n.json /\ fd # None
  BY <1>1, <1>3, TmpInodeFacts
<1>5. PICK others : others = {q \in Refreshers : Writing(q)}
  OBVIOUS
<1>6. PICK alone : alone = (others = {})
  OBVIOUS
<1>7. PICK mine : mine = [pc |-> "write", last |-> st.last, rows |-> st.rows,
                          fd |-> fd, alone |-> alone]
  OBVIOUS
<1>8. refresh' = [q \in Refreshers |->
                     IF q = p THEN mine
                     ELSE IF q \in others THEN [refresh[q] EXCEPT !.alone = FALSE]
                     ELSE refresh[q]]
  BY <1>3, <1>5, <1>6, <1>7, Zenon DEF OpenTmp, TmpInode
<1>9. p \notin others
  BY <1>1, <1>5 DEF Writing
<1>10. refresh'[p] = mine
  BY <1>8, Zenon
<1>11. /\ alone \in BOOLEAN /\ (alone <=> others = {})
       /\ mine.pc = "write" /\ mine.last = st.last /\ mine.rows = st.rows
       /\ mine.fd = fd /\ mine.alone = alone
       /\ mine = [pc |-> mine.pc, last |-> mine.last, rows |-> mine.rows,
                  fd |-> mine.fd, alone |-> mine.alone]
  BY <1>6, <1>7, Zenon
<1>12. ASSUME NEW q \in others
       PROVE  /\ refresh'[q].pc = refresh[q].pc /\ refresh'[q].last = refresh[q].last
              /\ refresh'[q].rows = refresh[q].rows /\ refresh'[q].fd = refresh[q].fd
              /\ refresh'[q].alone = FALSE
              /\ refresh'[q] = [pc |-> refresh'[q].pc, last |-> refresh'[q].last,
                                rows |-> refresh'[q].rows, fd |-> refresh'[q].fd,
                                alone |-> refresh'[q].alone]
  <2>1. PICK s : s = refresh[q]
    OBVIOUS
  <2>2. s = [pc |-> s.pc, last |-> s.last, rows |-> s.rows, fd |-> s.fd, alone |-> s.alone]
    BY <1>5, <2>1 DEF Writing, DisputeInv, RefreshTrue, Idle
  <2>3. refresh'[q] = [s EXCEPT !.alone = FALSE]
    BY <1>5, <1>8, <1>9, <2>1, Zenon
  <2>4. PICK u : u = [s EXCEPT !.alone = FALSE]
    OBVIOUS
  <2>5. u = [pc |-> s.pc, last |-> s.last, rows |-> s.rows, fd |-> s.fd, alone |-> FALSE]
    BY <2>2, <2>4
  <2>. QED
    BY <2>1, <2>3, <2>4, <2>5, Zenon
<1>13. ASSUME NEW q \in Refreshers, q # p, q \notin others
       PROVE  refresh'[q] = refresh[q] /\ ~Writing(q)
  BY <1>5, <1>8, <1>13, Zenon
<1>14. DOMAIN inodes' = DOMAIN inodes /\ inodes' = [i \in DOMAIN inodes' |-> inodes'[i]]
  BY <1>1
<1>15. /\ names' = [json |-> n.json, tmp |-> fd, trusted |-> n.trusted]
  <2>1. n = [json |-> n.json, tmp |-> n.tmp, trusted |-> n.trusted]
    BY <1>3 DEF DisputeInv, NamesInv
  <2>2. PICK m : m = [n EXCEPT !.tmp = fd]
    OBVIOUS
  <2>3. m = [json |-> n.json, tmp |-> fd, trusted |-> n.trusted]
    BY <2>1, <2>2
  <2>. QED
    BY <1>1, <1>3, <2>2, <2>3, Zenon
<1>16. inodes'[fd] = Blank /\ \A i \in DOMAIN inodes : i # fd => inodes'[i] = inodes[i]
  BY <1>1, <1>3, <1>4
<1>17. ASSUME NEW q \in Refreshers PROVE RefreshTrue(refresh[q])'
  <2>1. PICK s : s = refresh'[q]
    OBVIOUS
  <2>2. RefreshTrue(s)
    <3>1. CASE q = p
      <4>1. Exact(mine.last, mine.rows)
        BY <1>1, <1>3, <1>11 DEF DisputeInv, RefreshTrue, Idle
      <4>. QED
        BY <1>4, <1>10, <1>11, <2>1, <3>1, <4>1, Zenon DEF RefreshTrue
    <3>2. CASE q \in others
      <4>1. /\ refresh[q].pc \in {"write", "replace"}
            /\ Exact(refresh[q].last, refresh[q].rows)
            /\ refresh[q].fd \in DOMAIN inodes
        BY <1>5, <3>2 DEF Writing, DisputeInv, RefreshTrue, Idle
      <4>. QED
        BY <1>12, <2>1, <3>2, <4>1, Zenon DEF RefreshTrue
    <3>3. CASE q # p /\ q \notin others
      BY <1>13, <2>1, <3>3 DEF DisputeInv
    <3>. QED
      BY <3>1, <3>2, <3>3
  <2>3. RefreshTrue(s)'
    BY <1>2, <1>14, <2>2, RefreshKept
  <2>. QED
    BY <2>1, <2>3 DEF RefreshTrue
<1>18. ASSUME NEW q \in Refreshers, Writing(q)' PROVE q = p \/ q \in others
  BY <1>13, <1>18 DEF Writing
<1>19. ASSUME NEW q \in Refreshers PROVE AloneTrue(q, refresh[q])'
  <2>1. CASE q = p
    <3>1. alone => \A r \in Refreshers : Writing(r)' => r = p
      BY <1>11, <1>18
    <3>2. names'.tmp = fd /\ inodes'[fd] = Blank
      BY <1>15, <1>16
    <3>. QED
      BY <1>10, <1>11, <2>1, <3>1, <3>2 DEF AloneTrue
  <2>2. CASE q \in others
    BY <1>12, <2>2 DEF AloneTrue
  <2>3. CASE q # p /\ q \notin others
    BY <1>13, <2>3 DEF AloneTrue, Writing
  <2>. QED
    BY <2>1, <2>2, <2>3
<1>20. NamesInv'
  <2>1. {n.json, fd} \subseteq DOMAIN inodes \cup {None}
    BY <1>3, <1>4 DEF DisputeInv, NamesInv
  <2>. QED
    BY <1>4, <1>14, <1>15, <2>1 DEF NamesInv
<1>21. TrustInv'
  <2>1. names'.json = n.json /\ names'.trusted = n.trusted
    BY <1>15
  <2>2. ASSUME n.json # None, n.trusted
        PROVE  /\ \A q \in Refreshers : Writing(q)' => refresh'[q].fd # n.json
               /\ inodes'[n.json].whole
               /\ Exact(inodes[n.json].last, inodes[n.json].rows)'
    <3>1. /\ \A q \in Refreshers : Writing(q) => refresh[q].fd # n.json
          /\ inodes[n.json].whole
          /\ Exact(inodes[n.json].last, inodes[n.json].rows)
      BY <1>3, <2>2 DEF DisputeInv, TrustInv
    <3>2. inodes'[n.json] = inodes[n.json]
      BY <1>3, <1>4, <1>16, <2>2 DEF DisputeInv, NamesInv
    <3>3. PICK f : f = inodes[n.json]
      OBVIOUS
    <3>4. Exact(f.last, f.rows)'
      BY <1>2, <3>1, <3>3, ExactKept
    <3>5. ASSUME NEW q \in Refreshers, Writing(q)' PROVE refresh'[q].fd # n.json
      <4>1. CASE q = p
        BY <1>4, <1>10, <1>11, <4>1
      <4>2. CASE q \in others
        BY <1>5, <1>12, <3>1, <4>2
      <4>. QED
        BY <1>18, <3>5, <4>1, <4>2
    <3>. QED
      BY <3>1, <3>2, <3>3, <3>4, <3>5 DEF Exact
  <2>. QED
    BY <2>1, <2>2 DEF TrustInv, Exact
<1>22. DOMAIN refresh' = Refreshers /\ refresh' = [q \in Refreshers |-> refresh'[q]]
  BY <1>8
<1>23. DOMAIN inodes' = 1 .. Cardinality(Refreshers) + 2
  BY <1>14 DEF DisputeInv
<1>. QED
  BY <1>14, <1>17, <1>19, <1>20, <1>21, <1>22, <1>23 DEF DisputeInv

(* The write fills the inode that the open took: whole if it was empty,    *)
(* which it is for a refresh alone with it.                                *)
LEMMA WriteTmpStep ==
    ASSUME LogInv, DisputeInv, NEW p \in Refreshers, WriteTmp(p)
    PROVE  DisputeInv'
<1>1. /\ refresh[p].pc = "write" /\ log' = log /\ scene' = scene /\ names' = names
  BY DEF WriteTmp
<1>2. LogInv' /\ LogGrows
  BY <1>1, LogStays
<1>3. PICK n, st : n = names /\ st = refresh[p]
  OBVIOUS
<1>4. PICK old : old = inodes[st.fd]
  OBVIOUS
<1>5. PICK new : new = Overwritten(old, st.last, st.rows)
  OBVIOUS
<1>6. /\ st = [pc |-> "write", last |-> st.last, rows |-> st.rows,
               fd |-> st.fd, alone |-> st.alone]
      /\ Exact(st.last, st.rows) /\ st.fd \in DOMAIN inodes /\ st.alone \in BOOLEAN
  BY <1>1, <1>3 DEF DisputeInv, RefreshTrue, Idle
<1>7. inodes' = [inodes EXCEPT ![st.fd] = new]
  BY <1>3, <1>4, <1>5 DEF WriteTmp
<1>8. PICK mine : mine = [st EXCEPT !.pc = "replace"]
  OBVIOUS
<1>9. mine = [pc |-> "replace", last |-> st.last, rows |-> st.rows,
              fd |-> st.fd, alone |-> st.alone]
  BY <1>6, <1>8
<1>10. refresh' = [refresh EXCEPT ![p] = mine]
  BY <1>3, <1>8 DEF WriteTmp
<1>11. /\ DOMAIN refresh' = Refreshers /\ refresh' = [q \in Refreshers |-> refresh'[q]]
       /\ \A q \in Refreshers : refresh'[q] = IF q = p THEN mine ELSE refresh[q]
  BY <1>10, RefreshMoves
<1>12. \A q \in Refreshers : Writing(q)' <=> Writing(q)
  BY <1>1, <1>9, <1>11 DEF Writing
<1>13. /\ DOMAIN inodes' = DOMAIN inodes /\ inodes' = [i \in DOMAIN inodes' |-> inodes'[i]]
       /\ inodes'[st.fd] = new
       /\ \A i \in DOMAIN inodes : i # st.fd => inodes'[i] = inodes[i]
  BY <1>6, <1>7
<1>14. RefreshTrue(mine)
  BY <1>6, <1>9 DEF RefreshTrue
<1>15. ASSUME NEW q \in Refreshers PROVE RefreshTrue(refresh[q])'
  <2>1. PICK s : s = refresh'[q]
    OBVIOUS
  <2>2. RefreshTrue(s)
    BY <1>11, <1>14, <2>1 DEF DisputeInv
  <2>3. RefreshTrue(s)'
    BY <1>2, <1>13, <2>2, RefreshKept
  <2>. QED
    BY <2>1, <2>3 DEF RefreshTrue
<1>16. Writing(p)
  BY <1>1 DEF Writing
<1>17. ASSUME NEW q \in Refreshers PROVE AloneTrue(q, refresh[q])'
  <2>1. CASE q = p
    <3>1. ASSUME st.alone
          PROVE  /\ \A r \in Refreshers : Writing(r)' => r = p
                 /\ n.tmp = st.fd
                 /\ inodes'[st.fd] = [whole |-> TRUE, last |-> st.last, rows |-> st.rows]
      <4>1. /\ \A r \in Refreshers : Writing(r) => r = p
            /\ n.tmp = st.fd /\ old = Blank
        BY <1>1, <1>3, <1>4, <3>1 DEF DisputeInv, AloneTrue
      <4>2. new = [whole |-> TRUE, last |-> st.last, rows |-> st.rows]
        BY <1>5, <4>1 DEF Overwritten, Blank
      <4>. QED
        BY <1>12, <1>13, <4>1, <4>2
    <3>2. refresh'[q] = mine
      BY <1>11, <2>1
    <3>3. /\ mine.pc = "replace" /\ mine.alone = st.alone /\ mine.fd = st.fd
          /\ mine.last = st.last /\ mine.rows = st.rows
      BY <1>9, Zenon
    <3>. QED
      BY <1>1, <1>3, <2>1, <3>1, <3>2, <3>3 DEF AloneTrue
  <2>2. CASE q # p
    <3>1. refresh'[q] = refresh[q] /\ AloneTrue(q, refresh[q])
      BY <1>11, <2>2 DEF DisputeInv
    <3>2. refresh[q].pc \in {"write", "replace"} => ~refresh[q].alone
      BY <1>16, <2>2, <3>1 DEF AloneTrue
    <3>. QED
      BY <3>1, <3>2 DEF AloneTrue
  <2>. QED
    BY <2>1, <2>2
<1>18. NamesInv'
  BY <1>1, <1>13 DEF DisputeInv, NamesInv
<1>19. TrustInv'
  <2>1. ASSUME n.json # None, n.trusted
        PROVE  /\ \A q \in Refreshers : Writing(q)' => refresh'[q].fd # n.json
               /\ inodes'[n.json].whole
               /\ Exact(inodes[n.json].last, inodes[n.json].rows)'
    <3>1. /\ \A q \in Refreshers : Writing(q) => refresh[q].fd # n.json
          /\ inodes[n.json].whole
          /\ Exact(inodes[n.json].last, inodes[n.json].rows)
      BY <1>3, <2>1 DEF DisputeInv, TrustInv
    <3>2. st.fd # n.json
      BY <1>3, <1>16, <3>1
    <3>3. inodes'[n.json] = inodes[n.json]
      BY <1>3, <1>13, <2>1, <3>2 DEF DisputeInv, NamesInv
    <3>4. PICK f : f = inodes[n.json]
      OBVIOUS
    <3>5. Exact(f.last, f.rows)'
      BY <1>2, <3>1, <3>4, ExactKept
    <3>6. \A q \in Refreshers : Writing(q)' => refresh'[q].fd # n.json
      BY <1>9, <1>11, <1>12, <3>1, <3>2
    <3>. QED
      BY <3>1, <3>3, <3>4, <3>5, <3>6 DEF Exact
  <2>. QED
    BY <1>1, <1>3, <2>1 DEF TrustInv, Exact
<1>20. DOMAIN inodes' = 1 .. Cardinality(Refreshers) + 2
  BY <1>13 DEF DisputeInv
<1>. QED
  BY <1>11, <1>13, <1>15, <1>17, <1>18, <1>19, <1>20 DEF DisputeInv

(* What a refresh alone with disputes.tmp renames is whole, and nobody     *)
(* holds it open any more.                                                 *)
LEMMA ReplaceTmpStep ==
    ASSUME LogInv, DisputeInv, NEW p \in Refreshers, ReplaceTmp(p)
    PROVE  DisputeInv'
<1>1. /\ refresh[p].pc = "replace" /\ log' = log /\ scene' = scene /\ inodes' = inodes
      /\ refresh' = [refresh EXCEPT ![p] = Idle]
  BY DEF ReplaceTmp
<1>2. LogInv' /\ LogGrows
  BY <1>1, LogStays
<1>3. PICK n, st : n = names /\ st = refresh[p]
  OBVIOUS
<1>4. RefreshTrue(Idle) /\ Idle.pc \notin {"write", "replace"}
  BY DEF RefreshTrue, Idle
<1>5. CASE n.tmp = None
  <2>1. UNCHANGED <<scene, log, inodes, names>>
    BY <1>1, <1>3, <1>5 DEF ReplaceTmp
  <2>. QED
    BY <1>1, <1>4, <2>1, WritesNoMore
<1>6. CASE n.tmp # None
  <2>1. names' = [json |-> n.tmp, tmp |-> None, trusted |-> st.alone]
    BY <1>3, <1>6 DEF ReplaceTmp
  <2>2. /\ DOMAIN refresh' = Refreshers /\ refresh' = [q \in Refreshers |-> refresh'[q]]
        /\ \A q \in Refreshers : refresh'[q] = IF q = p THEN Idle ELSE refresh[q]
        /\ \A q \in Refreshers : Writing(q)' => Writing(q) /\ q # p
    BY <1>1, <1>4, RefreshMoves
  <2>3. Writing(p)
    BY <1>1 DEF Writing
  <2>4. ASSUME NEW q \in Refreshers PROVE RefreshTrue(refresh[q])'
    <3>1. PICK s : s = refresh'[q]
      OBVIOUS
    <3>2. RefreshTrue(s)
      BY <1>4, <2>2, <3>1 DEF DisputeInv
    <3>3. RefreshTrue(s)'
      BY <1>1, <1>2, <3>2, RefreshKept
    <3>. QED
      BY <3>1, <3>3 DEF RefreshTrue
  <2>5. ASSUME NEW q \in Refreshers PROVE AloneTrue(q, refresh[q])'
    <3>1. CASE q = p
      BY <1>4, <2>2, <3>1 DEF AloneTrue
    <3>2. CASE q # p
      <4>1. refresh'[q] = refresh[q] /\ AloneTrue(q, refresh[q])
        BY <2>2, <3>2 DEF DisputeInv
      <4>2. refresh[q].pc \in {"write", "replace"} => ~refresh[q].alone
        BY <2>3, <3>2, <4>1 DEF AloneTrue
      <4>. QED
        BY <4>1, <4>2 DEF AloneTrue
    <3>. QED
      BY <3>1, <3>2
  <2>6. NamesInv'
    <3>1. n.tmp \in DOMAIN inodes
      BY <1>3, <1>6 DEF DisputeInv, NamesInv
    <3>. QED
      BY <1>1, <1>6, <2>1, <3>1 DEF NamesInv
  <2>7. TrustInv'
    <3>1. ASSUME st.alone
          PROVE  /\ \A q \in Refreshers : ~Writing(q)'
                 /\ inodes[n.tmp].whole
                 /\ Exact(inodes[n.tmp].last, inodes[n.tmp].rows)'
      <4>1. /\ \A q \in Refreshers : Writing(q) => q = p
            /\ n.tmp = st.fd
            /\ inodes[n.tmp] = [whole |-> TRUE, last |-> st.last, rows |-> st.rows]
        BY <1>1, <1>3, <3>1 DEF DisputeInv, AloneTrue
      <4>2. Exact(st.last, st.rows)
        BY <1>1, <1>3 DEF DisputeInv, RefreshTrue, Idle
      <4>3. PICK f : f = inodes[n.tmp]
        OBVIOUS
      <4>4. f.whole /\ Exact(f.last, f.rows)
        BY <4>1, <4>2, <4>3
      <4>5. Exact(f.last, f.rows)'
        BY <1>2, <4>4, ExactKept
      <4>. QED
        BY <1>1, <2>2, <4>1, <4>3, <4>4, <4>5 DEF Exact
    <3>2. names'.json = n.tmp /\ names'.trusted = st.alone
      BY <2>1, Zenon
    <3>. QED
      BY <1>1, <3>1, <3>2 DEF TrustInv, Exact
  <2>. QED
    BY <1>1, <2>2, <2>4, <2>5, <2>6, <2>7 DEF DisputeInv
<1>. QED
  BY <1>5, <1>6

-------------------------------------------------------------------------------
(***************************************************************************)
(* The invariant holds, and what follows from it.                          *)
(***************************************************************************)

(* At the first audit, with no file written yet.                           *)
LEMMA InitStores == Init => StoresInv
<1>. SUFFICES ASSUME Init PROVE StoresInv
  OBVIOUS
<1>1. PICK e : e = [kind |-> "audit", target |-> CHOOSE t \in Targets : TRUE, block |-> 1]
  OBVIOUS
<1>2. e \in LogEvent /\ e.block = 1
  BY <1>1, StoresAssumption DEF LogEvent, Kinds
<1>3. log = <<e>> /\ scene \in Scenes
  BY <1>1 DEF Init
<1>4. Len(log) = 1 /\ DOMAIN log = {1} /\ log[1] = e /\ BlockNumber = 1
  BY <1>2, <1>3 DEF BlockNumber
<1>5. LogInv
  BY <1>2, <1>3, <1>4 DEF LogInv
<1>6. ReceiptInv
  BY DEF Init, ReceiptInv, ReceiptsTrue, WriterInv
<1>7. AnswerInv
  BY DEF Init, AnswerInv, ApiInv, AnswerTrue
<1>8. DisputeInv
  BY DEF Init, DisputeInv, RefreshTrue, AloneTrue, Idle, NamesInv, TrustInv
<1>. QED
  BY <1>5, <1>6, <1>7, <1>8 DEF StoresInv

(* A receipt is recorded only of an audit in the log; the API process      *)
(* records none while it answers.                                          *)
LEMMA RecordSteps ==
    ASSUME StoresInv, RecordPaid \/ Backfill
    PROVE  StoresInv'
<1>. USE DEF StoresInv
<1>1. CASE RecordPaid
  <2>1. PICK i \in DOMAIN log :
           LoadReceipts("api", [root |-> i, target |-> log[i].target, at |-> Now,
                                by |-> "api"])
    BY <1>1 DEF RecordPaid
  <2>2. PICK row :
           /\ row = [root |-> i, target |-> log[i].target, at |-> Now, by |-> "api"]
           /\ LoadReceipts("api", row)
    BY <2>1
  <2>3. ReceiptTrue(row) /\ "api" \in Writers /\ row.at = Now
    BY <2>2, LogFacts DEF ReceiptTrue, Writers, Now
  <2>4. LogGrows /\ LogInv' /\ ReceiptInv'
    BY <2>2, <2>3, LoadReceiptsStep
  <2>5. UNCHANGED answerVars /\ UNCHANGED disputeVars /\ api' = Idle
    BY <1>1, <2>2 DEF RecordPaid, LoadReceipts, answerVars
  <2>6. AnswerInv'
    <3>1. api = Idle
      BY <1>1 DEF RecordPaid
    <3>. QED
      BY <2>4, <2>5, <3>1, AnswersStay
  <2>. QED
    BY <2>4, <2>5, <2>6, DisputeKept
<1>2. CASE Backfill
  <2>0. PICK at \in 1 .. Now :
           LoadReceipts("backfill", [root |-> 1, target |-> log[1].target, at |-> at,
                                     by |-> "backfill"])
    BY <1>2 DEF Backfill
  <2>1. PICK row :
           /\ row = [root |-> 1, target |-> log[1].target, at |-> at, by |-> "backfill"]
           /\ LoadReceipts("backfill", row)
    BY <2>0
  <2>2. ReceiptTrue(row) /\ "backfill" \in Writers /\ row.by # "api"
    BY <2>1, LogFacts DEF ReceiptTrue, Writers
  <2>3. LogGrows /\ LogInv' /\ ReceiptInv'
    BY <2>1, <2>2, LoadReceiptsStep
  <2>4. UNCHANGED answerVars /\ UNCHANGED disputeVars
    BY <2>1 DEF LoadReceipts
  <2>5. api # Idle => writer'["api"] = Idle
    <3>1. writer'["api"] = writer["api"]
      BY <2>1 DEF LoadReceipts, ReceiptInv, Writers
    <3>. QED
      BY <3>1 DEF AnswerInv
  <2>. QED
    BY <2>3, <2>4, <2>5, AnswersStay, DisputeKept
<1>. QED
  BY <1>1, <1>2

(* A writer that ends frees its process.                                   *)
LEMMA SaveSteps ==
    ASSUME StoresInv, NEW p \in Writers, SaveReceipts(p) \/ SaveFails(p)
    PROVE  StoresInv'
<1>. USE DEF StoresInv
<1>1. LogGrows /\ LogInv' /\ ReceiptInv'
  BY SaveReceiptsStep
<1>2. UNCHANGED answerVars /\ UNCHANGED disputeVars /\ writer' = [writer EXCEPT ![p] = Idle]
  BY DEF SaveReceipts, SaveFails
<1>3. api # Idle => writer'["api"] = Idle
  BY <1>2 DEF AnswerInv, ReceiptInv, Writers
<1>. QED
  BY <1>1, <1>2, <1>3, AnswersStay, DisputeKept

(* The route writes no file.                                               *)
LEMMA RouteSteps ==
    ASSUME StoresInv, GetAudit \/ GetCount \/ FetchReport \/ GetFails
    PROVE  StoresInv'
<1>. USE DEF StoresInv
<1>1. AnswerInv'
  BY GetAuditStep, GetCountStep, FetchReportStep, GetFailsStep
<1>2. log' = log /\ scene' = scene /\ UNCHANGED receiptVars /\ UNCHANGED disputeVars
  BY DEF GetAudit, GetCount, FetchReport, GetFails
<1>3. LogInv' /\ LogGrows
  BY <1>2, LogStays
<1>. QED
  BY <1>1, <1>2, <1>3, ReceiptsStay, DisputeKept

(* A refresh of the snapshot touches nothing else.                         *)
LEMMA RefreshSteps ==
    ASSUME StoresInv, NEW p \in Refreshers,
           WalkDisputes(p) \/ OpenTmp(p) \/ WriteTmp(p) \/ ReplaceTmp(p) \/ RefreshEnds(p)
    PROVE  StoresInv'
<1>. USE DEF StoresInv
<1>1. DisputeInv'
  BY WalkDisputesStep, OpenTmpStep, WriteTmpStep, ReplaceTmpStep, RefreshEndsStep
<1>2. log' = log /\ scene' = scene /\ UNCHANGED receiptVars /\ UNCHANGED answerVars
  BY DEF WalkDisputes, OpenTmp, WriteTmp, ReplaceTmp, RefreshEnds
<1>3. LogInv' /\ LogGrows
  BY <1>2, LogStays
<1>4. api # Idle => writer'["api"] = Idle
  BY <1>2 DEF receiptVars, AnswerInv
<1>. QED
  BY <1>1, <1>2, <1>3, <1>4, ReceiptsStay, AnswersStay

(* New events, a saved cache and a stutter leave all of it as it was.      *)
LEMMA OtherSteps ==
    ASSUME StoresInv, Emit \/ SaveCache \/ UNCHANGED vars
    PROVE  StoresInv'
<1>. USE DEF StoresInv
<1>1. UNCHANGED receiptVars /\ UNCHANGED answerVars /\ UNCHANGED disputeVars
  BY DEF Emit, SaveCache, vars
<1>2. LogInv' /\ LogGrows
  <2>1. CASE Emit
    BY <2>1, EmitGrows
  <2>2. CASE SaveCache \/ UNCHANGED vars
    BY <2>2, LogStays DEF SaveCache, vars
  <2>. QED
    BY <2>1, <2>2
<1>3. api # Idle => writer'["api"] = Idle
  BY <1>1 DEF receiptVars, AnswerInv
<1>. QED
  BY <1>1, <1>2, <1>3, ReceiptsStay, AnswersStay, DisputeKept

(* Every step keeps the invariant.                                         *)
LEMMA NextStores == StoresInv /\ [Next]_vars => StoresInv'
<1>. SUFFICES ASSUME StoresInv, [Next]_vars PROVE StoresInv'
  OBVIOUS
<1>1. CASE RecordPaid \/ Backfill
  BY <1>1, RecordSteps
<1>2. ASSUME NEW p \in Writers, SaveReceipts(p) \/ SaveFails(p) PROVE StoresInv'
  BY <1>2, SaveSteps
<1>3. CASE GetAudit \/ GetCount \/ FetchReport \/ GetFails
  BY <1>3, RouteSteps
<1>4. ASSUME NEW p \in Refreshers,
             WalkDisputes(p) \/ OpenTmp(p) \/ WriteTmp(p) \/ ReplaceTmp(p) \/ RefreshEnds(p)
      PROVE  StoresInv'
  BY <1>4, RefreshSteps
<1>5. CASE Emit \/ SaveCache \/ UNCHANGED vars
  BY <1>5, OtherSteps
<1>. QED
  BY <1>1, <1>2, <1>3, <1>4, <1>5, Zenon DEF Next

(* Everything below is read off this.                                      *)
THEOREM StoresInvariant == Spec => []StoresInv
BY InitStores, NextStores, PTL DEF Spec

(* The type invariant: what the run checks as TypeOK, for every scene.     *)
THEOREM StoresTypesRight == Spec => []TypeOK
<1>1. ASSUME StoresInv PROVE TypeOK
  <2>. USE <1>1 DEF StoresInv
  <2>1. /\ scene \in Scenes
        /\ \A i \in DOMAIN log : /\ log[i].kind \in Kinds /\ log[i].target \in Targets
                                 /\ i > 1 => log[i - 1].block <= log[i].block
    BY LogFacts DEF LogInv, LogEvent
  <2>2. /\ \A r \in receipts : r.root \in DOMAIN log /\ r.at \in 1 .. Now /\ r.by \in Writers
        /\ \A p \in Writers : writer[p] = Idle \/ writer[p].pc = "save"
    BY DEF ReceiptInv, ReceiptsTrue, ReceiptTrue, WriterInv
  <2>3. api.pc \in {"idle", "count", "fetch"} /\ (api # Idle => writer["api"] = Idle)
    BY DEF AnswerInv, ApiInv, Idle
  <2>4. /\ {names.json, names.tmp} \subseteq DOMAIN inodes \cup {None}
        /\ names.json = names.tmp => names.json = None
    BY DEF DisputeInv, NamesInv
  <2>5. \A p \in Refreshers : refresh[p].pc \in {"idle", "open", "write", "replace"}
    BY DEF DisputeInv, RefreshTrue, Idle
  <2>. QED
    BY <2>1, <2>2, <2>3, <2>4, <2>5 DEF TypeOK
<1>. QED
  BY <1>1, StoresInvariant, PTL

(* GET /api/audit tells the truth, whatever the chain emits between its    *)
(* calls and whatever the gateway serves: get_audit of routes/audit.py.    *)
THEOREM AnswersTrue == Spec => []AuditAnswersHonest
<1>1. ASSUME StoresInv PROVE AuditAnswersHonest
  <2>1. PICK a : a = answer
    OBVIOUS
  <2>2. AnswerTrue(a)
    BY <1>1, <2>1 DEF StoresInv, AnswerInv
  <2>3. ASSUME a # None, a.code = 404 PROVE Count(a.target, a.since) = 0
    BY <2>2, <2>3 DEF AnswerTrue
  <2>4. ASSUME a # None, a.code = 200
        PROVE  /\ a.root \in Audits(a.target)
               /\ Count(a.target, a.root) = Count(a.target, a.since)
               /\ a.count \in Count(a.target, a.root) .. CountOf(a.target)
               /\ a.report = None <=> a.match = None
               /\ a.match = TRUE <=> a.report = a.root
               /\ a.x402 # None => a.x402.root = a.root /\ a.x402.target = a.target
    <3>1. /\ HeadRead(a.target, a.since, a.root)
          /\ CountRead(a.target, a.root, a.count)
          /\ a.report = None <=> a.match = None
          /\ a.match = TRUE <=> a.report = a.root
          /\ a.x402 # None => a.x402.root = a.root /\ a.x402.target = a.target
      <4>1. a.code # 500 /\ a.code # 404
        BY <2>4
      <4>. QED
        BY <2>2, <2>4, <4>1, Zenon DEF AnswerTrue
    <3>. QED
      BY <3>1, Zenon DEF HeadRead, CountRead
  <2>. QED
    BY <2>1, <2>3, <2>4, Zenon DEF AuditAnswersHonest
<1>. QED
  BY <1>1, StoresInvariant, PTL

(* disputes.json is whole whenever a refresh published it that no other    *)
(* interfered with: save_dispute_snapshot, any number of processes.        *)
THEOREM SnapshotWhole == Spec => []DisputesFileWhole
<1>1. ASSUME StoresInv PROVE DisputesFileWhole
  BY <1>1 DEF StoresInv, DisputeInv, TrustInv, Exact, DisputesFileWhole
<1>. QED
  BY <1>1, StoresInvariant, PTL

(* A saved receipt is lost only to another one of its root, which is not   *)
(* older if the paid route writes it, to a failed read, or to a save that  *)
(* had read the file before: ReceiptStore.record.                          *)
THEOREM ReceiptsNotLost == Spec => ReceiptsKept
<1>1. ASSUME StoresInv, StoresInv', [Next]_vars
      PROVE  [/\ \A r, q \in receipts' : r.root = q.root => r = q
              /\ \A r \in receipts \ receipts' : \E p \in Writers :
                   /\ writer[p] # Idle /\ writer'[p] = Idle
                   /\ \/ writer[p].row.root = r.root /\ (writer[p].row.by = "api" => r.at <= writer[p].row.at)
                      \/ ~writer[p].read \/ r \notin writer[p].seen
             ]_vars
  <2>1. \A r, q \in receipts' : r.root = q.root => r = q
    BY <1>1 DEF StoresInv, ReceiptInv, ReceiptsTrue
  <2>2. ASSUME NEW r \in receipts \ receipts'
        PROVE  \E p \in Writers :
                 /\ writer[p] # Idle /\ writer'[p] = Idle
                 /\ \/ writer[p].row.root = r.root /\ (writer[p].row.by = "api" => r.at <= writer[p].row.at)
                    \/ ~writer[p].read \/ r \notin writer[p].seen
    <3>1. PICK p \in Writers : SaveReceipts(p)
      <4>1. receipts' # receipts
        OBVIOUS
      <4>2. ~UNCHANGED vars
        BY <4>1 DEF vars, receiptVars
      <4>. QED
        BY <1>1, <4>1, <4>2 DEF Next, Emit, RecordPaid, Backfill, LoadReceipts, SaveFails,
           GetAudit, GetCount, FetchReport, GetFails, WalkDisputes, OpenTmp, WriteTmp,
           ReplaceTmp, RefreshEnds, SaveCache, receiptVars
    <3>2. writer[p] # Idle /\ writer'[p] = Idle
      BY <1>1, <3>1 DEF SaveReceipts, StoresInv, ReceiptInv
    <3>3. writer[p].row.root = r.root \/ r \notin writer[p].seen
      BY <3>1 DEF SaveReceipts, Upsert
    <3>4. ASSUME r \in writer[p].seen, writer[p].row.by = "api", writer[p].read
          PROVE  r.at <= writer[p].row.at
      <4>1. WriterInv(writer[p])
        BY <1>1 DEF StoresInv, ReceiptInv
      <4>. QED
        BY <3>2, <3>4, <4>1, Zenon DEF WriterInv
    <3>. QED
      BY <3>2, <3>3, <3>4
  <2>. QED
    BY <2>1, <2>2
<1>. QED
  BY <1>1, StoresInvariant, PTL DEF ReceiptsKept, Spec

(***************************************************************************)
(* Lists in order: Ordered and SortedBy, then what the read routes answer. *)
(***************************************************************************)

(* A set of pairs that orders S: no two members come before each other, of *)
(* any two one comes first, and before is transitive.                      *)
Orders(before, S) ==
    /\ \A x, y \in S : x # y => <<x, y>> \in before \/ <<y, x>> \in before
    /\ \A x, y \in S : <<x, y>> \in before => <<y, x>> \notin before
    /\ \A x, y, z \in S : <<x, y>> \in before /\ <<y, z>> \in before => <<x, z>> \in before

(* A set with a member more is larger.                                     *)
LEMMA FewerMembers ==
    ASSUME NEW S, IsFiniteSet(S), NEW T, T \subseteq S, NEW x \in S, x \notin T
    PROVE  /\ IsFiniteSet(T)
           /\ Cardinality(T) \in Nat /\ Cardinality(S) \in Nat
           /\ Cardinality(T) < Cardinality(S)
<1>1. /\ IsFiniteSet(T)
      /\ Cardinality(T) <= Cardinality(S)
      /\ Cardinality(S) = Cardinality(T) => S = T
  BY FS_Subset
<1>2. Cardinality(T) \in Nat /\ Cardinality(S) \in Nat
  BY <1>1, FS_CardinalityType
<1>3. QED
  BY <1>1, <1>2

(* What comes later has more members ahead of it.                          *)
LEMMA RankGrows ==
    ASSUME NEW S, IsFiniteSet(S), NEW before, Orders(before, S),
           NEW x \in S, NEW y \in S, <<x, y>> \in before
    PROVE  Cardinality(Ahead(S, x, before)) < Cardinality(Ahead(S, y, before))
<1>1. Ahead(S, x, before) \subseteq Ahead(S, y, before)
  BY DEF Orders, Ahead
<1>2. x \in Ahead(S, y, before) /\ x \notin Ahead(S, x, before)
  BY DEF Orders, Ahead
<1>3. Ahead(S, y, before) \subseteq S
  BY DEF Ahead
<1>4. IsFiniteSet(Ahead(S, y, before))
  BY <1>3, FS_Subset
<1>5. QED
  BY <1>1, <1>2, <1>4, FewerMembers

(* A member never has itself or all of S ahead of it.                      *)
LEMMA RankBounded ==
    ASSUME NEW S, IsFiniteSet(S), NEW before, Orders(before, S), NEW x \in S
    PROVE  Cardinality(Ahead(S, x, before)) \in 0 .. Cardinality(S) - 1
<1>1. Ahead(S, x, before) \subseteq S /\ x \notin Ahead(S, x, before)
  BY DEF Orders, Ahead
<1>2. /\ Cardinality(Ahead(S, x, before)) \in Nat /\ Cardinality(S) \in Nat
      /\ Cardinality(Ahead(S, x, before)) < Cardinality(S)
  BY <1>1, FewerMembers
<1>3. QED
  BY <1>2

(* For every number below its size, S has a member with that many ahead.   *)
LEMMA RankTaken ==
    ASSUME NEW S, IsFiniteSet(S), NEW before, Orders(before, S),
           NEW k \in 1 .. Cardinality(S)
    PROVE  \E x \in S : Cardinality(Ahead(S, x, before)) = k - 1
<1>1. Cardinality(S) \in Nat
  BY FS_CardinalityType
<1> DEFINE T == 0 .. Cardinality(S) - 1
           rank == [x \in S |-> Cardinality(Ahead(S, x, before))]
<1>2. rank \in [S -> T]
  BY RankBounded
<1>3. \A x, y \in S : rank[x] = rank[y] => x = y
  <2> SUFFICES ASSUME NEW x \in S, NEW y \in S, x # y PROVE rank[x] # rank[y]
    OBVIOUS
  <2>1. CASE <<x, y>> \in before
    BY <2>1, RankGrows, RankBounded
  <2>2. CASE <<y, x>> \in before
    BY <2>2, RankGrows, RankBounded
  <2>3. QED
    BY <2>1, <2>2 DEF Orders
<1>4. rank \in Injection(S, T)
  BY <1>2, <1>3 DEF Injection, IsInjective
<1>5. IsFiniteSet(T) /\ Cardinality(T) = Cardinality(S)
  <2>1. 0 \in Int /\ Cardinality(S) - 1 \in Int
    BY <1>1
  <2>2. IsFiniteSet(T)
     /\ Cardinality(T) = IF 0 > Cardinality(S) - 1 THEN 0 ELSE Cardinality(S) - 1 - 0 + 1
    BY <2>1, FS_Interval
  <2>3. QED
    BY <2>2, <1>1
<1>6. rank \in Surjection(S, T)
  BY <1>4, <1>5, FS_Injection
<1>7. k - 1 \in T
  BY <1>1
<1>8. QED
  BY <1>6, <1>7 DEF Surjection

(* Ordered lists every member of S once, in the order.                     *)
LEMMA OrderedFacts ==
    ASSUME NEW S, IsFiniteSet(S), NEW before, Orders(before, S)
    PROVE  /\ Ordered(S, before) \in Bijection(1 .. Cardinality(S), S)
           /\ \A i, j \in 1 .. Cardinality(S) :
                  i < j => <<Ordered(S, before)[i], Ordered(S, before)[j]>> \in before
<1> DEFINE o    == Ordered(S, before)
           D    == 1 .. Cardinality(S)
           r(x) == Cardinality(Ahead(S, x, before))
<1>1. Cardinality(S) \in Nat
  BY FS_CardinalityType
<1>2. \A k \in D : o[k] \in S /\ r(o[k]) = k - 1
  BY RankTaken DEF Ordered
<1>3. o \in [D -> S]
  BY <1>2 DEF Ordered
<1>4. \A x \in S : r(x) \in 0 .. Cardinality(S) - 1
  BY RankBounded
<1>5. \A x, y \in S : r(x) = r(y) => x = y
  <2> SUFFICES ASSUME NEW x \in S, NEW y \in S, x # y PROVE r(x) # r(y)
    OBVIOUS
  <2>1. CASE <<x, y>> \in before
    <3>1. r(x) < r(y)
      BY <2>1, RankGrows
    <3>2. QED
      BY <3>1, <1>4
  <2>2. CASE <<y, x>> \in before
    <3>1. r(y) < r(x)
      BY <2>2, RankGrows
    <3>2. QED
      BY <3>1, <1>4
  <2>3. QED
    BY <2>1, <2>2 DEF Orders
<1>6. ASSUME NEW i \in D, NEW j \in D, o[i] = o[j]
      PROVE  i = j
  BY <1>2, <1>6
<1>7. o \in Injection(D, S)
  BY <1>3, <1>6 DEF Injection, IsInjective
<1>8. ASSUME NEW x \in S
      PROVE  \E k \in D : o[k] = x
  <2>1. r(x) + 1 \in D /\ (r(x) + 1) - 1 = r(x)
    BY <1>1, <1>4
  <2>2. o[r(x) + 1] \in S /\ r(o[r(x) + 1]) = r(x)
    BY <2>1, <1>2
  <2>3. o[r(x) + 1] = x
    BY <2>2, <1>5
  <2>4. QED
    BY <2>1, <2>3
<1>9. o \in Bijection(D, S)
  BY <1>3, <1>7, <1>8 DEF Bijection, Surjection
<1>10. ASSUME NEW i \in D, NEW j \in D, i < j
      PROVE  <<o[i], o[j]>> \in before
  <2>1. CASE <<o[j], o[i]>> \in before
    <3>1. r(o[j]) < r(o[i])
      BY <2>1, <1>2, RankGrows
    <3>2. QED
      BY <3>1, <1>2, <1>10, <1>1
  <2>2. o[i] # o[j]
    BY <1>6, <1>10, <1>1
  <2>3. QED
    BY <2>1, <2>2, <1>2 DEF Orders
<1>11. QED
  BY <1>9, <1>10

(* ByKey without its pairs.                                                *)
LEMMA InByKey ==
    ASSUME NEW D, NEW key, NEW i \in D, NEW j \in D
    PROVE  <<i, j>> \in ByKey(D, key) <=>
              Less(key[i], key[j]) \/ (key[i] = key[j] /\ i < j)
<1>1. PICK p : p = <<i, j>>
  OBVIOUS
<1>2. p \in D \X D /\ p[1] = i /\ p[2] = j
  BY <1>1
<1>3. p \in ByKey(D, key) <=> 
          Less(key[p[1]], key[p[2]]) \/ (key[p[1]] = key[p[2]] /\ p[1] < p[2])
  BY <1>2, Zenon DEF ByKey
<1>4. QED
  BY <1>1, <1>2, <1>3

(* Pairs of integers order the positions that have them as keys.           *)
LEMMA KeysOrder ==
    ASSUME NEW n \in Nat, NEW key \in [1 .. n -> Int \X Int]
    PROVE  Orders(ByKey(1 .. n, key), 1 .. n)
<1> DEFINE D == 1 .. n
           lt(i, j) == Less(key[i], key[j]) \/ (key[i] = key[j] /\ i < j)
<1>1. \A i, j \in D : <<i, j>> \in ByKey(D, key) <=> lt(i, j)
  BY InByKey
<1>2. \A i \in D : /\ key[i][1] \in Int /\ key[i][2] \in Int
                   /\ key[i] = <<key[i][1], key[i][2]>>
  OBVIOUS
<1>3. \A i, j \in D : i # j => lt(i, j) \/ lt(j, i)
  BY <1>2 DEF Less
<1>4. \A i, j \in D : lt(i, j) => ~lt(j, i)
  BY <1>2 DEF Less
<1>5. \A i, j, k \in D : lt(i, j) /\ lt(j, k) => lt(i, k)
  BY <1>2 DEF Less
<1>6. QED
  BY <1>1, <1>3, <1>4, <1>5 DEF Orders

(* SortedBy rearranges a sequence so that no smaller key follows a larger. *)
LEMMA SortedFacts ==
    ASSUME NEW T, NEW seq \in Seq(T), NEW key \in [DOMAIN seq -> Int \X Int]
    PROVE  \E order \in Bijection(DOMAIN seq, DOMAIN seq) :
             /\ SortedBy(seq, key) = [k \in DOMAIN seq |-> seq[order[k]]]
             /\ \A i, j \in DOMAIN seq : i < j => ~Less(key[order[j]], key[order[i]])
<1> DEFINE n == Len(seq)
           order == Ordered(DOMAIN seq, ByKey(DOMAIN seq, key))
<1>1. n \in Nat /\ DOMAIN seq = 1 .. n
  OBVIOUS
<1>2. IsFiniteSet(DOMAIN seq) /\ Cardinality(DOMAIN seq) = n
  <2>1. /\ IsFiniteSet(1 .. n)
        /\ Cardinality(1 .. n) = IF 1 > n THEN 0 ELSE n - 1 + 1
    BY <1>1, FS_Interval
  <2>2. QED
    BY <2>1, <1>1
<1>3. Orders(ByKey(DOMAIN seq, key), DOMAIN seq)
  BY <1>1, KeysOrder
<1>4. /\ order \in Bijection(DOMAIN seq, DOMAIN seq)
      /\ \A i, j \in DOMAIN seq : i < j => <<order[i], order[j]>> \in ByKey(DOMAIN seq, key)
  BY <1>1, <1>2, <1>3, OrderedFacts
<1>5. order \in [DOMAIN seq -> DOMAIN seq]
  BY <1>4 DEF Bijection, Injection
<1>6. ASSUME NEW i \in DOMAIN seq, NEW j \in DOMAIN seq, i < j
      PROVE  ~Less(key[order[j]], key[order[i]])
  <2>1. <<order[i], order[j]>> \in ByKey(DOMAIN seq, key)
    BY <1>4, <1>6
  <2> HIDE DEF order
  <2>2. PICK a \in Int \X Int, b \in Int \X Int : a = key[order[i]] /\ b = key[order[j]]
    BY <1>5
  <2>3. Less(a, b) \/ a = b
    BY <2>1, <2>2, <1>5, InByKey
  <2>4. ~Less(b, a)
    BY <2>3 DEF Less
  <2>5. QED
    BY <2>2, <2>4
<1>7. QED
  BY <1>4, <1>6 DEF SortedBy

(* What the first `limit` members of a sorted sequence are.                *)
FirstOf(seq, key, items, limit) ==
    \E order \in Bijection(DOMAIN seq, DOMAIN seq) :
        /\ Len(items) = IF limit < Len(seq) THEN limit ELSE Len(seq)
        /\ DOMAIN items = 1 .. Len(items)
        /\ \A i \in DOMAIN items : i \in DOMAIN seq /\ items[i] = seq[order[i]]
        /\ \A i, j \in DOMAIN seq : i < j => ~Less(key[order[j]], key[order[i]])

(* A page of a sorted sequence shows what sorts first.                     *)
LEMMA FirstSorted ==
    ASSUME NEW T, NEW seq \in Seq(T), NEW key \in [DOMAIN seq -> Int \X Int],
           NEW limit \in Nat
    PROVE  FirstOf(seq, key, First(SortedBy(seq, key), limit), limit)
<1> DEFINE n == Len(seq)
           m == IF limit < n THEN limit ELSE n
           sorted == SortedBy(seq, key)
           items == First(sorted, limit)
<1>1. PICK order \in Bijection(DOMAIN seq, DOMAIN seq) :
        /\ sorted = [k \in DOMAIN seq |-> seq[order[k]]]
        /\ \A i, j \in DOMAIN seq : i < j => ~Less(key[order[j]], key[order[i]])
  BY SortedFacts
<1>2. order \in [DOMAIN seq -> DOMAIN seq]
  BY DEF Bijection, Injection
<1>3. n \in Nat /\ DOMAIN seq = 1 .. n /\ m \in 0 .. n
  OBVIOUS
<1>4. sorted \in Seq(T) /\ Len(sorted) = n
  <2>1. sorted \in [1 .. n -> T]
    BY <1>1, <1>2, <1>3
  <2>2. QED
    BY <2>1, <1>3
<1>5. items = SubSeq(sorted, 1, m)
  BY <1>4 DEF First
<1> HIDE DEF sorted, items
<1>6. /\ Len(items) = m /\ DOMAIN items = 1 .. m
      /\ \A i \in 1 .. m : items[i] = sorted[i]
  BY <1>3, <1>4, <1>5
<1>7. \A i \in 1 .. m : i \in DOMAIN seq /\ items[i] = seq[order[i]]
  <2>1. \A i \in DOMAIN seq : sorted[i] = seq[order[i]]
    BY <1>1, Zenon
  <2>2. \A i \in 1 .. m : i \in DOMAIN seq
    BY <1>3
  <2>3. QED
    BY <1>6, <2>1, <2>2, Zenon
<1>8. /\ Len(items) = IF limit < Len(seq) THEN limit ELSE Len(seq)
      /\ DOMAIN items = 1 .. Len(items)
  BY <1>6, Zenon
<1>9. \A i \in DOMAIN items : i \in DOMAIN seq /\ items[i] = seq[order[i]]
  BY <1>6, <1>7
<1>a. FirstOf(seq, key, items, limit)
  BY <1>1, <1>8, <1>9, Zenon DEF FirstOf
<1>10. QED
  BY <1>a DEF items, sorted

(* What a list shows of a set S whose members are sorted by keyOf.         *)
ShowsFirst(S, keyOf, items, limit) ==
    /\ Len(items) = IF limit < Cardinality(S) THEN limit ELSE Cardinality(S)
    /\ ToSet(items) \subseteq S /\ IsInjective(items)
    /\ \A x \in S \ ToSet(items), i \in DOMAIN items : ~Less(keyOf[x], keyOf[items[i]])
    /\ \A i, j \in DOMAIN items : i < j => ~Less(keyOf[items[j]], keyOf[items[i]])

(* The same for a set, in whatever order it was put into a sequence.       *)
LEMMA FirstShown ==
    ASSUME NEW S, IsFiniteSet(S), NEW seq \in Bijection(1 .. Cardinality(S), S),
           NEW keyOf \in [S -> Int \X Int], NEW limit \in Nat, NEW key,
           key = [i \in DOMAIN seq |-> keyOf[seq[i]]]
    PROVE  ShowsFirst(S, keyOf, First(SortedBy(seq, key), limit), limit)
<1>1. PICK n \in Nat : n = Cardinality(S)
  BY FS_CardinalityType
<1>2. seq \in [1 .. n -> S]
  BY <1>1 DEF Bijection, Injection
<1>3. /\ \A k, l \in 1 .. n : seq[k] = seq[l] => k = l
      /\ \A x \in S : \E k \in 1 .. n : seq[k] = x
  BY <1>1, <1>2 DEF Bijection, Injection, Surjection, IsInjective
<1>4. seq \in Seq(S) /\ DOMAIN seq = 1 .. n /\ Len(seq) = n
  BY <1>2
<1>5. key \in [DOMAIN seq -> Int \X Int] /\ \A k \in 1 .. n : key[k] = keyOf[seq[k]]
  BY <1>2, <1>4
<1>6. PICK items : items = First(SortedBy(seq, key), limit)
  OBVIOUS
<1>7. FirstOf(seq, key, items, limit)
  BY <1>4, <1>5, <1>6, FirstSorted
<1>8. PICK order \in Bijection(DOMAIN seq, DOMAIN seq) :
        /\ Len(items) = IF limit < Len(seq) THEN limit ELSE Len(seq)
        /\ DOMAIN items = 1 .. Len(items)
        /\ \A i \in DOMAIN items : i \in DOMAIN seq /\ items[i] = seq[order[i]]
        /\ \A i, j \in DOMAIN seq : i < j => ~Less(key[order[j]], key[order[i]])
  BY <1>7, Zenon DEF FirstOf
<1>9. /\ order \in [1 .. n -> 1 .. n]
      /\ \A k, l \in 1 .. n : order[k] = order[l] => k = l
      /\ \A x \in 1 .. n : \E k \in 1 .. n : order[k] = x
  BY <1>4 DEF Bijection, Injection, Surjection, IsInjective
<1>10. PICK m \in 0 .. n : m = Len(items)
  BY <1>4, <1>8
<1>11. DOMAIN items = 1 .. m /\ \A i \in 1 .. m : i \in 1 .. n /\ items[i] = seq[order[i]]
  BY <1>4, <1>8, <1>10
<1>12. \A i, j \in 1 .. n : i < j => ~Less(keyOf[seq[order[j]]], keyOf[seq[order[i]]])
  BY <1>4, <1>5, <1>8, <1>9
<1>13. ToSet(items) \subseteq S
  BY <1>2, <1>9, <1>11 DEF ToSet
<1>14. IsInjective(items)
  <2>1. ASSUME NEW a \in 1 .. m, NEW b \in 1 .. m, items[a] = items[b]
        PROVE  a = b
    <3>1. /\ a \in 1 .. n /\ b \in 1 .. n /\ order[a] \in 1 .. n /\ order[b] \in 1 .. n
          /\ seq[order[a]] = seq[order[b]]
      BY <2>1, <1>9, <1>11
    <3>2. order[a] = order[b]
      BY <3>1, <1>3
    <3>3. QED
      BY <3>1, <3>2, <1>9
  <2>2. QED
    BY <2>1, <1>11 DEF IsInjective
<1>15. \A i, j \in DOMAIN items : i < j => ~Less(keyOf[items[j]], keyOf[items[i]])
  BY <1>11, <1>12
<1>16. \A a \in 1 .. m : items[a] \in ToSet(items)
  BY <1>11 DEF ToSet
<1>17. ASSUME NEW x \in S \ ToSet(items), NEW i \in DOMAIN items
       PROVE  ~Less(keyOf[x], keyOf[items[i]])
  <2>1. PICK l \in 1 .. n : seq[l] = x
    BY <1>3
  <2>2. PICK k \in 1 .. n : order[k] = l
    BY <1>9
  <2>3. seq[order[k]] = x
    BY <2>1, <2>2
  <2>4. ~(k \in 1 .. m)
    <3>1. k \in 1 .. m => items[k] = seq[order[k]] /\ items[k] \in ToSet(items)
      BY <1>11, <1>16
    <3>2. QED
      BY <2>3, <3>1
  <2>5. i \in 1 .. m /\ i < k
    BY <2>4, <1>11
  <2>6. i \in 1 .. n /\ items[i] = seq[order[i]]
    BY <2>5, <1>11
  <2>7. QED
    BY <2>3, <2>5, <2>6, <1>12
<1>18. Len(items) = IF limit < Cardinality(S) THEN limit ELSE Cardinality(S)
  BY <1>1, <1>4, <1>8
<1>19. QED
  BY <1>6, <1>13, <1>14, <1>15, <1>17, <1>18, Zenon DEF ShowsFirst

(* The members of a set in any order.                                      *)
LEMMA SetListed ==
    ASSUME NEW S, IsFiniteSet(S)
    PROVE  SetToSeq(S) \in Bijection(1 .. Cardinality(S), S)
<1>1. PICK n \in Nat : n = Cardinality(S)
  BY FS_CardinalityType
<1>2. PICK f \in Bijection(1 .. n, S) : TRUE
  BY <1>1, FS_CardinalityType DEF ExistsBijection
<1>3. f \in [1 .. n -> S] /\ IsInjective(f)
  BY DEF Bijection, Injection
<1>4. PICK g \in [1 .. n -> S] : g = SetToSeq(S) /\ IsInjective(g)
  BY <1>1, <1>3 DEF SetToSeq
<1>5. g \in Injection(1 .. n, S)
  BY <1>4 DEF Injection
<1>6. Cardinality(1 .. n) = n
  BY FS_Interval
<1>7. g \in Surjection(1 .. n, S)
  BY <1>1, <1>5, <1>6, FS_Injection
<1>8. QED
  BY <1>1, <1>4, <1>5, <1>7 DEF Bijection

(* Rows of cache.json are counted and dated.                               *)
CacheInv ==
    /\ IsFiniteSet(cache)
    /\ \A r \in cache : r.block \in Nat /\ r.count \in Nat

(* GET /api/cache answers with the newest snapshots, most used first.      *)
LEMMA CacheListed ==
    ASSUME CacheInv, NEW limit \in Nat, NEW sev
    PROVE  CacheListHonest(limit, sev)
<1>1. PICK S : S = {r \in cache : sev \in {None, r.severity}}
  OBVIOUS
<1>2. IsFiniteSet(S) /\ \A r \in S : r.block \in Nat /\ r.count \in Nat
  BY <1>1, FS_Subset DEF CacheInv
<1>3. PICK keyOf : keyOf = [r \in S |-> <<-r.block, -r.count>>]
  OBVIOUS
<1>4. keyOf \in [S -> Int \X Int] /\ \A r \in S : keyOf[r] = <<-r.block, -r.count>>
  BY <1>2, <1>3
<1>5. PICK seq \in Bijection(1 .. Cardinality(S), S) : seq = SetToSeq(S)
  BY <1>2, SetListed
<1>6. seq \in [1 .. Cardinality(S) -> S]
  BY DEF Bijection, Injection
<1>7. PICK key : key = [i \in DOMAIN seq |-> <<-seq[i].block, -seq[i].count>>]
  OBVIOUS
<1>8. key = [i \in DOMAIN seq |-> keyOf[seq[i]]]
  BY <1>4, <1>6, <1>7
<1>9. PICK items : items = First(SortedBy(seq, key), limit)
  OBVIOUS
<1>10. ShowsFirst(S, keyOf, items, limit)
  BY <1>2, <1>4, <1>8, <1>9, FirstShown
<1>11. items = BuildCacheResponse(cache, sev, limit)
  BY <1>1, <1>5, <1>7, <1>9 DEF BuildCacheResponse, NewestFirst, AskedFor
<1>12. ASSUME NEW r \in S, NEW q \in S, ~Less(keyOf[r], keyOf[q])
       PROVE  ~NewerRow(r, q)
  <2>1. ~Less(<<-r.block, -r.count>>, <<-q.block, -q.count>>)
    BY <1>4, <1>12
  <2>2. r.block \in Nat /\ r.count \in Nat /\ q.block \in Nat /\ q.count \in Nat
    BY <1>2
  <2>3. QED
    BY <2>1, <2>2 DEF Less, NewerRow
<1>13. ToSet(items) \subseteq S /\ IsInjective(items)
  BY <1>10 DEF ShowsFirst
<1>14. \A i \in DOMAIN items : items[i] \in S
  BY <1>13 DEF ToSet
<1>15. \A r \in S \ ToSet(items), i \in DOMAIN items : ~NewerRow(r, items[i])
  BY <1>10, <1>12, <1>14 DEF ShowsFirst
<1>16. \A i, j \in DOMAIN items : i < j => ~NewerRow(items[j], items[i])
  BY <1>10, <1>12, <1>14 DEF ShowsFirst
<1>17. Len(items) = IF limit < Cardinality(S) THEN limit ELSE Cardinality(S)
  BY <1>10 DEF ShowsFirst
<1>18. QED
  BY <1>1, <1>11, <1>13, <1>15, <1>16, <1>17, Zenon DEF CacheListHonest

(* The positions of a finite set of numbers, in order.                     *)
LEMMA NumbersListed ==
    ASSUME NEW S, S \subseteq Nat, IsFiniteSet(S)
    PROVE  /\ Ascending(S) \in Bijection(1 .. Cardinality(S), S)
           /\ \A i, j \in 1 .. Cardinality(S) : i < j => Ascending(S)[i] < Ascending(S)[j]
<1>1. PICK before : before = {p \in S \X S : p[1] < p[2]}
  OBVIOUS
<1>2. ASSUME NEW x \in S, NEW y \in S
      PROVE  <<x, y>> \in before <=> x < y
  <2>1. PICK p : p = <<x, y>>
    OBVIOUS
  <2>2. p \in S \X S /\ p[1] = x /\ p[2] = y
    BY <2>1
  <2>3. p \in before <=> p[1] < p[2]
    BY <1>1, <2>2, Zenon
  <2>4. QED
    BY <2>1, <2>2, <2>3
<1>3. Orders(before, S)
  <2>1. \A x \in S : x \in Nat
    OBVIOUS
  <2>2. \A x, y \in S : x # y => <<x, y>> \in before \/ <<y, x>> \in before
    BY <1>2, <2>1
  <2>3. \A x, y \in S : <<x, y>> \in before => <<y, x>> \notin before
    BY <1>2, <2>1
  <2>4. \A x, y, z \in S : <<x, y>> \in before /\ <<y, z>> \in before => <<x, z>> \in before
    BY <1>2, <2>1
  <2>5. QED
    BY <2>2, <2>3, <2>4, Zenon DEF Orders
<1>4. /\ Ascending(S) \in Bijection(1 .. Cardinality(S), S)
      /\ \A i, j \in 1 .. Cardinality(S) :
             i < j => <<Ascending(S)[i], Ascending(S)[j]>> \in before
  BY <1>1, <1>3, OrderedFacts DEF Ascending
<1>5. Ascending(S) \in [1 .. Cardinality(S) -> S]
  BY <1>4 DEF Bijection, Injection
<1>6. QED
  BY <1>2, <1>4, <1>5, Zenon

(* Two ways to key a sequence that order its positions alike sort it alike.*)
LEMMA SameOrder ==
    ASSUME NEW n \in Nat, NEW seq, DOMAIN seq = 1 .. n, NEW key, NEW other,
           \A i, j \in 1 .. n :
               Less(key[i], key[j]) \/ (key[i] = key[j] /\ i < j)
               <=> Less(other[i], other[j]) \/ (other[i] = other[j] /\ i < j)
    PROVE  SortedBy(seq, key) = SortedBy(seq, other)
<1>1. ByKey(DOMAIN seq, key) = ByKey(DOMAIN seq, other)
  BY DEF ByKey
<1>2. QED
  BY <1>1, Zenon DEF SortedBy

(* GET /api/queries answers with the newest decisions.                     *)
LEMMA QueriesListed ==
    ASSUME LogInv, NEW limit \in Nat
    PROVE  QueryListHonest(limit)
<1>1. PICK S : S = {i \in DOMAIN log : /\ log[i].kind = "decision"
                                     /\ log[i].block \in From(BlockNumber) .. BlockNumber}
  OBVIOUS
<1>2. /\ Len(log) \in Nat /\ DOMAIN log = 1 .. Len(log) /\ BlockNumber \in Nat
      /\ \A i \in DOMAIN log : log[i].block \in Nat /\ log[i].block <= BlockNumber
  BY LogFacts DEF LogInv
<1>3. IsFiniteSet(S) /\ S \subseteq Nat /\ S \subseteq DOMAIN log
  <2>1. S \in SUBSET (1 .. Len(log)) /\ IsFiniteSet(1 .. Len(log))
    BY <1>1, <1>2, FS_Interval
  <2>2. IsFiniteSet(S)
    BY <2>1, FS_Subset
  <2>3. 1 .. Len(log) \subseteq Nat
    BY <1>2
  <2>4. QED
    BY <2>1, <2>2, <2>3, <1>2
<1>4. S = {i \in DOMAIN log : log[i].kind = "decision" /\ log[i].block + Window >= BlockNumber}
  <2>1. Window \in Nat
    BY StoresAssumption
  <2>2. \A b \in Nat : b <= BlockNumber =>
            (b \in From(BlockNumber) .. BlockNumber <=> b + Window >= BlockNumber)
    BY <2>1, <1>2 DEF From
  <2>3. \A i \in DOMAIN log : log[i].block \in From(BlockNumber) .. BlockNumber
                              <=> log[i].block + Window >= BlockNumber
    BY <2>2, <1>2
  <2>4. QED
    BY <2>3, <1>1, Zenon
<1>5. PICK keyOf : keyOf = [d \in S |-> <<-log[d].block, d>>]
  OBVIOUS
<1>6. keyOf \in [S -> Int \X Int] /\ \A d \in S : keyOf[d] = <<-log[d].block, d>>
  BY <1>2, <1>3, <1>5
<1>7. PICK n \in Nat : n = Cardinality(S)
  BY <1>3, FS_CardinalityType
<1>8. PICK seq \in Bijection(1 .. n, S) :
         seq = Ascending(S) /\ \A i, j \in 1 .. n : i < j => seq[i] < seq[j]
  BY <1>3, <1>7, NumbersListed
<1>9. seq \in [1 .. n -> S] /\ DOMAIN seq = 1 .. n
  BY DEF Bijection, Injection
<1>10. PICK key : key = [i \in DOMAIN seq |-> <<-log[seq[i]].block, 0>>]
  OBVIOUS
<1>a. PICK other : other = [i \in DOMAIN seq |-> keyOf[seq[i]]]
  OBVIOUS
<1>b. SortedBy(seq, key) = SortedBy(seq, other)
  <2>1. ASSUME NEW i \in 1 .. n, NEW j \in 1 .. n
        PROVE  Less(key[i], key[j]) \/ (key[i] = key[j] /\ i < j)
               <=> Less(other[i], other[j]) \/ (other[i] = other[j] /\ i < j)
    <3>1. PICK a \in S, b \in S : a = seq[i] /\ b = seq[j]
      BY <1>9
    <3>2. /\ key[i] = <<-log[a].block, 0>> /\ key[j] = <<-log[b].block, 0>>
          /\ other[i] = <<-log[a].block, a>> /\ other[j] = <<-log[b].block, b>>
      BY <1>6, <1>9, <1>10, <1>a, <3>1
    <3>3. /\ a \in Nat /\ b \in Nat /\ log[a].block \in Nat /\ log[b].block \in Nat
          /\ i \in Nat /\ j \in Nat
      BY <1>2, <1>3
    <3>4. (i < j => a < b) /\ (j < i => b < a) /\ (i = j => a = b)
      BY <1>8, <3>1
    <3>5. QED
      BY <3>2, <3>3, <3>4 DEF Less
  <2>2. QED
    BY <2>1, <1>9, SameOrder
<1>11. PICK items : items = First(SortedBy(seq, key), limit)
  OBVIOUS
<1>12. ShowsFirst(S, keyOf, items, limit)
  <2>1. items = First(SortedBy(seq, other), limit)
    BY <1>11, <1>b
  <2>2. QED
    BY <2>1, <1>3, <1>6, <1>7, <1>8, <1>a, FirstShown
<1>13. items = AgentQueries(limit)
  BY <1>1, <1>8, <1>10, <1>11 DEF AgentQueries, ReadDecisionsLive, EventsBetween
<1>14. ASSUME NEW d \in S, NEW e \in S, ~Less(keyOf[d], keyOf[e])
       PROVE  ~ListedBefore(d, e)
  <2>1. ~Less(<<-log[d].block, d>>, <<-log[e].block, e>>)
    BY <1>6, <1>14
  <2>2. log[d].block \in Nat /\ log[e].block \in Nat /\ d \in Nat /\ e \in Nat
    BY <1>2, <1>3
  <2>3. QED
    BY <2>1, <2>2 DEF Less, ListedBefore
<1>15. ToSet(items) \subseteq S /\ IsInjective(items)
  BY <1>12 DEF ShowsFirst
<1>16. \A i \in DOMAIN items : items[i] \in S
  BY <1>15 DEF ToSet
<1>17. \A d \in S \ ToSet(items), i \in DOMAIN items : ~ListedBefore(d, items[i])
  BY <1>12, <1>14, <1>16 DEF ShowsFirst
<1>18. \A i, j \in DOMAIN items : i < j => ~ListedBefore(items[j], items[i])
  BY <1>12, <1>14, <1>16 DEF ShowsFirst
<1>19. Len(items) = IF limit < Cardinality(S) THEN limit ELSE Cardinality(S)
  BY <1>12 DEF ShowsFirst
<1>20. QED
  BY <1>4, <1>13, <1>15, <1>17, <1>18, <1>19, Zenon DEF QueryListHonest

(* save_cache_response leaves a finite set of typed snapshots.             *)
LEMMA SaveCacheListed ==
    ASSUME LogInv, CacheInv, SaveCache
    PROVE  CacheInv'
<1>1. /\ Len(log) \in Nat /\ DOMAIN log = 1 .. Len(log)
      /\ \A i \in DOMAIN log : log[i].block \in Nat
  BY LogFacts
<1>2. PICK row : row = [t \in Targets |-> [target |-> t, severity |-> SeverityOf[HeadOf(t)],
                                         count |-> CountOf(t), block |-> log[HeadOf(t)].block]]
  OBVIOUS
<1>3. cache' = {row[t] : t \in {u \in Targets : Audits(u) # {}}}
  BY <1>2 DEF SaveCache
<1>4. PICK A : A = {i \in DOMAIN log : log[i].kind = "audit" /\ log[i].target \in Targets}
  OBVIOUS
<1>5. IsFiniteSet(A)
  <2>1. A \in SUBSET (1 .. Len(log)) /\ IsFiniteSet(1 .. Len(log))
    BY <1>1, <1>4, FS_Interval
  <2>2. QED
    BY <2>1, FS_Subset
<1>6. PICK g : g = [i \in A |-> row[log[i].target]]
  OBVIOUS
<1>7. g \in [A -> cache']
  <2>1. ASSUME NEW i \in A PROVE row[log[i].target] \in cache'
    <3>1. i \in Audits(log[i].target) /\ log[i].target \in Targets
      BY <1>4 DEF Audits
    <3>2. QED
      BY <3>1, <1>3
  <2>2. QED
    BY <2>1, <1>6
<1>8. ASSUME NEW r \in cache' PROVE \E i \in A : g[i] = r
  <2>1. PICK t \in Targets : Audits(t) # {} /\ r = row[t]
    BY <1>3
  <2>2. PICK i \in Audits(t) : TRUE
    BY <2>1
  <2>3. i \in A /\ log[i].target = t
    BY <1>4 DEF Audits
  <2>4. QED
    BY <2>1, <2>3, <1>6
<1>9. g \in Surjection(A, cache')
  BY <1>7, <1>8 DEF Surjection
<1>10. IsFiniteSet(cache')
  BY <1>5, <1>9, FS_Surjection
<1>11. ASSUME NEW r \in cache' PROVE r.block \in Nat /\ r.count \in Nat
  <2>1. PICK t \in Targets : Audits(t) # {} /\ r = row[t]
    BY <1>3
  <2>2. r.block = log[HeadOf(t)].block /\ r.count = CountOf(t)
    BY <2>1, <1>2
  <2>3. HeadOf(t) \in DOMAIN log
    BY <2>1, HeadFacts DEF HeadRead, Audits
  <2>4. QED
    BY <2>2, <2>3, <1>1, CountFacts
<1>12. QED
  BY <1>10, <1>11 DEF CacheInv

(* Every step keeps the cached snapshots typed.                            *)
LEMMA NextCache == LogInv /\ CacheInv /\ [Next]_vars => CacheInv'
<1>1. CASE SaveCache
  BY <1>1, SaveCacheListed
<1>2. ASSUME CacheInv, cache' = cache PROVE CacheInv'
  BY <1>2 DEF CacheInv
<1>3. [Next]_vars => SaveCache \/ cache' = cache
  BY DEF Next, vars, Emit, RecordPaid, Backfill, LoadReceipts, SaveReceipts, SaveFails, GetAudit,
         GetCount, FetchReport, GetFails, WalkDisputes, OpenTmp, WriteTmp, ReplaceTmp, RefreshEnds
<1>4. QED
  BY <1>1, <1>2, <1>3

(* GET /api/cache and GET /api/queries are as long as their limit allows,  *)
(* sorted, leave nothing out that comes before what they show, and show    *)
(* nothing twice: build_cache_response and _read_decisions_live.           *)
THEOREM ListsInOrder == Spec => []ListsNewestFirst
<1>1. Init => CacheInv
  BY FS_EmptySet DEF Init, CacheInv
<1>2. ASSUME StoresInv, CacheInv PROVE ListsNewestFirst
  <2>1. \A limit \in 1 .. MaxEvents : limit \in Nat
    BY StoresAssumption
  <2>2. ASSUME NEW limit \in 1 .. MaxEvents
        PROVE  /\ \A sev \in {None} \cup {SeverityOf[i] : i \in DOMAIN SeverityOf} :
                      CacheListHonest(limit, sev)
               /\ QueryListHonest(limit)
    BY <1>2, <2>1, CacheListed, QueriesListed DEF StoresInv
  <2>3. QED
    BY <2>2, Zenon DEF ListsNewestFirst
<1>3. StoresInv => LogInv
  BY DEF StoresInv
<1>4. QED
  BY <1>1, <1>2, <1>3, NextCache, StoresInvariant, PTL DEF Spec

(***************************************************************************)
(* One audit, Pipeline with Guard: first the claims that the guard finds   *)
(* in a text, each by a chain of jumps from match to match, then the spans *)
(* that it chooses among them, then findings, then the report.             *)
(***************************************************************************)

(* The end of a run of characters: the first position that is not of S.    *)
LEMMA PastFacts ==
    ASSUME NEW T, NEW t \in Seq(T), NEW i \in 1 .. Len(t) + 1, NEW S
    PROVE  /\ Past(t, i, S) \in i .. Len(t) + 1
           /\ At(t, i, S) => Past(t, i, S) # i
<1>1. Len(t) \in Nat /\ DOMAIN t = 1 .. Len(t)
  OBVIOUS
<1>2. PICK ends : ends = {j \in i .. Len(t) + 1 : ~At(t, j, S)}
  OBVIOUS
<1>3. Len(t) + 1 \in ends
  BY <1>1, <1>2 DEF At
<1>4. ends \in SUBSET Nat /\ ends # {}
  BY <1>1, <1>2, <1>3
<1>5. PICK j \in ends : \A k \in ends : j <= k
  BY <1>4, LeastMember
<1>6. j \in i .. Len(t) + 1 /\ ~At(t, j, S)
  BY <1>2
<1>7. \A k \in i .. j - 1 : At(t, k, S)
  <2>1. ASSUME NEW k \in i .. j - 1 PROVE k \in i .. Len(t) + 1 /\ ~(j <= k)
    BY <1>1, <1>6
  <2>2. QED
    BY <2>1, <1>2, <1>5
<1>8. /\ Past(t, i, S) \in i .. Len(t) + 1
      /\ ~At(t, Past(t, i, S), S)
  BY <1>6, <1>7 DEF Past
<1>9. QED
  BY <1>8

(* Skipping a blank or a fraction does not leave the text.                 *)
LEMMA AfterFacts ==
    ASSUME NEW T, NEW t \in Seq(T), NEW i \in 1 .. Len(t) + 1
    PROVE  /\ AfterFraction(t, i) \in i .. Len(t) + 1
           /\ AfterBlank(t, i) \in i .. Len(t) + 1
<1>1. Len(t) \in Nat /\ DOMAIN t = 1 .. Len(t)
  OBVIOUS
<1>2. AfterBlank(t, i) \in i .. Len(t) + 1
  <2>1. ASSUME NEW S, At(t, i, S) PROVE i + 1 \in i .. Len(t) + 1
    BY <1>1, <2>1 DEF At
  <2>2. \/ AfterBlank(t, i) = i
        \/ AfterBlank(t, i) = i + 1 /\ \E S : At(t, i, S)
    BY Zenon DEF AfterBlank
  <2>3. QED
    BY <1>1, <2>1, <2>2
<1>3. CASE At(t, i, {"."}) /\ At(t, i + 1, Digits)
  <2>1. i + 1 \in 1 .. Len(t) + 1
    BY <1>1, <1>3 DEF At
  <2>2. Past(t, i + 1, Digits) \in i + 1 .. Len(t) + 1
    BY <2>1, PastFacts
  <2>3. QED
    BY <1>1, <1>2, <1>3, <2>2 DEF AfterFraction
<1>4. CASE ~(At(t, i, {"."}) /\ At(t, i + 1, Digits))
  BY <1>1, <1>2, <1>4 DEF AfterFraction
<1>5. QED
  BY <1>3, <1>4

(* A claim is not empty and ends in its text.                              *)
Ending(t, i, end) == end = 0 \/ end \in i + 1 .. Len(t) + 1

(* Addresses and hex literals end behind their start, within the text.     *)
LEMMA HexEnds ==
    ASSUME NEW T, NEW t \in Seq(T), NEW i \in 1 .. Len(t)
    PROVE  Ending(t, i, AddressEnd(t, i)) /\ Ending(t, i, HexEnd(t, i))
<1>1. Len(t) \in Nat /\ DOMAIN t = 1 .. Len(t)
  OBVIOUS
<1>2. AddressDigits \in Nat \ {0} /\ MaxHexDigits \in Nat \ {0}
  BY GuardAssumption
<1>3. Ending(t, i, AddressEnd(t, i))
  <2>1. PICK end : end = i + 2 + AddressDigits
    OBVIOUS
  <2>2. CASE \A k \in i + 2 .. end - 1 : At(t, k, HexDigits)
    <3>1. end - 1 \in i + 2 .. end - 1
      BY <1>2, <2>1
    <3>2. end - 1 \in DOMAIN t
      BY <2>2, <3>1 DEF At
    <3>3. end \in i + 1 .. Len(t) + 1
      BY <1>1, <1>2, <2>1, <3>2
    <3>4. AddressEnd(t, i) \in {0, end}
      BY <2>1 DEF AddressEnd, NoMatch
    <3>5. QED
      BY <3>3, <3>4 DEF Ending
  <2>3. CASE ~(\A k \in i + 2 .. end - 1 : At(t, k, HexDigits))
    <3>1. AddressEnd(t, i) = 0
      BY <2>1, <2>3 DEF AddressEnd, NoMatch
    <3>2. QED
      BY <3>1 DEF Ending
  <2>4. QED
    BY <2>2, <2>3
<1>4. Ending(t, i, HexEnd(t, i))
  <2>1. CASE HexAt(t, i) /\ At(t, i + 2, HexDigits)
    <3>1. i + 2 \in 1 .. Len(t) + 1
      BY <1>1, <2>1 DEF At
    <3>2. PICK past : past = Past(t, i + 2, HexDigits)
      OBVIOUS
    <3>3. past \in i + 2 .. Len(t) + 1
      BY <3>1, <3>2, PastFacts
    <3>4. HexEnd(t, i) = IF past > i + 2 + MaxHexDigits THEN i + 2 + MaxHexDigits ELSE past
      BY <2>1, <3>2 DEF HexEnd
    <3>5. QED
      BY <1>1, <1>2, <3>3, <3>4 DEF Ending
  <2>2. CASE ~(HexAt(t, i) /\ At(t, i + 2, HexDigits))
    BY <2>2 DEF HexEnd, NoMatch, Ending
  <2>3. QED
    BY <2>1, <2>2
<1>5. QED
  BY <1>3, <1>4

(* So do amounts and percentages.                                          *)
LEMMA NumberEnds ==
    ASSUME NEW T, NEW t \in Seq(T), NEW i \in 1 .. Len(t)
    PROVE  Ending(t, i, DollarEnd(t, i)) /\ Ending(t, i, PercentEnd(t, i))
<1>1. Len(t) \in Nat /\ DOMAIN t = 1 .. Len(t)
  OBVIOUS
<1>2. Ending(t, i, DollarEnd(t, i))
  <2>1. PICK from : from = AfterBlank(t, i + 1)
    OBVIOUS
  <2>2. PICK S : S = Digits \cup {","}
    OBVIOUS
  <2>3. from \in i + 1 .. Len(t) + 1
    BY <1>1, <2>1, AfterFacts
  <2>4. PICK past : past = Past(t, from, S)
    OBVIOUS
  <2>5. past \in from .. Len(t) + 1
    BY <1>1, <2>3, <2>4, PastFacts
  <2>6. past \in 1 .. Len(t) + 1
    BY <1>1, <2>3, <2>5
  <2>7. AfterFraction(t, past) \in past .. Len(t) + 1
    BY <2>6, AfterFacts
  <2>8. AfterFraction(t, past) \in i + 1 .. Len(t) + 1
    BY <1>1, <2>3, <2>5, <2>7
  <2>9. DollarEnd(t, i) \in {0, AfterFraction(t, past)}
    BY <2>1, <2>2, <2>4 DEF DollarEnd, NoMatch
  <2>10. QED
    BY <2>8, <2>9 DEF Ending
<1>3. Ending(t, i, PercentEnd(t, i))
  <2>1. CASE At(t, i, Digits)
    <3>1. PICK past : past = Past(t, i, Digits)
      OBVIOUS
    <3>2. past \in i .. Len(t) + 1
      BY <1>1, <3>1, PastFacts
    <3>3. PICK after : after = AfterFraction(t, past)
      OBVIOUS
    <3>4. past \in 1 .. Len(t) + 1
      BY <1>1, <3>2
    <3>5. after \in past .. Len(t) + 1
      BY <3>3, <3>4, AfterFacts
    <3>6. after \in 1 .. Len(t) + 1
      BY <1>1, <3>2, <3>5
    <3>7. PICK sign : sign = AfterBlank(t, after)
      OBVIOUS
    <3>8. sign \in after .. Len(t) + 1
      BY <3>6, <3>7, AfterFacts
    <3>9. PercentEnd(t, i) = IF At(t, sign, {"%"}) THEN sign + 1 ELSE 0
      BY <2>1, <3>1, <3>3, <3>7 DEF PercentEnd, NoMatch
    <3>10. At(t, sign, {"%"}) => sign + 1 \in i + 1 .. Len(t) + 1
      BY <1>1, <3>2, <3>5, <3>8 DEF At
    <3>11. QED
      BY <3>9, <3>10 DEF Ending
  <2>2. CASE ~At(t, i, Digits)
    BY <2>2 DEF PercentEnd, NoMatch, Ending
  <2>3. QED
    BY <2>1, <2>2
<1>4. QED
  BY <1>2, <1>3

(* Every match ends behind its start, within the text.                     *)
LEMMA MatchEnds ==
    ASSUME NEW T, NEW t \in Seq(T), NEW i \in 1 .. Len(t),
           NEW k \in 1 .. 4
    PROVE  Ending(t, i, MatchEnd(k, t, i))
<1>1. MatchEnd(k, t, i) \in {AddressEnd(t, i), HexEnd(t, i),
                                   DollarEnd(t, i), PercentEnd(t, i)}
  BY DEF MatchEnd, Patterns
<1>2. QED
  BY <1>1, HexEnds, NumberEnds

(* Sets gathered from a position of a text on, jumping from each position  *)
(* to a later one.                                                         *)
IsChain(f, a, n, add, nxt) ==
    f = [i \in a .. n + 1 |-> IF i > n THEN {} ELSE add[i] \cup f[nxt[i]]]
Jumps(n, nxt) == \A i \in 1 .. n : nxt[i] \in i + 1 .. n + 1

(* A chain of jumps can be put in front of a shorter one.                  *)
LEMMA ChainLonger ==
    ASSUME NEW n \in Nat, NEW add, NEW nxt, Jumps(n, nxt), NEW a \in 1 .. n,
           NEW f, IsChain(f, a + 1, n, add, nxt)
    PROVE  \E g : IsChain(g, a, n, add, nxt)
<1>1. PICK g : g = [i \in a .. n + 1 |-> IF i = a THEN add[a] \cup f[nxt[a]] ELSE f[i]]
  OBVIOUS
<1>2. ASSUME NEW i \in a .. n + 1
      PROVE  g[i] = IF i > n THEN {} ELSE add[i] \cup g[nxt[i]]
  <2>1. CASE i = a
    <3>1. nxt[a] \in a + 1 .. n + 1
      BY DEF Jumps
    <3>2. nxt[a] \in a .. n + 1 /\ nxt[a] # a
      BY <3>1
    <3>3. g[nxt[a]] = f[nxt[a]]
      BY <1>1, <3>2
    <3>4. g[a] = add[a] \cup f[nxt[a]]
      BY <1>1, <2>1
    <3>5. QED
      BY <2>1, <3>3, <3>4
  <2>2. CASE i # a
    <3>1. i \in a + 1 .. n + 1
      BY <2>2
    <3>2. g[i] = f[i]
      BY <1>1, <2>2
    <3>3. f[i] = IF i > n THEN {} ELSE add[i] \cup f[nxt[i]]
      BY <3>1 DEF IsChain
    <3>4. CASE i > n
      BY <3>2, <3>3, <3>4
    <3>5. CASE ~(i > n)
      <4>1. nxt[i] \in i + 1 .. n + 1
        BY <3>1, <3>5 DEF Jumps
      <4>2. nxt[i] \in a .. n + 1 /\ nxt[i] # a
        BY <3>1, <4>1
      <4>3. g[nxt[i]] = f[nxt[i]]
        BY <1>1, <4>2
      <4>4. QED
        BY <3>2, <3>3, <3>5, <4>3
    <3>6. QED
      BY <3>4, <3>5
  <2>3. QED
    BY <2>1, <2>2
<1>3. g = [i \in a .. n + 1 |-> g[i]]
  BY <1>1
<1>4. IsChain(g, a, n, add, nxt)
  BY <1>2, <1>3 DEF IsChain
<1>5. QED
  BY <1>4

(* From every position jumps lead to the end.                              *)
LEMMA ChainExists ==
    ASSUME NEW n \in Nat, NEW add, NEW nxt, Jumps(n, nxt)
    PROVE  \E f : IsChain(f, 1, n, add, nxt)
<1>1. PICK missing : missing = {k \in 0 .. n : ~\E f : IsChain(f, n + 1 - k, n, add, nxt)}
  OBVIOUS
<1>2. CASE missing # {}
  <2>1. missing \in SUBSET Nat
    BY <1>1
  <2>2. PICK k \in missing : \A l \in missing : k <= l
    BY <1>2, <2>1, LeastMember
  <2>3. k \in 0 .. n /\ ~\E f : IsChain(f, n + 1 - k, n, add, nxt)
    BY <1>1
  <2>4. CASE k = 0
    <3>1. PICK f : f = [i \in n + 1 .. n + 1 |-> {}]
      OBVIOUS
    <3>2. IsChain(f, n + 1, n, add, nxt)
      BY <3>1 DEF IsChain
    <3>3. QED
      BY <2>3, <2>4, <3>2
  <2>5. CASE k # 0
    <3>1. k - 1 \in 0 .. n /\ ~(k <= k - 1)
      BY <2>3, <2>5
    <3>2. k - 1 \notin missing
      BY <2>2, <3>1
    <3>3. PICK f : IsChain(f, n + 1 - (k - 1), n, add, nxt)
      BY <1>1, <3>1, <3>2
    <3>4. PICK a \in 1 .. n : a = n + 1 - k /\ a + 1 = n + 1 - (k - 1)
      BY <2>3, <2>5
    <3>5. \E g : IsChain(g, a, n, add, nxt)
      BY <3>3, <3>4, ChainLonger
    <3>6. QED
      BY <2>3, <3>4, <3>5
  <2>6. QED
    BY <2>4, <2>5
<1>3. CASE missing = {}
  <2>1. n \in 0 .. n /\ n + 1 - n = 1
    OBVIOUS
  <2>2. QED
    BY <1>1, <1>3, <2>1
<1>4. QED
  BY <1>2, <1>3

(* All that is gathered is in any set that has all that is added.          *)
LEMMA ChainWithin ==
    ASSUME NEW n \in Nat, NEW add, NEW nxt, Jumps(n, nxt), NEW f, IsChain(f, 1, n, add, nxt),
           NEW X, \A i \in 1 .. n : add[i] \subseteq X
    PROVE  \A i \in 1 .. n + 1 : f[i] \subseteq X
<1>1. PICK bad : bad = {k \in 0 .. n : ~(f[n + 1 - k] \subseteq X)}
  OBVIOUS
<1>2. CASE bad # {}
  <2>1. bad \in SUBSET Nat
    BY <1>1
  <2>2. PICK k \in bad : \A l \in bad : k <= l
    BY <1>2, <2>1, LeastMember
  <2>3. PICK i \in 1 .. n + 1 : k \in 0 .. n /\ i = n + 1 - k /\ ~(f[i] \subseteq X)
    BY <1>1
  <2>4. f[i] = IF i > n THEN {} ELSE add[i] \cup f[nxt[i]]
    BY DEF IsChain
  <2>5. i \in 1 .. n
    BY <2>3, <2>4
  <2>6. nxt[i] \in i + 1 .. n + 1
    BY <2>5 DEF Jumps
  <2>7. PICK l \in 0 .. n : l = n + 1 - nxt[i] /\ n + 1 - l = nxt[i] /\ ~(k <= l)
    BY <2>3, <2>5, <2>6
  <2>8. l \notin bad
    BY <2>2, <2>7
  <2>9. f[nxt[i]] \subseteq X
    BY <1>1, <2>7, <2>8
  <2>10. add[i] \subseteq X /\ ~(i > n)
    BY <2>5
  <2>11. QED
    BY <2>3, <2>4, <2>9, <2>10
<1>3. CASE bad = {}
  <2>1. ASSUME NEW i \in 1 .. n + 1 PROVE f[i] \subseteq X
    <3>1. PICK k \in 0 .. n : k = n + 1 - i /\ n + 1 - k = i
      OBVIOUS
    <3>2. QED
      BY <1>1, <1>3, <3>1
  <2>2. QED
    BY <2>1
<1>4. QED
  BY <1>2, <1>3

Claims(t) == {c \in [from : 1 .. Len(t), to : 1 .. Len(t) + 1, kind : 1 .. 4] : c.from < c.to}

(* Matches gathers claims along the jumps of one pattern.                  *)
LEMMA MatchesGather ==
    ASSUME NEW T, NEW t \in Seq(T), NEW k \in 1 .. 4
    PROVE  Matches(k, t) \subseteq Claims(t)
<1> DEFINE n == Len(t)
           end == [i \in DOMAIN t |-> MatchEnd(k, t, i)]
           M == CHOOSE m : m = [i \in 1 .. n + 1 |->
                     IF i > n THEN {}
                     ELSE IF end[i] = NoMatch THEN m[i + 1]
                     ELSE {[from |-> i, to |-> end[i], kind |-> k]} \cup m[end[i]]]
<1>1. n \in Nat /\ n = Len(t) /\ DOMAIN t = 1 .. n
  OBVIOUS
<1>2. end = [i \in DOMAIN t |-> MatchEnd(k, t, i)]
  OBVIOUS
<1>3. Matches(k, t) = M[1]
  BY DEF Matches
<1>4. M = CHOOSE m : m = [i \in 1 .. n + 1 |->
                     IF i > n THEN {}
                     ELSE IF end[i] = 0 THEN m[i + 1]
                     ELSE {[from |-> i, to |-> end[i], kind |-> k]} \cup m[end[i]]]
  BY DEF NoMatch
<1> HIDE DEF M, n, end
<1>5. \A i \in 1 .. n : end[i] = 0 \/ end[i] \in i + 1 .. n + 1
  BY <1>1, <1>2, MatchEnds DEF Ending
<1>6. PICK nxt : nxt = [i \in 1 .. n |-> IF end[i] = 0 THEN i + 1 ELSE end[i]]
  OBVIOUS
<1>7. PICK add : add = [i \in 1 .. n |-> IF end[i] = 0 THEN {}
                                       ELSE {[from |-> i, to |-> end[i], kind |-> k]}]
  OBVIOUS
<1>8. Jumps(n, nxt)
  BY <1>1, <1>5, <1>6 DEF Jumps
<1>9. ASSUME NEW m
      PROVE  IsChain(m, 1, n, add, nxt) <=>
             m = [i \in 1 .. n + 1 |->
                     IF i > n THEN {}
                     ELSE IF end[i] = 0 THEN m[i + 1]
                     ELSE {[from |-> i, to |-> end[i], kind |-> k]} \cup m[end[i]]]
  <2>1. ASSUME NEW i \in 1 .. n + 1
        PROVE  (IF i > n THEN {} ELSE add[i] \cup m[nxt[i]]) =
               (IF i > n THEN {}
                ELSE IF end[i] = 0 THEN m[i + 1]
                ELSE {[from |-> i, to |-> end[i], kind |-> k]} \cup m[end[i]])
    <3>1. CASE i > n
      BY <3>1
    <3>2. CASE ~(i > n)
      <4>1. i \in 1 .. n
        BY <1>1, <3>2
      <4>2. /\ nxt[i] = IF end[i] = 0 THEN i + 1 ELSE end[i]
            /\ add[i] = IF end[i] = 0 THEN {} ELSE {[from |-> i, to |-> end[i], kind |-> k]}
        BY <4>1, <1>6, <1>7
      <4>3. QED
        BY <3>2, <4>2
    <3>3. QED
      BY <3>1, <3>2
  <2>2. QED
    BY <2>1, Zenon DEF IsChain
<1>10. PICK f : IsChain(f, 1, n, add, nxt)
  BY <1>1, <1>8, ChainExists
<1>11. IsChain(M, 1, n, add, nxt)
  BY <1>9, <1>10, <1>4, Zenon
<1>12. \A i \in 1 .. n : add[i] \subseteq Claims(t)
  <2>1. ASSUME NEW i \in 1 .. n, end[i] # 0
        PROVE  [from |-> i, to |-> end[i], kind |-> k] \in Claims(t)
    <3>1. end[i] \in 1 .. n + 1 /\ i < end[i]
      BY <1>5, <2>1
    <3>2. QED
      BY <3>1, <1>1 DEF Claims
  <2>2. QED
    BY <2>1, <1>7
<1>13. M[1] \subseteq Claims(t)
  <2>1. \A i \in 1 .. n + 1 : M[i] \subseteq Claims(t)
    BY <1>1, <1>8, <1>11, <1>12, ChainWithin
  <2>2. QED
    BY <2>1, <1>1
<1>14. QED
  BY <1>13, <1>3

(* ExtractClaims finds finitely many claims, all within the text.          *)
LEMMA ClaimsFound ==
    ASSUME NEW T, NEW t \in Seq(T)
    PROVE  ExtractClaims(t) \subseteq Claims(t) /\ IsFiniteSet(ExtractClaims(t))
<1>1. DOMAIN Patterns = 1 .. 4
  BY DEF Patterns
<1>2. ExtractClaims(t) \subseteq Claims(t)
  <2>1. \A k \in DOMAIN Patterns : Matches(k, t) \subseteq Claims(t)
    BY <1>1, MatchesGather
  <2>2. QED
    BY <2>1, Zenon DEF ExtractClaims
<1>3. PICK box : box = (1 .. Len(t)) \X ((1 .. Len(t) + 1) \X (1 .. 4))
  OBVIOUS
<1>4. IsFiniteSet(box)
  <2>1. {1, 4, Len(t), Len(t) + 1} \subseteq Int
    OBVIOUS
  <2>2. /\ IsFiniteSet(1 .. Len(t)) /\ IsFiniteSet(1 .. Len(t) + 1) /\ IsFiniteSet(1 .. 4)
    BY <2>1, FS_Interval
  <2>3. IsFiniteSet((1 .. Len(t) + 1) \X (1 .. 4))
    BY <2>2, FS_Product
  <2>4. QED
    BY <1>3, <2>2, <2>3, FS_Product
<1>5. PICK g : g = [c \in Claims(t) |-> <<c.from, <<c.to, c.kind>>>>]
  OBVIOUS
<1>6. g \in [Claims(t) -> box]
  BY <1>3, <1>5 DEF Claims
<1>7. ASSUME NEW c \in Claims(t), NEW d \in Claims(t), g[c] = g[d]
      PROVE  c = d
  <2>1. <<c.from, <<c.to, c.kind>>>> = <<d.from, <<d.to, d.kind>>>>
    BY <1>5, <1>7, Zenon
  <2>2. c.from = d.from /\ c.to = d.to /\ c.kind = d.kind
    BY <2>1
  <2>3. /\ c = [from |-> c.from, to |-> c.to, kind |-> c.kind]
        /\ d = [from |-> d.from, to |-> d.to, kind |-> d.kind]
    BY DEF Claims
  <2>4. QED
    BY <2>3, <2>2
<1>8. g \in Injection(Claims(t), box)
  BY <1>6, <1>7 DEF Injection, IsInjective
<1>9. IsFiniteSet(Claims(t))
  BY <1>4, <1>8, FS_Injection
<1>10. QED
  BY <1>2, <1>9, FS_Subset

Here(claims, i) == {c \in claims : c.from = i}
Best(claims, i) == CHOOSE c \in Here(claims, i) : \A d \in Here(claims, i) : Before(c, d)

(* Of the claims that start together one is the longest and most specific. *)
LEMMA BestFacts ==
    ASSUME NEW T, NEW t \in Seq(T), NEW claims, claims \subseteq Claims(t), NEW i,
           Here(claims, i) # {}
    PROVE  /\ Best(claims, i) \in claims
           /\ Best(claims, i).from = i
           /\ Best(claims, i).to \in i + 1 .. Len(t) + 1
<1>1. PICK n \in Nat : n = Len(t)
  OBVIOUS
<1>2. PICK S : S = Here(claims, i)
  OBVIOUS
<1>3. \A c \in S : /\ c \in claims /\ c.from = i /\ c.from \in 1 .. n /\ c.to \in 1 .. n + 1
                   /\ c.kind \in 1 .. 4 /\ c.from < c.to
  BY <1>1, <1>2 DEF Here, Claims
<1>4. PICK f : f = [c \in S |-> c.to * 4 + (4 - c.kind)]
  OBVIOUS
<1>5. \A c \in S : f[c] = c.to * 4 + (4 - c.kind)
  BY <1>4
<1>6. PICK N \in Nat : N = (n + 1) * 4 + 4
  BY <1>1
<1>7. \A c \in S : f[c] \in 0 .. N
  <2>1. ASSUME NEW c \in S PROVE f[c] \in 0 .. N
    <3>1. PICK a \in 1 .. n + 1, b \in 1 .. 4 : a = c.to /\ b = c.kind /\ f[c] = a * 4 + (4 - b)
      BY <1>3, <1>5
    <3>2. QED
      BY <1>6, <3>1
  <2>2. QED
    BY <2>1
<1>8. S # {}
  BY <1>2
<1>9. PICK b \in S : \A d \in S : f[d] <= f[b]
  BY <1>7, <1>8, GreatestMember
<1>10. ASSUME NEW d \in S PROVE Before(b, d)
  <2>1. f[d] <= f[b] /\ f[d] = d.to * 4 + (4 - d.kind) /\ f[b] = b.to * 4 + (4 - b.kind)
    BY <1>5, <1>9
  <2>2. PICK x \in 1 .. n + 1, y \in 1 .. n + 1, k \in 1 .. 4, l \in 1 .. 4 :
           x = d.to /\ y = b.to /\ k = d.kind /\ l = b.kind
    BY <1>3
  <2>3. x * 4 + (4 - k) <= y * 4 + (4 - l)
    BY <2>1, <2>2
  <2>4. y > x \/ (y = x /\ l <= k)
    BY <2>3
  <2>5. b.to > d.to \/ (b.to = d.to /\ b.kind <= d.kind)
    BY <2>2, <2>4
  <2>6. QED
    BY <2>5 DEF Before
<1>11. Best(claims, i) \in S
  BY <1>2, <1>9, <1>10, Zenon DEF Best
<1>12. QED
  BY <1>1, <1>3, <1>11

(* Claims of `claims` from position i on, apart from each other, such that *)
(* each claim from there on overlaps one that does not start behind it.    *)
Fair(claims, i, S) ==
    /\ \A c \in S : c \in claims /\ c.from >= i
    /\ \A c, d \in S : c = d \/ ~Overlap(c, d)
    /\ \A c \in claims : c.from >= i => \E d \in S : Overlap(c, d) /\ d.from <= c.from

(* What is fair from a later position is so from an earlier one without    *)
(* claims.                                                                 *)
LEMMA FairBefore ==
    ASSUME NEW T, NEW t \in Seq(T), NEW claims, claims \subseteq Claims(t),
           NEW i \in 1 .. Len(t), Here(claims, i) = {}, NEW S, Fair(claims, i + 1, S)
    PROVE  Fair(claims, i, S)
<1>1. \A c \in claims : c.from \in Nat /\ c.from # i
  BY DEF Here, Claims
<1>2. \A c \in claims : c.from >= i <=> c.from >= i + 1
  BY <1>1
<1>3. QED
  BY <1>2 DEF Fair

(* The best claim of a position can be put in front of fair spans behind   *)
(* it.                                                                     *)
LEMMA FairWith ==
    ASSUME NEW T, NEW t \in Seq(T), NEW claims, claims \subseteq Claims(t),
           NEW i \in 1 .. Len(t), NEW best \in claims, best.from = i,
           NEW S, Fair(claims, best.to, S)
    PROVE  Fair(claims, i, {best} \cup S)
<1>1. \A c \in claims : c.from \in Nat /\ c.to \in Nat /\ c.from < c.to
  BY DEF Claims
<1>2. \A c \in {best} \cup S : c \in claims /\ c.from >= i
  BY <1>1 DEF Fair
<1>3. ASSUME NEW c \in {best} \cup S, NEW d \in {best} \cup S PROVE c = d \/ ~Overlap(c, d)
  <2>1. ASSUME NEW e \in S PROVE e.from >= best.to /\ e \in claims
    BY DEF Fair
  <2>2. ASSUME NEW e \in S PROVE ~Overlap(best, e) /\ ~Overlap(e, best)
    <3>1. e.from \in Nat /\ best.to \in Nat /\ e.from >= best.to
      BY <2>1, <1>1
    <3>2. QED
      BY <3>1 DEF Overlap
  <2>3. QED
    BY <2>2 DEF Fair
<1>4. ASSUME NEW c \in claims, c.from >= i
      PROVE  \E d \in {best} \cup S : Overlap(c, d) /\ d.from <= c.from
  <2>1. CASE c.from < best.to
    <3>1. Overlap(c, best) /\ best.from <= c.from
      BY <2>1, <1>1, <1>4 DEF Overlap
    <3>2. QED
      BY <3>1
  <2>2. CASE c.from >= best.to
    BY <2>2 DEF Fair
  <2>3. QED
    BY <2>1, <2>2, <1>1
<1>5. QED
  BY <1>2, <1>3, <1>4 DEF Fair

(* Spans are apart, and every claim overlaps a span that does not start    *)
(* later.                                                                  *)
LEMMA SpansFair ==
    ASSUME NEW T, NEW t \in Seq(T), NEW claims, claims \subseteq Claims(t)
    PROVE  Fair(claims, 1, Spans(t, claims))
<1> DEFINE n == Len(t)
           M == CHOOSE m : m = [i \in 1 .. n + 1 |->
                    LET here == {c \in claims : c.from = i}
                    IN  IF i > n THEN {}
                        ELSE IF here = {} THEN m[i + 1]
                        ELSE LET best == CHOOSE c \in here : \A d \in here : Before(c, d)
                             IN  {best} \cup m[best.to]]
<1>1. n \in Nat /\ n = Len(t)
  OBVIOUS
<1>2. Spans(t, claims) = M[1]
  BY DEF Spans
<1>3. M = CHOOSE m : m = [i \in 1 .. n + 1 |->
                    IF i > n THEN {}
                    ELSE IF Here(claims, i) = {} THEN m[i + 1]
                    ELSE {Best(claims, i)} \cup m[Best(claims, i).to]]
  BY DEF Here, Best
<1> HIDE DEF M, n
<1>4. PICK nxt : nxt = [i \in 1 .. n |-> IF Here(claims, i) = {} THEN i + 1
                                        ELSE Best(claims, i).to]
  OBVIOUS
<1>5. PICK add : add = [i \in 1 .. n |-> IF Here(claims, i) = {} THEN {}
                                        ELSE {Best(claims, i)}]
  OBVIOUS
<1>6. Jumps(n, nxt)
  <2>1. ASSUME NEW i \in 1 .. n PROVE nxt[i] \in i + 1 .. n + 1
    <3>1. CASE Here(claims, i) = {}
      <4>1. nxt[i] = i + 1
        BY <3>1, <1>4
      <4>2. QED
        BY <4>1, <1>1
    <3>2. CASE Here(claims, i) # {}
      <4>1. nxt[i] = Best(claims, i).to
        BY <3>2, <1>4
      <4>2. QED
        BY <3>2, <4>1, <1>1, BestFacts
    <3>3. QED
      BY <3>1, <3>2
  <2>2. QED
    BY <2>1 DEF Jumps
<1>7. ASSUME NEW m
      PROVE  IsChain(m, 1, n, add, nxt) <=>
             m = [i \in 1 .. n + 1 |->
                    IF i > n THEN {}
                    ELSE IF Here(claims, i) = {} THEN m[i + 1]
                    ELSE {Best(claims, i)} \cup m[Best(claims, i).to]]
  <2>1. ASSUME NEW i \in 1 .. n + 1
        PROVE  (IF i > n THEN {} ELSE add[i] \cup m[nxt[i]]) =
               (IF i > n THEN {}
                ELSE IF Here(claims, i) = {} THEN m[i + 1]
                ELSE {Best(claims, i)} \cup m[Best(claims, i).to])
    <3>1. CASE i > n
      BY <3>1
    <3>2. CASE ~(i > n)
      <4>1. i \in 1 .. n
        BY <1>1, <3>2
      <4>2. /\ nxt[i] = IF Here(claims, i) = {} THEN i + 1 ELSE Best(claims, i).to
            /\ add[i] = IF Here(claims, i) = {} THEN {} ELSE {Best(claims, i)}
        BY <4>1, <1>4, <1>5
      <4>3. QED
        BY <3>2, <4>2
    <3>3. QED
      BY <3>1, <3>2
  <2>2. QED
    BY <2>1, Zenon DEF IsChain
<1>8. PICK f : IsChain(f, 1, n, add, nxt)
  BY <1>1, <1>6, ChainExists
<1>9. IsChain(M, 1, n, add, nxt)
  BY <1>3, <1>7, <1>8, Zenon
<1>10. PICK bad : bad = {k \in 0 .. n : ~Fair(claims, n + 1 - k, M[n + 1 - k])}
  OBVIOUS
<1>11. CASE bad # {}
  <2>1. bad \in SUBSET Nat
    BY <1>10
  <2>2. PICK k \in bad : \A l \in bad : k <= l
    BY <1>11, <2>1, LeastMember
  <2>3. PICK i \in 1 .. n + 1 : k \in 0 .. n /\ i = n + 1 - k /\ ~Fair(claims, i, M[i])
    BY <1>1, <1>10
  <2>4. M[i] = IF i > n THEN {} ELSE add[i] \cup M[nxt[i]]
    BY <1>9 DEF IsChain
  <2>5. CASE i > n
    <3>1. M[i] = {} /\ \A c \in claims : ~(c.from >= i)
      BY <2>4, <2>5, <1>1 DEF Claims
    <3>2. QED
      BY <2>3, <3>1 DEF Fair
  <2>6. CASE ~(i > n)
    <3>1. i \in 1 .. n /\ M[i] = add[i] \cup M[nxt[i]]
      BY <2>4, <2>6, <1>1
    <3>2. nxt[i] \in i + 1 .. n + 1
      BY <3>1, <1>6 DEF Jumps
    <3>3. PICK l \in 0 .. n : l = n + 1 - nxt[i] /\ n + 1 - l = nxt[i] /\ ~(k <= l)
      BY <2>3, <3>1, <3>2, <1>1
    <3>4. Fair(claims, nxt[i], M[nxt[i]])
      BY <2>2, <3>3, <1>10
    <3>5. CASE Here(claims, i) = {}
      <4>1. nxt[i] = i + 1 /\ M[i] = M[i + 1]
        BY <3>1, <3>5, <1>4, <1>5
      <4>2. Fair(claims, i, M[i])
        BY <3>1, <3>4, <3>5, <4>1, <1>1, FairBefore
      <4>3. QED
        BY <2>3, <4>2
    <3>6. CASE Here(claims, i) # {}
      <4>1. PICK best : best = Best(claims, i)
        OBVIOUS
      <4>2. nxt[i] = best.to /\ M[i] = {best} \cup M[best.to]
        BY <3>1, <3>6, <4>1, <1>4, <1>5
      <4>3. best \in claims /\ best.from = i
        BY <3>6, <4>1, BestFacts
      <4>4. i \in 1 .. Len(t) /\ Fair(claims, best.to, M[best.to])
        BY <3>1, <3>4, <4>2, <1>1
      <4>5. Fair(claims, i, {best} \cup M[best.to])
        BY <4>3, <4>4, FairWith
      <4>6. Fair(claims, i, M[i])
        BY <4>2, <4>5
      <4>7. QED
        BY <2>3, <4>6
    <3>7. QED
      BY <3>5, <3>6
  <2>7. QED
    BY <2>5, <2>6
<1>12. CASE bad = {}
  <2>1. n \in 0 .. n /\ n + 1 - n = 1
    BY <1>1
  <2>2. Fair(claims, 1, M[1])
    BY <2>1, <1>10, <1>12
  <2>3. QED
    BY <2>2, <1>2
<1>13. QED
  BY <1>11, <1>12

(* What the guard keeps, the documentation's rule allows.                  *)
LEMMA SupportedGrounded ==
    ASSUME NEW t, NEW c, NEW corpus, IsSupported(t, c, corpus)
    PROVE  Grounded(t, c, corpus)
<1>1. CASE Patterns[c.kind] \in {"dollar", "percent"}
  <2>1. Patterns[c.kind] \notin {"address", "hex"}
    BY <1>1
  <2>2. \/ Norm(ClaimIn(t, c)) = <<>>
        \/ OccursIn(Norm(ClaimIn(t, c)), corpus.strict)
    BY <2>1, Zenon DEF IsSupported, Supported
  <2>3. QED
    BY <1>1, <2>2, Zenon DEF Grounded
<1>2. CASE Patterns[c.kind] \notin {"dollar", "percent"}
  BY <1>2, Zenon DEF Grounded
<1>3. QED
  BY <1>1, <1>2

(* What is masked in a text is unsupported, and what is not is grounded or *)
(* touches something that is masked or grounded.                           *)
LEMMA MaskedFairly ==
    ASSUME NEW t \in Text, NEW corpus
    PROVE  /\ Masked(t, corpus) \subseteq ExtractClaims(t)
           /\ IsFiniteSet(Masked(t, corpus))
           /\ FairlyMasked(t, Replace(t, Masked(t, corpus)),
                                 ExtractClaims(t), Masked(t, corpus), corpus)
<1>1. PICK claims : claims = ExtractClaims(t)
  OBVIOUS
<1>2. claims \subseteq Claims(t) /\ IsFiniteSet(claims)
  BY <1>1, ClaimsFound DEF Text
<1>3. PICK spans : spans = Spans(t, claims)
  OBVIOUS
<1>4. Fair(claims, 1, spans)
  BY <1>2, <1>3, SpansFair DEF Text
<1>5. PICK masked : masked = Masked(t, corpus)
  OBVIOUS
<1>6. masked = {c \in spans : ~IsSupported(t, c, corpus)}
  BY <1>1, <1>3, <1>5 DEF Masked
<1>7. masked \subseteq claims
  BY <1>4, <1>6 DEF Fair
<1>8. IsFiniteSet(masked)
  BY <1>2, <1>7, FS_Subset
<1>9. ASSUME NEW c \in masked
      PROVE  /\ ~IsSupported(t, c, corpus)
             /\ \A d \in masked : c = d \/ ~Overlap(c, d)
  BY <1>4, <1>6, Zenon DEF Fair
<1>10. ASSUME NEW c \in claims
       PROVE  \/ \E d \in masked : Overlap(c, d)
              \/ \E d \in claims : /\ Overlap(c, d) /\ d.from <= c.from
                                   /\ Grounded(t, d, corpus)
  <2>1. c.from >= 1
    BY <1>2 DEF Claims
  <2>2. PICK d \in spans : Overlap(c, d) /\ d.from <= c.from
    BY <1>4, <2>1 DEF Fair
  <2>3. d \in claims
    BY <1>4 DEF Fair
  <2>4. CASE d \in masked
    BY <2>2, <2>4
  <2>5. CASE d \notin masked
    <3>1. Grounded(t, d, corpus)
      BY <1>6, <2>5, SupportedGrounded
    <3>2. QED
      BY <2>2, <2>3, <3>1
  <2>6. QED
    BY <2>4, <2>5
<1>11. FairlyMasked(t, Replace(t, masked), claims, masked, corpus)
  BY <1>9, <1>10, Zenon DEF FairlyMasked
<1>12. QED
  BY <1>1, <1>5, <1>7, <1>8, <1>11

(* f became g when the claims a of its finding and b of its fix are masked. *)
BecameWith(f, g, n, corpus, c1, c2, a, b) ==
    /\ n = Cardinality(a) + Cardinality(b)
    /\ FairlyMasked(f.finding, g.finding, c1, a, corpus)
    /\ FairlyMasked(f.fix, g.fix, c2, b, corpus)
    /\ g.label = IF n > 0 THEN DropLabel(f.label) ELSE f.label
    /\ g.severity = f.severity /\ g.id = f.id
    /\ g.evidence = f.evidence

(* A finding becomes what the guard makes of it.                           *)
LEMMA GuardedBecame ==
    ASSUME NEW f \in Findings, NEW corpus,
           NEW m1, m1 = Masked(f.finding, corpus),
           NEW m2, m2 = Masked(f.fix, corpus)
    PROVE  /\ Became(f, Guarded(f, m1, m2),
                        Cardinality(m1) + Cardinality(m2), corpus)
           /\ Guarded(f, m1, m2).severity = f.severity
           /\ Guarded(f, m1, m2).id = f.id
<1>1. PICK g : g = Guarded(f, m1, m2)
  OBVIOUS
<1>2. PICK drop : drop = DropLabel(f.label)
  OBVIOUS
<1>3. g = [f EXCEPT !.finding = Replace(@, m1), !.fix = Replace(@, m2),
                    !.label = IF m1 \cup m2 = {} THEN @ ELSE DropLabel(@)]
  BY <1>1 DEF Guarded
<1>4. f.finding \in Text /\ f.fix \in Text
  BY DEF Findings
<1>5. /\ g.finding = Replace(f.finding, m1)
      /\ g.fix = Replace(f.fix, m2)
      /\ g.label = IF m1 \cup m2 = {} THEN f.label ELSE DropLabel(f.label)
      /\ g.severity = f.severity /\ g.id = f.id /\ g.evidence = f.evidence
  BY <1>3 DEF Findings
<1>6. PICK n : n = Cardinality(m1) + Cardinality(m2)
  OBVIOUS
<1>7. /\ m1 \subseteq ExtractClaims(f.finding) /\ IsFiniteSet(m1)
      /\ FairlyMasked(f.finding, g.finding, ExtractClaims(f.finding), m1, corpus)
  BY <1>4, <1>5, MaskedFairly
<1>8. /\ m2 \subseteq ExtractClaims(f.fix) /\ IsFiniteSet(m2)
      /\ FairlyMasked(f.fix, g.fix, ExtractClaims(f.fix), m2, corpus)
  BY <1>4, <1>5, MaskedFairly
<1>9. n > 0 <=> m1 \cup m2 # {}
  <2>1. Cardinality(m1) \in Nat /\ Cardinality(m2) \in Nat
    BY <1>7, <1>8, FS_CardinalityType
  <2>2. /\ Cardinality(m1) = 0 <=> m1 = {}
        /\ Cardinality(m2) = 0 <=> m2 = {}
    BY <1>7, <1>8, FS_EmptySet
  <2>3. n > 0 <=> ~(Cardinality(m1) = 0 /\ Cardinality(m2) = 0)
    BY <1>6, <2>1
  <2>4. QED
    BY <2>2, <2>3
<1>10. g.label = IF n > 0 THEN DropLabel(f.label) ELSE f.label
  BY <1>5, <1>9
<1>11. Became(f, g, n, corpus)
  <2>1. PICK c1 : c1 = ExtractClaims(f.finding)
    OBVIOUS
  <2>2. PICK c2 : c2 = ExtractClaims(f.fix)
    OBVIOUS
  <2>3. BecameWith(f, g, n, corpus, c1, c2, m1, m2)
    BY <1>5, <1>6, <1>7, <1>8, <1>10, <2>1, <2>2 DEF BecameWith
  <2>4. m1 \in SUBSET c1 /\ m2 \in SUBSET c2
    BY <1>7, <1>8, <2>1, <2>2
  <2>5. Became(f, g, n, corpus)
          <=> \E d1 \in {ExtractClaims(f.finding)}, d2 \in {ExtractClaims(f.fix)} :
              \E a \in SUBSET d1, b \in SUBSET d2 : BecameWith(f, g, n, corpus, d1, d2, a, b)
    BY Zenon DEF Became, BecameWith
  <2>6. c1 \in {ExtractClaims(f.finding)} /\ c2 \in {ExtractClaims(f.fix)}
    BY <2>1, <2>2
  <2>7. QED
    BY <2>3, <2>4, <2>5, <2>6
<1>12. QED
  BY <1>1, <1>5, <1>6, <1>11

(* What is kept of a sequence.                                             *)
LEMMA KeptFacts ==
    ASSUME NEW T, NEW seq \in Seq(T), NEW S \in SUBSET DOMAIN seq
    PROVE  /\ Kept(seq, S) \in Seq(T)
           /\ \A k \in DOMAIN Kept(seq, S) :
                 \E p \in S : Kept(seq, S)[k] = seq[p]
<1>1. Len(seq) \in Nat /\ DOMAIN seq = 1 .. Len(seq)
  OBVIOUS
<1>2. S \subseteq Nat /\ IsFiniteSet(S)
  <2>1. IsFiniteSet(1 .. Len(seq))
    BY <1>1, 1 \in Int, FS_Interval
  <2>2. QED
    BY <1>1, <2>1, FS_Subset
<1>3. PICK n \in Nat : n = Cardinality(S)
  BY <1>2, FS_CardinalityType
<1>4. PICK at : at = Ascending(S)
  OBVIOUS
<1>5. at \in [1 .. n -> S]
  BY <1>2, <1>3, <1>4, NumbersListed DEF Bijection, Injection
<1>6. PICK kept : kept = Kept(seq, S)
  OBVIOUS
<1>7. kept = [k \in 1 .. n |-> seq[at[k]]]
  BY <1>3, <1>4, <1>6 DEF Kept
<1>8. \A k \in 1 .. n : at[k] \in S /\ seq[at[k]] \in T
  BY <1>1, <1>5
<1>9. kept \in Seq(T)
  BY <1>7, <1>8
<1>10. \A k \in DOMAIN kept : \E p \in S : kept[k] = seq[p]
  BY <1>7, <1>8
<1>11. QED
  BY <1>6, <1>9, <1>10

(* An element of a reply as parse_findings takes it.                       *)
Parsed(e) ==
    [id       |-> e.id,
     severity |-> IF e.severity \in SeveritySet THEN e.severity ELSE "info",
     label    |-> IF e.label \in LabelSet THEN e.label ELSE "ESTIMATED",
     finding  |-> e.finding,
     fix      |-> e.fix,
     evidence |-> e.evidence]

(* An object of a reply becomes a finding with known severity and label.   *)
LEMMA ParsedFinding ==
    ASSUME NEW e \in Elements, e.object
    PROVE  Parsed(e) \in Findings
<1>1. "info" \in SeveritySet
  BY DEF SeveritySet, Severities
<1>2. "ESTIMATED" \in LabelSet
  BY DEF LabelSet, Labels
<1>3. e \in [object : {TRUE}, id : Nat, severity : STRING, label : STRING,
             finding : Text, fix : Text, evidence : Text]
  <2>1. e = [object |-> FALSE] => ~e.object
    OBVIOUS
  <2>2. QED
    BY <2>1, Zenon DEF Elements
<1>4. PICK sev : sev = IF e.severity \in SeveritySet THEN e.severity ELSE "info"
  OBVIOUS
<1>5. PICK lab : lab = IF e.label \in LabelSet THEN e.label ELSE "ESTIMATED"
  OBVIOUS
<1>6. sev \in SeveritySet /\ lab \in LabelSet
  BY <1>1, <1>2, <1>4, <1>5
<1>7. Parsed(e) = [id |-> e.id, severity |-> sev, label |-> lab, finding |-> e.finding,
                   fix |-> e.fix, evidence |-> e.evidence]
  BY <1>4, <1>5 DEF Parsed
<1>8. QED
  BY <1>3, <1>6, <1>7 DEF Findings

(* Whatever the model answers, parse_findings makes findings of it.        *)
LEMMA ParseFacts ==
    ASSUME NEW r, r.kind = "array" => r.items \in Seq(Elements)
    PROVE  ParseFindings(r) \in Seq(Findings)
<1>1. CASE r.kind # "array"
  <2>1. ParseFindings(r) = <<>>
    BY <1>1 DEF ParseFindings
  <2>2. QED
    BY <2>1
<1>2. CASE r.kind = "array"
  <2>1. PICK S : S = {i \in DOMAIN r.items : r.items[i].object}
    OBVIOUS
  <2>2. S \in SUBSET DOMAIN r.items
    BY <2>1
  <2>3. PICK items : items = Kept(r.items, S)
    OBVIOUS
  <2>4. /\ items \in Seq(Elements)
        /\ \A k \in DOMAIN items : \E p \in S : items[k] = r.items[p]
    BY <1>2, <2>2, <2>3, KeptFacts
  <2>5. \A k \in DOMAIN items : items[k] \in Elements /\ items[k].object
    BY <2>1, <2>4
  <2>6. ParseFindings(r) = [i \in DOMAIN items |-> Parsed(items[i])]
    BY <1>2, <2>1, <2>3, Zenon DEF ParseFindings, Parsed
  <2>7. \A k \in DOMAIN items : Parsed(items[k]) \in Findings
    BY <2>5, ParsedFinding
  <2>8. DOMAIN items = 1 .. Len(items) /\ Len(items) \in Nat
    BY <2>4
  <2>9. QED
    BY <2>6, <2>7, <2>8
<1>3. QED
  BY <1>1, <1>2

(* The findings in which a severity and a check number can be read.        *)
Keyed(fs) == \A i \in DOMAIN fs : fs[i].severity \in SeveritySet /\ fs[i].id \in Nat

(* Every severity has a rank.                                              *)
LEMMA Ranks ==
    ASSUME NEW sev \in SeveritySet
    PROVE  RankIn(Severities, sev) \in Nat
<1>1. PICK i \in DOMAIN Severities : sev = Severities[i]
  BY DEF SeveritySet
<1>2. DOMAIN Severities = 1 .. 4
  BY DEF Severities
<1>3. \E j \in DOMAIN Severities : Severities[j] = sev
  BY <1>1
<1>4. RankIn(Severities, sev) \in DOMAIN Severities
  BY <1>3, Zenon DEF RankIn
<1>5. QED
  BY <1>2, <1>4

(* Sorting findings keeps them all, and the first is one of the worst.     *)
LEMMA SortedFindings ==
    ASSUME NEW T, NEW fs \in Seq(T), Keyed(fs)
    PROVE  /\ Sorted(fs) \in Seq(T)
           /\ Len(Sorted(fs)) = Len(fs)
           /\ Keyed(Sorted(fs))
           /\ \A i \in DOMAIN fs : \E k \in DOMAIN fs : Sorted(fs)[k] = fs[i]
           /\ \A k \in DOMAIN fs :
                 RankIn(Severities, Sorted(fs)[1].severity)
                     <= RankIn(Severities, Sorted(fs)[k].severity)
<1>1. PICK n \in Nat : n = Len(fs) /\ DOMAIN fs = 1 .. n
  OBVIOUS
<1> DEFINE rank(i) == RankIn(Severities, fs[i].severity)
<1>2. PICK key : key = [i \in DOMAIN fs |-> <<rank(i), fs[i].id>>]
  OBVIOUS
<1>3. \A i \in DOMAIN fs : rank(i) \in Nat /\ fs[i].id \in Nat
  BY Ranks DEF Keyed
<1>4. PICK R : R = [i \in DOMAIN fs |-> rank(i)]
  OBVIOUS
<1>5. \A i \in DOMAIN fs : R[i] = rank(i) /\ R[i] \in Nat
  BY <1>3, <1>4
<1> HIDE DEF rank
<1>6. key \in [DOMAIN fs -> Int \X Int]
  BY <1>2, <1>3
<1>7. PICK order \in Bijection(DOMAIN fs, DOMAIN fs) :
          /\ SortedBy(fs, key) = [k \in DOMAIN fs |-> fs[order[k]]]
          /\ \A i, j \in DOMAIN fs : i < j => ~Less(key[order[j]], key[order[i]])
  BY <1>6, SortedFacts
<1>8. PICK sorted : sorted = Sorted(fs)
  OBVIOUS
<1>9. sorted = [k \in DOMAIN fs |-> fs[order[k]]]
  <2>1. sorted = SortedBy(fs, key)
    BY <1>2, <1>8, Zenon DEF Sorted, rank
  <2>2. QED
    BY <2>1, <1>7
<1>10. order \in [DOMAIN fs -> DOMAIN fs] /\ \A i \in DOMAIN fs : \E k \in DOMAIN fs : order[k] = i
  BY DEF Bijection, Surjection
<1>11. \A k \in 1 .. n : sorted[k] = fs[order[k]] /\ order[k] \in 1 .. n
  BY <1>1, <1>9, <1>10
<1>12. DOMAIN sorted = 1 .. n
  BY <1>1, <1>9
<1>13. \A k \in 1 .. n : sorted[k] \in T
  BY <1>1, <1>11
<1>14. sorted \in Seq(T) /\ Len(sorted) = n
  BY <1>1, <1>9, <1>11
<1>15. Keyed(sorted)
  BY <1>1, <1>11, <1>12 DEF Keyed
<1>16. \A i \in DOMAIN fs : \E k \in DOMAIN fs : sorted[k] = fs[i]
  <2> SUFFICES ASSUME NEW i \in 1 .. n PROVE \E k \in 1 .. n : sorted[k] = fs[i]
    BY <1>1
  <2>1. PICK k \in 1 .. n : order[k] = i
    BY <1>1, <1>10
  <2>2. sorted[k] = fs[i]
    BY <2>1, <1>11
  <2>3. QED
    BY <2>2
<1>17. \A k \in 1 .. n : RankIn(Severities, sorted[1].severity)
                           <= RankIn(Severities, sorted[k].severity)
  <2> SUFFICES ASSUME NEW k \in 1 .. n
               PROVE  RankIn(Severities, sorted[1].severity)
                           <= RankIn(Severities, sorted[k].severity)
    OBVIOUS
  <2>1. 1 \in 1 .. n
    BY <1>1
  <2>2. PICK p \in 1 .. n, q \in 1 .. n : p = order[1] /\ q = order[k]
    BY <2>1, <1>11
  <2>3. /\ RankIn(Severities, sorted[1].severity) = R[p]
        /\ RankIn(Severities, sorted[k].severity) = R[q]
    BY <2>1, <2>2, <1>1, <1>5, <1>11 DEF rank
  <2>4. CASE k = 1
    BY <2>2, <2>3, <2>4, <1>1, <1>5
  <2>5. CASE k # 1
    <3>1. 1 < k
      BY <2>5
    <3>2. ~Less(key[q], key[p])
      BY <2>1, <2>2, <3>1, <1>1, <1>7
    <3>3. key[p][1] = R[p] /\ key[q][1] = R[q]
      BY <1>1, <1>2, <1>5
    <3>4. ~(R[q] < R[p])
      BY <3>2, <3>3 DEF Less
    <3>5. R[p] \in Nat /\ R[q] \in Nat
      BY <1>1, <1>5
    <3>6. QED
      BY <2>3, <3>4, <3>5
  <2>6. QED
    BY <2>4, <2>5
<1>18. QED
  BY <1>1, <1>8, <1>14, <1>15, <1>16, <1>17

(* The accumulating loop of apply_guard.                                   *)
Total(counts) == FoldLeft(+, 0, counts)

(* What the guard makes of findings fs.                                    *)
Accounts(g, fs, corpus) ==
    /\ DOMAIN g.findings = DOMAIN fs /\ DOMAIN g.perFinding = DOMAIN fs
    /\ \A i \in DOMAIN fs : /\ Became(fs[i], g.findings[i], g.perFinding[i], corpus)
                            /\ g.findings[i].severity = fs[i].severity
                            /\ g.findings[i].id = fs[i].id
    /\ g.perFinding = [i \in DOMAIN fs |-> g.perFinding[i]]
    /\ g.findings = [i \in DOMAIN fs |-> g.findings[i]]
    /\ g.maskedCount = Total(g.perFinding)
    /\ g.labelDrops = Cardinality({i \in DOMAIN g.perFinding : g.perFinding[i] > 0})

(* Outcome accounts for the findings it gets, whatever else is in its      *)
(* arguments.                                                              *)
LEMMA OutcomeAccounts ==
    ASSUME NEW fs \in Seq(Findings), NEW corpus,
           NEW A, \A i \in DOMAIN fs : A[i] = Masked(fs[i].finding, corpus),
           NEW B, \A i \in DOMAIN fs : B[i] = Masked(fs[i].fix, corpus)
    PROVE  Accounts(Outcome(fs, A, B), fs, corpus)
<1> DEFINE count(i) == Cardinality(A[i]) + Cardinality(B[i])
<1>1. PICK counts : counts = [i \in DOMAIN fs |-> count(i)]
  OBVIOUS
<1>2. PICK found : found = [i \in DOMAIN fs |-> Guarded(fs[i], A[i], B[i])]
  OBVIOUS
<1>3. PICK g : g = Outcome(fs, A, B)
  OBVIOUS
<1>4. PICK drops : drops = Cardinality({i \in DOMAIN fs : count(i) > 0})
  OBVIOUS
<1>5. g = [findings |-> found, perFinding |-> counts, maskedCount |-> Total(counts),
           labelDrops |-> drops]
  BY <1>1, <1>2, <1>3, <1>4, Zenon DEF Outcome, Total
<1>6. /\ g.findings = found /\ g.perFinding = counts /\ g.labelDrops = drops
      /\ g.maskedCount = Total(counts)
  BY <1>5, Zenon
<1>7. \A i \in DOMAIN fs : counts[i] = count(i)
  BY <1>1
<1>8. DOMAIN counts = DOMAIN fs /\ DOMAIN found = DOMAIN fs
  BY <1>1, <1>2
<1>9. {i \in DOMAIN counts : counts[i] > 0} = {i \in DOMAIN fs : count(i) > 0}
  <2> HIDE DEF count
  <2>1. QED
    BY <1>7, <1>8
<1>10. drops = Cardinality({i \in DOMAIN counts : counts[i] > 0})
  BY <1>4, <1>9, Zenon
<1>11. ASSUME NEW i \in DOMAIN fs
       PROVE  /\ Became(fs[i], found[i], counts[i], corpus)
              /\ found[i].severity = fs[i].severity
              /\ found[i].id = fs[i].id
  <2>1. fs[i] \in Findings
    OBVIOUS
  <2>2. A[i] = Masked(fs[i].finding, corpus) /\ B[i] = Masked(fs[i].fix, corpus)
    OBVIOUS
  <2>3. found[i] = Guarded(fs[i], A[i], B[i])
    BY <1>2
  <2>4. counts[i] = Cardinality(A[i]) + Cardinality(B[i])
    BY <1>7
  <2>5. PICK f \in Findings : f = fs[i]
    BY <2>1
  <2>6. PICK m1, m2 : m1 = A[i] /\ m2 = B[i]
    OBVIOUS
  <2>7. /\ Became(f, Guarded(f, m1, m2),
                        Cardinality(m1) + Cardinality(m2), corpus)
        /\ Guarded(f, m1, m2).severity = f.severity
        /\ Guarded(f, m1, m2).id = f.id
    BY <2>2, <2>5, <2>6, GuardedBecame
  <2>8. QED
    BY <2>3, <2>4, <2>5, <2>6, <2>7, Zenon
<1>12. counts = [i \in DOMAIN fs |-> counts[i]] /\ found = [i \in DOMAIN fs |-> found[i]]
  <2> HIDE DEF count
  <2>1. QED
    BY <1>1, <1>2
<1>13. Accounts(g, fs, corpus)
  BY <1>6, <1>8, <1>10, <1>11, <1>12, Zenon DEF Accounts
<1>14. QED
  BY <1>3, <1>13

(* What apply_guard answers, and what stands in its place in an audit      *)
(* without a reply.                                                        *)
LEMMA GuardAccounts ==
    ASSUME NEW fs \in Seq(Findings), NEW corpus
    PROVE  /\ Accounts(ApplyGuard(fs, corpus), fs, corpus)
           /\ Accounts(Unguarded, <<>>, corpus)
<1>1. Accounts(ApplyGuard(fs, corpus), fs, corpus)
  <2>1. PICK A : A = [i \in DOMAIN fs |-> Masked(fs[i].finding, corpus)]
    OBVIOUS
  <2>2. PICK B : B = [i \in DOMAIN fs |-> Masked(fs[i].fix, corpus)]
    OBVIOUS
  <2>3. Accounts(Outcome(fs, A, B), fs, corpus)
    BY <2>1, <2>2, OutcomeAccounts
  <2>4. ApplyGuard(fs, corpus) = Outcome(fs, A, B)
    BY <2>1, <2>2, Zenon DEF ApplyGuard
  <2>5. QED
    BY <2>3, <2>4
<1>2. Accounts(Unguarded, <<>>, corpus)
  <2>1. <<>> \in Seq(Findings) /\ DOMAIN <<>> = {}
    OBVIOUS
  <2>2. Accounts(Outcome(<<>>, <<>>, <<>>), <<>>, corpus)
    BY <2>1, OutcomeAccounts
  <2>3. QED
    BY <2>2 DEF Unguarded
<1>3. QED
  BY <1>1, <1>2

(* all is every finding of Tier 1 and of g, its severity the worst of them. *)
AllReported(all, tier1, fs, g) ==
    /\ Len(all) = Len(fs) + Len(tier1)
    /\ Len(g.perFinding) = Len(fs)
    /\ \A f \in ToSet(tier1) : f \in ToSet(all)
    /\ \A j \in DOMAIN fs : g.findings[j] \in ToSet(all)
    /\ \A f \in ToSet(all) :
          RankIn(Severities, Worst(all))
              <= RankIn(Severities, f.severity)

(* The findings of a report: those of Tier 1 and the guarded ones.         *)
LEMMA ReportFindings ==
    ASSUME NEW tier1 \in Seq(Findings), NEW fs \in Seq(Findings), NEW corpus,
           NEW g, Accounts(g, fs, corpus),
           NEW all, all = Sorted(tier1 \o g.findings)
    PROVE  AllReported(all, tier1, fs, g)
<1>1. PICK m \in Nat, n \in Nat : /\ m = Len(tier1) /\ DOMAIN tier1 = 1 .. m
                                  /\ n = Len(fs) /\ DOMAIN fs = 1 .. n
  OBVIOUS
<1>2. PICK found : found = g.findings
  OBVIOUS
<1>3. PICK T : T = Findings \cup {found[i] : i \in 1 .. n}
  OBVIOUS
<1>4. DOMAIN found = 1 .. n /\ found = [i \in 1 .. n |-> found[i]]
  BY <1>1, <1>2 DEF Accounts
<1>5. found \in Seq(T) /\ Len(found) = n
  BY <1>1, <1>3, <1>4
<1>6. tier1 \in Seq(T)
  BY <1>3
<1>7. PICK both : both = tier1 \o found
  OBVIOUS
<1>8. /\ both \in Seq(T) /\ Len(both) = m + n /\ DOMAIN both = 1 .. m + n
      /\ \A i \in 1 .. m : both[i] = tier1[i]
      /\ \A i \in 1 .. n : both[m + i] = found[i]
  <2>1. /\ both \in Seq(T) /\ Len(both) = Len(tier1) + Len(found)
        /\ \A i \in 1 .. Len(tier1) + Len(found) :
              both[i] = IF i <= Len(tier1) THEN tier1[i] ELSE found[i - Len(tier1)]
    BY <1>5, <1>6, <1>7, ConcatProperties
  <2>2. both \in Seq(T) /\ Len(both) = m + n
    BY <2>1, <1>1, <1>5
  <2>3. DOMAIN both = 1 .. m + n
    BY <2>2
  <2>4. \A i \in 1 .. m : both[i] = tier1[i]
    <3>1. \A i \in 1 .. m : i \in 1 .. m + n
      BY <1>1
    <3>2. QED
      BY <2>1, <3>1, <1>1, <1>5
  <2>5. ASSUME NEW i \in 1 .. n PROVE both[m + i] = found[i]
    <3>1. PICK p \in 1 .. m + n : p = m + i
      BY <1>1
    <3>2. p > m /\ p - m = i
      BY <3>1, <1>1
    <3>3. both[p] = found[p - m]
      BY <2>1, <3>1, <3>2, <1>1, <1>5
    <3>4. QED
      BY <3>1, <3>2, <3>3
  <2>6. QED
    BY <2>2, <2>3, <2>4, <2>5
<1>9. Keyed(both)
  <2> SUFFICES ASSUME NEW i \in 1 .. m + n
               PROVE  both[i].severity \in SeveritySet /\ both[i].id \in Nat
    BY <1>8 DEF Keyed
  <2>1. CASE i <= m
    <3>1. i \in 1 .. m
      BY <2>1, <1>1
    <3>2. both[i] \in Findings
      BY <3>1, <1>1, <1>8
    <3>3. QED
      BY <3>2 DEF Findings
  <2>2. CASE ~(i <= m)
    <3>1. PICK j \in 1 .. n : i = m + j
      <4>1. i - m \in 1 .. n /\ i = m + (i - m)
        BY <2>2, <1>1
      <4>2. QED
        BY <4>1
    <3>2. both[i] = found[j]
      BY <3>1, <1>8
    <3>3. found[j].severity = fs[j].severity /\ found[j].id = fs[j].id
      BY <1>1, <1>2 DEF Accounts
    <3>4. fs[j] \in Findings
      BY <1>1
    <3>5. QED
      BY <3>2, <3>3, <3>4 DEF Findings
  <2>3. QED
    BY <2>1, <2>2
<1>10. PICK rank : rank = [k \in DOMAIN all |-> RankIn(Severities, all[k].severity)]
  OBVIOUS
<1>11. /\ all \in Seq(T) /\ Len(all) = m + n
       /\ \A i \in 1 .. m + n : \E k \in 1 .. m + n : all[k] = both[i]
       /\ \A k \in 1 .. m + n : RankIn(Severities, all[1].severity)
                                  <= RankIn(Severities, all[k].severity)
  <2>1. all = Sorted(both)
    BY <1>2, <1>7
  <2>2. /\ Sorted(both) \in Seq(T)
        /\ Len(Sorted(both)) = Len(both)
        /\ \A i \in DOMAIN both : \E k \in DOMAIN both : Sorted(both)[k] = both[i]
        /\ \A k \in DOMAIN both :
              RankIn(Severities, Sorted(both)[1].severity)
                <= RankIn(Severities, Sorted(both)[k].severity)
    BY <1>8, <1>9, SortedFindings
  <2>3. QED
    BY <2>1, <2>2, <1>8
<1>12. DOMAIN all = 1 .. m + n
  BY <1>11
<1>13. \A i \in 1 .. m + n : both[i] \in ToSet(all)
  BY <1>11, <1>12 DEF ToSet
<1>14. \A f \in ToSet(tier1) : f \in ToSet(all)
  <2> SUFFICES ASSUME NEW i \in 1 .. m PROVE tier1[i] \in ToSet(all)
    BY <1>1 DEF ToSet
  <2>1. i \in 1 .. m + n
    BY <1>1
  <2>2. QED
    BY <2>1, <1>8, <1>13
<1>15. \A j \in 1 .. n : found[j] \in ToSet(all)
  <2> SUFFICES ASSUME NEW j \in 1 .. n PROVE found[j] \in ToSet(all)
    OBVIOUS
  <2>1. m + j \in 1 .. m + n
    BY <1>1
  <2>2. both[m + j] \in ToSet(all)
    BY <2>1, <1>13
  <2>3. QED
    BY <2>2, <1>8
<1>16. \A f \in ToSet(all) :
          RankIn(Severities, Worst(all))
              <= RankIn(Severities, f.severity)
  <2> SUFFICES ASSUME NEW k \in 1 .. m + n
               PROVE  RankIn(Severities, Worst(all))
                        <= RankIn(Severities, all[k].severity)
    BY <1>12 DEF ToSet
  <2>1. all # <<>>
    BY <1>1, <1>12
  <2>2. Worst(all) = all[1].severity
    BY <2>1 DEF Worst
  <2>3. QED
    BY <2>2, <1>11
<1>17. Len(g.perFinding) = n
  <2>1. PICK each : each = g.perFinding
    OBVIOUS
  <2>2. each = [i \in 1 .. n |-> each[i]]
    BY <2>1, <1>1 DEF Accounts
  <2>3. Len(each) = n
    BY <2>2, <1>1
  <2>4. QED
    BY <2>1, <2>3
<1>18. QED
  BY <1>1, <1>2, <1>11, <1>14, <1>15, <1>16, <1>17 DEF AllReported

(* The report of a run with these fields.                                  *)
GuardOf(tier, source, code, tier1, reply) ==
    IF tier = 2 /\ reply # Absent
    THEN ApplyGuard(ParseFindings(reply),
                          Corpus(TextOf(source), code, tier1))
    ELSE Unguarded
FoundOf(tier, source, code, tier1, reply) ==
    Sorted(tier1 \o GuardOf(tier, source, code, tier1, reply).findings)
DocOf(tier, source, code, tier1, reply, metrics) ==
    [tier     |-> tier,
     findings |-> FoundOf(tier, source, code, tier1, reply),
     severity |-> Worst(FoundOf(tier, source, code, tier1, reply)),
     masked   |-> GuardOf(tier, source, code, tier1, reply).maskedCount,
     drops    |-> GuardOf(tier, source, code, tier1, reply).labelDrops,
     each     |-> GuardOf(tier, source, code, tier1, reply).perFinding,
     skipped  |-> tier = 2 /\ ~(tier = 2 /\ reply # Absent),
     metrics  |-> NormalizeNumbers(metrics)]
Doc == DocOf(run.tier, run.source, run.code, run.tier1, run.reply, world.metrics)

RunShape(r) ==
    r = [pc |-> r.pc, caller |-> r.caller, tier |-> r.tier, source |-> r.source,
         code |-> r.code, tier1 |-> r.tier1, tries |-> r.tries, reply |-> r.reply,
         report |-> r.report, cid |-> r.cid]

RunTyped ==
    /\ run.pc \in {"resolve", "code", "tier1", "reason", "build", "pin", "anchor", "done", "failed"}
    /\ run.caller \in {"route", "script"}
    /\ run.tier \in {1, 2}
    /\ run.source \in Contracts \cup {Absent}
    /\ run.code \in {CodeText, <<>>}
    /\ run.tier1 \in Seq(Findings)
    /\ run.tries \in 0 .. Tries
    /\ run.pc \in {"resolve", "code", "tier1", "reason"} => run.tries < Tries
    /\ run.reply \in Replies \cup {Absent}

(* A Tier 2 audit has a source, and a report has a reply if there is one.  *)
SourceInv ==
    /\ run.caller = "route" => \/ run.source \in {Absent, Target}
                               \/ run.source = Impl /\ world.listing = "proxy"
    /\ run.pc \in {"code", "tier1", "reason", "build"} => (run.tier = 2 <=> run.source # Absent)
    /\ run.pc \in {"resolve", "code", "tier1", "reason"} => run.reply = Absent
    /\ run.pc = "reason" => run.source # Absent
    /\ run.pc = "resolve" => run.source = Absent /\ run.tier = 2
    /\ run.pc = "build" => (run.reply # Absent <=> run.source # Absent)

(* Up to the report there is nothing; from then on the report is that of   *)
(* the run, the only document on IPFS, and the one that is anchored.       *)
Nothing ==
    /\ run.pc \in {"resolve", "code", "tier1", "reason", "build", "failed"}
    /\ run.report = <<>> /\ run.cid = Absent
    /\ pinned = <<>> /\ anchored = <<>>
Reported ==
    /\ run.tier = 2 <=> run.source # Absent
    /\ run.reply # Absent <=> run.source # Absent
    /\ run.report = [body |-> Doc, root |-> Doc]
    /\ \/ /\ run.pc \in {"pin", "failed"}
          /\ run.cid = Absent /\ pinned = <<>> /\ anchored = <<>>
       \/ /\ run.pc \in {"anchor", "failed"}
          /\ run.cid = 1 /\ pinned = <<run.report>> /\ anchored = <<>>
       \/ /\ run.pc \in {"done", "failed"}
          /\ run.cid = 1 /\ pinned = <<run.report>>
          /\ anchored = <<[root |-> Doc, cid |-> 1, severity |-> Doc.severity, tier |-> run.tier]>>
AuditInv ==
    /\ world \in World
    /\ RunShape(run)
    /\ RunTyped
    /\ SourceInv
    /\ Nothing \/ Reported

(* The invariant holds when an audit begins.                               *)
LEMMA InvBegins ==
    ASSUME AuditInit PROVE AuditInv
<1>1. /\ world \in Worlds /\ pinned = <<>> /\ anchored = <<>>
      /\ run \in [pc : {"resolve"}, caller : {"route", "script"}, tier : {2},
                  source : {Absent}, code : {<<>>}, tier1 : {<<>>}, tries : {0},
                  reply : {Absent}, report : {<<>>}, cid : {Absent}]
  BY DEF AuditInit
<1>2. world \in World
  BY PipelineAssumption, <1>1
<1>3. RunShape(run)
  BY <1>1 DEF RunShape
<1>4. /\ run.pc = "resolve" /\ run.caller \in {"route", "script"} /\ run.tier = 2
      /\ run.source = Absent /\ run.code = <<>> /\ run.tier1 = <<>> /\ run.tries = 0
      /\ run.reply = Absent /\ run.report = <<>> /\ run.cid = Absent
  BY <1>1
<1>5. Tries \in Nat \ {0}
  BY PipelineAssumption DEF Tries
<1>6. RunTyped
  <2>1. <<>> \in Seq(Findings)
    OBVIOUS
  <2>2. QED
    BY <1>4, <1>5, <2>1 DEF RunTyped
<1>7. SourceInv /\ Nothing
  BY <1>1, <1>4 DEF SourceInv, Nothing
<1>8. QED
  BY <1>2, <1>3, <1>6, <1>7 DEF AuditInv

(* What a step leaves alone.                                               *)
LEMMA SameRun ==
    ASSUME RunShape(run), NEW r,
           run' = [run EXCEPT !.pc = r.pc, !.source = r.source, !.tier = r.tier]
    PROVE  /\ RunShape(run')
           /\ run'.pc = r.pc /\ run'.source = r.source /\ run'.tier = r.tier
           /\ run'.caller = run.caller /\ run'.code = run.code /\ run'.tier1 = run.tier1
           /\ run'.tries = run.tries /\ run'.reply = run.reply /\ run'.report = run.report
           /\ run'.cid = run.cid
BY DEF RunShape

(* Before there is a report, a step that only looks things up.             *)
LookedUp ==
    /\ world' = world /\ pinned' = pinned /\ anchored' = anchored
    /\ RunShape(run')
    /\ run'.caller = run.caller /\ run'.report = run.report /\ run'.cid = run.cid

(* A look-up leaves nothing on IPFS or on chain.                           *)
LEMMA StillNothing ==
    ASSUME Nothing, LookedUp,
           run'.pc \in {"resolve", "code", "tier1", "reason", "build", "failed"}
    PROVE  Nothing'
BY DEF Nothing, LookedUp

(* Before the report is built there is nothing.                            *)
LEMMA EarlyIsNothing ==
    ASSUME AuditInv, run.pc \in {"resolve", "code", "tier1", "reason", "build"}
    PROVE  Nothing
BY DEF AuditInv, Reported

(* Finding a source, or failing to, keeps the invariant.                   *)
LEMMA ResolveStep ==
    ASSUME AuditInv, Resolve \/ ResolveFails
    PROVE  AuditInv'
<1>1. /\ run.pc = "resolve" /\ RunShape(run) /\ RunTyped /\ SourceInv
      /\ world \in World
  BY DEF AuditInv, Resolve, ResolveFails, At_
<1>2. /\ run.source \in Contracts \cup {Absent} /\ run.tier \in {1, 2}
      /\ Absent \notin Contracts
  BY PipelineAssumption, <1>1 DEF RunTyped
<1>3. Nothing
  BY <1>1, EarlyIsNothing
<1>4. run.reply = Absent /\ run.caller \in {"route", "script"}
  BY <1>1 DEF SourceInv, RunTyped
<1>5. LocalSource \in {Target, Demo}
  BY DEF LocalSource
<1>6. \A s \in Findable : \/ s = Absent \/ s = Target
                          \/ s = Impl /\ world.listing = "proxy"
  BY DEF Findable
<1>7. /\ LookedUp
      /\ run'.code = run.code /\ run'.tier1 = run.tier1 /\ run'.tries = run.tries
      /\ run'.reply = run.reply
      /\ run'.pc \in {"code", "failed"} /\ run'.tier \in {1, 2}
      /\ run'.source \in Contracts \cup {Absent}
      /\ run'.pc = "code" => (run'.tier = 2 <=> run'.source # Absent)
      /\ run'.caller = "route" => \/ run'.source \in {Absent, Target}
                                  \/ run'.source = Impl /\ world.listing = "proxy"
  <2>1. CASE Resolve
    <3>1. PICK s, src, tier :
             /\ s \in Findable
             /\ src = IF s = Absent /\ run.caller = "script" THEN LocalSource ELSE s
             /\ tier = IF s = Absent /\ run.caller = "route" THEN 1 ELSE 2
             /\ run' = [run EXCEPT !.pc = "code", !.source = src, !.tier = tier]
             /\ world' = world /\ pinned' = pinned /\ anchored' = anchored
      BY <2>1, Zenon DEF Resolve
    <3>2. /\ src \in Contracts \cup {Absent} /\ tier \in {1, 2}
          /\ tier = 2 <=> src # Absent
          /\ run.caller = "route" => \/ src \in {Absent, Target}
                                     \/ src = Impl /\ world.listing = "proxy"
      BY <3>1, <1>2, <1>4, <1>5, <1>6 DEF Contracts
    <3>3. /\ RunShape(run') /\ run'.pc = "code" /\ run'.source = src /\ run'.tier = tier
          /\ run'.caller = run.caller /\ run'.code = run.code /\ run'.tier1 = run.tier1
          /\ run'.tries = run.tries /\ run'.reply = run.reply
          /\ run'.report = run.report /\ run'.cid = run.cid
      BY <3>1, <1>1 DEF RunShape
    <3>4. QED
      BY <3>1, <3>2, <3>3 DEF LookedUp
  <2>2. CASE ResolveFails
    <3>1. /\ run' = IF run.caller = "script"
                    THEN [run EXCEPT !.pc = "code", !.source = LocalSource]
                    ELSE [run EXCEPT !.pc = "failed"]
          /\ world' = world /\ pinned' = pinned /\ anchored' = anchored
      BY <2>2, Zenon DEF ResolveFails
    <3>2. /\ RunShape(run')
          /\ \/ run.caller = "script" /\ run'.pc = "code" /\ run'.source = LocalSource
             \/ run.caller # "script" /\ run'.pc = "failed" /\ run'.source = run.source
          /\ run'.tier = run.tier
          /\ run'.caller = run.caller /\ run'.code = run.code /\ run'.tier1 = run.tier1
          /\ run'.tries = run.tries /\ run'.reply = run.reply
          /\ run'.report = run.report /\ run'.cid = run.cid
      BY <3>1, <1>1 DEF RunShape
    <3>3. run.tier = 2 /\ run.source = Absent
      BY <1>1 DEF SourceInv
    <3>4. QED
      BY <3>1, <3>2, <3>3, <1>2, <1>5 DEF LookedUp, Contracts
  <2>3. QED
    BY <2>1, <2>2
<1>8. RunTyped'
  BY <1>1, <1>7 DEF RunTyped, LookedUp, Tries
<1>9. SourceInv'
  BY <1>4, <1>7 DEF SourceInv, LookedUp
<1>10. Nothing'
  BY <1>3, <1>7, StillNothing
<1>11. QED
  BY <1>1, <1>7, <1>8, <1>9, <1>10 DEF AuditInv, LookedUp

(* So do bytecode, checks and the model's answers and failures.            *)
LEMMA LookStep ==
    ASSUME AuditInv,
           GetCode \/ RunTier1 \/ Reason \/ ReasonFails
    PROVE  AuditInv'
<1>1. /\ run.pc \in {"code", "tier1", "reason"} /\ RunShape(run) /\ RunTyped /\ SourceInv
      /\ world \in World
  BY DEF AuditInv, GetCode, RunTier1, Reason, ReasonFails, At_
<1>2. Nothing
  BY <1>1, EarlyIsNothing
<1>3. run.reply = Absent /\ (run.tier = 2 <=> run.source # Absent)
  BY <1>1 DEF SourceInv
<1>4. /\ LookedUp /\ run'.tier = run.tier /\ run'.source = run.source
      /\ run'.pc \in {"tier1", "reason", "build", "failed"}
      /\ run'.code \in {CodeText, <<>>} /\ run'.tier1 \in Seq(Findings)
      /\ run'.tries \in 0 .. Tries
      /\ run'.pc \in {"tier1", "reason"} => run'.tries < Tries
      /\ run'.pc = "reason" => run.source # Absent
      /\ run'.reply \in Replies \cup {Absent}
      /\ run'.pc \in {"tier1", "reason"} => run'.reply = Absent
      /\ run'.pc = "build" => (run'.reply # Absent <=> run.source # Absent)
  <2>1. CASE GetCode
    <3>1. PICK c \in {CodeText, <<>>} :
             /\ run' = [run EXCEPT !.pc = "tier1", !.code = c]
             /\ world' = world /\ pinned' = pinned /\ anchored' = anchored
      BY <2>1 DEF GetCode
    <3>2. /\ RunShape(run') /\ run'.pc = "tier1" /\ run'.source = run.source
          /\ run'.tier = run.tier
          /\ run'.caller = run.caller /\ run'.code = c /\ run'.tier1 = run.tier1
          /\ run'.tries = run.tries /\ run'.reply = run.reply
          /\ run'.report = run.report /\ run'.cid = run.cid
      BY <3>1, <1>1 DEF RunShape
    <3>3. QED
      BY <3>1, <3>2, <1>1, <1>3 DEF LookedUp, RunTyped
  <2>2. CASE RunTier1
    <3>1. PICK fs, pc : /\ fs = Sorted(Checks(run.source, run.code))
                        /\ pc = IF run.tier = 2 /\ TextOf(run.source) # <<>>
                               THEN "reason" ELSE "build"
                        /\ run' = [run EXCEPT !.tier1 = fs, !.pc = pc]
                        /\ world' = world /\ pinned' = pinned /\ anchored' = anchored
      BY <2>2, Zenon DEF RunTier1
    <3>2. Checks(run.source, run.code) \in Seq(Findings)
      BY PipelineAssumption, <1>1 DEF RunTyped
    <3>3. PICK checked : checked = Checks(run.source, run.code)
      OBVIOUS
    <3>4. fs \in Seq(Findings)
      <4>1. checked \in Seq(Findings)
        BY <3>2, <3>3
      <4>2. Keyed(checked)
        <5>1. \A i \in DOMAIN checked : checked[i] \in Findings
          BY <4>1
        <5>2. QED
          BY <5>1 DEF Keyed, Findings
      <4>3. Sorted(checked) \in Seq(Findings)
        BY <4>1, <4>2, SortedFindings
      <4>4. QED
        BY <3>1, <3>3, <4>3
    <3>5. /\ RunShape(run') /\ run'.pc = pc /\ run'.source = run.source
          /\ run'.tier = run.tier
          /\ run'.caller = run.caller /\ run'.code = run.code /\ run'.tier1 = fs
          /\ run'.tries = run.tries /\ run'.reply = run.reply
          /\ run'.report = run.report /\ run'.cid = run.cid
      BY <3>1, <1>1 DEF RunShape
    <3>6. run.tries \in 0 .. Tries /\ run.tries < Tries
      BY <1>1, <2>2 DEF RunTyped, RunTier1, At_
    <3>7. TextOf(run.source) # <<>> <=> run.source # Absent
      BY PipelineAssumption, <1>1 DEF TextOf, RunTyped
    <3>8. pc = IF run.source # Absent THEN "reason" ELSE "build"
      BY <3>1, <3>7, <1>3
    <3>9. QED
      BY <3>1, <3>4, <3>5, <3>6, <3>8, <1>1, <1>3 DEF LookedUp, RunTyped
  <2>3. CASE Reason
    <3>1. PICK r \in Replies :
             /\ run' = [run EXCEPT !.pc = "build", !.reply = r, !.tries = 0]
             /\ world' = world /\ pinned' = pinned /\ anchored' = anchored
      BY <2>3 DEF Reason
    <3>2. /\ RunShape(run') /\ run'.pc = "build" /\ run'.source = run.source
          /\ run'.tier = run.tier
          /\ run'.caller = run.caller /\ run'.code = run.code /\ run'.tier1 = run.tier1
          /\ run'.tries = 0 /\ run'.reply = r
          /\ run'.report = run.report /\ run'.cid = run.cid
      BY <3>1, <1>1 DEF RunShape
    <3>3. r # Absent /\ run.source # Absent /\ 0 \in 0 .. Tries
      <4>1. Tries \in Nat
        BY PipelineAssumption DEF Tries
      <4>2. r # Absent
        BY PipelineAssumption
      <4>3. run.pc = "reason"
        BY <2>3 DEF Reason, At_
      <4>4. run.source # Absent
        BY <1>1, <4>3 DEF SourceInv
      <4>5. QED
        BY <4>1, <4>2, <4>4
    <3>4. QED
      BY <3>1, <3>2, <3>3, <1>1 DEF LookedUp, RunTyped
  <2>4. CASE ReasonFails
    <3>1. PICK tries, pc :
             /\ tries = run.tries + 1
             /\ pc = IF run.tries + 1 = Tries THEN "failed" ELSE "reason"
             /\ run' = [run EXCEPT !.tries = tries, !.pc = pc]
             /\ world' = world /\ pinned' = pinned /\ anchored' = anchored
      <4>1. /\ run' = [run EXCEPT !.tries = @ + 1,
                          !.pc = IF run.tries + 1 = Tries THEN "failed" ELSE "reason"]
            /\ world' = world /\ pinned' = pinned /\ anchored' = anchored
        BY <2>4, Zenon DEF ReasonFails
      <4>2. QED
        BY <4>1, Zenon
    <3>2. /\ RunShape(run') /\ run'.pc = pc /\ run'.source = run.source
          /\ run'.tier = run.tier
          /\ run'.caller = run.caller /\ run'.code = run.code /\ run'.tier1 = run.tier1
          /\ run'.tries = tries /\ run'.reply = run.reply
          /\ run'.report = run.report /\ run'.cid = run.cid
      BY <3>1, <1>1 DEF RunShape
    <3>3. /\ run.source # Absent
          /\ run.tries < Tries /\ run.tries \in 0 .. Tries
      BY <1>1, <2>4 DEF SourceInv, RunTyped, ReasonFails, At_
    <3>4. Tries \in Nat
      BY PipelineAssumption DEF Tries
    <3>5. tries \in 0 .. Tries /\ (pc = "reason" => tries < Tries)
      BY <3>1, <3>3, <3>4
    <3>6. QED
      BY <3>1, <3>2, <3>3, <3>5, <1>1, <1>3 DEF LookedUp, RunTyped
  <2>5. QED
    BY <2>1, <2>2, <2>3, <2>4
<1>5. Tries' = Tries
  BY <1>4, Zenon DEF Tries, LookedUp
<1>6. RunTyped'
  BY <1>1, <1>4, <1>5 DEF RunTyped, LookedUp
<1>7. SourceInv'
  BY <1>1, <1>3, <1>4 DEF SourceInv, LookedUp
<1>8. Nothing'
  BY <1>2, <1>4, StillNothing
<1>9. QED
  BY <1>1, <1>4, <1>6, <1>7, <1>8 DEF AuditInv, LookedUp

(* Once the report is there, a step that leaves what it is made of alone.  *)
LEMMA SameDoc ==
    ASSUME /\ run'.tier = run.tier /\ run'.source = run.source /\ run'.code = run.code
           /\ run'.tier1 = run.tier1 /\ run'.reply = run.reply /\ run'.tries = run.tries
           /\ run'.caller = run.caller /\ world' = world,
           RunTyped, SourceInv, run'.pc \in {"pin", "anchor", "done", "failed"}
    PROVE  Doc' = Doc /\ RunTyped' /\ SourceInv'
<1>1. Doc' = Doc
  BY Zenon DEF Doc
<1>2. Tries' = Tries
  BY Zenon DEF Tries
<1>3. RunTyped'
  BY <1>2 DEF RunTyped
<1>4. SourceInv'
  BY DEF SourceInv
<1>5. QED
  BY <1>1, <1>3, <1>4

(* So does build_report.                                                   *)
LEMMA BuildStep ==
    ASSUME AuditInv, BuildReport
    PROVE  AuditInv'
<1>1. /\ run.pc = "build" /\ RunShape(run) /\ RunTyped /\ SourceInv
      /\ world \in World
  BY DEF AuditInv, BuildReport, At_
<1>2. Nothing
  BY <1>1, EarlyIsNothing
<1>3. /\ run' = [run EXCEPT !.pc = "pin", !.report = [body |-> Doc, root |-> Doc]]
      /\ world' = world /\ pinned' = pinned /\ anchored' = anchored
  <2>1. \E reasoned \in {run.tier = 2 /\ run.reply # Absent} :
        \E guarded \in {IF reasoned
                        THEN ApplyGuard(ParseFindings(run.reply), RunCorpus)
                        ELSE Unguarded} :
        \E doc \in {ReportOn(reasoned, guarded,
                                   Sorted(run.tier1 \o guarded.findings))} :
            run' = [run EXCEPT !.pc = "pin", !.report = [body |-> doc, root |-> doc]]
    BY Zenon DEF BuildReport
  <2>2. PICK reasoned \in {run.tier = 2 /\ run.reply # Absent} :
        \E guarded \in {IF reasoned
                        THEN ApplyGuard(ParseFindings(run.reply), RunCorpus)
                        ELSE Unguarded} :
        \E doc \in {ReportOn(reasoned, guarded,
                                   Sorted(run.tier1 \o guarded.findings))} :
            run' = [run EXCEPT !.pc = "pin", !.report = [body |-> doc, root |-> doc]]
    BY <2>1, Zenon
  <2>3. PICK guarded \in {IF reasoned
                        THEN ApplyGuard(ParseFindings(run.reply), RunCorpus)
                        ELSE Unguarded} :
        \E doc \in {ReportOn(reasoned, guarded,
                                   Sorted(run.tier1 \o guarded.findings))} :
            run' = [run EXCEPT !.pc = "pin", !.report = [body |-> doc, root |-> doc]]
    BY <2>2, Zenon
  <2>4. PICK doc \in {ReportOn(reasoned, guarded,
                                   Sorted(run.tier1 \o guarded.findings))} :
            run' = [run EXCEPT !.pc = "pin", !.report = [body |-> doc, root |-> doc]]
    BY <2>3, Zenon
  <2>5. world' = world /\ pinned' = pinned /\ anchored' = anchored
    BY DEF BuildReport
  <2>6. /\ reasoned = (run.tier = 2 /\ run.reply # Absent)
        /\ guarded = IF reasoned
                     THEN ApplyGuard(ParseFindings(run.reply), RunCorpus)
                     ELSE Unguarded
        /\ doc = ReportOn(reasoned, guarded, Sorted(run.tier1 \o guarded.findings))
        /\ world' = world /\ pinned' = pinned /\ anchored' = anchored
    BY <2>2, <2>3, <2>4, <2>5, Zenon
  <2>7. guarded = GuardOf(run.tier, run.source, run.code, run.tier1, run.reply)
    BY <2>6, Zenon DEF GuardOf, RunCorpus
  <2>8. Sorted(run.tier1 \o guarded.findings)
           = FoundOf(run.tier, run.source, run.code, run.tier1, run.reply)
    BY <2>7, Zenon DEF FoundOf
  <2>9. doc = Doc
    BY <2>6, <2>7, <2>8, Zenon DEF ReportOn, Doc, DocOf
  <2>10. QED
    BY <2>9, <2>6, <2>4, Zenon
<1>4. /\ RunShape(run') /\ run'.pc = "pin" /\ run'.source = run.source
      /\ run'.tier = run.tier
      /\ run'.caller = run.caller /\ run'.code = run.code /\ run'.tier1 = run.tier1
      /\ run'.tries = run.tries /\ run'.reply = run.reply
      /\ run'.report = [body |-> Doc, root |-> Doc] /\ run'.cid = run.cid
  <2>1. PICK report : report = [body |-> Doc, root |-> Doc]
    OBVIOUS
  <2>2. run' = [run EXCEPT !.pc = "pin", !.report = report]
    BY <1>3, <2>1, Zenon
  <2>3. QED
    BY <2>1, <2>2, <1>1 DEF RunShape
<1>5. Doc' = Doc /\ RunTyped' /\ SourceInv'
  BY <1>1, <1>3, <1>4, SameDoc
<1>6. Reported'
  <2>1. run.tier = 2 <=> run.source # Absent
    BY <1>1 DEF SourceInv
  <2>2. run.reply # Absent <=> run.source # Absent
    BY <1>1 DEF SourceInv
  <2>3. run.cid = Absent /\ pinned = <<>> /\ anchored = <<>>
    BY <1>2 DEF Nothing
  <2>4. QED
    BY <2>1, <2>2, <2>3, <1>3, <1>4, <1>5, Zenon DEF Reported
<1>7. QED
  BY <1>1, <1>3, <1>4, <1>5, <1>6 DEF AuditInv

(* So does pinning, done or failed.                                        *)
LEMMA PinStep ==
    ASSUME AuditInv, Pin \/ PinFails
    PROVE  AuditInv'
<1>1. /\ run.pc = "pin" /\ RunShape(run) /\ RunTyped /\ SourceInv
      /\ world \in World
  BY DEF AuditInv, Pin, PinFails, At_
<1>2. Reported
  BY <1>1 DEF AuditInv, Nothing
<1>3. run.cid = Absent /\ pinned = <<>> /\ anchored = <<>>
  BY <1>1, <1>2 DEF Reported
<1>4. PICK report : report = run.report
  OBVIOUS
<1>5. /\ RunShape(run') /\ run'.source = run.source /\ run'.tier = run.tier
      /\ run'.caller = run.caller /\ run'.code = run.code /\ run'.tier1 = run.tier1
      /\ run'.tries = run.tries /\ run'.reply = run.reply /\ run'.report = run.report
      /\ world' = world /\ anchored' = <<>>
      /\ \/ run'.pc = "anchor" /\ run'.cid = 1 /\ pinned' = <<report>>
         \/ run'.pc = "failed" /\ run'.cid = Absent /\ pinned' = <<>>
  <2>1. CASE Pin
    <3>1. /\ pinned' = Append(<<>>, report)
          /\ run' = [run EXCEPT !.pc = "anchor", !.cid = Len(<<>>) + 1]
          /\ world' = world /\ anchored' = <<>>
      BY <2>1, <1>3, <1>4, Zenon DEF Pin
    <3>2. Append(<<>>, report) = <<report>> /\ Len(<<>>) + 1 = 1
      OBVIOUS
    <3>3. run' = [run EXCEPT !.pc = "anchor", !.cid = 1]
      BY <3>1, <3>2, Zenon
    <3>4. QED
      BY <3>1, <3>2, <3>3, <1>1 DEF RunShape
  <2>2. CASE PinFails
    BY <2>2, <1>1, <1>3 DEF RunShape, PinFails, Go
  <2>3. QED
    BY <2>1, <2>2
<1>6. Doc' = Doc /\ RunTyped' /\ SourceInv'
  BY <1>1, <1>5, SameDoc
<1>7. Reported'
  <2>1. /\ run.tier = 2 <=> run.source # Absent
        /\ run.reply # Absent <=> run.source # Absent
        /\ run.report = [body |-> Doc, root |-> Doc]
    BY <1>2, Zenon DEF Reported
  <2>2. /\ run'.tier = 2 <=> run'.source # Absent
        /\ run'.reply # Absent <=> run'.source # Absent
        /\ run'.report = [body |-> Doc', root |-> Doc']
    BY <2>1, <1>5, <1>6, Zenon
  <2>3. pinned' = <<report>> => pinned' = <<run'.report>>
    BY <1>4, <1>5, Zenon
  <2>4. CASE run'.pc = "anchor" /\ run'.cid = 1 /\ pinned' = <<report>>
    BY <2>2, <2>3, <2>4, <1>5, Zenon DEF Reported
  <2>5. CASE run'.pc = "failed" /\ run'.cid = Absent /\ pinned' = <<>>
    BY <2>2, <2>5, <1>5, Zenon DEF Reported
  <2>6. QED
    BY <2>4, <2>5, <1>5
<1>8. QED
  BY <1>1, <1>5, <1>6, <1>7 DEF AuditInv

(* So does anchoring, whichever way it ends.                               *)
LEMMA AnchorStep ==
    ASSUME AuditInv, Anchor
    PROVE  AuditInv'
<1>1. /\ run.pc = "anchor" /\ RunShape(run) /\ RunTyped /\ SourceInv
      /\ world \in World
  BY DEF AuditInv, Anchor, At_
<1>2. Reported
  BY <1>1 DEF AuditInv, Nothing
<1>3. run.cid = 1 /\ pinned = <<run.report>> /\ anchored = <<>>
  BY <1>1, <1>2 DEF Reported
<1>4. /\ run.tier = 2 <=> run.source # Absent
      /\ run.reply # Absent <=> run.source # Absent
      /\ run.report = [body |-> Doc, root |-> Doc]
  BY <1>2, Zenon DEF Reported
<1>5. run.report.root = Doc /\ run.report.body.severity = Doc.severity
  <2>1. PICK doc : doc = Doc
    OBVIOUS
  <2>2. run.report = [body |-> doc, root |-> doc]
    BY <2>1, <1>4
  <2>3. run.report.root = doc /\ run.report.body = doc
    BY <2>2
  <2>4. QED
    BY <2>1, <2>3, Zenon
<1>6. PICK event : event = [root |-> Doc, cid |-> 1, severity |-> Doc.severity, tier |-> run.tier]
  OBVIOUS
<1>7. /\ world' = world /\ pinned' = pinned
      /\ \/ /\ anchored' = <<event>>
            /\ Go("done") \/ Go("failed")
         \/ anchored' = <<>> /\ Go("failed")
  <2>1. /\ world' = world /\ pinned' = pinned
        /\ \/ /\ anchored' = Append(anchored, [root     |-> run.report.root,
                                               cid      |-> run.cid,
                                               severity |-> run.report.body.severity,
                                               tier     |-> run.tier])
              /\ Go("done") \/ Go("failed")
           \/ anchored' = anchored /\ Go("failed")
    BY Zenon DEF Anchor
  <2>2. [root |-> run.report.root, cid |-> run.cid,
         severity |-> run.report.body.severity, tier |-> run.tier] = event
    BY <1>3, <1>5, <1>6, Zenon
  <2>3. Append(<<>>, event) = <<event>>
    OBVIOUS
  <2>4. QED
    BY <2>1, <2>2, <2>3, <1>3, Zenon
<1>8. /\ RunShape(run') /\ run'.source = run.source /\ run'.tier = run.tier
      /\ run'.caller = run.caller /\ run'.code = run.code /\ run'.tier1 = run.tier1
      /\ run'.tries = run.tries /\ run'.reply = run.reply /\ run'.report = run.report
      /\ run'.cid = run.cid /\ run'.pc \in {"done", "failed"}
      /\ run'.pc = "done" => anchored' = <<event>>
  BY <1>1, <1>7 DEF RunShape, Go
<1>9. Doc' = Doc /\ RunTyped' /\ SourceInv'
  BY <1>1, <1>7, <1>8, SameDoc
<1>10. Reported'
  <2>1. /\ run'.tier = 2 <=> run'.source # Absent
        /\ run'.reply # Absent <=> run'.source # Absent
        /\ run'.report = [body |-> Doc', root |-> Doc']
    BY <1>4, <1>8, <1>9, Zenon
  <2>2. run'.cid = 1 /\ pinned' = <<run'.report>>
    BY <1>3, <1>7, <1>8, Zenon
  <2>3. CASE anchored' = <<event>>
    <3>1. anchored' = <<[root |-> Doc', cid |-> 1, severity |-> Doc'.severity, tier |-> run'.tier]>>
      BY <2>3, <1>6, <1>8, <1>9, Zenon
    <3>2. run'.pc \in {"done", "failed"}
      BY <1>8
    <3>3. QED
      BY <2>1, <2>2, <3>1, <3>2, Zenon DEF Reported
  <2>4. CASE anchored' = <<>> /\ run'.pc = "failed"
    BY <2>1, <2>2, <2>4, Zenon DEF Reported
  <2>5. anchored' = <<event>> \/ (anchored' = <<>> /\ run'.pc = "failed")
    <3>1. CASE anchored' = <<>> /\ Go("failed")
      <4>1. run' = [run EXCEPT !.pc = "failed"]
        BY <3>1, Zenon DEF Go
      <4>2. run'.pc = "failed"
        BY <4>1, <1>1 DEF RunShape
      <4>3. QED
        BY <3>1, <4>2, Zenon
    <3>2. CASE anchored' = <<event>>
      BY <3>2, Zenon
    <3>3. anchored' = <<event>> \/ (anchored' = <<>> /\ Go("failed"))
      BY <1>7, Zenon
    <3>4. QED
      BY <3>1, <3>2, <3>3, Zenon
  <2>6. QED
    BY <2>3, <2>4, <2>5
<1>11. QED
  BY <1>1, <1>7, <1>8, <1>9, <1>10 DEF AuditInv

(* Every step keeps the invariant.                                         *)
LEMMA InvStays ==
    ASSUME AuditInv, [AuditNext]_auditVars
    PROVE  AuditInv'
<1>1. CASE AuditNext
  BY <1>1, ResolveStep, LookStep, BuildStep, PinStep, AnchorStep DEF AuditNext
<1>2. CASE UNCHANGED auditVars
  <2>1. run' = run /\ world' = world /\ pinned' = pinned /\ anchored' = anchored
    BY <1>2, Zenon DEF auditVars
  <2>2. QED
    BY <2>1, Zenon DEF AuditInv, RunShape, RunTyped, SourceInv, Nothing, Reported, Doc, Tries
<1>3. QED
  BY <1>1, <1>2

(* What the report of a run says of the model's reply.                     *)
LEMMA DocFacts ==
    ASSUME RunTyped,
           run.tier = 2 <=> run.source # Absent,
           run.reply # Absent <=> run.source # Absent,
           NEW body, body = Doc,
           NEW corpus, corpus = RunCorpus,
           NEW parsed,
           parsed = IF run.reply = Absent THEN <<>> ELSE ParseFindings(run.reply)
    PROVE  /\ Len(body.each) = Len(parsed)
           /\ Len(body.findings) = Len(parsed) + Len(run.tier1)
           /\ \A f \in ToSet(run.tier1) : f \in ToSet(body.findings)
           /\ \A j \in DOMAIN parsed : \E g \in ToSet(body.findings) :
                 Became(parsed[j], g, body.each[j], corpus)
           /\ body.masked = Total(body.each)
           /\ body.drops = Cardinality({j \in DOMAIN body.each : body.each[j] > 0})
           /\ body.tier = run.tier
           /\ body.skipped = (run.tier = 2 /\ ~(run.tier = 2 /\ run.reply # Absent))
           /\ body.metrics = NormalizeNumbers(world.metrics)
           /\ \A f \in ToSet(body.findings) :
                 RankIn(Severities, body.severity)
                     <= RankIn(Severities, f.severity)
<1>1. PICK guard : guard = GuardOf(run.tier, run.source, run.code, run.tier1, run.reply)
  OBVIOUS
<1>2. PICK all : all = Sorted(run.tier1 \o guard.findings)
  OBVIOUS
<1>3. PICK skipped : skipped = (run.tier = 2 /\ ~(run.tier = 2 /\ run.reply # Absent))
  OBVIOUS
<1>4. body = [tier |-> run.tier, findings |-> all, severity |-> Worst(all),
              masked |-> guard.maskedCount, drops |-> guard.labelDrops,
              each |-> guard.perFinding,
              skipped |-> skipped,
              metrics |-> NormalizeNumbers(world.metrics)]
  BY <1>1, <1>2, <1>3, Zenon DEF Doc, DocOf, FoundOf
<1>5. /\ body.tier = run.tier /\ body.findings = all /\ body.severity = Worst(all)
      /\ body.masked = guard.maskedCount /\ body.drops = guard.labelDrops
      /\ body.each = guard.perFinding
      /\ body.skipped = skipped
      /\ body.metrics = NormalizeNumbers(world.metrics)
  BY <1>4
<1>6. parsed \in Seq(Findings)
  <2>1. CASE run.reply = Absent
    BY <2>1
  <2>2. CASE run.reply # Absent
    <3>1. run.reply \in Replies
      BY <2>2 DEF RunTyped
    <3>2. run.reply.kind = "array" => run.reply.items \in Seq(Elements)
      BY PipelineAssumption, <3>1, Zenon
    <3>3. QED
      BY <2>2, <3>2, ParseFacts
  <2>3. QED
    BY <2>1, <2>2
<1>7. Accounts(guard, parsed, corpus)
  <2>1. CASE run.reply = Absent
    <3>1. guard = Unguarded /\ parsed = <<>>
      BY <2>1, <1>1, Zenon DEF GuardOf
    <3>2. QED
      BY <3>1, <1>6, GuardAccounts
  <2>2. CASE run.reply # Absent
    <3>1. guard = ApplyGuard(parsed, corpus)
      BY <2>2, <1>1, Zenon DEF GuardOf, RunCorpus
    <3>2. QED
      BY <3>1, <1>6, GuardAccounts
  <2>3. QED
    BY <2>1, <2>2
<1>8. run.tier1 \in Seq(Findings)
  BY DEF RunTyped
<1>9. /\ Len(all) = Len(parsed) + Len(run.tier1)
      /\ Len(guard.perFinding) = Len(parsed)
      /\ \A f \in ToSet(run.tier1) : f \in ToSet(all)
      /\ \A j \in DOMAIN parsed : guard.findings[j] \in ToSet(all)
      /\ \A f \in ToSet(all) :
            RankIn(Severities, Worst(all))
                <= RankIn(Severities, f.severity)
  <2>1. AllReported(all, run.tier1, parsed, guard)
    BY <1>2, <1>6, <1>7, <1>8, ReportFindings
  <2>2. QED
    BY <2>1, Zenon DEF AllReported
<1>10. \A j \in DOMAIN parsed : \E g \in ToSet(all) :
          Became(parsed[j], g, guard.perFinding[j], corpus)
  BY <1>7, <1>9, Zenon DEF Accounts
<1>11. /\ guard.maskedCount = Total(guard.perFinding)
       /\ guard.labelDrops
            = Cardinality({j \in DOMAIN guard.perFinding : guard.perFinding[j] > 0})
  BY <1>7, Zenon DEF Accounts
<1>12. /\ ToSet(run.tier1) = ToSet(run.tier1)
       /\ ToSet(body.findings) = ToSet(all)
  BY <1>5, Zenon
<1>13. /\ \A f \in ToSet(run.tier1) : f \in ToSet(body.findings)
       /\ \A j \in DOMAIN parsed : \E g \in ToSet(body.findings) :
             Became(parsed[j], g, body.each[j], corpus)
       /\ \A f \in ToSet(body.findings) :
             RankIn(Severities, body.severity)
                 <= RankIn(Severities, f.severity)
  BY <1>5, <1>9, <1>10, <1>12, Zenon
<1>14. /\ Len(body.each) = Len(parsed)
       /\ Len(body.findings) = Len(parsed) + Len(run.tier1)
       /\ body.masked = Total(body.each)
       /\ body.drops = Cardinality({j \in DOMAIN body.each : body.each[j] > 0})
  BY <1>5, <1>9, <1>11, Zenon
<1>15. QED
  BY <1>5, <1>13, <1>14, <1>3, Zenon

(* What is pinned is the report of the run.                                *)
LEMMA PinnedIsReport ==
    ASSUME AuditInv, NEW i \in DOMAIN pinned
    PROVE  /\ Reported /\ i = 1 /\ pinned = <<run.report>>
           /\ pinned[i].body = Doc /\ pinned[i].root = Doc
<1>1. Reported
  BY DEF AuditInv, Nothing
<1>2. pinned = <<run.report>>
  BY <1>1 DEF Reported
<1>3. i = 1
  BY <1>2
<1>4. PICK doc : doc = Doc
  OBVIOUS
<1>5. run.report = [body |-> doc, root |-> doc]
  BY <1>1, <1>4, Zenon DEF Reported
<1>6. pinned[i] = run.report
  BY <1>2, <1>3
<1>7. pinned[i].body = doc /\ pinned[i].root = doc
  BY <1>5, <1>6
<1>8. QED
  BY <1>1, <1>2, <1>3, <1>4, <1>7

(* The invariant gives the guard's account of the model's reply.           *)
LEMMA InvGuardAccounted ==
    ASSUME AuditInv
    PROVE  GuardAccounted
<1> SUFFICES ASSUME NEW i \in DOMAIN pinned, NEW corpus \in {RunCorpus},
                    NEW parsed \in {IF run.reply = Absent THEN <<>>
                                    ELSE ParseFindings(run.reply)},
                    NEW body, body = pinned[i].body
             PROVE  /\ Len(body.each) = Len(parsed)
                    /\ Len(body.findings) = Len(parsed) + Len(run.tier1)
                    /\ \A f \in ToSet(run.tier1) : f \in ToSet(body.findings)
                    /\ \A j \in DOMAIN parsed : \E g \in ToSet(body.findings) :
                          Became(parsed[j], g, body.each[j], corpus)
                    /\ body.masked = FoldLeft(+, 0, body.each)
                    /\ body.drops
                         = Cardinality({j \in DOMAIN body.each : body.each[j] > 0})
  BY Zenon DEF GuardAccounted
<1>1. body = Doc /\ Reported
  BY PinnedIsReport
<1>2. RunTyped /\ (run.tier = 2 <=> run.source # Absent) /\ (run.reply # Absent <=> run.source # Absent)
  BY <1>1 DEF AuditInv, Reported
<1>3. /\ corpus = RunCorpus
      /\ parsed = IF run.reply = Absent THEN <<>> ELSE ParseFindings(run.reply)
  OBVIOUS
<1>4. /\ Len(body.each) = Len(parsed)
      /\ Len(body.findings) = Len(parsed) + Len(run.tier1)
      /\ \A f \in ToSet(run.tier1) : f \in ToSet(body.findings)
      /\ \A j \in DOMAIN parsed : \E g \in ToSet(body.findings) :
            Became(parsed[j], g, body.each[j], corpus)
      /\ body.masked = Total(body.each)
      /\ body.drops = Cardinality({j \in DOMAIN body.each : body.each[j] > 0})
  BY <1>1, <1>2, <1>3, DocFacts
<1>5. QED
  BY <1>4, Zenon DEF Total

(* The invariant gives the tier and whose source it was.                   *)
LEMMA InvTierIsHonest ==
    ASSUME AuditInv
    PROVE  TierIsHonest
<1> SUFFICES ASSUME NEW i \in DOMAIN pinned, NEW body, body = pinned[i].body
             PROVE  /\ (body.tier = 2) = (run.source # Absent /\ run.reply # Absent)
                    /\ ~body.skipped
                    /\ run.caller = "route" /\ body.tier = 2 =>
                          run.source = Target \/ (run.source = Impl /\ world.listing = "proxy")
  BY Zenon DEF TierIsHonest
<1>1. body = Doc /\ Reported
  BY PinnedIsReport
<1>2. /\ RunTyped /\ SourceInv
      /\ run.tier = 2 <=> run.source # Absent
      /\ run.reply # Absent <=> run.source # Absent
  BY <1>1 DEF AuditInv, Reported
<1>3. /\ body.tier = run.tier
      /\ body.skipped = (run.tier = 2 /\ ~(run.tier = 2 /\ run.reply # Absent))
  <2>1. PICK corpus, parsed :
           /\ corpus = RunCorpus
           /\ parsed = IF run.reply = Absent THEN <<>> ELSE ParseFindings(run.reply)
    OBVIOUS
  <2>2. QED
    BY <2>1, <1>1, <1>2, DocFacts
<1>4. QED
  BY <1>2, <1>3 DEF SourceInv

(* The invariant gives the types.                                          *)
LEMMA InvTypes ==
    ASSUME AuditInv
    PROVE  AuditTypeOK
<1>1. run.cid \in {Absent} \cup DOMAIN pinned /\ Len(anchored) <= 1
  <2>1. CASE Nothing
    BY <2>1 DEF Nothing
  <2>2. CASE Reported
    <3>1. \/ run.cid = Absent
          \/ run.cid = 1 /\ pinned = <<run.report>>
      BY <2>2 DEF Reported
    <3>2. \A x : 1 \in DOMAIN <<x>> /\ Len(<<x>>) <= 1 /\ Len(<<>>) <= 1
      OBVIOUS
    <3>3. anchored = <<>> \/ \E x : anchored = <<x>>
      BY <2>2, Zenon DEF Reported
    <3>4. QED
      BY <3>1, <3>2, <3>3
  <2>3. QED
    BY <2>1, <2>2 DEF AuditInv
<1>2. QED
  BY <1>1 DEF AuditInv, RunTyped, AuditTypeOK

(* Any reader gets the report back that was pinned.                        *)
LEMMA FetchedIsDoc ==
    ASSUME NEW body, body = Doc,
           NEW doc, doc = [body |-> body, root |-> body],
           NEW fetched \in Fetched(doc)
    PROVE  fetched = doc
<1>1. PICK tier, findings, severity, masked, drops, each, skipped, metrics :
        /\ body = [tier |-> tier, findings |-> findings, severity |-> severity,
                   masked |-> masked, drops |-> drops, each |-> each, skipped |-> skipped,
                   metrics |-> metrics]
        /\ metrics = NormalizeNumbers(world.metrics)
  BY Zenon DEF Doc, DocOf
<1>2. ReEncode(metrics) = metrics
  BY <1>1 DEF NormalizeNumbers, ReEncode
<1>3. [doc EXCEPT !.body.metrics = ReEncode(@)] = doc
  <2>1. doc.body = body /\ body.metrics = metrics
    BY <1>1
  <2>2. [doc EXCEPT !.body.metrics = ReEncode(@)]
          = [doc EXCEPT !.body = [doc.body EXCEPT !.metrics = ReEncode(doc.body.metrics)]]
    OBVIOUS
  <2>3. [body EXCEPT !.metrics = metrics] = body
    BY <1>1
  <2>4. [doc EXCEPT !.body = body] = doc
    OBVIOUS
  <2>5. QED
    BY <2>1, <2>2, <2>3, <2>4, <1>2, Zenon
<1>4. QED
  BY <1>3, Zenon DEF Fetched

(* The invariant gives that the anchored report can be read.               *)
LEMMA InvAnchoredIsReadable ==
    ASSUME AuditInv
    PROVE  AnchoredIsReadable
<1>1. run.report # <<>> <=> Reported
  <2>1. CASE Nothing
    <3>1. run.report = <<>>
      BY <2>1 DEF Nothing
    <3>2. [body |-> Doc, root |-> Doc] # <<>>
      <4>1. PICK doc : doc = Doc
        OBVIOUS
      <4>2. "body" \in DOMAIN [body |-> doc, root |-> doc] /\ "body" \notin DOMAIN <<>>
        OBVIOUS
      <4>3. QED
        BY <4>1, <4>2, Zenon
    <3>3. QED
      BY <3>1, <3>2, Zenon DEF Reported
  <2>2. CASE Reported
    <3>1. [body |-> Doc, root |-> Doc] # <<>>
      <4>1. PICK doc : doc = Doc
        OBVIOUS
      <4>2. "body" \in DOMAIN [body |-> doc, root |-> doc] /\ "body" \notin DOMAIN <<>>
        OBVIOUS
      <4>3. QED
        BY <4>1, <4>2, Zenon
    <3>2. QED
      BY <2>2, <3>1, Zenon DEF Reported
  <2>3. QED
    BY <2>1, <2>2 DEF AuditInv
<1>2. /\ run.pc = "done" => ExitCode = 0 /\ anchored # <<>>
      /\ run.pc = "failed" /\ ExitCode = 1 => pinned = <<>> /\ anchored = <<>>
  <2>1. run.pc = "done" => anchored # <<>>
    <3>1. \A x : <<x>> # <<>>
      OBVIOUS
    <3>2. SUFFICES ASSUME run.pc = "done" PROVE anchored # <<>>
      OBVIOUS
    <3>3. Reported
      BY <3>2 DEF AuditInv, Nothing
    <3>4. \E x : anchored = <<x>>
      BY <3>2, <3>3 DEF Reported
    <3>5. QED
      BY <3>1, <3>4
  <2>2. SUFFICES ASSUME run.pc = "failed", ExitCode = 1
                 PROVE  pinned = <<>> /\ anchored = <<>>
    BY <2>1 DEF ExitCode
  <2>3. run.report = <<>>
    BY <2>2 DEF ExitCode
  <2>4. Nothing
    BY <2>3, <1>1 DEF AuditInv
  <2>5. QED
    BY <2>4 DEF Nothing
<1>3. ASSUME NEW i \in DOMAIN anchored, NEW a, a = anchored[i]
      PROVE  /\ a.cid \in DOMAIN pinned
             /\ \A doc \in Fetched(pinned[a.cid]) :
                  /\ doc.body = a.root
                  /\ doc.root = a.root
                  /\ a.tier = doc.body.tier
                  /\ \A f \in ToSet(doc.body.findings) :
                       RankIn(Severities, a.severity)
                         <= RankIn(Severities, f.severity)
  <2>1. PICK body : body = Doc
    OBVIOUS
  <2>2. Reported
    <3>1. DOMAIN <<>> = {}
      OBVIOUS
    <3>2. ~Nothing
      BY <3>1 DEF Nothing
    <3>3. QED
      BY <3>2 DEF AuditInv
  <2>3. /\ run.report = [body |-> body, root |-> body]
        /\ run.tier = 2 <=> run.source # Absent
        /\ run.reply # Absent <=> run.source # Absent
    BY <2>1, <2>2, Zenon DEF Reported
  <2>4. /\ pinned = <<run.report>>
        /\ anchored = <<[root |-> body, cid |-> 1, severity |-> body.severity, tier |-> run.tier]>>
    <3>1. DOMAIN <<>> = {}
      OBVIOUS
    <3>2. anchored # <<>>
      BY <3>1
    <3>3. QED
      BY <2>1, <2>2, <3>2, Zenon DEF Reported
  <2>5. PICK doc, event, severity :
           /\ doc = [body |-> body, root |-> body]
           /\ severity = body.severity
           /\ event = [root |-> body, cid |-> 1, severity |-> severity, tier |-> run.tier]
    OBVIOUS
  <2>6. pinned = <<doc>> /\ anchored = <<event>>
    BY <2>3, <2>4, <2>5, Zenon
  <2>7. i = 1 /\ a = event /\ a.cid \in DOMAIN pinned /\ pinned[a.cid] = doc
    <3>1. i = 1 /\ a = event
      BY <1>3, <2>6
    <3>2. a.cid = 1
      BY <3>1, <2>5
    <3>3. QED
      BY <3>1, <3>2, <2>6
  <2>8. a.root = body /\ a.severity = body.severity /\ a.tier = run.tier
    BY <2>5, <2>7
  <2>9. doc.body = body /\ doc.root = body
    BY <2>5
  <2>10. /\ body.tier = run.tier
         /\ \A f \in ToSet(body.findings) :
               RankIn(Severities, body.severity)
                  <= RankIn(Severities, f.severity)
    <3>1. PICK corpus, parsed :
             /\ corpus = RunCorpus
             /\ parsed = IF run.reply = Absent THEN <<>> ELSE ParseFindings(run.reply)
      OBVIOUS
    <3>2. RunTyped
      BY DEF AuditInv
    <3>3. QED
      BY <2>1, <2>3, <3>1, <3>2, DocFacts
  <2>11. \A fetched \in Fetched(doc) : fetched = doc
    BY <2>1, <2>5, FetchedIsDoc
  <2>12. QED
    BY <2>7, <2>8, <2>9, <2>10, <2>11, Zenon
<1>4. QED
  BY <1>2, <1>3, Zenon DEF AnchoredIsReadable

(* The invariant holds throughout an audit.                                *)
LEMMA AuditInvariant == AuditSpec => []AuditInv
<1>1. AuditInit => AuditInv
  BY InvBegins
<1>2. AuditInv /\ [AuditNext]_(auditVars) => AuditInv'
  BY InvStays
<1>3. QED
  BY <1>1, <1>2, PTL DEF AuditSpec

(* run_audit and the scripts of run_pipeline stay within the states that   *)
(* the code means them to have.                                            *)
THEOREM AuditTypesRight == AuditSpec => []AuditTypeOK
BY AuditInvariant, InvTypes, PTL

(* An anchored root is that of a document on IPFS at the anchored CID, and *)
(* whoever fetches the document, printed again or not, gets that root and  *)
(* that tier, and a severity no finding exceeds; a script's exit code says *)
(* what there is.                                                          *)
THEOREM AnchorsReadable == AuditSpec => []AnchoredIsReadable
BY AuditInvariant, InvAnchoredIsReadable, PTL

(* Whatever the model answers and whatever source, bytecode and checks the *)
(* audit has, the pinned report has every finding of the reply: in text    *)
(* and fix the unsupported claims masked and the kept ones grounded or     *)
(* shielded, the label lowered exactly where something was masked, the     *)
(* evidence unguarded as the model wrote it, the right counts, and every   *)
(* Tier 1 finding as the checks wrote it.                                  *)
THEOREM RepliesAccountedFor == AuditSpec => []GuardAccounted
BY AuditInvariant, InvGuardAccounted, PTL

(* A report says Tier 2 exactly if the model answered on a source, and the *)
(* paid route reasons about the source of the target or its                *)
(* implementation.                                                         *)
THEOREM TiersHonest == AuditSpec => []TierIsHonest
BY AuditInvariant, InvTierIsHonest, PTL
=============================================================================
