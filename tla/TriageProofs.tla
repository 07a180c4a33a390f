---------------------------- MODULE TriageProofs ----------------------------
(***************************************************************************)
(* Theorems about Triage, for any contracts, refreshers, windows, chunk    *)
(* sizes and bounds: however walks, saves and new blocks interleave, both  *)
(* snapshots tell the truth and miss nothing of their last walk.           *)
(***************************************************************************)
EXTENDS Triage, SequenceTheorems, FiniteSetTheorems, WellFoundedInduction, TLAPS

(***************************************************************************)
(* The inductive invariant.                                                *)
(***************************************************************************)

ChainInv ==
    /\ height \in Blocks
    /\ audits \in Seq(Event)
    /\ created \in [Contracts -> Blocks]
    /\ \A i \in DOMAIN audits : 0 < audits[i].block /\ audits[i].block <= height
    /\ \A t \in Contracts : created[t] <= height
    /\ IsFiniteSet({t \in Contracts : created[t] > 0})
    /\ faults \in 0 .. MaxFaults

(* What is true of a row of the cache that was made by a walk up to `last`. *)
CacheRowTrue(r, last) ==
    /\ r \in CacheRow
    /\ r.event \in DOMAIN audits
    /\ audits[r.event].target = r.target
    /\ r.block = audits[r.event].block /\ r.block <= last
    /\ Ordinal(r.event) <= r.root
    /\ r.root <= r.count
    /\ r.count <= Count(r.target)
CacheRowsTrue(rows, last) ==
    /\ \A r \in rows : CacheRowTrue(r, last)
    /\ \A r, s \in rows : r.target = s.target => r = s

(* No audit in from .. to is of a target outside `targets`. *)
Covers(targets, from, to) ==
    \A i \in DOMAIN audits :
        from <= audits[i].block /\ audits[i].block <= to => audits[i].target \in targets

(* An event that a walk up to `to` still has to read the head for. *)
Entry == [target : Contracts, event : Nat]
EntryTrue(e, to) ==
    /\ e \in Entry
    /\ e.event \in DOMAIN audits
    /\ audits[e.event].target = e.target
    /\ audits[e.event].block <= to

TargetsOf(rows) == {r.target : r \in rows}

(* A cache walk between its log calls and its save. *)
WalkInv(w, j) ==
    /\ j.to \in Blocks /\ j.to <= height
    /\ \A e \in j.todo : EntryTrue(e, j.to)
    /\ \A e, f \in j.todo : e.target = f.target => e = f
    /\ CacheRowsTrue(j.rows, j.to)
    /\ \A e \in j.todo, r \in j.rows : e.target # r.target
    /\ j.dropped \subseteq Contracts
    /\ Covers(TargetsOf(j.todo) \cup TargetsOf(j.rows) \cup j.dropped,
              From(j.to, WindowOf[w]), j.to)
    /\ j.pc = "count" =>
         /\ j.target \in j.todo
         /\ j.root \in Nat
         /\ Ordinal(j.target.event) <= j.root
         /\ j.root <= Count(j.target.target)

FeedRowTrue(r) ==
    /\ r \in FeedRow
    /\ r.block = created[r.address] /\ r.block > 0
    /\ r.class = "audited" => Count(r.address) > 0
    /\ r.class = "skipped:template" => r.address \in Templates
    /\ r.class = "queued" => r.address \notin Templates
    /\ r.class \in {"queued", "skipped:template"} => r.address \notin Reverted
FeedRowsTrue(rows) ==
    /\ IsFiniteSet(rows)
    /\ \A r \in rows : FeedRowTrue(r)
    /\ \A r, s \in rows : r.address = s.address => r = s

(* A contract created at block b has its row unless MaxRows others do that *)
(* are no older.                                                           *)
Shown(t, b, rows) ==
    \/ \E r \in rows : r.address = t
    \/ Cardinality(rows) = MaxRows /\ \A r \in rows : r.block >= b
FeedCovers(rows, from, to) ==
    \A t \in Contracts :
        created[t] > 0 /\ from <= created[t] /\ created[t] <= to => Shown(t, created[t], rows)

(* A feed walk between its last look at the chain and its save. *)
DeployInv(w, j) ==
    /\ j.to \in Blocks /\ j.to <= height
    /\ FeedRowsTrue(j.rows)
    /\ j.pc = "merge" =>
         \A t \in CreatedIn(From(j.to, FeedWindowOf[w]), j.to) : \E r \in j.rows : r.address = t
    /\ j.pc = "save" =>
         /\ Cardinality(j.rows) <= MaxRows
         /\ FeedCovers(j.rows, From(j.to, FeedWindowOf[w]), j.to)

PCs == {"idle", "heads", "count", "feed", "merge", "save", "over"}
JobInv(w, j) ==
    /\ j.pc \in PCs
    /\ j = [pc |-> j.pc, to |-> j.to, todo |-> j.todo, target |-> j.target,
            root |-> j.root, rows |-> j.rows, dropped |-> j.dropped]
    /\ j.pc \in {"heads", "count"} => WalkInv(w, j)
    /\ j.pc \in {"merge", "save"} => DeployInv(w, j)
JobsInv ==
    /\ DOMAIN job = Refreshers /\ job = [w \in Refreshers |-> job[w]]
    /\ \A w \in Refreshers : JobInv(w, job[w])

CacheInv ==
    /\ cache.last \in Blocks /\ cache.last <= height
    /\ CacheRowsTrue(cache.rows, cache.last)
    /\ cache.dropped \subseteq Contracts
    /\ \E w \in Refreshers :
         Covers(TargetsOf(cache.rows) \cup cache.dropped,
                From(cache.last, WindowOf[w]), cache.last)

FeedInv ==
    /\ feed.last \in Blocks /\ feed.last <= height
    /\ FeedRowsTrue(feed.rows) /\ Cardinality(feed.rows) <= MaxRows
    /\ \E w \in Refreshers :
         FeedCovers(feed.rows, From(feed.last, FeedWindowOf[w]), feed.last)

TriageInv == ChainInv /\ JobsInv /\ CacheInv /\ FeedInv

-------------------------------------------------------------------------------
(***************************************************************************)
(* Numbers and finite sets.                                                *)
(***************************************************************************)

(* A set of naturals has a least member. *)
LEMMA LeastMember ==
    ASSUME NEW S \in SUBSET Nat, S # {}
    PROVE  \E x \in S : \A y \in S : x <= y
<1>. DEFINE T == {0 .. x : x \in S}
<1>1. T \subseteq FiniteSubsetsOf(Nat) /\ T # {}
  <2>1. ASSUME NEW x \in S PROVE 0 .. x \in FiniteSubsetsOf(Nat)
    <3>1. x \in Int /\ 0 .. x \subseteq Nat
      OBVIOUS
    <3>2. IsFiniteSet(0 .. x)
      BY <3>1, FS_Interval
    <3>. QED
      BY <3>1, <3>2 DEF FiniteSubsetsOf
  <2>. QED
    BY <2>1
<1>2. PICK t \in T : \A u \in T : ~ (<<u, t>> \in StrictSubsetOrdering(Nat))
  BY <1>1, FS_StrictSubsetOrderingWellFounded, WFMin
<1>3. PICK x \in S : t = 0 .. x
  BY <1>2
<1>4. ASSUME NEW y \in S PROVE x <= y
  <2>1. CASE y < x
    <3>1. 0 .. y \subseteq 0 .. x /\ x \in 0 .. x /\ x \notin 0 .. y
      BY <2>1
    <3>2. <<0 .. y, t>> \in StrictSubsetOrdering(Nat)
      BY <1>3, <3>1 DEF StrictSubsetOrdering
    <3>. QED
      BY <1>2, <3>2
  <2>. QED
    BY <2>1
<1>. QED
  BY <1>4

(* A bounded measure has a greatest value. *)
LEMMA GreatestMember ==
    ASSUME NEW S, S # {}, NEW f, NEW N \in Nat, \A x \in S : f[x] \in 0 .. N
    PROVE  \E x \in S : \A y \in S : f[y] <= f[x]
<1>. DEFINE D == {N - f[x] : x \in S}
<1>1. D \in SUBSET Nat /\ D # {}
  OBVIOUS
<1>2. PICK d \in D : \A e \in D : d <= e
  BY <1>1, LeastMember
<1>3. PICK x \in S : d = N - f[x]
  BY <1>2
<1>4. ASSUME NEW y \in S PROVE f[y] <= f[x]
  <2>1. d <= N - f[y]
    BY <1>2
  <2>. QED
    BY <2>1, <1>3
<1>. QED
  BY <1>4

(* What the quotient of a division says. *)
LEMMA Quotient ==
    ASSUME NEW n \in Nat, NEW c \in Nat \ {0}
    PROVE  /\ n \div c \in Nat
           /\ (n \div c) * c <= n
           /\ n < (n \div c + 1) * c
  OBVIOUS

(* A larger number has no smaller quotient. *)
LEMMA QuotientGrows ==
    ASSUME NEW m \in Nat, NEW n \in Nat, n <= m, NEW c \in Nat \ {0}
    PROVE  n \div c <= m \div c
<1>. DEFINE p == n \div c
            q == m \div c
<1>1. p \in Nat /\ q \in Nat /\ p * c <= n /\ m < (q + 1) * c
  BY Quotient
<1>. HIDE DEF p, q
<1>2. CASE q + 1 <= p
  <2>1. PICK d \in Nat : p = (q + 1) + d
    <3>1. p - (q + 1) \in Nat /\ p = (q + 1) + (p - (q + 1))
      BY <1>1, <1>2
    <3>. QED
      BY <3>1
  <2>2. p * c = (q + 1) * c + d * c /\ d * c \in Nat /\ (q + 1) * c \in Nat
    BY <1>1, <2>1
  <2>. QED
    BY <1>1, <2>2
<1>3. CASE p <= q
  BY <1>3 DEF p, q
<1>. QED
  BY <1>1, <1>2, <1>3

-------------------------------------------------------------------------------
(***************************************************************************)
(* The chain only grows.                                                   *)
(***************************************************************************)

(* What a step does to the chain: events stay, new ones and creations are  *)
(* in a block above the old height.                                        *)
ChainGrows ==
    /\ height' \in Blocks /\ height <= height'
    /\ audits' \in Seq(Event)
    /\ \A i \in DOMAIN audits : i \in DOMAIN audits' /\ audits'[i] = audits[i]
    /\ \A i \in DOMAIN audits' \ DOMAIN audits :
         /\ Len(audits) < i
         /\ height < audits'[i].block /\ audits'[i].block <= height'
    /\ created' \in [Contracts -> Blocks]
    /\ \A t \in Contracts :
         \/ created'[t] = created[t]
         \/ created[t] = 0 /\ height < created'[t] /\ created'[t] <= height'

(* Events are numbered from one, and there are finitely many of a target.  *)
LEMMA EventFacts ==
    ASSUME audits \in Seq(Event), NEW t
    PROVE  /\ Len(audits) \in Nat /\ DOMAIN audits = 1 .. Len(audits)
           /\ \A i \in DOMAIN audits : audits[i] \in Event
           /\ IsFiniteSet(EventsOf(t))
           /\ Count(t) \in Nat
<1>1. Len(audits) \in Nat /\ DOMAIN audits = 1 .. Len(audits)
  OBVIOUS
<1>2. \A i \in DOMAIN audits : audits[i] \in Event
  OBVIOUS
<1>3. IsFiniteSet(1 .. Len(audits))
  BY <1>1, FS_Interval
<1>4. EventsOf(t) \in SUBSET (1 .. Len(audits))
  BY <1>1 DEF EventsOf
<1>5. IsFiniteSet(EventsOf(t))
  BY <1>3, <1>4, FS_Subset
<1>. QED
  BY <1>1, <1>2, <1>5, FS_CardinalityType DEF Count

(* An event's number is one of those of its target.                        *)
LEMMA OrdinalBounded ==
    ASSUME audits \in Seq(Event), NEW i \in DOMAIN audits
    PROVE  /\ Ordinal(i) \in Nat
           /\ Ordinal(i) <= Count(audits[i].target)
           /\ Count(audits[i].target) > 0
<1>. DEFINE t == audits[i].target
            early == {j \in EventsOf(t) : j <= i}
<1>1. IsFiniteSet(EventsOf(t)) /\ Count(t) \in Nat
  BY EventFacts
<1>2. early \in SUBSET EventsOf(t)
  OBVIOUS
<1>3. /\ IsFiniteSet(early)
      /\ Cardinality(early) <= Cardinality(EventsOf(t))
  BY <1>1, <1>2, FS_Subset
<1>4. Cardinality(early) \in Nat
  BY <1>3, FS_CardinalityType
<1>5. i \in EventsOf(t)
  BY DEF EventsOf
<1>6. Cardinality(EventsOf(t)) # 0
  BY <1>1, <1>5, FS_EmptySet
<1>. QED
  BY <1>1, <1>3, <1>4, <1>6 DEF Ordinal, Count

(* A target's audits become no fewer, and an event keeps its number.       *)
LEMMA CountsGrow ==
    ASSUME audits \in Seq(Event), ChainGrows
    PROVE  /\ \A t : Count(t) \in Nat /\ Count(t)' \in Nat /\ Count(t) <= Count(t)'
           /\ \A i \in DOMAIN audits : Ordinal(i)' = Ordinal(i)
<1>0. audits' \in Seq(Event)
  BY DEF ChainGrows
<1>1. /\ Len(audits) \in Nat /\ DOMAIN audits = 1 .. Len(audits)
      /\ Len(audits') \in Nat /\ DOMAIN audits' = 1 .. Len(audits')
  BY <1>0
<1>2. ASSUME NEW t
      PROVE  Count(t) \in Nat /\ Count(t)' \in Nat /\ Count(t) <= Count(t)'
  <2>1. IsFiniteSet(1 .. Len(audits'))
    BY <1>1, FS_Interval
  <2>2. EventsOf(t)' \in SUBSET (1 .. Len(audits'))
    BY <1>1 DEF EventsOf
  <2>3. IsFiniteSet(EventsOf(t)')
    BY <2>1, <2>2, FS_Subset
  <2>4. EventsOf(t) \in SUBSET (EventsOf(t)')
    BY DEF EventsOf, ChainGrows
  <2>5. /\ IsFiniteSet(EventsOf(t))
        /\ Cardinality(EventsOf(t)) <= Cardinality(EventsOf(t)')
    BY <2>3, <2>4, FS_Subset
  <2>6. Cardinality(EventsOf(t)) \in Nat /\ Cardinality(EventsOf(t)') \in Nat
    BY <2>3, <2>5, FS_CardinalityType
  <2>. QED
    BY <2>5, <2>6 DEF Count
<1>3. ASSUME NEW i \in DOMAIN audits
      PROVE  Ordinal(i)' = Ordinal(i)
  <2>1. /\ i \in DOMAIN audits' /\ audits'[i] = audits[i]
        /\ \A j \in DOMAIN audits : j \in DOMAIN audits' /\ audits'[j] = audits[j]
        /\ \A j \in DOMAIN audits' \ DOMAIN audits : Len(audits) < j
    BY DEF ChainGrows
  <2>2. \A j \in DOMAIN audits' : j <= i => j \in DOMAIN audits
    BY <1>1, <2>1
  <2>3. {j \in {k \in DOMAIN audits' : audits'[k].target = audits'[i].target} : j <= i}
        = {j \in {k \in DOMAIN audits : audits[k].target = audits[i].target} : j <= i}
    BY <2>1, <2>2
  <2>. QED
    BY <2>3 DEF Ordinal, EventsOf
<1>. QED
  BY <1>2, <1>3

(* A true row of the cache stays true.                                     *)
LEMMA CacheRowKept ==
    ASSUME audits \in Seq(Event), ChainGrows, NEW r, NEW last, CacheRowTrue(r, last)
    PROVE  CacheRowTrue(r, last)'
<1>1. /\ r \in CacheRow /\ r.event \in DOMAIN audits
      /\ Ordinal(r.event) <= r.root /\ r.root <= r.count /\ r.count <= Count(r.target)
  BY DEF CacheRowTrue
<1>2. r.event \in DOMAIN audits' /\ audits'[r.event] = audits[r.event]
  BY <1>1 DEF ChainGrows
<1>3. Ordinal(r.event)' = Ordinal(r.event)
  BY <1>1, CountsGrow
<1>4. /\ Count(r.target) \in Nat /\ Count(r.target)' \in Nat
      /\ Count(r.target) <= Count(r.target)'
  BY CountsGrow
<1>5. r.count \in Nat
  BY <1>1 DEF CacheRow
<1>6. r.count <= Count(r.target)'
  BY <1>1, <1>4, <1>5
<1>. QED
  BY <1>1, <1>2, <1>3, <1>6 DEF CacheRowTrue

(* A true row of the feed stays true.                                      *)
LEMMA FeedRowKept ==
    ASSUME ChainInv, ChainGrows, NEW r, FeedRowTrue(r)
    PROVE  FeedRowTrue(r)'
<1>1. /\ r \in FeedRow /\ r.address \in Contracts /\ r.block \in Nat
      /\ r.block = created[r.address] /\ r.block > 0
  BY DEF FeedRowTrue, FeedRow, Blocks
<1>2. created'[r.address] = created[r.address]
  BY <1>1 DEF ChainGrows
<1>3. /\ Count(r.address) \in Nat /\ Count(r.address)' \in Nat
      /\ Count(r.address) <= Count(r.address)'
  BY CountsGrow DEF ChainInv
<1>4. r.class = "audited" => Count(r.address)' > 0
  BY <1>3 DEF FeedRowTrue
<1>. QED
  BY <1>1, <1>2, <1>4 DEF FeedRowTrue

(* New events are above the blocks that a walk covered.                    *)
LEMMA CoversKept ==
    ASSUME ChainInv, ChainGrows, NEW targets, NEW from, NEW to \in Nat, to <= height,
           Covers(targets, from, to)
    PROVE  Covers(targets, from, to)'
<1>1. ASSUME NEW i \in DOMAIN audits', from <= audits'[i].block, audits'[i].block <= to
      PROVE  audits'[i].target \in targets
  <2>1. height \in Nat /\ audits'[i].block \in Nat
    <3>1. audits' \in Seq(Event) /\ audits'[i] \in Event
      BY DEF ChainGrows
    <3>. QED
      BY <3>1 DEF ChainInv, Event, Blocks
  <2>2. i \in DOMAIN audits
    BY <1>1, <2>1 DEF ChainGrows
  <2>3. audits'[i] = audits[i]
    BY <2>2 DEF ChainGrows
  <2>. QED
    BY <1>1, <2>2, <2>3 DEF Covers
<1>. QED
  BY <1>1 DEF Covers

(* New contracts, too.                                                     *)
LEMMA CreationsKept ==
    ASSUME ChainInv, ChainGrows, NEW t \in Contracts, NEW to \in Nat, to <= height,
           created'[t] > 0, created'[t] <= to
    PROVE  created'[t] = created[t]
  BY DEF ChainInv, ChainGrows, Blocks

(* A block is added: nothing but the chain grows.                          *)
LEMMA NewBlockGrows ==
    ASSUME ChainInv, NEW submitted \in Seq(Contracts), NEW new \in SUBSET Contracts,
           NewBlock(submitted, new)
    PROVE  ChainInv' /\ ChainGrows /\ UNCHANGED <<cache, feed, job>>
<1>. DEFINE more == [i \in DOMAIN submitted |->
                        [target |-> submitted[i], block |-> height + 1]]
<1>1. /\ height \in Nat /\ MaxHeight \in Nat /\ height < MaxHeight /\ height' = height + 1
      /\ audits' = audits \o more
      /\ UNCHANGED <<cache, feed, job, faults>>
  BY TriageAssumption DEF NewBlock, ChainInv, Blocks
<1>2. height' \in Blocks
  BY <1>1 DEF Blocks
<1>3. /\ Len(submitted) \in Nat /\ DOMAIN submitted = 1 .. Len(submitted)
      /\ \A i \in DOMAIN submitted : submitted[i] \in Contracts
  OBVIOUS
<1>4. more \in Seq(Event)
  <2>1. \A i \in 1 .. Len(submitted) : [target |-> submitted[i], block |-> height + 1] \in Event
    BY <1>1, <1>2, <1>3 DEF Event
  <2>2. more \in [1 .. Len(submitted) -> Event]
    BY <1>3, <2>1
  <2>. QED
    BY <1>3, <2>2
<1>5. /\ Len(more) = Len(submitted)
      /\ \A i \in 1 .. Len(more) : more[i].block = height + 1
  BY <1>3
<1>. HIDE DEF more
<1>6. audits \in Seq(Event) /\ Len(audits) \in Nat /\ DOMAIN audits = 1 .. Len(audits)
  BY DEF ChainInv
<1>7. /\ audits' \in Seq(Event) /\ Len(audits') = Len(audits) + Len(more)
      /\ \A i \in 1 .. Len(audits) + Len(more) :
           audits'[i] = IF i <= Len(audits) THEN audits[i] ELSE more[i - Len(audits)]
  BY <1>1, <1>4, <1>6, ConcatProperties
<1>8. Len(more) \in Nat /\ DOMAIN audits' = 1 .. Len(audits) + Len(more)
  BY <1>4, <1>7
<1>9. \A i \in DOMAIN audits : i \in DOMAIN audits' /\ audits'[i] = audits[i]
  BY <1>6, <1>7, <1>8
<1>10. \A i \in DOMAIN audits' \ DOMAIN audits :
         Len(audits) < i /\ audits'[i].block = height + 1
  <2>1. ASSUME NEW i \in DOMAIN audits' \ DOMAIN audits
        PROVE  Len(audits) < i /\ audits'[i].block = height + 1
    <3>1. i \in Nat /\ Len(audits) < i /\ i - Len(audits) \in 1 .. Len(more)
      BY <1>6, <1>8
    <3>2. audits'[i] = more[i - Len(audits)]
      BY <1>6, <1>7, <1>8, <3>1
    <3>. QED
      BY <1>5, <3>1, <3>2
  <2>. QED
    BY <2>1
<1>11. \A i \in DOMAIN audits' : 0 < audits'[i].block /\ audits'[i].block <= height'
  <2>1. ASSUME NEW i \in DOMAIN audits'
        PROVE  0 < audits'[i].block /\ audits'[i].block <= height'
    <3>1. CASE i \in DOMAIN audits
      <4>1. 0 < audits[i].block /\ audits[i].block <= height /\ audits[i].block \in Nat
        <5>1. audits[i] \in Event
          BY <1>6, <3>1, EventFacts
        <5>2. audits[i].block \in Nat
          BY <5>1 DEF Event, Blocks
        <5>. QED
          BY <3>1, <5>2 DEF ChainInv
      <4>. QED
        BY <1>1, <1>9, <3>1, <4>1
    <3>2. CASE i \notin DOMAIN audits
      BY <1>1, <1>10, <3>2
    <3>. QED
      BY <3>1, <3>2
  <2>. QED
    BY <2>1
<1>12. /\ created \in [Contracts -> Blocks]
       /\ \A t \in Contracts : created[t] \in Nat /\ created[t] <= height
  BY DEF ChainInv, Blocks
<1>13. /\ created' \in [Contracts -> Blocks]
       /\ \A t \in Contracts : created'[t] = IF t \in new THEN height + 1 ELSE created[t]
  BY <1>1, <1>2, <1>12 DEF NewBlock
<1>14. \A t \in Contracts : created'[t] <= height'
  BY <1>1, <1>12, <1>13
<1>15. IsFiniteSet({t \in Contracts : created'[t] > 0})
  <2>1. {t \in Contracts : created'[t] > 0} \in SUBSET Contracts
    OBVIOUS
  <2>. QED
    BY <2>1, FS_Subset, TriageAssumption
<1>16. \A t \in Contracts :
          \/ created'[t] = created[t]
          \/ created[t] = 0 /\ height < created'[t] /\ created'[t] <= height'
  BY <1>1, <1>13 DEF NewBlock
<1>17. ChainGrows
  BY <1>1, <1>2, <1>7, <1>9, <1>10, <1>13, <1>16 DEF ChainGrows
<1>. QED
  BY <1>1, <1>2, <1>7, <1>11, <1>13, <1>14, <1>15, <1>17 DEF ChainInv

(* A step that leaves the chain alone.                                     *)
LEMMA ChainStays ==
    ASSUME ChainInv, UNCHANGED chainVars, faults' \in 0 .. MaxFaults
    PROVE  ChainInv' /\ ChainGrows
<1>1. height' = height /\ audits' = audits /\ created' = created
  BY DEF chainVars
<1>. QED
  BY <1>1 DEF ChainInv, ChainGrows, Blocks

-------------------------------------------------------------------------------
(***************************************************************************)
(* What a growing chain leaves true.                                       *)
(***************************************************************************)

(* Hence rows of the cache stay true of a growing chain,                   *)
LEMMA CacheRowsKept ==
    ASSUME ChainInv, ChainGrows, NEW rows, NEW last, CacheRowsTrue(rows, last)
    PROVE  CacheRowsTrue(rows, last)'
<1>1. ASSUME NEW r \in rows PROVE CacheRowTrue(r, last)'
  <2>1. audits \in Seq(Event) /\ CacheRowTrue(r, last)
    BY DEF ChainInv, CacheRowsTrue
  <2>. QED
    BY <2>1, CacheRowKept
<1>. QED
  BY <1>1 DEF CacheRowsTrue

(* and rows of the feed do,                                                *)
LEMMA FeedRowsKept ==
    ASSUME ChainInv, ChainGrows, NEW rows, FeedRowsTrue(rows)
    PROVE  FeedRowsTrue(rows)'
<1>1. ASSUME NEW r \in rows PROVE FeedRowTrue(r)'
  <2>1. FeedRowTrue(r)
    BY DEF FeedRowsTrue
  <2>. QED
    BY <2>1, FeedRowKept
<1>. QED
  BY <1>1 DEF FeedRowsTrue

(* and a feed goes on to show what it covers.                              *)
LEMMA FeedCoversKept ==
    ASSUME ChainInv, ChainGrows, NEW rows, NEW from, NEW to \in Nat, to <= height,
           FeedCovers(rows, from, to)
    PROVE  FeedCovers(rows, from, to)'
<1>1. ASSUME NEW t \in Contracts, created'[t] > 0, from <= created'[t], created'[t] <= to
      PROVE  Shown(t, created'[t], rows)
  <2>1. created'[t] = created[t]
    BY <1>1, CreationsKept
  <2>. QED
    BY <1>1, <2>1 DEF FeedCovers
<1>. QED
  BY <1>1 DEF FeedCovers, Shown

(* A walk of the cache under way stays true,                               *)
LEMMA WalkKept ==
    ASSUME ChainInv, ChainGrows, NEW w, NEW j, WalkInv(w, j)
    PROVE  WalkInv(w, j)'
<1>1. /\ height \in Nat /\ height' \in Nat /\ height <= height'
      /\ j.to \in Blocks /\ j.to \in Nat /\ j.to <= height
  BY DEF ChainInv, ChainGrows, WalkInv, Blocks
<1>2. j.to <= height'
  BY <1>1
<1>3. ASSUME NEW e \in j.todo PROVE EntryTrue(e, j.to)'
  BY DEF WalkInv, EntryTrue, ChainGrows
<1>4. CacheRowsTrue(j.rows, j.to)'
  BY CacheRowsKept DEF WalkInv
<1>5. Covers(TargetsOf(j.todo) \cup TargetsOf(j.rows) \cup j.dropped,
             From(j.to, WindowOf[w]), j.to)'
  BY <1>1, CoversKept DEF WalkInv
<1>6. ASSUME j.pc = "count"
      PROVE  /\ j.target \in j.todo /\ j.root \in Nat
             /\ Ordinal(j.target.event)' <= j.root
             /\ j.root <= Count(j.target.target)'
  <2>1. /\ j.target \in j.todo /\ j.root \in Nat
        /\ Ordinal(j.target.event) <= j.root /\ j.root <= Count(j.target.target)
    BY <1>6 DEF WalkInv
  <2>2. j.target.event \in DOMAIN audits /\ audits \in Seq(Event)
    BY <2>1 DEF WalkInv, EntryTrue, ChainInv
  <2>3. /\ Count(j.target.target) \in Nat /\ Count(j.target.target)' \in Nat
        /\ Count(j.target.target) <= Count(j.target.target)'
        /\ Ordinal(j.target.event)' = Ordinal(j.target.event)
    BY <2>2, CountsGrow
  <2>. QED
    BY <2>1, <2>3
<1>. QED
  BY <1>1, <1>2, <1>3, <1>4, <1>5, <1>6 DEF WalkInv

(* and a walk of the feed does,                                            *)
LEMMA DeployKept ==
    ASSUME ChainInv, ChainGrows, NEW w, NEW j, DeployInv(w, j)
    PROVE  DeployInv(w, j)'
<1>1. /\ height \in Nat /\ height' \in Nat /\ height <= height'
      /\ j.to \in Blocks /\ j.to \in Nat /\ j.to <= height
  BY DEF ChainInv, ChainGrows, DeployInv, Blocks
<1>2. j.to <= height'
  BY <1>1
<1>3. FeedRowsTrue(j.rows)'
  BY FeedRowsKept DEF DeployInv
<1>4. ASSUME j.pc = "merge", NEW t \in CreatedIn(From(j.to, FeedWindowOf[w]), j.to)'
      PROVE  \E r \in j.rows : r.address = t
  <2>1. /\ t \in Contracts /\ created'[t] > 0 /\ created'[t] <= j.to
        /\ From(j.to, FeedWindowOf[w]) <= created'[t]
    BY <1>4 DEF CreatedIn, From
  <2>2. created'[t] = created[t]
    BY <1>1, <2>1, CreationsKept
  <2>3. t \in CreatedIn(From(j.to, FeedWindowOf[w]), j.to)
    BY <2>1, <2>2 DEF CreatedIn
  <2>. QED
    BY <1>4, <2>3 DEF DeployInv
<1>5. ASSUME j.pc = "save"
      PROVE  /\ Cardinality(j.rows) <= MaxRows
             /\ FeedCovers(j.rows, From(j.to, FeedWindowOf[w]), j.to)'
  BY <1>1, <1>5, FeedCoversKept DEF DeployInv
<1>. QED
  BY <1>1, <1>2, <1>3, <1>4, <1>5 DEF DeployInv

(* and so does whatever a refresher is at.                                 *)
LEMMA JobKept ==
    ASSUME ChainInv, ChainGrows, NEW w, NEW j, JobInv(w, j)
    PROVE  JobInv(w, j)'
  BY WalkKept, DeployKept DEF JobInv

(* One refresher moves on, or none.                                        *)
LEMMA JobMoves ==
    ASSUME ChainInv, JobsInv, ChainGrows, NEW w \in Refreshers, NEW st,
           job' = [job EXCEPT ![w] = st], JobInv(w, st)
    PROVE  JobsInv'
<1>1. /\ DOMAIN job = Refreshers
      /\ \A v \in Refreshers : job'[v] = IF v = w THEN st ELSE job[v]
      /\ job' = [v \in Refreshers |-> job'[v]] /\ DOMAIN job' = Refreshers
  BY DEF JobsInv
<1>2. ASSUME NEW v \in Refreshers PROVE JobInv(v, job[v])'
  <2>1. PICK j : j = job'[v]
    OBVIOUS
  <2>2. JobInv(v, j)
    BY <1>1, <2>1 DEF JobsInv
  <2>3. JobInv(v, j)'
    BY <2>2, JobKept
  <2>. QED
    BY <2>1, <2>3 DEF JobInv, WalkInv, DeployInv
<1>. QED
  BY <1>1, <1>2 DEF JobsInv

(* No refresher moves, while the chain may grow.                           *)
LEMMA JobsStay ==
    ASSUME ChainInv, JobsInv, ChainGrows, job' = job
    PROVE  JobsInv'
<1>2. ASSUME NEW v \in Refreshers PROVE JobInv(v, job[v])'
  <2>1. PICK j : j = job[v]
    OBVIOUS
  <2>2. JobInv(v, j)
    BY <2>1 DEF JobsInv
  <2>3. JobInv(v, j)'
    BY <2>2, JobKept
  <2>. QED
    BY <2>1, <2>3 DEF JobInv, WalkInv, DeployInv
<1>. QED
  BY <1>2 DEF JobsInv

(* No cache is saved.                                                      *)
LEMMA CacheStays ==
    ASSUME ChainInv, CacheInv, ChainGrows, cache' = cache
    PROVE  CacheInv'
<1>1. PICK last, rows, dropped :
         last = cache.last /\ rows = cache.rows /\ dropped = cache.dropped
  OBVIOUS
<1>2. /\ last \in Blocks /\ last \in Nat /\ last <= height /\ CacheRowsTrue(rows, last)
  BY <1>1 DEF CacheInv, Blocks
<1>3. PICK w \in Refreshers :
         Covers(TargetsOf(rows) \cup dropped, From(last, WindowOf[w]), last)
  BY <1>1 DEF CacheInv
<1>4. last <= height'
  BY <1>2 DEF ChainInv, ChainGrows, Blocks
<1>5. CacheRowsTrue(rows, last)'
  BY <1>2, CacheRowsKept
<1>6. Covers(TargetsOf(rows) \cup dropped, From(last, WindowOf[w]), last)'
  BY <1>2, <1>3, CoversKept
<1>. QED
  BY <1>1, <1>2, <1>4, <1>5, <1>6 DEF CacheInv

(* No feed is saved.                                                       *)
LEMMA FeedStays ==
    ASSUME ChainInv, FeedInv, ChainGrows, feed' = feed
    PROVE  FeedInv'
<1>1. PICK last, rows : last = feed.last /\ rows = feed.rows
  OBVIOUS
<1>2. /\ last \in Blocks /\ last \in Nat /\ last <= height /\ FeedRowsTrue(rows)
      /\ Cardinality(rows) <= MaxRows
  BY <1>1 DEF FeedInv, Blocks
<1>3. PICK w \in Refreshers : FeedCovers(rows, From(last, FeedWindowOf[w]), last)
  BY <1>1 DEF FeedInv
<1>4. last <= height'
  BY <1>2 DEF ChainInv, ChainGrows, Blocks
<1>5. FeedRowsTrue(rows)'
  BY <1>2, FeedRowsKept
<1>6. FeedCovers(rows, From(last, FeedWindowOf[w]), last)'
  BY <1>2, <1>3, FeedCoversKept
<1>. QED
  BY <1>1, <1>2, <1>4, <1>5, <1>6 DEF FeedInv

-------------------------------------------------------------------------------
(***************************************************************************)
(* The cache walk.                                                         *)
(***************************************************************************)

(* A walk starts at a block number.                                        *)
LEMMA FromFacts ==
    ASSUME NEW to \in Nat, NEW window \in Nat
    PROVE  From(to, window) \in Nat /\ From(to, window) <= to
  BY DEF From

(* Windows are numbers of blocks.                                          *)
LEMMA WindowFacts ==
    ASSUME NEW w \in Refreshers
    PROVE  WindowOf[w] \in Nat /\ FeedWindowOf[w] \in Nat
  BY TriageAssumption

(* A refresh ends at a block of the chain.                                 *)
LEMMA ToBlockFacts ==
    ASSUME ChainInv, NEW w, NEW to \in ToBlock(w)
    PROVE  to \in Blocks /\ to \in Nat /\ to <= height
<1>1. height \in Nat /\ MaxHeight \in Nat /\ height <= MaxHeight
  BY TriageAssumption DEF ChainInv, Blocks
<1>2. to \in Nat /\ to <= height
  <2>1. CASE to = height
    BY <1>1, <2>1
  <2>2. CASE to \in ToBlocks /\ to <= height
    BY <2>2, TriageAssumption
  <2>. QED
    BY <2>1, <2>2 DEF ToBlock
<1>. QED
  BY <1>1, <1>2 DEF Blocks

(* The chunks that the logs are asked for in leave no block out.           *)
LEMMA ChunksCover ==
    ASSUME ChainInv, NEW from \in Nat, NEW to \in Nat, NEW i \in DOMAIN audits,
           from <= audits[i].block, audits[i].block <= to
    PROVE  i \in LogsIn(from, to)
<1>. DEFINE b == audits[i].block
            k == (b - from) \div ChunkSize
            c == [first |-> from + k * ChunkSize,
                  last |-> IF from + (k + 1) * ChunkSize - 1 < to
                           THEN from + (k + 1) * ChunkSize - 1 ELSE to]
<1>1. ChunkSize \in Nat \ {0}
  BY TriageAssumption
<1>2. b \in Nat /\ from <= b /\ b <= to
  <2>1. audits[i] \in Event
    BY EventFacts DEF ChainInv
  <2>. QED
    BY <2>1 DEF Event, Blocks
<1>. HIDE DEF b
<1>3. b - from \in Nat /\ to - from \in Nat /\ b - from <= to - from
  BY <1>2
<1>4. /\ k \in Nat /\ k * ChunkSize <= b - from /\ b - from < (k + 1) * ChunkSize
      /\ k <= (to - from) \div ChunkSize /\ (to - from) \div ChunkSize \in Nat
  BY <1>1, <1>3, Quotient, QuotientGrows
<1>5. k \in 0 .. (to - from) \div ChunkSize
  BY <1>4
<1>6. c \in Chunks(from, to)
  BY <1>5 DEF Chunks
<1>. HIDE DEF k
<1>7. PICK p \in Nat : p = k * ChunkSize
  BY <1>1, <1>4
<1>8. PICK q \in Nat : q = (k + 1) * ChunkSize
  BY <1>1, <1>4
<1>9. c.first <= b /\ b <= c.last
  <2>1. c.first = from + p /\ c.last = IF from + q - 1 < to THEN from + q - 1 ELSE to
    BY <1>7, <1>8
  <2>2. p <= b - from /\ b - from < q
    BY <1>4, <1>7, <1>8
  <2>. HIDE DEF c
  <2>. QED
    BY <1>2, <2>1, <2>2
<1>. QED
  BY <1>6, <1>9 DEF LogsIn, b

(* Nor do they ask for a later one.                                        *)
LEMMA LogsBelow ==
    ASSUME ChainInv, NEW from \in Nat, NEW to \in Nat, NEW i \in LogsIn(from, to)
    PROVE  i \in DOMAIN audits /\ audits[i].block <= to
<1>1. /\ i \in DOMAIN audits
      /\ \E c \in Chunks(from, to) : c.first <= audits[i].block /\ audits[i].block <= c.last
  BY DEF LogsIn
<1>2. PICK k \in Int :
         LET last == IF from + (k + 1) * ChunkSize - 1 < to
                     THEN from + (k + 1) * ChunkSize - 1 ELSE to
         IN  audits[i].block <= last
  BY <1>1 DEF Chunks
<1>3. audits[i] \in Event
  BY <1>1, EventFacts DEF ChainInv
<1>4. audits[i].block \in Nat
  BY <1>3 DEF Event, Blocks
<1>5. ChunkSize \in Nat
  BY TriageAssumption
<1>6. PICK q \in Int : q = (k + 1) * ChunkSize
  BY <1>5
<1>. QED
  BY <1>1, <1>2, <1>4, <1>6

(* The event kept for a target is one of its own.                          *)
LEMMA KeptFacts ==
    ASSUME ChainInv, NEW logs, logs \subseteq DOMAIN audits,
           NEW i \in logs
    PROVE  /\ Kept(audits[i].target, logs) \in logs
           /\ audits[Kept(audits[i].target, logs)].target = audits[i].target
<1>. DEFINE t == audits[i].target
            mine == {k \in logs : audits[k].target = t}
            blockOf == [k \in DOMAIN audits |-> audits[k].block]
            best == {k \in mine : \A l \in mine : audits[l].block <= audits[k].block}
<1>1. /\ DOMAIN audits \in SUBSET Nat /\ MaxHeight \in Nat
      /\ \A k \in DOMAIN audits : audits[k] \in Event
  BY EventFacts, TriageAssumption DEF ChainInv
<1>2. \A k \in DOMAIN audits : blockOf[k] \in 0 .. MaxHeight
  BY <1>1 DEF Event, Blocks
<1>3. mine # {} /\ mine \subseteq DOMAIN audits
  OBVIOUS
<1>. HIDE DEF mine
<1>4. \E k \in mine : \A l \in mine : blockOf[l] <= blockOf[k]
  <2>1. \A k \in mine : blockOf[k] \in 0 .. MaxHeight
    BY <1>2, <1>3
  <2>. HIDE DEF blockOf
  <2>. QED
    BY <1>1, <1>3, <2>1, GreatestMember
<1>5. best # {} /\ best \in SUBSET Nat
  BY <1>1, <1>3, <1>4
<1>6. \E x \in best : \A y \in best : x <= y
  <2>. HIDE DEF best
  <2>. QED
    BY <1>5, LeastMember
<1>7. Lowest(best) \in best
  <2>. HIDE DEF best
  <2>. QED
    BY <1>6 DEF Lowest
<1>8. Kept(t, logs) = Lowest(best)
  BY DEF Kept, mine
<1>. QED
  BY <1>7, <1>8 DEF mine

(* The state of a walk that starts.                                        *)
LEMMA StartedJob ==
    ASSUME NEW to, NEW todo
    PROVE  [Idle EXCEPT !.pc = "heads", !.to = to, !.todo = todo]
           = [pc |-> "heads", to |-> to, todo |-> todo, target |-> None,
              root |-> 0, rows |-> {}, dropped |-> {}]
<1>1. ASSUME NEW j, j = [pc |-> j.pc, to |-> j.to, todo |-> j.todo, target |-> j.target,
                         root |-> j.root, rows |-> j.rows, dropped |-> j.dropped]
      PROVE  [j EXCEPT !.pc = "heads", !.to = to, !.todo = todo]
             = [pc |-> "heads", to |-> to, todo |-> todo, target |-> j.target,
                root |-> j.root, rows |-> j.rows, dropped |-> j.dropped]
  <2>1. PICK st : st = [j EXCEPT !.pc = "heads", !.to = to, !.todo = todo]
    OBVIOUS
  <2>2. st = [pc |-> "heads", to |-> to, todo |-> todo, target |-> j.target,
              root |-> j.root, rows |-> j.rows, dropped |-> j.dropped]
    BY <1>1, <2>1
  <2>. QED
    BY <2>1, <2>2, Zenon
<1>2. Idle = [pc |-> Idle.pc, to |-> Idle.to, todo |-> Idle.todo, target |-> Idle.target,
              root |-> Idle.root, rows |-> Idle.rows,
              dropped |-> Idle.dropped]
  BY DEF Idle
<1>3. Idle.target = None /\ Idle.root = 0 /\ Idle.rows = {} /\ Idle.dropped = {}
  BY DEF Idle
<1>4. PICK j : j = Idle
  OBVIOUS
<1>5. [j EXCEPT !.pc = "heads", !.to = to, !.todo = todo]
      = [pc |-> "heads", to |-> to, todo |-> todo, target |-> j.target,
         root |-> j.root, rows |-> j.rows, dropped |-> j.dropped]
  BY <1>1, <1>2, <1>4
<1>. QED
  BY <1>3, <1>4, <1>5, Zenon

(* A walk that has its logs has one event for every target in its range.   *)
LEMMA StartCacheJob ==
    ASSUME TriageInv, NEW w \in Refreshers, NEW to \in ToBlock(w), StartCache(w, to)
    PROVE  \E st : job' = [job EXCEPT ![w] = st] /\ JobInv(w, st)
<1>. DEFINE from == From(to, WindowOf[w])
            logs == LogsIn(from, to)
            todo == {[target |-> t, event |-> Kept(t, logs)] :
                        t \in {audits[i].target : i \in logs}}
            st == [Idle EXCEPT !.pc = "heads", !.to = to, !.todo = todo]
<1>1. ChainInv
  BY DEF TriageInv
<1>2. to \in Blocks /\ to \in Nat /\ to <= height
  BY <1>1, ToBlockFacts
<1>3. from \in Nat /\ from <= to
  BY <1>2, WindowFacts, FromFacts
<1>4. job' = [job EXCEPT ![w] = st]
  BY DEF StartCache
<1>5. \A i \in logs : i \in DOMAIN audits /\ audits[i].block <= to
  BY <1>1, <1>2, <1>3, LogsBelow
<1>6. \A i \in DOMAIN audits : from <= audits[i].block /\ audits[i].block <= to => i \in logs
  BY <1>1, <1>2, <1>3, ChunksCover
<1>. HIDE DEF logs
<1>7. ASSUME NEW e \in todo PROVE EntryTrue(e, to)
  <2>1. PICK i \in logs : e = [target |-> audits[i].target,
                               event |-> Kept(audits[i].target, logs)]
    OBVIOUS
  <2>2. logs \subseteq DOMAIN audits
    BY <1>5
  <2>3. /\ Kept(audits[i].target, logs) \in logs
        /\ audits[Kept(audits[i].target, logs)].target = audits[i].target
    BY <1>1, <2>2, KeptFacts
  <2>4. PICK k : k = Kept(audits[i].target, logs)
    OBVIOUS
  <2>5. k \in DOMAIN audits /\ audits[k].block <= to /\ audits[k].target = audits[i].target
    BY <1>5, <2>3, <2>4
  <2>6. k \in Nat /\ audits[i] \in Event
    BY <1>1, <1>5, <2>5, EventFacts DEF ChainInv
  <2>7. e \in Entry
    BY <2>1, <2>4, <2>6 DEF Entry, Event
  <2>. QED
    BY <2>1, <2>4, <2>5, <2>7 DEF EntryTrue
<1>8. \A e, f \in todo : e.target = f.target => e = f
  OBVIOUS
<1>9. Covers(TargetsOf(todo) \cup TargetsOf({}) \cup {}, from, to)
  <2>1. ASSUME NEW i \in DOMAIN audits, from <= audits[i].block, audits[i].block <= to
        PROVE  audits[i].target \in TargetsOf(todo)
    <3>1. i \in logs
      BY <1>6, <2>1
    <3>2. [target |-> audits[i].target, event |-> Kept(audits[i].target, logs)] \in todo
      BY <3>1
    <3>. HIDE DEF todo
    <3>. QED
      BY <3>2 DEF TargetsOf
  <2>. QED
    BY <2>1 DEF Covers
<1>10. st = [pc |-> "heads", to |-> to, todo |-> todo, target |-> None, root |-> 0, rows |-> {}, dropped |-> {}]
  BY StartedJob
<1>. HIDE DEF st, from, todo
<1>11. WalkInv(w, st)
  <2>1. CacheRowsTrue({}, to)
    BY DEF CacheRowsTrue
  <2>. QED
    BY <1>2, <1>7, <1>8, <1>9, <1>10, <2>1 DEF WalkInv, from
<1>12. JobInv(w, st)
  BY <1>10, <1>11 DEF JobInv, PCs
<1>. QED
  BY <1>4, <1>12

(* The head that is read belongs to an audit at or after the event.        *)
LEMMA ReadHeadJob ==
    ASSUME TriageInv, NEW w \in Refreshers, NEW e \in job[w].todo, ReadHead(w, e)
    PROVE  \E st : job' = [job EXCEPT ![w] = st] /\ JobInv(w, st)
<1>1. PICK j : j = job[w]
  OBVIOUS
<1>2. JobInv(w, j) /\ j.pc = "heads" /\ e \in j.todo
  BY <1>1 DEF TriageInv, JobsInv, ReadHead
<1>3. PICK st : st = [j EXCEPT !.pc = "count", !.target = e, !.root = Count(e.target)]
  OBVIOUS
<1>4. job' = [job EXCEPT ![w] = st]
  BY <1>1, <1>3 DEF ReadHead, HeadOf, TriageInv, JobsInv
<1>5. st = [pc |-> "count", to |-> j.to, todo |-> j.todo, target |-> e,
            root |-> Count(e.target), rows |-> j.rows, dropped |-> j.dropped]
  BY <1>2, <1>3 DEF JobInv
<1>6. WalkInv(w, j)
  BY <1>2 DEF JobInv
<1>7. EntryTrue(e, j.to)
  BY <1>2, <1>6 DEF WalkInv
<1>8. /\ Ordinal(e.event) <= Count(e.target)
      /\ Count(e.target) \in Nat
  <2>1. e.event \in DOMAIN audits /\ audits[e.event].target = e.target /\ audits \in Seq(Event)
    BY <1>7 DEF EntryTrue, TriageInv, ChainInv
  <2>. QED
    BY <2>1, OrdinalBounded, EventFacts
<1>9. WalkInv(w, st)
  BY <1>2, <1>5, <1>6, <1>8 DEF WalkInv
<1>10. JobInv(w, st)
  BY <1>5, <1>9 DEF JobInv, PCs
<1>. QED
  BY <1>4, <1>10

(* A target whose head is missing is accounted for as dropped.             *)
LEMMA HeadMissingJob ==
    ASSUME TriageInv, NEW w \in Refreshers, NEW e \in job[w].todo, HeadMissing(w, e)
    PROVE  \E st : job' = [job EXCEPT ![w] = st] /\ JobInv(w, st)
<1>1. PICK j : j = job[w]
  OBVIOUS
<1>2. PICK st : st = [j EXCEPT !.todo = @ \ {e}, !.dropped = @ \cup {e.target}]
  OBVIOUS
<1>3. JobInv(w, j) /\ j.pc = "heads" /\ e \in j.todo
  BY <1>1 DEF TriageInv, JobsInv, HeadMissing
<1>4. job' = [job EXCEPT ![w] = st]
  BY <1>1, <1>2 DEF HeadMissing, TriageInv, JobsInv
<1>5. st = [pc |-> "heads", to |-> j.to, todo |-> j.todo \ {e}, target |-> j.target,
            root |-> j.root, rows |-> j.rows, dropped |-> j.dropped \cup {e.target}]
  BY <1>2, <1>3 DEF JobInv
<1>6. WalkInv(w, j) /\ EntryTrue(e, j.to)
  BY <1>3 DEF JobInv, WalkInv
<1>7. e.target \in Contracts
  BY <1>6 DEF EntryTrue, Entry
<1>8. TargetsOf(j.todo) \cup TargetsOf(j.rows) \cup j.dropped
        \subseteq TargetsOf(j.todo \ {e}) \cup TargetsOf(j.rows) \cup (j.dropped \cup {e.target})
  BY DEF TargetsOf
<1>9. Covers(TargetsOf(j.todo \ {e}) \cup TargetsOf(j.rows) \cup (j.dropped \cup {e.target}),
             From(j.to, WindowOf[w]), j.to)
  BY <1>6, <1>8 DEF WalkInv, Covers
<1>10. WalkInv(w, st)
  BY <1>5, <1>6, <1>7, <1>9 DEF WalkInv
<1>11. JobInv(w, st)
  BY <1>5, <1>10 DEF JobInv, PCs
<1>. QED
  BY <1>4, <1>11

(* The row that a walk adds tells the truth.                               *)
LEMMA ReadCountJob ==
    ASSUME TriageInv, NEW w \in Refreshers, ReadCount(w)
    PROVE  \E st : job' = [job EXCEPT ![w] = st] /\ JobInv(w, st)
<1>1. PICK j : j = job[w]
  OBVIOUS
<1>2. PICK e : e = j.target
  OBVIOUS
<1>3. PICK r : r = [target |-> e.target, root |-> j.root, count |-> Count(e.target),
                    event |-> e.event, block |-> audits[e.event].block]
  OBVIOUS
<1>4. PICK st : st = [j EXCEPT !.pc = "heads", !.target = None, !.root = 0,
                               !.todo = @ \ {e}, !.rows = @ \cup {r}]
  OBVIOUS
<1>5. JobInv(w, j) /\ j.pc = "count"
  BY <1>1 DEF TriageInv, JobsInv, ReadCount
<1>6. job' = [job EXCEPT ![w] = st]
  BY <1>1, <1>2, <1>3, <1>4 DEF ReadCount, TriageInv, JobsInv
<1>7. st = [pc |-> "heads", to |-> j.to, todo |-> j.todo \ {e}, target |-> None,
            root |-> 0, rows |-> j.rows \cup {r}, dropped |-> j.dropped]
  BY <1>4, <1>5 DEF JobInv
<1>8. /\ WalkInv(w, j) /\ e \in j.todo /\ EntryTrue(e, j.to)
      /\ j.root \in Nat /\ Ordinal(e.event) <= j.root /\ j.root <= Count(e.target)
  BY <1>2, <1>5 DEF JobInv, WalkInv
<1>9. CacheRowTrue(r, j.to)
  <2>1. /\ e.event \in DOMAIN audits /\ audits[e.event].target = e.target
        /\ audits[e.event].block <= j.to /\ audits \in Seq(Event)
        /\ e.target \in Contracts /\ e.event \in Nat
    BY <1>8 DEF EntryTrue, Entry, TriageInv, ChainInv
  <2>2. audits[e.event] \in Event /\ Count(e.target) \in Nat
    BY <2>1, EventFacts
  <2>3. audits[e.event].block \in Blocks
    BY <2>2 DEF Event
  <2>4. r \in CacheRow
    BY <1>3, <1>8, <2>1, <2>2, <2>3 DEF CacheRow
  <2>5. r.count <= Count(r.target)
    BY <1>3, <2>2
  <2>. QED
    BY <1>3, <1>8, <2>1, <2>4, <2>5 DEF CacheRowTrue
<1>10. CacheRowsTrue(j.rows \cup {r}, j.to)
  BY <1>3, <1>8, <1>9 DEF WalkInv, CacheRowsTrue
<1>11. \A f \in j.todo \ {e}, s \in j.rows \cup {r} : f.target # s.target
  BY <1>3, <1>8 DEF WalkInv
<1>12. TargetsOf(j.todo) \cup TargetsOf(j.rows) \cup j.dropped
         \subseteq TargetsOf(j.todo \ {e}) \cup TargetsOf(j.rows \cup {r}) \cup j.dropped
  BY <1>3 DEF TargetsOf
<1>13. Covers(TargetsOf(j.todo \ {e}) \cup TargetsOf(j.rows \cup {r}) \cup j.dropped,
              From(j.to, WindowOf[w]), j.to)
  BY <1>8, <1>12 DEF WalkInv, Covers
<1>14. WalkInv(w, st)
  BY <1>7, <1>8, <1>10, <1>11, <1>13 DEF WalkInv
<1>15. JobInv(w, st)
  BY <1>7, <1>14 DEF JobInv, PCs
<1>. QED
  BY <1>6, <1>15

(* What is saved is what a walk that is through with its targets found.    *)
LEMMA SaveCacheStep ==
    ASSUME TriageInv, NEW w \in Refreshers, SaveCache(w), ChainGrows, height' = height
    PROVE  CacheInv'
<1>1. PICK j : j = job[w]
  OBVIOUS
<1>2. JobInv(w, j) /\ j.pc = "heads" /\ j.todo = {}
  BY <1>1 DEF TriageInv, JobsInv, SaveCache
<1>3. WalkInv(w, j)
  BY <1>2 DEF JobInv
<1>4. WalkInv(w, j)'
  BY <1>3, WalkKept DEF TriageInv
<1>5. TargetsOf(j.todo) \cup TargetsOf(j.rows) \cup j.dropped = TargetsOf(j.rows) \cup j.dropped
  BY <1>2 DEF TargetsOf
<1>6. cache'.last = j.to /\ cache'.rows = j.rows /\ cache'.dropped = j.dropped
  BY <1>1 DEF SaveCache
<1>7. Covers(TargetsOf(j.rows) \cup j.dropped, From(j.to, WindowOf[w]), j.to)'
  BY <1>4, <1>5 DEF WalkInv
<1>8. /\ j.to \in Blocks /\ j.to <= height' /\ CacheRowsTrue(j.rows, j.to)'
      /\ j.dropped \subseteq Contracts
  BY <1>4 DEF WalkInv
<1>. QED
  BY <1>6, <1>7, <1>8 DEF CacheInv

-------------------------------------------------------------------------------
(***************************************************************************)
(* The feed walk.                                                          *)
(***************************************************************************)

(* Merging truthful rows gives truthful rows, one per contract, and shows  *)
(* every fresh one that MaxRows others do not push out.                    *)
LEMMA MergeFacts ==
    ASSUME NEW prev, NEW fresh, FeedRowsTrue(prev), FeedRowsTrue(fresh),
           NEW kept \in Merge(prev, fresh)
    PROVE  /\ FeedRowsTrue(kept)
           /\ Cardinality(kept) <= MaxRows
           /\ \A r \in fresh : Shown(r.address, r.block, kept)
<1>. DEFINE old == {r \in prev : \A s \in fresh : s.address # r.address}
            all == fresh \cup old
<1>1. IsFiniteSet(all)
  <2>1. IsFiniteSet(fresh) /\ IsFiniteSet(prev) /\ old \in SUBSET prev
    BY DEF FeedRowsTrue
  <2>. HIDE DEF old
  <2>2. IsFiniteSet(old)
    BY <2>1, FS_Subset
  <2>. QED
    BY <2>1, <2>2, FS_Union
<1>2. /\ \A r \in all : FeedRowTrue(r)
      /\ \A r, s \in all : r.address = s.address => r = s
  BY DEF FeedRowsTrue
<1>3. kept \in Newest(all)
  BY DEF Merge
<1>4. fresh \subseteq all
  OBVIOUS
<1>. HIDE DEF all
<1>5. /\ kept \in SUBSET all /\ Cardinality(kept) <= MaxRows
      /\ kept # all => Cardinality(kept) = MaxRows
      /\ \A r \in kept, s \in all \ kept : s.block <= r.block
  BY <1>3 DEF Newest
<1>6. IsFiniteSet(kept)
  BY <1>1, <1>5, FS_Subset
<1>7. FeedRowsTrue(kept)
  BY <1>2, <1>5, <1>6 DEF FeedRowsTrue
<1>8. \A r \in all : r.block \in Nat
  BY <1>2, TriageAssumption DEF FeedRowTrue, FeedRow, Blocks
<1>9. ASSUME NEW r \in fresh PROVE Shown(r.address, r.block, kept)
  <2>1. CASE r \in kept
    BY <2>1 DEF Shown
  <2>2. CASE r \notin kept
    <3>1. r \in all \ kept /\ Cardinality(kept) = MaxRows
      BY <1>4, <1>5, <2>2
    <3>2. \A s \in kept : s.block >= r.block
      BY <1>5, <1>8, <3>1
    <3>. QED
      BY <3>1, <3>2 DEF Shown
  <2>. QED
    BY <2>1, <2>2
<1>. QED
  BY <1>5, <1>7, <1>9

(* Fresh rows tell the truth, one for every contract in the window.        *)
LEMMA WalkDeploysJob ==
    ASSUME TriageInv, NEW w \in Refreshers, NEW to \in ToBlock(w), WalkDeploys(w, to)
    PROVE  /\ \E st : job' = [job EXCEPT ![w] = st] /\ JobInv(w, st)
           /\ faults' \in 0 .. MaxFaults
<1>. DEFINE found == CreatedIn(From(to, FeedWindowOf[w]), to)
            audited == {r.target : r \in cache.rows}
            row(t, unread) == [address |-> t, block |-> created[t],
                               class |-> Classify(t, audited, t \notin unread)]
<1>1. PICK unread \in SUBSET found :
         /\ unread # {} => faults < MaxFaults
         /\ faults' = IF unread = {} THEN faults ELSE faults + 1
         /\ job' = [job EXCEPT ![w].pc = "merge", ![w].to = to,
                               ![w].rows = {row(t, unread) : t \in found}]
  BY DEF WalkDeploys
<1>2. PICK j : j = job[w]
  OBVIOUS
<1>3. PICK rows : rows = {row(t, unread) : t \in found}
  OBVIOUS
<1>4. PICK st : st = [j EXCEPT !.pc = "merge", !.to = to, !.rows = rows]
  OBVIOUS
<1>5. JobInv(w, j)
  BY <1>2 DEF TriageInv, JobsInv
<1>6. job' = [job EXCEPT ![w] = st]
  BY <1>1, <1>2, <1>3, <1>4 DEF TriageInv, JobsInv
<1>7. st = [pc |-> "merge", to |-> to, todo |-> j.todo, target |-> j.target,
            root |-> j.root, rows |-> rows, dropped |-> j.dropped]
  BY <1>4, <1>5 DEF JobInv
<1>8. to \in Blocks /\ to \in Nat /\ to <= height
  BY ToBlockFacts DEF TriageInv
<1>9. \A t \in found : t \in Contracts /\ created[t] > 0 /\ created[t] \in Blocks
  BY DEF CreatedIn, TriageInv, ChainInv
<1>10. ASSUME NEW t \in audited PROVE Count(t) > 0
  <2>1. PICK r \in cache.rows : t = r.target
    OBVIOUS
  <2>2. PICK last : last = cache.last
    OBVIOUS
  <2>3. CacheRowTrue(r, last)
    BY <2>2 DEF TriageInv, CacheInv, CacheRowsTrue
  <2>4. r.event \in DOMAIN audits /\ audits[r.event].target = t /\ audits \in Seq(Event)
    BY <2>1, <2>3 DEF CacheRowTrue, TriageInv, ChainInv
  <2>. QED
    BY <2>4, OrdinalBounded
<1>. HIDE DEF found, audited
<1>11. ASSUME NEW t \in found PROVE FeedRowTrue(row(t, unread))
  <2>1. PICK c : c = Classify(t, audited, t \notin unread)
    OBVIOUS
  <2>2. c \in Classes
    BY <2>1 DEF Classify, Classes
  <2>3. /\ c = "audited" => t \in audited
        /\ c = "skipped:template" => t \in Templates
        /\ c = "queued" => t \notin Templates
        /\ c \in {"queued", "skipped:template"} => t \notin Reverted
    BY <2>1 DEF Classify
  <2>4. [address |-> t, block |-> created[t], class |-> c] \in FeedRow
    BY <1>9, <2>2 DEF FeedRow
  <2>. QED
    BY <1>9, <1>10, <2>1, <2>3, <2>4 DEF FeedRowTrue
<1>12. IsFiniteSet(rows)
  <2>1. found \in SUBSET {t \in Contracts : created[t] > 0}
    BY <1>9
  <2>2. IsFiniteSet(found)
    BY <2>1, FS_Subset DEF TriageInv, ChainInv
  <2>3. [t \in found |-> row(t, unread)] \in Surjection(found, rows)
    BY <1>3 DEF Surjection
  <2>. QED
    BY <2>2, <2>3, FS_Surjection
<1>13. FeedRowsTrue(rows)
  BY <1>3, <1>11, <1>12 DEF FeedRowsTrue
<1>14. ASSUME NEW t \in found PROVE \E r \in rows : r.address = t
  <2>1. row(t, unread) \in rows
    BY <1>3
  <2>2. row(t, unread).address = t
    OBVIOUS
  <2>. HIDE DEF row
  <2>. QED
    BY <2>1, <2>2
<1>15. DeployInv(w, st)
  BY <1>7, <1>8, <1>13, <1>14 DEF DeployInv, found
<1>16. JobInv(w, st)
  BY <1>7, <1>15 DEF JobInv, PCs
<1>17. faults' \in 0 .. MaxFaults
  BY <1>1, TriageAssumption DEF TriageInv, ChainInv
<1>. QED
  BY <1>6, <1>16, <1>17

(* Whatever the file held when it was loaded, the walk's contracts are in  *)
(* what is about to be saved.                                              *)
LEMMA LoadFeedJob ==
    ASSUME TriageInv, NEW w \in Refreshers, LoadFeed(w)
    PROVE  \E st : job' = [job EXCEPT ![w] = st] /\ JobInv(w, st)
<1>1. PICK j, prev : j = job[w] /\ prev = feed.rows
  OBVIOUS
<1>2. PICK rows \in Merge(prev, j.rows) : job' = [job EXCEPT ![w].pc = "save", ![w].rows = rows]
  BY <1>1 DEF LoadFeed
<1>3. PICK st : st = [j EXCEPT !.pc = "save", !.rows = rows]
  OBVIOUS
<1>4. JobInv(w, j) /\ j.pc = "merge"
  BY <1>1 DEF TriageInv, JobsInv, LoadFeed
<1>5. job' = [job EXCEPT ![w] = st]
  BY <1>1, <1>2, <1>3 DEF TriageInv, JobsInv
<1>6. st = [pc |-> "save", to |-> j.to, todo |-> j.todo, target |-> j.target,
            root |-> j.root, rows |-> rows, dropped |-> j.dropped]
  BY <1>3, <1>4 DEF JobInv
<1>7. DeployInv(w, j)
  BY <1>4 DEF JobInv
<1>8. /\ FeedRowsTrue(rows) /\ Cardinality(rows) <= MaxRows
      /\ \A r \in j.rows : Shown(r.address, r.block, rows)
  BY <1>1, <1>2, <1>7, MergeFacts DEF DeployInv, TriageInv, FeedInv
<1>9. FeedCovers(rows, From(j.to, FeedWindowOf[w]), j.to)
  <2>1. ASSUME NEW t \in Contracts, created[t] > 0,
               From(j.to, FeedWindowOf[w]) <= created[t], created[t] <= j.to
        PROVE  Shown(t, created[t], rows)
    <3>1. t \in CreatedIn(From(j.to, FeedWindowOf[w]), j.to)
      BY <2>1 DEF CreatedIn
    <3>2. PICK r \in j.rows : r.address = t
      BY <1>4, <1>7, <3>1 DEF DeployInv
    <3>3. r.block = created[t]
      BY <1>7, <3>2 DEF DeployInv, FeedRowsTrue, FeedRowTrue
    <3>. QED
      BY <1>8, <3>2, <3>3
  <2>. QED
    BY <2>1 DEF FeedCovers
<1>10. DeployInv(w, st)
  BY <1>6, <1>7, <1>8, <1>9 DEF DeployInv
<1>11. JobInv(w, st)
  BY <1>6, <1>10 DEF JobInv, PCs
<1>. QED
  BY <1>5, <1>11

(* The save publishes it.                                                  *)
LEMMA SaveFeedStep ==
    ASSUME TriageInv, NEW w \in Refreshers, SaveFeed(w), ChainGrows, height' = height
    PROVE  FeedInv'
<1>1. PICK j : j = job[w]
  OBVIOUS
<1>2. JobInv(w, j) /\ j.pc = "save"
  BY <1>1 DEF TriageInv, JobsInv, SaveFeed
<1>3. DeployInv(w, j)
  BY <1>2 DEF JobInv
<1>4. DeployInv(w, j)'
  BY <1>3, DeployKept DEF TriageInv
<1>5. feed'.last = j.to /\ feed'.rows = j.rows
  BY <1>1 DEF SaveFeed
<1>6. /\ FeedCovers(j.rows, From(j.to, FeedWindowOf[w]), j.to)'
      /\ Cardinality(j.rows) <= MaxRows
  BY <1>2, <1>4 DEF DeployInv
<1>7. j.to \in Blocks /\ j.to <= height' /\ FeedRowsTrue(j.rows)'
  BY <1>4 DEF DeployInv
<1>. QED
  BY <1>5, <1>6, <1>7 DEF FeedInv


-------------------------------------------------------------------------------
(***************************************************************************)
(* The theorems.                                                           *)
(***************************************************************************)

(* The invariant holds of the empty chain and the empty snapshots.         *)
LEMMA InitTriage ==
    ASSUME Init
    PROVE  TriageInv
<1>1. audits = <<>> /\ DOMAIN audits = {} /\ audits \in Seq(Event)
  BY DEF Init
<1>2. height = 0 /\ 0 \in Blocks /\ 0 \in 0 .. MaxFaults
  BY TriageAssumption DEF Init, Blocks
<1>3. created \in [Contracts -> Blocks] /\ \A t \in Contracts : created[t] = 0
  BY <1>2 DEF Init
<1>4. ChainInv
  <2>1. {t \in Contracts : created[t] > 0} = {}
    BY <1>3
  <2>2. IsFiniteSet({t \in Contracts : created[t] > 0})
    BY <2>1, FS_EmptySet
  <2>3. faults \in 0 .. MaxFaults
    BY <1>2 DEF Init
  <2>4. \A t \in Contracts : created[t] <= height
    BY <1>2, <1>3
  <2>. QED
    BY <1>1, <1>2, <1>3, <2>2, <2>3, <2>4 DEF ChainInv
<1>5. JobsInv
  <2>1. \A w \in Refreshers : JobInv(w, Idle)
    BY DEF JobInv, Idle, PCs
  <2>. QED
    BY <2>1 DEF JobsInv, Init
<1>6. CacheInv
  <2>1. cache.last = 0 /\ cache.rows = {} /\ cache.dropped = {} /\ Scheduler \in Refreshers
    BY DEF Init, Refreshers
  <2>2. CacheRowsTrue(cache.rows, cache.last)
    BY <2>1 DEF CacheRowsTrue
  <2>3. \A targets, from, to : Covers(targets, from, to)
    BY <1>1 DEF Covers
  <2>. QED
    BY <1>2, <2>1, <2>2, <2>3 DEF CacheInv
<1>7. FeedInv
  <2>1. feed.last = 0 /\ feed.rows = {} /\ Scheduler \in Refreshers
    BY DEF Init, Refreshers
  <2>2. FeedRowsTrue(feed.rows) /\ Cardinality(feed.rows) <= MaxRows
    BY <2>1, FS_EmptySet, TriageAssumption DEF FeedRowsTrue
  <2>3. \A rows, from, to : FeedCovers(rows, from, to)
    BY <1>3 DEF FeedCovers
  <2>. QED
    BY <1>2, <2>1, <2>2, <2>3 DEF FeedInv
<1>. QED
  BY <1>4, <1>5, <1>6, <1>7 DEF TriageInv

(* A refresher that does nothing on the chain holds nothing to account for. *)
LEMMA RestingJob ==
    ASSUME NEW w, NEW j,
           j = [pc |-> j.pc, to |-> j.to, todo |-> j.todo, target |-> j.target,
                root |-> j.root, rows |-> j.rows, dropped |-> j.dropped],
           j.pc \in {"idle", "feed", "over"}
    PROVE  JobInv(w, j)
  BY DEF JobInv, PCs

(* A walk that is over or gives up rests, and so does one that only walks  *)
(* the feed.                                                               *)
LEMMA RestingStates ==
    ASSUME JobsInv, NEW w \in Refreshers
    PROVE  /\ JobInv(w, [Idle EXCEPT !.pc = "feed"])
           /\ JobInv(w, Over(w))
           /\ JobInv(w, [job[w] EXCEPT !.pc = "feed"])
<1>1. ASSUME NEW pc \in {"idle", "feed", "over"}, NEW j,
             j = [pc |-> j.pc, to |-> j.to, todo |-> j.todo, target |-> j.target,
                  root |-> j.root, rows |-> j.rows, dropped |-> j.dropped]
      PROVE  JobInv(w, [j EXCEPT !.pc = pc])
  <2>1. PICK st : st = [j EXCEPT !.pc = pc]
    OBVIOUS
  <2>2. st = [pc |-> pc, to |-> j.to, todo |-> j.todo, target |-> j.target,
              root |-> j.root, rows |-> j.rows, dropped |-> j.dropped]
    BY <1>1, <2>1
  <2>3. JobInv(w, st)
    BY <2>2, RestingJob
  <2>. QED
    BY <2>1, <2>3, Zenon
<1>2. PICK i : i = Idle
  OBVIOUS
<1>3. i = [pc |-> i.pc, to |-> i.to, todo |-> i.todo, target |-> i.target,
           root |-> i.root, rows |-> i.rows, dropped |-> i.dropped]
  BY <1>2 DEF Idle
<1>4. \A pc \in {"idle", "feed", "over"} : JobInv(w, [i EXCEPT !.pc = pc])
  BY <1>1, <1>3
<1>5. PICK pc \in {"idle", "over"} : pc = IF w \in Manual THEN "over" ELSE "idle"
  OBVIOUS
<1>6. Over(w) = [i EXCEPT !.pc = pc]
  BY <1>2, <1>5, Zenon DEF Over
<1>7. JobInv(w, Over(w))
  BY <1>4, <1>6
<1>8. JobInv(w, [Idle EXCEPT !.pc = "feed"])
  BY <1>2, <1>4, Zenon
<1>9. PICK j : j = job[w]
  OBVIOUS
<1>10. j = [pc |-> j.pc, to |-> j.to, todo |-> j.todo, target |-> j.target,
            root |-> j.root, rows |-> j.rows, dropped |-> j.dropped]
  BY <1>9 DEF JobsInv, JobInv
<1>11. JobInv(w, [job[w] EXCEPT !.pc = "feed"])
  BY <1>1, <1>9, <1>10
<1>. QED
  BY <1>7, <1>8, <1>11

(* A step of a refresher that leaves the chain and both files.             *)
LEMMA OnlyJobMoves ==
    ASSUME TriageInv, NEW w \in Refreshers, NEW st,
           UNCHANGED <<chainVars, cache, feed>>, faults' \in 0 .. MaxFaults,
           job' = [job EXCEPT ![w] = st], JobInv(w, st)
    PROVE  TriageInv'
<1>1. UNCHANGED chainVars /\ cache' = cache /\ feed' = feed
  OBVIOUS
<1>2. ChainInv' /\ ChainGrows
  BY <1>1, ChainStays DEF TriageInv
<1>3. JobsInv'
  BY <1>2, JobMoves DEF TriageInv
<1>4. CacheInv' /\ FeedInv'
  BY <1>1, <1>2, CacheStays, FeedStays DEF TriageInv
<1>. QED
  BY <1>2, <1>3, <1>4 DEF TriageInv

(* Every step keeps the invariant.                                         *)
LEMMA NextTriage ==
    ASSUME TriageInv, [Next]_vars
    PROVE  TriageInv'
<1>0. faults \in 0 .. MaxFaults /\ MaxFaults \in Nat
  BY TriageAssumption DEF TriageInv, ChainInv
<1>1. CASE ChainStep
  <2>1. PICK new \in SUBSET Contracts, submitted \in Seq(Contracts) :
           NewBlock(submitted, new)
    <3>1. \A t \in Audited : <<t>> \in Seq(Contracts) /\ <<t, t>> \in Seq(Contracts)
      BY TriageAssumption
    <3>2. <<>> \in Seq(Contracts)
      OBVIOUS
    <3>. QED
      BY <1>1, <3>1, <3>2 DEF ChainStep
  <2>2. ChainInv' /\ ChainGrows /\ job' = job /\ cache' = cache /\ feed' = feed
    BY <2>1, NewBlockGrows DEF TriageInv
  <2>. QED
    BY <2>2, JobsStay, CacheStays, FeedStays DEF TriageInv
<1>2. ASSUME NEW w \in Refreshers, NEW to \in ToBlock(w), StartCache(w, to)
      PROVE  TriageInv'
  BY <1>0, <1>2, StartCacheJob, OnlyJobMoves DEF StartCache
<1>3. ASSUME NEW w \in Refreshers, NEW e \in job[w].todo, ReadHead(w, e)
      PROVE  TriageInv'
  BY <1>0, <1>3, ReadHeadJob, OnlyJobMoves DEF ReadHead
<1>4. ASSUME NEW w \in Refreshers, ReadCount(w)
      PROVE  TriageInv'
  BY <1>0, <1>4, ReadCountJob, OnlyJobMoves DEF ReadCount
<1>5. ASSUME NEW w \in Refreshers, SaveCache(w)
      PROVE  TriageInv'
  <2>1. /\ UNCHANGED chainVars /\ feed' = feed /\ faults' = faults /\ height' = height
        /\ job' = [job EXCEPT ![w] = [Idle EXCEPT !.pc = "feed"]]
    BY <1>5 DEF SaveCache, chainVars
  <2>2. ChainInv' /\ ChainGrows
    BY <1>0, <2>1, ChainStays DEF TriageInv
  <2>3. JobsInv'
    BY <2>1, <2>2, RestingStates, JobMoves DEF TriageInv
  <2>4. CacheInv'
    BY <1>5, <2>1, <2>2, SaveCacheStep
  <2>5. FeedInv'
    BY <2>1, <2>2, FeedStays DEF TriageInv
  <2>. QED
    BY <2>2, <2>3, <2>4, <2>5 DEF TriageInv
<1>6. ASSUME NEW w \in Refreshers, NEW to \in ToBlock(w), WalkDeploys(w, to)
      PROVE  TriageInv'
  BY <1>6, WalkDeploysJob, OnlyJobMoves DEF WalkDeploys
<1>7. ASSUME NEW w \in Refreshers, LoadFeed(w)
      PROVE  TriageInv'
  BY <1>0, <1>7, LoadFeedJob, OnlyJobMoves DEF LoadFeed
<1>8. ASSUME NEW w \in Refreshers, SaveFeed(w)
      PROVE  TriageInv'
  <2>1. /\ UNCHANGED chainVars /\ cache' = cache /\ faults' = faults /\ height' = height
        /\ job' = [job EXCEPT ![w] = Over(w)]
    BY <1>8 DEF SaveFeed, chainVars
  <2>2. ChainInv' /\ ChainGrows
    BY <1>0, <2>1, ChainStays DEF TriageInv
  <2>3. JobsInv'
    BY <2>1, <2>2, RestingStates, JobMoves DEF TriageInv
  <2>4. CacheInv'
    BY <2>1, <2>2, CacheStays DEF TriageInv
  <2>5. FeedInv'
    BY <1>8, <2>1, <2>2, SaveFeedStep
  <2>. QED
    BY <2>2, <2>3, <2>4, <2>5 DEF TriageInv
<1>9. ASSUME NEW w \in Refreshers, CacheFails(w) PROVE TriageInv'
  <2>1. /\ UNCHANGED <<chainVars, cache, feed>> /\ faults' \in 0 .. MaxFaults
        /\ job' = [job EXCEPT ![w] = [Idle EXCEPT !.pc = "feed"]]
    BY <1>0, <1>9 DEF CacheFails
  <2>. QED
    BY <2>1, RestingStates, OnlyJobMoves DEF TriageInv
<1>10. ASSUME NEW w \in Refreshers, FeedFails(w) \/ Killed(w) PROVE TriageInv'
  <2>1. /\ UNCHANGED <<chainVars, cache, feed>> /\ faults' \in 0 .. MaxFaults
        /\ job' = [job EXCEPT ![w] = Over(w)]
    BY <1>0, <1>10 DEF FeedFails, Killed
  <2>. QED
    BY <2>1, RestingStates, OnlyJobMoves DEF TriageInv
<1>11. ASSUME NEW w \in Refreshers, FeedOnly(w) PROVE TriageInv'
  <2>1. /\ UNCHANGED <<chainVars, cache, feed>> /\ faults' \in 0 .. MaxFaults
        /\ job' = [job EXCEPT ![w] = [job[w] EXCEPT !.pc = "feed"]]
    BY <1>0, <1>11 DEF FeedOnly, TriageInv, JobsInv
  <2>. QED
    BY <2>1, RestingStates, OnlyJobMoves DEF TriageInv
<1>12. ASSUME NEW w \in Refreshers, CacheOnly(w) PROVE TriageInv'
  <2>1. /\ UNCHANGED <<chainVars, cache, feed>> /\ faults' \in 0 .. MaxFaults
        /\ job' = [job EXCEPT ![w] = Over(w)]
    BY <1>0, <1>12 DEF CacheOnly
  <2>. QED
    BY <2>1, RestingStates, OnlyJobMoves DEF TriageInv
<1>13. ASSUME NEW w \in Refreshers, NEW e \in job[w].todo, HeadMissing(w, e)
       PROVE  TriageInv'
  <2>1. UNCHANGED <<chainVars, cache, feed>> /\ faults' \in 0 .. MaxFaults
    BY <1>0, <1>13 DEF HeadMissing
  <2>. QED
    BY <1>13, <2>1, HeadMissingJob, OnlyJobMoves DEF TriageInv
<1>14. CASE UNCHANGED vars
  <2>1. UNCHANGED chainVars /\ job' = job /\ cache' = cache /\ feed' = feed /\ faults' = faults
    BY <1>14 DEF vars, chainVars
  <2>2. ChainInv' /\ ChainGrows
    BY <1>0, <2>1, ChainStays DEF TriageInv
  <2>. QED
    BY <2>1, <2>2, JobsStay, CacheStays, FeedStays DEF TriageInv
<1>. QED
  BY <1>1, <1>2, <1>3, <1>4, <1>5, <1>6, <1>7, <1>8, <1>9, <1>10, <1>11, <1>12, <1>13, <1>14
     DEF Next, Step

(* The invariant holds in every reachable state.                           *)
THEOREM TriageInvariant == Spec => []TriageInv
  BY InitTriage, NextTriage, PTL DEF Spec

(* Every variable has its type, and each file holds one row per contract.  *)
THEOREM TypesRight == Spec => []TypeOK
<1>1. TriageInv => TypeOK
  BY DEF TriageInv, ChainInv, CacheInv, FeedInv, CacheRowsTrue, CacheRowTrue,
         FeedRowsTrue, FeedRowTrue, TypeOK
<1>. QED
  BY <1>1, TriageInvariant, PTL

(* The cache shows true heads and counts and misses no audit of the walk   *)
(* that made it (refresh_cache, read_audit), however heads moved while it  *)
(* was read.                                                               *)
THEOREM CacheExact == Spec => []CacheIsExact
<1>1. ASSUME TriageInv PROVE CacheRowsTruthful
  BY <1>1 DEF TriageInv, CacheInv, CacheRowsTrue, CacheRowTrue, CacheRowsTruthful
<1>2. ASSUME TriageInv PROVE CacheComplete
  <2>1. PICK w \in Refreshers :
           Covers(TargetsOf(cache.rows) \cup cache.dropped,
                  From(cache.last, WindowOf[w]), cache.last)
    BY <1>2 DEF TriageInv, CacheInv
  <2>2. ASSUME NEW i \in DOMAIN audits, audits[i].block <= cache.last,
               \A v \in Refreshers : From(cache.last, WindowOf[v]) <= audits[i].block
        PROVE  \/ \E r \in cache.rows : r.target = audits[i].target
               \/ audits[i].target \in cache.dropped
    <3>1. From(cache.last, WindowOf[w]) <= audits[i].block
      BY <2>2
    <3>2. audits[i].target \in TargetsOf(cache.rows) \cup cache.dropped
      BY <2>1, <2>2, <3>1 DEF Covers
    <3>. QED
      BY <3>2 DEF TargetsOf
  <2>. QED
    BY <2>2 DEF CacheComplete
<1>3. TriageInv => CacheIsExact
  BY <1>1, <1>2 DEF CacheIsExact
<1>. QED
  BY <1>3, TriageInvariant, PTL

(* The feed tells the truth about its contracts and omits none of the last *)
(* walk's window but for MaxRows newer ones (FeedStore.merge), whatever    *)
(* other refreshers loaded and saved in between.                           *)
THEOREM FeedExact == Spec => []FeedIsExact
<1>1. ASSUME TriageInv PROVE FeedTruthful
  BY <1>1 DEF TriageInv, FeedInv, FeedRowsTrue, FeedRowTrue, FeedTruthful
<1>2. ASSUME TriageInv PROVE FeedComplete
  <2>1. PICK w \in Refreshers :
           FeedCovers(feed.rows, From(feed.last, FeedWindowOf[w]), feed.last)
    BY <1>2 DEF TriageInv, FeedInv
  <2>2. ASSUME NEW t \in CreatedIn(0, feed.last),
               \A v \in Refreshers : ~(created[t] < From(feed.last, FeedWindowOf[v]))
        PROVE  Shown(t, created[t], feed.rows)
    <3>1. t \in Contracts /\ created[t] > 0 /\ created[t] <= feed.last
      BY <2>2 DEF CreatedIn
    <3>2. created[t] \in Nat /\ feed.last \in Nat
      BY <1>2, <3>1 DEF TriageInv, ChainInv, FeedInv, Blocks
    <3>3. From(feed.last, FeedWindowOf[w]) \in Nat
      BY <3>2, WindowFacts, FromFacts
    <3>4. From(feed.last, FeedWindowOf[w]) <= created[t]
      BY <2>2, <3>2, <3>3
    <3>. QED
      BY <2>1, <3>1, <3>4 DEF FeedCovers
  <2>. QED
    BY <2>2 DEF FeedComplete, Shown, FullSince
<1>3. TriageInv => FeedIsExact
  BY <1>1, <1>2 DEF FeedIsExact
<1>. QED
  BY <1>3, TriageInvariant, PTL
=============================================================================
