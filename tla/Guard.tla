--------------------------------- MODULE Guard ---------------------------------
(***************************************************************************)
(* The hallucination guard: which claims ($, %, hex literals, addresses)   *)
(* it finds in a text that the language model wrote, which of them the     *)
(* source, the Tier 1 findings or the bytecode support, and what becomes   *)
(* of the others.                                                          *)
(*                                                                         *)
(* A text is a sequence of characters of the alphabet below: of digits,    *)
(* hex letters and other word characters one or two stand for all.  The    *)
(* lengths of addresses and hex literals are parameters.                   *)
(*                                                                         *)
(* Faulty operators are deliberate mistakes that the properties are tried  *)
(* on.                                                                     *)
(***************************************************************************)
EXTENDS Naturals, Sequences, FiniteSets, SequencesExt, Ordering

CONSTANTS
    AddressDigits,   \* hex digits of an address
    MaxHexDigits,    \* hex digits a hex claim takes at most
    BytecodeMinLen   \* claims shorter than this are not looked up in bytecode

ASSUME GuardAssumption ==
    /\ {AddressDigits, MaxHexDigits, BytecodeMinLen} \subseteq Nat \ {0}
    /\ AddressDigits <= MaxHexDigits

Digits    == {"0", "1"}
HexDigits == Digits \cup {"a"}
WordChars == HexDigits \cup {"x"}
Alphabet  == WordChars \cup {"$", "%", ".", ",", " "}
Mask      == "[unsupported]"

-------------------------------------------------------------------------------
(* Claims. *)

At(t, i, S)   == i \in DOMAIN t /\ t[i] \in S
Past(t, i, S) == CHOOSE j \in i .. Len(t) + 1 :
                     ~At(t, j, S) /\ \A k \in i .. j - 1 : At(t, k, S)
AfterBlank(t, i) == IF At(t, i, {" "}) THEN i + 1 ELSE i
AfterFraction(t, i) ==
    IF At(t, i, {"."}) /\ At(t, i + 1, Digits) THEN Past(t, i + 1, Digits) ELSE i

NoMatch == 0
HexAt(t, i) == At(t, i, {"0"}) /\ At(t, i + 1, {"x"})

(* Where a match that starts at i ends (the first position after it).      *)
AddressEnd(t, i) ==
    LET end == i + 2 + AddressDigits
    IN  IF /\ HexAt(t, i)
           /\ \A k \in i + 2 .. end - 1 : At(t, k, HexDigits)
           /\ ~At(t, end, WordChars)
        THEN end ELSE NoMatch
HexEnd(t, i) ==
    IF HexAt(t, i) /\ At(t, i + 2, HexDigits)
    THEN LET past == Past(t, i + 2, HexDigits)
         IN  IF past > i + 2 + MaxHexDigits THEN i + 2 + MaxHexDigits ELSE past
    ELSE NoMatch
DollarEnd(t, i) ==
    LET from == AfterBlank(t, i + 1)
    IN  IF At(t, i, {"$"}) /\ At(t, from, Digits \cup {","})
        THEN AfterFraction(t, Past(t, from, Digits \cup {","})) ELSE NoMatch
PercentEnd(t, i) ==
    IF ~At(t, i, Digits) THEN NoMatch
    ELSE LET sign == AfterBlank(t, AfterFraction(t, Past(t, i, Digits)))
         IN  IF At(t, sign, {"%"}) THEN sign + 1 ELSE NoMatch

(* _CLAIM_PATTERNS, most specific first. *)
Patterns == <<"address", "hex", "dollar", "percent">>
MatchEnd(k, t, i) ==
    CASE Patterns[k] = "address" -> AddressEnd(t, i)
      [] Patterns[k] = "hex"     -> HexEnd(t, i)
      [] Patterns[k] = "dollar"  -> DollarEnd(t, i)
      [] Patterns[k] = "percent" -> PercentEnd(t, i)

(* finditer: the matches of one pattern from left to right, none of which  *)
(* overlaps another.                                                       *)
Matches(k, t) ==
    LET end == [i \in DOMAIN t |-> MatchEnd(k, t, i)]
        m[i \in 1 .. Len(t) + 1] ==
            IF i > Len(t) THEN {}
            ELSE IF end[i] = NoMatch THEN m[i + 1]
            ELSE {[from |-> i, to |-> end[i], kind |-> k]} \cup m[end[i]]
    IN  m[1]

ExtractClaims(t) == UNION {Matches(k, t) : k \in DOMAIN Patterns}

(* Of claims that start together the longest, then the most specific.      *)
Before(c, d) == c.to > d.to \/ (c.to = d.to /\ c.kind <= d.kind)

(* Claims that do not overlap: the next one is the one that starts first.  *)
Spans(t, claims) ==
    LET s[i \in 1 .. Len(t) + 1] ==
            LET here == {c \in claims : c.from = i}
            IN  IF i > Len(t) THEN {}
                ELSE IF here = {} THEN s[i + 1]
                ELSE LET best == CHOOSE c \in here : \A d \in here : Before(c, d)
                     IN  {best} \cup s[best.to]
    IN  s[1]

-------------------------------------------------------------------------------
(* Support. *)

Norm(t) ==
    LET kept == SelectSeq(t, LAMBDA c : c \notin {" ", ",", "$", "%"})
        n[i \in 1 .. Len(kept) + 1] ==
            IF i > Len(kept) THEN <<>>
            ELSE IF HexAt(kept, i) THEN n[i + 2]
            ELSE <<kept[i]>> \o n[i + 1]
    IN  n[1]

(* What a Tier 1 finding says. *)
TextsOf(f) == <<f.finding, f.fix, f.evidence>>

Corpus(source, bytecode, tier1) ==
    LET strict == Norm(source \o FlattenSeq([i \in DOMAIN tier1 |-> FlattenSeq(TextsOf(tier1[i]))]))
    IN  [strict |-> strict, full |-> strict \o Norm(bytecode)]

OccursIn(n, t) == \E i \in 0 .. Len(t) - Len(n) : SubSeq(t, i + 1, i + Len(n)) = n

(* Everything may be found in the bytecode. *)
FaultySupported(k, claim, corpus) == OccursIn(Norm(claim), corpus.full)

(* Long hex claims may be in the bytecode, all others have to be in the    *)
(* source or in a Tier 1 finding.                                          *)
Supported(k, claim, corpus) ==
    LET n == Norm(claim)
    IN  \/ n = <<>>
        \/ OccursIn(n, corpus.strict)
        \/ /\ Patterns[k] \in {"address", "hex"}
           /\ Len(n) >= BytecodeMinLen
           /\ OccursIn(n, corpus.full)

ClaimIn(t, c)            == SubSeq(t, c.from, c.to - 1)
IsSupported(t, c, corpus) == Supported(c.kind, ClaimIn(t, c), corpus)
Masked(t, corpus)        == {c \in Spans(t, ExtractClaims(t)) : ~IsSupported(t, c, corpus)}

(* The text with a mask in the place of every claim of `claims`. *)
Replace(t, claims) ==
    LET g[i \in 1 .. Len(t) + 1] ==
            LET here == {c \in claims : c.from = i}
            IN  IF i > Len(t) THEN <<>>
                ELSE IF here = {} THEN <<t[i]>> \o g[i + 1]
                ELSE <<Mask>> \o g[(CHOOSE c \in here : TRUE).to]
    IN  g[1]

-------------------------------------------------------------------------------
(* Findings. *)

Labels     == <<"VERIFIED", "COMPUTED", "ESTIMATED", "EMULATED", "LABELED">>
Severities == <<"high", "medium", "low", "info">>
LabelSet    == {Labels[i] : i \in DOMAIN Labels}
SeveritySet == {Severities[i] : i \in DOMAIN Severities}

RankIn(seq, x) == CHOOSE i \in DOMAIN seq : seq[i] = x
DropLabel(label) ==
    LET i == RankIn(Labels, label) IN Labels[IF i = Len(Labels) THEN i ELSE i + 1]

(* parse_findings: what is not a JSON array gives no findings, elements    *)
(* that are no objects are skipped, unknown values become conservative.    *)
(* `evidence` stands for the caveat as well: texts that the guard does not *)
(* look at.                                                                *)
ParseFindings(reply) ==
    IF reply.kind # "array" THEN <<>>
    ELSE LET items == Kept(reply.items, {i \in DOMAIN reply.items : reply.items[i].object})
         IN  [i \in DOMAIN items |->
                [id       |-> items[i].id,
                 severity |-> IF items[i].severity \in SeveritySet THEN items[i].severity ELSE "info",
                 label    |-> IF items[i].label \in LabelSet THEN items[i].label ELSE "ESTIMATED",
                 finding  |-> items[i].finding,
                 fix      |-> items[i].fix,
                 evidence |-> items[i].evidence]]

(* One label tier down for a finding with a masked claim, however many;    *)
(* the evidence stays what the model wrote.                                *)
Guarded(f, inFinding, inFix) ==
    [f EXCEPT !.finding = Replace(@, inFinding),
              !.fix     = Replace(@, inFix),
              !.label   = IF inFinding \cup inFix = {} THEN @ ELSE DropLabel(@)]

(* apply_guard's outcome, with the claims to mask in each finding. *)
Outcome(findings, inFinding, inFix) ==
    LET count(i) == Cardinality(inFinding[i]) + Cardinality(inFix[i])
    IN  [findings    |-> [i \in DOMAIN findings |->
                             Guarded(findings[i], inFinding[i], inFix[i])],
         perFinding  |-> [i \in DOMAIN findings |-> count(i)],
         maskedCount |-> FoldLeft(+, 0, [i \in DOMAIN findings |-> count(i)]),
         labelDrops  |-> Cardinality({i \in DOMAIN findings : count(i) > 0})]

ApplyGuard(findings, corpus) ==
    Outcome(findings, [i \in DOMAIN findings |-> Masked(findings[i].finding, corpus)],
                      [i \in DOMAIN findings |-> Masked(findings[i].fix, corpus)])
===============================================================================
