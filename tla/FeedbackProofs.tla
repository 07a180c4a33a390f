--------------------------- MODULE FeedbackProofs ---------------------------
(***************************************************************************)
(* Theorems about Feedback, for any number of accounts, scripts, payments  *)
(* and transactions: ratings are earned, exit codes and verifications are  *)
(* true.                                                                   *)
(***************************************************************************)
EXTENDS Feedback, SequenceTheorems, FiniteSetTheorems, TLAPS

(* Whoever waits for a transaction in the pool has sent it.                *)
PendingInv ==
    \A a \in Accounts :
        pending[a] # None =>
            runs[pending[a]] \in Started /\ runs[pending[a]].payer = a

(***************************************************************************)
(* Types.                                                                  *)
(***************************************************************************)

(* The steps of the scripts, which leave the chain and the verifier alone. *)
ScriptStep(s) ==
    \/ Start(s) \/ AssertPaid(s) \/ AssertNotAuthorized(s) \/ Estimate(s)
    \/ ReadNonce(s) \/ Raise(s) \/ Receipt(s)

(* A script's own step gives it a state of its type.                       *)
LEMMA ScriptType ==
    ASSUME FeedbackAssumption, TypeOK, NEW s \in Scripts, ScriptStep(s)
    PROVE  \E r \in Idle \cup Started :
               /\ runs' = [runs EXCEPT ![s] = r]
               /\ r.pc = "send" => r \in Started /\ r.nonce <= nonces[r.payer]
<1>1. runs[s] \in Idle \cup Started
  BY DEF TypeOK
<1>2. CASE Start(s)
  <2>1. CASE Set(s, [NotRun EXCEPT !.pc = "done", !.code = "2"])
    <3>. DEFINE r == [NotRun EXCEPT !.pc = "done", !.code = "2"]
    <3>1. r \in Idle /\ r.pc = "done" /\ runs' = [runs EXCEPT ![s] = r]
      BY <2>1 DEF NotRun, Idle, Set
    <3>. HIDE DEF r
    <3>. QED
      BY <3>1
  <2>2. ASSUME NEW a \in Accounts, NEW t \in Targets,
               Set(s, [pc |-> "paid", code |-> None, status |-> None, payer |-> a,
                       target |-> t, nonce |-> 0, paidBefore |-> 0, moved |-> FALSE])
        PROVE  \E r \in Started : runs' = [runs EXCEPT ![s] = r] /\ r.pc = "paid"
    <3>. DEFINE r == [pc |-> "paid", code |-> None, status |-> None, payer |-> a,
                      target |-> t, nonce |-> 0, paidBefore |-> 0, moved |-> FALSE]
    <3>1. r \in Started /\ r.pc = "paid" /\ runs' = [runs EXCEPT ![s] = r]
      BY <2>2 DEF Set, Started, Steps, Codes
    <3>. HIDE DEF r
    <3>. QED
      BY <3>1
  <2>. QED
    BY <1>2, <2>1, <2>2 DEF Start
<1>3. ASSUME runs[s].pc \notin {"new", "done"}
      PROVE  runs[s] \in Started
  BY <1>1, <1>3 DEF Idle
<1>4. CASE AssertPaid(s)
  <2>. DEFINE found == [runs[s] EXCEPT !.pc = "auth", !.paidBefore = Len(payments)]
  <2>. DEFINE failed == [runs[s] EXCEPT !.pc = "done", !.code = "1"]
  <2>1. runs[s] \in Started /\ Len(payments) \in Nat
    BY <1>3, <1>4 DEF AssertPaid, TypeOK
  <2>2. found \in Started /\ found.pc = "auth"
    BY <2>1 DEF Started, Steps, Codes, ExitCode
  <2>3. failed \in Started /\ failed.pc = "done"
    BY <2>1 DEF Started, Steps, Codes, ExitCode
  <2>4. runs' = [runs EXCEPT ![s] = found] \/ runs' = [runs EXCEPT ![s] = failed]
    BY <1>4 DEF AssertPaid, Set, Go, Exit
  <2>. HIDE DEF found, failed
  <2>. QED
    BY <2>2, <2>3, <2>4
<1>5. CASE AssertNotAuthorized(s)
  <2>. DEFINE passed == [runs[s] EXCEPT !.pc = "estimate"]
  <2>. DEFINE failed == [runs[s] EXCEPT !.pc = "done", !.code = "1"]
  <2>1. runs[s] \in Started /\ Len(payments) \in Nat
    BY <1>3, <1>5 DEF AssertNotAuthorized, TypeOK
  <2>2. passed \in Started /\ passed.pc = "estimate"
    BY <2>1 DEF Started, Steps, Codes, ExitCode
  <2>3. failed \in Started /\ failed.pc = "done"
    BY <2>1 DEF Started, Steps, Codes, ExitCode
  <2>4. runs' = [runs EXCEPT ![s] = passed] \/ runs' = [runs EXCEPT ![s] = failed]
    BY <1>5 DEF AssertNotAuthorized, Set, Go, Exit
  <2>. HIDE DEF passed, failed
  <2>. QED
    BY <2>2, <2>3, <2>4
<1>6. CASE Estimate(s)
  <2>. DEFINE passed == [runs[s] EXCEPT !.pc = "nonce"]
  <2>. DEFINE failed == [runs[s] EXCEPT !.pc = "done", !.code = "1"]
  <2>. DEFINE dry == [runs[s] EXCEPT !.pc = "done", !.code = "dry"]
  <2>1. runs[s] \in Started /\ Len(payments) \in Nat
    BY <1>3, <1>6 DEF Estimate, TypeOK
  <2>2. passed \in Started /\ passed.pc = "nonce"
    BY <2>1 DEF Started, Steps, Codes, ExitCode
  <2>3. failed \in Started /\ failed.pc = "done"
    BY <2>1 DEF Started, Steps, Codes, ExitCode
  <2>4. dry \in Started /\ dry.pc = "done"
    BY <2>1 DEF Started, Steps, Codes, ExitCode
  <2>5. runs' = [runs EXCEPT ![s] = passed] \/ runs' = [runs EXCEPT ![s] = failed] \/ runs' = [runs EXCEPT ![s] = dry]
    BY <1>6 DEF Estimate, Set, Go, Exit
  <2>. HIDE DEF passed, failed, dry
  <2>. QED
    BY <2>2, <2>3, <2>4, <2>5
<1>7. CASE ReadNonce(s)
  <2>. DEFINE r == [runs[s] EXCEPT !.pc = "send", !.nonce = nonces[runs[s].payer]]
  <2>1. runs[s] \in Started
    BY <1>3, <1>7 DEF ReadNonce
  <2>2. runs[s].payer \in Accounts /\ nonces[runs[s].payer] \in Nat
    BY <2>1 DEF Started, TypeOK
  <2>3. r \in Started
    BY <2>1, <2>2 DEF Started, Steps
  <2>4. r.payer = runs[s].payer /\ r.nonce = nonces[runs[s].payer]
    BY <2>1 DEF Started
  <2>5. runs' = [runs EXCEPT ![s] = r]
    BY <1>7 DEF ReadNonce, TransactionCount, Set
  <2>. HIDE DEF r
  <2>6. nonces[r.payer] \in Nat /\ r.nonce = nonces[r.payer]
    BY <2>2, <2>4
  <2>7. r.nonce <= nonces[r.payer]
    BY <2>6
  <2>. QED
    BY <2>3, <2>5, <2>7
<1>8. CASE Raise(s)
  <2>. DEFINE raised == [runs[s] EXCEPT !.pc = "done", !.code = "raised"]
  <2>1. runs[s] \in Started /\ Len(payments) \in Nat
    BY <1>3, <1>8 DEF Raise, TypeOK
  <2>2. raised \in Started /\ raised.pc = "done"
    BY <2>1 DEF Started, Steps, Codes, ExitCode
  <2>3. runs' = [runs EXCEPT ![s] = raised]
    BY <1>8 DEF Raise, Set, Go, Exit
  <2>. HIDE DEF raised
  <2>. QED
    BY <2>2, <2>3
<1>9. CASE Receipt(s)
  <2>. DEFINE told == [runs[s] EXCEPT !.pc = "done", !.code = ExitCode(runs[s].status)]
  <2>1. runs[s] \in Started /\ Len(payments) \in Nat
    BY <1>3, <1>9 DEF Receipt, TypeOK
  <2>2. told \in Started /\ told.pc = "done"
    BY <2>1 DEF Started, Steps, Codes, ExitCode
  <2>3. runs' = [runs EXCEPT ![s] = told]
    BY <1>9 DEF Receipt, Set, Go, Exit
  <2>. HIDE DEF told
  <2>. QED
    BY <2>2, <2>3
<1>. QED
  BY <1>2, <1>4, <1>5, <1>6, <1>7, <1>8, <1>9 DEF ScriptStep

(* A rating joins the account's entries at the end.                        *)
LEMMA Rates ==
    ASSUME TypeOK, NEW a \in Accounts, NEW s \in Scripts \cup {None},
           NEW t \in Targets \cup {None}, a \notin authorized, GiveFeedback(a, s, t)
    PROVE  /\ entries' \in [Accounts -> Seq(Entries)]
           /\ \A b \in Accounts : b # a => entries'[b] = entries[b]
           /\ Len(entries'[a]) = Len(entries[a]) + 1
           /\ DOMAIN entries'[a] = DOMAIN entries[a] \cup {Len(entries[a]) + 1}
           /\ \A i \in DOMAIN entries[a] : entries'[a][i] = entries[a][i]
           /\ entries'[a][Len(entries[a]) + 1] = Entry(s, t)
<1>1. entries \in [Accounts -> Seq(Entries)] /\ entries[a] \in Seq(Entries)
  BY DEF TypeOK
<1>2. Entry(s, t) \in Entries
  BY DEF Entry, Entries
<1>3. entries' = [entries EXCEPT ![a] = Append(entries[a], Entry(s, t))]
  BY DEF GiveFeedback
<1>4. Append(entries[a], Entry(s, t)) \in Seq(Entries)
  BY <1>1, <1>2
<1>5. entries'[a] = Append(entries[a], Entry(s, t))
  BY <1>1, <1>3
<1>6. /\ entries' \in [Accounts -> Seq(Entries)]
      /\ \A b \in Accounts : b # a => entries'[b] = entries[b]
  BY <1>1, <1>3, <1>4
<1>. HIDE DEF Entry, Entries
<1>. QED
  BY <1>1, <1>2, <1>5, <1>6

(* A revocation changes nothing but the flag.                              *)
LEMMA Revokes ==
    ASSUME TypeOK, NEW a \in Accounts, NEW i \in DOMAIN entries[a],
           entries' = [entries EXCEPT ![a][i].revoked = TRUE]
    PROVE  /\ entries' \in [Accounts -> Seq(Entries)]
           /\ \A b \in Accounts :
                  /\ b # a => entries'[b] = entries[b]
                  /\ Len(entries'[b]) = Len(entries[b])
                  /\ DOMAIN entries'[b] = DOMAIN entries[b]
                  /\ \A j \in DOMAIN entries[b] :
                         /\ entries'[b][j].script = entries[b][j].script
                         /\ entries'[b][j].target = entries[b][j].target
<1>1. entries \in [Accounts -> Seq(Entries)] /\ entries[a] \in Seq(Entries)
  BY DEF TypeOK
<1>2. entries[a][i] \in Entries
  BY <1>1
<1>. DEFINE e == [entries[a][i] EXCEPT !.revoked = TRUE]
<1>3. e \in Entries /\ e.script = entries[a][i].script /\ e.target = entries[a][i].target
  BY <1>2 DEF Entries
<1>4. entries' = [entries EXCEPT ![a] = [entries[a] EXCEPT ![i] = e]]
  BY <1>1
<1>. HIDE DEF e
<1>5. [entries[a] EXCEPT ![i] = e] \in Seq(Entries)
  BY <1>1, <1>3
<1>6. /\ entries' \in [Accounts -> Seq(Entries)]
      /\ entries'[a] = [entries[a] EXCEPT ![i] = e]
      /\ \A b \in Accounts : b # a => entries'[b] = entries[b]
  BY <1>1, <1>4, <1>5
<1>7. /\ Len(entries'[a]) = Len(entries[a])
      /\ DOMAIN entries'[a] = DOMAIN entries[a]
      /\ \A j \in DOMAIN entries[a] :
             entries'[a][j] = IF j = i THEN e ELSE entries[a][j]
  <2>1. /\ Len([entries[a] EXCEPT ![i] = e]) = Len(entries[a])
        /\ DOMAIN [entries[a] EXCEPT ![i] = e] = DOMAIN entries[a]
    BY <1>1, <1>5
  <2>. QED
    BY <1>6, <2>1
<1>8. ASSUME NEW b \in Accounts, NEW j \in DOMAIN entries[b]
      PROVE  /\ entries'[b][j].script = entries[b][j].script
             /\ entries'[b][j].target = entries[b][j].target
  <2>1. CASE b = a /\ j = i
    <3>1. entries'[a][i] = e
      BY <1>7
    <3>. QED
      BY <1>3, <2>1, <3>1
  <2>2. CASE b = a /\ j # i
    BY <1>7, <2>2
  <2>3. CASE b # a
    BY <1>6, <2>3
  <2>. QED
    BY <2>1, <2>2, <2>3
<1>9. \A b \in Accounts :
          Len(entries'[b]) = Len(entries[b]) /\ DOMAIN entries'[b] = DOMAIN entries[b]
  BY <1>6, <1>7
<1>. QED
  BY <1>6, <1>8, <1>9

(* A verification that is told of a change keeps its type.                 *)
LEMMA TouchedType ==
    ASSUME TypeOK, NEW a \in Accounts, verifier' = Touched(a)
    PROVE  verifier' \in Verifications
<1>1. verifier \in Verifications
  BY DEF TypeOK
<1>2. CASE verifier.pc \in {"new", "done"}
  BY <1>1, <1>2 DEF Touched
<1>3. CASE verifier \in [pc : {"last"}, payer : Accounts, touched : BOOLEAN, ok : BOOLEAN]
  BY <1>3 DEF Touched, Verifications
<1>4. CASE verifier \in [pc : {"read", "summary", "done"}, payer : Accounts,
                         touched : BOOLEAN, ok : BOOLEAN, last : Nat]
  BY <1>4 DEF Touched, Verifications
<1>. QED
  BY <1>1, <1>2, <1>3, <1>4 DEF Verifications

(* Types are kept by every step.                                           *)
LEMMA TypeStep ==
    ASSUME FeedbackAssumption, TypeOK, PendingInv, [Next]_vars
    PROVE  TypeOK'
<1>. DEFINE Sends == \A s \in Scripts :
                         runs[s].pc = "send" => runs[s].nonce <= nonces[runs[s].payer]
<1>1. CASE UNCHANGED vars
  BY <1>1 DEF TypeOK, vars, chainVars
<1>2. CASE PayForAudit
  <2>1. payments' \in Seq(Payment)
    BY <1>2 DEF PayForAudit, TypeOK
  <2>. QED
    BY <1>2, <2>1 DEF PayForAudit, TypeOK
<1>3. CASE ChangeAuthorized
  <2>1. PICK a \in Accounts :
            /\ authorized' = IF a \in authorized THEN authorized \ {a} ELSE authorized \cup {a}
            /\ verifier' = Touched(a)
            /\ runs' = [s \in Scripts |->
                   IF pending[a] = s
                      \/ (runs[s].pc \in {"nonce", "send", "wait"} /\ runs[s].payer = a)
                   THEN [runs[s] EXCEPT !.moved = TRUE] ELSE runs[s]]
    BY <1>3 DEF ChangeAuthorized
  <2>2. authorized' \subseteq Accounts /\ transfers' \in 0 .. MaxTransfers
    BY <1>3, <2>1 DEF ChangeAuthorized, TypeOK, FeedbackAssumption
  <2>3. ASSUME NEW s \in Scripts
        PROVE  /\ runs'[s] \in Idle \cup Started
               /\ runs'[s].pc = "send" =>
                      /\ runs[s].pc = "send"
                      /\ runs'[s].nonce = runs[s].nonce /\ runs'[s].payer = runs[s].payer
    <3>1. CASE runs[s] \in Started
      <4>1. /\ [runs[s] EXCEPT !.moved = TRUE] \in Started
            /\ [runs[s] EXCEPT !.moved = TRUE].pc = runs[s].pc
            /\ [runs[s] EXCEPT !.moved = TRUE].nonce = runs[s].nonce
            /\ [runs[s] EXCEPT !.moved = TRUE].payer = runs[s].payer
        BY <3>1 DEF Started
      <4>2. runs'[s] \in {runs[s], [runs[s] EXCEPT !.moved = TRUE]}
        BY <2>1
      <4>. QED
        BY <3>1, <4>1, <4>2
    <3>2. CASE runs[s] \in Idle
      <4>1. /\ [runs[s] EXCEPT !.moved = TRUE] = runs[s]
        BY <3>2 DEF Idle
      <4>2. runs'[s] = runs[s]
        BY <2>1, <4>1
      <4>. QED
        BY <3>2, <4>2
    <3>. QED
      BY <3>1, <3>2 DEF TypeOK
  <2>4. runs' \in [Scripts -> Idle \cup Started]
    BY <2>1, <2>3
  <2>5. Sends'
    BY <1>3, <2>3 DEF TypeOK, ChangeAuthorized
  <2>6. verifier' \in Verifications
    BY <2>1, TouchedType
  <2>. QED
    BY <1>3, <2>2, <2>4, <2>5, <2>6 DEF TypeOK, ChangeAuthorized
<1>4. ASSUME NEW s \in Scripts, ScriptStep(s)
      PROVE  TypeOK'
  <2>1. UNCHANGED <<chainVars, verifier>>
    BY <1>4 DEF ScriptStep, Start, AssertPaid, AssertNotAuthorized, Estimate,
                ReadNonce, Raise, Receipt
  <2>2. PICK r \in Idle \cup Started :
            /\ runs' = [runs EXCEPT ![s] = r]
            /\ r.pc = "send" => r \in Started /\ r.nonce <= nonces[r.payer]
    BY <1>4, ScriptType
  <2>3. runs' \in [Scripts -> Idle \cup Started]
    BY <2>2 DEF TypeOK
  <2>4. Sends'
    BY <2>1, <2>2 DEF TypeOK, chainVars
  <2>. QED
    BY <2>1, <2>3, <2>4 DEF TypeOK, chainVars
<1>5. ASSUME NEW s \in Scripts, Send(s)
      PROVE  TypeOK'
  <2>. DEFINE waits  == [runs[s] EXCEPT !.pc = "wait"]
              raised == [runs[s] EXCEPT !.pc = "done", !.code = "raised"]
  <2>1. runs[s] \in Started
    BY <1>5 DEF Send, TypeOK, Idle
  <2>2. /\ waits \in Started /\ waits.pc = "wait"
        /\ raised \in Started /\ raised.pc = "done"
    BY <2>1 DEF Started, Steps, Codes
  <2>3. runs' = [runs EXCEPT ![s] = waits] \/ runs' = [runs EXCEPT ![s] = raised]
    BY <1>5 DEF Send, Go, Exit, Set
  <2>. HIDE DEF waits, raised
  <2>4. pending' \in [Accounts -> Scripts \cup {None}]
    BY <1>5 DEF Send, TypeOK
  <2>5. runs' \in [Scripts -> Idle \cup Started]
    BY <2>2, <2>3 DEF TypeOK
  <2>6. Sends'
    BY <1>5, <2>2, <2>3 DEF TypeOK, Send
  <2>. QED
    BY <1>5, <2>4, <2>5, <2>6 DEF TypeOK, Send
<1>6. ASSUME NEW a \in Accounts, nonces' = [nonces EXCEPT ![a] = @ + 1],
             pending' = [pending EXCEPT ![a] = None]
      PROVE  /\ nonces' \in [Accounts -> Nat]
             /\ pending' \in [Accounts -> Scripts \cup {None}]
             /\ \A b \in Accounts : nonces[b] <= nonces'[b]
             /\ nonces'[a] = nonces[a] + 1
  BY <1>6 DEF TypeOK
<1>7. ASSUME NEW a \in Accounts, Mine(a)
      PROVE  TypeOK'
  <2>. DEFINE s == pending[a]
              mined == [runs[s] EXCEPT !.status = IF a \in authorized THEN 0 ELSE 1]
  <2>1. s \in Scripts /\ runs[s] \in Started /\ runs[s].target \in Targets
    BY <1>7 DEF Mine, TypeOK, PendingInv, Started
  <2>2. mined \in Started /\ mined.pc = runs[s].pc /\ mined.nonce = runs[s].nonce
        /\ mined.payer = runs[s].payer
    BY <2>1 DEF Started
  <2>3. runs' = [runs EXCEPT ![s] = mined]
    BY <1>7, <2>1 DEF Mine, TypeOK
  <2>4. /\ nonces' \in [Accounts -> Nat]
        /\ pending' \in [Accounts -> Scripts \cup {None}]
        /\ \A b \in Accounts : nonces[b] <= nonces'[b]
        /\ nonces'[a] = nonces[a] + 1
    BY <1>6, <1>7 DEF Mine
  <2>5. verifier' \in Verifications
    BY <1>7, TouchedType DEF Mine
  <2>6. /\ entries' \in [Accounts -> Seq(Entries)]
        /\ \A b \in Accounts : Len(entries'[b]) <= nonces'[b]
    <3>1. CASE a \in authorized
      <4>1. entries' = entries
        BY <1>7, <3>1 DEF Mine, GiveFeedback
      <4>. QED
        BY <2>4, <4>1 DEF TypeOK
    <3>2. CASE a \notin authorized
      <4>1. GiveFeedback(a, s, runs[s].target)
        BY <1>7 DEF Mine
      <4>2. /\ entries' \in [Accounts -> Seq(Entries)]
            /\ \A b \in Accounts : b # a => entries'[b] = entries[b]
            /\ Len(entries'[a]) = Len(entries[a]) + 1
        BY <2>1, <3>2, <4>1, Rates
      <4>3. ASSUME NEW b \in Accounts
            PROVE  Len(entries'[b]) <= nonces'[b]
        <5>1. /\ Len(entries[b]) \in Nat /\ nonces[b] \in Nat /\ nonces'[b] \in Nat
              /\ Len(entries[b]) <= nonces[b]
          BY <2>4 DEF TypeOK
        <5>2. CASE b = a
          <6>1. Len(entries'[b]) = Len(entries[b]) + 1 /\ nonces'[b] = nonces[b] + 1
            BY <2>4, <4>2, <5>2
          <6>. QED
            BY <5>1, <6>1
        <5>3. CASE b # a
          <6>1. Len(entries'[b]) = Len(entries[b]) /\ nonces[b] <= nonces'[b]
            BY <2>4, <4>2, <5>3
          <6>. QED
            BY <5>1, <6>1
        <5>. QED
          BY <5>2, <5>3
      <4>. QED
        BY <4>2, <4>3
    <3>. QED
      BY <3>1, <3>2
  <2>. HIDE DEF mined
  <2>7. runs' \in [Scripts -> Idle \cup Started]
    BY <2>1, <2>2, <2>3 DEF TypeOK
  <2>8. ASSUME NEW p \in Scripts, runs'[p].pc = "send"
        PROVE  runs'[p].nonce <= nonces'[runs'[p].payer]
    <3>1. /\ runs'[p].pc = runs[p].pc /\ runs'[p].nonce = runs[p].nonce
          /\ runs'[p].payer = runs[p].payer
      BY <2>1, <2>2, <2>3 DEF TypeOK
    <3>2. runs[p] \in Started
      BY <2>8, <3>1 DEF TypeOK, Idle
    <3>3. runs[p].payer \in Accounts /\ runs[p].nonce \in Nat
      BY <3>2 DEF Started
    <3>. QED
      BY <2>4, <2>8, <3>1, <3>3 DEF TypeOK
  <2>. QED
    BY <1>7, <2>4, <2>5, <2>6, <2>7, <2>8 DEF TypeOK, Mine
<1>8. ASSUME NEW a \in Accounts, Otherwise(a)
      PROVE  TypeOK'
  <2>1. /\ nonces' \in [Accounts -> Nat]
        /\ pending' \in [Accounts -> Scripts \cup {None}]
        /\ \A b \in Accounts : nonces[b] <= nonces'[b]
        /\ nonces'[a] = nonces[a] + 1
    BY <1>6, <1>8 DEF Otherwise
  <2>2. verifier' \in Verifications
    BY <1>8, TouchedType DEF Otherwise
  <2>3. /\ entries' \in [Accounts -> Seq(Entries)]
        /\ \A b \in Accounts : Len(entries'[b]) <= nonces'[b]
    <3>1. CASE entries' = entries
      BY <2>1, <3>1 DEF TypeOK
    <3>2. CASE a \notin authorized /\ GiveFeedback(a, None, None)
      <4>1. /\ entries' \in [Accounts -> Seq(Entries)]
            /\ \A b \in Accounts : b # a => entries'[b] = entries[b]
            /\ Len(entries'[a]) = Len(entries[a]) + 1
        BY <3>2, Rates
      <4>2. ASSUME NEW b \in Accounts
            PROVE  Len(entries'[b]) <= nonces'[b]
        <5>1. /\ Len(entries[b]) \in Nat /\ nonces[b] \in Nat /\ nonces'[b] \in Nat
              /\ Len(entries[b]) <= nonces[b]
          BY <2>1 DEF TypeOK
        <5>2. CASE b = a
          <6>1. Len(entries'[b]) = Len(entries[b]) + 1 /\ nonces'[b] = nonces[b] + 1
            BY <2>1, <4>1, <5>2
          <6>. QED
            BY <5>1, <6>1
        <5>3. CASE b # a
          <6>1. Len(entries'[b]) = Len(entries[b]) /\ nonces[b] <= nonces'[b]
            BY <2>1, <4>1, <5>3
          <6>. QED
            BY <5>1, <6>1
        <5>. QED
          BY <5>2, <5>3
      <4>. QED
        BY <4>1, <4>2
    <3>3. ASSUME NEW i \in DOMAIN entries[a],
                 entries' = [entries EXCEPT ![a][i].revoked = TRUE]
          PROVE  /\ entries' \in [Accounts -> Seq(Entries)]
                 /\ \A b \in Accounts : Len(entries'[b]) <= nonces'[b]
      <4>1. /\ entries' \in [Accounts -> Seq(Entries)]
            /\ \A b \in Accounts : Len(entries'[b]) = Len(entries[b])
        BY <3>3, Revokes
      <4>. QED
        BY <2>1, <4>1 DEF TypeOK
    <3>. QED
      BY <1>8, <3>1, <3>2, <3>3 DEF Otherwise, GiveFeedback
  <2>4. ASSUME NEW p \in Scripts, runs[p].pc = "send"
        PROVE  runs[p].nonce <= nonces'[runs[p].payer]
    <3>1. runs[p].payer \in Accounts /\ runs[p].nonce \in Nat
      BY <2>4 DEF TypeOK, Idle, Started
    <3>. QED
      BY <2>1, <2>4, <3>1 DEF TypeOK
  <2>. QED
    BY <1>8, <2>1, <2>2, <2>3, <2>4 DEF TypeOK, Otherwise
<1>9. CASE VerifyAuthorized \/ VerifyLast \/ VerifyRead \/ VerifySummary
  <2>1. UNCHANGED <<chainVars, runs>>
    BY <1>9 DEF VerifyAuthorized, VerifyLast, VerifyRead, VerifySummary
  <2>2. verifier' \in Verifications
    <3>1. CASE VerifyAuthorized
      BY <3>1 DEF VerifyAuthorized, Verifications
    <3>2. CASE VerifyLast
      <4>1. /\ verifier.payer \in Accounts /\ verifier.touched \in BOOLEAN
            /\ verifier.ok \in BOOLEAN
        BY <3>2 DEF VerifyLast, TypeOK, Verifications
      <4>2. Len(entries[verifier.payer]) \in Nat
        BY <4>1 DEF TypeOK
      <4>. QED
        BY <3>2, <4>1, <4>2 DEF VerifyLast, Verifications
    <3>3. CASE VerifyRead
      <4>1. verifier \in [pc : {"read", "summary", "done"}, payer : Accounts,
                          touched : BOOLEAN, ok : BOOLEAN, last : Nat]
        BY <3>3 DEF VerifyRead, TypeOK, Verifications
      <4>. QED
        BY <3>3, <4>1 DEF VerifyRead, Verifications
    <3>4. CASE VerifySummary
      <4>1. verifier \in [pc : {"read", "summary", "done"}, payer : Accounts,
                          touched : BOOLEAN, ok : BOOLEAN, last : Nat]
        BY <3>4 DEF VerifySummary, TypeOK, Verifications
      <4>. QED
        BY <3>4, <4>1 DEF VerifySummary, Verifications
    <3>. QED
      BY <1>9, <3>1, <3>2, <3>3, <3>4
  <2>. QED
    BY <2>1, <2>2 DEF TypeOK, chainVars
<1>. QED
  BY <1>1, <1>2, <1>3, <1>4, <1>5, <1>7, <1>8, <1>9 DEF Next, ScriptStep

-------------------------------------------------------------------------------
(***************************************************************************)
(* The inductive invariant of the scripts.                                 *)
(***************************************************************************)

(* The payment that the run has seen. *)
Vetted(r) ==
    /\ r.paidBefore <= Len(payments)
    /\ \E i \in 1 .. r.paidBefore : AuditPaidIn(payments[i], r.payer, r.target)

Waiting(s) == \E a \in Accounts : pending[a] = s
Rated(s) == \E a \in Accounts : \E i \in DOMAIN entries[a] : entries[a][i].script = s

(* What run s, in state r, knows and has done. *)
RunInv(s, r) ==
    /\ r \in Idle => ~Waiting(s) /\ ~Rated(s)
    /\ r \in Started =>
         /\ r.pc \in {"auth", "estimate", "nonce", "send", "wait"} => Vetted(r)
         /\ r.pc \in {"paid", "auth", "estimate", "nonce", "send"} =>
                r.status = None /\ ~Waiting(s)
         /\ Waiting(s) => Vetted(r) /\ r.status = None
         /\ r.pc # "done" => r.code = None
         /\ r.code = "0" => r.status = 1
         /\ r.code \in {"1", "dry"} => r.status # 1 /\ ~Waiting(s)
         /\ r.status = 0 => r.moved
         /\ (r.pc \in {"nonce", "send", "wait"} \/ Waiting(s)) /\ r.payer \in authorized =>
                r.moved
         /\ Rated(s) <=> r.status = 1

RunsInv == \A s \in Scripts : RunInv(s, runs[s])

(* An entry of a script is what its run had prepared, and its only one. *)
EntryInv ==
    /\ \A a \in Accounts : \A i \in DOMAIN entries[a] :
         LET s == entries[a][i].script IN
         s # None => /\ runs[s] \in Started
                     /\ runs[s].payer = a /\ runs[s].target = entries[a][i].target
                     /\ Vetted(runs[s])
    /\ \A a, b \in Accounts : \A i \in DOMAIN entries[a], j \in DOMAIN entries[b] :
         entries[a][i].script = entries[b][j].script /\ entries[a][i].script # None =>
             a = b /\ i = j

FeedbackInv == TypeOK /\ PendingInv /\ RunsInv /\ EntryInv

(* A run's own step keeps the invariant if the run's new state fits and,   *)
(* once it has sent or rated anything, keeps what it had prepared.         *)
LEMMA OwnStep ==
    ASSUME FeedbackInv, NEW s \in Scripts, NEW r \in Idle \cup Started,
           runs' = [runs EXCEPT ![s] = r], UNCHANGED chainVars, RunInv(s, r),
           Waiting(s) \/ Rated(s) =>
               /\ r \in Started
               /\ r.payer = runs[s].payer /\ r.target = runs[s].target
               /\ r.paidBefore = runs[s].paidBefore
    PROVE  PendingInv' /\ RunsInv' /\ EntryInv'
<1>1. /\ runs \in [Scripts -> Idle \cup Started]
      /\ entries \in [Accounts -> Seq(Entries)]
      /\ pending \in [Accounts -> Scripts \cup {None}]
  BY DEF FeedbackInv, TypeOK
<1>2. runs'[s] = r /\ \A p \in Scripts : p # s => runs'[p] = runs[p]
  BY <1>1
<1>3. PendingInv'
  <2>1. ASSUME NEW a \in Accounts, pending[a] # None
        PROVE  runs'[pending[a]] \in Started /\ runs'[pending[a]].payer = a
    <3>1. pending[a] \in Scripts /\ Waiting(pending[a])
      BY <1>1, <2>1 DEF Waiting
    <3>. QED
      BY <1>2, <2>1, <3>1 DEF FeedbackInv, PendingInv
  <2>. QED
    BY <2>1 DEF PendingInv, chainVars
<1>4. RunsInv'
  <2>1. ASSUME NEW p \in Scripts, NEW q \in Idle \cup Started, RunInv(p, q)
        PROVE  RunInv(p, q)'
    BY <2>1 DEF RunInv, Waiting, Rated, Vetted, chainVars
  <2>2. \A p \in Scripts : runs'[p] \in Idle \cup Started /\ RunInv(p, runs'[p])
    BY <1>1, <1>2 DEF FeedbackInv, RunsInv
  <2>3. ASSUME NEW p \in Scripts
        PROVE  RunInv(p, runs[p])'
    <3>1. PICK q \in Idle \cup Started : q = runs'[p]
      BY <2>2
    <3>2. RunInv(p, q)'
      BY <2>1, <2>2, <3>1
    <3>. QED
      BY <3>1, <3>2
  <2>. QED
    BY <2>3 DEF RunsInv
<1>5. EntryInv'
  <2>1. ASSUME NEW a \in Accounts, NEW i \in DOMAIN entries[a], entries[a][i].script # None
        PROVE  LET p == entries[a][i].script IN
               /\ runs'[p] \in Started
               /\ runs'[p].payer = a /\ runs'[p].target = entries[a][i].target
               /\ runs'[p].paidBefore = runs[p].paidBefore
    <3>. DEFINE p == entries[a][i].script
    <3>1. p \in Scripts /\ Rated(p)
      <4>1. entries[a] \in Seq(Entries)
        BY <1>1
      <4>2. entries[a][i] \in Entries
        BY <4>1
      <4>. QED
        BY <2>1, <4>2 DEF Rated, Entries
    <3>2. runs[p] \in Started /\ runs[p].payer = a /\ runs[p].target = entries[a][i].target
      BY <2>1 DEF FeedbackInv, EntryInv
    <3>. QED
      BY <1>2, <3>1, <3>2
  <2>. QED
    BY <2>1 DEF FeedbackInv, EntryInv, Vetted, chainVars
<1>. QED
  BY <1>3, <1>4, <1>5

(* The scripts' own steps keep the invariant.                              *)
LEMMA ScriptKeeps ==
    ASSUME FeedbackAssumption, FeedbackInv, NEW s \in Scripts, ScriptStep(s)
    PROVE  PendingInv' /\ RunsInv' /\ EntryInv'
<1>. DEFINE Goal == PendingInv' /\ RunsInv' /\ EntryInv'
<1>1. /\ runs[s] \in Idle \cup Started
      /\ RunInv(s, runs[s])
      /\ Len(payments) \in Nat
  BY DEF FeedbackInv, TypeOK, RunsInv
<1>2. UNCHANGED chainVars
  BY DEF ScriptStep, Start, AssertPaid, AssertNotAuthorized, Estimate, ReadNonce, Raise,
         Receipt
<1>3. CASE Start(s)
  <2>1. ~Waiting(s) /\ ~Rated(s)
    BY <1>1, <1>3 DEF Start, NotRun, Idle, RunInv
  <2>2. CASE Set(s, [NotRun EXCEPT !.pc = "done", !.code = "2"])
    <3>. DEFINE r == [NotRun EXCEPT !.pc = "done", !.code = "2"]
    <3>1. r \in Idle /\ r \notin Started /\ runs' = [runs EXCEPT ![s] = r]
      BY <2>2 DEF NotRun, Idle, Started, Set
    <3>. HIDE DEF r
    <3>2. RunInv(s, r)
      BY <2>1, <3>1 DEF RunInv
    <3>. QED
      BY <1>2, <2>1, <3>1, <3>2, OwnStep
  <2>3. ASSUME NEW a \in Accounts, NEW t \in Targets,
               Set(s, [pc |-> "paid", code |-> None, status |-> None, payer |-> a,
                       target |-> t, nonce |-> 0, paidBefore |-> 0, moved |-> FALSE])
        PROVE  Goal
    <3>. DEFINE r == [pc |-> "paid", code |-> None, status |-> None, payer |-> a,
                      target |-> t, nonce |-> 0, paidBefore |-> 0, moved |-> FALSE]
    <3>1. /\ r \in Started /\ runs' = [runs EXCEPT ![s] = r]
          /\ r.pc = "paid" /\ r.code = None /\ r.status = None
      BY <2>3 DEF Started, Steps, Codes, Set
    <3>2. r \notin Idle
      BY DEF Idle
    <3>. HIDE DEF r
    <3>3. RunInv(s, r)
      BY <2>1, <3>1, <3>2 DEF RunInv, FeedbackAssumption
    <3>. QED
      BY <1>2, <2>1, <3>1, <3>3, OwnStep
  <2>. QED
    BY <1>3, <2>2, <2>3 DEF Start
<1>4. ASSUME runs[s].pc \notin {"new", "done"}
      PROVE  runs[s] \in Started
  BY <1>1, <1>4 DEF Idle
<1>5. ASSUME NEW pc \in Steps \ {"new"}, NEW code \in Codes \ {"2"}, runs[s] \in Started,
             runs' = [runs EXCEPT ![s] = [runs[s] EXCEPT !.pc = pc, !.code = code]],
             pc \in {"auth", "estimate", "nonce", "send", "wait"} => Vetted(runs[s]),
             pc \in {"paid", "auth", "estimate", "nonce", "send"} =>
                 runs[s].status = None /\ ~Waiting(s),
             pc # "done" => code = None,
             code = "0" => runs[s].status = 1,
             code \in {"1", "dry"} => runs[s].status # 1 /\ ~Waiting(s),
             (pc \in {"nonce", "send", "wait"} \/ Waiting(s)) /\ runs[s].payer \in authorized =>
                 runs[s].moved
      PROVE  Goal
  <2>. DEFINE r == [runs[s] EXCEPT !.pc = pc, !.code = code]
  <2>1. /\ r \in Started /\ r \notin Idle
        /\ r.pc = pc /\ r.code = code
        /\ r.status = runs[s].status /\ r.moved = runs[s].moved
        /\ r.payer = runs[s].payer /\ r.target = runs[s].target
        /\ r.paidBefore = runs[s].paidBefore
    BY <1>5 DEF Started, Idle
  <2>2. runs' = [runs EXCEPT ![s] = r]
    BY <1>5
  <2>. HIDE DEF r
  <2>3. RunInv(s, r)
    BY <1>1, <1>5, <2>1 DEF RunInv, Vetted
  <2>. QED
    BY <1>2, <2>1, <2>2, <2>3, OwnStep
<1>6. ASSUME runs[s] \in Started, NEW pc
      PROVE  [runs[s] EXCEPT !.pc = pc] = [runs[s] EXCEPT !.pc = pc, !.code = runs[s].code]
  BY <1>6 DEF Started
<1>7. CASE AssertPaid(s)
  <2>1. runs[s] \in Started
    BY <1>4, <1>7 DEF AssertPaid
  <2>2. CASE runs' = [runs EXCEPT ![s] = [runs[s] EXCEPT !.pc = "done", !.code = "1"]]
    <3>1. ~Waiting(s) /\ runs[s].status = None
      BY <1>1, <1>7, <2>1 DEF AssertPaid, RunInv
    <3>2. "done" \in Steps \ {"new"} /\ "1" \in Codes \ {"2"}
      BY DEF Steps, Codes, FeedbackAssumption
    <3>. QED
      BY <1>5, <2>1, <2>2, <3>1, <3>2
  <2>3. ASSUME NEW looked,
               looked \in {{i} : i \in DOMAIN payments}
                          \cup {i .. Len(payments) : i \in DOMAIN payments} \cup {{}},
               NEW i \in looked, AuditPaidIn(payments[i], runs[s].payer, runs[s].target),
               runs' = [runs EXCEPT ![s] = [runs[s] EXCEPT !.pc = "auth",
                                                           !.paidBefore = Len(payments)]]
        PROVE  Goal
    <3>. DEFINE r == [runs[s] EXCEPT !.pc = "auth", !.paidBefore = Len(payments)]
    <3>1. i \in 1 .. Len(payments)
      BY <1>1, <2>3 DEF FeedbackInv, TypeOK
    <3>2. /\ r \in Started /\ runs' = [runs EXCEPT ![s] = r]
          /\ r.pc = "auth" /\ r.code = runs[s].code /\ r.status = runs[s].status
          /\ r.payer = runs[s].payer /\ r.target = runs[s].target
          /\ r.paidBefore = Len(payments) /\ r.moved = runs[s].moved
      BY <1>1, <2>1, <2>3 DEF Started, Steps
    <3>3. r \notin Idle
      BY DEF Idle
    <3>. HIDE DEF r
    <3>4. Vetted(r)
      BY <1>1, <2>3, <3>1, <3>2 DEF Vetted
    <3>5. ~Waiting(s) /\ ~Rated(s) /\ runs[s].status = None /\ runs[s].code = None
      BY <1>1, <1>7, <2>1 DEF AssertPaid, RunInv, FeedbackAssumption
    <3>6. RunInv(s, r)
      BY <1>1, <2>1, <3>2, <3>3, <3>4, <3>5 DEF RunInv, FeedbackAssumption
    <3>. QED
      BY <1>2, <3>2, <3>5, <3>6, OwnStep
  <2>. QED
    BY <1>7, <2>2, <2>3 DEF AssertPaid, Set, Exit
<1>8. CASE AssertNotAuthorized(s) \/ Estimate(s)
  <2>1. /\ runs[s] \in Started /\ runs[s].pc \in {"auth", "estimate"}
        /\ Vetted(runs[s]) /\ ~Waiting(s) /\ runs[s].status = None /\ runs[s].code = None
    BY <1>1, <1>4, <1>8 DEF AssertNotAuthorized, Estimate, RunInv
  <2>2. ASSUME NEW code \in {"1", "dry"},
               runs' = [runs EXCEPT ![s] = [runs[s] EXCEPT !.pc = "done", !.code = code]]
        PROVE  Goal
    BY <1>5, <2>1, <2>2 DEF Steps, Codes, FeedbackAssumption
  <2>3. ASSUME NEW pc \in {"estimate", "nonce"},
               runs' = [runs EXCEPT ![s] = [runs[s] EXCEPT !.pc = pc]],
               pc = "nonce" => runs[s].payer \notin authorized
        PROVE  Goal
    BY <1>5, <1>6, <2>1, <2>3 DEF Steps, Codes, FeedbackAssumption
  <2>4. \/ \E code \in {"1", "dry"} :
               runs' = [runs EXCEPT ![s] = [runs[s] EXCEPT !.pc = "done", !.code = code]]
        \/ \E pc \in {"estimate", "nonce"} :
               /\ runs' = [runs EXCEPT ![s] = [runs[s] EXCEPT !.pc = pc]]
               /\ pc = "nonce" => runs[s].payer \notin authorized
    <3>1. CASE AssertNotAuthorized(s)
      BY <3>1 DEF AssertNotAuthorized, Go, Exit, Set
    <3>2. CASE Estimate(s)
      BY <3>2 DEF Estimate, Go, Exit, Set
    <3>. QED
      BY <1>8, <3>1, <3>2
  <2>. QED
    BY <2>2, <2>3, <2>4
<1>9. CASE ReadNonce(s)
  <2>. DEFINE r == [runs[s] EXCEPT !.pc = "send", !.nonce = TransactionCount(runs[s].payer)]
  <2>1. runs[s] \in Started /\ runs[s].payer \in Accounts
    BY <1>4, <1>9 DEF ReadNonce, Started
  <2>2. TransactionCount(runs[s].payer) \in Nat
    BY <2>1 DEF TransactionCount, FeedbackInv, TypeOK
  <2>3. /\ r \in Started /\ r \notin Idle
        /\ r.pc = "send" /\ r.code = runs[s].code /\ r.status = runs[s].status
        /\ r.payer = runs[s].payer /\ r.target = runs[s].target
        /\ r.paidBefore = runs[s].paidBefore /\ r.moved = runs[s].moved
    BY <2>1, <2>2 DEF Started, Steps, Idle
  <2>4. runs' = [runs EXCEPT ![s] = r]
    BY <1>9 DEF ReadNonce, Set
  <2>. HIDE DEF r
  <2>5. RunInv(s, r)
    BY <1>1, <1>9, <2>1, <2>3 DEF ReadNonce, RunInv, Vetted
  <2>. QED
    BY <1>2, <2>3, <2>4, <2>5, OwnStep
<1>10. CASE Raise(s)
  <2>1. runs[s] \in Started /\ runs[s].pc \in {"send", "wait"}
    BY <1>4, <1>10 DEF Raise
  <2>2. runs' = [runs EXCEPT ![s] = [runs[s] EXCEPT !.pc = "done", !.code = "raised"]]
    BY <1>10 DEF Raise, Exit, Set
  <2>. QED
    <3>1. Waiting(s) /\ runs[s].payer \in authorized => runs[s].moved
      BY <1>1, <2>1 DEF RunInv
    <3>2. "done" \in Steps \ {"new"} /\ "raised" \in Codes \ {"2"}
      BY DEF Steps, Codes, FeedbackAssumption
    <3>. QED
      BY <1>5, <2>1, <2>2, <3>1, <3>2
<1>11. CASE Receipt(s)
  <2>1. runs[s] \in Started /\ runs[s].pc = "wait" /\ runs[s].status \in {0, 1}
    BY <1>4, <1>11 DEF Receipt, Started
  <2>2. runs' = [runs EXCEPT ![s] =
                     [runs[s] EXCEPT !.pc = "done", !.code = ExitCode(runs[s].status)]]
    BY <1>11 DEF Receipt, Exit, Set
  <2>3. ~Waiting(s)
    BY <1>1, <2>1 DEF RunInv, FeedbackAssumption
  <2>4. /\ ExitCode(runs[s].status) \in {"0", "1"}
        /\ ExitCode(runs[s].status) = "0" <=> runs[s].status = 1
    BY <2>1 DEF ExitCode
  <2>. QED
    BY <1>1, <1>5, <2>1, <2>2, <2>3, <2>4 DEF Steps, Codes
<1>. QED
  BY <1>3, <1>7, <1>8, <1>9, <1>10, <1>11 DEF ScriptStep

(* What the run has seen paid stays paid.                                  *)
LEMMA PaymentKeeps ==
    ASSUME FeedbackInv, PayForAudit
    PROVE  PendingInv' /\ RunsInv' /\ EntryInv'
<1>1. PICK pay \in Payment : payments' = Append(payments, pay)
  BY DEF PayForAudit
<1>2. /\ payments \in Seq(Payment) /\ Len(payments) \in Nat
      /\ Len(payments') = Len(payments) + 1
      /\ \A i \in 1 .. Len(payments) : payments'[i] = payments[i]
  BY <1>1 DEF FeedbackInv, TypeOK
<1>3. ASSUME NEW r \in Started, Vetted(r)
      PROVE  Vetted(r)'
  <2>1. r.paidBefore \in Nat /\ r.paidBefore <= Len(payments)
    BY <1>3 DEF Started, Vetted
  <2>2. PICK i \in 1 .. r.paidBefore : AuditPaidIn(payments[i], r.payer, r.target)
    BY <1>3 DEF Vetted
  <2>3. payments'[i] = payments[i] /\ r.paidBefore <= Len(payments')
    BY <1>2, <2>1
  <2>. QED
    BY <2>2, <2>3 DEF Vetted
<1>4. UNCHANGED <<authorized, entries, pending, runs>>
  BY DEF PayForAudit
<1>5. PendingInv'
  BY <1>4 DEF FeedbackInv, PendingInv
<1>6. ASSUME NEW s \in Scripts, NEW r \in Idle \cup Started, RunInv(s, r)
      PROVE  RunInv(s, r)'
  BY <1>3, <1>4, <1>6 DEF RunInv, Waiting, Rated
<1>7. RunsInv'
  <2>1. ASSUME NEW s \in Scripts
        PROVE  RunInv(s, runs[s])'
    <3>1. PICK r \in Idle \cup Started : r = runs[s] /\ r = runs'[s]
      BY <1>4 DEF FeedbackInv, TypeOK
    <3>2. RunInv(s, r)'
      BY <1>6, <3>1 DEF FeedbackInv, RunsInv
    <3>. QED
      BY <3>1, <3>2
  <2>. QED
    BY <2>1 DEF RunsInv
<1>8. EntryInv'
  <2>1. ASSUME NEW s, runs[s] \in Started, Vetted(runs[s])
        PROVE  Vetted(runs[s])'
    <3>1. PICK r \in Started : r = runs[s] /\ r = runs'[s]
      BY <1>4, <2>1
    <3>2. Vetted(r)'
      BY <1>3, <2>1, <3>1
    <3>. QED
      BY <3>1, <3>2
  <2>. QED
    BY <1>4, <2>1 DEF FeedbackInv, EntryInv
<1>. QED
  BY <1>5, <1>7, <1>8

(* A change of who controls the agent is noted by the runs on their way.   *)
LEMMA ChangeKeeps ==
    ASSUME FeedbackAssumption, FeedbackInv, ChangeAuthorized
    PROVE  PendingInv' /\ RunsInv' /\ EntryInv'
<1>1. PICK a \in Accounts :
          /\ authorized' = IF a \in authorized THEN authorized \ {a} ELSE authorized \cup {a}
          /\ runs' = [s \in Scripts |->
                 IF pending[a] = s
                    \/ (runs[s].pc \in {"nonce", "send", "wait"} /\ runs[s].payer = a)
                 THEN [runs[s] EXCEPT !.moved = TRUE] ELSE runs[s]]
  BY DEF ChangeAuthorized
<1>2. UNCHANGED <<payments, entries, pending>>
  BY DEF ChangeAuthorized
<1>3. /\ runs \in [Scripts -> Idle \cup Started]
      /\ entries \in [Accounts -> Seq(Entries)]
      /\ pending \in [Accounts -> Scripts \cup {None}]
  BY DEF FeedbackInv, TypeOK
<1>4. ASSUME NEW s \in Scripts, runs[s] \in Idle
      PROVE  runs'[s] = runs[s]
  <2>1. [runs[s] EXCEPT !.moved = TRUE] = runs[s]
    BY <1>4 DEF Idle
  <2>. QED
    BY <1>1, <2>1
<1>5. ASSUME NEW s \in Scripts, runs[s] \in Started
      PROVE  /\ runs'[s] \in Started
             /\ runs'[s].pc = runs[s].pc /\ runs'[s].code = runs[s].code
             /\ runs'[s].status = runs[s].status
             /\ runs'[s].payer = runs[s].payer /\ runs'[s].target = runs[s].target
             /\ runs'[s].paidBefore = runs[s].paidBefore
             /\ runs[s].moved => runs'[s].moved
             /\ pending[a] = s \/ (runs[s].pc \in {"nonce", "send", "wait"} /\ runs[s].payer = a)
                    => runs'[s].moved
  <2>. DEFINE r == [runs[s] EXCEPT !.moved = TRUE]
  <2>1. /\ r \in Started /\ r.moved
        /\ r.pc = runs[s].pc /\ r.code = runs[s].code /\ r.status = runs[s].status
        /\ r.payer = runs[s].payer /\ r.target = runs[s].target
        /\ r.paidBefore = runs[s].paidBefore
    BY <1>5 DEF Started
  <2>2. runs'[s] = IF pending[a] = s
                      \/ (runs[s].pc \in {"nonce", "send", "wait"} /\ runs[s].payer = a)
                   THEN r ELSE runs[s]
    BY <1>1
  <2>. HIDE DEF r
  <2>. QED
    BY <1>5, <2>1, <2>2
<1>6. PendingInv'
  BY <1>2, <1>3, <1>5 DEF FeedbackInv, PendingInv
<1>7. ASSUME NEW s \in Scripts
      PROVE  RunInv(s, runs[s])'
  <2>1. RunInv(s, runs[s])
    BY DEF FeedbackInv, RunsInv
  <2>2. Waiting(s)' = Waiting(s) /\ Rated(s)' = Rated(s)
    BY <1>2 DEF Waiting, Rated
  <2>3. CASE runs[s] \in Idle
    BY <1>4, <2>1, <2>2, <2>3 DEF RunInv, Idle, Started
  <2>4. CASE runs[s] \in Started
    <3>1. PICK r \in Started : r = runs'[s]
      BY <1>5, <2>4
    <3>2. r \notin Idle
      BY <3>1 DEF Started, Idle
    <3>3. Vetted(runs[s]) => Vetted(r)'
      BY <1>2, <1>5, <2>4, <3>1 DEF Vetted
    <3>4. (r.pc \in {"nonce", "send", "wait"} \/ Waiting(s)) /\ r.payer \in authorized' =>
              r.moved
      <4>1. CASE r.payer = a
        <5>1. Waiting(s) => pending[a] = s
          BY <1>5, <2>4, <3>1, <4>1 DEF Waiting, FeedbackInv, PendingInv, FeedbackAssumption
        <5>. QED
          BY <1>5, <2>4, <3>1, <4>1, <5>1
      <4>2. CASE r.payer # a
        <5>1. r.payer \in authorized' => r.payer \in authorized
          BY <1>1, <4>2
        <5>. QED
          BY <1>5, <2>1, <2>4, <3>1, <5>1 DEF RunInv
      <4>. QED
        BY <4>1, <4>2
    <3>5. RunInv(s, r)'
      BY <1>5, <2>1, <2>2, <2>4, <3>1, <3>2, <3>3, <3>4 DEF RunInv
    <3>. QED
      BY <3>1, <3>5
  <2>. QED
    BY <1>3, <2>3, <2>4
<1>8. EntryInv'
  <2>1. ASSUME NEW b \in Accounts, NEW i \in DOMAIN entries[b], entries[b][i].script # None
        PROVE  LET s == entries[b][i].script IN
               /\ runs'[s] \in Started
               /\ runs'[s].payer = b /\ runs'[s].target = entries[b][i].target
               /\ Vetted(runs[s])'
    <3>. DEFINE s == entries[b][i].script
    <3>1. s \in Scripts
      <4>1. entries[b] \in Seq(Entries)
        BY <1>3
      <4>2. entries[b][i] \in Entries
        BY <4>1
      <4>. QED
        BY <2>1, <4>2 DEF Entries
    <3>2. /\ runs[s] \in Started /\ runs[s].payer = b
          /\ runs[s].target = entries[b][i].target /\ Vetted(runs[s])
      BY <2>1 DEF FeedbackInv, EntryInv
    <3>3. Vetted(runs[s])'
      BY <1>2, <1>5, <3>1, <3>2 DEF Vetted
    <3>. QED
      BY <1>5, <3>1, <3>2, <3>3
  <2>. QED
    BY <1>2, <2>1 DEF FeedbackInv, EntryInv
<1>. QED
  BY <1>6, <1>7, <1>8 DEF RunsInv

(* A broadcast transaction takes the place of the one with its nonce.      *)
LEMMA SendKeeps ==
    ASSUME FeedbackAssumption, FeedbackInv, NEW s \in Scripts, Send(s)
    PROVE  PendingInv' /\ RunsInv' /\ EntryInv'
<1>1. /\ runs \in [Scripts -> Idle \cup Started]
      /\ entries \in [Accounts -> Seq(Entries)]
      /\ pending \in [Accounts -> Scripts \cup {None}]
      /\ \A p \in Scripts : p # None
  BY DEF FeedbackInv, TypeOK, FeedbackAssumption
<1>2. /\ runs[s] \in Started /\ runs[s].pc = "send" /\ RunInv(s, runs[s])
      /\ runs[s].payer \in Accounts
  BY <1>1 DEF Send, FeedbackInv, RunsInv, Idle, Started
<1>3. PICK pc \in {"wait", "done"}, code \in Codes \ {"2"} :
          /\ (pc = "wait" /\ code = runs[s].code) \/ (pc = "done" /\ code = "raised")
          /\ runs' = [runs EXCEPT ![s] = [runs[s] EXCEPT !.pc = pc, !.code = code]]
  <2>1. CASE Go(s, "wait")
    <3>1. runs[s].code \in Codes \ {"2"}
      BY <1>2 DEF Started
    <3>. DEFINE waits == [runs[s] EXCEPT !.pc = "wait"]
                same  == [runs[s] EXCEPT !.pc = "wait", !.code = runs[s].code]
    <3>2. waits = same
      BY <1>2 DEF Started
    <3>3. runs' = [runs EXCEPT ![s] = waits]
      BY <2>1 DEF Go, Set
    <3>4. runs' = [runs EXCEPT ![s] = same]
      <4>. HIDE DEF waits, same
      <4>. QED
        BY <3>2, <3>3
    <3>. WITNESS "wait" \in {"wait", "done"}, runs[s].code \in Codes \ {"2"}
    <3>. QED
      BY <3>4
  <2>2. CASE Exit(s, "raised")
    <3>1. "raised" \in Codes \ {"2"}
      BY DEF Codes
    <3>. WITNESS "done" \in {"wait", "done"}, "raised" \in Codes \ {"2"}
    <3>. QED
      BY <2>2 DEF Exit, Set
  <2>. QED
    BY <2>1, <2>2 DEF Send
<1>4. PICK r : r = [runs[s] EXCEPT !.pc = pc, !.code = code]
  OBVIOUS
<1>. DEFINE Known ==
       /\ r \in Started /\ r \notin Idle
       /\ (r.pc = "wait" /\ r.code = runs[s].code) \/ (r.pc = "done" /\ r.code = "raised")
       /\ r.status = runs[s].status /\ r.moved = runs[s].moved
       /\ r.payer = runs[s].payer /\ r.target = runs[s].target
       /\ r.paidBefore = runs[s].paidBefore
<1>5. Known
  BY <1>2, <1>3, <1>4 DEF Started, Steps, Idle
<1>6. pending' = [pending EXCEPT ![runs[s].payer] = s]
  BY DEF Send
<1>7. UNCHANGED <<payments, entries, authorized>>
  BY DEF Send
<1>8. runs'[s] = r /\ \A p \in Scripts : p # s => runs'[p] = runs[p]
  BY <1>1, <1>3, <1>4
<1>9. ASSUME NEW p \in Scripts, p # s
      PROVE  Waiting(p)' => Waiting(p)
  BY <1>1, <1>2, <1>6, <1>9 DEF Waiting
<1>10. PendingInv'
  <2>1. ASSUME NEW a \in Accounts, pending'[a] # None
        PROVE  runs'[pending'[a]] \in Started /\ runs'[pending'[a]].payer = a
    <3>1. CASE a = runs[s].payer
      <4>1. pending'[a] = s
        BY <1>1, <1>6, <3>1
      <4>. QED
        BY <1>5, <1>8, <3>1, <4>1
    <3>2. CASE a # runs[s].payer
      <4>1. pending'[a] = pending[a] /\ pending[a] \in Scripts
        BY <1>1, <1>6, <2>1, <3>2
      <4>2. runs[pending[a]] \in Started /\ runs[pending[a]].payer = a
        BY <2>1, <4>1 DEF FeedbackInv, PendingInv
      <4>. QED
        BY <1>5, <1>8, <4>1, <4>2
    <3>. QED
      BY <3>1, <3>2
  <2>. QED
    BY <2>1 DEF PendingInv
<1>11. ASSUME NEW p \in Scripts
       PROVE  RunInv(p, runs[p])'
  <2>1. Rated(p)' = Rated(p)
    BY <1>7 DEF Rated
  <2>2. CASE p = s
    <3>1. Vetted(runs[s]) /\ runs[s].status = None /\ runs[s].code = None
      BY <1>2 DEF RunInv
    <3>2. Vetted(r)'
      BY <1>5, <1>7, <3>1 DEF Vetted
    <3>3. RunInv(s, r)'
      BY <1>2, <1>5, <1>7, <2>1, <2>2, <3>1, <3>2 DEF RunInv, FeedbackAssumption
    <3>. QED
      BY <1>8, <2>2, <3>3
  <2>3. CASE p # s
    <3>1. PICK q \in Idle \cup Started : q = runs[p] /\ q = runs'[p]
      BY <1>1, <1>8, <2>3
    <3>2. RunInv(p, q)
      BY <3>1 DEF FeedbackInv, RunsInv
    <3>3. RunInv(p, q)'
      BY <1>7, <1>9, <2>1, <2>3, <3>2 DEF RunInv, Vetted
    <3>. QED
      BY <3>1, <3>3
  <2>. QED
    BY <2>2, <2>3
<1>12. EntryInv'
  <2>1. ASSUME NEW b \in Accounts, NEW i \in DOMAIN entries[b], entries[b][i].script # None
        PROVE  LET p == entries[b][i].script IN
               /\ runs'[p] \in Started
               /\ runs'[p].payer = b /\ runs'[p].target = entries[b][i].target
               /\ runs'[p].paidBefore = runs[p].paidBefore
    <3>. DEFINE p == entries[b][i].script
    <3>1. p \in Scripts
      <4>1. entries[b] \in Seq(Entries)
        BY <1>1
      <4>2. entries[b][i] \in Entries
        BY <4>1
      <4>. QED
        BY <2>1, <4>2 DEF Entries
    <3>2. runs[p] \in Started /\ runs[p].payer = b /\ runs[p].target = entries[b][i].target
      BY <2>1 DEF FeedbackInv, EntryInv
    <3>. QED
      BY <1>5, <1>8, <3>1, <3>2
  <2>. QED
    BY <1>7, <2>1 DEF FeedbackInv, EntryInv, Vetted
<1>. QED
  BY <1>10, <1>11, <1>12 DEF RunsInv

(* Entries name scripts, or none.                                          *)
LEMMA EntryTypes ==
    ASSUME TypeOK, NEW a \in Accounts, NEW i \in DOMAIN entries[a]
    PROVE  entries[a][i] \in Entries /\ entries[a][i].script \in Scripts \cup {None}
<1>1. entries[a] \in Seq(Entries)
  BY DEF TypeOK
<1>2. entries[a][i] \in Entries
  BY <1>1
<1>. QED
  BY <1>2 DEF Entries

(* What is mined for a run is what it had prepared.                        *)
LEMMA MineKeeps ==
    ASSUME FeedbackAssumption, FeedbackInv, NEW a \in Accounts, Mine(a)
    PROVE  PendingInv' /\ RunsInv' /\ EntryInv'
<1>1. PICK s \in Scripts : s = pending[a]
  BY DEF Mine, FeedbackInv, TypeOK
<1>2. PICK status \in {0, 1} : status = IF a \in authorized THEN 0 ELSE 1
  OBVIOUS
<1>3. PICK r : r = [runs[s] EXCEPT !.status = status]
  OBVIOUS
<1>4. /\ runs \in [Scripts -> Idle \cup Started]
      /\ entries \in [Accounts -> Seq(Entries)]
      /\ pending \in [Accounts -> Scripts \cup {None}]
      /\ \A p \in Scripts : p # None
  BY DEF FeedbackInv, TypeOK, FeedbackAssumption
<1>5. /\ runs[s] \in Started /\ runs[s].payer = a /\ runs[s].target \in Targets
      /\ Waiting(s) /\ RunInv(s, runs[s])
  BY <1>1, <1>4 DEF FeedbackInv, PendingInv, RunsInv, Started, Waiting
<1>6. /\ r \in Started /\ r \notin Idle /\ r.status = status
      /\ r.pc = runs[s].pc /\ r.code = runs[s].code /\ r.moved = runs[s].moved
      /\ r.payer = a /\ r.target = runs[s].target
      /\ r.paidBefore = runs[s].paidBefore
  BY <1>3, <1>5 DEF Started, Idle
<1>7. /\ runs' = [runs EXCEPT ![s] = r]
      /\ pending' = [pending EXCEPT ![a] = None]
      /\ GiveFeedback(a, s, runs[s].target)
      /\ UNCHANGED <<payments, authorized>>
  BY <1>1, <1>2, <1>3, <1>4 DEF Mine
<1>8. runs'[s] = r /\ \A p \in Scripts : p # s => runs'[p] = runs[p]
  BY <1>4, <1>7
<1>9. /\ Vetted(runs[s]) /\ runs[s].status = None /\ ~Rated(s)
      /\ runs[s].code # "0" /\ runs[s].code \notin {"1", "dry"}
      /\ runs[s].pc \notin {"paid", "auth", "estimate", "nonce", "send"}
      /\ a \in authorized => runs[s].moved
  BY <1>5 DEF RunInv, FeedbackAssumption
<1>10. /\ ~Waiting(s)'
       /\ \A p \in Scripts : Waiting(p)' => Waiting(p)
  <2>1. \A b \in Accounts : pending'[b] = IF b = a THEN None ELSE pending[b]
    BY <1>4, <1>7
  <2>2. \A b \in Accounts : pending[b] = s => b = a
    BY <1>4, <1>5 DEF FeedbackInv, PendingInv
  <2>. QED
    BY <1>4, <2>1, <2>2 DEF Waiting
<1>11. PendingInv'
  <2>1. ASSUME NEW b \in Accounts, pending'[b] # None
        PROVE  runs'[pending'[b]] \in Started /\ runs'[pending'[b]].payer = b
    <3>1. b # a /\ pending'[b] = pending[b] /\ pending[b] \in Scripts
      BY <1>4, <1>7, <2>1
    <3>2. runs[pending[b]] \in Started /\ runs[pending[b]].payer = b
      BY <2>1, <3>1 DEF FeedbackInv, PendingInv
    <3>. QED
      BY <1>5, <1>8, <3>1, <3>2
  <2>. QED
    BY <2>1 DEF PendingInv
<1>12. ASSUME NEW p \in Scripts, p # s, Rated(p)' = Rated(p)
       PROVE  RunInv(p, runs[p])'
  <2>1. PICK q \in Idle \cup Started : q = runs[p] /\ q = runs'[p]
    BY <1>4, <1>8, <1>12
  <2>2. RunInv(p, q)
    BY <2>1 DEF FeedbackInv, RunsInv
  <2>3. RunInv(p, q)'
    BY <1>7, <1>10, <1>12, <2>2 DEF RunInv, Vetted
  <2>. QED
    BY <2>1, <2>3
<1>13. ASSUME Rated(s)' <=> status = 1
       PROVE  RunInv(s, runs[s])'
  <2>1. Vetted(r)'
    BY <1>5, <1>6, <1>7, <1>9 DEF Vetted
  <2>2. status = 0 => r.moved
    BY <1>2, <1>6, <1>9
  <2>3. RunInv(s, r)'
    <3>1. r.pc # "done" => r.code = None
      BY <1>5, <1>6 DEF RunInv
    <3>2. Rated(s)' <=> r.status = 1
      BY <1>6, <1>13
    <3>. QED
      BY <1>6, <1>7, <1>9, <1>10, <2>1, <2>2, <3>1, <3>2 DEF RunInv
  <2>. QED
    BY <1>8, <2>3
<1>14. ASSUME NEW b \in Accounts, NEW i \in DOMAIN entries[b], NEW p,
              p = entries[b][i].script, p # None
       PROVE  /\ runs'[p] \in Started
              /\ runs'[p].payer = b /\ runs'[p].target = entries[b][i].target
              /\ Vetted(runs[p])'
  <2>1. p \in Scripts
    BY <1>14, EntryTypes DEF FeedbackInv
  <2>2. runs'[p] = runs[p]
    BY <1>8, <1>9, <1>14, <2>1 DEF Rated
  <2>3. /\ runs[p] \in Started /\ runs[p].payer = b
        /\ runs[p].target = entries[b][i].target /\ Vetted(runs[p])
    BY <1>14 DEF FeedbackInv, EntryInv
  <2>4. Vetted(runs[p])'
    BY <1>7, <2>2, <2>3 DEF Vetted
  <2>. QED
    BY <2>2, <2>3, <2>4
<1>15. CASE a \in authorized
  <2>1. entries' = entries /\ status = 0
    BY <1>2, <1>7, <1>15 DEF GiveFeedback
  <2>2. \A p \in Scripts : Rated(p)' = Rated(p)
    BY <2>1 DEF Rated
  <2>3. \A p \in Scripts : RunInv(p, runs[p])'
    BY <1>9, <1>12, <1>13, <2>1, <2>2
  <2>4. EntryInv'
    BY <1>14, <2>1 DEF FeedbackInv, EntryInv
  <2>. QED
    BY <1>11, <2>3, <2>4 DEF RunsInv
<1>16. CASE a \notin authorized
  <2>1. PICK k : k = Len(entries[a]) + 1
    OBVIOUS
  <2>2. /\ \A b \in Accounts : b # a => entries'[b] = entries[b]
        /\ DOMAIN entries'[a] = DOMAIN entries[a] \cup {k}
        /\ \A i \in DOMAIN entries[a] : entries'[a][i] = entries[a][i]
        /\ entries'[a][k] = Entry(s, runs[s].target)
    BY <1>5, <1>7, <1>16, <2>1, Rates DEF FeedbackInv
  <2>3. entries'[a][k].script = s /\ entries'[a][k].target = runs[s].target
    BY <2>2 DEF Entry
  <2>4. \A b \in Accounts : \A i \in DOMAIN entries'[b] :
            \/ b = a /\ i = k
            \/ i \in DOMAIN entries[b] /\ entries'[b][i] = entries[b][i]
    BY <2>2
  <2>5. \A b \in Accounts : \A i \in DOMAIN entries[b] :
            i \in DOMAIN entries'[b] /\ entries'[b][i] = entries[b][i]
    BY <2>2
  <2>6. Rated(s)' /\ status = 1
    BY <1>2, <1>16, <2>2, <2>3 DEF Rated
  <2>7. ASSUME NEW p \in Scripts, p # s
        PROVE  Rated(p)' = Rated(p)
    BY <2>3, <2>4, <2>5, <2>7 DEF Rated
  <2>8. \A p \in Scripts : RunInv(p, runs[p])'
    BY <1>12, <1>13, <2>6, <2>7
  <2>9. EntryInv'
    <3>1. ASSUME NEW b \in Accounts, NEW i \in DOMAIN entries'[b],
                 entries'[b][i].script # None
          PROVE  /\ runs'[entries'[b][i].script] \in Started
                 /\ runs'[entries'[b][i].script].payer = b
                 /\ runs'[entries'[b][i].script].target = entries'[b][i].target
                 /\ Vetted(runs[entries[b][i].script])'
      <4>1. CASE b = a /\ i = k
        <5>1. Vetted(runs[s])'
          BY <1>5, <1>6, <1>7, <1>8, <1>9 DEF Vetted
        <5>. QED
          BY <1>6, <1>8, <2>3, <4>1, <5>1
      <4>2. CASE i \in DOMAIN entries[b] /\ entries'[b][i] = entries[b][i]
        BY <1>14, <3>1, <4>2
      <4>. QED
        BY <2>4, <4>1, <4>2
    <3>2. ASSUME NEW b \in Accounts, NEW c \in Accounts,
                 NEW i \in DOMAIN entries'[b], NEW j \in DOMAIN entries'[c],
                 entries'[b][i].script = entries'[c][j].script,
                 entries'[b][i].script # None
          PROVE  b = c /\ i = j
      <4>1. \A d \in Accounts : \A l \in DOMAIN entries[d] : entries[d][l].script # s
        BY <1>9 DEF Rated
      <4>. QED
        BY <2>3, <2>4, <3>2, <4>1 DEF FeedbackInv, EntryInv
    <3>. QED
      BY <3>1, <3>2 DEF EntryInv
  <2>. QED
    BY <1>11, <2>8, <2>9 DEF RunsInv
<1>. QED
  BY <1>15, <1>16

(* The account's other transactions add no rating of a run and take none   *)
(* away.                                                                   *)
LEMMA OtherwiseKeeps ==
    ASSUME FeedbackAssumption, FeedbackInv, NEW a \in Accounts, Otherwise(a)
    PROVE  PendingInv' /\ RunsInv' /\ EntryInv'
<1>1. /\ runs \in [Scripts -> Idle \cup Started]
      /\ pending \in [Accounts -> Scripts \cup {None}]
      /\ \A p \in Scripts : p # None
  BY DEF FeedbackInv, TypeOK, FeedbackAssumption
<1>2. /\ pending' = [pending EXCEPT ![a] = None]
      /\ UNCHANGED <<payments, authorized, runs>>
  BY DEF Otherwise
<1>3. /\ \A b \in Accounts : \A i \in DOMAIN entries'[b] :
             entries'[b][i].script # None =>
                 /\ i \in DOMAIN entries[b]
                 /\ entries'[b][i].script = entries[b][i].script
                 /\ entries'[b][i].target = entries[b][i].target
      /\ \A b \in Accounts : \A i \in DOMAIN entries[b] :
             i \in DOMAIN entries'[b] /\ entries'[b][i].script = entries[b][i].script
  <2>1. CASE entries' = entries
    BY <2>1
  <2>2. CASE a \notin authorized /\ GiveFeedback(a, None, None)
    <3>1. PICK k : k = Len(entries[a]) + 1
      OBVIOUS
    <3>2. /\ \A b \in Accounts : b # a => entries'[b] = entries[b]
          /\ DOMAIN entries'[a] = DOMAIN entries[a] \cup {k}
          /\ \A i \in DOMAIN entries[a] : entries'[a][i] = entries[a][i]
          /\ entries'[a][k] = Entry(None, None)
      BY <2>2, <3>1, Rates DEF FeedbackInv
    <3>3. entries'[a][k].script = None
      BY <3>2 DEF Entry
    <3>. QED
      BY <3>2, <3>3
  <2>3. ASSUME NEW i \in DOMAIN entries[a],
               entries' = [entries EXCEPT ![a][i].revoked = TRUE]
        PROVE  \A b \in Accounts :
                   /\ DOMAIN entries'[b] = DOMAIN entries[b]
                   /\ \A j \in DOMAIN entries[b] :
                          /\ entries'[b][j].script = entries[b][j].script
                          /\ entries'[b][j].target = entries[b][j].target
    BY <2>3, Revokes DEF FeedbackInv
  <2>4. \/ entries' = entries
        \/ a \notin authorized /\ GiveFeedback(a, None, None)
        \/ \E i \in DOMAIN entries[a] : entries' = [entries EXCEPT ![a][i].revoked = TRUE]
    BY DEF Otherwise, GiveFeedback
  <2>5. CASE \A b \in Accounts :
                 /\ DOMAIN entries'[b] = DOMAIN entries[b]
                 /\ \A j \in DOMAIN entries[b] :
                        /\ entries'[b][j].script = entries[b][j].script
                        /\ entries'[b][j].target = entries[b][j].target
    BY <2>5
  <2>. QED
    BY <2>1, <2>2, <2>3, <2>4, <2>5
<1>4. \A p \in Scripts : Rated(p)' = Rated(p)
  BY <1>1, <1>3 DEF Rated
<1>5. \A b \in Accounts : pending'[b] = IF b = a THEN None ELSE pending[b]
  BY <1>1, <1>2
<1>6. PendingInv'
  BY <1>2, <1>5 DEF FeedbackInv, PendingInv
<1>7. ASSUME NEW p \in Scripts
      PROVE  RunInv(p, runs[p])'
  <2>1. PICK q \in Idle \cup Started : q = runs[p] /\ q = runs'[p]
    BY <1>1, <1>2
  <2>2. RunInv(p, q)
    BY <2>1 DEF FeedbackInv, RunsInv
  <2>3. Waiting(p)' => Waiting(p)
    BY <1>1, <1>5 DEF Waiting
  <2>4. RunInv(p, q)'
    BY <1>2, <1>4, <2>2, <2>3 DEF RunInv, Vetted
  <2>. QED
    BY <2>1, <2>4
<1>8. EntryInv'
  <2>1. ASSUME NEW b \in Accounts, NEW i \in DOMAIN entries'[b], NEW p,
               p = entries'[b][i].script, p # None
        PROVE  /\ runs'[p] \in Started
               /\ runs'[p].payer = b /\ runs'[p].target = entries'[b][i].target
               /\ Vetted(runs[p])'
    <3>1. /\ i \in DOMAIN entries[b] /\ entries[b][i].script = p
          /\ entries'[b][i].target = entries[b][i].target
      BY <1>3, <2>1
    <3>2. /\ runs[p] \in Started
          /\ runs[p].payer = b /\ runs[p].target = entries[b][i].target
          /\ Vetted(runs[p])
      BY <2>1, <3>1 DEF FeedbackInv, EntryInv
    <3>3. Vetted(runs[p])'
      BY <1>2, <3>2 DEF Vetted
    <3>. QED
      BY <1>2, <3>1, <3>2, <3>3
  <2>2. ASSUME NEW b \in Accounts, NEW c \in Accounts,
               NEW i \in DOMAIN entries'[b], NEW j \in DOMAIN entries'[c],
               entries'[b][i].script = entries'[c][j].script, entries'[b][i].script # None
        PROVE  b = c /\ i = j
    BY <1>3, <2>2 DEF FeedbackInv, EntryInv
  <2>. QED
    BY <2>1, <2>2 DEF EntryInv
<1>. QED
  BY <1>6, <1>7, <1>8 DEF RunsInv

(* The scripts and the chain keep the invariant.                           *)
LEMMA FeedbackStep ==
    ASSUME FeedbackAssumption, FeedbackInv, [Next]_vars
    PROVE  FeedbackInv'
<1>1. TypeOK'
  BY TypeStep DEF FeedbackInv
<1>. SUFFICES PendingInv' /\ RunsInv' /\ EntryInv'
  BY <1>1 DEF FeedbackInv
<1>2. ASSUME UNCHANGED <<payments, authorized, entries, pending, runs>>
      PROVE  PendingInv' /\ RunsInv' /\ EntryInv'
  <2>1. PendingInv' /\ EntryInv'
    BY <1>2 DEF FeedbackInv, PendingInv, EntryInv, Vetted
  <2>2. ASSUME NEW s \in Scripts, NEW r, RunInv(s, r)
        PROVE  RunInv(s, r)'
    BY <1>2, <2>2 DEF RunInv, Vetted, Waiting, Rated
  <2>3. ASSUME NEW s \in Scripts
        PROVE  RunInv(s, runs[s])'
    <3>1. PICK r : r = runs[s] /\ r = runs'[s]
      BY <1>2
    <3>2. RunInv(s, r)'
      BY <2>2, <3>1 DEF FeedbackInv, RunsInv
    <3>. QED
      BY <3>1, <3>2
  <2>. QED
    BY <2>1, <2>3 DEF RunsInv
<1>3. CASE UNCHANGED vars \/ VerifyAuthorized \/ VerifyLast \/ VerifyRead \/ VerifySummary
  BY <1>2, <1>3 DEF vars, chainVars, VerifyAuthorized, VerifyLast, VerifyRead, VerifySummary
<1>4. CASE PayForAudit
  BY <1>4, PaymentKeeps
<1>5. CASE ChangeAuthorized
  BY <1>5, ChangeKeeps
<1>6. ASSUME NEW a \in Accounts, Mine(a) \/ Otherwise(a)
      PROVE  PendingInv' /\ RunsInv' /\ EntryInv'
  BY <1>6, MineKeeps, OtherwiseKeeps
<1>7. ASSUME NEW s \in Scripts, ScriptStep(s) \/ Send(s)
      PROVE  PendingInv' /\ RunsInv' /\ EntryInv'
  BY <1>7, ScriptKeeps, SendKeeps
<1>. QED
  BY <1>3, <1>4, <1>5, <1>6, <1>7 DEF Next, ScriptStep

(* It holds at first.                                                      *)
LEMMA FeedbackInit ==
    ASSUME FeedbackAssumption, Init
    PROVE  FeedbackInv
<1>1. /\ runs \in [Scripts -> Idle]
      /\ verifier \in Verifications
  <2>. DEFINE never == [NotRun EXCEPT !.pc = "done"]
  <2>1. NotRun \in Idle /\ never \in Idle
    BY DEF NotRun, Idle
  <2>2. PICK scene \in Scenes :
            runs = [s \in Scripts |-> IF s \in scene THEN NotRun ELSE never]
    BY DEF Init
  <2>3. verifier \in Verifications
    BY DEF Init, Verifications
  <2>. HIDE DEF never
  <2>. QED
    BY <2>1, <2>2, <2>3
<1>2. entries = [a \in Accounts |-> <<>>] /\ pending = [a \in Accounts |-> None]
  BY DEF Init
<1>3. \A s \in Scripts : runs[s] \in Idle /\ runs[s] \notin Started /\ runs[s].pc # "send"
  BY <1>1 DEF Idle, Started
<1>4. TypeOK
  <2>1. /\ payments \in Seq(Payment) /\ transfers \in 0 .. MaxTransfers
        /\ authorized \subseteq Accounts
    BY DEF Init, FeedbackAssumption
  <2>2. /\ entries \in [Accounts -> Seq(Entries)]
        /\ nonces \in [Accounts -> Nat] /\ pending \in [Accounts -> Scripts \cup {None}]
        /\ \A a \in Accounts : Len(entries[a]) <= nonces[a]
    BY DEF Init
  <2>. QED
    BY <1>1, <1>3, <2>1, <2>2 DEF TypeOK
<1>5. PendingInv /\ EntryInv
  BY <1>2 DEF PendingInv, EntryInv
<1>6. \A s \in Scripts : ~Waiting(s) /\ ~Rated(s)
  BY <1>2 DEF Waiting, Rated, FeedbackAssumption
<1>7. RunsInv
  BY <1>3, <1>6 DEF RunsInv, RunInv
<1>. QED
  BY <1>4, <1>5, <1>7 DEF FeedbackInv

-------------------------------------------------------------------------------
(***************************************************************************)
(* Theorems.                                                               *)
(***************************************************************************)

(* What the scripts know and have done is true in every reachable state.   *)
THEOREM ScriptsInvariant == Spec => []FeedbackInv
<1>1. Init => FeedbackInv
  BY FeedbackInit, FeedbackAssumption
<1>2. FeedbackInv /\ [Next]_vars => FeedbackInv'
  BY FeedbackStep, FeedbackAssumption
<1>. QED
  BY <1>1, <1>2, PTL DEF Spec

(* Runs, entries, nonces and verifications stay of their types: no account *)
(* has more entries than mined transactions, and no nonce that was read    *)
(* lies in the future.                                                     *)
THEOREM TypeCorrect == Spec => []TypeOK
<1>1. FeedbackInv => TypeOK
  BY DEF FeedbackInv
<1>. QED
  BY <1>1, ScriptsInvariant, PTL

(* A script's entries, by account and position.                            *)
LEMMA EntriesKnown ==
    ASSUME FeedbackInv, NEW s \in Scripts, NEW e \in EntriesOf(s)
    PROVE  /\ e[1] \in Accounts /\ e[2] \in DOMAIN entries[e[1]]
           /\ e = <<e[1], e[2]>>
           /\ entries[e[1]][e[2]].script = s
BY DEF EntriesOf

(* Every rating that the scripts post was paid for: it is its account's,   *)
(* about a target for whose audit that account had paid this deployment's  *)
(* license, and its run posted no other.                                   *)
THEOREM RatingsEarned == Spec => []FeedbackEarned
<1>1. ASSUME FeedbackInv
      PROVE  FeedbackEarned
  <2>1. ASSUME NEW s \in Scripts
        PROVE  Cardinality(EntriesOf(s)) <= 1
    <3>1. \A e, f \in EntriesOf(s) : e = f
      BY <1>1, EntriesKnown, FeedbackAssumption DEF FeedbackInv, EntryInv
    <3>2. CASE EntriesOf(s) = {}
      BY <3>2, FS_EmptySet
    <3>3. ASSUME NEW e \in EntriesOf(s)
          PROVE  Cardinality(EntriesOf(s)) <= 1
      <4>1. EntriesOf(s) = {e}
        BY <3>1, <3>3
      <4>. QED
        BY <4>1, FS_Singleton
    <3>. QED
      BY <3>2, <3>3
  <2>2. ASSUME NEW s \in Scripts, NEW e \in EntriesOf(s)
        PROVE  /\ e[1] = runs[s].payer
               /\ \E i \in 1 .. runs[s].paidBefore :
                    /\ payments[i].ok /\ payments[i].license = License
                    /\ payments[i].payer = e[1]
                    /\ payments[i].target = entries[e[1]][e[2]].target
    <3>1. /\ e[1] \in Accounts /\ e[2] \in DOMAIN entries[e[1]]
          /\ entries[e[1]][e[2]].script = s /\ s # None
      BY <1>1, EntriesKnown, FeedbackAssumption
    <3>2. /\ runs[s].payer = e[1] /\ runs[s].target = entries[e[1]][e[2]].target
          /\ Vetted(runs[s])
      BY <1>1, <3>1 DEF FeedbackInv, EntryInv
    <3>. QED
      BY <3>2 DEF Vetted, AuditPaidIn
  <2>. QED
    BY <2>1, <2>2 DEF FeedbackEarned
<1>. QED
  BY <1>1, ScriptsInvariant, PTL

(* Exit codes are true: 0 of a rating that is in the registry, 1 and 2 of  *)
(* none that is or will be; a vetted transaction reverts only if control   *)
(* of the agent changed.                                                   *)
THEOREM ExitCodesTrue == Spec => []ExitsTrue
<1>1. ASSUME FeedbackInv
      PROVE  ExitsTrue
  <2>1. ASSUME NEW s \in Scripts
        PROVE  /\ runs[s].code = "0" => EntriesOf(s) # {}
               /\ runs[s].code \in {"1", "2", "dry"} =>
                    EntriesOf(s) = {} /\ \A a \in Accounts : pending[a] # s
               /\ runs[s].status = 0 => runs[s].moved
    <3>1. Rated(s) <=> EntriesOf(s) # {}
      <4>1. ASSUME NEW a \in Accounts, NEW i \in DOMAIN entries[a],
                   entries[a][i].script = s
            PROVE  <<a, i>> \in EntriesOf(s)
        BY <4>1 DEF EntriesOf
      <4>2. ASSUME NEW e \in EntriesOf(s)
            PROVE  Rated(s)
        BY <1>1, EntriesKnown DEF Rated
      <4>. QED
        BY <4>1, <4>2 DEF Rated
    <3>2. runs[s] \in Idle \cup Started /\ RunInv(s, runs[s])
      BY <1>1 DEF FeedbackInv, TypeOK, RunsInv
    <3>3. CASE runs[s] \in Idle
      BY <3>1, <3>2, <3>3, FeedbackAssumption DEF Idle, RunInv, Waiting, FeedbackAssumption
    <3>4. CASE runs[s] \in Started
      <4>1. runs[s].code # "2"
        BY <3>4 DEF Started
      <4>. QED
        BY <3>1, <3>2, <3>4, <4>1 DEF RunInv, Waiting
    <3>. QED
      BY <3>2, <3>3, <3>4
  <2>. QED
    BY <2>1 DEF ExitsTrue
<1>. QED
  BY <1>1, ScriptsInvariant, PTL

-------------------------------------------------------------------------------
(***************************************************************************)
(* The verifier.                                                           *)
(***************************************************************************)

Latest(a) == entries[a][Len(entries[a])]

(* What an undisturbed verification has found, and still stands. *)
VerifierInv ==
    verifier.pc \in {"last", "read", "summary"} /\ ~verifier.touched =>
        LET a == verifier.payer IN
        /\ verifier.pc = "last" => (verifier.ok <=> a \notin authorized)
        /\ verifier.pc \in {"read", "summary"} => verifier.last = Len(entries[a])
        /\ verifier.pc = "read" =>
               (verifier.ok <=> a \notin authorized /\ Len(entries[a]) >= 1)
        /\ verifier.pc = "summary" =>
               (verifier.ok <=> /\ a \notin authorized
                                /\ Len(entries[a]) >= 1 /\ ~Latest(a).revoked)

(* Nobody but the verified account's doings disturb a verification.        *)
LEMMA VerifierStep ==
    ASSUME FeedbackAssumption, TypeOK, VerifierInv, [Next]_vars
    PROVE  VerifierInv'
<1>1. ASSUME UNCHANGED <<authorized, entries, verifier>>
      PROVE  VerifierInv'
  BY <1>1 DEF VerifierInv, Latest
<1>2. CASE UNCHANGED vars \/ PayForAudit \/ \E s \in Scripts : ScriptStep(s) \/ Send(s)
  <2>1. UNCHANGED <<authorized, entries, verifier>>
    BY <1>2 DEF vars, chainVars, PayForAudit, ScriptStep, Start, AssertPaid,
                AssertNotAuthorized, Estimate, ReadNonce, Send, Raise, Receipt
  <2>. QED
    BY <1>1, <2>1
<1>3. ASSUME NEW a \in Accounts, verifier' = Touched(a),
             \A b \in Accounts : b # a => /\ entries'[b] = entries[b]
                                          /\ b \in authorized' <=> b \in authorized
      PROVE  VerifierInv'
  <2>1. CASE verifier.pc \in {"new", "done"}
    BY <1>3, <2>1 DEF Touched, VerifierInv
  <2>2. CASE verifier.pc \notin {"new", "done"}
    <3>1. verifier.payer \in Accounts
      BY <2>2 DEF TypeOK, Verifications
    <3>2. CASE verifier.payer = a
      <4>1. verifier'.touched = TRUE
        BY <1>3, <2>2, <3>2 DEF Touched, TypeOK, Verifications
      <4>. QED
        BY <4>1 DEF VerifierInv
    <3>3. CASE verifier.payer # a
      <4>1. /\ verifier' = verifier
            /\ entries'[verifier.payer] = entries[verifier.payer]
            /\ verifier.payer \in authorized' <=> verifier.payer \in authorized
        BY <1>3, <3>1, <3>3 DEF Touched
      <4>. QED
        BY <4>1 DEF VerifierInv, Latest
    <3>. QED
      BY <3>2, <3>3
  <2>. QED
    BY <2>1, <2>2
<1>4. CASE ChangeAuthorized
  BY <1>3, <1>4 DEF ChangeAuthorized
<1>5. ASSUME NEW a \in Accounts, Mine(a) \/ Otherwise(a)
      PROVE  VerifierInv'
  <2>1. verifier' = Touched(a) /\ UNCHANGED authorized
    BY <1>5 DEF Mine, Otherwise
  <2>2. \/ entries' = entries
        \/ \E s, t : entries' = [entries EXCEPT ![a] = Append(@, Entry(s, t))]
        \/ \E i \in DOMAIN entries[a] : entries' = [entries EXCEPT ![a][i].revoked = TRUE]
    BY <1>5 DEF Mine, Otherwise, GiveFeedback
  <2>3. \A b \in Accounts : b # a => entries'[b] = entries[b]
    BY <2>2 DEF TypeOK
  <2>. QED
    BY <1>3, <2>1, <2>3
<1>6. CASE VerifyAuthorized
  <2>1. PICK a \in Accounts : verifier' = [pc |-> "last", payer |-> a, touched |-> FALSE,
                                            ok |-> a \notin authorized]
    BY <1>6 DEF VerifyAuthorized
  <2>2. /\ verifier'.pc = "last" /\ verifier'.payer = a
        /\ verifier'.ok <=> a \notin authorized
        /\ authorized' = authorized
    BY <1>6, <2>1 DEF VerifyAuthorized, chainVars
  <2>. QED
    BY <2>2 DEF VerifierInv
<1>7. CASE VerifyLast
  <2>1. verifier.payer \in Accounts /\ verifier.ok \in BOOLEAN
    BY <1>7 DEF VerifyLast, TypeOK, Verifications
  <2>. QED
    BY <1>7, <2>1 DEF VerifyLast, VerifierInv, chainVars
<1>8. CASE VerifyRead
  <2>1. verifier \in [pc : {"read", "summary", "done"}, payer : Accounts,
                      touched : BOOLEAN, ok : BOOLEAN, last : Nat]
    BY <1>8 DEF VerifyRead, TypeOK, Verifications
  <2>. QED
    BY <1>8, <2>1 DEF VerifyRead, ReadIndex, VerifierInv, Latest, chainVars
<1>9. CASE VerifySummary
  <2>1. verifier'.pc = "done"
    BY <1>9 DEF VerifySummary, TypeOK, Verifications
  <2>. QED
    BY <2>1 DEF VerifierInv
<1>. QED
  BY <1>2, <1>4, <1>5, <1>6, <1>7, <1>8, <1>9 DEF Next, ScriptStep

(* A verification during which the account neither rates, revokes nor      *)
(* gains or loses control of the agent confirms exactly the latest rating  *)
(* of an account that does not control the agent and has not revoked it:   *)
(* what its four reads found at four moments holds at the last.            *)
THEOREM VerificationStands == Spec => VerdictStands
<1>1. Init => VerifierInv
  BY DEF Init, VerifierInv
<1>2. TypeOK /\ VerifierInv /\ [Next]_vars => VerifierInv'
  BY VerifierStep, FeedbackAssumption
<1>3. ASSUME TypeOK, VerifierInv, [Next]_vars,
             verifier.pc = "summary", verifier'.pc = "done", ~verifier.touched
      PROVE  LET es == entries[verifier.payer]
             IN  verifier'.ok <=> /\ verifier.payer \notin authorized
                                  /\ es # <<>> /\ ~es[Len(es)].revoked
  <2>1. verifier \in [pc : {"read", "summary", "done"}, payer : Accounts,
                      touched : BOOLEAN, ok : BOOLEAN, last : Nat]
    BY <1>3 DEF TypeOK, Verifications
  <2>2. \A a \in Accounts : verifier' # Touched(a)
    <3>1. \A a \in Accounts : Touched(a).pc = verifier.pc
      BY <2>1 DEF Touched
    <3>. QED
      BY <1>3, <3>1
  <2>3. VerifySummary
    <3>1. verifier' # verifier
      BY <1>3
    <3>2. ~(\E s \in Scripts : ScriptStep(s) \/ Send(s)) /\ ~PayForAudit
      BY <3>1 DEF ScriptStep, PayForAudit, Start, AssertPaid, AssertNotAuthorized, Estimate,
                  ReadNonce, Send, Raise, Receipt
    <3>3. ~ChangeAuthorized /\ ~(\E a \in Accounts : Mine(a) \/ Otherwise(a))
      BY <2>2 DEF ChangeAuthorized, Mine, Otherwise
    <3>4. ~VerifyAuthorized /\ ~VerifyLast /\ ~VerifyRead
      BY <1>3 DEF VerifyAuthorized, VerifyLast, VerifyRead
    <3>. QED
      BY <1>3, <3>1, <3>2, <3>3, <3>4 DEF Next, ScriptStep, vars
  <2>4. PICK es : es = entries[verifier.payer]
    OBVIOUS
  <2>5. es \in Seq(Entries) /\ Len(es) \in Nat /\ DOMAIN es = 1 .. Len(es)
    <3>1. entries \in [Accounts -> Seq(Entries)] /\ verifier.payer \in Accounts
      BY <1>3, <2>1 DEF TypeOK
    <3>2. es \in Seq(Entries)
      BY <2>4, <3>1
    <3>. QED
      BY <3>2
  <2>. DEFINE counted == {i \in DOMAIN es : ~es[i].revoked}
  <2>6. IsFiniteSet(counted) /\ Cardinality(counted) \in Nat
        /\ Cardinality(counted) <= Len(es)
    <3>1. IsFiniteSet(1 .. Len(es)) /\ Cardinality(1 .. Len(es)) = Len(es)
      BY <2>5, FS_Interval
    <3>. QED
      BY <2>5, <3>1, FS_Subset, FS_CardinalityType
  <2>7. Cardinality(counted) >= 1 <=> counted # {}
    BY <2>6, FS_EmptySet
  <2>8. verifier'.ok <=> /\ verifier.ok
                        /\ Cardinality(counted) >= 1 /\ Cardinality(counted) <= verifier.last
    BY <2>1, <2>3, <2>4 DEF VerifySummary
  <2>9. /\ verifier.last = Len(es)
        /\ verifier.ok <=> /\ verifier.payer \notin authorized
                           /\ Len(es) >= 1 /\ ~es[Len(es)].revoked
    BY <1>3, <2>4 DEF VerifierInv, Latest
  <2>10. verifier.ok => counted # {}
    BY <2>5, <2>9
  <2>11. es # <<>> <=> Len(es) >= 1
    BY <2>5
  <2>. QED
    BY <2>4, <2>6, <2>7, <2>8, <2>9, <2>10, <2>11
<1>4. TypeOK /\ VerifierInv /\ [Next]_vars =>
          [verifier.pc = "summary" /\ verifier'.pc = "done" /\ ~verifier.touched =>
               LET es == entries[verifier.payer]
               IN  verifier'.ok <=> /\ verifier.payer \notin authorized
                                    /\ es # <<>> /\ ~es[Len(es)].revoked]_vars
  BY <1>3
<1>. QED
  BY <1>1, <1>2, <1>4, TypeCorrect, PTL DEF Spec, VerdictStands
=============================================================================
