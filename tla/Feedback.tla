------------------------------- MODULE Feedback -------------------------------
(***************************************************************************)
(* Reputation feedback: give_feedback_demo.py lets an account that paid    *)
(* for an audit rate the agent, and verify_reputation_receipt.py confirms  *)
(* that the rating stands.  Every call of a script to the node is a step:  *)
(* payments, sales of the agent, revocations and the account's other       *)
(* transactions come between any two.                                      *)
(*                                                                         *)
(* Faulty operators are deliberate mistakes that the properties are tried  *)
(* on.                                                                     *)
(***************************************************************************)
EXTENDS Naturals, Sequences, FiniteSets, FiniteSetsExt

CONSTANTS
    Accounts,      \* who pays, rates and owns
    Targets,       \* audited contracts
    License,       \* MantleProofLicense
    OldLicense,    \* an earlier deployment that emits the same event
    Scripts,       \* runs of give_feedback_demo.py
    Verifier,      \* the run of verify_reputation_receipt.py
    Scenes,        \* which of these runs happen in one behaviour
    MaxPayments,   \* bound on payForAudit transactions
    MaxTxs,        \* bound on mined transactions to the registry
    MaxTransfers,  \* bound on changes of who controls the agent
    None

Payment == [ok : BOOLEAN, license : {License, OldLicense}, payer : Accounts, target : Targets]

ASSUME FeedbackAssumption ==
    /\ {MaxPayments, MaxTxs, MaxTransfers} \subseteq Nat
    /\ License # OldLicense
    /\ Accounts # {}
    /\ None \notin Accounts \cup Scripts
    /\ None \notin {0, 1} /\ None \notin {"0", "1", "2", "dry", "raised"}
    /\ \A scene \in Scenes : scene \subseteq Scripts \cup {Verifier}

VARIABLES
    payments,    \* payForAudit transactions; a hash is a position
    authorized,  \* owner, operators and approved address of the agent
    transfers,   \* how often that changed
    entries,     \* per account its entries in the Reputation Registry
    nonces,      \* per account its mined transactions
    pending,     \* per account the script whose transaction is in the pool
    runs,        \* the local variables of the scripts
    verifier     \* those of a verification

chainVars == <<payments, authorized, transfers, entries, nonces, pending>>
vars == <<chainVars, runs, verifier>>

NotRun == [pc |-> "new", code |-> None, status |-> None]

Init ==
    /\ payments = <<>>
    /\ authorized = {CHOOSE a \in Accounts : TRUE}
    /\ transfers = 0
    /\ entries = [a \in Accounts |-> <<>>]
    /\ nonces = [a \in Accounts |-> 0]
    /\ pending = [a \in Accounts |-> None]
    /\ \E scene \in Scenes :
         /\ runs = [s \in Scripts |-> IF s \in scene THEN NotRun ELSE [NotRun EXCEPT !.pc = "done"]]
         /\ verifier = [pc |-> IF Verifier \in scene THEN "new" ELSE "done"]

-------------------------------------------------------------------------------
(* The chain. *)

PayForAudit ==
    /\ Len(payments) < MaxPayments
    /\ \E p \in Payment : /\ p.ok \/ p.license = License     \* a failed one has no event
                         /\ payments' = Append(payments, p)
    /\ UNCHANGED <<authorized, transfers, entries, nonces, pending, runs, verifier>>

(* Whoever verifies account a sees two different states. *)
Touched(a) == IF verifier.pc \notin {"new", "done"} /\ verifier.payer = a
              THEN [verifier EXCEPT !.touched = TRUE] ELSE verifier

(* The agent is sold, or an operator is approved or dropped. *)
ChangeAuthorized ==
    /\ transfers < MaxTransfers
    /\ \E a \in Accounts :
         /\ authorized' = IF a \in authorized THEN authorized \ {a} ELSE authorized \cup {a}
         /\ verifier' = Touched(a)
         /\ runs' = [s \in Scripts |->
                IF pending[a] = s \/ (runs[s].pc \in {"nonce", "send", "wait"} /\ runs[s].payer = a)
                THEN [runs[s] EXCEPT !.moved = TRUE] ELSE runs[s]]
    /\ transfers' = transfers + 1
    /\ UNCHANGED <<payments, entries, nonces, pending>>

Mined == MapThenSumSet(LAMBDA a : nonces[a], Accounts)

Entry(s, target) == [script |-> s, target |-> target, revoked |-> FALSE]

(* The registry refuses those who control the agent. *)
GiveFeedback(a, s, target) ==
    IF a \in authorized THEN UNCHANGED entries
    ELSE entries' = [entries EXCEPT ![a] = Append(@, Entry(s, target))]

Mine(a) ==
    /\ pending[a] # None /\ Mined < MaxTxs
    /\ LET s == pending[a] IN
         /\ GiveFeedback(a, s, runs[s].target)
         /\ runs' = [runs EXCEPT ![s].status = IF a \in authorized THEN 0 ELSE 1]
    /\ nonces' = [nonces EXCEPT ![a] = @ + 1]
    /\ pending' = [pending EXCEPT ![a] = None]
    /\ verifier' = Touched(a)
    /\ UNCHANGED <<payments, authorized, transfers>>

(* Another transaction of the account; the pool drops one of its nonce. *)
Otherwise(a) ==
    /\ Mined < MaxTxs
    /\ \/ GiveFeedback(a, None, None)
       \/ \E i \in DOMAIN entries[a] : entries' = [entries EXCEPT ![a][i].revoked = TRUE]
    /\ nonces' = [nonces EXCEPT ![a] = @ + 1]
    /\ pending' = [pending EXCEPT ![a] = None]
    /\ verifier' = Touched(a)
    /\ UNCHANGED <<payments, authorized, transfers, runs>>

-------------------------------------------------------------------------------
(* give_feedback_demo.py. *)

Set(s, r)     == runs' = [runs EXCEPT ![s] = r]
Go(s, pc)     == Set(s, [runs[s] EXCEPT !.pc = pc])
Exit(s, code) == Set(s, [runs[s] EXCEPT !.pc = "done", !.code = code])

(* Arguments, settings and the node's chain id; 2 when they do not fit.    *)
Start(s) ==
    /\ runs[s] = NotRun
    /\ \/ Set(s, [NotRun EXCEPT !.pc = "done", !.code = "2"])
       \/ \E a \in Accounts, t \in Targets :
            Set(s, [pc |-> "paid", code |-> None, status |-> None, payer |-> a, target |-> t,
                    nonce |-> 0, paidBefore |-> 0, moved |-> FALSE])
    /\ UNCHANGED <<chainVars, verifier>>

(* assert_paid_via_tx and assert_paid look for the same event. *)
FaultyAuditPaidIn(p, payer, target) == p.ok /\ p.payer = payer /\ p.target = target
AuditPaidIn(p, payer, target) ==
    p.ok /\ p.license = License /\ p.payer = payer /\ p.target = target

(* With --paid-tx one transaction, else those from some block on; the node *)
(* may refuse the scan.                                                    *)
AssertPaid(s) ==
    /\ runs[s].pc = "paid"
    /\ \E looked \in {{i} : i \in DOMAIN payments} \cup {i .. Len(payments) : i \in DOMAIN payments}
                     \cup {{}} :
         IF \E i \in looked : AuditPaidIn(payments[i], runs[s].payer, runs[s].target)
         THEN Set(s, [runs[s] EXCEPT !.pc = "auth", !.paidBefore = Len(payments)])
         ELSE Exit(s, "1")
    /\ UNCHANGED <<chainVars, verifier>>

AssertNotAuthorized(s) ==
    /\ runs[s].pc = "auth"
    /\ IF runs[s].payer \in authorized THEN Exit(s, "1") ELSE Go(s, "estimate")
    /\ UNCHANGED <<chainVars, verifier>>

(* The estimate fails for what would revert; then the balance is compared, *)
(* and a dry run ends.                                                     *)
Estimate(s) ==
    /\ runs[s].pc = "estimate"
    /\ \/ runs[s].payer \notin authorized /\ Go(s, "nonce")
       \/ Exit(s, "1")
       \/ runs[s].payer \notin authorized /\ Set(s, [runs[s] EXCEPT !.pc = "done", !.code = "dry"])
    /\ UNCHANGED <<chainVars, verifier>>

(* The nonce behind the account's pending transactions. *)
FaultyTransactionCount(a) == IF pending[a] = None THEN nonces[a] ELSE nonces[a] + 1
TransactionCount(a) == nonces[a]

ReadNonce(s) ==
    /\ runs[s].pc = "nonce"
    /\ Set(s, [runs[s] EXCEPT !.pc = "send", !.nonce = TransactionCount(runs[s].payer)])
    /\ UNCHANGED <<chainVars, verifier>>

(* A transaction with a nonce that is in the pool replaces the other one   *)
(* if it pays more.                                                        *)
Send(s) ==
    /\ runs[s].pc = "send"
    /\ runs[s].nonce = nonces[runs[s].payer]
    /\ Mined < MaxTxs
    /\ pending' = [pending EXCEPT ![runs[s].payer] = s]
    /\ Go(s, "wait") \/ Exit(s, "raised")       \* the node's answer is lost
    /\ UNCHANGED <<payments, authorized, transfers, entries, nonces, verifier>>

(* The node refuses the transaction, or it waits three minutes in vain. *)
Raise(s) ==
    /\ runs[s].pc \in {"send", "wait"}
    /\ Exit(s, "raised")
    /\ UNCHANGED <<chainVars, verifier>>

FaultyExitCode(status) == "0"
ExitCode(status) == IF status = 1 THEN "0" ELSE "1"

Receipt(s) ==
    /\ runs[s].pc = "wait" /\ runs[s].status # None
    /\ Exit(s, ExitCode(runs[s].status))
    /\ UNCHANGED <<chainVars, verifier>>

-------------------------------------------------------------------------------
(* verify_reputation_receipt.py. *)

(* isAuthorizedOrOwner, ... *)
VerifyAuthorized ==
    /\ verifier.pc = "new"
    /\ \E a \in Accounts : verifier' = [pc |-> "last", payer |-> a, touched |-> FALSE,
                                        ok |-> a \notin authorized]
    /\ UNCHANGED <<chainVars, runs>>

(* ... getLastIndex, ... *)
VerifyLast ==
    /\ verifier.pc = "last"
    /\ LET last == Len(entries[verifier.payer])
       IN  verifier' = [pc |-> "read", payer |-> verifier.payer, touched |-> verifier.touched,
                        ok |-> verifier.ok /\ last >= 1, last |-> last]
    /\ UNCHANGED <<chainVars, runs>>

(* ... readFeedback, if there is one, ... *)
FaultyReadIndex(last) == 1
ReadIndex(last) == last
VerifyRead ==
    /\ verifier.pc = "read"
    /\ verifier' = [verifier EXCEPT
           !.pc = "summary",
           !.ok = @ /\ ~entries[verifier.payer][ReadIndex(verifier.last)].revoked]
    /\ UNCHANGED <<chainVars, runs>>

(* ... and getSummary, which counts what is not revoked. *)
VerifySummary ==
    /\ verifier.pc = "summary"
    /\ LET es == entries[verifier.payer]
           count == Cardinality({i \in DOMAIN es : ~es[i].revoked})
       IN  verifier' = [verifier EXCEPT !.pc = "done",
                                        !.ok = @ /\ count >= 1 /\ count <= verifier.last]
    /\ UNCHANGED <<chainVars, runs>>

-------------------------------------------------------------------------------
Next ==
    \/ PayForAudit \/ ChangeAuthorized
    \/ \E a \in Accounts : Mine(a) \/ Otherwise(a)
    \/ \E s \in Scripts :
         \/ Start(s) \/ AssertPaid(s) \/ AssertNotAuthorized(s) \/ Estimate(s)
         \/ ReadNonce(s) \/ Send(s) \/ Raise(s) \/ Receipt(s)
    \/ VerifyAuthorized \/ VerifyLast \/ VerifyRead \/ VerifySummary

Spec == Init /\ [][Next]_vars

-------------------------------------------------------------------------------
(* Properties. *)

Steps == {"new", "paid", "auth", "estimate", "nonce", "send", "wait", "done"}
Codes == {None, "0", "1", "2", "dry", "raised"}
Entries == [script : Scripts \cup {None}, target : Targets \cup {None}, revoked : BOOLEAN]

(* A run that never started, and one that has read its arguments. *)
Idle    == [pc : {"new", "done"}, code : {None, "2"}, status : {None}]
Started == [pc : Steps \ {"new"}, code : Codes \ {"2"}, status : {None, 0, 1},
            payer : Accounts, target : Targets, nonce : Nat, paidBefore : Nat,
            moved : BOOLEAN]

Verifications ==
    [pc : {"new", "done"}]
    \cup [pc : {"last"}, payer : Accounts, touched : BOOLEAN, ok : BOOLEAN]
    \cup [pc : {"read", "summary", "done"}, payer : Accounts, touched : BOOLEAN,
          ok : BOOLEAN, last : Nat]

TypeOK ==
    /\ payments \in Seq(Payment)
    /\ authorized \subseteq Accounts
    /\ transfers \in 0 .. MaxTransfers
    /\ entries \in [Accounts -> Seq(Entries)]
    /\ nonces \in [Accounts -> Nat]
    /\ pending \in [Accounts -> Scripts \cup {None}]
    /\ \A a \in Accounts : Len(entries[a]) <= nonces[a]
    /\ runs \in [Scripts -> Idle \cup Started]
    /\ \A s \in Scripts : runs[s].pc = "send" => runs[s].nonce <= nonces[runs[s].payer]
    /\ verifier \in Verifications

EntriesOf(s) ==
    UNION {{a} \X {i \in DOMAIN entries[a] : entries[a][i].script = s} : a \in Accounts}

(* A rating that the script posts is its account's, about a target for     *)
(* whose audit that account had paid this deployment's license before the  *)
(* transaction was signed; one run posts one rating, also when its         *)
(* transaction competes with another run's.                                *)
FeedbackEarned ==
    \A s \in Scripts :
        /\ Cardinality(EntriesOf(s)) <= 1
        /\ \A e \in EntriesOf(s) :
             /\ e[1] = runs[s].payer
             /\ \E i \in 1 .. runs[s].paidBefore :
                  /\ payments[i].ok /\ payments[i].license = License
                  /\ payments[i].payer = e[1]
                  /\ payments[i].target = entries[e[1]][e[2]].target

(* A run exits with 0 only if its rating is in the registry, and with 1 or *)
(* 2 only if it is not and never will be; after the checks a transaction   *)
(* reverts only if control of the agent changed since.                     *)
ExitsTrue ==
    \A s \in Scripts :
        /\ runs[s].code = "0" => EntriesOf(s) # {}
        /\ runs[s].code \in {"1", "2", "dry"} =>
             EntriesOf(s) = {} /\ \A a \in Accounts : pending[a] # s
        /\ runs[s].status = 0 => runs[s].moved

(* A verification during which the account neither rates, revokes nor      *)
(* gains or loses control of the agent confirms exactly the latest rating  *)
(* of an account that does not control the agent and has not revoked it.   *)
VerdictStands ==
    [][verifier.pc = "summary" /\ verifier'.pc = "done" /\ ~verifier.touched =>
         LET es == entries[verifier.payer]
         IN  verifier'.ok <=> /\ verifier.payer \notin authorized
                              /\ es # <<>> /\ ~es[Len(es)].revoked
      ]_vars
===============================================================================
