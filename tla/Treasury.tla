------------------------------- MODULE Treasury -------------------------------
(***************************************************************************)
(* MantleProof's money contracts: MantleProofLicense sells audits and      *)
(* subscriptions and splits every payment between the owner of the iNFT    *)
(* and the treasury; StakingPool holds stakes behind audits and settles    *)
(* them with a disputer or the treasury; TreasurySplit releases what it    *)
(* received through withdrawals that are announced in advance.             *)
(*                                                                         *)
(* A transaction is one step and a revert is no step.  Each function       *)
(* writes before it sends MNT, so a receiver that calls back does what it  *)
(* could do in the next transaction.  Blocks are ordered by `now`; several *)
(* transactions may share a timestamp.                                     *)
(*                                                                         *)
(* Operators whose name starts with Faulty are deliberate mistakes that    *)
(* the properties are tried on; nothing else uses them.                    *)
(***************************************************************************)
EXTENDS Naturals, Sequences, Amounts

CONSTANTS
    Accounts,      \* accounts that send transactions or receive MNT
    Owner,         \* first owner of the license and of the treasury
    Registry,      \* the account that may lock and slash stakes
    Heirs,         \* accounts that may become owners, None to have no owner
    Refusers,      \* accounts whose receive function reverts
    Roots,         \* root hashes of audits with a stake
    None,          \* the zero address
    Payments,      \* values sent with a call
    Prices,        \* prices the owner may set
    Expiries,      \* expiries the owner may give away
    Period,        \* subscriptionPeriod
    TIMELOCK,      \* delay of a withdrawal
    UNLOCK_WINDOW, \* time a stake is locked
    MaxTime,       \* largest timestamp, 2^64 - 1 in the code
    MaxNow,        \* bound on the clock
    MaxReceived,   \* bound on the MNT that is paid in
    MaxNotices     \* bound on the treasury's events

ASSUME TreasuryAssumption ==
    /\ Owner \in Accounts /\ Registry \in Accounts /\ Refusers \subseteq Accounts
    /\ None \notin Accounts /\ Heirs \subseteq Accounts \cup {None}
    /\ Payments \subseteq Nat /\ Prices \subseteq Nat
    /\ Expiries \subseteq 0 .. MaxTime
    /\ Period \in Nat /\ TIMELOCK \in Nat /\ UNLOCK_WINDOW \in Nat
    /\ MaxTime \in Nat /\ MaxNow \in Nat /\ MaxReceived \in Nat /\ MaxNotices \in Nat

VARIABLES
    now,                \* block.timestamp
    owner,              \* Ownable._owner of the license and of the treasury
    auditPrice,         \* MantleProofLicense.auditPrice
    subscriptionPrice,  \* MantleProofLicense.subscriptionPrice
    licenseExpiry,      \* MantleProofLicense.licenseExpiry
    agentOwner,         \* owner of the iNFT, who gets the larger share
    treasury,           \* MNT held by TreasurySplit
    pending,            \* TreasurySplit.pending
    stakes,             \* StakingPool._stakes
    pool,               \* MNT held by StakingPool
    credit,             \* history: paid time an account has left
    notices,            \* history: the withdrawal events of TreasurySplit
    money               \* history: MNT by where it came from or went to

licenseVars  == <<auditPrice, subscriptionPrice, licenseExpiry, agentOwner, credit>>
treasuryVars == <<pending, notices>>
poolVars     == <<stakes, pool>>
vars == <<now, owner, licenseVars, treasury, treasuryVars, poolVars, money>>

BPS           == 10000
OWNER_BPS     == 8000
UNLOCKED_BPS  == 9900   \* StakingPool.TREASURY_BPS

Ownables == {"license", "treasury"}

NoPending == [exists |-> FALSE, to |-> None, amount |-> 0, eta |-> 0]
NoStake   == [status |-> "NONE", amount |-> 0, unlocksAt |-> 0]
Statuses  == {"NONE", "LOCKED", "RELEASED", "SLASHED_DISPUTE"}
Stake     == [status : Statuses, amount : Nat, unlocksAt : Nat]
Pending   == [exists : BOOLEAN, to : Accounts \cup {None}, amount : Nat, eta : Nat]
Notice    == [kind : {"proposed", "cancelled", "executed"},
              to : Accounts \cup {None}, amount : Nat, at : Nat]
Money     == [paid : Nat, staked : Nat, donated : Nat, owners : Nat,
              withdrawn : Nat, slashed : Nat, retained : Nat]

Init ==
    /\ now = 1
    /\ owner = [c \in Ownables |-> Owner]
    /\ auditPrice \in Prices
    /\ subscriptionPrice \in Prices
    /\ licenseExpiry = [a \in Accounts |-> 0]
    /\ agentOwner \in Accounts
    /\ treasury = 0
    /\ pending = NoPending
    /\ stakes = [r \in Roots |-> NoStake]
    /\ pool = 0
    /\ credit = [a \in Accounts |-> 0]
    /\ notices = <<>>
    /\ money = [paid |-> 0, staked |-> 0, donated |-> 0, owners |-> 0,
                withdrawn |-> 0, slashed |-> 0, retained |-> 0]

Received == money.paid + money.staked + money.donated

(* Time passes, and uses up paid time. *)
Tick ==
    /\ now < MaxNow
    /\ now' = now + 1
    /\ credit' = [a \in Accounts |-> IF credit[a] > 0 THEN credit[a] - 1 ELSE 0]
    /\ UNCHANGED <<owner, auditPrice, subscriptionPrice, licenseExpiry, agentOwner,
                   treasury, treasuryVars, poolVars, money>>

-------------------------------------------------------------------------------
(* Ownable: the owner of either contract may be another account at any     *)
(* time, or nobody for ever.                                               *)

TransferOwnership(who, c, to) ==
    /\ who = owner[c]
    /\ owner' = [owner EXCEPT ![c] = to]
    /\ UNCHANGED <<now, licenseVars, treasury, treasuryVars, poolVars, money>>

-------------------------------------------------------------------------------
(* MantleProofLicense. *)

SetPrices(who, audit, subscription) ==
    /\ who = owner["license"]
    /\ auditPrice' = audit
    /\ subscriptionPrice' = subscription
    /\ UNCHANGED <<now, owner, licenseExpiry, agentOwner, credit, treasury,
                   treasuryVars, poolVars, money>>

(* The iNFT is sold. *)
TransferINFT(to) ==
    /\ agentOwner' = to
    /\ UNCHANGED <<now, owner, auditPrice, subscriptionPrice, licenseExpiry, credit,
                   treasury, treasuryVars, poolVars, money>>

OwnerCut(value) == (value * OWNER_BPS) \div BPS

(* _split: the owner of the iNFT gets its share, the treasury the rest; if *)
(* the owner refuses it, the payment reverts.                              *)
Split(value) ==
    /\ agentOwner \notin Refusers
    /\ treasury' = treasury + (value - OwnerCut(value))
    /\ money' = [money EXCEPT !.paid = @ + value, !.owners = @ + OwnerCut(value)]

PayForAudit(value) ==
    /\ Received + value <= MaxReceived
    /\ value >= auditPrice
    /\ Split(value)
    /\ UNCHANGED <<now, owner, licenseVars, treasuryVars, poolVars>>

(* A subscription is extended even if it has run out. *)
FaultyBase(who) == licenseExpiry[who]

(* A subscription starts now, or where the present one ends. *)
Base(who) == IF licenseExpiry[who] > now THEN licenseExpiry[who] ELSE now

(* Timestamps are added without a check, and exceed their width. *)
FaultyFits(t) == t \in Nat

(* Checked arithmetic: a sum beyond uint64 reverts. *)
Fits(t) == t <= MaxTime

Subscribe(who, value) ==
    /\ Received + value <= MaxReceived
    /\ value >= subscriptionPrice
    /\ Fits(Base(who) + Period)
    /\ licenseExpiry' = [licenseExpiry EXCEPT ![who] = Base(who) + Period]
    /\ credit' = [credit EXCEPT ![who] = @ + Period]
    /\ Split(value)
    /\ UNCHANGED <<now, owner, auditPrice, subscriptionPrice, agentOwner, treasuryVars, poolVars>>

(* mintLicense overwrites whatever the licensee had, longer or shorter. *)
MintLicense(who, licensee, expiresAt) ==
    /\ who = owner["license"]
    /\ licenseExpiry' = [licenseExpiry EXCEPT ![licensee] = expiresAt]
    /\ credit' = [credit EXCEPT ![licensee] =
                     IF expiresAt > now THEN expiresAt - now ELSE 0]
    /\ UNCHANGED <<now, owner, auditPrice, subscriptionPrice, agentOwner, treasury,
                   treasuryVars, poolVars, money>>

-------------------------------------------------------------------------------
(* TreasurySplit. *)

(* receive: MNT that is neither a share of a payment nor part of a stake. *)
Donate(value) ==
    /\ Received + value <= MaxReceived
    /\ treasury' = treasury + value
    /\ money' = [money EXCEPT !.donated = @ + value]
    /\ UNCHANGED <<now, owner, licenseVars, treasuryVars, poolVars>>

Announce(kind, to, amount) ==
    /\ Len(notices) < MaxNotices
    /\ notices' = Append(notices, [kind |-> kind, to |-> to, amount |-> amount, at |-> now])

(* A proposal that replaces another keeps its eta. *)
FaultyProposeWithdrawal(who, to, amount) ==
    /\ who = owner["treasury"]
    /\ amount \in 1 .. treasury
    /\ pending' = [exists |-> TRUE, to |-> to, amount |-> amount,
                   eta |-> IF pending.exists THEN pending.eta ELSE now + TIMELOCK]
    /\ Announce("proposed", to, amount)
    /\ UNCHANGED <<now, owner, licenseVars, treasury, poolVars, money>>

(* A second proposal replaces the first one and starts its delay anew. *)
ProposeWithdrawal(who, to, amount) ==
    /\ who = owner["treasury"]
    /\ amount \in 1 .. treasury
    /\ pending' = [exists |-> TRUE, to |-> to, amount |-> amount, eta |-> now + TIMELOCK]
    /\ Announce("proposed", to, amount)
    /\ UNCHANGED <<now, owner, licenseVars, treasury, poolVars, money>>

CancelWithdrawal(who) ==
    /\ who = owner["treasury"]
    /\ pending.exists
    /\ pending' = NoPending
    /\ Announce("cancelled", None, 0)
    /\ UNCHANGED <<now, owner, licenseVars, treasury, poolVars, money>>

(* The transfer at the end takes the treasury's MNT and must be accepted. *)
ExecuteWithdrawal(who) ==
    /\ who = owner["treasury"]
    /\ pending.exists
    /\ now >= pending.eta
    /\ pending.to \notin Refusers
    /\ pending.amount <= treasury
    /\ pending' = NoPending
    /\ treasury' = treasury - pending.amount
    /\ money' = [money EXCEPT !.withdrawn = @ + pending.amount]
    /\ Announce("executed", pending.to, pending.amount)
    /\ UNCHANGED <<now, owner, licenseVars, poolVars>>

-------------------------------------------------------------------------------
(* StakingPool. *)

(* lockStake: a root is staked at most once, ever. *)
LockStake(who, r, amount) ==
    /\ Received + amount <= MaxReceived
    /\ who = Registry
    /\ amount # 0
    /\ stakes[r].status = "NONE"
    /\ stakes' = [stakes EXCEPT ![r] = [status |-> "LOCKED", amount |-> amount,
                                        unlocksAt |-> now + UNLOCK_WINDOW]]
    /\ pool' = pool + amount
    /\ money' = [money EXCEPT !.staked = @ + amount]
    /\ UNCHANGED <<now, owner, licenseVars, treasury, treasuryVars>>

(* The amount of a settled stake is kept for the record. *)
FaultySettled(r, status) ==
    /\ stakes[r].status = "LOCKED"
    /\ stakes' = [stakes EXCEPT ![r].status = status]

(* A locked stake is settled, once, and keeps no amount. *)
Settled(r, status) ==
    /\ stakes[r].status = "LOCKED"
    /\ stakes' = [stakes EXCEPT ![r].status = status, ![r].amount = 0]

(* slashByDispute: a portion to the disputer, the remainder to the treasury. *)
SlashByDispute(who, r, beneficiary, portion) ==
    /\ who = Registry
    /\ portion \in 1 .. stakes[r].amount
    /\ beneficiary \notin Refusers
    /\ Settled(r, "SLASHED_DISPUTE")
    /\ pool' = pool - stakes[r].amount
    /\ treasury' = treasury + (stakes[r].amount - portion)
    /\ money' = [money EXCEPT !.slashed = @ + portion]
    /\ UNCHANGED <<now, owner, licenseVars, treasuryVars>>

UnlockedCut(amount) == (amount * UNLOCKED_BPS) \div BPS

(* unlock: anyone may release a stake past its window; a part is retained. *)
Unlock(r) ==
    LET cut == UnlockedCut(stakes[r].amount) IN
    /\ now >= stakes[r].unlocksAt
    /\ Settled(r, "RELEASED")
    /\ pool' = pool - cut
    /\ treasury' = treasury + cut
    /\ money' = [money EXCEPT !.retained = @ + (stakes[r].amount - cut)]
    /\ UNCHANGED <<now, owner, licenseVars, treasuryVars>>

-------------------------------------------------------------------------------

LicenseStep ==
    \/ \E who \in Accounts, p, q \in Prices : SetPrices(who, p, q)
    \/ \E to \in Accounts : TransferINFT(to)
    \/ \E v \in Payments : PayForAudit(v)
    \/ \E who \in Accounts, v \in Payments : Subscribe(who, v)
    \/ \E who, licensee \in Accounts, e \in Expiries : MintLicense(who, licensee, e)

OwnershipStep ==
    \E who \in Accounts, c \in Ownables, to \in Heirs :
        TransferOwnership(who, c, to)

WithdrawalStep ==
    \E who \in Accounts :
        \/ \E to \in Accounts, amount \in Payments : ProposeWithdrawal(who, to, amount)
        \/ CancelWithdrawal(who)
        \/ ExecuteWithdrawal(who)

StakeStep ==
    \E r \in Roots :
        \/ \E who \in Accounts, v \in Payments : LockStake(who, r, v)
        \/ \E who, to \in Accounts, v \in Payments : SlashByDispute(who, r, to, v)
        \/ Unlock(r)

Next ==
    \/ Tick
    \/ OwnershipStep
    \/ LicenseStep
    \/ \E v \in Payments : Donate(v)
    \/ WithdrawalStep
    \/ StakeStep

Spec == Init /\ [][Next]_vars

-------------------------------------------------------------------------------
(***************************************************************************)
(* Properties.                                                             *)
(***************************************************************************)

(* Every state variable holds a value of its type. *)
TypeOK ==
    /\ now \in Nat
    /\ owner \in [Ownables -> Accounts \cup {None}]
    /\ auditPrice \in Nat /\ subscriptionPrice \in Nat
    /\ licenseExpiry \in [Accounts -> 0 .. MaxTime]
    /\ agentOwner \in Accounts
    /\ treasury \in Nat /\ pool \in Nat
    /\ pending \in Pending
    /\ stakes \in [Roots -> Stake]
    /\ credit \in [Accounts -> Nat]
    /\ notices \in Seq(Notice)
    /\ money \in Money

(* No MNT stays behind in the license and none is lost in rounding: all    *)
(* that was paid, staked or donated is with the owners of the iNFT, in the *)
(* treasury, in the pool, or was withdrawn or awarded to disputers.        *)
NothingLost ==
    Received = money.owners + treasury + pool + money.withdrawn + money.slashed

(* Rounding favours the treasury: over all payments together, whatever     *)
(* their sizes, the owners get at most their share.                        *)
OwnersGetAtMostTheirShare == BPS * money.owners <= OWNER_BPS * money.paid

(* Time that was paid for is never lost or doubled, whether an account     *)
(* subscribes early, late or twice at once: what isLicensed still has to   *)
(* run is what a prepaid meter would show.                                 *)
PaidTimeExact ==
    \A a \in Accounts :
        credit[a] = IF licenseExpiry[a] > now THEN licenseExpiry[a] - now ELSE 0

(* A withdrawal that was accepted once stays covered, whatever comes in    *)
(* between: nothing else takes MNT out of the treasury.                    *)
PendingCovered == pending.exists => pending.amount <= treasury

(* Each withdrawal was announced, to this receiver and in this amount, at  *)
(* least TIMELOCK before, and was neither replaced nor cancelled since.    *)
WithdrawalsAnnounced ==
    \A i \in DOMAIN notices :
        notices[i].kind = "executed" =>
            /\ i > 1
            /\ notices[i - 1].kind = "proposed"
            /\ notices[i - 1].to = notices[i].to
            /\ notices[i - 1].amount = notices[i].amount
            /\ notices[i - 1].at + TIMELOCK <= notices[i].at

Staked == [r \in Roots |-> stakes[r].amount]

(* Every stake that is still locked is backed by the pool's MNT, next to   *)
(* what was retained of stakes released earlier; a stake that was settled, *)
(* by slash or release, can draw on neither.                               *)
StakesBacked == pool = TotalOf(Staked, Roots) + money.retained

(* Neither contract pays out what belongs elsewhere: the totals and each   *)
(* locked stake are covered, whatever is paid, slashed, released or        *)
(* withdrawn in between.                                                   *)
MoneyAccounted == NothingLost /\ StakesBacked
===============================================================================
