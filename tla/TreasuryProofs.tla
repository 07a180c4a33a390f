---------------------------- MODULE TreasuryProofs ----------------------------
(***************************************************************************)
(* Theorems about the money contracts: conservation of MNT, solvency of    *)
(* the staking pool and of announced withdrawals, and paid time.           *)
(***************************************************************************)
EXTENDS Treasury, SequenceTheorems, FiniteSetTheorems, TLAPS

-------------------------------------------------------------------------------
(* Totals. *)

(* The n units of one member, with units of others. *)
LEMMA UnitsAdded ==
    ASSUME NEW rest, IsFiniteSet(rest), NEW x, NEW n \in Nat,
           rest \cap ({x} \X (1 .. n)) = {}
    PROVE  /\ IsFiniteSet(rest \cup ({x} \X (1 .. n)))
           /\ Cardinality(rest \cup ({x} \X (1 .. n))) = Cardinality(rest) + n
<1>. DEFINE block == {x} \X (1 .. n)
<1>1. IsFiniteSet({x}) /\ Cardinality({x}) = 1
  BY FS_Singleton
<1>2. IsFiniteSet(1 .. n) /\ Cardinality(1 .. n) = n
  <2>1. /\ IsFiniteSet(1 .. n)
        /\ Cardinality(1 .. n) = IF 1 > n THEN 0 ELSE n - 1 + 1
    BY FS_Interval
  <2>. QED
    BY <2>1
<1>3. IsFiniteSet(block) /\ Cardinality(block) = n
  <2>1. /\ IsFiniteSet(block)
        /\ Cardinality(block) = Cardinality({x}) * Cardinality(1 .. n)
    BY <1>1, <1>2, FS_Product
  <2>. QED
    BY <1>1, <1>2, <2>1
<1>. HIDE DEF block
<1>4. rest \cap block = {}
  BY DEF block
<1>5. /\ IsFiniteSet(rest \cup block)
      /\ Cardinality(rest \cup block)
             = Cardinality(rest) + Cardinality(block) - Cardinality(rest \cap block)
  BY <1>3, FS_Union
<1>6. Cardinality(rest) \in Nat /\ Cardinality({}) = 0
  BY FS_CardinalityType, FS_EmptySet
<1>7. Cardinality(rest \cup block) = Cardinality(rest) + n
  BY <1>3, <1>4, <1>5, <1>6
<1>. QED
  BY <1>5, <1>7 DEF block

(* A member whose amount changes changes the total by the difference. *)
LEMMA TotalUpdate ==
    ASSUME NEW f, NEW g, NEW S, NEW x \in S, f[x] \in Nat, g[x] \in Nat,
           \A y \in S \ {x} : g[y] = f[y], IsFiniteSet(UnitsOf(f, S))
    PROVE  /\ IsFiniteSet(UnitsOf(g, S))
           /\ TotalOf(f, S) \in Nat
           /\ f[x] <= TotalOf(f, S)
           /\ TotalOf(g, S) = (TotalOf(f, S) - f[x]) + g[x]
<1>. DEFINE rest == UnitsOf(f, S \ {x})
<1>1. /\ UnitsOf(f, S) = rest \cup ({x} \X (1 .. f[x]))
      /\ UnitsOf(g, S) = rest \cup ({x} \X (1 .. g[x]))
  BY DEF UnitsOf
<1>2. \A n \in Nat : rest \cap ({x} \X (1 .. n)) = {}
  BY DEF UnitsOf
<1>3. rest \in SUBSET UnitsOf(f, S)
  BY <1>1
<1>. HIDE DEF rest
<1>4. IsFiniteSet(rest) /\ Cardinality(rest) \in Nat
  BY <1>3, FS_Subset, FS_CardinalityType
<1>5. TotalOf(f, S) = Cardinality(rest) + f[x]
  <2>1. PICK n \in Nat : n = f[x]
    OBVIOUS
  <2>2. Cardinality(rest \cup ({x} \X (1 .. n))) = Cardinality(rest) + n
    BY <1>2, <1>4, UnitsAdded
  <2>. QED
    BY <1>1, <2>1, <2>2 DEF TotalOf
<1>6. IsFiniteSet(UnitsOf(g, S)) /\ TotalOf(g, S) = Cardinality(rest) + g[x]
  <2>1. PICK n \in Nat : n = g[x]
    OBVIOUS
  <2>2. /\ IsFiniteSet(rest \cup ({x} \X (1 .. n)))
        /\ Cardinality(rest \cup ({x} \X (1 .. n))) = Cardinality(rest) + n
    BY <1>2, <1>4, UnitsAdded
  <2>. QED
    BY <1>1, <2>1, <2>2 DEF TotalOf
<1>. QED
  BY <1>4, <1>5, <1>6

-------------------------------------------------------------------------------
(* Shares. *)

(* The owner's cut of a payment is part of it, and rounded down. *)
LEMMA OwnerCutBound ==
    ASSUME NEW v \in Nat
    PROVE  /\ OwnerCut(v) \in Nat
           /\ OwnerCut(v) <= v
           /\ BPS * OwnerCut(v) <= OWNER_BPS * v
BY DEF OwnerCut, BPS, OWNER_BPS

(* What is released of a stake is part of it. *)
LEMMA UnlockedCutBound ==
    ASSUME NEW v \in Nat
    PROVE  UnlockedCut(v) \in Nat /\ UnlockedCut(v) <= v
BY DEF UnlockedCut, BPS, UNLOCKED_BPS

-------------------------------------------------------------------------------
(* Types and the backing of stakes.  That the pool never goes below zero   *)
(* is part of its type and needs the backing, so the two are one           *)
(* invariant.  A root that is staked must not count before, so only locked *)
(* stakes have an amount.                                                  *)

Backing ==
    /\ \A r \in Roots : stakes[r].status # "LOCKED" => stakes[r].amount = 0
    /\ IsFiniteSet(UnitsOf(Staked, Roots))
    /\ StakesBacked
MoneyInv == TypeOK /\ Backing

(* A stake that changes from its amount to another moves the total so. *)
LEMMA StakeChange ==
    ASSUME MoneyInv, NEW r \in Roots, NEW s \in Stake,
           s.status # "LOCKED" => s.amount = 0,
           stakes' = [stakes EXCEPT ![r] = s]
    PROVE  /\ stakes' \in [Roots -> Stake]
           /\ \A x \in Roots : stakes'[x].status # "LOCKED" => stakes'[x].amount = 0
           /\ IsFiniteSet(UnitsOf(Staked, Roots))'
           /\ stakes[r].amount \in Nat
           /\ stakes[r].amount <= pool - money.retained
           /\ TotalOf(Staked, Roots)' =
                  ((pool - money.retained) - stakes[r].amount) + s.amount
<1>. USE DEF MoneyInv, Backing
<1>1. /\ Staked[r] = stakes[r].amount
      /\ stakes[r].amount \in Nat
      /\ pool \in Nat /\ money.retained \in Nat
  BY DEF TypeOK, Staked, Stake, Money
<1>2. /\ Staked'[r] = s.amount /\ s.amount \in Nat
      /\ \A x \in Roots \ {r} : Staked'[x] = Staked[x]
  BY DEF TypeOK, Staked, Stake
<1>3. /\ IsFiniteSet(UnitsOf(Staked', Roots))
      /\ TotalOf(Staked, Roots) \in Nat
      /\ Staked[r] <= TotalOf(Staked, Roots)
      /\ TotalOf(Staked', Roots) = (TotalOf(Staked, Roots) - Staked[r]) + Staked'[r]
  BY <1>1, <1>2, TotalUpdate
<1>4. TotalOf(Staked, Roots) = pool - money.retained
  BY <1>1, <1>3 DEF StakesBacked
<1>5. stakes' \in [Roots -> Stake]
  BY DEF TypeOK
<1>6. \A x \in Roots : stakes'[x].status # "LOCKED" => stakes'[x].amount = 0
  BY DEF TypeOK
<1>. QED
  BY <1>1, <1>2, <1>3, <1>4, <1>5, <1>6 DEF TotalOf, UnitsOf

(* Actions that leave the pool alone keep its stakes backed. *)
LEMMA BackingKept ==
    ASSUME Backing, UNCHANGED poolVars, money'.retained = money.retained
    PROVE  Backing'
BY DEF Backing, StakesBacked, Staked, poolVars, TotalOf, UnitsOf

LEMMA MoneyInit == Init => MoneyInv
<1>. SUFFICES ASSUME Init PROVE MoneyInv
  OBVIOUS
<1>1. TypeOK
  <2>1. notices \in Seq(Notice)
    BY DEF Init
  <2>2. pending \in Pending
    BY DEF Init, NoPending, Pending
  <2>3. stakes \in [Roots -> Stake]
    BY DEF Init, NoStake, Stake, Statuses
  <2>. QED
    BY <2>1, <2>2, <2>3, TreasuryAssumption DEF Init, Money, TypeOK
<1>2. UnitsOf(Staked, Roots) = {}
  BY DEF UnitsOf, Staked, Init, NoStake
<1>3. IsFiniteSet({}) /\ Cardinality({}) = 0
  BY FS_EmptySet
<1>4. StakesBacked
  BY <1>2, <1>3 DEF StakesBacked, TotalOf, Init
<1>5. \A r \in Roots : stakes[r].status # "LOCKED" => stakes[r].amount = 0
  BY DEF Init, NoStake
<1>. QED
  BY <1>1, <1>2, <1>3, <1>4, <1>5 DEF MoneyInv, Backing

(* What a payment does to the balances. *)
LEMMA SplitEffect ==
    ASSUME TypeOK, NEW v \in Nat, Split(v)
    PROVE  /\ treasury' \in Nat
           /\ treasury' = treasury + (v - OwnerCut(v))
           /\ money' \in Money
           /\ money'.paid = money.paid + v
           /\ money'.owners = money.owners + OwnerCut(v)
           /\ money'.staked = money.staked
           /\ money'.donated = money.donated
           /\ money'.withdrawn = money.withdrawn
           /\ money'.slashed = money.slashed
           /\ money'.retained = money.retained
<1>. DEFINE cut == OwnerCut(v)
<1>1. cut \in Nat /\ cut <= v
  BY OwnerCutBound
<1>2. /\ treasury' = treasury + (v - cut)
      /\ money' = [money EXCEPT !.paid = @ + v, !.owners = @ + cut]
  BY DEF Split
<1>. HIDE DEF cut
<1>3. treasury \in Nat /\ money \in Money
  BY DEF TypeOK
<1>4. treasury' \in Nat
  BY <1>3, <1>1, <1>2
<1>5. money' = [money EXCEPT !.paid = money.paid + v, !.owners = money.owners + cut]
  BY <1>3, <1>2 DEF Money
<1>6. money.paid + v \in Nat /\ money.owners + cut \in Nat
  BY <1>3, <1>1 DEF Money
<1>7. /\ money' \in Money
      /\ money'.paid = money.paid + v
      /\ money'.owners = money.owners + cut
      /\ money'.staked = money.staked
      /\ money'.donated = money.donated
      /\ money'.withdrawn = money.withdrawn
      /\ money'.slashed = money.slashed
      /\ money'.retained = money.retained
  BY <1>3, <1>5, <1>6 DEF Money
<1>. QED
  BY <1>2, <1>4, <1>7 DEF cut

(* What an announcement does to the treasury's events. *)
LEMMA AnnounceEffect ==
    ASSUME TypeOK, NEW kind \in {"proposed", "cancelled", "executed"},
           NEW to \in Accounts \cup {None}, NEW amount \in Nat,
           Announce(kind, to, amount)
    PROVE  /\ notices' \in Seq(Notice)
           /\ Len(notices') = Len(notices) + 1
           /\ notices'[Len(notices')] =
                  [kind |-> kind, to |-> to, amount |-> amount, at |-> now]
           /\ \A i \in 1 .. Len(notices) : notices'[i] = notices[i]
<1>. DEFINE notice == [kind |-> kind, to |-> to, amount |-> amount, at |-> now]
<1>1. notice \in Notice /\ notices \in Seq(Notice)
  BY DEF TypeOK, Notice
<1>2. notices' = Append(notices, notice)
  BY DEF Announce
<1>. HIDE DEF notice
<1>3. /\ notices' \in Seq(Notice)
      /\ Len(notices') = Len(notices) + 1
      /\ \A i \in 1 .. Len(notices) : notices'[i] = notices[i]
      /\ notices'[Len(notices) + 1] = notice
  BY <1>1, <1>2, AppendProperties
<1>. QED
  BY <1>3 DEF notice

-------------------------------------------------------------------------------
(* One lemma per action that moves MNT, or that is not obvious. *)

LEMMA TickMoney ==
    ASSUME MoneyInv, Tick PROVE MoneyInv'
<1>1. now' \in Nat /\ credit' \in [Accounts -> Nat]
  BY DEF Tick, MoneyInv, TypeOK
<1>2. TypeOK'
  BY <1>1 DEF Tick, MoneyInv, TypeOK, treasuryVars, poolVars
<1>3. Backing'
  BY BackingKept DEF Tick, MoneyInv
<1>. QED
  BY <1>2, <1>3 DEF MoneyInv

LEMMA TransferOwnershipMoney ==
    ASSUME MoneyInv, NEW who \in Accounts, NEW c \in Ownables,
           NEW to \in Accounts \cup {None}, TransferOwnership(who, c, to)
    PROVE  MoneyInv'
<1>1. owner' \in [Ownables -> Accounts \cup {None}]
  BY DEF TransferOwnership, MoneyInv, TypeOK
<1>2. TypeOK'
  BY <1>1 DEF TransferOwnership, MoneyInv, TypeOK, licenseVars, treasuryVars, poolVars
<1>3. Backing'
  BY BackingKept DEF TransferOwnership, MoneyInv
<1>. QED
  BY <1>2, <1>3 DEF MoneyInv

LEMMA SetPricesMoney ==
    ASSUME MoneyInv, NEW who \in Accounts, NEW p \in Prices, NEW q \in Prices,
           SetPrices(who, p, q)
    PROVE  MoneyInv'
<1>1. TypeOK'
  BY TreasuryAssumption DEF SetPrices, MoneyInv, TypeOK, treasuryVars, poolVars
<1>2. Backing'
  BY BackingKept DEF SetPrices, MoneyInv
<1>. QED
  BY <1>1, <1>2 DEF MoneyInv

LEMMA TransferINFTMoney ==
    ASSUME MoneyInv, NEW to \in Accounts, TransferINFT(to) PROVE MoneyInv'
<1>1. TypeOK'
  BY DEF TransferINFT, MoneyInv, TypeOK, treasuryVars, poolVars
<1>2. Backing'
  BY BackingKept DEF TransferINFT, MoneyInv
<1>. QED
  BY <1>1, <1>2 DEF MoneyInv

LEMMA PayForAuditMoney ==
    ASSUME MoneyInv, NEW v \in Payments, PayForAudit(v) PROVE MoneyInv'
<1>1. v \in Nat /\ Split(v) /\ TypeOK
  BY TreasuryAssumption DEF PayForAudit, MoneyInv
<1>2. treasury' \in Nat /\ money' \in Money /\ money'.retained = money.retained
  BY <1>1, SplitEffect
<1>3. TypeOK'
  BY <1>1, <1>2 DEF PayForAudit, TypeOK, licenseVars, treasuryVars, poolVars
<1>4. Backing'
  BY <1>2, BackingKept DEF PayForAudit, MoneyInv
<1>. QED
  BY <1>3, <1>4 DEF MoneyInv

LEMMA SubscribeMoney ==
    ASSUME MoneyInv, NEW who \in Accounts, NEW v \in Payments, Subscribe(who, v)
    PROVE  MoneyInv'
<1>1. v \in Nat /\ Split(v) /\ TypeOK
  BY TreasuryAssumption DEF Subscribe, MoneyInv
<1>2. treasury' \in Nat /\ money' \in Money /\ money'.retained = money.retained
  BY <1>1, SplitEffect
<1>. DEFINE end == Base(who) + Period
<1>3. now \in Nat /\ Period \in Nat /\ MaxTime \in Nat
  BY <1>1, TreasuryAssumption DEF TypeOK
<1>4. licenseExpiry[who] \in Nat
  BY <1>1, <1>3 DEF TypeOK
<1>5. Base(who) \in Nat
  BY <1>3, <1>4 DEF Base
<1>6. end <= MaxTime /\ licenseExpiry' = [licenseExpiry EXCEPT ![who] = end]
  BY DEF Subscribe, Fits
<1>7. end \in 0 .. MaxTime
  BY <1>3, <1>5, <1>6
<1>. HIDE DEF end
<1>8. credit' = [credit EXCEPT ![who] = @ + Period]
  BY DEF Subscribe
<1>9. licenseExpiry' \in [Accounts -> 0 .. MaxTime] /\ credit' \in [Accounts -> Nat]
  BY <1>1, <1>7, <1>3, <1>6, <1>8 DEF TypeOK
<1>10. TypeOK'
  BY <1>1, <1>2, <1>9 DEF Subscribe, TypeOK, treasuryVars, poolVars
<1>11. Backing'
  BY <1>2, BackingKept DEF Subscribe, MoneyInv
<1>. QED
  BY <1>10, <1>11 DEF MoneyInv

LEMMA MintLicenseMoney ==
    ASSUME MoneyInv, NEW who \in Accounts, NEW licensee \in Accounts,
           NEW e \in Expiries, MintLicense(who, licensee, e)
    PROVE  MoneyInv'
<1>1. e \in 0 .. MaxTime /\ now \in Nat
  BY TreasuryAssumption DEF MoneyInv, TypeOK
<1>2. (IF e > now THEN e - now ELSE 0) \in Nat
  BY <1>1
<1>3. licenseExpiry' \in [Accounts -> 0 .. MaxTime] /\ credit' \in [Accounts -> Nat]
  BY <1>1, <1>2 DEF MintLicense, MoneyInv, TypeOK
<1>4. TypeOK'
  BY <1>3 DEF MintLicense, MoneyInv, TypeOK, treasuryVars, poolVars
<1>5. Backing'
  BY BackingKept DEF MintLicense, MoneyInv
<1>. QED
  BY <1>4, <1>5 DEF MoneyInv

(* What a donation does to the balances. *)
LEMMA DonateEffect ==
    ASSUME TypeOK, NEW v \in Payments, Donate(v)
    PROVE  /\ v \in Nat
           /\ treasury' \in Nat
           /\ treasury' = treasury + v
           /\ money' \in Money
           /\ money'.donated = money.donated + v
           /\ money'.paid = money.paid
           /\ money'.staked = money.staked
           /\ money'.owners = money.owners
           /\ money'.withdrawn = money.withdrawn
           /\ money'.slashed = money.slashed
           /\ money'.retained = money.retained
<1>1. v \in Nat /\ treasury \in Nat /\ money \in Money
  BY TreasuryAssumption DEF TypeOK
<1>2. treasury' = treasury + v /\ money' = [money EXCEPT !.donated = money.donated + v]
  BY DEF Donate
<1>3. money.donated + v \in Nat
  BY <1>1 DEF Money
<1>. QED
  BY <1>1, <1>2, <1>3 DEF Money

LEMMA DonateMoney ==
    ASSUME MoneyInv, NEW v \in Payments, Donate(v) PROVE MoneyInv'
<1>1. TypeOK
  BY DEF MoneyInv
<1>2. treasury' \in Nat /\ money' \in Money /\ money'.retained = money.retained
  BY <1>1, DonateEffect
<1>3. TypeOK'
  BY <1>1, <1>2 DEF Donate, TypeOK, licenseVars, treasuryVars, poolVars
<1>4. Backing'
  BY <1>2, BackingKept DEF Donate, MoneyInv
<1>. QED
  BY <1>3, <1>4 DEF MoneyInv

LEMMA ProposeMoney ==
    ASSUME MoneyInv, NEW who \in Accounts, NEW to \in Accounts,
           NEW amount \in Payments, ProposeWithdrawal(who, to, amount)
    PROVE  MoneyInv'
<1>1. amount \in Nat /\ TypeOK
  BY TreasuryAssumption DEF MoneyInv
<1>2. notices' \in Seq(Notice)
  BY <1>1, AnnounceEffect DEF ProposeWithdrawal
<1>3. now + TIMELOCK \in Nat
  BY <1>1, TreasuryAssumption DEF TypeOK
<1>4. pending' = [exists |-> TRUE, to |-> to, amount |-> amount, eta |-> now + TIMELOCK]
  BY DEF ProposeWithdrawal
<1>5. pending' \in Pending
  BY <1>1, <1>3, <1>4 DEF Pending
<1>6. TypeOK'
  BY <1>1, <1>2, <1>5 DEF ProposeWithdrawal, TypeOK, licenseVars, poolVars
<1>7. Backing'
  BY BackingKept DEF ProposeWithdrawal, MoneyInv
<1>. QED
  BY <1>6, <1>7 DEF MoneyInv

LEMMA CancelMoney ==
    ASSUME MoneyInv, NEW who \in Accounts, CancelWithdrawal(who) PROVE MoneyInv'
<1>1. TypeOK
  BY DEF MoneyInv
<1>2. notices' \in Seq(Notice)
  BY <1>1, AnnounceEffect DEF CancelWithdrawal
<1>3. pending' \in Pending
  BY DEF CancelWithdrawal, NoPending, Pending
<1>4. TypeOK'
  BY <1>1, <1>2, <1>3 DEF CancelWithdrawal, TypeOK, licenseVars, poolVars
<1>5. Backing'
  BY BackingKept DEF CancelWithdrawal, MoneyInv
<1>. QED
  BY <1>4, <1>5 DEF MoneyInv

(* What the execution of a withdrawal does to the balances. *)
LEMMA ExecuteEffect ==
    ASSUME TypeOK, NEW who \in Accounts, ExecuteWithdrawal(who)
    PROVE  /\ treasury' \in Nat
           /\ treasury' = treasury - pending.amount
           /\ pending.amount \in Nat
           /\ money' \in Money
           /\ money'.withdrawn = money.withdrawn + pending.amount
           /\ money'.paid = money.paid
           /\ money'.owners = money.owners
           /\ money'.staked = money.staked
           /\ money'.donated = money.donated
           /\ money'.slashed = money.slashed
           /\ money'.retained = money.retained
<1>1. treasury \in Nat /\ money \in Money /\ pending.amount \in Nat
  BY DEF TypeOK, Pending
<1>2. /\ pending.amount <= treasury
      /\ treasury' = treasury - pending.amount
      /\ money' = [money EXCEPT !.withdrawn = @ + pending.amount]
  BY DEF ExecuteWithdrawal
<1>3. treasury' \in Nat
  BY <1>1, <1>2
<1>4. /\ money' = [money EXCEPT !.withdrawn = money.withdrawn + pending.amount]
      /\ money.withdrawn + pending.amount \in Nat
  BY <1>1, <1>2 DEF Money
<1>. QED
  BY <1>1, <1>2, <1>3, <1>4 DEF Money

LEMMA ExecuteMoney ==
    ASSUME MoneyInv, NEW who \in Accounts, ExecuteWithdrawal(who) PROVE MoneyInv'
<1>1. TypeOK
  BY DEF MoneyInv
<1>2. treasury' \in Nat /\ money' \in Money /\ money'.retained = money.retained
  BY <1>1, ExecuteEffect
<1>3. pending.to \in Accounts \cup {None} /\ pending.amount \in Nat
  BY <1>1 DEF TypeOK, Pending
<1>4. notices' \in Seq(Notice)
  BY <1>1, <1>3, AnnounceEffect DEF ExecuteWithdrawal
<1>5. pending' \in Pending
  BY DEF ExecuteWithdrawal, NoPending, Pending
<1>6. TypeOK'
  BY <1>1, <1>2, <1>4, <1>5 DEF ExecuteWithdrawal, TypeOK, licenseVars, poolVars
<1>7. Backing'
  BY <1>2, BackingKept DEF ExecuteWithdrawal, MoneyInv
<1>. QED
  BY <1>6, <1>7 DEF MoneyInv

LEMMA LockStakeMoney ==
    ASSUME MoneyInv, NEW r \in Roots, NEW who \in Accounts, NEW v \in Payments,
           LockStake(who, r, v)
    PROVE  MoneyInv'
<1>. DEFINE s == [status |-> "LOCKED", amount |-> v, unlocksAt |-> now + UNLOCK_WINDOW]
<1>1. TypeOK /\ v \in Nat /\ now + UNLOCK_WINDOW \in Nat
  BY TreasuryAssumption DEF MoneyInv, TypeOK
<1>2. s \in Stake /\ s.amount = v /\ s.status = "LOCKED"
  BY <1>1 DEF Stake, Statuses
<1>3. stakes' = [stakes EXCEPT ![r] = s] /\ stakes[r].amount = 0
  BY DEF LockStake, MoneyInv, Backing
<1>. HIDE DEF s
<1>4. /\ stakes' \in [Roots -> Stake]
      /\ \A x \in Roots : stakes'[x].status # "LOCKED" => stakes'[x].amount = 0
      /\ IsFiniteSet(UnitsOf(Staked, Roots))'
      /\ TotalOf(Staked, Roots)' = ((pool - money.retained) - stakes[r].amount) + v
  BY <1>2, <1>3, StakeChange
<1>5. pool \in Nat /\ money \in Money
  BY <1>1 DEF TypeOK
<1>6. /\ pool' = pool + v
      /\ money' = [money EXCEPT !.staked = @ + v]
  BY DEF LockStake
<1>7. money' \in Money /\ money'.retained = money.retained /\ money.retained \in Nat
  BY <1>1, <1>5, <1>6 DEF Money
<1>8. pool' \in Nat /\ StakesBacked'
  BY <1>1, <1>3, <1>4, <1>5, <1>6, <1>7 DEF StakesBacked
<1>9. TypeOK'
  BY <1>1, <1>4, <1>7, <1>8 DEF LockStake, TypeOK, licenseVars, treasuryVars
<1>. QED
  BY <1>4, <1>8, <1>9 DEF MoneyInv, Backing

(* What settling a stake does to the stakes and their total. *)
LEMMA SettledEffect ==
    ASSUME MoneyInv, NEW r \in Roots, NEW status \in {"RELEASED", "SLASHED_DISPUTE"},
           Settled(r, status)
    PROVE  /\ stakes' \in [Roots -> Stake]
           /\ \A x \in Roots : stakes'[x].status # "LOCKED" => stakes'[x].amount = 0
           /\ IsFiniteSet(UnitsOf(Staked, Roots))'
           /\ stakes[r].amount \in Nat
           /\ stakes[r].amount <= pool - money.retained
           /\ TotalOf(Staked, Roots)' = (pool - money.retained) - stakes[r].amount
<1>. DEFINE s == [stakes[r] EXCEPT !.status = status, !.amount = 0]
<1>1. stakes[r] \in Stake /\ pool \in Nat /\ money.retained \in Nat
  BY DEF MoneyInv, TypeOK, Money
<1>2. s \in Stake /\ s.amount = 0 /\ s.status # "LOCKED"
  BY <1>1 DEF Stake, Statuses
<1>3. stakes' = [stakes EXCEPT ![r] = s]
  BY DEF Settled, MoneyInv, TypeOK
<1>. HIDE DEF s
<1>4. /\ stakes' \in [Roots -> Stake]
      /\ \A x \in Roots : stakes'[x].status # "LOCKED" => stakes'[x].amount = 0
      /\ IsFiniteSet(UnitsOf(Staked, Roots))'
      /\ stakes[r].amount \in Nat
      /\ stakes[r].amount <= pool - money.retained
      /\ TotalOf(Staked, Roots)' = ((pool - money.retained) - stakes[r].amount) + 0
  BY <1>2, <1>3, StakeChange
<1>. QED
  BY <1>1, <1>4

LEMMA SlashMoney ==
    ASSUME MoneyInv, NEW r \in Roots, NEW who \in Accounts, NEW to \in Accounts,
           NEW v \in Payments, SlashByDispute(who, r, to, v)
    PROVE  MoneyInv'
<1>. DEFINE amount == stakes[r].amount
<1>1. TypeOK /\ v \in Nat /\ pool \in Nat /\ treasury \in Nat /\ money \in Money
  BY TreasuryAssumption DEF MoneyInv, TypeOK
<1>2. Settled(r, "SLASHED_DISPUTE")
  BY DEF SlashByDispute
<1>3. /\ stakes' \in [Roots -> Stake]
      /\ \A x \in Roots : stakes'[x].status # "LOCKED" => stakes'[x].amount = 0
      /\ IsFiniteSet(UnitsOf(Staked, Roots))'
      /\ amount \in Nat
      /\ amount <= pool - money.retained
      /\ TotalOf(Staked, Roots)' = (pool - money.retained) - amount
  BY <1>2, SettledEffect
<1>4. /\ v <= amount
      /\ pool' = pool - amount
      /\ treasury' = treasury + (amount - v)
      /\ money' = [money EXCEPT !.slashed = @ + v]
  BY <1>1, <1>3 DEF SlashByDispute
<1>. HIDE DEF amount
<1>5. money' \in Money /\ money'.retained = money.retained /\ money.retained \in Nat
  BY <1>1, <1>4 DEF Money
<1>6. treasury' \in Nat
  BY <1>1, <1>3, <1>4
<1>7. pool' \in Nat /\ StakesBacked'
  BY <1>1, <1>3, <1>4, <1>5 DEF StakesBacked
<1>8. TypeOK'
  BY <1>1, <1>3, <1>5, <1>6, <1>7 DEF SlashByDispute, TypeOK, licenseVars, treasuryVars
<1>. QED
  BY <1>3, <1>7, <1>8 DEF MoneyInv, Backing

(* What releasing a stake does to the balances. *)
LEMMA UnlockEffect ==
    ASSUME MoneyInv, NEW r \in Roots, Unlock(r)
    PROVE  LET amount == stakes[r].amount
               cut == UnlockedCut(amount)
           IN /\ amount \in Nat /\ cut \in Nat /\ cut <= amount
              /\ pool' = pool - cut
              /\ treasury' = treasury + cut
              /\ money' = [money EXCEPT !.retained = money.retained + (amount - cut)]
<1>1. stakes[r].amount \in Nat
  BY DEF MoneyInv, TypeOK, Stake
<1>. QED
  BY <1>1, UnlockedCutBound DEF Unlock, MoneyInv, TypeOK, Money

LEMMA UnlockMoney ==
    ASSUME MoneyInv, NEW r \in Roots, Unlock(r) PROVE MoneyInv'
<1>. DEFINE amount == stakes[r].amount
            cut == UnlockedCut(amount)
<1>1. TypeOK /\ pool \in Nat /\ treasury \in Nat /\ money \in Money
  BY DEF MoneyInv, TypeOK
<1>2. Settled(r, "RELEASED")
  BY DEF Unlock
<1>3. /\ stakes' \in [Roots -> Stake]
      /\ \A x \in Roots : stakes'[x].status # "LOCKED" => stakes'[x].amount = 0
      /\ IsFiniteSet(UnitsOf(Staked, Roots))'
      /\ amount <= pool - money.retained
      /\ TotalOf(Staked, Roots)' = (pool - money.retained) - amount
  BY <1>2, SettledEffect
<1>4. /\ amount \in Nat /\ cut \in Nat /\ cut <= amount
      /\ pool' = pool - cut
      /\ treasury' = treasury + cut
      /\ money' = [money EXCEPT !.retained = money.retained + (amount - cut)]
  BY UnlockEffect
<1>. HIDE DEF amount, cut
<1>5. /\ money.retained \in Nat
      /\ money' \in Money
      /\ money'.retained = money.retained + (amount - cut)
  BY <1>1, <1>4 DEF Money
<1>6. treasury' \in Nat
  BY <1>1, <1>4
<1>7. pool' \in Nat /\ StakesBacked'
  BY <1>1, <1>3, <1>4, <1>5 DEF StakesBacked
<1>8. TypeOK'
  BY <1>1, <1>3, <1>5, <1>6, <1>7 DEF Unlock, TypeOK, licenseVars, treasuryVars
<1>. QED
  BY <1>3, <1>7, <1>8 DEF MoneyInv, Backing

LEMMA MoneyStep == MoneyInv /\ [Next]_vars => MoneyInv'
<1>. SUFFICES ASSUME MoneyInv, [Next]_vars PROVE MoneyInv'
  OBVIOUS
<1>1. CASE Tick
  BY <1>1, TickMoney
<1>2. CASE LicenseStep
  BY <1>2, SetPricesMoney, TransferINFTMoney, PayForAuditMoney, SubscribeMoney,
     MintLicenseMoney DEF LicenseStep
<1>3. CASE WithdrawalStep
  BY <1>3, ProposeMoney, CancelMoney, ExecuteMoney DEF WithdrawalStep
<1>4. CASE StakeStep
  BY <1>4, LockStakeMoney, SlashMoney, UnlockMoney DEF StakeStep
<1>5. CASE UNCHANGED vars
  <2>1. TypeOK'
    BY <1>5 DEF MoneyInv, TypeOK, vars, licenseVars, treasuryVars, poolVars
  <2>2. Backing'
    BY <1>5, BackingKept DEF MoneyInv, vars
  <2>. QED
    BY <2>1, <2>2 DEF MoneyInv
<1>6. CASE OwnershipStep
  BY <1>6, TransferOwnershipMoney, TreasuryAssumption DEF OwnershipStep
<1>7. CASE \E v \in Payments : Donate(v)
  BY <1>7, DonateMoney
<1>. QED
  BY <1>1, <1>2, <1>3, <1>4, <1>5, <1>6, <1>7 DEF Next

LEMMA MoneyInductive == Spec => []MoneyInv
  BY MoneyInit, MoneyStep, PTL DEF Spec

(* Every variable keeps its type: in particular no balance underflows. *)
THEOREM TypeCorrect == Spec => []TypeOK
<1>1. MoneyInv => TypeOK
  BY DEF MoneyInv
<1>. QED
  BY <1>1, MoneyInductive, PTL

(* The pool holds every locked stake, next to what it retained. *)
THEOREM PoolSolvent == Spec => []StakesBacked
<1>1. MoneyInv => StakesBacked
  BY DEF MoneyInv, Backing
<1>. QED
  BY <1>1, MoneyInductive, PTL

-------------------------------------------------------------------------------
(* Conservation. *)

LEMMA NothingLostStep == MoneyInv /\ NothingLost /\ [Next]_vars => NothingLost'
<1>. SUFFICES ASSUME MoneyInv, NothingLost, [Next]_vars PROVE NothingLost'
  OBVIOUS
<1>1. TypeOK /\ treasury \in Nat /\ pool \in Nat /\ money \in Money
  BY DEF MoneyInv, TypeOK
<1>2. /\ money.paid \in Nat /\ money.staked \in Nat /\ money.owners \in Nat
      /\ money.donated \in Nat
      /\ money.withdrawn \in Nat /\ money.slashed \in Nat /\ money.retained \in Nat
  BY <1>1 DEF Money
<1>3. CASE UNCHANGED <<treasury, pool, money>>
  BY <1>3 DEF NothingLost, Received
<1>4. ASSUME NEW v \in Payments, Split(v), UNCHANGED pool PROVE NothingLost'
  <2>1. v \in Nat
    BY TreasuryAssumption
  <2>2. OwnerCut(v) \in Nat /\ OwnerCut(v) <= v
    BY <2>1, OwnerCutBound
  <2>3. /\ treasury' = treasury + (v - OwnerCut(v))
        /\ money'.paid = money.paid + v
        /\ money'.owners = money.owners + OwnerCut(v)
        /\ money'.staked = money.staked
        /\ money'.donated = money.donated
        /\ money'.withdrawn = money.withdrawn
        /\ money'.slashed = money.slashed
    BY <1>1, <1>4, <2>1, SplitEffect
  <2>. QED
    BY <1>1, <1>2, <1>4, <2>1, <2>2, <2>3 DEF NothingLost, Received
<1>5. ASSUME NEW who \in Accounts, ExecuteWithdrawal(who) PROVE NothingLost'
  <2>1. pool' = pool
    BY <1>5 DEF ExecuteWithdrawal, poolVars
  <2>. QED
    BY <1>1, <1>2, <1>5, <2>1, ExecuteEffect DEF NothingLost, Received
<1>6. ASSUME NEW who \in Accounts, NEW r \in Roots, NEW v \in Payments,
             LockStake(who, r, v)
      PROVE  NothingLost'
  <2>1. v \in Nat
    BY TreasuryAssumption
  <2>2. /\ pool' = pool + v
        /\ treasury' = treasury
        /\ money' = [money EXCEPT !.staked = @ + v]
    BY <1>6 DEF LockStake
  <2>3. /\ money'.staked = money.staked + v
        /\ money'.donated = money.donated
        /\ money'.paid = money.paid
        /\ money'.owners = money.owners
        /\ money'.withdrawn = money.withdrawn
        /\ money'.slashed = money.slashed
    BY <1>1, <2>2 DEF Money
  <2>4. Received' = Received + v
    BY <1>2, <2>1, <2>3 DEF Received
  <2>5. Received = money.owners + treasury + pool + money.withdrawn + money.slashed
    BY DEF NothingLost
  <2>6. Received + v =
            money.owners + treasury + (pool + v) + money.withdrawn + money.slashed
    BY <1>1, <1>2, <2>1, <2>5
  <2>. QED
    BY <2>2, <2>3, <2>4, <2>6 DEF NothingLost
<1>7. ASSUME NEW who \in Accounts, NEW to \in Accounts, NEW r \in Roots,
             NEW v \in Payments, SlashByDispute(who, r, to, v)
      PROVE  NothingLost'
  <2>1. v \in Nat /\ stakes[r].amount \in Nat
    BY <1>1, TreasuryAssumption DEF TypeOK, Stake
  <2>2. /\ pool' = pool - stakes[r].amount
        /\ treasury' = treasury + (stakes[r].amount - v)
        /\ money' = [money EXCEPT !.slashed = @ + v]
    BY <1>7 DEF SlashByDispute
  <2>3. /\ money'.slashed = money.slashed + v
        /\ money'.staked = money.staked
        /\ money'.donated = money.donated
        /\ money'.paid = money.paid
        /\ money'.owners = money.owners
        /\ money'.withdrawn = money.withdrawn
    BY <1>1, <2>2 DEF Money
  <2>. QED
    BY <1>1, <1>2, <2>1, <2>2, <2>3 DEF NothingLost, Received
<1>8. ASSUME NEW r \in Roots, Unlock(r) PROVE NothingLost'
  <2>. DEFINE cut == UnlockedCut(stakes[r].amount)
              kept == money.retained + (stakes[r].amount - cut)
  <2>1. /\ cut \in Nat
        /\ pool' = pool - cut
        /\ treasury' = treasury + cut
        /\ money' = [money EXCEPT !.retained = kept]
    BY <1>8, UnlockEffect
  <2>. HIDE DEF cut, kept
  <2>2. /\ money'.staked = money.staked
        /\ money'.paid = money.paid
        /\ money'.owners = money.owners
        /\ money'.withdrawn = money.withdrawn
        /\ money'.slashed = money.slashed
    BY <1>1, <2>1 DEF Money
  <2>. QED
    BY <1>1, <1>2, <2>1, <2>2 DEF NothingLost, Received
<1>9. CASE Tick
  BY <1>3, <1>9 DEF Tick, poolVars
<1>10. CASE LicenseStep
  <2>1. CASE \E who \in Accounts, p, q \in Prices : SetPrices(who, p, q)
    BY <1>3, <2>1 DEF SetPrices, poolVars
  <2>2. CASE \E to \in Accounts : TransferINFT(to)
    BY <1>3, <2>2 DEF TransferINFT, poolVars
  <2>3. CASE \E v \in Payments : PayForAudit(v)
    BY <1>4, <2>3 DEF PayForAudit, poolVars
  <2>4. CASE \E who \in Accounts, v \in Payments : Subscribe(who, v)
    BY <1>4, <2>4 DEF Subscribe, poolVars
  <2>5. CASE \E who, licensee \in Accounts, e \in Expiries : MintLicense(who, licensee, e)
    BY <1>3, <2>5 DEF MintLicense, poolVars
  <2>. QED
    BY <1>10, <2>1, <2>2, <2>3, <2>4, <2>5 DEF LicenseStep
<1>11. CASE WithdrawalStep
  <2>1. ASSUME NEW who \in Accounts, NEW to \in Accounts, NEW amount \in Payments,
               ProposeWithdrawal(who, to, amount)
        PROVE  NothingLost'
    BY <1>3, <2>1 DEF ProposeWithdrawal, poolVars
  <2>2. ASSUME NEW who \in Accounts, CancelWithdrawal(who) PROVE NothingLost'
    BY <1>3, <2>2 DEF CancelWithdrawal, poolVars
  <2>. QED
    BY <1>5, <1>11, <2>1, <2>2 DEF WithdrawalStep
<1>12. CASE StakeStep
  BY <1>6, <1>7, <1>8, <1>12 DEF StakeStep
<1>13. CASE UNCHANGED vars
  BY <1>3, <1>13 DEF vars, poolVars
<1>14. CASE OwnershipStep
  BY <1>3, <1>14 DEF OwnershipStep, TransferOwnership, poolVars
<1>15. ASSUME NEW v \in Payments, Donate(v) PROVE NothingLost'
  <2>1. pool' = pool
    BY <1>15 DEF Donate, poolVars
  <2>2. /\ v \in Nat
        /\ treasury' = treasury + v
        /\ money'.donated = money.donated + v
        /\ money'.paid = money.paid
        /\ money'.staked = money.staked
        /\ money'.owners = money.owners
        /\ money'.withdrawn = money.withdrawn
        /\ money'.slashed = money.slashed
    BY <1>1, <1>15, DonateEffect
  <2>3. Received' = Received + v
    BY <1>2, <2>2 DEF Received
  <2>. QED
    BY <1>1, <1>2, <2>1, <2>2, <2>3 DEF NothingLost, Received
<1>. QED
  BY <1>9, <1>10, <1>11, <1>12, <1>13, <1>14, <1>15 DEF Next

(* All MNT that was ever paid in is accounted for, to the last unit. *)
THEOREM MoneyConserved == Spec => []NothingLost
<1>1. Init => NothingLost
  BY DEF Init, NothingLost, Received
<1>. QED
  BY <1>1, NothingLostStep, MoneyInductive, PTL DEF Spec

(* Both at once: all MNT is somewhere, and locked stakes are covered.      *)
THEOREM MoneyCovered == Spec => []MoneyAccounted
<1>1. NothingLost /\ StakesBacked => MoneyAccounted
  BY DEF MoneyAccounted
<1>. QED
  BY <1>1, MoneyConserved, PoolSolvent, PTL

(* Payments of many sizes do not add up to more than the owners' share. *)
THEOREM OwnersShareBounded == Spec => []OwnersGetAtMostTheirShare
<1>. DEFINE Inv == OwnersGetAtMostTheirShare
<1>1. Init => Inv
  BY DEF Init, OwnersGetAtMostTheirShare, BPS, OWNER_BPS
<1>2. TypeOK /\ Inv /\ [Next]_vars => Inv'
  <2>. SUFFICES ASSUME TypeOK, Inv, [Next]_vars PROVE Inv'
    OBVIOUS
  <2>1. money \in Money /\ money.paid \in Nat /\ money.owners \in Nat
    BY DEF TypeOK, Money
  <2>2. CASE money'.paid = money.paid /\ money'.owners = money.owners
    BY <2>2 DEF OwnersGetAtMostTheirShare
  <2>3. ASSUME NEW v \in Payments, Split(v) PROVE Inv'
    <3>1. v \in Nat
      BY TreasuryAssumption
    <3>2. OwnerCut(v) \in Nat /\ BPS * OwnerCut(v) <= OWNER_BPS * v
      BY <3>1, OwnerCutBound
    <3>3. money'.paid = money.paid + v /\ money'.owners = money.owners + OwnerCut(v)
      BY <2>3, <3>1, SplitEffect
    <3>. QED
      BY <2>1, <3>1, <3>2, <3>3 DEF OwnersGetAtMostTheirShare, BPS, OWNER_BPS
  <2>4. CASE Tick
    BY <2>2, <2>4 DEF Tick
  <2>5. CASE LicenseStep
    BY <2>2, <2>3, <2>5
       DEF LicenseStep, SetPrices, TransferINFT, PayForAudit, Subscribe, MintLicense
  <2>6. CASE WithdrawalStep
    BY <2>1, <2>2, <2>6
       DEF WithdrawalStep, ProposeWithdrawal, CancelWithdrawal, ExecuteWithdrawal, Money
  <2>7. CASE StakeStep
    <3>1. ASSUME NEW r \in Roots, NEW who \in Accounts, NEW v \in Payments,
                 LockStake(who, r, v)
          PROVE  Inv'
      BY <2>1, <2>2, <3>1 DEF LockStake, Money
    <3>2. ASSUME NEW r \in Roots, NEW who \in Accounts, NEW to \in Accounts,
                 NEW v \in Payments, SlashByDispute(who, r, to, v)
          PROVE  Inv'
      BY <2>1, <2>2, <3>2 DEF SlashByDispute, Money
    <3>3. ASSUME NEW r \in Roots, Unlock(r) PROVE Inv'
      BY <2>1, <2>2, <3>3 DEF Unlock, Money
    <3>. QED
      BY <2>7, <3>1, <3>2, <3>3 DEF StakeStep
  <2>8. CASE UNCHANGED vars
    BY <2>2, <2>8 DEF vars
  <2>9. CASE OwnershipStep
    BY <2>2, <2>9 DEF OwnershipStep, TransferOwnership
  <2>10. CASE \E v \in Payments : Donate(v)
    BY <2>2, <2>10, DonateEffect
  <2>. QED
    BY <2>4, <2>5, <2>6, <2>7, <2>8, <2>9, <2>10 DEF Next
<1>. QED
  BY <1>1, <1>2, TypeCorrect, PTL DEF Spec

-------------------------------------------------------------------------------
(* Withdrawals. *)

(* A pending withdrawal stays covered: payments and stakes only add to the *)
(* treasury, and the one withdrawal that takes from it is no longer        *)
(* pending.                                                                *)
THEOREM WithdrawalCovered == Spec => []PendingCovered
<1>1. Init => PendingCovered
  BY DEF Init, PendingCovered, NoPending
<1>2. MoneyInv /\ PendingCovered /\ [Next]_vars => PendingCovered'
  <2>. SUFFICES ASSUME MoneyInv, PendingCovered, [Next]_vars PROVE PendingCovered'
    OBVIOUS
  <2>1. TypeOK /\ treasury \in Nat /\ pending \in Pending /\ pending.amount \in Nat
    BY DEF MoneyInv, TypeOK, Pending
  <2>2. CASE pending' = pending /\ treasury' \in Nat /\ treasury' >= treasury
    BY <2>1, <2>2 DEF PendingCovered
  <2>3. CASE pending' = pending /\ treasury' = treasury
    BY <2>3 DEF PendingCovered
  <2>4. ASSUME NEW v \in Payments, Split(v), UNCHANGED treasuryVars
        PROVE  PendingCovered'
    <3>1. v \in Nat
      BY TreasuryAssumption
    <3>2. OwnerCut(v) \in Nat /\ OwnerCut(v) <= v
      BY <3>1, OwnerCutBound
    <3>3. treasury' = treasury + (v - OwnerCut(v)) /\ treasury' \in Nat
      BY <2>1, <2>4, <3>1, SplitEffect
    <3>4. treasury' >= treasury
      BY <2>1, <3>1, <3>2, <3>3
    <3>. QED
      BY <2>2, <2>4, <3>3, <3>4 DEF treasuryVars
  <2>5. CASE Tick
    BY <2>3, <2>5 DEF Tick, treasuryVars
  <2>6. CASE LicenseStep
    <3>1. CASE \E who \in Accounts, p, q \in Prices : SetPrices(who, p, q)
      BY <2>3, <3>1 DEF SetPrices, treasuryVars
    <3>2. CASE \E to \in Accounts : TransferINFT(to)
      BY <2>3, <3>2 DEF TransferINFT, treasuryVars
    <3>3. CASE \E v \in Payments : PayForAudit(v)
      BY <2>4, <3>3 DEF PayForAudit
    <3>4. CASE \E who \in Accounts, v \in Payments : Subscribe(who, v)
      BY <2>4, <3>4 DEF Subscribe
    <3>5. CASE \E who, licensee \in Accounts, e \in Expiries : MintLicense(who, licensee, e)
      BY <2>3, <3>5 DEF MintLicense, treasuryVars
    <3>. QED
      BY <2>6, <3>1, <3>2, <3>3, <3>4, <3>5 DEF LicenseStep
  <2>7. CASE WithdrawalStep
    <3>1. ASSUME NEW who \in Accounts, NEW to \in Accounts, NEW amount \in Payments,
                 ProposeWithdrawal(who, to, amount)
          PROVE  PendingCovered'
      <4>1. /\ pending'.amount = amount
            /\ amount <= treasury
            /\ treasury' = treasury
        BY <2>1, <3>1 DEF ProposeWithdrawal
      <4>. QED
        BY <4>1 DEF PendingCovered
    <3>2. ASSUME NEW who \in Accounts, CancelWithdrawal(who) \/ ExecuteWithdrawal(who)
          PROVE  PendingCovered'
      <4>1. pending' = NoPending
        BY <3>2 DEF CancelWithdrawal, ExecuteWithdrawal
      <4>. QED
        BY <4>1 DEF PendingCovered, NoPending
    <3>. QED
      BY <2>7, <3>1, <3>2 DEF WithdrawalStep
  <2>8. CASE StakeStep
    <3>1. ASSUME NEW r \in Roots, NEW who \in Accounts, NEW v \in Payments,
                 LockStake(who, r, v)
          PROVE  PendingCovered'
      BY <2>3, <3>1 DEF LockStake, treasuryVars
    <3>2. ASSUME NEW r \in Roots, NEW who \in Accounts, NEW to \in Accounts,
                 NEW v \in Payments, SlashByDispute(who, r, to, v)
          PROVE  PendingCovered'
      <4>1. stakes[r].amount \in Nat
        BY <2>1 DEF TypeOK, Stake
      <4>2. /\ v \in 1 .. stakes[r].amount
            /\ treasury' = treasury + (stakes[r].amount - v)
            /\ pending' = pending
        BY <3>2 DEF SlashByDispute, treasuryVars
      <4>3. treasury' \in Nat /\ treasury' >= treasury
        BY <2>1, <4>1, <4>2
      <4>. QED
        BY <2>2, <4>2, <4>3
    <3>3. ASSUME NEW r \in Roots, Unlock(r) PROVE PendingCovered'
      <4>. DEFINE cut == UnlockedCut(stakes[r].amount)
      <4>1. cut \in Nat /\ treasury' = treasury + cut
        BY <3>3, UnlockEffect
      <4>2. pending' = pending
        BY <3>3 DEF Unlock, treasuryVars
      <4>. HIDE DEF cut
      <4>3. treasury' \in Nat /\ treasury' >= treasury
        BY <2>1, <4>1
      <4>. QED
        BY <2>2, <4>2, <4>3
    <3>. QED
      BY <2>8, <3>1, <3>2, <3>3 DEF StakeStep
  <2>9. CASE UNCHANGED vars
    BY <2>3, <2>9 DEF vars, treasuryVars
  <2>10. CASE OwnershipStep
    BY <2>3, <2>10 DEF OwnershipStep, TransferOwnership, treasuryVars
  <2>11. ASSUME NEW v \in Payments, Donate(v) PROVE PendingCovered'
    <3>1. v \in Nat /\ treasury' \in Nat /\ treasury' = treasury + v
      BY <2>1, <2>11, DonateEffect
    <3>2. treasury' >= treasury
      BY <2>1, <3>1
    <3>. QED
      BY <2>2, <2>11, <3>1, <3>2 DEF Donate, treasuryVars
  <2>. QED
    BY <2>5, <2>6, <2>7, <2>8, <2>9, <2>10, <2>11 DEF Next
<1>. QED
  BY <1>1, <1>2, MoneyInductive, PTL DEF Spec

(* What is pending was announced last, and its eta counts from there. *)
PendingAnnounced ==
    pending.exists =>
        /\ Len(notices) > 0
        /\ notices[Len(notices)].kind = "proposed"
        /\ notices[Len(notices)].to = pending.to
        /\ notices[Len(notices)].amount = pending.amount
        /\ notices[Len(notices)].at + TIMELOCK <= pending.eta

(* No withdrawal surprises: each was announced, as it is, TIMELOCK before. *)
THEOREM WithdrawalsTimelocked == Spec => []WithdrawalsAnnounced
<1>. DEFINE Inv == PendingAnnounced /\ WithdrawalsAnnounced
<1>1. Init => Inv
  BY DEF Init, NoPending, PendingAnnounced, WithdrawalsAnnounced
<1>2. TypeOK /\ Inv /\ [Next]_vars => Inv'
  <2>. SUFFICES ASSUME TypeOK, Inv, [Next]_vars PROVE Inv'
    OBVIOUS
  <2>. DEFINE n == Len(notices)
  <2>1. /\ notices \in Seq(Notice) /\ n \in Nat /\ DOMAIN notices = 1 .. n
        /\ now \in Nat /\ TIMELOCK \in Nat
        /\ pending.amount \in Nat /\ pending.to \in Accounts \cup {None}
    BY TreasuryAssumption DEF TypeOK, Pending
  <2>2. CASE UNCHANGED treasuryVars
    BY <2>2 DEF treasuryVars, PendingAnnounced, WithdrawalsAnnounced
  (* A notice other than an execution. *)
  <2>3. ASSUME NEW kind \in {"proposed", "cancelled"}, NEW to \in Accounts \cup {None},
               NEW amount \in Nat, Announce(kind, to, amount)
        PROVE  WithdrawalsAnnounced'
    <3>1. kind \in {"proposed", "cancelled", "executed"}
      BY <2>3
    <3>2. /\ notices' \in Seq(Notice)
          /\ Len(notices') = n + 1
          /\ notices'[Len(notices')] =
                 [kind |-> kind, to |-> to, amount |-> amount, at |-> now]
          /\ \A i \in 1 .. n : notices'[i] = notices[i]
      BY <2>3, <3>1, AnnounceEffect
    <3>3. /\ notices' \in Seq(Notice)
          /\ Len(notices') = n + 1
          /\ notices'[n + 1].kind = kind
          /\ \A i \in 1 .. n : notices'[i] = notices[i]
      BY <3>2
    <3>4. SUFFICES ASSUME NEW i \in 1 .. n + 1, notices'[i].kind = "executed"
                   PROVE  /\ i > 1
                          /\ notices'[i - 1].kind = "proposed"
                          /\ notices'[i - 1].to = notices'[i].to
                          /\ notices'[i - 1].amount = notices'[i].amount
                          /\ notices'[i - 1].at + TIMELOCK <= notices'[i].at
      BY <2>1, <3>3 DEF WithdrawalsAnnounced
    <3>5. i \in 1 .. n
      BY <2>1, <2>3, <3>3, <3>4
    <3>6. i > 1 /\ i - 1 \in 1 .. n
      BY <2>1, <3>3, <3>4, <3>5 DEF WithdrawalsAnnounced
    <3>. QED
      BY <2>1, <3>3, <3>4, <3>5, <3>6 DEF WithdrawalsAnnounced
  <2>4. ASSUME NEW who \in Accounts, NEW to \in Accounts, NEW amount \in Payments,
               ProposeWithdrawal(who, to, amount)
        PROVE  Inv'
    <3>1. amount \in Nat /\ Announce("proposed", to, amount)
      BY <2>4, TreasuryAssumption DEF ProposeWithdrawal
    <3>2. /\ Len(notices') = n + 1
          /\ notices'[n + 1] =
                 [kind |-> "proposed", to |-> to, amount |-> amount, at |-> now]
      BY <3>1, AnnounceEffect
    <3>3. pending' = [exists |-> TRUE, to |-> to, amount |-> amount, eta |-> now + TIMELOCK]
      BY <2>4 DEF ProposeWithdrawal
    <3>4. PendingAnnounced'
      BY <2>1, <3>2, <3>3 DEF PendingAnnounced
    <3>. QED
      BY <2>3, <3>1, <3>4
  <2>5. ASSUME NEW who \in Accounts, CancelWithdrawal(who) PROVE Inv'
    <3>1. pending' = NoPending /\ Announce("cancelled", None, 0)
      BY <2>5 DEF CancelWithdrawal
    <3>2. PendingAnnounced'
      BY <3>1 DEF PendingAnnounced, NoPending
    <3>. QED
      BY <2>3, <3>1, <3>2
  <2>6. ASSUME NEW who \in Accounts, ExecuteWithdrawal(who) PROVE Inv'
    <3>1. /\ pending' = NoPending
          /\ Announce("executed", pending.to, pending.amount)
          /\ pending.exists /\ now >= pending.eta
      BY <2>6 DEF ExecuteWithdrawal
    <3>2. PendingAnnounced'
      BY <3>1 DEF PendingAnnounced, NoPending
    <3>3. /\ notices' \in Seq(Notice)
          /\ Len(notices') = n + 1
          /\ notices'[n + 1] = [kind |-> "executed", to |-> pending.to,
                                amount |-> pending.amount, at |-> now]
          /\ \A i \in 1 .. n : notices'[i] = notices[i]
      BY <2>1, <3>1, AnnounceEffect
    <3>4. SUFFICES ASSUME NEW i \in 1 .. n + 1, notices'[i].kind = "executed"
                   PROVE  /\ i > 1
                          /\ notices'[i - 1].kind = "proposed"
                          /\ notices'[i - 1].to = notices'[i].to
                          /\ notices'[i - 1].amount = notices'[i].amount
                          /\ notices'[i - 1].at + TIMELOCK <= notices'[i].at
      BY <2>1, <3>2, <3>3 DEF WithdrawalsAnnounced
    <3>5. CASE i \in 1 .. n
      <4>1. i > 1 /\ i - 1 \in 1 .. n
        BY <2>1, <3>3, <3>4, <3>5 DEF WithdrawalsAnnounced
      <4>. QED
        BY <2>1, <3>3, <3>4, <3>5, <4>1 DEF WithdrawalsAnnounced
    <3>6. CASE i = n + 1
      <4>1. /\ n > 0
            /\ notices[n].kind = "proposed"
            /\ notices[n].to = pending.to
            /\ notices[n].amount = pending.amount
            /\ notices[n].at + TIMELOCK <= pending.eta
        BY <3>1 DEF PendingAnnounced
      <4>2. n \in 1 .. n /\ i - 1 = n /\ i > 1
        BY <2>1, <3>6, <4>1
      <4>3. notices[n] \in Notice
        BY <2>1, <4>2, ElementOfSeq
      <4>4. pending \in Pending
        BY DEF TypeOK
      <4>5. notices[n].at \in Nat /\ pending.eta \in Nat
        BY <4>3, <4>4 DEF Notice, Pending
      <4>. QED
        BY <2>1, <3>1, <3>3, <3>6, <4>1, <4>2, <4>5
    <3>. QED
      BY <2>1, <3>5, <3>6
  <2>7. CASE Tick
    BY <2>2, <2>7 DEF Tick
  <2>8. CASE LicenseStep
    BY <2>2, <2>8
       DEF LicenseStep, SetPrices, TransferINFT, PayForAudit, Subscribe, MintLicense
  <2>9. CASE WithdrawalStep
    BY <2>4, <2>5, <2>6, <2>9 DEF WithdrawalStep
  <2>10. CASE StakeStep
    BY <2>2, <2>10 DEF StakeStep, LockStake, SlashByDispute, Unlock
  <2>11. CASE UNCHANGED vars
    BY <2>2, <2>11 DEF vars
  <2>12. CASE OwnershipStep \/ \E v \in Payments : Donate(v)
    BY <2>2, <2>12 DEF OwnershipStep, TransferOwnership, Donate
  <2>. QED
    BY <2>7, <2>8, <2>9, <2>10, <2>11, <2>12 DEF Next
<1>3. Inv => WithdrawalsAnnounced
  OBVIOUS
<1>. QED
  BY <1>1, <1>2, <1>3, TypeCorrect, PTL DEF Spec

-------------------------------------------------------------------------------
(* Subscriptions. *)

(* Time left until e. *)
LEMMA MeterTicks ==
    ASSUME NEW e \in Nat, NEW t \in Nat, NEW c,
           c = IF e > t THEN e - t ELSE 0
    PROVE  (IF c > 0 THEN c - 1 ELSE 0) = IF e > t + 1 THEN e - (t + 1) ELSE 0
OBVIOUS

(* Subscriptions are prepaid meters: no purchase loses or doubles time. *)
THEOREM PaidTime == Spec => []PaidTimeExact
<1>1. Init => PaidTimeExact
  BY DEF Init, PaidTimeExact
<1>2. TypeOK /\ PaidTimeExact /\ [Next]_vars => PaidTimeExact'
  <2>. SUFFICES ASSUME TypeOK, PaidTimeExact, [Next]_vars PROVE PaidTimeExact'
    OBVIOUS
  <2>1. /\ now \in Nat /\ Period \in Nat /\ MaxTime \in Nat
        /\ licenseExpiry \in [Accounts -> 0 .. MaxTime]
        /\ credit \in [Accounts -> Nat]
    BY TreasuryAssumption DEF TypeOK
  <2>2. \A a \in Accounts : licenseExpiry[a] \in Nat
    BY <2>1
  <2>3. CASE UNCHANGED <<now, licenseExpiry, credit>>
    BY <2>3 DEF PaidTimeExact
  <2>4. CASE Tick
    <3>1. SUFFICES ASSUME NEW a \in Accounts
                   PROVE  credit'[a] = IF licenseExpiry'[a] > now'
                                       THEN licenseExpiry'[a] - now' ELSE 0
      BY DEF PaidTimeExact
    <3>2. /\ now' = now + 1
          /\ licenseExpiry' = licenseExpiry
          /\ credit'[a] = IF credit[a] > 0 THEN credit[a] - 1 ELSE 0
      BY <2>4 DEF Tick
    <3>3. credit[a] = IF licenseExpiry[a] > now THEN licenseExpiry[a] - now ELSE 0
      BY DEF PaidTimeExact
    <3>. QED
      BY <2>1, <2>2, <3>2, <3>3, MeterTicks
  <2>5. ASSUME NEW who \in Accounts, NEW v \in Payments, Subscribe(who, v)
        PROVE  PaidTimeExact'
    <3>1. SUFFICES ASSUME NEW a \in Accounts
                   PROVE  credit'[a] = IF licenseExpiry'[a] > now'
                                       THEN licenseExpiry'[a] - now' ELSE 0
      BY DEF PaidTimeExact
    <3>2. /\ now' = now
          /\ licenseExpiry' = [licenseExpiry EXCEPT ![who] = Base(who) + Period]
          /\ credit' = [credit EXCEPT ![who] = @ + Period]
      BY <2>5 DEF Subscribe
    <3>3. credit[a] = IF licenseExpiry[a] > now THEN licenseExpiry[a] - now ELSE 0
      BY DEF PaidTimeExact
    <3>4. CASE a = who
      <4>1. /\ licenseExpiry'[a] = Base(a) + Period
            /\ credit'[a] = credit[a] + Period
        BY <2>1, <3>2, <3>4
      <4>2. Base(a) = IF licenseExpiry[a] > now THEN licenseExpiry[a] ELSE now
        BY DEF Base
      <4>3. licenseExpiry[a] \in Nat
        BY <2>2
      <4>4. credit[a] + Period =
                IF Base(a) + Period > now THEN (Base(a) + Period) - now ELSE 0
        BY <2>1, <3>3, <4>2, <4>3
      <4>. QED
        BY <3>2, <4>1, <4>4
    <3>5. CASE a # who
      BY <2>1, <3>2, <3>3, <3>5
    <3>. QED
      BY <3>4, <3>5
  <2>6. ASSUME NEW who \in Accounts, NEW licensee \in Accounts, NEW e \in Expiries,
               MintLicense(who, licensee, e)
        PROVE  PaidTimeExact'
    BY <2>1, <2>6 DEF MintLicense, PaidTimeExact
  <2>7. CASE LicenseStep
    BY <2>3, <2>5, <2>6, <2>7
       DEF LicenseStep, SetPrices, TransferINFT, PayForAudit, licenseVars
  <2>8. CASE WithdrawalStep
    BY <2>3, <2>8
       DEF WithdrawalStep, ProposeWithdrawal, CancelWithdrawal, ExecuteWithdrawal,
           licenseVars
  <2>9. CASE StakeStep
    BY <2>3, <2>9 DEF StakeStep, LockStake, SlashByDispute, Unlock, licenseVars
  <2>10. CASE UNCHANGED vars
    BY <2>3, <2>10 DEF vars, licenseVars
  <2>11. CASE OwnershipStep \/ \E v \in Payments : Donate(v)
    BY <2>3, <2>11 DEF OwnershipStep, TransferOwnership, Donate, licenseVars
  <2>. QED
    BY <2>4, <2>7, <2>8, <2>9, <2>10, <2>11 DEF Next
<1>. QED
  BY <1>1, <1>2, TypeCorrect, PTL DEF Spec
===============================================================================
