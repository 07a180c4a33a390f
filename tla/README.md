# MantleProof in TLA+

This directory models the parts of MantleProof whose correctness depends on
the order in which things happen: the contracts that record audits and
disputes, the processes that write to them with the oracle key, the endpoint
that sells audits, the agents that buy them, the contracts that take the money,
and the refreshers that rebuild the triage snapshots. TLC
checks the models on small instances; TLAPS proves the most important results
about them for instances of every size.

`PROJECT.json` lists the components, the runs, the source lines each
definition stands for, the known divergences between code and documentation,
the hazards, and the theorems. This file explains them.

## 1. The system

| Component | Source | State | Operations | Talks to |
|---|---|---|---|---|
| Registry | `contracts/contracts/MantleProofRegistry.sol` | head report, tier and target by root, count by target, disputes, disputes by root, linked agent, MNT balance | `setAgent`, `submitAudit`, `submitDispute`, `resolveDispute`, `sweepForfeited` | calls the agent; pays disputers and the owner |
| iNFT agent | `MantleProofAgent.sol` | auditor, memory root | `setAuditor`, `updateMemoryRoot` | called by the registry |
| Oracle-key writers | `persistence/anchor.py`, `dispute/resolver.py`, pipeline and dispute scripts | one nonce per process call, the account's nonce on chain, a Markdown ledger of disputes | `anchor_audit`, `resolve_dispute`, `resolve_one` | registry, IPFS, language model |
| Dispute re-audit | `dispute/reaudit.py`, `dispute/fetch.py` | none | build prompt, parse verdict, hash verdict | IPFS, language model |
| Paid route | `api/routes_x402.py`, `x402/` | the request in progress | 402, verify, pipeline, settle, record, reply | facilitator (Base), pipeline, receipt store |
| Paying clients | `mcp-server/src/`, `agents/src/x402-audit.ts` | authorization, stage of the call | look up, ask, sign, pay, give up | API, wallet |
| Triage refreshers | `triage/cache_warmer.py`, `deploy_feed.py`, `scheduler.py`, `refresh.py` | progress of a walk | walk audits, walk creations, save | Mantle RPC, stores |
| Snapshot stores | `triage/store.py`, `dispute/events.py` | `cache.json`, `feed.json`, `x402_receipts.json`, `disputes.json` | load, merge or upsert, save | read by the API |
| Audit pipeline | `pipeline.py`, `tier1.py`, `tier2/`, `llm/`, `checks/`, `bytecode/`, `source/` | none | Tier 1 checks, Tier 2 reasoning, guard, report, pin, anchor | RPC, explorer, model, IPFS, registry |
| Money contracts | `MantleProofLicense.sol`, `TreasurySplit.sol`, `StakingPool.sol` | prices, expiry, pending withdrawal, stakes | pay, subscribe, withdraw under a lock, stake, slash, unlock | iNFT owner, treasury |
| Decision log | `DecisionLog.sol` | a counter | `logDecision` | written by agents |
| Customer agents | `agents/src/` | cached target address, ledger file | deploy, pay, run pipeline, read head, decide, dispute | license, registry, decision log |
| Reputation | `reputation/feedback.py`, `give_feedback_demo.py`, `verify_reputation_receipt.py` | entries by account in the Reputation Registry | gate on payment, rate, verify | license events, ERC-8004 registry |
| Receipt verifiers | `verify_demo1_receipt.py` to `verify_demo3_receipt.py`, `verify_dispute_receipt.py` | none | check an agent's or the resolver's claims | registry, DecisionLog, IPFS |
| Readers | `api/routes_*.py`, `cli/`, `mcp-server/src/tools/`, `frontend/` | none | read registry, stores and IPFS | everything above |

What is hard about it:

* **Transactions of one key.** The API process and the scripts sign with the
  same key and read the nonce on their own, so transactions replace each
  other; a receipt may come after the process stopped waiting for it.
* **Long reads before a write.** A dispute, a head or a payment is read,
  minutes of fetching and reasoning pass, and then something is written that
  was decided on what was read.
* **Two chains and a facilitator.** The audit is anchored on Mantle, its
  payment settles on Base, each may fail, be delayed, or succeed with its
  answer lost, and the two are not atomic.
* **Files without locks.** Snapshots are rebuilt from the chain by processes
  that may overlap, each replacing the file in one rename.
* **Money by status.** The registry's balance is not kept by dispute: refunds,
  forfeits and sweeps draw on one pot, and a receiver may refuse its money.

### What makes each component correct

* Registry: the indexes by root and by target agree; the event log determines
  the heads; disputes are about Tier 2 audits, append-only and decided once;
  every counter-stake is paid back at most once, only by the right verdict,
  and no MNT appears or vanishes; the linked agent's memory follows the log.
* Oracle-key writers: what they report is on chain and stays there; a report
  is anchored at most once; the verdict's hash commits to the outcome next to
  it; with the chain they implement the registry.
* Paid route: nobody is charged without an anchored audit of their own, at
  most once, and never after an error; receipts are truthful; every request is
  answered unless the model call hangs.
* Money contracts: every payment ends up with the owner of the iNFT or in the
  treasury to the last unit; paid time is neither lost nor doubled; a
  withdrawal is announced in its final terms and stays covered; the pool covers
  every locked stake, and each stake is settled once.
* Customer agents: a decision or a deposit follows from an audit of that very
  contract whoever else has it audited; the ledger says nothing that did not
  happen; an agent does not go on paying for a contract that a recorded run was for.
* Audit pipeline: what is anchored can be fetched and hashes to the root for every JSON
    reader; every unsupported claim in the text and the suggested fix of a model's
  finding is masked and counted, unless a supported one overlaps it; the tier says what was done.
* Dispute re-audit: a verdict rests on the claim, the disputed contract's source and
  the outcome the model stated; the ledger holds the verdict that stands.
* Reputation: a rating is of an account that paid, once per run; exit codes and
  verifications are true.
* Stores and routes: answers that join several reads do not mix audits up; rows are not
  lost; published snapshots are whole.
* Triage: rows are true of the chain although a row mixes several reads; a
  walk misses nothing in its window but targets whose head it did not get; concurrent
  merges lose nothing but what a full feed has newer rows for; every audit shows up in the end.

## 2. The modules

| Module | Models | State and its counterpart |
|---|---|---|
| `Amounts` | sums of stakes over sets of disputes | none; `TotalOf` is the total the contract never stores |
| `Registry` | the two contracts; one action per external function, with every revert a guard | the storage variables by name; `log` is the AuditSubmitted events, `paid` and `swept` are history |
| `OracleSigner` | EXTENDS `Registry`: runs of `anchor_audit` and `resolve_one`, the account's nonce, the pool and the miner | `client[c].pc` is the line a process is at; `pool` and `mined` belong to the chain |
| `OracleSignerProofs` | theorems about sums of stakes, about `Registry`, and about the composition, which implements `Registry` | none |
| `Ordering` | Python's `list.sort` as an operator: a stable sort by a pair of integers, and the members of a set in an order | none |
| `Guard` | the hallucination guard as operators over texts: claims, overlaps, support, masks | none |
| `Pipeline` | EXTENDS `Guard`: `run_audit` and the script around it, from the look-up of the source to the anchor | `run` is the local variables, `pinned` what is on IPFS, `anchored` the events |
| `DisputeRun` | `resolve_dispute_mainnet.py` with the case it collects and the scan of the reply; `verify_dispute_receipt.py` | `runs[r]` and `verifier` are local variables, `ledger` the Markdown ledger, `disputes`, `inflight`, `mined` belong to the chain |
| `AuditThenPay` | what the paid endpoint promises: at most one audit per call, a charge only after it | |
| `PaidAudit` | clients, the route's handler, settlement, late anchors; refines `AuditThenPay` | `serving` is the handler's local variables, `auth` the EIP-3009 authorization on Base, `receipts` the receipt store |
| `PaidAuditProofs` | theorems about the route, and that it implements `AuditThenPay` | none |
| `Triage` | scheduler and manual refreshers over a growing chain | `cache` and `feed` are the two files, `job[w]` the local variables of a walk |
| `TriageProofs` | theorems about the two files of the refreshers | none |
| `Stores` | the receipt and dispute files with their writers, and the API routes that join files and chain | `receipts` is the JSON file, `inodes` and `names` the dispute snapshot and its temporary file, `api` and `writer` the local variables of handlers and scripts |
| `EngineProofs` | theorems about the routes and the files of `Stores`, and about `Pipeline` with its guard; in one module because both rest on the same lemmas about sorting | none |
| `Treasury` | license, treasury and staking pool with a clock; one action per function | the storage variables; `money`, `credit` and `notices` are history |
| `TreasuryProofs` | theorems about the money contracts | none |
| `Customers` | deployer, trading and yield agent, their files, DecisionLog, and the three scripts that verify what the agents claim | `run[a]` is the local variables of `main`, `cached` and `ledger` the two files, `queue` and `receipts` an account's transactions |
| `CustomersProofs` | theorems about the agents | none |
| `Feedback` | `give_feedback_demo.py`, `verify_reputation_receipt.py`, the payment gate and the Reputation Registry | `runs[s]` and `verifier` are local variables; `payments`, `entries`, `nonces`, `pending` belong to the chain |
| `DisputeRunProofs`, `FeedbackProofs` | theorems about the scripts of `DisputeRun` and `Feedback` | none |
| `MC*` | instances for TLC: accounts, stakes, windows, texts, symmetry sets | |

`OracleSigner` is composed with `Registry` and refines it; `PaidAudit` refines
`AuditThenPay`; `Pipeline` uses the operators of `Guard` on every reply. The
others meet in what they share: an audit that `Pipeline` anchors is one step
`PipelineAnchors` of `Customers`, one `RecordAudit` of `Registry` and one event that
`Triage` and `Stores` read, and each of these modules leaves the rest of the
world free to have made any other.

Every operator whose name starts with `Faulty` stands next to the one it
imitates and makes one plausible mistake. The specifications do not use them;
each property is tried against one of them to see that it can fail.

### Registry

A transaction is one step, because the EVM runs it alone; a call that reverts
changes nothing and is therefore not a step. The only call to an unknown
account, the refund in `resolveDispute`, comes after the last write of the
contract, so that whatever the receiver does in it is equal to doing it in a
transaction of its own. Root hashes are opaque; severity, CID, finding index
and timestamps are left out since no guard reads them. The reserved dispute 0
is left out and ids start at 1, as they do for callers. The agent's memory root
is a hash chain and is modelled by the sequence that it commits to.

### Treasury

The three contracts meet in one balance: the license and the pool feed the
treasury, and only a withdrawal drains it. As in `Registry` a transaction is one
step, and every function writes before it sends. `Tick` is the block timestamp;
several transactions may share one. `Split` is part of `PayForAudit` and `Subscribe`,
so an owner of the iNFT that refuses MNT blocks both. `credit` is a prepaid meter
that counts down with the clock, to compare `licenseExpiry` with; a license given
by the owner overwrites both, also with less time than was paid for, which the
code allows. `StakingPool` is modelled with an arbitrary account as its registry,
because the deployed registry does not call it. Its owner cannot reach the stakes and is left out;
the owners of license and treasury may hand both on (`TransferOwnership`, which a new owner that
accepts no MNT may follow). `Donate` is the treasury's `receive()`: anyone may
send MNT that no license took in. docs/update.md:201 speaks of
several disputers sharing one stake, while the contract's first slash settles it.

### Customers

One action per step between two `await`s of an agent's `main`. `Fail` may come at
any of them and stands for every thrown error, receipt timeout and kill; what was
broadcast stays in `queue` and may be mined during a later run, which knows the
cached address and nothing else, unless `--token` or `--vault` names another contract
(`GivenTarget`: any address there is, the file stays as it is). `Mine` decides whether a transaction succeeds: the
price, the pair and the gas that decide it are not modelled. The receipt of a
deployment names an address whatever its status, and the agents do not look at the
status of that one. Agents meet only in the registry, so `OthersAnchor` stands for all
others as well as for an audit that a failed engine run left in the pool.

`VerifyDemo1` to `VerifyDemo3` are the scripts that a third party runs on a row of the
ledger. They read the chain once and change nothing, so they are operators on a
state and not actions, and `RowsVerify` (a part of `DecisionsGrounded`) asks in
every state whether each row would pass. That a report hashes to its root is
`Pipeline`'s subject, and every audit is the oracle's by `Registry`.

### OracleSigner

`ReadNonce`, `Estimate`, `Send` and `Receipt` are the four RPC calls of
`anchor_audit`. Nothing in the engine serialises two runs, so any other step
may come between. A transaction in the pool can be replaced by one with the
same nonce, mined, or stay for ever. `Succeeds` is used twice, as in reality:
by the node when `build_transaction` estimates gas, and by the miner later.
Verdict hashes are records of what the hashed document contains, so that a
property can speak of what a hash commits to.

### PaidAudit

The handler is an `async` function that calls blocking code, and the container
runs one worker, so from verify to reply it is never interleaved with another
request, and reads have to wait too. What does interleave are the clients'
timeouts, both chains, and scripts that audit the same contract. The facilitator
is external: it verifies, it settles, it fails, or it settles and its answer is
lost. The pipeline's model call may also never return (`ModelHangs`): Gemini's client, the default, is
built without a timeout (`llm/gemini.py:27`), and the worker then serves nobody any more. A header is
sent once; that a client repeats one whose authorization is still valid is not modelled. The
abstract specification is `AuditThenPay`; the refinement mapping takes
the history variable `auditOf` and "the authorization is spent on Base".

### Triage

A walk first fixes the block it goes up to and then makes one call after the
other, so rows hold an event of one moment, a head of a second and a count of a
third. Logs up to a known block do not change, so reading them is one step. The
scheduler goes on for ever and survives failures; a manual run may take an
older block or a narrower window. A node may not have the head of a target whose event it
returned (`HeadMissing`): the walk drops that target and saves all the same, and `dropped` remembers
it. A head that is there is the latest one; a node that answers with an older one is not modelled.

A block creates any set of contracts (`NewBlock`), so a feed of `MAX_ROWS` may be cut among rows of one
block. `list.sort` leaves those in the order of the walk, and `Newest` leaves open which of them
go. A creation may fail (`Reverted`): its receipt names an address too, `deploy_feed.py:129` does not
ask for the status, and as there is no code the row is of class "unknown". Contracts that
contracts create are no transactions without `to`; the walk does not see them, and neither does the model.

### Guard and Pipeline

The guard is regular expressions over text, and its errors are in the overlaps: which of
two matches wins, what is left of the loser, what an occurrence in the bytecode
is worth. So texts are sequences over an alphabet of nine characters in which
one or two stand for their class, and the four patterns, `finditer`, the choice
among overlapping spans, `_norm` and the masks are operators on them, with
lengths (40 hex digits of an address, at most 64 of a literal, 6 characters for a
look-up in the bytecode) as parameters. `GuardAccounted` does not repeat the algorithm: it says of
the report that is pinned what became of every finding: which claims of its text and its fix may be
left, and that its evidence, which the guard takes over but does not scan, is as the model wrote it.

`Pipeline` has one action per call that can fail: the explorer (which answers "OK"
for unverified contracts, and for proxies), the code, the five checks,
the model with its retries over two models, the pin, the anchor. `caller` tells the paid route,
which gives up without source, from the script, which looks for a local file. A root
hash is the document it hashes, and a number is its decimal text, because
that is where two JSON encoders differ. Severity order, tier and the
public counts are computed as in `build_report`. What the checks and the model may
say is left open (`PipelineAssumption`): a list of findings with any texts and severities,
and for the model also elements that are no objects, unknown labels and severities, or no list.
`Absent` is Python's `None`. The specification is `AuditSpec` and its type
invariant `AuditTypeOK`, so that the proofs can stand beside those of `Stores`.

### DisputeRun

Every request of the script is a step: the dispute, the claim from a gateway (a document of one of the
kinds `Docs`: blank, binary, plain, an object with or without a claim, or one that is cut at 8000
characters), the source from the explorer, the model, the broadcast, the receipt, the ledger. `Stop`
may come after any of them. Replies are sequences of tokens (braces, quotes, escapes,
fences, words), since what can go wrong is the scan for the object, not its
wording: `Unfenced` is the code's split at the first two fences, `Scan` the body of its loop over the
text. What an object is comes from JSON and not from the code (`IsObject`: a string ends with the next
quote that is not escaped, braces outside of strings balance at the end and not before), and
`ReplyAssumption` says of every reply that it is meant by the first object in it. What stands around
that object, and in its strings, is arbitrary; a fence in a string or in the prose too.
How two processes compete for a nonce is `OracleSigner`'s subject; here
a transaction is mined or dropped. The verifier's calls are four
steps in the script's order. Its comparison of the disputer is left out. The registry of the
deployment that the verifier's `--pool` is for slashed the stake of a retracted report; the one in
`src/` has no pool, so `StakeAfter` leaves open whether the stake is slashed.

### Stores

Handlers of the API run one after the other, other processes at any moment. A read
of a file may fail and then counts as an absent file, as `_load` has it. The dispute
snapshot is modelled by inodes and names, because two refreshers that
share `disputes.json.tmp` write into one file and one renames what the other still
writes; `trusted` is history and says whether a published snapshot was touched
by one refresher only. A receipt carries the time at which it was made (`at`, `recorded_at` in the
code), which is not the time at which it is saved. `BuildCacheResponse` and `AgentQueries` are the two list routes; their order is `SortedBy` of `Ordering`.

### Feedback

`TransactionCount` reads the mined nonce, so a second run competes with the first
one's pending transaction, as in the code. Control of the agent (owner, operators,
approved address) may change at any moment, and makes `giveFeedback` revert. An
old deployment of the license emits the same event with the same topics.
The encoding of the call and its bounds are left out.

## 3. The runs

| Run | Bounds | Shows |
|---|---|---|
| `registry` | 2 targets, 2 roots, 1 agent, 4 accounts of which one refuses refunds, stakes 0 and 2, 2 audits, 2 disputes, memory chain 1 beyond the log | heads, indexes, events and dispute lists agree; refunds and stakes add up; verdicts are final; memory follows the log |
| `registry_sweep` | 2 targets, 2 roots, stakes 0 and 2, 3 audits, 2 disputes | a sweep takes pending stakes (finding) |
| `oracle_runs` | 2 concurrent runs, each started twice, 2 roots, 2 audits, 1 dispute | what runs report is true; refinement of `Registry` (`Spec` as a property) |
| `oracle_judged` | as `oracle_runs` | a verdict may be about another report (finding) |
| `paid_audit` | 2 calls for 1 contract, one without look-up, 3 roots | charging, receipts, answers, every paid request is answered unless the worker hangs; refinement of `AuditThenPay` |
| `triage` | 2 contracts (one audited, one a template whose creation fails), 2 blocks, 2 audits, 1 fault, scheduler and 1 manual run, `MAX_ROWS` = 1, chunks of 1 block | both files are true, complete but for what a walk dropped or a full feed cut, and in the end up to date |
| `treasury` | 2 accounts of which one refuses MNT and may become owner of license and treasury, amounts 1 and 2, 2 MNT in total, 2 stakes, 3 blocks, period 2, delay 1, window 2, timestamps up to 6 | money, subscriptions, withdrawals, stakes |
| `customers` | 1 agent of each kind in turn, 3 runs, 3 audits, severities LOW to HIGH, the router and 1 address to deploy to | decisions and deposits have their audits, rows of the ledger are true and pass verification, payments for a contract end |
| `pipeline` | both callers, 5 states of explorer and agent, every text up to 3 of 5 characters and 8 longer ones with overlaps, 3 retries per model, 3 metrics | what is anchored can be fetched and verified; text and fix of each finding are accounted for claim by claim; the tier is honest |
| `stores` | 2 targets; four scenes: 2 receipt writers and 2 audits, 1 writer and 3 audits, 2 dispute refreshers and 3 disputes, lists over 5 events | answers that join several reads, no lost receipts, whole snapshots, no newer row left out |
| `feedback` | 2 accounts, 2 targets, 2 licenses, 2 runs of the script or one and a verification, 1 payment, 3 transactions, 2 changes of control | ratings are earned, once per run; exit codes are true |
| `dispute_run` | 3 contracts (local source, no file, unknown), 5 claims (binary, with and without the field, too long, a URI), 7 replies, 2 runs or one and a verification, 2 disputes | verdicts rest on the case; ledger and verifier agree with the chain |

Why these bounds are enough for the interesting cases. Two targets and two
roots allow a root to move between targets, and a head to be replaced; what more
audits, agents or stakes might do is covered by the proofs, which hold for all
of them. Two disputes allow two stakes to compete for one
balance, and one refusing account makes refunds fail; stakes include the
stake of zero, for which no call is made. Two signers with two attempts allow a
nonce to be stale, taken and reused, and a verdict to be raced. In `PaidAudit`
a third root leaves room for a script's audit between two paid ones. In
`Triage` a chunk of one block makes every block a chunk boundary, a feed of one
row makes every second creation exceed it, of two blocks or of one, and the window of the manual run
(0) is smaller than the scheduler's (1).
In `Treasury` both amounts are rounded by both splits, and a payment of 1 leaves room for another,
a stake or a donation; the clock reaches the end of
a withdrawal's delay, of a subscription and of a stake, and sums of expiries go
beyond the largest timestamp.
In `Customers` three runs allow two to fail before the third, in any two places,
and LOW, MEDIUM and HIGH tell both thresholds apart; a given contract is the one of an earlier
run or the router; three audits and two decisions are what the third verifier asks for. A second address
would only let an agent whose run stopped before it cached the first one deploy again.
In `Pipeline` an address of three digits, and bytecode look-ups from two digits on, make
texts of three to eight characters hold two overlapping claims of every two kinds.
In `Stores` the scenes are apart because the three groups of files share nothing but
the chain. In `DisputeRun` the seven replies put a brace into a string, an escaped quote,
an object into a string, a fence into a string and into prose, and prose before and after the object.
`CHECK_DEADLOCK FALSE` is used where the bounds stop the system (everywhere but in `Stores`,
whose reads never end):
chains stop growing, calls are over, attempts run out.

Symmetry is used in safety runs only, over roots, targets, agents, clients and runs of a script,
which the code compares for equality and nothing else.

### Fairness

* `PaidAudit`: weak fairness of the handler. Its calls to facilitator, explorer, node and gateway
  have timeouts and raise when they run out. The model call has none with the default provider
  (only `llm/zai.py` sets one), so `ModelHangs` is always possible and `PaidRequestsAnswered`
  asks for an answer unless it happened. Clients, chains and scripts owe nothing.
* `Triage`: weak fairness of the scheduler's walk: `_loop` catches every
  exception and sleeps a fixed interval, and the container restarts it. The
  chain and manual runs owe nothing, and failures are finitely many.

## 4. The proofs

Each module states its assumptions about its constants by name; TLC evaluates them in
every run. A `*Proofs` module extends the one it is about.

`OracleSignerProofs` proves first, about `Registry`, for all targets, roots, accounts,
stakes and bounds that satisfy `RegistryAssumption`:

| Theorem | States |
|---|---|
| `TypeCorrect` | `TypeOK` |
| `RecordsAgree` | `RecordsConsistent`: the conjunction of the four that follow |
| `IndexesAgree`, `OnlyTier2Disputed`, `DisputeIndexes`, `LogReplays` | `IndexAgreesWithHead`, `DisputesTargetTier2`, `DisputeIndexExact`, `LogReplaysHeads` |
| `RefundsSettle` | `RefundsSettled`: the conjunction of the three that follow |
| `RefundsExact`, `RefusedRefunds`, `StakesAccounted` | `RefundExactlyOnce`, `RefusedRefundStaysOpen`, `StakesAccountedFor` |
| `VerdictsFinal` | `VerdictIsFinal` (an action property) |
| `MemoryCompounds` | `MemoryFollowsLog` (an action property) |

The assumptions are those of the module: the oracle and the owner are accounts,
stakes are natural numbers, `None` is none of the values it stands beside. Type
correctness comes first. It is not enough for money: that `balance - amount` is a
natural number needs the guard `CanPay` and, in the proof that no MNT is lost, the
fact that one dispute's stake is part of the total of its set.
`StakesAccountedFor` is an equation between the balance and a sum over a set of
disputes that changes in three ways: a dispute joins it (pending), leaves it
(refunded), or changes its status inside it (dismissed). There is
one lemma for each (`TotalAdd`, `TotalRemove`, `TotalSame`). `TotalOf` is defined by counting
a set of units instead of by recursion, because induction over data is out of
the prover's reach while cardinalities of finite sets are in the library.

`RefundExactlyOnce` together with `TypeOK` is inductive; so are
`RefusedRefundStaysOpen`, `IndexAgreesWithHead` and `LogReplaysHeads`.
`DisputesTargetTier2` is not: a dispute is accepted because of `auditTier`, which is
overwritten by later audits, while the property is about the log. Its
strengthening says that every root with a tier has a log entry with that tier.
The action properties follow from the effect of each action on `disputes`,
`memory` and `log`, which lemmas state once per action.

`TreasuryProofs` proves, for all accounts, amounts, prices, periods and delays that
satisfy `TreasuryAssumption`:

| Theorem | States |
|---|---|
| `TypeCorrect` | `TypeOK` |
| `MoneyCovered` | `MoneyAccounted`: the conjunction of the two that follow |
| `MoneyConserved`, `PoolSolvent` | `NothingLost`, `StakesBacked` |
| `OwnersShareBounded` | `OwnersGetAtMostTheirShare` |
| `WithdrawalCovered` | `PendingCovered` |
| `WithdrawalsTimelocked` | `WithdrawalsAnnounced` (an action property) |
| `PaidTime` | `PaidTimeExact` |

Here the type is not inductive alone: that `pool` stays a natural number when a
stake is settled holds because the pool backs all stakes, so the invariant is
`TypeOK` and `StakesBacked` together. No property depends on who owns the contracts. The total over stakes changes in one
stake per step (`TotalUpdate`). `WithdrawalsAnnounced` speaks of past
events only; its strengthening `PendingAnnounced` says that the pending withdrawal is
the last event and that its `eta` is that event's time plus the delay. Rounding is settled by
one lemma, that a share rounded down and multiplied up again is at most the share.
`OwnersGetAtMostTheirShare` and `PendingCovered` are proved and have no run of their own.

It then proves, about the runs of the oracle key, for all runs, targets, roots, accounts and
bounds that satisfy `RegistryAssumption` and `OracleSignerAssumption`:

| Theorem | States |
|---|---|
| `ImplementsRegistry` | `Spec` of `Registry`: the runs, the pool and the miner refine it |
| `OTypeCorrect` | `OTypeOK` |
| `ReportsTruthful` | `ReportsMatchLog` |
| `VerdictsCommit` | `VerdictCommitsToOutcome` |
| `ComposedRegistry` | `RecordsConsistent /\ RefundsSettled`, of the composition |

The refinement needs no mapping, since `OracleSigner` has the registry's variables as
its own. A mined transaction is one action of `Registry` (`ExecuteMaps`), anything
a run or the pool does leaves it as it is (`StepMaps`), and so its theorems carry over.
The safety properties are about what runs believe, and their invariant
`SignerInv` ties each belief to its cause: `Prepared` says what a run has collected by the line
it is at; `Sent` that a transaction in the pool or mined was signed by that
run, with the nonce it had read and the call it had prepared; `Owned` that a
report belongs to one run and one transaction; `Shown` that what was mined is visible
in the registry, and that the log has nothing without a mined cause. Without `Owned` a
report could be confirmed twice. What a run knows of the registry must survive the steps
of everybody else, and does since events and verdicts do (`KnowledgeStays`).

`PaidAuditProofs` proves, for all calls, targets, roots and bounds that satisfy
`PaidAuditAssumption`:

| Theorem | States |
|---|---|
| `TypeCorrect` | `TypeOK` |
| `AnswersTrue` | `AnswersAreTrue` |
| `RouteImplementsPromise` | `ChargedOnlyForAudit`: the route refines `AuditThenPay` |

The invariant `RouteInv` says where a call can be: in the queue, with the handler, afloat as
a transaction that may still be mined, or over, with what each place implies for
its authorization (`CallInv`, `ServingInv`). The queue holds a call
once (`QueuedOnce`), so that a call the handler takes is nowhere else. `RootsUnique`
makes an anchored root name one audit, so that a late anchor cannot pass for the audit of
another call. The refinement (`PromiseStep`) maps the anchoring of a paid call's
report to the delivery of its audit, the use of the authorization to the charge,
and everything else to stuttering.

`FeedbackProofs` proves, for all accounts, runs, transactions and bounds that satisfy
`FeedbackAssumption`:

| Theorem | States |
|---|---|
| `TypeCorrect` | `TypeOK` |
| `RatingsEarned` | `FeedbackEarned` |
| `ExitCodesTrue` | `ExitsTrue` |
| `VerificationStands` | `VerdictStands` (an action property) |

`FeedbackInv` says whose transaction is pending (`PendingInv`), what each run knows by the step
it is at (`RunInv`: a vetted payment from the check on, no status and no rating before its
transaction is mined, `moved` if the agent changed hands since the checks), and that an entry is
what its run had prepared, and its only one (`EntryInv`). Runs of one account may hold the same
nonce and replace each other's transactions; that a run is rated once holds because a rated run has
status 1 and waits for nothing. `VerdictStands` needs that a verification which
nobody disturbed has seen the entries as they still are (`VerifierInv`).

`DisputeRunProofs` proves, for all runs, disputes, claims, replies and bounds that satisfy
`DisputeRunAssumption`, `ReplyAssumption` and `VerdictAssumption`:

| Theorem | States |
|---|---|
| `TypeCorrect` | `TypeOK` |
| `RecordsStayTrue` | `RecordsTrue` |
| `VerdictsRest` | `DecidedOnTheCase` |

`ChainInv` follows a verdict from the run to the ledger. `RunsInv` says what a run has at
its line; `TxInv` that a transaction is the call of its run, broadcast once, and that a decided
dispute has exactly one mined transaction that decided it; `LedgerInv` that a row is the
only one of its run and carries what that run saw. `RecordsTrue` is not inductive: that two rows
with a verdict on one dispute are the same row goes by way of the
transaction that decided it. `ChainGrows` is what the chain may do between two requests of a script
(add disputes, decide pending ones, mine what was not mined); whatever a verification has
found survives it (`FindingsStand`), therefore its exit code stays true.

`VerdictsRest` is about every reply of any length. Its core is `ReadRight`: what `ParseVerdict` makes of a
reply is the outcome of the reply's object, or nothing for one of the three reasons that the property lists.
The fold over the text is first shown to have a value after every token (`FoldExists`, `FoldIsScan`), by
the least length for which it had none (`LeastMember`), as the library's induction theorems cannot be
used; the same argument shows that the scan follows the strings and the depth of an object token by
token (`ScanFollows`), so that it ends where the object ends and not before (`ScanFindsObject`). If the
prose opens a brace first, whatever the scan ends with is no object, as none begins there. `CaseInv` then
carries the claim, the source and the outcome from the step that found them to the verdict; that a
filing never changes (`FilingsStand`) keeps it true.

`CustomersProofs` proves, for all agents, contracts, severities and bounds that satisfy
`CustomersAssumption`:

| Theorem | States |
|---|---|
| `TypeCorrect` | `TypeOK` |
| `GroundsHold` | `DecisionsGrounded`: the conjunction of the four that follow |
| `InvFollowAudits`, `InvDepositsApproved`, `InvLedgerTruthful`, `InvRowsVerify` | `DecisionsFollowAudits`, `DepositsApproved`, `LedgerTruthful`, `RowsVerify` (lemmas about `CustomersInv`) |
| `PaymentsEnd` | `PaysUntilAudited` |

An agent learns of its own transactions only by their receipts, so `RunInv` says for each line of a
run what was mined before it, what the run may have sent (`SoFar`) and which audit it
has read; `TxInv` that a deposit or a decision names an audit that justifies it, mined or not;
`RowInv` that a row is the record of a run that is over. Two more parts are needed. A row
is verified with the transactions of its run, and `OnceInv` makes those the ones that
the run saw succeed, since a run sends one of a kind. And nobody pays after a row because a run that
may still pay has no row beside it, which holds as an agent with a row finds its target
audited (`Unrecorded`, about the contract of the run, since a later one may be given another).
That a contract with an audit has a newest one (`LogInv`), and that the decisions counted are
finitely many, are parts of the invariant because neither follows without induction over data.

`TriageProofs` proves, for all contracts, refreshers, windows, chunk sizes and bounds that satisfy
`TriageAssumption`:

| Theorem | States |
|---|---|
| `TypesRight` | `TypeOK` |
| `CacheExact` | `CacheIsExact` |
| `FeedExact` | `FeedIsExact` |

A file is replaced by what a walk brings home, and the walk read the chain in many calls while
the chain grew and other walks saved. `TriageInv` says what a walk can rely on at each moment. Its window
is covered by what it has still to read, the rows it has and the targets it dropped (`JobsInv`), so that
the walk that ends has missed nothing else. A row's count lies between the number of the event that it was made from
and the present count of its contract, as the chain only grows (`ChainInv`). The same bounds hold for
the rows of the file, which is replaced whole (`CacheInv`). The feed is merged: its rows name each
contract once, and one that is not shown has `MAX_ROWS` others above it that are no older
(`FeedInv`); that this survives, whichever rows of a block a cut drops,  the merge with whatever feed the walk found is the longest part of the
proof. It needs that a finite set of numbers has a least member, which is itself proved from the
library's induction over finite sets (`LeastMember`).

`EngineProofs` proves first, about `Stores`, for all contracts, writers, refreshers and bounds that satisfy
`StoresAssumption`:

| Theorem | States |
|---|---|
| `StoresTypesRight` | `TypeOK` |
| `AnswersTrue` | `AuditAnswersHonest` |
| `SnapshotWhole` | `DisputesFileWhole` |
| `ReceiptsNotLost` | `ReceiptsKept` (an action property) |
| `ListsInOrder` | `ListsNewestFirst` |

An answer joins several reads of a log that grows between them. It is honest because what a read
returned stays true of a longer log (`LogGrows`), which `AnswerInv` records after the first and after
the second read (`HeadRead`, `CountRead`). A receipt is a true row of the log, and the file as
well as the copy that a writer has loaded has one per root, none of them of the future (`ReceiptInv`). The snapshot of disputes
needs `DisputeInv`, about inodes: a refresher that runs alone has the
temporary file to itself (`AloneTrue`), nobody who can still write holds the inode of a trusted snapshot
(`TrustInv`), and there is always an inode that nobody uses, as each refresher and each
name holds at most one (`UnusedLeft`, a pigeonhole over cardinalities); without it
a refresher could open the published file itself.

`ListsInOrder` compares what a route shows with what its limit left out. `OrderedFacts` says, for
any finite set and any strict linear order of it, that `Ordered` lists each member once and
no member before one that is less: the number of members ahead of each is different, and less than the
size of the set. `SortedFacts` draws from it that `SortedBy` is a stable sorted permutation. `CacheListed` and
`QueriesListed` follow for the two routes, the first from the invariant `CacheInv` that the rows of `cache.json` are finitely
many and have numbers to sort by.

It proves second, about `Pipeline`, for all sources, bytecodes, checks, replies and lengths of hex
claims that satisfy `GuardAssumption` and `PipelineAssumption`:

| Theorem | States |
|---|---|
| `AuditTypesRight` | `AuditTypeOK` |
| `AnchorsReadable` | `AnchoredIsReadable` |
| `RepliesAccountedFor` | `GuardAccounted` |
| `TiersHonest` | `TierIsHonest` |

`AuditInv` says what an audit has at each step, failed or not. Until the report is built there is none, and nothing is
pinned or anchored (`Nothing`); from then on the report is `Doc`, a function of the run's fields that no later step
changes, and IPFS and the chain hold that document and its root or nothing yet
(`Reported`). `SourceInv` ties the source to what the explorer said of the target and to who called.
Whatever failed therefore left nothing that cannot be fetched and verified.

`RepliesAccountedFor` is about every reply, with any number of findings of any length. Its core is the
guard's choice among overlapping matches, `SpansFair`: spans are claims of the text, no two of them overlap,
and every claim overlaps a span that does not start after it. `Matches` and `Spans` are
recursive functions that go from a position to the next one by jumps (`IsChain`);
`ChainExists` shows that such a function has a value everywhere, by way of the last position without one (`LeastMember`),
and `ChainWithin` what its value is made of. `MatchEnds` proves of
each of the four patterns that a match is not empty and ends within the text. `MaskedFairly` and `KeptFacts`
then account for the masked and the kept claims of a field, and `SortedFindings` says
that `build_report`'s sort loses no finding.

Only model-checked: liveness (`PaidRequestsAnswered` of `PaidAudit` and `AuditsAreShown` of
`Triage`), as fairness and ENABLED are out of the prover's reach. Every invariant
that a passing run checks is a theorem. Three operators over texts, `Norm`, `OccursIn` and `Replace`, are named by
`GuardAccounted` itself: they are translated from the code, and neither a run nor a theorem compares
them with another definition.

## 5. Divergences and known limits

Two runs end with a violation; the code and the sentence that it contradicts
are in `PROJECT.json`:

1. `PendingStakesCovered`: the owner's sweep of "forfeited" stakes takes the
   stakes of pending disputes with them.
2. `DisputedReportIsJudged`: the resolver loads the target's present head, which
   need not be the report that was disputed.

The models also show the following, which the properties therefore except or do
not ask for. A reader of the code should know of them:

* A run of the oracle key that is reported as failed ("nothing anchored") may have its
  transaction mined later; `ReportsMatchLog` speaks only of runs that reported success.
* An authorization is paid although an audit exists, when it was anchored between
  the look-up and the payment or the look-up failed.
* The paid route without verified source sells a Tier 1 audit at the Tier 2
  price; `TierIsHonest` asks that the report says so, not that it does not happen.
* A refresher with an older view may save last: counts in `cache.json` then go
  back until the next walk, although `store.py:46` says that a re-walked target keeps the highest seen count.
  `CacheIsExact` speaks of the view's own block. A walk that finds no head for a target drops its row,
  also one that was there before; `CacheIsExact` excepts what the saved walk dropped.
* A failed creation gets a row in the feed (`deploy_feed.py:129` does not look at the receipt's status);
  `FeedIsExact` asks that the row does not call it queued or a template.
* `ReceiptStore.record` keeps the row that is written last, while `store.py:299` and `336` say that the newer
  `recorded_at` wins: a backfill with an older time replaces the row of the route.
  `ReceiptsKept` asks it only of the route, which makes its row after it has the payment.
* A model's finding has an `evidence` field, which `parse_findings` takes over (`hallucination_guard.py:114`
  to `124`) and `apply_guard` does not scan (`211`, `212`). The pinned report so may hold unsupported claims
  of the model, although `README.md:107` and `hallucination_guard.py:3` promise
  that every claim in its output is verified or masked. `GuardAccounted` asks it of text and fix, and says that
  evidence is published as it is.
* A percentage that starts inside a hex literal (`0x..1%`) is kept if the bytecode has the literal, as the earlier and longer
  match is looked up alone, although lines 37 to 40 of the guard ask for numbers that short to be
  in the source or a Tier 1 finding. `GuardAccounted` permits just this shield.
* A claim filed as a JSON object without the field `claim` (or `text`) is judged as a whole, source text and all
  (`fetch.py:52`), while the docstring at lines 7 to 9 says that anything but plain text and an object
  with a `claim` is rejected. `DecidedOnTheCase` names what is read of each kind of document.
* The default provider's model call has no timeout (`llm/gemini.py:27`); one that hangs stops the paid route.
* `--token` and `--vault` (`trading-agent.ts:74`, `deployer-agent.ts:59`) override the cached address: a
  later run pays for the audit of the contract it was given although its own is audited.
  `PaysUntilAudited` therefore speaks of payments for one contract.
* `verify_dispute_receipt.py:256` asks for a slashed stake after a retraction. Its defaults are the registry and
  pool of the staking era; given today's registry, which slashes nothing, it still takes the retired pool and fails.
* Two dispute refreshes at once can publish a torn snapshot (`events.py:149`);
  `DisputesFileWhole` asks for wholeness where they did not overlap.
* `ReceiptStore.record` loads, changes and saves without a lock: `ReceiptsKept` names
  the row of the other process as the one that may be lost.
* `run_pipeline_mantle.py:118` takes the first local file of a list of names for want of a
  verified source; the report may be about another contract than it names.
  `TierIsHonest` holds for the paid route only in this respect.
* A claim filed as `ipfs://...` is looked up under a path that no gateway has
  (`fetch.py:26`) although `DisputeNew.tsx:110` invites such URIs: its dispute cannot be decided.
  It is the one refusal that `DecidedOnTheCase` lists of a claim that is there.
* `resolver.py:37` says that anyone can re-derive the verdict's hash from the persisted
  JSON; the ledger has outcome and rationale only, and the hashed JSON is not kept.
* `verify_dispute_receipt.py --tx` accepts any DisputeResolved event in the transaction,
  while its docstring (line 22) asks for one with matching arguments.
* An agent declines a token at MEDIUM (`trading-agent.ts:257`), and the verifier of that demo
  passes HIGH only (`verify_demo2_receipt.py`): a true row may be refused. The verifier
  of the yield agent's demo does not ask whether the deposit came after the audit.
* A verification of a row holds until its contract is audited again, since
  it compares with the head.

## 6. Plan

Order of work: the registry (records and money) came first, because all else
relies on it; then the processes that write to it, the endpoint that sells what they write,
and the snapshots that show it; then the money contracts and the agents; then what
is inside an audit and a dispute (`Guard`, `Pipeline`, `DisputeRun`), the
files behind the API (`Stores`), and reputation (`Feedback`). Proofs followed in the same order,
for the modules whose state is more than one handler's.

## 7. Not modelled

* Tier 1 checks, bytecode patterns and the wording of prompts: stateless text
  processing whose quality is measured on labelled samples and is not a
  matter of order. `Pipeline` takes any findings the checks may yield.
* The vendors' client libraries, sleeps between retries and the shape of each API's
  reply: an attempt succeeds or fails.
* The contents of each RPC and gateway request: their outcomes are the
  nondeterministic choices of the modules above.
* Health, feed and settings routes, command line, MCP read tools and frontend: views that pass on
  one read as it is.
* Deployment and measurement scripts: run once by a person. The Sepolia
  pipeline script is a copy of the Mantle one with other addresses.
* The disputer agent: one transaction, which is `SubmitDispute` of `Registry`.
* Demo and mock contracts: targets and test doubles.
* Gas, fees and wall-clock time. A timeout is a step that may happen at any
  moment while its condition holds.
