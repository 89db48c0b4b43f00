# A verification of brc20-swap and of the daemon of Taproot assets

This directory holds TLA+ modules that model the core of the repository, TLC
configurations that check them on small instances, and proofs that TLAPS checks
for every value of the constants. Three programs are covered:

- the **sequencer** of the BRC-20 swap (TypeScript, directory `src/` of the
  repository; `domain/`, `contract/`, `dao/`, `lib/`, `init.ts` are in it);
- the **swap indexer** (Go, `modules/brc20_swap_index`; `indexer/`, `loader/`,
  `decimal/` are in its `lib/brc20_swap`);
- **tapd**, the daemon of Taproot assets (Go, `taproot-assets`).

## The system and its parts

Users deposit BRC-20 ticks into a *module*. The sequencer accepts signed
*functions* (deployPool, addLiq, removeLiq, swap, send, decreaseApproval) over
HTTP, applies them at once to its newest state, and from time to time inscribes a
*commit* - a list of functions that names the commit before it as its parent - on
Bitcoin. The indexer replays the inscriptions block by block, executes the
commits against its own ledger of the module and serves the *event list*, which
the sequencer reads back. The sequencer also asks the indexer to verify a commit
before it inscribes it. tapd stands beside them: it mints assets in batches, sends
them, and shares the proofs of issuance with other nodes.

| part | state | operations | interacts through |
|---|---|---|---|
| contract (`contract/`) | balances, LP supplies, `kLast` | deployPool, addLiq, removeLiq, swap, send; pricing | called by space |
| space (`domain/space.ts`) | contract, pending events, events checker | aggregate, handleOpEvent, snapshot, tick | called by operator, op-builder |
| operator (`domain/operator.ts`) | open commit, newest space, mutex | aggregate (requests); rebuild, trySave, tryCommit, tryNewCommitOp (timer); quotes | `op_commit`, op-sender, op-builder |
| op-sender (`domain/op-sender.ts`) | `commiting`, last commit, utxos, transactions | createCommit; tickNewBlock (a second timer) | wallet, Bitcoin node |
| op-builder (`domain/op-builder.ts`) | start snapshot, events, end op | tick: fetch, rebuild, snapshot, mark | event list API, operator, `op_commit` |
| withdraw, deposit, matching (`domain/`) | orders, locks | create, confirm, retry, cancel, tick | space, operator, node |
| timer and boot (`init.ts`) | `inited`, `fatal` | one turn every three seconds; restart | all of the above |
| indexer ledger (`indexer/`) | BRC-20 balances, the module: swap, available, approved balances, pools, LP, commit chain | one per inscription and per move; the end of a block | blocks, tables |
| indexer store (`loader/`, `indexer/store.go`) | tables per kind of data, rows per height | load, process a block, save | PostgreSQL |
| minting (`tapgarden/`) | batches in memory and on disk, caretakers | queue a seedling, finalize, cancel, tick; the caretaker's states | wallet, chain, universe |
| transfer (`tapfreighter/`) | leases, parcels, logged transfers, proof files | ship, the porter's states, resume | wallet, chain, couriers |
| Merkle-sum tree (`mssmt/`, `tapdb/mssmt.go`) | branches and (compacted) leaves | insert, delete, get, prove | used by commitments and universes |
| universe and federation (`universe/`, `tapdb/`) | issuance proofs per universe, list of servers | register, push, sync, add and remove servers | other nodes by RPC |
| re-org watcher, custodian, couriers (`tapgarden/`, `proof/`) | watched and incoming proofs | watch, import, deliver | chain, other nodes |
| OPI indexers (`modules/*_index`) and APIs | PostgreSQL | indexing per block, re-organisations | ord |

`ord` and `modules/runes_index/ord-runes` are third-party. `PROJECT.json` lists
every part with its status.

**What is hard.** The sequencer is one Node process, but every `await` lets
requests run between two steps of the timer; external calls fail at any of them,
and an exception merely ends the turn; the process can die between any two writes.
State is kept three times - in memory, in MongoDB, and on the chain, where it comes
back through the event list. The indexer executes a commit on a copy of a part of
its state first and then in place, matches transfers with approvals through shared
pointers, and after a restart processes some blocks for a second time. In tapd
goroutines meet on unbuffered channels, share structures by pointer, and are resumed
from whatever the database had when the daemon stopped; coins are kept apart by
leases that expire; nodes compare trees that change while they are compared.
`hazards` in `PROJECT.json` lists each of these at its line.

**What makes each part correct.** Contract: no share loses value, no free round
trip, quotes are honoured. Commit pipeline: commits form one chain, nothing accepted
is lost or inscribed twice, an inscribed commit is closed, a rebuild yields every
function once, the sequencer makes progress. Op-sender: no utxo is spent twice, what
was reported done reaches the chain. Indexer: supply and the module's liabilities
are backed, a refused commit leaves no trace, a verified one is refused later only for a
credit, commits form one chain, a restart changes nothing. Minting: one genesis
transaction per batch, none for a cancelled one, frozen batches are minted. Transfer: no double
spend, what is offered can be spent, logged transfers complete. Trees: the root
depends on the leaves alone and proofs bind. Federation: a finished sync is
complete, a follower catches up, minters are answered.

## Modules

| module | models | state and actions |
|---|---|---|
| `Contract` | `contract/contract.ts`, `assets.ts`, `brc20.ts`, `bn.ts` | operators on a contract state record; `CanX` is the conjunction of the `need`s of function `X` |
| `SwapPool` (extends `Contract`), `MCSwapPool` | calls of the contract by `Space.aggregate`; the quotes of `operator.ts` | `contract`; one action per function |
| `Sequencer`, `MCSequencer` | `operator.ts`, `op-builder.ts`, the `op_commit` collection, the part of `op-sender.ts` they see, the main timer | `pc` is the await the timer is at; one action per step between awaits |
| `OpSender` | `createCommit`, `tickNewBlock`, `lib/tx-helpers/commit-helper.ts` | utxos, transactions, the network; one action per awaited step or loop, and one for its failure |
| `SwapCommit` | `indexer/module_commit*.go`, `CherryPick` | operators from a module record to `[st, m]`, `st` being ok, err or panic, `m` what was written until then |
| `SwapIndexer` (extends `SwapCommit`), `MCSwapIndexer` | `indexer/*.go` without the store | the ledger; one action per inscription, per move, and for the end of a transaction and of a block |
| `CommitLog` | what the chain of commits promises | head, settled, pools; `Accept` |
| `IndexerStore`, `MCIndexerStore` | `indexer/store.go`, `loader/` and the block loop | memory, tables, height; `Boot`, `ProcessBlock`, `SaveDataToDB`, `Stop` |
| `Minting` | `tapgarden/planter.go`, `caretaker.go`, `tapdb/asset_minting.go` | store, shared batch, caretaker and its channels, gardener; one action per step between two external calls or channel operations |
| `Transfer` | `tapfreighter/chain_porter.go`, `wallet.go` (selection), `tapdb/assets_store.go` (leases, transfers) | one action per state of the porter |
| `MsSmt`, `MCMsSmt` | `mssmt/*.go`, `tapdb/mssmt.go` | a compacted and a full tree side by side; `Insert`, `Delete`, `DeleteTree` |
| `Federation`, `MCFederation` | `universe/auto_syncer.go`, `syncer.go`, `base.go`, `tapdb/universe*.go`, `multiverse.go` | leaves and servers per node, the envoy, the sync under way, pushes |
| `Arithmetic` | lemmas on sums, products, integer quotients and roots | no state |
| `SwapIndexerInvariants` | the invariants and relations that `SwapIndexerProofs` speaks of: `LedgerInv`, `ChainInv`, `Richer`, `Ahead`, `LpBut`, `HolderInv` and their parts | no state |
| `SequencerProofs`, `OpSenderProofs`, `SwapPoolProofs`, `SwapIndexerProofs`, `MintingProofs`, `TransferProofs`, `FederationProofs` | theorems; each extends the module it is about | |

**Contract.** Amounts are the integers `uintCal` computes with; every division
rounds down as `ROUND_DOWN` does, and `uintCal`'s refusal of a negative
difference or a zero divisor is a guard. A tick is a number so that
`sortTickParams` is `<`; a pair names the LP token and is the address of the
reserves, as in the code. The operator tries each function on a clone first, so a
function that throws changes nothing.

**Sequencer.** `pc` is the position of the main timer; its values are the awaits
of a turn: `idle`, then op-builder's `rebuild`, `snapshot`, `mark`, then
operator's `check`, `save`, `commit`, `verify`, op-sender's `create`, `send`,
`saveIns`, then `new`, `saveNew`. `senderInit` ends the boot and `stopped` is the
cancelled timer. A request is `Aggregate` (the checks, and the rebuild when
verifyCommit is on) followed by `AggregatePush` or `AggregateReject`, with the
mutex held in between; requests, time, the indexer and crashes interleave
everywhere. A function is an opaque token and a space is the sequence of the
functions applied to it, which is what tells a rebuild that applies something
twice from one that does not. An inscription is the number of its broadcast.
`LateFailures` says whether the process may die, or the write fail, between the
broadcast of a commit and its upsert.

**OpSender.** The inside of `send` and `saveIns`: which utxos an attempt takes,
the three locks and three change records it writes, the signature, three
broadcasts that may fail before or after reaching the network, and the timer that
confirms and broadcasts again. Transaction `<<n, k>>` is the k-th of attempt n.
Values are left open, so which of several utxos is the largest is a choice.

**SwapCommit and SwapIndexer.** A commit is a record of its id, parent, gas and
functions. A function writes in place, so the operators return what was written
when an error or a panic stopped them; the commit as a whole is rehearsed on
`CherryPick`'s copy, which knows the ticks and pools the commit names and starts
below `ENABLE_SWAP_WITHDRAW_HEIGHT`, and then executed on the module. Transfers and
conditional approvals of one transaction share the entries of `heap`, which stand
for the pointers of the code. An inscription spent as fee comes back to its owner
and is a move to the owner. Signatures are taken to be valid. `Log == INSTANCE CommitLog WITH ...` maps the accepted commits to the
abstract log: the head is the one accepted commit that no other continues, and the
pools change only when the head does.
Its assumptions and guards say of the inputs: OP_RETURN and the module's script
cannot be spent; an inscription moves once in a transaction; commits have the shape the parser lets
through and distinct ids; the start states are accounted for, as the states the
program reaches are.

The verification service (`VerifySwapCommitContent`) is an operator on a copy of the
indexer (`Copy`): a call brings a commit, the bodies of some of its ancestors (`given`)
and one result per function. Of the ticks the copy has those that the results name and
the gas tick. The ancestors that were not moved are run first, the commit then, and after
each function its result is compared (`ResultMatches`): swap balances, LP, reserves and
LP of pools, for equality. The answer is valid, invalid (a result differs or a body is
missing), critical (the commit or an ancestor is at fault) or a panic. `Names` says which
entries results may name; their values are those of a run, as in the sequencer's calls.
The ticks of a pool in a result are written as its deployer wrote them, addresses and
pairs are well formed, a chain of ancestors has no more than `MaxIns` commits, and a body
that is brought deploys no pool of a tick with itself.

**IndexerStore.** The tables are sets of rows; balances have one row per height
that changed them, inscriptions one row when they appear and one when they move.
Loading takes the newest row of each user, and either of two rows of equal height.
The start height is the newest height in the table of *BRC-20* balances.

**Minting.** `disk` is the store, `mem` the `MintingBatch` that planter and
caretaker share by pointer, `care` the caretaker with its channels and the goroutine
that waits for the confirmation. Database calls succeed; the calls in `Failures` may
fail. A daemon that reported an error to its main channel goes down (`halting`) and
is started again. `refrozen` is a history variable: the batches that were finalized again
when their transaction had been signed and stored, which their reset to Frozen forgets.

**Transfer.** A parcel sends a part of one asset; the other assets in the same UTXO
are its passive assets. `transfers` and `lease` are tables, `pkg` the package in
memory, `held` where an asset is on the chain.

**MsSmt.** A hash is injective, so a node is its own hash; sums are computed modulo
`MaxSum + 1` as 64-bit sums are. The memory store keeps
one node per hash, whoever wrote it; the SQL store refuses a second row of a hash, so an
operation that would write one fails.

**Federation.** A leaf is a key and the block its proof is for; the root of a
universe is the set of its leaves, which `MsSmt!RootIsCanonical` and `ProofsBind`
justify. A sync holds `isSyncing` and goes through roots, keys, proofs and batches,
reading the server anew in each step. Calls made together (`ParSlice`) share a
context that the first error cancels. A server may fall silent (`silent`): from then on
a call to it returns an error or never returns, as its connection has no keepalive and
the context no time-out. Verification of a proof reads the best chain
in one step and the insertion is another.

Definitions named "Mutant" are not part of the model: each is a plausible bug of
the definition below it, used to show that a property can fail.

## Runs

| run | checks | result |
|---|---|---|
| `pool` | value per LP share never falls, no profit from a round trip, quotes are honoured | holds |
| `sequencer_crash` | commits fork, or a function is inscribed twice, only if `op_commit` missed an inscription; parents were sent before; the open commit only grows; until the first crash inscribed commits are closed, accepted functions are kept and what is saved is a prefix of what is inscribed | holds |
| `sequencer_live` | without crashes one chain; unless a snapshot is ahead of `op_commit` (`SnapshotAhead`), a rebuild after a fetch is exact, accepted functions are inscribed, the sequencer opens again | holds |
| `sequencer_stale_events` | no function is in the newest space twice | fails: a rebuild between a snapshot and the next fetch |
| `sender` | no double spend; done is recoverable, and mined in the end | holds |
| `swap_ledger` | supply, the module's liabilities and pending inscriptions are backed; a transfer is matched at most once; while no commit moves, a call answered valid becomes invalid exactly when a swap balance its results name was credited, and never critical | holds |
| `swap_commits` | a refused commit leaves no trace, pools keep their value, the two records of LP agree, the indexer implements `CommitLog` | holds |
| `indexer_store` | balances and the module survive stops at any point | holds |
| `minting` | one genesis transaction, none for a cancelled batch, but for batches finalized again after signing; confirmed is minted; what was frozen, or found unfinished by a restart, is minted, unless a call failed for it, a cancel was sent or a restart lost the anchor index | holds |
| `transfer` | no double spend, eligible is spendable, logged is confirmed | holds |
| `mssmt` | the root is canonical, proofs bind, rows are exact | holds |
| `federation` | a finished sync is complete, the follower catches up with a server that answers; requests are answered, unless a tick waits for ever for a silent server | holds |

The run that fails checks what a comment of the repository says; `findings` quotes
it. Further invariants are stated in the modules and hold with the same constants,
but are not among the runs: `PoolNeverDrained`, `SupplyIsSumOfBalances` and
`NobodyIsDiluted` (SwapPool), `ConfirmedIsMined` (OpSender), `HoldersAreListed`
(SwapIndexer), and `TypeOK` of each module that has one.

**Bounds.**
`pool`: one pool, two users, six calls with amounts 3 and 12, slippage 0 and 50%.
`MinLiquidity` is 2 instead of 1000, and beside the deployed fee rate of 0.7% there is
one of 90%, because in pools this small only such a fee makes the protocol's LP
minting happen, while the rounding that the properties are about is largest there.
`sequencer_*`: three functions in commits of two give two commits and the rollover
between them (two functions in the live run); snapshots of one event and a fatal
number of two make both happen. The crash run has one failure and two crashes and 1.6
million states, functions being symmetric; the live run has three failures, one more than
bring a snapshot ahead of `op_commit`, so that what happens after that is explored too.
`sender`: two attempts, the second of which spends change of the first or a utxo of
its own, with one failing write or signature and two failing broadcasts.
`swap_ledger`: two users, one tick, three inscriptions of amounts 1 and 2 and three
moves of an approval, from a module with deposits: enough for an
approval that two transfers match, or a transfer that matches two. Calls of the
verification service are about a commit and its successor, with every set of given bodies, and
their results name the swap balance of the one user who approves: the start balances are no
larger than the commits spend, so a balance lost anywhere refuses a call, and credits
by a deposit and by a conditional approval that is booked happen. There are no pools in this run: results
that name reserves and LP are left to `SpecVerifiedStaysGood` (with a pool, three choices of
what results name and two commits, 13,417 states were also explored). `swap_commits`:
four inscriptions out of five commits that together use every function, competing
for two parents, with an approval between them.
`indexer_store`: four blocks of up to two events, three boots.
`minting`: two batches, one seedling, one failing call of any kind, one restart, one
cancellation, either index of the anchor output, and three fundings, so that a batch can be
finalized again while another is open. 0.7 million states. With two seedlings, two
failing calls, one index and symmetric batches the three invariants were also explored (2.1
million states); the theorems cover any number.
`transfer`: two assets that may share a UTXO, three parcels, one failing call,
one restart.
`mssmt`: four levels, four keys, five leaves, a largest sum of 6 that two leaves
exceed together, both stores.
`federation`: a server, a node that follows it and mints into the same group, a
second server the user may add; three keys in two universes, batches of two, and
one disturbance (a re-organisation, a failure, a server that falls silent, a restart or a
call of a user).
With two keys and batches of one, `SyncedIsCovered` was also explored with two.

**Fairness.** `Sequencer`: the timer is set again after every turn
(`utils/async-timer.ts`) and none of its steps waits for ever; a request that holds
the mutex ends; time passes; the indexer lists what was inscribed. No request is
assumed to arrive. `OpSender`: createCommit runs to its end, the second timer fires
after every block until it is cancelled, and blocks come. `Minting`: goroutines run,
what is published is mined, and a daemon that went down is started again. Nothing is
assumed of the batch ticker: tapd makes it a `ticker.Force` (`tapcfg/server.go:293`) that
is never resumed, so a batch waits for the user's finalize; `Tick` is an action that may
happen, as with a ticker that runs. `Transfer`: the porter's goroutines run and what the network accepted
is mined. `Federation`: goroutines run and the ticker ticks (weak); requests are
taken under strong fairness, because a Go `select` chooses at random among the
channels that are ready. A remote call of a sync returns when its server is not silent,
and only then, unless its context is cancelled: the steps of a sync that hear from the
server have that as a guard. Nothing is assumed of pushes. Failures and restarts are finitely many in every run.

**Deadlock** is checked for pools, sequencer, op-sender and trees. The indexer, the
minting, the transfers and the federation may rest (`CHECK_DEADLOCK FALSE`): their
inputs are bounded, and when these are used up nothing is left to do.

## Proofs

TLAPS checks the theorems below for every value of the constants: any users, ticks,
amounts, batches, parcels, nodes, and any number of failures, crashes and restarts
unless a hypothesis says otherwise. The named assumptions of the modules are evaluated
by TLC in the runs. Each inductive invariant was checked with TLC before it was proved.

| module | proved | hypothesis |
|---|---|---|
| `SequencerProofs` | `TypeOK`, `ParentSentBefore`, `CommitOnlyGrows`, `ForkedOnlyIfLost`, `InscribedIsClosed`, `AcceptedIsKept`, `SavedIsPrefix` | none |
| | `LinearChain`, `InscribedOnce` | `LateFailures` FALSE |
| `OpSenderProofs` | `TypeOK`, `NoDoubleSpend`, `DoneIsRecoverable`, `ConfirmedIsMined` | none |
| `SwapPoolProofs` | `TypeOK`, `SupplyIsSumOfBalances`, `PoolNeverDrained`, `ShareValueNeverFalls`, `NobodyIsDiluted`, `NoRoundTripProfit`, `QuoteHonoured` | none beyond a fee below 100% (`SwapFeeAssumption`) |
| `SwapIndexerProofs` | `SupplyIsHeld`, `PendingIsBacked`, `MatchedAtMostOnce`, `PoolKeepsValue`, `VerifiedStaysGood`, `LpMapsAgree`, `HoldersAreListed` | none |
| | `ModuleBacked` | `SameTicks` |
| | `CommitIsAtomic`, `CommitsFormOneChain` | `HeightPasses` FALSE |
| `MintingProofs` | `TypeOK`, `ConfirmedIsMinted`, `OneGenesisTx`, `CancelledStaysOffChain` | none |
| `TransferProofs` | `TypeOK`, `NoDoubleSpend`, `EligibleIsSpendable` | `LeaseOutlives` |
| `FederationProofs` | `TypeOK`, `SyncedIsCovered` | none |

Where a hypothesis is named, TLC finds a counterexample without it: the hypotheses are
the conditions under which the code is right (see Observations; for `SameTicks`, write
the ticks of a removeLiq of `swap_commits` differently).

**Sequencer.** `TypeOK` is not inductive, because a restarted process has no open
commit and reads positions of an event list that grew. `TypeInv` adds that a
commit is open wherever one is saved or broadcast (`Opened`) and that every
position lies within the list (`Ranges`). `ParentInv` says that each inscription
remembered anywhere - a row of `op_commit`, the open commit, op-sender - was
broadcast with the parent remembered for it (`Links`, `Sound`); this survives a
crash because a crash only forgets. Hence a parent was broadcast before, and the
commit that `tryNewCommitOp` opens follows the one it replaces.

`ForkedOnlyIfLost` holds with crashes and failures anywhere, so its invariant cannot
say that the chain is in order. `ForkInv` is a disjunction: an inscription before the last
is known neither to `op_commit` nor to the operator (`LostForGood`, which no step
undoes: rows are only added, and inscriptions only written by the process that sent
them), or everything is in order - the event list is a prefix of the inscriptions, row i
of `op_commit` follows the inscription i - 1 and the marked rows come first, and the open
commit, op-sender's last commit and the marks of the tick under way fit these rows
(`EventsInOrder`, `RowsInOrder`, `OpenInOrder`, `SenderInOrder`, `MarksInOrder`). A
broadcast while `op_commit` misses the last inscription is what leads from the second
case to the first. The difficult step is the rebuild: that the commit it leaves open is the
last row, whatever marks earlier ticks made or failed to make (`RebuildMarks`).
`OnceInv` is independent of that order: the open commit, the rows and the inscriptions are
copies of one another, so two that share a function have the same parent; on a linear
chain they are then the same commit (`InscribedOnce`). `KnownInv` adds that without late
failures `op_commit` knows every inscription when the next one is broadcast, hence the
first case never arises: `LinearChain` and `InscribedOnce` hold through any number of crashes.

`CleanInv` is about the time before the first crash. While a commit is being inscribed, or is
inscribed and not yet replaced, it meets the commit condition and the mutex is free
(`Closed`), so that no request can pass `checkSystemStatus`; the accepted functions are
in the open commit or inscribed (`Kept`); and a row holds a prefix of the open commit
or of the inscription it names (`RowIsCopy`). The last conjunct is needed even for the first
two, because a rebuild may replace the open commit by a row.

**OpSender.** `SenderInv` ties the collections and the network to the step createCommit
is at. What an attempt spends comes from earlier attempts (`RowsOlder`,
`InputsOlder`) and is locked, for good, before its first broadcast (`Locked`); so no
later attempt chooses what an earlier one sent (`Apart`), although attempts that stopped
earlier may share utxos. A record is pending or known to the network (`Recorded`), and
the two collections that hold confirmations are never ahead of the chain.

**Pools.** `PoolInv` says that tokens are sound (supply is the sum), that a deployed pool
with liquidity has its locked LP and two positive reserves, that `kLast` is at most the
product of the reserves, and that the square of the supply is at most `kLast`: a share
is worth at least one. The last conjunct is what makes the rounded square roots of
`_mintFee` safe; without it a single rounding could lower the value of a share.
`QuoteHonoured` and `NoRoundTripProfit` then are facts about the price operators of
`Contract`, proved from lemmas on quotients in `Arithmetic`.

**Arithmetic.** Sums over finite sets, products, floors of quotients and of square
roots. The library's induction theorems take an operator as parameter and cannot be
used with the installed provers; induction is therefore done through the smallest
counterexample of a set of numbers (`LeastNatural`, from `MinimalSubset` of finite
sets; `UpTo` for a property of the numbers up to a bound), and the folds behind the sums are unfolded one element at a time (`SumStep`).

**Indexer ledger.** `LedgerInv` is the conjunction of `Typed`, `TxSound` (the entries of
`heap` that the transaction under way can reach), `MatchSound`, `ValidIsPending`,
`ValidCommits`, `SupplyIsHeld`, `PendingIsBacked` and `PoolsSound`. `MatchedAtMostOnce`
is not inductive: transfers and approvals reach one shared entry from two lists, and a
match empties one of them only. `MatchSound` says that what was matched and what the
entry can still match together are at most the amount. That proof found that the model let an
approval move twice in one transaction, which no chain can do; the guard was added.
`ModuleBacked` needs an account of each step of a commit, also of one that fails half way
(`Funds`: user balances and reserves of a tick together do not change). It holds under
`SameTicks` - commits write ticks as the pools' deployers did - because a differently
written tick is credited to the other reserve.

**Indexer commits.** `ChainInv` says that below the height a commit is inscribed once,
one not yet moved is not accepted, and, once there is one, exactly one accepted commit
has no successor.
The core is that rehearsal and execution agree: as long as the copy has the ticks and
pools the commit names and both run by the same rules, each function gives the
same status and, on what was copied, the same result. Hence a refused commit touches
nothing (`CommitIsAtomic`), and an accepted one is an `Accept` of
`CommitLog` (`CommitsFormOneChain`); every other step leaves the log alone.

**Verification service.** `VerifiedStaysGood` compares the module of one call with that of
a later one. A module is `Ahead` of another by a gap when it has the same pools and the same
chain of commits and each user's swap balance is larger by the gap, which is a natural
number. What a function pays or takes depends on the pools alone, and it is refused for
want of balance only; so a function that succeeds succeeds on the module that is ahead
too, and the gap stays the same, to the unit (`Follows`, one lemma per function). This is
carried over the functions of a commit and over its waiting ancestors by induction on their
number (`RehearsalFollows`). After every function, then, LP and pools agree with the
results as before, and a swap balance that is named agrees exactly when its gap is zero
(`MatchFollows`, `AnswerFollows`): the answer is invalid if a named balance was
credited and valid otherwise. It remains that every step but the move of a commit leaves
the module ahead of what it was, keeps the commits that wait and forgets no deployed tick
(`StepEnriches`, with `Richer` for the existence of a gap), which rests on `PoolsSound` and
`ValidCommits` of `LedgerInv`. Without the restriction on moves the property is false, as
it should be: the move of one of two commits with one parent invalidates the other.

**LP and holders.** Within a function the LP of a pool and what is held of it differ:
addLiq raises the one before the other, removeLiq takes from the user first. `LpBut` says
that all LP is held but d of pool p; every function, also one that fails after the
service fee was issued, ends with d = 0, and a commit is a sequence of functions
(`LpMapsAgree`). `HoldersAreListed` needs `HolderInv`: a tick that is not deployed has no
holders, as a deploy starts the list anew. The receiver of a transfer is listed under a
deployed tick, because the sender's transferable balance was positive. `StartsAssumption` says the same
of the states an indexer starts from.

**Minting.** `MintInv` relates the store, the shared batch and the caretaker's state and
gives types and `ConfirmedIsMinted` whatever fails. `OffChainInv` adds, for the batches that
are not in `refrozen`, which transaction may be out in which state (`OutInv`): a batch with
a published transaction is recorded with it, and one whose publishing or registration failed
keeps its entry among the caretakers, so that it can be cancelled only through a
caretaker that refuses. For a batch in `refrozen` none of this holds, as finalizing it
again resets it to Frozen; `OneGenesisTx` and `CancelledStaysOffChain` name these batches
and hold of all others without a hypothesis on what fails.

**Transfer.** `LeaseInv` says that a package before the log holds the lease of the
UTXO it selected, alone, and that the lease of a logged transfer is the long one; a restart
forgets packages and keeps leases. `SpendInv` says that the store, the chain and the
proof archive agree on an asset unless a pending transfer explains the difference, and
that the commitment read at the selection is still that of the UTXO.

**Federation.** `CoverInv` follows the sync through its phases: what was read as a
root, what of it is still to be fetched, and what is stored; keys that others wrote
meanwhile and universes that were deleted are named as exceptions.

**Only model-checked.** Liveness (out of TLAPS's reach); `FreshRebuildIsExact` (it speaks of
concatenations of the functions of many commits, whose facts need induction over
sequences); `MsSmt` (its operators are recursive); the store's
`BalancesSurvive` and `ModuleSurvives` (folds over the blocks of a load).

## Observations

What the models showed beside the runs. Where constants are given, changing the named
run's configuration to them makes TLC produce the behaviour.

**Sequencer.**
- With `LateFailures` TRUE and a crash, `LinearChain` and `InscribedOnce` fail: a
  commit whose inscription `op_commit` does not know is inscribed again with the same
  parent. From then on `FreshRebuildIsExact` and `AlwaysOpensAgain` fail too
  (`sequencer_live`): every rebuild throws on the duplicate. After one more crash even
  the commits that `op_commit` knows may branch.
- `SavedIsInscribed` (`sequencer_crash` without crashes or failures): a function
  accepted between trySave and tryCommit is inscribed and not saved.
- `SnapshotAhead` (`sequencer_live`; `pc = "rebuild" => CanRebuild` fails): a mark loop fails after `endOp` has moved to a
  commit and before its row is marked, the next tick takes a snapshot that contains the
  commit and its loop fails too. The row is then never marked. Every later rebuild throws, or
  has the commit's functions twice; `FreshRebuildIsExact`, `AcceptedIsInscribed` and `AlwaysOpensAgain` except this state and
  no other.
- `NextTurnCanCommit` (`sender` with `MaxPushFaults` 0): an attempt that was never
  signed leaves change records, and the next one may spend them.
- An addLiq quote does not say that the requested amount is used in full:
  `isProportional` (`utils/utils.ts:147`, used at `domain/operator.ts:377`) compares
  the two amounts with each other, not with the pool.

**Swap indexer.**
- The verification service compares expected balances for equality: a deposit or a matched
  approval of a user named in the results makes the service refuse, as invalid, a commit
  that the module would still accept (`swap_ledger`).
- `swap_commits` with `HeightPasses` TRUE: `CommitIsAtomic` fails. `CherryPick`
  (`indexer/init.go:481`) does not copy `BestHeight`, so the rehearsal runs by the
  rules of before the height and the execution by those of after it; the functions
  before the failing one stay executed.
- exactOut swaps bound the input by `amount * (1000 + slippage)` without dividing by
  1000, and compare the balance with the quoted amount only
  (`module_commit_swap.go:129-157`), so a swap balance can become negative; an exactOut
  of the whole reserve divides by zero.
- `token0 == pool.Tick[0]` is case-sensitive, so a differently written tick crosses
  the reserves; an exactIn swap on an empty pool makes the next addLiq panic; the
  map of removed withdrawals is nil at `indexer.go:91` when the height starts.
- Re-processing after a restart: a commit that was refused because its parent moved
  after it, in a block that changed no BRC-20 balance, is accepted the second time;
  with approvals, re-processing inserts a second row of equal height, and a later load
  may mix rows of the two. `ModuleSurvives` excludes both.
- Not restored at boot: `ValidApproveMap`, `LastRootK`,
  `ConditionalApproveStateBalance`, `InscriptionsValidCommitMapById`; a pool without
  liquidity (deployPool does not set its `UpdateHeight`). `Decimal.Scan`
  (`decimal/decimal.go:53`) loads module balances with 18 decimals whatever the tick
  has. The two databases are committed one after the other (`indexer/store.go:146`).

**Minting.**
- `anchorOutputIndex` is not stored and is 0 after a restart: a batch whose anchor is
  output 1 then builds proofs that do not verify and is not finalized, at this and every
  later restart (`AnchorLost`, which `FrozenIsMinted` excepts).
- When the publishing of a transaction or the registration of its confirmation fails and the
  batch is finalized again, it is reset to Frozen whatever it had reached
  (`planter.go:336`): then it can be cancelled although its transaction is out, and a second
  transaction is funded and published for it. `OneGenesisTx` and `CancelledStaysOffChain`
  fail without the exception of `refrozen` batches. Seedlings accepted after a finalization
  that failed past Committed are never minted.
- A cancellation of a batch whose caretaker has ended, or that races its completion,
  blocks the gardener; the goroutine that waits for the confirmation may take the
  cancel request and drop its event, so that the batch waits until the next restart.
  `FrozenIsMinted` excludes batches a cancel was sent to.
- With the shipped ticker no batch is finalized but by the user.

**Transfer.**
- `LeaseOutlives` FALSE: `NoDoubleSpend` fails; the ten-minute lease of the selection
  can run out before the transfer is logged.
- `ResumedIsConfirmed` fails: `QueryParcels` (`tapdb/assets_store.go:2680`) does not
  read the passive assets of a transfer, so a resumed one ends with "failed to find
  proof file for passive asset", at this and every later restart. `LoggedIsConfirmed`
  excludes these transfers.
- A failed publish leaves the transfer pending until a restart although the caller got
  an error; coins of a parcel that failed before the log stay leased for ten minutes.

**Trees.** `FullTree` deletes a leaf by its key where the store wants a hash, so the leaf
stays in the store; deleting an absent key can leave an empty compacted leaf in the memory
store; keys that differ in the last bit only meet where `insert` expects no branch
(`KeysAssumption`); the test for overflow counts a replacing leaf in full and so refuses
some replacements that fit.

**Federation.**
- A server that falls silent in a sync of a tick blocks the envoy for ever: neither its
  ticks nor the requests of minters are served until the daemon restarts
  (`RequestIsAnswered` excepts exactly this, `Blocked`). A silent server in a sync that a
  user or an addition started holds `isSyncing`, so that no later sync runs, but
  requests are answered (`FollowerCatchesUp` assumes `~Hangs`).
- With two servers the calls of a tick collide on `isSyncing` and the first error
  cancels the others; `FollowerCatchesUp` is stated for one server.
- `SetDiff` compares keys whose script key is a pointer, so every key of a universe
  that differs is fetched again, and one stale proof at a server stops every sync.
- A universe deleted at the server between the reading of its root and of its keys
  counts as synced; `SyncedIsCovered` names the exception.
- Failed pushes are not retried. `AddServers` is one transaction, so a static member
  that was unreachable at the first start is never added while another is known.
- A proof verified before a re-organisation may overwrite a fresher one.

**Re-org watcher** (read, not modelled): a confirmation is compared with the block of
the first registration, which is never updated, so that A, B, A leaves proofs at B.

## Not modelled

- Sequencer: signatures, encodings, decimals, gas prices and HTTP; events other than
  commits in the event list and its reordering (with space); withdraw, deposit and
  matching; the `invalid` flag of `op_commit`, which an administrator sets by hand.
- Indexer: histories, the second copy of the balances for unconfirmed data, JSON, the
  tables of pools, conditional approvals and withdrawals, the read-only API.
- tapd: group keys, metadata and the contents of proofs; the asset VM, commitments and
  proof verification (they rest on hashes and signatures; here a proof is valid when
  its block is in the best chain); pre-signed parcels, couriers and their back-off, the
  re-org watcher and the custodian; the leaves of the multiverse tree and statistics; a
  failing database; an insertion that a failed sync had already handed to the database.
- The OPI indexers, the APIs and the vendored programs.

The map names the lines each definition stands for. It covers about a tenth of the
Go code of the repository: a third of that code is generated (protobuf, sqlc, API
docs), and most of the rest is command line, RPC translation, configuration,
encodings and test harnesses, which have no control worth a model.

## Plan

1. `Space`: asset types and their pending forms, the order of pending events,
   duplicate and reordered events, snapshot against replay.
2. `Withdraw`, `Matching`, `Deposit`: states, locks, time-outs, partial broadcasts,
   composed with `Space`.
3. The re-org watcher and the custodian, composed with `Transfer`; couriers.
4. `Sequencer` and `SwapIndexer` composed through the event list.
5. `brc20_index`: balances per block and the recovery from a re-organisation.
6. Proofs: `BalancesSurvive` and `ModuleSurvives` of the store.
