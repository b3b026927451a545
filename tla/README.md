# litnode in TLA+

litnode is a network of bonded volunteer nodes that host, witness and settle
ranked matches of browser games. Players' pages talk to nodes; nodes gossip
among themselves, draw a host and a panel of three witnesses for every match,
replay what was played, and put the result on a chain whose contracts decide
disputes by stake. This directory holds TLA+ models of that system, the
configurations that check them with TLC, and proofs checked by TLAPS.

What matters most is on chain, because it moves money and cannot be patched: the
bonds (`contracts/NodeStake.sol`) and the life of a match
(`contracts/MatchBook.sol`), with the hourly root the nodes anchor on top of them
(`contracts/EpochAnchor.sol`, `node/matchbook.js`). Around
them stand the node's driver that carries a match through those contracts, and the parts that feed it:
settlement, placement, gossip, process supervision, chain access, keys. All of these are modelled; what is not is listed
at the end with the reason.

## Reading order

| Module | What it is |
|---|---|
| `Totals` | the sum of a function over a finite set, used by every ledger |
| `NodeStake` | the bond ledger: bond, stake, unstake, withdraw, slash, the admin |
| `MatchOutcome` | abstract: what a match promises to a reader of the ladder |
| `MatchBook` | the life of a match and the witness pool, over `NodeStake` |
| `EpochAnchor` | the hour's root by a stake-weighted quorum, over `NodeStake` |
| `HourlyRoot` | the nodes that compute and propose that root, over `EpochAnchor` |
| `MatchDuty` | the drivers of a host and its panel carrying one match over the chain |
| `Settlement` | one node's intake, co-signing and freezing of a match's result |
| `Placement` | the queue, pairs, rival placements, commits and ageing on several nodes |
| `PeerTable` | heartbeats, eviction and standings at the tables' limits |
| `Chat` | the operators' line: a bounded ring, tiers and rates |
| `SendQueue` | the hot key's nonces among the parts that sign with it |
| `ProxyWallets` | what a user's wallet on a node signs: sign-in, keys, titles, the bond, under answers that get lost |
| `Gauntlet` | match servers: ports, processes, rooms |
| `Services` | a publisher's supervised service |
| `Updater` | releases: keys, registry, apply, cut copies, rollback |
| `RpcPool` | the endpoints of the chain and the log scan over them |
| `Verifier` | a witness's re-runs: bundles, trust, one line, a daily budget |
| `CourtClient` | a publisher's court that settles on whichever node answers |
| `TitleRegistry`, `PlayerProfile`, `CharacterRegistry`, `GasRefund` | the remaining contracts with state worth checking |
| `NodeStakeProofs`, `EpochAnchorProofs`, `HourlyProofs`, `MatchBookProofs`, `DutyProofs`, `ContractProofs`, `MeshProofs`, `NodeProofs` | theorems, for every value of the constants |
| `MCNodeStake`, `MCMatchBook`, `MCHourly`, `MCMesh`, `MCNode`, `MCContracts` | small instances for TLC (`MatchDuty` is its own) |

`NodeStake` is extended by `MatchBook` and by `EpochAnchor`, and that by `HourlyRoot`: those four are one composition, in
which a match's verdict cuts bonds and a quorum is counted in them. `MatchDuty` composes the nodes with the contract's match
seen as one record, because its questions are about what nodes have heard and lost. The other modules share no state
with one another (they meet through the chain and through gossip, which each has as its environment), so `MCMesh`,
`MCNode` and `MCContracts` hold several of them side by side: `Init` picks a `part`, and each behaviour is one of one part. That
asks every property without a product of unrelated states.

## Inventory

State, operations, and what makes each part correct. "Hard" names what a unit test
would hardly reach.

### Contracts

* **NodeStake** keeps, per node key, the operator, a delegate, the amount, the
  time of the bond's first and last stake and, while it is leaving, the time it may
  go; `totalActive`; the adjudicators; the terms. Operators `bond`, `stake`,
  `transferOperator`, `setDelegate`, `unstake`, `withdraw`; adjudicators `slash`; the admin
  `setAdjudicator`, `setParams`. Hard: slashes before and after `unstake`, terms that
  change under a bond, re-bonding after a withdrawal, a token that fails.
  Correct when the sums are exact, nobody leaves before a whole term, and new stake
  is never eligible at once. *Modelled and proved.*
* **MatchBook** keeps each match's status, panel, tallies, deadlines, votes and
  snapshotted weights, and the pool of keys that volunteer to judge disputes. `commit`,
  `settle`, `attest`, `finalize`, `escalate`, `resolve`, `expire`, `enroll`, `withdraw`,
  `prune`, `setParams`, `setMaxPool`. It reads and slashes NodeStake. Hard: seven entry
  points anyone may call late or early, deadlines, bonds and operators that change while a
  match is open, ties and lone voters. Correct when a final result was
  earned, only the outvoted are slashed, judges are strangers to the match, every match
  ends. *Modelled and proved.*
* **EpochAnchor**: the hour's Merkle root, finalized by a stake-weighted quorum of
  `propose` calls. Hard: support counted at different times than `totalActive`. Correct when an anchor
  stands for ever and means what it says about the stake behind it. *Modelled and proved.*
* **GasRefund**: pays a final match's gas once, to four keys, through calls into
  foreign code, under daily caps. Hard: re-entrance and partial payment. Correct when no key gets more than
  a day's cap whatever payees do in the middle. *Modelled and proved.*
* **TitleRegistry**, **ReleaseRegistry**: builds that activate after a delay and
  can be revoked; a title is an ERC-721. Hard: approvals and scheduled builds across a transfer.
  Correct when an approval ends with the holder who gave it and a revoked build never returns. *Titles modelled and proved, releases modelled with the updater.*
* **PlayerProfile**: a soulbound profile per wallet with bound player keys. Correct when a key
  belongs to one profile for good. *Modelled and proved.*
* **NodeDirectory**: addresses announced by bonded keys in an append-only list.
* **NodeBadge**: a soulbound badge per bonded key.
* **ERC6699Registry**: characters with a controller, equipment and a progress nonce.
  Hard: ownership that moves under equipment and controllers, and stats written from an old read. Correct
  when no result is lost. *Modelled and proved.*
* **Ed25519**: signature verification; pure field arithmetic.

### The node (`node/`)

* **Match driver** (`matchbook.js`): for every match it hosts or sits on, a *duty*
  with a status and clocks, driven by events read from receipts and a log scan; it
  commits, settles (after a custody hold), attests, finalizes, feeds escalations,
  resolves, expires, claims refunds, proposes roots, all through one serialised queue of
  transactions; duties and events are persisted. Hard: events out of order, restarts,
  transactions lost after they were marked sent, the host racing its own seats. Correct when
  a seat named after a held settle has the ledger, no duty is forgotten, the hold never costs the match its window, the match ends. *Modelled (`MatchDuty`, `HourlyRoot`,
  `SendQueue`), safety proved.*
* **Settlement** (`settle.js`): intake of a submission (bind, replay, sign, store),
  co-signatures and disputes, pruning, the hour's freeze. Hard: two intakes of one
  match across awaits, late co-signatures. Correct when counts are signatures over that very result and a frozen
  hour stands. *Modelled and proved.*
* **Gossip, queue and placement** (`litnode.js`, `protocol/pairing.js`,
  `protocol/placement.js`, `protocol/snapshot.js`, `protocol/beacon.js`): heartbeats and
  a bounded peer table, the players' queue in buckets, pairs and draws computed by every node on its own
  and reconciled (the earliest placement wins unless one is on chain), the host's commit. Hard: every
  node computes from what it has heard so far. Correct when nobody pays for two commits of one player, a commit
  stands as long as the book keeps anything, and strangers cannot push bonded keys out. *Modelled (`Placement`, `PeerTable`) and proved, the first of the three while gossip is on time.*
* **Node chat** (`litnode.js`, `protocol/chat.js`): a bounded ring with tiers and rates. Hard: merges that overlap. *Modelled and proved.*
* **Gauntlets** and **publisher services** (`gauntlet.js`, `publisher-services.js`):
  child processes with ports, tickets, restarts and time limits. Hard: a stop in the middle
  of a start, exits of earlier processes. *Modelled (one service without its ports), safety proved.* `services.js`, the tables of
  ratings, credits and statistics of settled matches, is not.
* **Updater** (`update.js`): download, check against the ReleaseRegistry, copy, roll back. Hard: the process ends between two
  copies or in the middle of one; two applies. *Modelled and proved.*
* **Chain access** (`chain.js`): several endpoints, rate limits, fallbacks. Hard: an endpoint that is behind answers for blocks
  it has not seen. *Modelled, complete scans proved.*
* **Proxy wallets** (`proxy.js`): one wallet per AIR user, funded by one sponsor. `session` mints a profile and binds the
  browser's key, `revoke` unbinds one, `publish` claims, builds and transfers a title, `bond` bonds this node. Hard: two tabs, answers and
  receipts that do not come, accounts that meet on one key. Correct when nobody pays for a call that reverts, but for those, and the node can always sign for
  the profiles it made. *Modelled and proved.*
* **Verifier and sandbox** (`verifier.js`): re-runs of attested results in child processes, one at a time under a daily budget. Hard:
  checks that overlap before the line, trust and budget that change while they wait. Correct when the budget counts every run. *Modelled; the budget and the line proved.*
* Terminal interface, tunnels, DNS, UPnP, bundles, secrets: I/O around the above.

### Pure protocol (`protocol/`)

The result log and its hash chain, the epoch's Merkle tree, derived tables, statistics,
rewards, progression, ABI codecs, keys. Hard: independence of order, sums and shares,
inclusion exactly for members.

### Around the network

`sdk/` (a publisher's client, court, host loop and bridge; the court's settling *is modelled and proved*: hard are
overlapping calls that share one remembered node while answers are lost), `cabinet/` (the player's
page; `cabinet/protocol` is a copy of `protocol/`), `rulesets/` and `titles/` (game
simulations: data to this system), `tools/` (one-shot scripts), `demo/` (tests).

### How they interact

A page posts a queue entry to a node; nodes gossip entries and heartbeats; each pairs and draws; the
drawn host commits to MatchBook and starts a gauntlet; the page plays and posts the result; the host settles on
chain; the panel fetches the ledger, replays, attests; anyone finalizes. A dissent
names a future block, whose hash seeds a draw of nine seats from the pool; they attest; `resolve` slashes through NodeStake.
Every hour nodes propose the root of the final matches to EpochAnchor. GasRefund reads MatchBook and NodeStake.
Nodes read TitleRegistry before loading a build and ReleaseRegistry before updating.

## NodeStake

A transaction is atomic, so it is one action; a reverting check is a conjunct of
its guard. `node`, `totalActive`, `adjudicators`, `terms` are the contract's storage; `wallet`,
`vault` and `tokenUp` stand for the ERC-20 it pulls from and pays with; `now` is
`block.timestamp`. Signatures are abstracted to `Signed`: which key signed
`bondMessage` for which wallet. `SlashAll` cuts several keys in one transaction, as
MatchBook does; `Slash` is one call.

Bounds: `LastMove` stops operators and admins (not withdrawals, slashes or the clock) and
`MaxTime` stops the clock, so a run has room to finish what was begun. Calls take
their arguments from the constants `Amounts`, `SlashRates`, `Takers` and so on.

Fairness: time passes, a failing token is eventually repaired (weak), and an operator that may
withdraw does so eventually (strong, because the token may fail again and again in between). Nothing else is assumed to happen.

Four blocks after deployment are enough for bond, unstake, wait, withdraw, re-bond and unstake again;
amounts 1 and 2 with rates of 50% and 100% give cuts that round to zero, halve and empty a bond.
`setDelegate` and `setAdjudicator`, which the ledger's sums do not depend on, are taken in the anchor part of `contracts`.

## MatchBook

`MatchBook` EXTENDS `NodeStake`: a match reads bonds, and `Resolve` is one
transaction that cuts them (`Sentence` calls `SlashAll` as the adjudicator `Book`). Hashes are abstract values; the
draw, pseudo-random in the code, is a choice among all the panels a seed
could seat (`Draws`). That a ledger is posted is the choice to take `Escalate`. `height` and
`SeedDepth` stand for `block.number` and the 256 blocks for which `blockhash` answers.

`MatchOutcome` says what all this is for: one claim, one vote a key, one verdict that
stands and needs a vote for the claim to be final. `OutcomeSpec` is the refinement.

Two specifications: `BookSpec`, where calls come at any time or never, for safety; and
`PromptSpec`, where no block passes while a `finalize` or an `expire` is due, with fairness of
those two and of blocks. Both calls are open to everyone, and every node's driver makes them
for its own duties (`node/matchbook.js:671-712`) with one exception: it resolves an escalated match but never expires one
whose `resolve` keeps reverting, so there the assumption is about somebody outside. The driver waits a margin and a stagger after each window; "no block passes" is the
limit of that margin going to zero, and the slack `prompt` finds has to be widened by it. Nothing is assumed of settling, attesting,
posting a ledger or resolving, which may revert or never come.

The instances use panels of three, as the code does, and one to three seats for
`ESCALATION_PANEL` (9 in the code). `verdict` and `shift` have three seats with unequal weights: ties, lone
voters beside silent ones, minorities by count that are majorities by weight, and (in `verdict`) too few operators; `shift` has three answers, so a vote
can also split three ways. `prompt` and `outlast`, about time, have one. Times are scaled to units.

## EpochAnchor

`EpochAnchor` EXTENDS `NodeStake`, whose steps go on underneath (`AnchorNext`). `Propose` is the whole
transaction: the checks of `propose`, the support added, and the anchor when the quorum is reached. `Needed` is the
contract's ceiling division. A root is an abstract value. `Hour` is 3600 seconds in the code.

An anchor's meaning depends on when things are read: support adds each bond as it is when its key proposes,
`totalActive` is read at the last proposal. So the quorum is checked on both sides of that condition: with bonds that
only grow (`AnchorHeldByQuorum`, run `contracts`) and with bonds that may leave (`MCContractsBeside.cfg`, where TLC finds it violated).
`ProposersStay` is that condition on its own, and what the contract does not see to: a key that has proposed neither loses any of its bond nor begins to leave.

## HourlyRoot

Every node runs `propose(hour)` of `node/matchbook.js` for the last three hours of each poll, over what it holds.
`log` is `decoded` (on disk), `blockTs` and `proposedHours` are the maps of the same names (in memory),
`statsKnown` the stats file. `draft` is `propose()` between the root it has computed and its transaction. A root is the
pair of sets it commits to, so two roots are equal exactly when they commit to the same matches; `Results` is `chainEpoch`, `Finals` and
`StatsMissing` are `chainStats`. A poll is three kinds of step, `StampBlocks`, `Consider` for each hour
and `Send`, between which events arrive, other nodes propose and the node may restart. Whether the
match drew its stats from the host, a custodian or a seat is not distinguished: they are served, or not yet.

What the chain and the network do is `Decide` (a Finalized event), `Absorb` (it reaches a node, in any order) and `Clock`. The
one assumption on timing is in `Clock`: the events of an hour reach a node that is not `Flaky` before the hour freezes, which
is what the fifteen minutes of grace are for. A flaky node's log may lag for ever, its timestamp calls and its
sends may fail (`FailLimit` failures in a run); the stats of a match may be late for any node. So two statements about what is sent:
`HoldersAgree` where no call fails, and `ReadersAgree` of any node whose timestamps cover what its log holds (proved, and in no configuration).

Fairness: each node's poll repeats (`node/litnode.js` calls it on a timer), events arrive and time passes.
`FailLimit` is what says that calls do not fail for ever. Two hours fit into `MaxTime`, and no decision comes after `LastMove`, so the second hour also freezes.
Three nodes of equal bonds and a quorum of 60% make two nodes enough and one node a minority; 100% makes each necessary.

## MatchDuty

One match, its host and the seats of its first panel. `chain`, `log` and `pool` are the contract's view of the
match, the events it emitted and the transactions not yet mined; everything else is on the nodes: `heard` is the event file of
`absorb()`, `duty` and `saved` the duty in memory and in the duty file, `tried` and `attested` the two sets of steps a node
does not repeat, `held` the ledger copies, `custody` the host's held settle. Clocks are the age of the present window: 0
it runs, 1 its margin is reached, 2 it has lapsed. `Drive` is the ladder of `drive()`. `PlayedOut` is `settle()`: it holds the settle for
`need` receipts, or sends it at once (`SettleAtOnce`) if no seat takes custody or no time is left, and then names the host and the whole panel as
custodians, whatever they hold. So `NamedCustodiansHold` is about settles that were held, and `EveryNamedSeatHolds`, which the comment at `matchbook.js:279-280`
says, is violated (`MatchDutyBeside`). `SettleHeld` and `SendReceipt` are the
custody hold, `Witness` one seat's answer, `Restart` the replay of the event file under the duty file, of which one
event may have reached only the first. `Sends` is the estimate every step goes through: a call the contract would refuse sends nothing.

The contract's match is one record here and not `MatchBook`: the questions are about what nodes have
heard, tried and lost, and `Executes` lists, per call, the outcomes `MatchBook` allows.

## Settlement, Placement, PeerTable, Chat

`Settlement` is one node's `node/settle.js` for one match. A delta is an object of its submission (`delta[s]`), because a signature verified
across an await is written to the object it was read from, even when `current` is another by then. `Receive`, `Replayed` and
`Finish` are the three turns of an intake between its awaits, `Open` and `Accept` those of a witness's letter, `Freeze`
the hour's snapshot, `RestartNode` the read of the disk.

`Placement` is the queue and the placements of several nodes (`node/litnode.js` `matchesNow`, `absorbMatch`, `commitIfHost`). A `matchesNow()` is several
steps of one node: `Sweep` drops what is too old, placements (committed ones too) past `MatchTtl` and entries past `QueueTtl`, and each `Compute` (enabled when the book is swept)
adds one pair of a closed bucket. `Post` puts an entry on the nodes it reaches, `Tell` delivers a placement, which a node refuses if its own book would drop it. The host of a placement,
computed or adopted, waits `CommitWait` (`COMMIT_SETTLE_MS`), and its one timer calls `commitIfHost` again: `CommitPlaced` finds the match on chain already
or sends, and what then comes is `CommitAnswered`: the hash, a failure (fewer than three seats, a refused or lost transaction), or a commit that is on chain
and whose hash was lost (`unheard`), which the node takes for a failure. The code keeps a failed commit from being tried again for 60 s; nothing calls it again later, the timer being spent,
so here a failure is final. The clock counts buckets;
a placement is delivered within the bucket it was made in, except in `MaxLost` of them, which is the
timing `OneCommitPerPlayer` rests on. It rests on one thing more, `RivalsOfRivals`, about the ids ever computed (`made`): two placements
that share a player with a third in neighbouring buckets share one with each other. With four players they need not: `absorbMatch` looks for one rival with
`.find` and drops that one, the second stays, and both are committed. It is what `two_rivals` shows in one book, carried to the chain.
`CommittedStands` says how long a commit stands in its host's book: until it is older than the book keeps anything, if the host had its hash (`UnheardStands`, without that, is violated).

`PeerTable` is the forwarding table, the counted heartbeats, the standings read from the chain and the keys thrown out. A heartbeat
is checked across an await: `Hear`, `Check` and `Learn` are its turns, and what the first read may have changed when the last writes.

`Chat` is the operators' ring of `mergeChat`: a line is opened (`OpenLine`), verified across an await, and held
(`HoldLine`) if the ring still has room for it.

## CourtClient

A publisher's court settles through `sdk/court/index.js`. `settler` is the map of remembered settlers (one discovery
key), `settle[c]` the local variables of one call, `took` what the nodes hold. One turn of `settle()` or `postTo()` up
to its next await is one action: `Recall` or `Find` chooses the node, `Health`, `AskDelta`, `PostAnswered`, `PostRefused`,
`PostNoRole` and `PostLost` are the answers. A `Steady` node answers; any other may lose a request, or the answer to one it
has acted on, drop its role or leave the directory, at any time. What a node's intake does with a posted ledger is one
step here and `Settlement`'s matter there.

## SendQueue, ProxyWallets, RpcPool

`SendQueue`: the driver's sends wait for one another and share the nonce `cached`; the announcer and the sponsor (`Others`) read
the pending nonce and send later. A send fails before it reaches the pool, or reaches it and loses its answer.

`ProxyWallets`: `job[u][t]` is the request of page `t` of account `u`: it waits for `HasLock` (the promise chain of `withLock`), `Look` reads the chain and the wallet
file and makes the `plan` of calls the request will send (`SignIn` of `session`, with bind-air where the profile is there and its AIR key is not bound; `Plans` of `revoke`, `publish`, `bond`), and
each call is sent by `Send` and ends its wait in `Mine`, or by `GivesUp`. `owner`, `bound`, `built` and `inPool` are the chain. A call the chain would refuse now fails at its
estimate; a call that is sent may lose the answer to its send or outlast the wait for its receipt, and be mined all the same: the account is then in
`abandoned`. Accounts and pages share browser keys, titles and this node's key, which nothing keeps apart: no proof of a browser key is asked, and the lock is per account. So `NobodyPaysTwice`
has two exceptions, and each one happens in the instance. The AIR key of an account is no page's browser key; a transferred title
goes to a wallet outside (`Away`).

`RpcPool`: `pool[e]` is what the node keeps about an endpoint (bench, pause, head), `height[e]` what the endpoint really
has. The order a round tries its endpoints in is a
place for each (`Usable`, `NextOf`). `HeadAnswer`, `ReadAnswer`, `Limit` and `Fail` are the answers of one `call()`; `ScanBegin`, `ScanHead` and `ScanLogs` the reads
of `matchbook.js`'s scan, which move `cursor`.

## Gauntlet, Services, Updater, Verifier

`Gauntlet`: a run is one call of `start()`; `at` is the await it is in, `proc` its process, `active` and `rooms` the maps of
the same names. A process is dead from its end until its exit event is handled.

`Services`: `svc` is the supervisor of one service, `proc[p]` a process and the launch that waits for it. `Relaunch` is the backoff
timer, `Watch` the comparison of the public address, `Exited` the exit handler with the listeners a restart left on it.

`Updater`: an install is its items, each the release it comes from; a release may drop items of the one before and add others, and `PutBack`
are the items a rollback goes through. `ApplyAsked`, `ApplyGated`, `ApplyDone` are the turns of
`apply()`; copying is one turn of the process, and `ApplyCut` and `RollbackCut` are its end after some of the items, with the next one gone or a `Fragment` (half removed or
half copied: it exists, and no release is like it), in the install or in `.previous`, or with the old `.previous` half removed (`HalfRemoved`). `whole` remembers whether `.previous` was written to its end, which
`rollback()` does not ask: it looks for `.previous/node`. So `RollbackUndoes` and `NewestSetStays` say what a rollback does from a whole copy, or from one with a set; without that
(`RollbackRestores`, `SetOnlyRises`) they are violated. `EndLeavesAWhole` needs no such condition: while `.previous` is in pieces the install is untouched.
`RegistryMoves` is `ReleaseRegistry` as the updater reads it. `Heals` says that a rollback would bring back a whole release, `Sound` that the install
is whole and a rollback, if there is one, heals.

`Verifier`: `check[c]` is the await a `check()` is in, `line` the promise chain of runs, `budget` and `saved` the units used
in memory and in `budget.json`, `barred` the map of refused bundles. A run takes up to `Deadline` units and charges them when it ends, to the
day it ends on. `RestartWitness` keeps the files and begins the unfinished checks anew.

## The remaining contracts

A call is one action and a revert changes nothing. `TitleRegistry`: titles, approvals, builds that wait and can
be revoked. `PlayerProfile`: profiles, device keys, their list. `CharacterRegistry` (`ERC6699Registry.sol`): `ReadStats` and
`Progress` are the two halves of what a progressor does, apart because others act in between. `GasRefund`: a claim is the one
call that is not atomic for its caller, because a payee may be a contract: `calls` is the stack of claims under way,
`PaySeat` hands control to the payee, and before `Accepted` returns it the payee's code may deposit, or, if it is an administrator's, withdraw, pause or change the cap; a second claim the `guarded` modifier refuses (`Entered`).

## What the runs show

| Run | Module and configuration | Shows |
|---|---|---|
| `bond_ledger` | `MCNodeStake` | from the empty contract, two keys and two operators, terms the admin swaps, slashes and a token that fails: `TypeOK`, `Solvent`, `TotalActiveIsSum`, `PaidOnlyAfterTerm`, and that `UnbondingEnds` |
| `verdict` | `MCMatchBook`, `MCVerdict` | every history of one match over nine keys, the host's operator and one seat's operator running two keys each, under `BookSpec`: `BookTypeOK`, `FinalIsEarned`, `SeatsAreIndependent`, `OutcomeSpec` |
| `prompt` | `MCMatchBook`, `MCPrompt` | under `PromptSpec` a match ends and is over by `totalWindow()` and three blocks, and an unbonding period of `totalWindow()` and four blocks outlasts every slash even of a witness that unstakes at once: `EachMatchEnds`, `DecidedInTime`, `SlashHasABond` (with one block less the third fails) |
| `shift` | `MCMatchBook`, `MCShift` | three seats, one of which outweighs the other two, and three answers; windows shortened, a seat's bond topped up, handed over or withdrawn during the match: `SlashOnlyOutvoted` |
| `hourly_true` | `MCHourly`, `MCHourlyTrue` | two matches, two hours, one flaky node that also restarts: `AnchoredIsTrue` |
| `hourly_live` | `MCHourly`, `MCHourlyLive` | one match, two hours, every bond needed, stats that may be late: `HoldersAgree`, `EveryHourAnchors` |
| `duty` | `MatchDuty` | a host and two seats, one fault (a lost transaction, a failed send, a restart or an event out of order), settles held or at once: `NamedCustodiansHold` (of held ones), `DutySurvives`, `HeldSettleBeatsExpiry` (without a fault), and that the match ends, `MatchIsCarried` |
| `mesh` | `MCMesh` | `CountsOnlyItsWitnesses`, `OfficialIsEarned`, `FrozenStands` of `Settlement`; `OneCommitPerPlayer`, `CommittedStands` of `Placement`; `BondedKeepTheirPlace` of `PeerTable`; `NewestLinesStay` of `Chat`; `GoodNodeIsFound` of `CourtClient` |
| `node` | `MCNode` | `NoGap` of `SendQueue`; `NobodyPaysTwice` of `ProxyWallets`; `ScanComplete` of `RpcPool`; `PortsComeBack` of `Gauntlet`; `NothingAfterStop` of `Services`; `EndLeavesAWhole` of `Updater`; `TheDaysBudgetStands` of `Verifier` |
| `contracts` | `MCContracts` | `CapHolds` of `GasRefund`; `ApprovalIsPresent` of `TitleRegistry`; `KeysListedOnce` of `PlayerProfile`; `NoResultLost` of `CharacterRegistry`; `AnchorHeldByQuorum` of `EpochAnchor`, while bonds only grow |
| `outlast` (violated) | `MCMatchBook`, `MCOutlast` | `SlashHasABond` when calls may come late |
| `two_rivals` (violated) | `MCMesh`, `MCRivals` | `OneSeatPerPlayer` on a node's own book |

Beside these runs stand configurations of the same modules. The `More` ones pass:

* `MCMeshMore`: `MeshTypeOK`, `SentIsSigned`, `BurstBounded`, `HeartbeatsAdvance`, `StandingOutlastsAFailedRead`;
* `MCNodeMore`: `NodeTypeOK`, `RoomsFollowActive`, `RefusedByOthersOnly`, `CustodyStays`, `OneRunAtATime`, `RollbackUndoes`, `NewestSetStays`;
* `MCContractsMore`: `ContractsTypeOK`, `SupportIsBonded`, `BalancesCount`, `KeyStaysWithItsProfile`, `AnchorStands`, `RevokedForGood`.

## Where the code and its words differ

* `outlast`: MatchBook's header and `totalWindow()` say an unbonding period above
  `totalWindow()` outlasts every slash. `finalize` and `resolve` have no upper time limit and later windows
  count from when they are called, so a late call lets a condemned witness withdraw first.
* `two_rivals`: "one placement per pair stands on every node". `absorbMatch` looks for one rival with `.find` and deletes that one; a
  placement may have two, and the second stays in the book.

To the following properties, which the code or its documents promise and the `Beside` configurations state, TLC also finds
counterexamples (it stops at the first; take the others out to see the next):

* `MCVerdictBeside`: `MajorityOfSnapshot`: `resolve` is documented as the strict majority of the snapshotted weights and is the
  majority of the weight that voted. `SeatsAvoidTheHost`: the draw is documented to exclude every key of the host's operator
  and excludes the operator recorded at commit, which `transferOperator` may have replaced.
* `MCContractsBeside`: `AnchorHeldByQuorum` once bonds may leave: the stake of a key that proposed and left counts in the support and no longer in the total.
* `MCHourlyBeside`: `HoldersAgree` when a timestamp call may fail: an event whose block has not been stamped is left out without a word, and the root is sent.
  `EveryHourProposed`: the settler marks an hour before it sends and never unmarks it.
* `MatchDutyBeside`: `EveryNamedSeatHolds`: "the custodians on chain are the host and the seats that said they hold it - no longer every seat" (`matchbook.js:279-280`); a settle that is not held
  names every seat (`:272`).
* `MCMeshBeside`: `ServedIsOnChain` (a second intake overwrites the ledger whose hash went to the chain), `UnheardStands` ("once committed, a placement is never replaced"
  (`litnode.js:1282-1283`); one whose commit is on chain and whose answer was lost is replaced), `TableHasACeiling` (bonded keys have
  none), `EvictedStaysOut`, `SameFloodRefused` (two nodes that heard the same flood in different orders keep different lines), `SettledOnce`
  (a node that settled and lost its answer is passed over for another, which settles the match too).
* `MCNodeBeside`: `DirectCapped` (two direct starts pass the cap across an await), `PausedIsLeftAlone` (an endpoint that asked for a pause is
  asked again), `OneOverrun` (the day's budget is read before the wait in the line: every run already in it goes over), `RevokedStopsAtOnce`
  (so is trust), `BrokenStaysBarred` (a check that was past the refusal writes one for a minute over the one for good),
  `RollbackRestores` and `SetOnlyRises` (a rollback from a `.previous` that was cut short puts fragments over an install that was whole, and may leave it without its contract set).

## Bounds, and why they are enough

* `mesh`: two submissions and two witnesses make every overlap of two intakes and of a letter with either; one restart and one
  letter in verification, because a third party adds no new pair. Two nodes, three players, posts in two of six buckets and one late bucket give
  neighbouring pairings that share a player; a book keeps a placement for two buckets, long enough for a rival from every neighbouring bucket and short enough to see it leave. Three keys over a table for two, of which one unbonded, one full epoch to be forgotten in. A ring
  of three, a burst of two. Three nodes for a court with two fallbacks, of which only the last in order is steady, and two
  overlapping calls for one match: the exact number of failures the fallbacks cover. One retry of a request stands for three.
* `node`: two matches on two ports and two starts; three processes and one move of the address, enough for a process that outlives
  its successor's launch; two releases of three items each out of four, one dropped and one added, and one cut, anywhere; five nonces, three sends, two other senders; two accounts with
  two pages each, one browser key, one title and this node's key between them, two wallets and three requests: two pages of one account beside another account, or one page whose second
  request meets the first's late transaction; two endpoints, two tries. Three checks, two of a good bundle and one of a broken one, a budget of two
  units and runs of up to two, two days, one change of the registry: a run over midnight and a restart in every place.
* `contracts`: three node keys and two roots in one hour; two matches that share a seat, two payees with code; two titles and two people; two
  owners and three device keys; one character, two progressors and two results.
* `duty`: a host, two seats, one receipt needed or none, both answers needed, one retry of a failed settle (three in the code), logs up to two events behind, one fault.
* The bounds of the contracts' and the hour's own runs are in their sections above.

What happens once in these instances happens in any order with everything else; what the theorems below cover does not depend on the bounds at all.

## Fairness

* `NodeStake.Fairness`: time passes, a failing token is repaired (weak), an owner that may withdraw does so eventually (strong: the token may fail again in between).
* `PromptSpec`: somebody calls `finalize` and `expire` when they are due; every node's driver does so for its own duties.
* `HourlySpec`: polls repeat on a timer (`node/litnode.js`), events arrive, time passes.
* `DutyFairness`: the pool is mined, windows run out, each node absorbs the next event and drives its ladder, the host looks at its held settle.
  Nothing forces a seat to fetch, to receipt or to answer, and one fault may take away any one of the rest.
* `GauntletFairness`: promises settle, the time limit fires, and a killed process ends and its exit is handled. No process has to listen.
* `ServicesFairness` says the same of services; only safety is checked there. All other specifications have none.

## What is proved

All theorems are for every value of the constants that satisfies the `ASSUME` of the module. Every invariant and action property of the passing runs
is the conclusion of one, and so is every one of the `More` configurations but the type invariants of the modules they compose.

* **`NodeStakeProofs`.** `TypeCorrect`, `AlwaysSolvent`, `TotalActiveCorrect`, `PaidOnTime`, `FreshStakeWaits`. None of the invariants is inductive alone: `TypeOK` needs the sums,
  since `totalActive` stays a natural number only because it is the sum of which a slashed bond is a part. The payment
  property needs `TermServed` (the moment a key becomes unbonding its `unbondAt` lies a whole lock and unbonding period of one of the terms in force after its
  first stake, whatever the terms become later) and `FreshBond` (no lock runs for a key without stake, or a re-bonded key could leave on an old
  lock). `BondInv` conjoins the five; `BondInvariant` proves it, with one lemma per kind of step, which the modules above cite.
* **`EpochAnchorProofs`.** `AnchorTypeCorrect`, `AnchorImmutable`, `SupportIsBacked`, `RootsAreHeld`. The first two rest on `AnchorTypeOK` with `BondInv`: a positive support needs that
  a quorum of some stake is never nothing (`QuorumPositive`). The last two assume `[][ProposersStay]_allVars` (`MCContractsBeside` is TLC's counterexample to the second without it): `BackedInv` counts
  the support of a root by the bonds of its proposers at present, and a root once anchored keeps its quorum of a total that only grows by what is counted in it.
* **`HourlyProofs`.** `MinorityNeverFinalizes`: under `FlakyMinority` (the nodes whose calls fail or whose logs lag hold
  less than the quorum) every anchored hour carries what was decided. `HourlyInv` follows a root from the blocks a node has read through its draft and its proposal to the
  stake counted behind it; the last step is arithmetic on the quorum. `ReadersFoldTheSame`: any node that holds an hour and has read the blocks of its log drafts the true root;
  `HoldersFoldTheSame`: where no call fails, every holder does.
* **`MatchBookProofs`.** `BookTypeCorrect`, `FinalsAreEarned`, `SolventUnderPlay`, `SeatsIndependent`, `OnlyTheOutvotedPay`, and the refinement `BookImplementsOutcome`. `BookInv`
  is `BondInv`, the types, and per match that nothing is claimed or voted before the settle, that the tallies count the panel's votes, and that a final result was earned.
  Two are about time, under `PromptSpec` (time does not pass a due call by more than a block of at most `D`) and `WindowsStand` (the admin does not move the windows while matches are open; `shift` is about the case where it does).
  `MatchesEndInTime`: a match is over by `totalWindow()` and three blocks; `OnTime` bounds the age of a match in every status by the windows it may have spent.
  `SlashesBite`: whoever a closed vote condemns still has stake to lose, if every terms ever in force have a positive `minStake` and an `unbondingPeriod` above the longest life of a
  match (`Long`), and if no rate takes a whole bond or there is one match. With the values of `contracts/deploy.testnet.json` the
  windows add up to 3300 s and the unbonding period is 3600 s, which leaves 100 s for each of the three blocks; the rates are 10% and 5%, the minimum bond is positive. (The file's note adds two escalation windows where
  `totalWindow()` adds three, and says 2640 s.)
  Each hypothesis is needed: a bond of nothing has nothing to slash, and with a rate of 100% the verdict of one match empties the bond the next would cut.
* **`DutyProofs`.** `CustodiansHold`, `DutiesSurvive`, `HoldBeatsExpiry`, `RoomsAreKept`. The first goes from the receipt to the name on chain, for a settle that was held; the second says that the event file and the
  duty file together never lose a match whose Committed was read; the third describes every state reachable without a fault (`HoldInv`). The last is about the match servers of `Gauntlet`:
  whatever stops, failed starts and late exits overtake, a room leads to the run that is kept.
* **`ContractProofs`.** `ApprovalsArePresent`, `BalancesAreCounts`, `RevocationsStand`, `KeysAreListedOnce`, `KeysStay`, `NoResultIsLost`, `CapIsKept`. The last
  needs that no claim runs inside a claim, and carries that what is paid and what the running claim still owes are never above the day's highest cap, although an administrator's code moves the cap in between.
* **`MeshProofs`.** `EveryCountIsSigned`, `NothingUnsignedIsSent`, `StandingsAreEarned`, `HoursStayFrozen` of `Settlement`; `CommitsStand` (until the book drops the placement for its age), `OneCommitEach` of `Placement`; `BondedStay`,
  `PeersNeverGoBack`, `FailedReadsTakeNothing` of `PeerTable`; `NewestStay`, `NobodyFloods` of `Chat`; `AGoodNodeIsFound` of `CourtClient`. The last one's `CourtInv` is that a call's excluded nodes are unsteady, all
  different, and as many as its attempts, although other calls change the settler it shares with them. `OneCommitEach` carries `AgreeInv`: what one node has told another, the other holds or has given up for an earlier rival,
  and what is old enough to commit stands in every book; so two commits that share a player would stand beside each other in one book. It says so while no placement is late and `RivalsOfRivals`.
  `NobodyFloods` rests on the two windows around a stamp covering each window the stamp lies in (`OneMoreWithinRate`).
* **`NodeProofs`.** `NonceIsNeverSkipped`, `OneRefusalEach` of `SendQueue`: a nonce the driver holds that the pool would refuse has a transaction of somebody else to its account (`RefusalInv`), for what is free stays
  free until somebody sends it, and a nonce without a gap below it is not taken above. `NobodyPaysForARevert` and `CustodyIsKept` of `ProxyWallets`: an account has one wallet and no wallet two accounts, no two requests of an account are past the lock at once, and every call in the pool that is awaited
  is still allowed, or what it asks for was taken by another account, as long as nothing of the account was left unanswered; `StoppedStaysStopped` of `Services`.
  `BudgetSurvives` of `Verifier` assumes that the disk takes what is written: its `BudgetInv` relates the charges of today to the memory and to the file, each of which may still speak of yesterday; `RunsGoOneByOne`.
  `AnEndLeavesAWhole`, `RollbacksUndo`, `ContractsNeverGoBack` of `Updater`: the invariant is `BringsBack`, a rollback from a copy that was written to its end restores what the last copying found, item by item, for any releases, whatever was cut since; the third holds where the rollback has a set to put back.
  `ScansAreComplete` of `RpcPool` follows the head an endpoint has shown to the range it is asked for.

What the assumptions say beyond finiteness and types: `NodeStakeAssumption` starts from a deployment whose balance and `totalActive` match its bonds with nobody leaving and
from a clock past `MAX_TERM` (unix time is), which is what makes 0 usable as "never staked".

Only model-checked: liveness (`UnbondingEnds`, `EachMatchEnds`, `EveryHourAnchors`, `MatchIsCarried`, `PortsComeBack`), which is
out of the prover's reach; and the type invariants `MeshTypeOK`, `NodeTypeOK`, `ContractsTypeOK` of the components, of which the proofs carry what they need. What the `Beside` and the two violated runs
state does not hold.

## Not modelled

* **What no state machine describes**: signatures and hashes beyond equality (`Ed25519.sol`, `protocol/keys.js`, `keccak.js`), canonical JSON and ABI codecs, Merkle hashing, the
  computation of a ruleset or a verifier, the permission flags and memory limits of their child processes, archives and tunnels, terminal and browser interfaces.
* **Games**: `rulesets/` and `titles/` are simulations the network treats as data. They are the largest files of the repository, with the routes of `litnode.js`,
  `cabinet/app.js` and the vendored copies next; so the share of all lines that the modules stand for is small, while the state changes of the parts named above are covered.
* **Small and left out**: `NodeDirectory` and `NodeBadge` (one record per key under one guard over `NodeStake`; what one could ask is what a hand-over leaves behind),
  `TestLITVM`, guardian statements, rewards and progression (pure folds over the finals of an hour), the SDK's host and bridge, refund claims of the driver, direct messages.
* **Abstracted inside modelled parts**: events and `version()`, gas, block reorganisations, `setParams` of MatchBook and EpochAnchor replacing the stake contract or the admin's wallet, the rounding of
  time to blocks. Integers in the contracts are checked by the compiler and far from their widths, so naturals are used.

Some limits of the design are visible in the models and worth knowing: an hour more than three hours old is never proposed; the stats root is
cumulative, so a node that lacks one old match disagrees on every later hour, and a node waits for missing stats without limit; a seat whose answer is lost stays silent.

Worth doing next: the hand-over of a key across `NodeDirectory` and `NodeBadge`, the host's submit-and-retry loop in `sdk/host`, the reward shares of an hour against a reference
definition, and `MatchBook.setParams` with a second stake contract.
