# Verification of auxo-server

auxo-server is the off-chain half of a set of Mina zkApps: distributed key
generation (committees, keys, contributions), its use (requests and responses to
decrypt an encrypted sum), and a funding platform built on top (campaigns,
projects, participations, fundings). It copies the actions that the contracts
dispatch into MongoDB, turns them into documents, keeps the Merkle trees that the
circuits need in memory, and rolls pending actions up on chain.

This directory holds TLA+ models of that server, the TLC configurations that
check them, and TLAPS proofs about them. `PROJECT.json` lists components, runs,
the source lines behind each definition, mutants, hazards and theorems.

1. [The system](#1-the-system)
2. [The modules](#2-the-modules)
3. [What the runs check](#3-what-the-runs-check)
4. [Fairness](#4-fairness)
5. [What is proved](#5-what-is-proved)
6. [What the models say about the limits of the code](#6-what-the-models-say-about-the-limits-of-the-code)
7. [What is not modelled](#7-what-is-not-modelled)
8. [Plan](#8-plan)

## 1. The system

### Processes

Three Node.js processes share one MongoDB, one Redis and one fee payer account.

| process | entry | timers | jobs |
|---|---|---|---|
| main server | `src/main.ts`, `app.module.ts` | every 120 s (`cron-tasks/main-cron-tasks.service.ts`) | `updateContractMerkleTrees`, `updateContracts`; serves the API |
| dkg worker | `src/dkg-contract-worker.ts` | every 6 min, two crons 3 min apart (`dkg-contract-cron-tasks.service.ts`) | roll-ups, in a first and a second order |
| boi worker | `src/boi-contract-worker.ts` | every 10 min | updates of the platform contracts |

Each process runs `onModuleInit` of every contract service, so each fetches
everything at start-up. Within a process the consumers
(`consumers/dkg-contract-services.consumer.ts`) do not await the chain of promises
they start: the Bull job completes at once, the guard
`active == 0 && waiting == 0` of the timers sees an empty queue, and the next job
starts while the last one still runs. Concurrency therefore exists between
processes (through MongoDB and the chain) and between jobs of one process (through
its memory too). Nothing is locked and no MongoDB transaction is used.

### The pattern of a contract service

Every service under `src/mina-contracts` does the same four things:

1. `fetch…Actions()` — read the last recorded action, ask the archive node for all
   actions, upsert those that follow by their `currentActionState`;
2. `update…Actions()` — ask a node for the contract's action state, find the
   recorded actions that are not active and not beyond it, apply each to the
   documents, and save it as `active`;
3. `updateMerkleTrees()` — rebuild the trees in memory from MongoDB;
4. `rollup…()` — find the actions that are not active, prove them one by one on
   clones of the trees, fetch the nonce and send the transaction.

`fetch()` is 1 and 2 in a loop that repeats the whole up to `MaxRetries` times when
an await throws, and then gives up silently. The query service answers `undefined`
after its own retries, which makes the caller throw.

### Components

*State* is what survives between two calls; *hard* is what tests would hardly reach;
*right* is what makes the component correct.

| component | state | operations | hard | right | modelled in |
|---|---|---|---|---|---|
| action mirror (`fetch()` of every service) | `…Action` collection | fetch, update | concurrent activations, lagging nodes, retries, stops | the collection is a prefix of the chain, the active part a prefix of the reduced one, no upsert conflicts, nothing is rewritten, it catches up | `ActionFeed`, `ActionMirror` |
| rollup contract service | counter and roll-up trees | `updateMerkleTrees`, `rollup` | overlapping jobs on the same trees; a batch combines reads made at four moments | a leaf is never wrong; an undisturbed batch succeeds; everything is eventually reduced | `RollupContract` |
| committee contract service | committees; member, setting and zkApp trees | `updateCommittees`, `updateMerkleTrees`, `rollup` | writes nobody awaits, lost when the process stops | a committee document is one of the contract under its id; none is lost; trees are at worst behind | `CommitteeContract` |
| dkg contracts service | keys, rounds' actions and events, five trees | `updateDkgActions`, `updateRound1Actions`, `updateRound2Actions`, three roll-ups | create-then-save without a transaction; ids counted in memory; contributions pushed and saved separately; head-of-line blocking | key ids match the contract's; statuses follow the actions; a contribution is counted once; every finished round is finalized | `DkgKeys` (keys), `DkgRollup` (`rollupDkg`), `DkgRounds` (rounds 1 and 2) |
| dkg usage contracts service | requests, responses, their events, trees | `updateRequestActions`, `updateResponseActions`, `rollupRequest`, `rollupResponse`, `computeResult` | pushes repeated after a stop; events that lag behind; only the first request is looked at; process counters that grow | each response counted once; every request with enough responses is resolved | `Requests`, `Responses` |
| requester contracts service | tasks, encrypted totals, trees | `updateRequesterActions`, `updateMerkleTrees`, `rollup` | totals accumulated in place, then saved, then the action saved | totals are the sum of the actions, each once | `Requester` |
| platform services (campaign, project, participation, funding, treasury manager) | one collection and trees each | fetch, update, roll-up | ids counted from the contract's present state; saves in parallel, which outlive a failed pass | documents under the contract's ids; counters equal what they count | `Platform` (fetch as `ActionFeed`; roll-ups are never called) |
| jobs (timers, queues, consumers) | Bull queue | six jobs, two orders | overlap; order depends on results | no roll-up waits for ever | overlap in the modules of the services; order not modelled |
| query service | none | GraphQL queries with retries | lagging or failing nodes | answers are prefixes of the truth | inputs of every module |
| API: auth, drafts, organizers, read-only queries | tokens are stateless; drafts, organizers | login, CRUD | check-then-upsert of drafts | a deleted draft stays deleted | — |
| ipfs, object storage | external | put, get | errors swallowed | — | inputs only |
| schemas, utilities, dtos | indexes, defaults | parsing, formatting | — | — | indexes and defaults, where used |

Components interact through the collections (the roll-up service reads what the
other contracts dispatched to it; the dkg usage service reads keys and
committees), through the contracts (a roll-up changes the state that the next
`fetch` sees), through the fee payer's nonce, and through the order the consumers
call them in.

## 2. The modules

```
ActionMirror            what the feed promises: record in order, activate in order
   ^ implemented by (PROPERTY MirrorSpec, THEOREM MirrorRefinement)
ActionFeed              the detailed fetch() of one service, any number of activations
RollupContract -------- RollupContractProofs (of both)
                        updateMerkleTrees + rollup over ActionMirror's steps
CommitteeContract ----- CommitteeContractProofs
                        updateCommittees + trees + rollup over ActionMirror's Record
DkgKeys                 updateDkgActions over a collection that ActionFeed fills
   v EXTENDS
DkgRollup ------------- DkgKeysProofs (of both)
                        the DKG trees + rollupDkg, composed with the pass of DkgKeys
DkgRounds ------------- DkgRoundsProofs
                        updateRound1/2Actions + trees + rollupRound1/2 of one committee
Requests -------------- RequestsProofs
                        fetchRequestEvents, updateRequestActions, trees, rollupRequest
Responses ------------- ResponsesProofs
                        fetchResponseEvents, updateResponseActions, trees,
                        rollupResponse, computeResult
Requester ------------- RequesterProofs
                        updateRequesterActions, updateMerkleTrees, rollup
Platform -------------- PlatformProofs
                        update() of the five platform services on their shared documents
MC*                     instances for TLC (symmetry sets, histories, sequences)
```

**Conventions.** One action is one stretch of code between two awaits; each `await`
is a label of `pc` and a point where any other step may happen. Operators have
the source's names where they have one. A document, payload or proof is reduced to
what the properties tell apart. The action state of a contract is a hash chain over
its actions, so it is injective, and the state after *i* actions is written *i*.
Collections number actions from 0 in the code (`actionId`); the models speak of
positions 1..n except where ids are the point (`ActionFeed`, key ids in `DkgKeys`).
`ActionFeed` has shown the recording of actions to be one step of the mirror: `Record` in the
modules that tell recorded actions from dispatched ones, part of `Dispatch`, `Respond` or `Reduce` in the others
(`DkgKeys`, `Requests`, `Responses`, `Platform`).
Definitions commented *Mutant* are plausible bugs that the mutants of `PROJECT.json`
put in place of the definition after them. *History* variables or fields record
what happened, only for properties.

### ActionFeed (`rollup-contract.service.ts`, `query.service.ts`, `rollup-action.schema.ts`)

Translated from `RollupContractService.fetch()`, where marking an action active has
no other effect; the other services contain the same text. Variables are the chain
(external), the collection by `currentActionState`, and for each activation its
program counter and local variables. Names that `RollupContract` has too are different here
(`FeedSpec`, `FeedTypeOK`, …), so that one module can prove what both halves of the service do.

| action | code |
|---|---|
| `DispatchAction`, `Reduce` | external: users' transactions, the contract's roll-up |
| `FindLast` | `findOne({}, {}, {sort: {actionId: -1}})` and the ids computed from it |
| `FetchActions` | the archive node's answer, a prefix of the chain, and `slice` |
| `Upsert`, `UpsertsDone` | the loop of `findOneAndUpdate(… upsert)`, with the three unique indexes of the schema |
| `FetchActionState`, `FindPending`, `SetActive`, `FetchDone` | `updateRollupActions`: contract state, list of pending actions, saves one by one |
| `Throw` | any await throws: next attempt, or `MaxRetries` reached |
| `StopFetch` | the process stops; it starts again with `onModuleInit` |

`ActionMirror` is the abstract specification: `log`, `reduced`, `mirror` (recorded
actions) and `active`, with steps `Dispatch`, `Reduce`, `Record` (the next action) and
`Activate` (the next reduced one). The refinement mapping is in `ActionFeed!Mirror`.

### RollupContract (`rollup-contract.service.ts`, the roll-up consumer)

`counterStorage` and `rollupStorage` are the trees in the dkg worker's memory; `job` has
the local variables of each overlapping job, from the tree rebuild (`FindActive`,
`NextTree`, `WriteTree`: one contract after the other, each with its own find) to the
roll-up: `FindNotActive`, `FetchState`, `Clone`, four times `Count`, `Prove` for
each pending action, `FetchNonce`, `Send`. A proof is what its circuit checks: it fits
if the witnesses of the clones lead to the roots the proof so far commits to
(`WitnessesFit`), else the code throws (`ProveFails`). The mempool holds at most one
transaction with the fee payer's next nonce; `Include` applies it if the contract accepts
it, `OtherTransaction` is any other use of the nonce. The collection moves by
`ActionMirror`'s steps, which `ActionFeed` was shown to implement.

### CommitteeContract (`committee-contract.service.ts`, committee schemas)

Each `Server` is a process with its own trees and one job at a time; only a `Roller` (the
dkg worker) rolls up. `StartWrite` starts `findOneAndUpdate(…).then(() =>
save())` for one action without waiting; `Upsert` and `Save` are the two halves, which
happen at any later time, in any order among actions, or never if the process stops
(`Crash`). The trees are rebuilt right after by `UpdateMerkleTrees`. The roll-up is
as in `RollupContract` with one count, `nextCommitteeId`. `ReduceElsewhere` lets
someone else's roll-up change the contract under a running batch.

### DkgKeys (`dkg-contracts.service.ts`, key and dkg-action schemas)

`updateDkgActions()` by any number of `Worker`s: `FetchEvents`, `Find`, `Exists` (stop at
the first action without an event), `LastKey` (the cache `nextKeyIdMapping`), `Create`
(refused by the unique index of `keyIndex`, or not), `FindKey`/`SaveKey` for the three
other kinds, and `SaveAction`. The document and the `active` flag are written by two
operations; `Interrupt` is an await that throws or a process that stops between any
two of them. `createdFor` (history) remembers which action each key was made for, which
the code does not record.

### DkgRollup (`dkg-contracts.service.ts`)

`DkgKeys` plus what `rollupDkg()` does with its documents, when the only
transactions that reduce DKG actions are the server's own. One pass or one roll-up runs
at a time. `RefreshKeys` and `RefreshProcess` rebuild the trees, `RollUp` is the roll-up contract
recording an action, `CountRolluped` … `Send` are the awaits of `rollupDkg()`.
`Witnessed` says of each step of a proof whether the leaves of the clones are those that the
circuit has reached (`Presupposed`, `StatusLeaves`, `CounterLeaf`): the clone's key counter
gets `nextKeyId`, not the number of keys, between two steps (`:362` against `:1596`), and a
DEPRECATE_KEY writes its leaf but has no step at all. `Prove` goes on if every step fits, else
`ProveFails`. `History` is what the server starts with; it has to be one that the contract admits (`Legal`: no key is named
before it was generated, and none is finalized or deprecated out of turn), as what `Dispatch` adds does.

### DkgRounds (`dkg-contracts.service.ts`)

One of the two rounds (`Round`), for the keys of one committee. `log` is what members
contributed, `events` the finalizations, each naming the actions it took; both are the
contract's. `FetchEvents`, `Find`, `Contribute` and `ContributeDone` are
`updateRound1Actions()` and `updateRound2Actions()`, which have the same text;
`Contribute` starts `key.save().then(() => notActiveAction.save())` without waiting, and
`Push` and `Save` are its two halves. (Mongoose sends `$push`, so that
concurrent pushes to a document add up.) `FindKeys`, `Count`, `FindEvents` and
`FindActions` are the parts of `updateMerkleTrees()` about this round: documents loaded first, the
count of active actions read key by key later. `FindRolled` to `Send` are
`rollupRound1()` and `rollupRound2()`, which differ in `Batch` (all pending
contributions, or the latest of each member), in `NextKeys` (go on to the next key, or
return) and in the trees. `WitnessesFit` compares the clones with the contract's
trees leaf by leaf, except for the leaf of the key itself, which the witness leaves open. How
many contributions are active in the roll-up contract and which keys have the status
of the round are read from other components: any value they can have. The contract is
not assumed to refuse a late or a repeated contribution (`Repeats`). Keys of further committees
would be in the same list of actions, and behave as further keys do here.

### Requests (`dkg-usage-contracts.service.ts`, request schemas)

`FetchEvents`, `StoreEvent`, `EventsDone` are `fetchRequestEvents()`: the batches after that of
the last document, from a node that may lag, stored one event after the other (`DuplicateEvent`
is the unique index refusing a second pass). `Find` … `SaveAction` are
`updateRequestActions()`: a new request gets the next id and is refused by the unique indexes of
`requestId` and `task` if that was counted wrongly; a resolved one gets the events
of its batch. Jobs have a `Home`: those of one process share `_actionState`, which a job
overwrites under another's pass (`FetchState`). `FindRequests` … `Send` are the trees and
`rollupRequest()`. `Dimension` has two events for the many of a result.

### Responses (`dkg-usage-contracts.service.ts`, response schemas)

Starts where a request has its members' responses as rolled-up actions. `FetchEvents` and
`StoreEvent` are `fetchResponseEvents()`, where the unique `eventId` of each collection lets a
document that is there be written again, but refuses another one under its id (`Upserts`); `FindEvents` … `SaveEvent` are
`updateResponseActions()`, where responses and sum are pushed into the request, the request is saved
while the actions are, one by one and in any order, and the event after all of them. `FindRequests`,
`FindProcessed` (with the counters that grow by `FULL_DIMENSION` at every rebuild) and `FindActive`
rebuild the trees; a counter that does not fit into a `UInt8` throws, and the leaves after it are not written
(`Written`). `Count`, `FindRequest`, `FindBatch`, `FetchState` and `Send` are `rollupResponse()`: the number of
rolled-up actions, the requests, and the actions below that number are read at three moments, between which
more may be rolled up; it returns at the first request that is not complete. The list of requests is
found without a sort, and taken to be in the order of `requestId`, in which they are created. `FindComplete` and
`Compute` are `computeResult()`.

### Requester (`requester-contract.service.ts`, task schemas)

`Find` … `SaveAction` are `updateRequesterActions()`: a new task is created under the next id; a
vote reads the total of its task, adds to it in memory, sets it, pushes the
encryption, and only then is its action saved. `FindTasks` and `FindActive` rebuild the trees,
`FindBatch` … `Send` are `rollup()`; the witnesses of a creation lead to the roots of the trees of
tasks, those of a vote to the roots of totals and commitments (`WitnessesFit`). A total or an encryption list is a count per action of
how often it is in it (0, 1, `Many`). The jobs are of several processes; only the trees of `Here` are
kept.

### Platform (the services of campaigns, projects, participations, fundings and the treasury)

Five passes of one form over shared documents. A pass goes through the services it is of
(`Serves`: an update job goes from one to the next); passes of one service share
its `nextId` and `actionState`. `Start…` begins the saves of an action: those under a
`Promise.all` become `writes` that go on if another one of them fails and the pass starts over (`Abandon`), or stop with
the process. `Write…` completes one. Ids are counted on from the number the contract has
*now* (`NextId`), not from that of the action.

## 3. What the runs check

All runs finish within about four minutes with two workers. "Deadlock" is checked in all.

| run | instance | properties | shows |
|---|---|---|---|
| `action_feed` | 2 activations, 3 actions, 2 retries | `UpsertNeverConflicts`, `MirrorSpec`, `EventuallyMirrored`, `FeedTypeOK` | stale ids and lists of interleaved, lagging and stopped activations never harm the collection; one healthy activation suffices to catch up |
| `dkg_keys_shared` | 2 workers, 2 committees, 2 actions, 2 interruptions | `KeysAreThere`, `EveryGenerateHasItsKey`, `ActiveInOrder`, `EventuallyActive` | what interleaved workers still guarantee; that they refuse each other's keys does not block them |
| `dkg_rollup` | 1 worker, 2 committees, 7 actions, 5 of them done at the start: one key is active and one in its second round; 1 interruption | `DocumentsFollowActions`, `PlainBatchProves`, `StoppedForEver` | what holds only when passes do not overlap, which batches are proved then, and which never are |
| `rollup_contract` | 2 jobs, 2 contracts, 2 actions | `TreesAreRight`, `UndisturbedSucceeds`, `TypeOK` | overlapping jobs leave trees at worst behind; an undisturbed batch succeeds |
| `rollup_contract_live` | 2 jobs, 1 contract, 2 actions | `EventuallyReduced` | overlapping jobs do not starve each other once failures end |
| `committee_contract` | 1 server, 2 actions | `CommitteesAreOnChain`, `ActiveHasCommittee`, `UndisturbedSucceeds`, `EventuallyCreated` | un-awaited writes, lost and repeated; batches over trees that late writes change |
| `dkg_rounds` | round 1, 1 server, 1 member, 2 keys, 2 actions | `ContributionsArrive`, `LeavesAreRight`, `EventuallyFinalized`, `TypeOK` | un-awaited pushes; trees from documents older than the count; complete keys are finalized as long as the order is kept |
| `dkg_rounds_rollup` | round 2, 1 server, 1 member, 2 keys, 3 actions, repeated contributions | `OrderIsKept` | what a contribution that is not finalized blocks |
| `requester` | 2 jobs of 2 processes, a task with a vote, 3 actions | `ExactWhileSteady`, `TreesAreBehind`, `VotesHaveTasks`, `TypeOK` | when totals are exact, and what passes cannot break however they overlap |
| `requests` | 2 jobs of 1 process, a resolved request, 3 actions | `RequestsAreRight`, `RightWhileSteady`, `StrandedForEver`, `TypeOK` | ids and order of requests survive overlap and stops; a stop between request and action does not heal |
| `responses` | 2 jobs, 2 requests of threshold 1, 2 responses, a counter of 2 | `AnsweredInTurn`, `CountedRight`, `TooManyIsForEver`, `CounterNeedsRestart`, `TypeOK` | what is counted once, and what counting twice costs for ever |
| `platform` | a pass of all services, one of participations; 5 actions, the first 4 a campaign, a project, its participation and the end of the campaign; 1 disturbance | `DocumentsWhileSteady`, `LostIsForEver`, `TypeOK` | ids, indexes and counters of the documents; what a stop or an overlap loses |

**Bounds.** `MaxActions` (`MaxDispatches` in `ActionFeed`) bounds the chain. Two actions are the least that can be recorded
or activated out of order, prove in a wrong order or take each other's id; a third
gives `ActionFeed` a document before and after the one in question. Two activations
are enough for each to hold a stale view of the other's effect; both may stop and
start over without limit. The five actions that `dkg_rollup` starts with and the two that follow have every kind, for keys of
every status, and generate keys of either committee, in any order.
`MaxInterrupted` bounds interruptions there since each may add a surplus key;
`MaxRetries` is 2 instead of the code's 5: attempts are alike, and both "again" and
"give up" occur. Two of the four contracts are enough for one tree to be rebuilt
or counted between two others. Sets of interchangeable jobs are declared symmetric in
runs without liveness only. In `DkgRounds`, `MaxInFlight = 1` lets a server have one
unfinished write of a contribution (a restart has another), and
`Many` stands for every number of copies above one. `Before`, `First` and `History` start a run after a
short legal history, so that the bound is spent on what follows it. `MaxCounter = 2` is the
number of times that `FULL_DIMENSION` fits into the `UInt8` of a counter; one time more throws. `MaxDisturbed = 1`: a second
disturbance of the platform adds nothing to what is lost by one. More
of everything (activations, jobs, servers, members, contracts, tasks, requests, actions) is covered by the
proofs of section 5, for the properties and modules listed there. Every property has a mutant in
`PROJECT.json` that the run must catch under the same bounds.

**History fields.** `undisturbed` is set when a batch starts from trees, collection and
contract that agree, and cleared by whatever changes one of them. `UndisturbedSucceeds`
then says that the many pieces a
batch is put together from fit: without the premise it is false, and should be,
since a batch overtaken by another one has to fail. `quiet` of `DkgRounds` is cleared when
a pass begins while another pass or a write is not over, or a process stops between a
push and its save; `steady` of `Requester`, `Requests` and `Responses`, and `disturbed` of `Platform`, likewise: they
separate what the code guarantees in any case from what it guarantees only while
nothing overlaps or stops in the middle. Most of the properties come in such pairs.

## 4. Fairness

Runs without a liveness property use no fairness (`StoppedForEver` and the like are action
properties). The others, `action_feed`, `dkg_keys_shared`, `rollup_contract_live`,
`committee_contract` and `dkg_rounds`, use `FairSpec` (`FairFeedSpec`):

- Weak fairness of each activation's own steps: timers start it again and again, and
  an awaited call answers, by value or by exception. `ActionFeed` and
  `CommitteeContract` include failing steps in what may happen instead, and the properties
  assume of **one** activation (server) that from some moment on it does not fail and
  is not answered by a lagging node. Nothing is assumed of the others.
- Each started write of `CommitteeContract` completes (weak fairness per write), unless its
  process stops.
- `DkgKeys` adds strong fairness of an up-to-date answer of the event query: a node that
  is asked over and over does not lag for ever. Interruptions are bounded.
- `RollupContract` assumes that the pending transaction is included, and the mirror catches up
  (what `EventuallyMirrored` of `action_feed` shows). `EventuallyReduced` has the premise that failures,
  stops, lagging answers and other uses of the nonce end.
- `DkgRounds` assumes each server's steps and started writes, the mirror and the key
  documents (weak fairness), and that a job contains this roll-up again and again (strong
  fairness of `FindRolled`: the order of a job's roll-ups is not modelled).
  `EventuallyFinalized` has the premises that failures and lagging answers end (`Calm`) and that
  keys are finalized in the order of their contributions (`InOrder`).

## 5. What is proved

The theorems hold for every number of activations, workers, servers, jobs, contracts,
committees, tasks, requests and actions. Their assumptions are the named `ASSUME`s of the modules: the
bounds are natural numbers (`MaxRetries`, `MaxCounter` and the threshold of a request are positive),
`Roller \subseteq Server`, the contracts that are rolled up differ, there are finitely many jobs, and the
history that a run may start from (`Before`, `History`, `First`) is one the contract can have: an encryption is submitted for a
task, and a result for a request, that was created earlier, a key takes its steps in order, and what the platform's
contracts accept once is not there twice. Three theorems
about `DkgRollup` have the hypothesis `OneWorker`: it is what they say, and their properties are false without it
(section 6).

The inductive invariants (`IInv`, `Right`, `SteadyRight`, …) are in the proof modules, before the lemmas or
right before the theorem that needs them. Most were model-checked on small instances first, with their
unbounded quantifiers bounded.

**`RollupContractProofs`**, of the feed — `FeedTypeCorrect`, `MirrorCorrect`, `ActiveCorrect`, `NoConflict`,
`Durable` (`NeverRewritten`) and `MirrorRefinement` (`FeedSpec => MirrorSpec`). The properties are not
inductive, because an activation acts on what it read some awaits ago. The invariant
adds what each activation's locals say of the chain and the collection (`FetchInv`): the
last action it read is mirrored, the batch it still has to upsert is what follows that
action on chain, the state it was given is one the contract had, and each action of
its list of pending ones follows an active one or another of the list. Since the chain and the collection
only grow, a stale view stays a true statement about a prefix. A stale upsert thus
writes what is there already, which a mirror step allows as stuttering.

**`DkgKeysProofs`** — `TypeCorrect`, `KeysHaveNoGap`, `GeneratesHaveKeys`,
`ActiveIsAPrefix`, `KeysAreFound`. The invariant says that the key ids of a committee are closed
downwards, that a cached next id is 0 or follows a key that exists (keys are only added,
so a stale cache is at most too small and the unique index refuses it), that a worker
about to save a GENERATE_KEY has created a key for it, and that whatever is before an
action of its list is active, in the list, or in its hands. `KeysAreFound` (`KeysAreThere`) counts: an
action about a key was admitted for one that an earlier action generated (`AdmittedForKey`); when a worker comes
to it all earlier actions are active, every GENERATE_KEY among them has a document of its own, so there are
at least as many documents, and without a gap in the ids the one it names is there.

The same module proves `DkgRollup`. `StepIsNext` maps it to `DkgKeys`: a step of the roll-up is one of the contract
(`Reduce`) or leaves the pass alone, so that the invariant above holds there too, also on the documents that `RollupInit`
starts with (`KeysAreFoundWithRollup`). `RInv` adds the roll-up itself: the contract's log
stays legal, trees and clones have process leaves of active actions only, a batch is what lies between some first inactive action
and the last that was rolled up, and what is about to be sent follows the contract's state, generates keys of one committee, and
has no step after a DEPRECATE_KEY. `DocumentsAreRight` rests on `OneInv`: with one worker, what it has in hand is the first
inactive action (`Turn`), so that the keys of a committee are the active GENERATE_KEYs, one for each interruption and the one just
created (`KeysCounted`), their ids are in the order of these actions (`KeysOrdered`), and their statuses are
those the contract's log gives after the active actions or the one in hand (`StatusesRight`). `StoppedStaysStopped`
is an action property: a batch with two actions that block each other is not sent (`RInv`), one that generates a key
of a committee with a surplus key is refused by the contract or not proved (`SendRight`), and later batches contain what earlier ones did. `PlainBatchesAreProved` goes through
a batch step by step: on fresh clones without interruptions the leaves of the clones are those that the circuit has
reached after each action.

**`CommitteeContractProofs`** — `TypeCorrect`, `CommitteesAreRight`, `NoCommitteeIsLost`,
`TreesOnlyLag`, `UndisturbedBatchesSucceed`. The invariant adds: a list being written contains only reduced
actions (a node's answer is a state the contract had, and `reduced` only grows); a write
in flight is of a reduced action and, once its upsert is done, its committee is in the
collection. Documents are never removed, so it is still there when the save happens, and
trees copied from the collection at any moment are right. For an undisturbed batch
(`UndisturbedRight`) clones and proof are the contract's trees with one committee more after each
proof, and what is left follows; a write that ends under it touches neither, or makes an action active and disturbs it.

**`DkgRoundsProofs`** — `TypeCorrect`, `AlwaysRight`, `LeavesCorrect`, `OrderKept`,
`ContributionsCorrect`, for both rounds. `Right` is the inductive invariant: every event names
contributions to its key, one of each member (`EventsRight`); the transaction in the
mempool and every proof are about such contributions, and fit only if everything the contract
took before is active (`ProofsRight`, `JobsRight`); what a pass has in its list, and every
write in flight, is an action behind which only actions with an event come (`WritesRight`), and its push
precedes its save. `LeavesAreRight` follows because a tree is written from documents of which
every contribution has an event; `OneContributionEach` because as many contributions as members,
one of each, are all of them; `AcceptedOnlyInOrder` because the active actions are closed downwards, so
that they are the first *n*. `ContributionsArrive` needs `QuietRight` besides: as long as `quiet`
holds, at most one server is in a pass or has a write, and what is pushed but not saved is in
its hands.

**`RollupContractProofs`**, of the roll-up — `TypeCorrect`, `TreesStayRight`, `UndisturbedJobsSucceed` and
`RollupFollowsMirror`, for any number of contracts and overlapping jobs. `Right` says of a job about to write a tree that its list is that of
the first active actions of the contract at some time (`FirstOf`): active actions are the
first *n* and only become more, so the *n*-th of an old list is still the *n*-th of the contract (`Nth`).
Of an undisturbed job it says (`UndisturbedRight`) that trees, collection and contract agree when the batch
starts; that clones and counts are those of that state; and that while it proves, clones,
counts and proof have gone through the same actions (`InStep`), which begin where the contract is
(`Continues`), and what is left follows them. `RollupFollowsMirror` (`Spec => Feed!Spec`) closes the gap between the
two halves: the roll-up's module is a refinement of the same `ActionMirror` that the feed implements, since a
transaction reduces the actions that follow in the log, or none.

**`RequesterProofs`** — `TypeCorrect`, `VotesAreKept`, `TreesStayBehind` and `DocumentsAreExact`.
What a pass has left begins right after the active actions or among them (`Adjacent`), so the active ones are
those up to one number whoever saves; an active creation has its document, hence a vote,
which the contract admits only for an earlier task, finds one. A total never exceeds what the encryptions of
its task hold. `DocumentsAreExact` needs `SteadyRight`: as long as `steady` holds one job is in a pass, the
documents are what the contract computes from the first *m* actions (`ExactUpTo`), and what is
saved but not active is in the hands of that job.

**`RequestsProofs`** — `TypeCorrect`, `RequestsStayRight`, the action property `StrandedStays` and
`SteadyRequestsAreRight`. The core is `NextDocument`: when a pass reaches a creation every creation
before it has its document, so if the indexes of `requestId` and `task` admit one more, it is the
next of the contract, though the id was counted from documents that other passes add to. So documents stay those
of the contract in its order, and a leaf written from them is the contract's at some time.
`StrandedStays` holds because a pass that meets such an action has every earlier one behind it and is refused by the index of
`task`; nothing else marks it. `SteadyRight` is about what is true without overlaps and stops: the *e*-th event has batch and dimension
of its number, a pass that looks at an action has all events of its batches
(`BatchesOf`), the trees are those after some *n* actions, and the documents those after the *m* that
are active or about to be (`Applied`).

**`ResponsesProofs`** — `TypeCorrect`, `TurnsAreKept`, `CountedRightly`, and the action properties
`TooManyStay` and `RestartIsNeeded`. A job that proves a request is past all before it (`InTurn`), and the contract
finalizes a request once. An id names one event of its kind (the unique index), so
what a job has pushed for the event in its hands belongs to the transaction it is about to mark, whoever else
handles the event. A leaf of a processed response was written with the counter, which only grew
since. As long as `steady` holds, the events are those below one number (`EventsBelow`), and a request has one
push exactly if a transaction of it is marked or held by the one job in a pass. `TooManyStay` says of a
request with more actions than its threshold that a job which has read the number of actions has read one that is too large as well
(`TooMany`): actions only become more, those of a request that is not finalized are not active, and so
whatever such a job finds is more than the threshold.

**`PlatformProofs`** — `TypeCorrect`, the action property `LostStaysLost`, and `DocumentsAreSteady`. `IInv` says what holds
however passes overlap and stop: a document is marked with actions of its own contract and kind, a
write under way is what its action says (`WriteRight`) and finds the document it is for, since none is ever removed.
An action is lost when it is active, has not written its part, and no write of it is under way. It stays so because passes find only actions that are not
active, one that has it in its hands is not past it, and no other action writes the same: what the contracts refuse a second
time (`Once`: a participation, the end of a campaign, a claim, a refund) they have not reduced twice (`Legal`, which `Admitted` keeps).
`DocumentsAreSteady` needs `Steady`, about the time before the first overlap or stop. One pass at a time is of a service, and every write
under way is of the first action of its list (`Control`). Ids count on from a number that covers all that the pass has in
its list (`Numbered`), hence lie ahead of those of the contract (`Ahead`). The participations that are
active or under way are those up to one number, so that a counter, which is how many of a campaign have been counted
(`Counted`), gives the next one the index that the contract gave it (`InTurn`). An active end or claim is written,
or its pass still has it in its hands (`Ends`).

**Only model-checked.** The five liveness properties, which need fairness and `ENABLED` (out of TLAPS's reach). Every other
property of the runs is a theorem.

## 6. What the models say about the limits of the code

These follow from the code and contradict nothing the repository promises in writing.

- `DocumentsFollowActions` is **false** with
  two workers even if nothing fails: both may create a key for one action under
  consecutive ids, which shifts the ids of all later keys of that committee with
  respect to the contract. A single worker does so only when it is interrupted between
  `keyModel.create` and the save of the action. This is why it is checked with one
  worker, while the deployment has several. Nothing removes a surplus key: the key counter of the
  trees stays ahead of the contract's, and no further batch that generates a key is proved
  (`StoppedForEver`).
- **Three kinds of batches of `rollupDkg()` are never proved**, even by an undisturbed worker. A
  batch that generates keys of two committees: between two steps the counter leaf is set to
  `nextKeyId` (`dkg-contracts.service.ts:362`), one less than the number of keys, which
  `updateMerkleTrees` writes there (`:1596`). A batch with an action after a DEPRECATE_KEY, which has no step in the loop although its status
  leaf is written. And any that generates a key of a committee with a surplus key. The next batch contains
  the same actions, and later ones: it does not heal.
- The actions of a committee do not become active in order (the saves are not awaited), so
  the committee service does not implement `ActionMirror`'s `Activate`; nothing in it
  relies on the order.
- An overlapping roll-up job can only waste proofs: the contract refuses a batch that
  does not start at its state, and `EventuallyReduced` shows progress once the jobs are
  left alone.
- **Contributions finalized out of order stop the rounds.** A pass of
  `updateRound1Actions()` or `updateRound2Actions()` breaks at the first action without an event. If a key
  is finalized while an earlier contribution, to another key, is not, the
  finalized contributions cannot become active, the trees stay behind the contract, and
  no proof fits any more, not even for the key that is waited for. This is
  `AcceptedOnlyInOrder`. Without its premise `[]InOrder`, `EventuallyFinalized` is false with
  nothing failing: member 1 contributes to keys 1 and 2, key 2 becomes complete first and
  is rolled up. The same happens for good when a member contributes
  twice: the action that loses never gets an event.
- Round 1 takes a key only if it has exactly as many pending actions as members, so a
  repeated contribution keeps it from being rolled up at all. Round 2 takes the latest of each
  member, but looks only at the first key of its status.
- A contribution may be in its document twice (two servers, or a restart between push and save).
  In round 1, and in the contribution tree of round 2, the copies write the same leaf. In the
  encryption tree every leaf of the key holds the list with both, which is not what the
  contract has, so no later proof of round 2 fits.
- **A stop between a request and its action strands the request** (`StrandedForEver`): every later
  pass counts one more request, is refused by the unique index of `task`, and neither that action nor any
  after it becomes active. `Requester` has the milder form: a repeated vote is in the
  total or the encryptions twice, which `ExactWhileSteady` excludes only without overlaps and stops.
- A batch of events of which only a part was stored is skipped by the next pass, which starts
  after the batch of the last document: the result of that request stays incomplete. So does one resolved by a
  pass that took the state from an overlapping job and had not fetched its events. `RightWhileSteady` excludes
  both by its premise; what is true in spite of them is `RequestsAreRight`.
- **The first request hides all others.** `rollupResponse()` returns at the first request that is
  not finalized, so that a request that has more rolled-up responses than its threshold, or whose responses were
  pushed twice, blocks all later ones for good (`TooManyIsForEver`). Likewise only the first
  request or requester with pending actions is looked at by the other roll-ups.
- A job that had counted the rolled-up actions before the one too many came still finds the others and
  finalizes the request: the count of `:403` is as old as the reads of requests, key and committee make it
  when `:418` uses it. This, and a job already proving, are the exceptions of `TooManyActions`.
- The counter of a processed response grows at every rebuild of the trees, while the contract's does
  not: only the first rebuild after a start yields trees that fit (`CounterNeedsRestart`).
- **The platform's ids are those of the contract's present counter.** A pass counts on from the
  number that the contract has when it looks, so that every campaign, project and funding is filed under an
  id that belongs to a later one (`IdsAreAhead`), and a later one may overwrite it.
  A project whose action was saved before a stop, a claim that precedes the
  participation it is for, and a campaign overwritten by another one are lost for ever
  (`LostIsForEver`): their actions are active.
- **The trees of requesters cannot be rebuilt once there is a task.** `keyIndex` has no `@Prop` in the stored
  action (`requester-action.schema.ts:15`), so mongoose drops it, the task is created without one, and the rebuild
  throws where it writes that leaf (`requester-contract.service.ts:742`). `Requester` has both the rebuild
  that ends (as with the field declared) and the one that throws before anything is written (`UpdateThrows`); its safety
  properties hold of either.
- `fetchResponseEvents()` looks for the last responded event in the collection of the processed ones
  (`dkg-usage-contracts.service.ts:1038`). If the last events of a batch are of that kind, the next batch takes their ids again, and
  the unique index of `eventId` refuses its responded events in every later pass.
- `Throw` after the last retry is silent; a pass that fails leaves work to the next timer.

## 7. What is not modelled

- Contents: keys, points, ciphertexts, IPFS payloads, key derivation, hashes and
  Merkle paths. A tree is a function from leaves to what they hold; a proof is
  what it starts from, what it has consumed and the trees it commits to.
- `ipfs.getData` swallows errors, so a document may be written with empty data; payloads are
  abstracted, and no property speaks of them.
- The zkApp address tree of the committee service (constant after start-up), compilation,
  logging, controllers, DTOs, swagger, the object store.
- `proveAndSendTx` retries are part of `Send` (a refused transaction has no effect).
- `this._actionState` of a service is shared between the jobs of a process. `Requests` and `Platform` have it;
  the other models let
  each job use any state the contract had, which covers what a shared field can hold.
- In `CommitteeContract` and `DkgRounds` a server runs one job at a time; overlap within a
  process is in `RollupContract`, `Requests`, `Responses` and `Requester`.
- In `DkgRounds`: the public key tree, which is written where the contribution tree is, the
  key status tree and the other committees. In `DkgRollup` the key tree is written where the
  status tree is, and one stands for both.
- A lagging answer in `DkgRollup` (`FetchDkgState`) is any state since the history it starts with.
- In `Responses`: the third kind of event, *responded* (`:1113`–`:1128`), whose contents are copied into the
  responses of a request (`:1291`–`:1304`). The two lookups of the last events and the fetch of the new ones are one
  step (`FetchEvents`): split, the run does not end within the limit, and no property tells the two apart.
- In `DkgRollup`: `Prove` begins with the key-id lookups of all committees of the batch (`:292`–`:306`), which are one
  step; and the witness that an action is in the roll-up contract, whose tree `RollupContract` is about.
- The expiry of requests: they are compared with the network's genesis time, which does not advance, so
  none ever expires.
- In `Requester`: more than one requester contract; one address is configured (`constants.ts:130`), and the
  loops over addresses return in their first turn.
- In `Platform`: the roll-ups, which no worker calls, and the trees of each service, which nothing but
  the API and those roll-ups reads.
- Which roll-ups a job runs: the consumers skip some after one that succeeded, in two orders. The
  models let every roll-up be skipped in every job, which is safe for safety properties and an
  assumption (strong fairness) of `EventuallyFinalized`.
- Drafts, organizers and authentication: requests over one document each, without a life
  beyond the request, but for the check-then-upsert of a draft that is deleted meanwhile (listed
  as a hazard). The read-only API keeps no state. Of the utilities, the provable dynamic array
  is used by nothing.

## 8. Plan

Done: all services under `src/mina-contracts`, and proofs of all their safety properties. Left, most important first:

1. `ContractJobs`: timers, queue, guard, the two orders and the gating of one roll-up by the
   results of others, composed with abstract services; no roll-up is starved for ever.
2. `Drafts`: check-then-upsert against delete. The trees of the platform services, if
   their roll-ups are put to use.
