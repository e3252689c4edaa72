--------------------------- MODULE RollupContract ---------------------------
(***************************************************************************)
(* The roll-up job of RollupContractService: updateMerkleTrees() rebuilds  *)
(* the counter and roll-up trees in the memory of the dkg worker from the  *)
(* active actions, and rollup() proves the pending actions one by one on   *)
(* clones of these trees and sends a transaction that continues the        *)
(* contract's state.                                                       *)
(*                                                                         *)
(* The consumers do not await their chains of promises, so the next timer  *)
(* starts a job while the last one still runs: the jobs share the trees of *)
(* their process and the fee payer's nonce.  A batch combines the list of  *)
(* pending actions, the state of the contract, the trees and four counts,  *)
(* each read after a different await.                                      *)
(*                                                                         *)
(* The collection evolves as ActionMirror says (ActionFeed implements it); *)
(* the transactions of this module are its Reduce steps.                   *)
(*                                                                         *)
(*   log, reduced, mirror, active   see ActionMirror                       *)
(*   mempool         the transaction sent with the fee payer's nonce, if any *)
(*   counterStorage  in memory: how many actions each contract has         *)
(*   rollupStorage   in memory: leaf <<zkAppIndex, actionId>> |-> action   *)
(*   job             the local variables of each job                       *)
(***************************************************************************)
EXTENDS Naturals, Sequences, FiniteSets

CONSTANTS ZkApps,     \* the contracts rolled up, in the order of the code
          Job,        \* jobs that may run at the same time
          MaxActions  \* bound: actions dispatched on chain

ZkApp == {ZkApps[n] : n \in DOMAIN ZkApps}

ASSUME RollupAssumption ==
  /\ ZkApps \in Seq(ZkApp) /\ ZkApps # <<>>
  /\ \A m, n \in DOMAIN ZkApps : ZkApps[m] = ZkApps[n] => m = n
  /\ MaxActions \in Nat

VARIABLES log, reduced, mirror, active, mempool, counterStorage, rollupStorage, job

feedVars == <<log, reduced, mirror, active>>
storages == <<counterStorage, rollupStorage>>
vars == <<feedVars, mempool, storages, job>>

Feed == INSTANCE ActionMirror WITH Action <- ZkApp

PC == {"idle", "find", "write", "updated", "fetchState", "clone", "count",
       "prove", "send"}

\* The actions of contract z among those of ids.
Of(z, ids) == {i \in ids : log[i] = z}

\* The action of ids that comes after n others.
Nth(ids, n) == CHOOSE i \in ids : Cardinality({h \in ids : h < i}) = n

\* The trees of the contract when it has reduced ids.
Counters(ids) == [z \in ZkApp |-> Cardinality(Of(z, ids))]
LeavesOf(z, count) == {<<z, n>> : n \in {m \in 0 .. MaxActions : m < count}}
Rollups(ids) ==
  [leaf \in UNION {LeavesOf(z, Cardinality(Of(z, ids))) : z \in ZkApp} |->
     Nth(Of(leaf[1], ids), leaf[2])]

\* The tree with every leaf of the other one.
Overwrite(tree, other) == [leaf \in DOMAIN tree \cup DOMAIN other |->
                             IF leaf \in DOMAIN other THEN other[leaf] ELSE tree[leaf]]

NoCounters == [z \in ZkApp |-> 0]
EmptyTree == [leaf \in {} |-> 0]
NoProof == [from |-> 0, actions |-> <<>>, counters |-> NoCounters, rollups |-> EmptyTree]

Idle == [pc |-> "idle", next |-> 1, found |-> {}, notActiveActions |-> {}, state |-> 0,
         counterStorage |-> NoCounters, rollupStorage |-> EmptyTree,
         actionCounter |-> NoCounters, proof |-> NoProof,
         nonce |-> FALSE, undisturbed |-> FALSE]

Init ==
  /\ Feed!Init
  /\ mempool = {}
  /\ counterStorage = NoCounters /\ rollupStorage = EmptyTree
  /\ job = [j \in Job |-> Idle]

\* History: what a job read last may have changed since.
Disturbed(jobs) == [j \in Job |-> [jobs[j] EXCEPT !.undisturbed = FALSE]]

\* The account's nonce is not what a job may have fetched any more.
NonceUsed(jobs) == [j \in Job |-> [jobs[j] EXCEPT !.nonce = FALSE]]

-----------------------------------------------------------------------------
(***************************************************************************)
(* The chain and the collection.                                           *)
(***************************************************************************)
Dispatch(z) ==
  /\ Len(log) < MaxActions
  /\ Feed!Dispatch(z)
  /\ UNCHANGED <<mempool, storages, job>>

Record(h) ==
  /\ Feed!Record(h)
  /\ UNCHANGED <<mempool, storages, job>>

Activate(h) ==
  /\ Feed!Activate(h)
  /\ job' = Disturbed(job)
  /\ UNCHANGED <<mempool, storages>>

\* Whether the contract accepts a proof: it starts at the contract's state and
\* its actions are the next ones of the action chain.
Accepts(tx) ==
  /\ tx.from = reduced
  /\ \A n \in DOMAIN tx.actions : tx.actions[n] = tx.from + n

\* A pending transaction is included, and takes effect if the contract accepts
\* it.  Either way the nonce is used: what else was sent with it never will be.
Include(tx) ==
  /\ reduced' = IF Accepts(tx) THEN reduced + Len(tx.actions) ELSE reduced
  /\ mempool' = {}
  /\ job' = NonceUsed(IF reduced' = reduced THEN job ELSE Disturbed(job))
  /\ UNCHANGED <<log, mirror, active, storages>>

\* Another service sends a transaction of the same fee payer.
OtherTransaction ==
  /\ mempool' = {}
  /\ job' = NonceUsed(job)
  /\ UNCHANGED <<feedVars, storages>>

-----------------------------------------------------------------------------
(***************************************************************************)
(* updateMerkleTrees()                                                     *)
(***************************************************************************)
\* A timer adds a job.
Start(j) ==
  /\ job[j].pc = "idle"
  /\ job' = [job EXCEPT ![j].pc = "find"]
  /\ UNCHANGED <<feedVars, mempool, storages>>

\* find({active: true, 'actionData.zkAppIndex': ...}, {}, {sort: {actionId: 1}})
FindActive(j) ==
  /\ job[j].pc = "find"
  /\ job' = [job EXCEPT ![j].pc = "write",
                        ![j].found = Of(ZkApps[job[j].next], active)]
  /\ UNCHANGED <<feedVars, mempool, storages>>

\* Mutant: the end of the four trees is missed.
NextTreePastEnd(j) ==
  IF job[j].next <= Len(ZkApps)
  THEN [job EXCEPT ![j].pc = "find", ![j].next = @ + 1, ![j].found = {}]
  ELSE [job EXCEPT ![j].pc = "updated", ![j].next = 1, ![j].found = {}]

\* The next tree of the four is updated, or all are.
NextTree(j) ==
  IF job[j].next < Len(ZkApps)
  THEN [job EXCEPT ![j].pc = "find", ![j].next = @ + 1, ![j].found = {}]
  ELSE [job EXCEPT ![j].pc = "updated", ![j].next = 1, ![j].found = {}]

\* Mutant: the list is sorted the other way.
LeavesBackwards(z, found) ==
  LET count == Cardinality(found)
  IN  [leaf \in LeavesOf(z, count) |-> Nth(found, count - 1 - leaf[2])]

\* The n-th action found goes to leaf n of its contract.
Leaves(z, found) == [leaf \in LeavesOf(z, Cardinality(found)) |-> Nth(found, leaf[2])]

\* updateMerkleTreesFor...: nothing is awaited after the find.
WriteTree(j) ==
  LET z == ZkApps[job[j].next]
      leaves == Leaves(z, job[j].found)
  IN  /\ job[j].pc = "write"
      /\ counterStorage' = [counterStorage EXCEPT ![z] = Cardinality(job[j].found)]
      /\ rollupStorage' = Overwrite(rollupStorage, leaves)
      /\ job' = IF storages' = storages THEN NextTree(j) ELSE Disturbed(NextTree(j))
      /\ UNCHANGED <<feedVars, mempool>>

\* A find throws: the trees that are not reached keep what they had.
UpdateThrows(j) ==
  /\ job[j].pc = "find"
  /\ job' = [job EXCEPT ![j].pc = "updated", ![j].next = 1]
  /\ UNCHANGED <<feedVars, mempool, storages>>

\* A job that only updates, or whose order leaves out this roll-up.
Skip(j) ==
  /\ job[j].pc = "updated"
  /\ job' = [job EXCEPT ![j] = Idle]
  /\ UNCHANGED <<feedVars, mempool, storages>>

-----------------------------------------------------------------------------
(***************************************************************************)
(* rollup()                                                                *)
(***************************************************************************)

\* The trees, the collection and the contract agree.
Synced ==
  /\ active = 1 .. reduced
  /\ counterStorage = Counters(active)
  /\ rollupStorage = Rollups(active)

\* find({active: false}, {}, {sort: {actionId: 1}})
NotActiveActions == DOMAIN mirror \ active

FindNotActive(j) ==
  /\ job[j].pc = "updated"
  /\ job' = IF NotActiveActions = {} THEN [job EXCEPT ![j] = Idle]
            ELSE [job EXCEPT ![j].pc = "fetchState",
                             ![j].notActiveActions = NotActiveActions,
                             ![j].undisturbed = Synced]
  /\ UNCHANGED <<feedVars, mempool, storages>>

\* fetchRollupState, answered by a node that has seen state s.
FetchState(j, s) ==
  /\ job[j].pc = "fetchState"
  /\ job' = [job EXCEPT ![j].pc = "clone", ![j].state = s,
                        ![j].undisturbed = @ /\ s = reduced]
  /\ UNCHANGED <<feedVars, mempool, storages>>

\* Rollup.init is awaited between the state and the clones.
Clone(j) ==
  /\ job[j].pc = "clone"
  /\ job' = [job EXCEPT ![j].pc = "count",
                        ![j].counterStorage = counterStorage,
                        ![j].rollupStorage = rollupStorage,
                        ![j].proof = [from |-> job[j].state, actions |-> <<>>,
                                      counters |-> Counters(1 .. job[j].state),
                                      rollups |-> Rollups(1 .. job[j].state)]]
  /\ UNCHANGED <<feedVars, mempool, storages>>

\* Mutant: pending actions are counted too.
CountedAll(z) == Cardinality(Of(z, DOMAIN mirror))

\* count({active: true, 'actionData.zkAppIndex': ...})
Counted(z) == Cardinality(Of(z, active))

Count(j) ==
  /\ job[j].pc = "count"
  /\ LET n == job[j].next
         counted == [job EXCEPT ![j].actionCounter[ZkApps[n]] = Counted(ZkApps[n])]
     IN  job' = IF n < Len(ZkApps) THEN [counted EXCEPT ![j].next = n + 1]
                ELSE [counted EXCEPT ![j].pc = "prove", ![j].next = 1]
  /\ UNCHANGED <<feedVars, mempool, storages>>

\* The first pending action that is not proved yet.
Current(j) == CHOOSE i \in job[j].notActiveActions :
                \A h \in job[j].notActiveActions : i <= h
LeafOf(j) == <<log[Current(j)], job[j].actionCounter[log[Current(j)]]>>

\* The witnesses of the clones lead from the two leaves the step changes, the
\* counter with the given value and the action's leaf empty, to the proof's roots.
WitnessesFit(j) ==
  LET leaf == LeafOf(j)
      others == DOMAIN job[j].rollupStorage \ {leaf}
  IN  /\ job[j].proof.counters = [job[j].counterStorage EXCEPT ![leaf[1]] = leaf[2]]
      /\ job[j].proof.rollups = [l \in others |-> job[j].rollupStorage[l]]

\* Mutant: the counter of the contract is not incremented.
NotIncremented(n) == n

\* actionCounter[...] += 1
Incremented(n) == n + 1

\* Rollup.rollup(...) and the same update of the clones.
Prove(j) ==
  /\ job[j].pc = "prove"
  /\ job[j].notActiveActions # {}
  /\ WitnessesFit(j)
  /\ LET i == Current(j)
         leaf == LeafOf(j)
         Counted1(counters) == [counters EXCEPT ![leaf[1]] = Incremented(leaf[2])]
         Rolled(rollups) ==
           [l \in DOMAIN rollups \cup {leaf} |-> IF l = leaf THEN i ELSE rollups[l]]
     IN  job' = [job EXCEPT
           ![j].notActiveActions = @ \ {i},
           ![j].actionCounter = Counted1(@),
           ![j].counterStorage = Counted1(@),
           ![j].rollupStorage = Rolled(@),
           ![j].proof = [from |-> @.from, actions |-> Append(@.actions, i),
                         counters |-> [@.counters EXCEPT ![leaf[1]] = leaf[2] + 1],
                         rollups |-> Rolled(@.rollups)]]
  /\ UNCHANGED <<feedVars, mempool, storages>>

\* The proof of an action that does not fit throws, and rollup() returns false.
ProveFails(j) ==
  /\ job[j].pc = "prove"
  /\ job[j].notActiveActions # {}
  /\ ~ WitnessesFit(j)
  /\ job' = [job EXCEPT ![j] = Idle]
  /\ UNCHANGED <<feedVars, mempool, storages>>

\* The nonce is read before the transaction itself is proved.
FetchNonce(j) ==
  /\ job[j].pc = "prove"
  /\ job[j].notActiveActions = {}
  /\ job' = [job EXCEPT ![j].pc = "send", ![j].nonce = TRUE]
  /\ UNCHANGED <<feedVars, mempool, storages>>

\* proveAndSendTx: a transaction with a used nonce is refused, and so is a
\* second one with the same nonce and fee.
Send(j) ==
  /\ job[j].pc = "send"
  /\ mempool' = IF job[j].nonce /\ mempool = {}
                THEN {[from |-> job[j].proof.from,
                       actions |-> job[j].proof.actions]}
                ELSE mempool
  /\ job' = [job EXCEPT ![j] = Idle]
  /\ UNCHANGED <<feedVars, storages>>

\* An awaited call of rollup() throws.
RollupThrows(j) ==
  /\ job[j].pc \in {"fetchState", "clone", "count", "prove", "send"}
  /\ job' = [job EXCEPT ![j] = Idle]
  /\ UNCHANGED <<feedVars, mempool, storages>>

\* The dkg worker stops, and starts with empty trees.
Crash ==
  /\ counterStorage' = NoCounters /\ rollupStorage' = EmptyTree
  /\ job' = [j \in Job |-> Idle]
  /\ UNCHANGED <<feedVars, mempool>>

-----------------------------------------------------------------------------
FeedStep ==
  \/ \E z \in ZkApp : Dispatch(z)
  \/ \E h \in 1 .. Len(log) : Record(h) \/ Activate(h)

Proceed(j) ==
  \/ Start(j) \/ FindActive(j) \/ WriteTree(j)
  \/ FindNotActive(j) \/ (\E s \in 0 .. reduced : FetchState(j, s)) \/ Clone(j)
  \/ Count(j) \/ Prove(j) \/ ProveFails(j) \/ FetchNonce(j) \/ Send(j)

Next ==
  \/ FeedStep
  \/ \E tx \in mempool : Include(tx)
  \/ OtherTransaction
  \/ \E j \in Job : Proceed(j) \/ UpdateThrows(j) \/ Skip(j) \/ RollupThrows(j)
  \/ Crash

Spec == Init /\ [][Next]_vars

(***************************************************************************)
(* The timers start jobs over and over, an awaited call answers, a sent    *)
(* transaction is included, and the mirror catches up (ActionFeed).        *)
(***************************************************************************)
Fairness ==
  /\ \A j \in Job : WF_vars(Proceed(j))
  /\ WF_vars(\E tx \in mempool : Include(tx))
  /\ \A h \in 1 .. MaxActions : WF_vars(h <= Len(log) /\ (Record(h) \/ Activate(h)))

FairSpec == Spec /\ Fairness

-----------------------------------------------------------------------------
(***************************************************************************)
(* Properties.                                                             *)
(***************************************************************************)
IsTree(t) ==
  /\ DOMAIN t \subseteq ZkApp \X Nat
  /\ \A leaf \in DOMAIN t : t[leaf] \in 1 .. Len(log)

LocalsOK(l) ==
  /\ l.pc \in PC
  /\ l.next \in DOMAIN ZkApps
  /\ l.found \subseteq 1 .. Len(log)
  /\ l.notActiveActions \subseteq 1 .. Len(log)
  /\ l.state \in 0 .. reduced
  /\ {l.counterStorage, l.actionCounter, l.proof.counters} \subseteq [ZkApp -> Nat]
  /\ IsTree(l.rollupStorage) /\ IsTree(l.proof.rollups)
  /\ l.proof.from \in 0 .. reduced
  /\ l.proof.actions \in Seq(1 .. Len(log))
  /\ {l.nonce, l.undisturbed} \subseteq BOOLEAN

TypeOK ==
  /\ log \in Seq(ZkApp)
  /\ reduced \in 0 .. Len(log)
  /\ DOMAIN mirror \subseteq 1 .. Len(log)
  /\ active \subseteq DOMAIN mirror
  /\ counterStorage \in [ZkApp -> Nat]
  /\ IsTree(rollupStorage)
  /\ \A tx \in mempool : tx.from \in 0 .. reduced /\ tx.actions \in Seq(1 .. Len(log))
  /\ DOMAIN job = Job
  /\ \A j \in Job : LocalsOK(job[j])

(* A leaf of the tree in memory is never wrong, only missing: whatever old *)
(* list a job writes, the n-th leaf of a contract is its n-th action.      *)
LeavesAreRight ==
  \A leaf \in DOMAIN rollupStorage :
    /\ rollupStorage[leaf] \in Of(leaf[1], active)
    /\ Cardinality({h \in Of(leaf[1], active) : h < rollupStorage[leaf]}) = leaf[2]

(* Overlapping jobs may put an older counter beside newer leaves, but a    *)
(* counter never promises an action that has no leaf.                      *)
CountersHaveLeaves ==
  \A z \in ZkApp : LeavesOf(z, counterStorage[z]) \subseteq DOMAIN rollupStorage

(* What jobs that overlap leave in the trees of their process: a leaf may  *)
(* be missing, and a counter may be old, but neither is ever wrong.        *)
TreesAreRight == LeavesAreRight /\ CountersHaveLeaves

(* A job that nothing disturbs after it found the trees, the collection    *)
(* and the contract in agreement proves every action of its batch: the     *)
(* four counts, the clones and the updates between two proofs fit together.*)
UndisturbedProves ==
  \A j \in Job :
    job[j].pc = "prove" /\ job[j].undisturbed /\ job[j].notActiveActions # {} =>
      WitnessesFit(j)

(* ... and what it sends is accepted by the contract as it is then.        *)
UndisturbedIsAccepted ==
  \A j \in Job :
    job[j].pc = "send" /\ job[j].undisturbed => Accepts(job[j].proof)

(* A job that nothing disturbs succeeds: it proves its whole batch, and    *)
(* its transaction is accepted.                                            *)
UndisturbedSucceeds == UndisturbedProves /\ UndisturbedIsAccepted

\* A step in which nothing fails, lags behind or uses the nonce.
Calm ==
  \/ FeedStep
  \/ \E tx \in mempool : Include(tx)
  \/ \E j \in Job : /\ Proceed(j)
                    /\ job[j].pc = "fetchState" => job'[j].state = reduced

(* Once the failures, the stops and the other transactions of the fee      *)
(* payer end, every dispatched action is reduced and marked active,        *)
(* although the jobs that remain started from lists, trees and nonces of   *)
(* before, and go on overlapping.                                          *)
EventuallyReduced ==
  <>[][Calm]_vars => \A n \in 1 .. MaxActions : Len(log) >= n ~> n \in active
=============================================================================
