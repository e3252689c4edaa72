------------------------- MODULE CommitteeContract -------------------------
(***************************************************************************)
(* The committees: CommitteeContractService turns the reduced actions of   *)
(* the contract into committee documents, keeps the contract's trees in    *)
(* memory, and rolls up the pending actions.                               *)
(*                                                                         *)
(* Unlike the other services it awaits neither the upsert of a document    *)
(* nor the save that follows it: updateCommittees() returns while they are *)
(* in flight, the trees are rebuilt without them, and a process that stops *)
(* loses them.  The actions do not become active in order, so this service *)
(* keeps ActionMirror's promise about recording and not the one about      *)
(* activation.                                                             *)
(*                                                                         *)
(* A committee is identified by its position: the n-th action creates the  *)
(* n-th committee of the contract (nextCommitteeId).                       *)
(*                                                                         *)
(*   log, reduced, mirror, active   see ActionMirror                       *)
(*   mempool         the transaction sent with the fee payer's nonce, if any *)
(*   committeeModel  committee |-> the action its document was made from   *)
(*   storage         in the memory of each server: the member and setting  *)
(*                   trees, committee |-> action                           *)
(*   writes          of each server: upserts and saves nobody awaits       *)
(*   job             the local variables of each server's job              *)
(***************************************************************************)
EXTENDS Naturals, Sequences, FiniteSets

CONSTANTS Server,     \* processes, each with its own trees
          Roller,     \* those that run roll-ups: the dkg worker, if any
          MaxActions  \* bound: actions dispatched on chain

ASSUME CommitteeAssumption == Roller \subseteq Server /\ MaxActions \in Nat

VARIABLES log, reduced, mirror, active, mempool, committeeModel, storage, writes, job

chainVars == <<log, reduced>>
dbVars == <<mirror, active, committeeModel>>
vars == <<chainVars, dbVars, mempool, storage, writes, job>>

Action == {"create"}
Feed == INSTANCE ActionMirror

PC == {"idle", "fetchState", "find", "getData", "findCommittees", "updated",
       "fetchRollupState", "init", "prove", "send"}

EmptyTree == [c \in {} |-> 0]

\* The tree with leaf c set to a, and with every leaf of the other one.
Put(tree, c, a) == [d \in DOMAIN tree \cup {c} |-> IF d = c THEN a ELSE tree[d]]
Overwrite(tree, other) == [c \in DOMAIN tree \cup DOMAIN other |->
                             IF c \in DOMAIN other THEN other[c] ELSE tree[c]]

\* The trees of the contract when it has created n committees.
Trees(n) == [c \in 1 .. n |-> c]

NoProof == [from |-> 0, actions |-> <<>>, tree |-> EmptyTree]

Idle == [pc |-> "idle", state |-> 0, notActiveActions |-> {}, storage |-> EmptyTree,
         proof |-> NoProof, nonce |-> FALSE, undisturbed |-> FALSE]

Init ==
  /\ Feed!Init
  /\ mempool = {}
  /\ committeeModel = EmptyTree
  /\ storage = [s \in Server |-> EmptyTree]
  /\ writes = [s \in Server |-> {}]
  /\ job = [s \in Server |-> Idle]

\* History: what a job read last may have changed since.
Disturbed(jobs) == [s \in Server |-> [jobs[s] EXCEPT !.undisturbed = FALSE]]

\* The account's nonce is not what a job may have fetched any more.
NonceUsed(jobs) == [s \in Server |-> [jobs[s] EXCEPT !.nonce = FALSE]]

\* The first of a list sorted by actionId.
First(list) == CHOOSE i \in list : \A h \in list : i <= h

-----------------------------------------------------------------------------
(***************************************************************************)
(* The chain, and the mirror of its actions (ActionFeed).                  *)
(***************************************************************************)
Dispatch(a) ==
  /\ Len(log) < MaxActions
  /\ Feed!Dispatch(a)
  /\ UNCHANGED <<committeeModel, mempool, storage, writes, job>>

Record(h) ==
  /\ Feed!Record(h)
  /\ UNCHANGED <<committeeModel, mempool, storage, writes, job>>

\* The contract accepts a proof that starts at its state and whose actions are
\* the next ones of the action chain.
Accepts(tx) ==
  /\ tx.from = reduced
  /\ \A n \in DOMAIN tx.actions : tx.actions[n] = tx.from + n

\* A pending transaction is included; the nonce of the others is used.
Include(tx) ==
  /\ reduced' = IF Accepts(tx) THEN reduced + Len(tx.actions) ELSE reduced
  /\ mempool' = {}
  /\ job' = NonceUsed(IF reduced' = reduced THEN job ELSE Disturbed(job))
  /\ UNCHANGED <<log, dbVars, storage, writes>>

\* The contract takes a proof from anyone: another deployment rolls up.
ReduceElsewhere(n) ==
  /\ Feed!Reduce(n)
  /\ job' = Disturbed(job)
  /\ UNCHANGED <<committeeModel, mempool, storage, writes>>

\* Another service sends a transaction of the same fee payer.
OtherTransaction ==
  /\ mempool' = {}
  /\ job' = NonceUsed(job)
  /\ UNCHANGED <<chainVars, dbVars, storage, writes>>

-----------------------------------------------------------------------------
(***************************************************************************)
(* updateCommittees()                                                      *)
(***************************************************************************)
\* A timer adds a job.
Start(s) ==
  /\ job[s].pc = "idle"
  /\ job' = [job EXCEPT ![s].pc = "fetchState"]
  /\ UNCHANGED <<chainVars, dbVars, mempool, storage, writes>>

\* A node that may lag behind answers with a state the contract had.
FetchState(s, r) ==
  /\ job[s].pc = "fetchState"
  /\ job' = [job EXCEPT ![s].pc = "find", ![s].state = r]
  /\ UNCHANGED <<chainVars, dbVars, mempool, storage, writes>>

\* Mutant: the action that leads to state r is left out.
ReducedBefore(r) == {i \in DOMAIN mirror \ active : i < r}

\* The pending actions up to the one that leads to state r, if it is mirrored.
ReducedNotActive(r) ==
  {i \in DOMAIN mirror \ active : r \in DOMAIN mirror /\ i <= r}

Find(s) ==
  /\ job[s].pc = "find"
  /\ job' = [job EXCEPT ![s].pc = "getData", ![s].state = 0,
                        ![s].notActiveActions = ReducedNotActive(job[s].state)]
  /\ UNCHANGED <<chainVars, dbVars, mempool, storage, writes>>

\* The action the loop comes to next.
NextListed(list) == First(list)

\* ipfs.getData is awaited and never throws; the upsert is started.
StartWrite(s) ==
  LET i == NextListed(job[s].notActiveActions)
  IN  /\ job[s].pc = "getData"
      /\ job[s].notActiveActions # {}
      /\ writes' = [writes EXCEPT ![s] = @ \cup {[action |-> i, upserted |-> FALSE]}]
      /\ job' = [job EXCEPT ![s].notActiveActions = @ \ {i}]
      /\ UNCHANGED <<chainVars, dbVars, mempool, storage>>

\* Mutant: the id of a new committee is counted from the documents.
CommitteeIdCounted(i) == Cardinality(DOMAIN committeeModel) + 1

\* committeeId: notActiveAction.actionId
CommitteeId(i) == i

\* findOneAndUpdate({committeeId}, {...}, {upsert: true})
Upsert(s, w) ==
  /\ ~ w.upserted
  /\ committeeModel' = Put(committeeModel, CommitteeId(w.action), w.action)
  /\ writes' = [writes EXCEPT ![s] = (@ \ {w}) \cup {[w EXCEPT !.upserted = TRUE]}]
  /\ UNCHANGED <<chainVars, mirror, active, mempool, storage, job>>

\* Mutant: the save does not wait for the upsert.
SaveAtOnce(s, w) ==
  /\ active' = active \cup {w.action}
  /\ writes' = [writes EXCEPT ![s] = @ \ {w}]
  /\ job' = IF active' = active THEN job ELSE Disturbed(job)
  /\ UNCHANGED <<chainVars, mirror, committeeModel, mempool, storage>>

\* .then(() => notActiveAction.save())
Save(s, w) ==
  /\ w.upserted
  /\ active' = active \cup {w.action}
  /\ writes' = [writes EXCEPT ![s] = @ \ {w}]
  /\ job' = IF active' = active THEN job ELSE Disturbed(job)
  /\ UNCHANGED <<chainVars, mirror, committeeModel, mempool, storage>>

FindDone(s) ==
  /\ job[s].pc = "getData"
  /\ job[s].notActiveActions = {}
  /\ job' = [job EXCEPT ![s].pc = "findCommittees"]
  /\ UNCHANGED <<chainVars, dbVars, mempool, storage, writes>>

\* An awaited call of fetch() throws: fetch() starts over, or gives up after
\* MaxRetries attempts and the trees are updated all the same.
FetchThrows(s) ==
  /\ job[s].pc \in {"fetchState", "find"}
  /\ \E label \in {"fetchState", "findCommittees"} :
       job' = [job EXCEPT ![s].pc = label, ![s].state = 0]
  /\ UNCHANGED <<chainVars, dbVars, mempool, storage, writes>>

-----------------------------------------------------------------------------
(***************************************************************************)
(* updateMerkleTrees() and rollup()                                        *)
(***************************************************************************)

\* find(): the committees, whose trees are written under their committeeId.
Found == committeeModel

\* Nothing is awaited after the find, and documents are never removed.
UpdateMerkleTrees(s) ==
  /\ job[s].pc = "findCommittees"
  /\ storage' = [storage EXCEPT ![s] = Overwrite(@, Found)]
  /\ job' = [job EXCEPT ![s].pc = "updated"]
  /\ UNCHANGED <<chainVars, dbVars, mempool, writes>>

\* The find throws, and nothing is written.
UpdateThrows(s) ==
  /\ job[s].pc = "findCommittees"
  /\ job' = [job EXCEPT ![s].pc = "updated"]
  /\ UNCHANGED <<chainVars, dbVars, mempool, storage, writes>>

\* A job that only updates, or whose order leaves out this roll-up.
Skip(s) ==
  /\ job[s].pc = "updated"
  /\ job' = [job EXCEPT ![s] = Idle]
  /\ UNCHANGED <<chainVars, dbVars, mempool, storage, writes>>

\* The trees of s, the collections and the contract agree.
Synced(s) == active = 1 .. reduced /\ storage[s] = Trees(reduced)

\* find({active: false}, {}, {sort: {actionId: 1}})
NotActiveActions == DOMAIN mirror \ active

FindNotActive(s) ==
  /\ s \in Roller /\ job[s].pc = "updated"
  /\ job' = IF NotActiveActions = {} THEN [job EXCEPT ![s] = Idle]
            ELSE [job EXCEPT ![s].pc = "fetchRollupState",
                             ![s].notActiveActions = NotActiveActions,
                             ![s].undisturbed = Synced(s)]
  /\ UNCHANGED <<chainVars, dbVars, mempool, storage, writes>>

\* A node that may lag behind answers.
FetchRollupState(s, r) ==
  /\ job[s].pc = "fetchRollupState"
  /\ job' = [job EXCEPT ![s].pc = "init", ![s].state = r,
                        ![s].undisturbed = @ /\ r = reduced]
  /\ UNCHANGED <<chainVars, dbVars, mempool, storage, writes>>

\* UpdateCommittee.init is awaited, then the trees are cloned.
InitProof(s) ==
  /\ job[s].pc = "init"
  /\ job' = [job EXCEPT ![s].pc = "prove", ![s].state = 0,
                        ![s].storage = storage[s],
                        ![s].proof = [from |-> job[s].state, actions |-> <<>>,
                                      tree |-> Trees(job[s].state)]]
  /\ UNCHANGED <<chainVars, dbVars, mempool, storage, writes>>

\* Mutant: nextCommitteeId is not incremented.
NextCommitteeIdFixed(s) == job[s].proof.from + 1

\* The local nextCommitteeId: the contract's, plus one for each proof.
NextCommitteeId(s) == job[s].proof.from + Len(job[s].proof.actions) + 1

\* The witnesses of the next committee, its leaves empty, lead to the roots of
\* the proof.
WitnessesFit(s) ==
  job[s].proof.tree =
    [c \in DOMAIN job[s].storage \ {NextCommitteeId(s)} |-> job[s].storage[c]]

\* UpdateCommittee.update(...) and the same update of the clones.
Prove(s) ==
  LET i == NextListed(job[s].notActiveActions)
      Created(tree) == Put(tree, NextCommitteeId(s), i)
  IN  /\ job[s].pc = "prove"
      /\ job[s].notActiveActions # {}
      /\ WitnessesFit(s)
      /\ job' = [job EXCEPT
                   ![s].notActiveActions = @ \ {i},
                   ![s].storage = Created(@),
                   ![s].proof = [from |-> @.from, actions |-> Append(@.actions, i),
                                 tree |-> Created(@.tree)]]
      /\ UNCHANGED <<chainVars, dbVars, mempool, storage, writes>>

\* A proof that does not fit throws, and rollup() returns false.
ProveFails(s) ==
  /\ job[s].pc = "prove"
  /\ job[s].notActiveActions # {}
  /\ ~ WitnessesFit(s)
  /\ job' = [job EXCEPT ![s] = Idle]
  /\ UNCHANGED <<chainVars, dbVars, mempool, storage, writes>>

\* The nonce is read before the transaction itself is proved.
FetchNonce(s) ==
  /\ job[s].pc = "prove"
  /\ job[s].notActiveActions = {}
  /\ job' = [job EXCEPT ![s].pc = "send", ![s].nonce = TRUE,
                        ![s].storage = EmptyTree]
  /\ UNCHANGED <<chainVars, dbVars, mempool, storage, writes>>

\* proveAndSendTx: a transaction with a used nonce is refused, and so is a
\* second one with the same nonce and fee.
Send(s) ==
  /\ job[s].pc = "send"
  /\ mempool' = IF job[s].nonce /\ mempool = {}
                THEN {[from |-> job[s].proof.from,
                       actions |-> job[s].proof.actions]}
                ELSE mempool
  /\ job' = [job EXCEPT ![s] = Idle]
  /\ UNCHANGED <<chainVars, dbVars, storage, writes>>

\* An awaited call of rollup() throws.
RollupThrows(s) ==
  /\ job[s].pc \in {"fetchRollupState", "init", "prove", "send"}
  /\ job' = [job EXCEPT ![s] = Idle]
  /\ UNCHANGED <<chainVars, dbVars, mempool, storage, writes>>

\* The process stops, also because an upsert or a save nobody awaits rejects:
\* its trees and its writes are gone.
Crash(s) ==
  /\ storage' = [storage EXCEPT ![s] = EmptyTree]
  /\ writes' = [writes EXCEPT ![s] = {}]
  /\ job' = [job EXCEPT ![s] = Idle]
  /\ UNCHANGED <<chainVars, dbVars, mempool>>

-----------------------------------------------------------------------------
ChainStep ==
  \/ \E a \in Action : Dispatch(a)
  \/ \E h \in 1 .. Len(log) : Record(h)
  \/ \E n \in 1 .. Len(log) : ReduceElsewhere(n)
  \/ \E tx \in mempool : Include(tx)

Update(s) ==
  \/ Start(s) \/ (\E r \in 0 .. reduced : FetchState(s, r)) \/ Find(s)
  \/ StartWrite(s) \/ FindDone(s) \/ UpdateMerkleTrees(s)

Rollup(s) ==
  \/ FindNotActive(s) \/ (\E r \in 0 .. reduced : FetchRollupState(s, r))
  \/ InitProof(s) \/ Prove(s) \/ ProveFails(s) \/ FetchNonce(s) \/ Send(s)

Write(s) == \E w \in writes[s] : Upsert(s, w) \/ Save(s, w)

\* The write of action i of s that is as far as that.
Completes(s, i, upserted) ==
  \E w \in writes[s] : /\ w = [action |-> i, upserted |-> upserted]
                       /\ Upsert(s, w) \/ Save(s, w)

Fail(s) == FetchThrows(s) \/ UpdateThrows(s) \/ RollupThrows(s) \/ Crash(s)

Next ==
  \/ ChainStep
  \/ OtherTransaction
  \/ \E s \in Server : Update(s) \/ Rollup(s) \/ Skip(s) \/ Write(s) \/ Fail(s)

Spec == Init /\ [][Next]_vars

(***************************************************************************)
(* The timers start jobs over and over, an awaited call answers, a started *)
(* write completes, and the mirror catches up (ActionFeed).                *)
(***************************************************************************)
Fairness ==
  /\ \A s \in Server : WF_vars(Update(s) \/ Rollup(s) \/ Skip(s))
  /\ \A s \in Server, i \in 1 .. MaxActions, upserted \in BOOLEAN :
       WF_vars(Completes(s, i, upserted))
  /\ \A h \in 1 .. MaxActions : WF_vars(h <= Len(log) /\ Record(h))

FairSpec == Spec /\ Fairness

-----------------------------------------------------------------------------
(***************************************************************************)
(* Properties.                                                             *)
(***************************************************************************)
Position == 1 .. Len(log)

IsTree(t) == DOMAIN t \subseteq Nat /\ \A c \in DOMAIN t : t[c] \in Position

LocalsOK(l) ==
  /\ l.pc \in PC
  /\ l.state \in 0 .. reduced
  /\ l.notActiveActions \subseteq Position
  /\ IsTree(l.storage) /\ IsTree(l.proof.tree)
  /\ l.proof.from \in 0 .. reduced
  /\ l.proof.actions \in Seq(Position)
  /\ {l.nonce, l.undisturbed} \subseteq BOOLEAN

TypeOK ==
  /\ log \in Seq(Action)
  /\ reduced \in 0 .. Len(log)
  /\ DOMAIN mirror \subseteq Position
  /\ active \subseteq Position
  /\ \A tx \in mempool : tx.from \in 0 .. reduced /\ tx.actions \in Seq(Position)
  /\ IsTree(committeeModel)
  /\ DOMAIN storage = Server /\ \A s \in Server : IsTree(storage[s])
  /\ writes \in [Server -> SUBSET [action : Position, upserted : BOOLEAN]]
  /\ DOMAIN job = Server /\ \A s \in Server : LocalsOK(job[s])

(* The documents are committees the contract has, under their ids there,   *)
(* although several servers write them in any order and more than once.    *)
CommitteesAreOnChain ==
  \A c \in DOMAIN committeeModel : committeeModel[c] = c /\ c <= reduced

(* An action is never active without its committee, so that a document     *)
(* lost with the writes of a stopped process is written again.             *)
ActiveHasCommittee == active \subseteq DOMAIN committeeModel

(* The trees in memory hold nothing the contract does not have: a tree is  *)
(* at worst behind, and the next pass brings it up to date.                *)
TreesAreBehind ==
  \A s \in Server : \A c \in DOMAIN storage[s] :
    c \in DOMAIN committeeModel /\ storage[s][c] = c

(* A job that nothing disturbs after it found its trees, the collections   *)
(* and the contract in agreement proves every action of its batch, and the *)
(* contract as it is when it is sent accepts it.                           *)
UndisturbedSucceeds ==
  \A s \in Server :
    job[s].undisturbed =>
      /\ job[s].pc = "prove" /\ job[s].notActiveActions # {} => WitnessesFit(s)
      /\ job[s].pc = "send" => Accepts(job[s].proof)

\* A step in which s neither fails nor is answered by a node that lags behind.
\* (A failure may change the state as a step of a job does, which is allowed.)
Healthy(s) ==
  /\ Fail(s) => Update(s) \/ Rollup(s) \/ Skip(s)
  /\ job[s].pc = "fetchState" /\ job'[s].pc = "find" => job'[s].state = reduced

(* If one server is healthy from some moment on, every reduced action gets *)
(* its committee, becomes active and enters that server's trees, although  *)
(* no pass waits for its writes and the other servers may go on stopping   *)
(* in the middle of theirs.                                                *)
EventuallyCreated ==
  \A s \in Server :
    <>[][Healthy(s)]_vars =>
      \A n \in 1 .. MaxActions :
        reduced >= n ~> n \in active /\ n \in DOMAIN storage[s]
=============================================================================
