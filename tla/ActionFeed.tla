----------------------------- MODULE ActionFeed -----------------------------
(***************************************************************************)
(* The loop by which every contract service copies the actions of its      *)
(* contract from the Mina archive node into MongoDB and then marks the     *)
(* reduced ones active: fetch() = fetch...Actions() ; update...Actions().  *)
(* It is translated from RollupContractService, where marking an action    *)
(* active has no other effect.  The other services fetch their actions     *)
(* with the same text, and differ in what they do when they mark them.     *)
(*                                                                         *)
(* The main server, the dkg worker and the boi worker share one database,  *)
(* and inside a process the jobs do not await each other, so any number of *)
(* activations of fetch() run at once.  A Fetcher is one of them; every    *)
(* await is a point where another one may run, and where the process may   *)
(* stop.                                                                   *)
(*                                                                         *)
(* The action state of the contract after i actions is a hash chain over   *)
(* them: it is injective, and state i is written i (0 is                   *)
(* Reducer.initialActionState).                                            *)
(*                                                                         *)
(*   chain          actions dispatched to the contract (external)          *)
(*   contractState  the action state stored by the contract (external)     *)
(*   actionModel    the collection, by its currentActionState              *)
(*   pc, ...        the local variables of each activation                 *)
(***************************************************************************)
EXTENDS Naturals, Sequences

CONSTANTS Fetcher,       \* concurrent activations of fetch()
          Action,        \* payloads of actions
          MaxRetries,    \* attempts of one fetch()
          MaxDispatches  \* bound: actions dispatched on chain

ASSUME FeedAssumption == MaxRetries \in Nat \ {0} /\ MaxDispatches \in Nat

VARIABLES chain, contractState, actionModel,
          pc, count, actionId, previousActionState, actions,
          actionState, notActiveActions

chainVars == <<chain, contractState>>
locals == <<count, actionId, previousActionState, actions,
            actionState, notActiveActions>>
fetchVars == <<chain, contractState, actionModel, pc, locals>>

ActionState == Nat
InitialActionState == 0

Doc == [actionId : Nat, previousActionState : ActionState,
        actions : Action, active : BOOLEAN]

FetchPC == {"idle", "findLast", "fetchActions", "upsert",
            "fetchState", "findNotActive", "activate"}

FeedInit ==
  /\ chain = <<>>
  /\ contractState = InitialActionState
  /\ actionModel = [h \in {} |-> chain[h]]
  /\ pc = [f \in Fetcher |-> "idle"]
  /\ count = [f \in Fetcher |-> 0]
  /\ actionId = [f \in Fetcher |-> 0]
  /\ previousActionState = [f \in Fetcher |-> InitialActionState]
  /\ actions = [f \in Fetcher |-> <<>>]
  /\ actionState = [f \in Fetcher |-> InitialActionState]
  /\ notActiveActions = [f \in Fetcher |-> {}]

-----------------------------------------------------------------------------
(***************************************************************************)
(* The chain.                                                              *)
(***************************************************************************)

\* A user's transaction dispatches an action.
DispatchAction(a) ==
  /\ Len(chain) < MaxDispatches
  /\ chain' = Append(chain, a)
  /\ UNCHANGED <<contractState, actionModel, pc, locals>>

\* A roll-up transaction is included: the contract reduces the actions up to n.
Reduce(n) ==
  /\ contractState' = n
  /\ UNCHANGED <<chain, actionModel, pc, locals>>

-----------------------------------------------------------------------------
(***************************************************************************)
(* One activation of fetch().                                              *)
(***************************************************************************)

\* The variables of fetchRollupActions and updateRollupActions go out of scope.
Forget(f) ==
  /\ actionId' = [actionId EXCEPT ![f] = 0]
  /\ previousActionState' =
       [previousActionState EXCEPT ![f] = InitialActionState]
  /\ actions' = [actions EXCEPT ![f] = <<>>]
  /\ actionState' = [actionState EXCEPT ![f] = InitialActionState]
  /\ notActiveActions' = [notActiveActions EXCEPT ![f] = {}]

\* A job, or onModuleInit, calls fetch().
StartFetch(f) ==
  /\ pc[f] = "idle"
  /\ pc' = [pc EXCEPT ![f] = "findLast"]
  /\ UNCHANGED <<chainVars, actionModel, locals>>

\* findOne({}, {}, {sort: {actionId: -1}})
LastActions ==
  {h \in DOMAIN actionModel :
     \A g \in DOMAIN actionModel :
       actionModel[g].actionId <= actionModel[h].actionId}

\* Mutant: the id of the last action is used again for the next one.
FindLastSameId(f) ==
  /\ pc[f] = "findLast"
  /\ \/ /\ DOMAIN actionModel = {}
        /\ UNCHANGED <<actionId, previousActionState>>
     \/ \E h \in LastActions :
          /\ actionId' = [actionId EXCEPT ![f] = actionModel[h].actionId]
          /\ previousActionState' = [previousActionState EXCEPT ![f] = h]
  /\ pc' = [pc EXCEPT ![f] = "fetchActions"]
  /\ UNCHANGED <<chainVars, actionModel, count, actions, actionState,
                 notActiveActions>>

FindLast(f) ==
  /\ pc[f] = "findLast"
  /\ \/ /\ DOMAIN actionModel = {}
        /\ actionId' = [actionId EXCEPT ![f] = 0]
        /\ previousActionState' =
             [previousActionState EXCEPT ![f] = InitialActionState]
     \/ \E h \in LastActions :
          /\ actionId' = [actionId EXCEPT ![f] = actionModel[h].actionId + 1]
          /\ previousActionState' = [previousActionState EXCEPT ![f] = h]
  /\ pc' = [pc EXCEPT ![f] = "fetchActions"]
  /\ UNCHANGED <<chainVars, actionModel, count, actions, actionState,
                 notActiveActions>>

\* The answer of an archive node that has seen the first n actions, with what
\* is already mirrored sliced off its front.
Fetched(n, id) == [i \in 1 .. n - id |-> [hash |-> id + i,
                                          actions |-> chain[id + i]]]

FetchActions(f, n) ==
  /\ pc[f] = "fetchActions"
  /\ actions' = [actions EXCEPT ![f] = Fetched(n, actionId[f])]
  /\ pc' = [pc EXCEPT ![f] = "upsert"]
  /\ UNCHANGED <<chainVars, actionModel, count, actionId,
                 previousActionState, actionState, notActiveActions>>

\* The unique indexes of the collection: a document with key h may carry the
\* given ids only when no other document does.
NoDuplicateKey(h, id, prev) ==
  \A g \in DOMAIN actionModel \ {h} :
    /\ actionModel[g].actionId # id
    /\ actionModel[g].previousActionState # prev

\* findOneAndUpdate({currentActionState}, {...}, {upsert: true}) leaves the
\* field active alone; a new document gets its default, false.
Upserted(h, id, prev, a) ==
  [g \in DOMAIN actionModel \cup {h} |->
     IF g = h
     THEN [actionId |-> id, previousActionState |-> prev, actions |-> a,
           active |-> h \in DOMAIN actionModel /\ actionModel[h].active]
     ELSE actionModel[g]]

Upsert(f) ==
  /\ pc[f] = "upsert"
  /\ actions[f] # <<>>
  /\ LET action == Head(actions[f])
     IN  /\ NoDuplicateKey(action.hash, actionId[f], previousActionState[f])
         /\ actionModel' = Upserted(action.hash, actionId[f],
                                    previousActionState[f], action.actions)
         /\ previousActionState' =
              [previousActionState EXCEPT ![f] = action.hash]
  /\ actionId' = [actionId EXCEPT ![f] = @ + 1]
  /\ actions' = [actions EXCEPT ![f] = Tail(@)]
  /\ UNCHANGED <<chainVars, pc, count, actionState, notActiveActions>>

UpsertsDone(f) ==
  /\ pc[f] = "upsert"
  /\ actions[f] = <<>>
  /\ pc' = [pc EXCEPT ![f] = "fetchState"]
  /\ Forget(f)
  /\ UNCHANGED <<chainVars, actionModel, count>>

\* A node that may lag behind returns an action state the contract had.  The
\* activations of a process share this._actionState: whichever of them wrote it
\* last, it is such a state.
FetchActionState(f, r) ==
  /\ pc[f] = "fetchState"
  /\ actionState' = [actionState EXCEPT ![f] = r]
  /\ pc' = [pc EXCEPT ![f] = "findNotActive"]
  /\ UNCHANGED <<chainVars, actionModel, count, actionId,
                 previousActionState, actions, notActiveActions>>

\* Mutant: $lt for $lte.
FindPendingBefore(f) ==
  /\ pc[f] = "findNotActive"
  /\ notActiveActions' = [notActiveActions EXCEPT ![f] =
       {h \in DOMAIN actionModel :
          /\ actionState[f] \in DOMAIN actionModel
          /\ actionModel[h].actionId < actionModel[actionState[f]].actionId
          /\ ~ actionModel[h].active}]
  /\ pc' = [pc EXCEPT ![f] = "activate"]
  /\ UNCHANGED <<chainVars, actionModel, count, actionId,
                 previousActionState, actions, actionState>>

\* Mutant: every pending action is found, reduced or not.
FindPendingAll(f) ==
  /\ pc[f] = "findNotActive"
  /\ notActiveActions' = [notActiveActions EXCEPT ![f] =
       {h \in DOMAIN actionModel : ~ actionModel[h].active}]
  /\ pc' = [pc EXCEPT ![f] = "activate"]
  /\ UNCHANGED <<chainVars, actionModel, count, actionId,
                 previousActionState, actions, actionState>>

\* The findOne of the current action and the find of what it covers: no
\* document is ever removed or renumbered, so nothing can come between them.
FindPending(f) ==
  /\ pc[f] = "findNotActive"
  /\ notActiveActions' = [notActiveActions EXCEPT ![f] =
       {h \in DOMAIN actionModel :
          /\ actionState[f] \in DOMAIN actionModel
          /\ actionModel[h].actionId <= actionModel[actionState[f]].actionId
          /\ ~ actionModel[h].active}]
  /\ pc' = [pc EXCEPT ![f] = "activate"]
  /\ UNCHANGED <<chainVars, actionModel, count, actionId,
                 previousActionState, actions, actionState>>

\* set('active', true) and save() of the next one in the order of actionId.
SetActive(f) ==
  /\ pc[f] = "activate"
  /\ \E h \in notActiveActions[f] :
       /\ \A g \in notActiveActions[f] :
            actionModel[h].actionId <= actionModel[g].actionId
       /\ actionModel' = [actionModel EXCEPT ![h].active = TRUE]
       /\ notActiveActions' = [notActiveActions EXCEPT ![f] = @ \ {h}]
  /\ UNCHANGED <<chainVars, pc, count, actionId, previousActionState,
                 actions, actionState>>

\* The loop of fetch() ends.
FetchDone(f) ==
  /\ pc[f] = "activate"
  /\ notActiveActions[f] = {}
  /\ pc' = [pc EXCEPT ![f] = "idle"]
  /\ count' = [count EXCEPT ![f] = 0]
  /\ Forget(f)
  /\ UNCHANGED <<chainVars, actionModel>>

\* Mutant: one attempt more than MaxRetries.
ThrowOnceMore(f) ==
  /\ pc[f] # "idle"
  /\ \/ /\ count[f] < MaxRetries
        /\ count' = [count EXCEPT ![f] = @ + 1]
        /\ pc' = [pc EXCEPT ![f] = "findLast"]
     \/ /\ count[f] = MaxRetries
        /\ count' = [count EXCEPT ![f] = 0]
        /\ pc' = [pc EXCEPT ![f] = "idle"]
  /\ Forget(f)
  /\ UNCHANGED <<chainVars, actionModel>>

\* Any awaited call may throw: the query service gives up and returns
\* undefined, whose fields are then read, or MongoDB refuses an operation.
\* The catch of fetch() starts over, at most MaxRetries times.
Throw(f) ==
  /\ pc[f] # "idle"
  /\ \/ /\ count[f] + 1 < MaxRetries
        /\ count' = [count EXCEPT ![f] = @ + 1]
        /\ pc' = [pc EXCEPT ![f] = "findLast"]
     \/ /\ count[f] + 1 = MaxRetries
        /\ count' = [count EXCEPT ![f] = 0]
        /\ pc' = [pc EXCEPT ![f] = "idle"]
  /\ Forget(f)
  /\ UNCHANGED <<chainVars, actionModel>>

\* The process of the activation stops between two awaits.
StopFetch(f) ==
  /\ pc[f] # "idle"
  /\ pc' = [pc EXCEPT ![f] = "idle"]
  /\ count' = [count EXCEPT ![f] = 0]
  /\ Forget(f)
  /\ UNCHANGED <<chainVars, actionModel>>

-----------------------------------------------------------------------------

ChainStep ==
  \/ \E a \in Action : DispatchAction(a)
  \/ \E n \in contractState + 1 .. Len(chain) : Reduce(n)

\* The steps of an activation that no failure interrupts.
ProceedFetch(f) ==
  \/ StartFetch(f) \/ FindLast(f)
  \/ \E n \in 0 .. Len(chain) : FetchActions(f, n)
  \/ Upsert(f) \/ UpsertsDone(f)
  \/ \E r \in 0 .. contractState : FetchActionState(f, r)
  \/ FindPending(f) \/ SetActive(f) \/ FetchDone(f)

FetcherStep(f) == ProceedFetch(f) \/ Throw(f) \/ StopFetch(f)

FeedNext == ChainStep \/ \E f \in Fetcher : FetcherStep(f)

FeedSpec == FeedInit /\ [][FeedNext]_fetchVars

(***************************************************************************)
(* Awaited calls answer or throw, and the timers start fetch() again when  *)
(* it has ended: every activation keeps moving, possibly to fail each time.*)
(***************************************************************************)
FeedFairness == \A f \in Fetcher : WF_fetchVars(ProceedFetch(f))

FairFeedSpec == FeedSpec /\ FeedFairness

-----------------------------------------------------------------------------
(***************************************************************************)
(* Properties.                                                             *)
(***************************************************************************)

FetchedAction == [hash : ActionState, actions : Action]

FeedTypeOK ==
  /\ chain \in Seq(Action)
  /\ contractState \in 0 .. Len(chain)
  /\ DOMAIN actionModel \subseteq ActionState
  /\ \A h \in DOMAIN actionModel : actionModel[h] \in Doc
  /\ pc \in [Fetcher -> FetchPC]
  /\ count \in [Fetcher -> 0 .. MaxRetries - 1]
  /\ actionId \in [Fetcher -> Nat]
  /\ previousActionState \in [Fetcher -> ActionState]
  /\ actions \in [Fetcher -> Seq(FetchedAction)]
  /\ actionState \in [Fetcher -> ActionState]
  /\ notActiveActions \in [Fetcher -> SUBSET Nat]

(* The collection is a gapless prefix of the chain: the document keyed by  *)
(* action state h carries id h - 1, is linked to state h - 1, and holds    *)
(* the action dispatched there.  The ids are computed by each activation   *)
(* from what it read before its awaits, so this is about stale reads       *)
(* (fetchRollupActions).                                                   *)
MirrorIsPrefix ==
  \A h \in DOMAIN actionModel :
    /\ h \in 1 .. Len(chain)
    /\ h > 1 => h - 1 \in DOMAIN actionModel
    /\ actionModel[h].actionId = h - 1
    /\ actionModel[h].previousActionState = h - 1
    /\ actionModel[h].actions = chain[h]

(* The active documents are a prefix of the reduced ones, although several *)
(* activations mark them from lists read at different times                *)
(* (updateRollupActions): this is what lets the services count active      *)
(* documents to know the next id.                                          *)
ActiveIsReducedPrefix ==
  \A h \in DOMAIN actionModel :
    actionModel[h].active =>
      /\ h <= contractState
      /\ h > 1 => h - 1 \in DOMAIN actionModel /\ actionModel[h - 1].active

(* An upsert repeated by a slow activation never rewrites a mirrored       *)
(* action and never makes an active one pending again.                     *)
NeverRewritten ==
  [][\A h \in DOMAIN actionModel :
       /\ h \in DOMAIN actionModel'
       /\ actionModel'[h].actions = actionModel[h].actions
       /\ actionModel'[h].actionId = actionModel[h].actionId
       /\ actionModel[h].active => actionModel'[h].active]_actionModel

(* The upsert an activation is about to issue never hits a unique index of *)
(* the schema, however stale the ids it computed are: without this, one    *)
(* duplicate key error repeats on every retry and the mirror stops.        *)
UpsertNeverConflicts ==
  \A f \in Fetcher :
    pc[f] = "upsert" /\ actions[f] # <<>> =>
      NoDuplicateKey(Head(actions[f]).hash, actionId[f],
                     previousActionState[f])

\* The abstract view of the same state.
Mirror ==
  INSTANCE ActionMirror
    WITH log <- chain,
         reduced <- contractState,
         mirror <- [h \in DOMAIN actionModel |-> actionModel[h].actions],
         active <- {h \in DOMAIN actionModel : actionModel[h].active}

(* The feed implements the mirror the other services rely on.              *)
MirrorSpec == Mirror!Spec

\* A step in which f does not fail and is not answered by a lagging node.
Healthy(f) ==
  /\ Throw(f) \/ StopFetch(f) => FetchDone(f)  \* a stop at the end changes nothing
  /\ pc[f] = "fetchActions" /\ pc'[f] = "upsert" =>
       actions'[f] = Fetched(Len(chain), actionId[f])
  /\ pc[f] = "fetchState" /\ pc'[f] = "findNotActive" =>
       actionState'[f] = contractState

(* If one activation is healthy from some moment on, every dispatched      *)
(* action is eventually mirrored and every reduced one eventually active,  *)
(* although all the others may go on failing at any of their awaits        *)
(* (fetch, with its retries).                                              *)
EventuallyMirrored ==
  (\E f \in Fetcher : <>[][Healthy(f)]_fetchVars) =>
    \A n \in 1 .. MaxDispatches :
      /\ Len(chain) >= n ~> n \in DOMAIN actionModel
      /\ contractState >= n ~> n \in DOMAIN actionModel /\ actionModel[n].active
=============================================================================
