------------------------ MODULE RollupContractProofs ------------------------
(***************************************************************************)
(* What RollupContractService guarantees for any number of actions: first  *)
(* fetch(), for any number of activations and retries, then the roll-up    *)
(* job, for any number of contracts and jobs.                              *)
(*                                                                         *)
(* The argument for the feed: an activation works from what it read before *)
(* its awaits, but what it read can only become old, never wrong, because  *)
(* documents are added at the end of the mirrored prefix, activated at the *)
(* end of the active prefix, and never change otherwise.                   *)
(*                                                                         *)
(* The argument for the trees: a list that a job has found, when it writes *)
(* it at last, still is what the first actions of the contract are, since  *)
(* actions become active in their order; so the n-th of the list is the    *)
(* n-th of the contract, however old the list.  The argument for a job     *)
(* that nothing disturbs: its clones are the trees of the state that it    *)
(* fetched, its counts are those of the clones, and what it proves next is *)
(* the action after the last one.                                          *)
(***************************************************************************)
EXTENDS ActionFeed, RollupContract, FiniteSetTheorems, TLAPS

-----------------------------------------------------------------------------
(***************************************************************************)
(* The inductive invariant: the three invariants the runs check, and what  *)
(* the local variables of an activation still say about the database.      *)
(***************************************************************************)

\* The last action f read is mirrored.
ReadLast(f) ==
  /\ actionId[f] = 0 \/ actionId[f] \in DOMAIN actionModel
  /\ previousActionState[f] = actionId[f]

\* What f is still to upsert is what follows on chain.
BatchFollows(f) ==
  \A i \in DOMAIN actions[f] :
    /\ actionId[f] + i <= Len(chain)
    /\ actions[f][i].hash = actionId[f] + i
    /\ actions[f][i].actions = chain[actionId[f] + i]

\* f has no batch before it has read the last action.
NoBatchYet(f) == pc[f] \in {"idle", "findLast"} => actions[f] = <<>>

\* What f is still to activate is reduced, and follows what is active.
ListFollows(f) ==
  \A h \in notActiveActions[f] :
    /\ h \in DOMAIN actionModel
    /\ h <= contractState
    /\ h > 1 => \/ h - 1 \in notActiveActions[f]
                \/ h - 1 \in DOMAIN actionModel /\ actionModel[h - 1].active

FetchInv(f) ==
  /\ ReadLast(f) /\ NoBatchYet(f) /\ BatchFollows(f)
  /\ actionState[f] <= contractState /\ ListFollows(f)

FetchesInv == \A f \in Fetcher : FetchInv(f)

FeedInv == FeedTypeOK /\ MirrorIsPrefix /\ ActiveIsReducedPrefix /\ FetchesInv

-----------------------------------------------------------------------------
(* The collection starts empty and nothing has been read.                  *)
LEMMA FeedInitInv == FeedInit => FeedInv
<1> SUFFICES ASSUME FeedInit PROVE FeedInv
  OBVIOUS
<1>1. chain \in Seq(Action) /\ Len(chain) = 0
  BY DEF FeedInit
<1>2. DOMAIN actionModel = {}
  BY DEF FeedInit
<1>3. FeedTypeOK
  BY <1>1, <1>2, FeedAssumption
  DEF FeedInit, FeedTypeOK, FetchPC, ActionState, InitialActionState
<1>4. MirrorIsPrefix /\ ActiveIsReducedPrefix
  BY <1>2 DEF MirrorIsPrefix, ActiveIsReducedPrefix
<1>5. ASSUME NEW f \in Fetcher
      PROVE  /\ ReadLast(f) /\ NoBatchYet(f) /\ BatchFollows(f) /\ ListFollows(f)
             /\ actionState[f] <= contractState
  <2>1. actions[f] = <<>> /\ notActiveActions[f] = {}
    BY DEF FeedInit
  <2>2. NoBatchYet(f) /\ BatchFollows(f) /\ ListFollows(f)
    BY <2>1 DEF NoBatchYet, BatchFollows, ListFollows
  <2>3. ReadLast(f) /\ actionState[f] <= contractState
    BY DEF FeedInit, ReadLast, InitialActionState
  <2> QED
    BY <2>2, <2>3
<1> QED
  BY <1>3, <1>4, <1>5 DEF FeedInv, FetchesInv, FetchInv

(* An archive node's answer, sliced: the actions after the first id, in    *)
(* chain order (fetchRollupActions).                                       *)
LEMMA FetchedIsNext ==
  ASSUME FeedTypeOK, NEW n \in 0 .. Len(chain), NEW id \in Nat
  PROVE  /\ Fetched(n, id) \in Seq(FetchedAction)
         /\ \A i \in DOMAIN Fetched(n, id) :
              /\ id + i <= Len(chain)
              /\ Fetched(n, id)[i].hash = id + i
              /\ Fetched(n, id)[i].actions = chain[id + i]
<1> DEFINE last == IF id < n THEN n - id ELSE 0
<1>1. last \in Nat /\ 1 .. n - id = 1 .. last
  BY DEF FeedTypeOK
<1>2. \A i \in 1 .. last : id + i \in Nat /\ id + i \in 1 .. Len(chain)
  BY <1>1 DEF FeedTypeOK
<1>3. \A i \in 1 .. last : chain[id + i] \in Action
  BY <1>2 DEF FeedTypeOK
<1> HIDE DEF last
<1>4. \A i \in 1 .. last :
        [hash |-> id + i, actions |-> chain[id + i]] \in FetchedAction
  BY <1>2, <1>3 DEF FetchedAction, ActionState
<1> QED
  BY <1>1, <1>2, <1>4 DEF Fetched

-----------------------------------------------------------------------------
(* Every step keeps the types.                                             *)
LEMMA TypeStep == FeedTypeOK /\ [FeedNext]_fetchVars => FeedTypeOK'
<1> SUFFICES ASSUME FeedTypeOK, [FeedNext]_fetchVars PROVE FeedTypeOK'
  OBVIOUS
<1> USE DEF ActionState, InitialActionState
<1>1. ASSUME NEW a \in Action, DispatchAction(a) PROVE FeedTypeOK'
  <2>1. chain' \in Seq(Action) /\ Len(chain') = Len(chain) + 1
    BY <1>1 DEF DispatchAction, FeedTypeOK
  <2>2. contractState' \in 0 .. Len(chain')
    BY <1>1, <2>1 DEF DispatchAction, FeedTypeOK
  <2> QED
    BY <1>1, <2>1, <2>2 DEF DispatchAction, FeedTypeOK, locals
<1>2. ASSUME NEW n \in contractState + 1 .. Len(chain), Reduce(n) PROVE FeedTypeOK'
  BY <1>2 DEF Reduce, FeedTypeOK, locals
<1>3. ASSUME NEW f \in Fetcher, StartFetch(f) PROVE FeedTypeOK'
  BY <1>3 DEF StartFetch, FeedTypeOK, FetchPC, chainVars, locals
<1>4. ASSUME NEW f \in Fetcher, FindLast(f) PROVE FeedTypeOK'
  <2>1. PICK id \in Nat, p \in Nat :
          /\ actionId' = [actionId EXCEPT ![f] = id]
          /\ previousActionState' = [previousActionState EXCEPT ![f] = p]
    <3>1. CASE DOMAIN actionModel = {}
      BY <1>4, <3>1 DEF FindLast, LastActions
    <3>2. CASE \E h \in LastActions :
                 /\ actionId' = [actionId EXCEPT ![f] = actionModel[h].actionId + 1]
                 /\ previousActionState' = [previousActionState EXCEPT ![f] = h]
      <4>1. \A h \in LastActions : h \in Nat /\ actionModel[h].actionId + 1 \in Nat
        BY DEF LastActions, FeedTypeOK, Doc
      <4> QED
        BY <3>2, <4>1
    <3> QED
      BY <1>4, <3>1, <3>2 DEF FindLast
  <2> QED
    BY <1>4, <2>1 DEF FindLast, FeedTypeOK, FetchPC, chainVars
<1>5. ASSUME NEW f \in Fetcher, NEW n \in 0 .. Len(chain), FetchActions(f, n)
      PROVE  FeedTypeOK'
  <2>1. Fetched(n, actionId[f]) \in Seq(FetchedAction)
    BY FetchedIsNext DEF FeedTypeOK
  <2> QED
    BY <1>5, <2>1 DEF FetchActions, FeedTypeOK, FetchPC, chainVars
<1>6. ASSUME NEW f \in Fetcher, Upsert(f) PROVE FeedTypeOK'
  <2> DEFINE action == Head(actions[f])
  <2>1. actions[f] \in Seq(FetchedAction) /\ actions[f] # <<>>
    BY <1>6 DEF Upsert, FeedTypeOK
  <2>2. action \in FetchedAction /\ Tail(actions[f]) \in Seq(FetchedAction)
    BY <2>1
  <2>3. action.hash \in Nat /\ action.actions \in Action
    BY <2>2 DEF FetchedAction
  <2>4. actionModel' = Upserted(action.hash, actionId[f],
                                previousActionState[f], action.actions)
    BY <1>6 DEF Upsert
  <2>5. \A h \in DOMAIN actionModel' : actionModel'[h] \in Doc
    BY <2>3, <2>4 DEF Upserted, FeedTypeOK, Doc
  <2>6. DOMAIN actionModel' \subseteq Nat
    BY <2>3, <2>4 DEF Upserted, FeedTypeOK
  <2> QED
    BY <1>6, <2>2, <2>3, <2>5, <2>6 DEF Upsert, FeedTypeOK, chainVars
<1>7. ASSUME NEW f \in Fetcher, UpsertsDone(f) PROVE FeedTypeOK'
  BY <1>7 DEF UpsertsDone, Forget, FeedTypeOK, FetchPC, chainVars
<1>8. ASSUME NEW f \in Fetcher, NEW r \in 0 .. contractState, FetchActionState(f, r)
      PROVE  FeedTypeOK'
  BY <1>8 DEF FetchActionState, FeedTypeOK, FetchPC, chainVars
<1>9. ASSUME NEW f \in Fetcher, FindPending(f) PROVE FeedTypeOK'
  BY <1>9 DEF FindPending, FeedTypeOK, FetchPC, chainVars
<1>10. ASSUME NEW f \in Fetcher, SetActive(f) PROVE FeedTypeOK'
  <2>1. PICK h \in notActiveActions[f] :
          /\ actionModel' = [actionModel EXCEPT ![h].active = TRUE]
          /\ notActiveActions' = [notActiveActions EXCEPT ![f] = @ \ {h}]
    BY <1>10 DEF SetActive
  <2>2. \A g \in DOMAIN actionModel' : actionModel'[g] \in Doc
    BY <2>1 DEF FeedTypeOK, Doc
  <2>3. DOMAIN actionModel' = DOMAIN actionModel
    BY <2>1
  <2>4. notActiveActions' \in [Fetcher -> SUBSET Nat]
    BY <2>1 DEF FeedTypeOK
  <2>5. UNCHANGED <<chain, contractState, pc, count, actionId, previousActionState,
                    actions, actionState>>
    BY <1>10 DEF SetActive, chainVars
  <2> QED
    BY <2>2, <2>3, <2>4, <2>5 DEF FeedTypeOK
<1>11. ASSUME NEW f \in Fetcher, FetchDone(f) PROVE FeedTypeOK'
  BY <1>11, FeedAssumption DEF FetchDone, Forget, FeedTypeOK, FetchPC, chainVars
<1>12. ASSUME NEW f \in Fetcher, Throw(f) PROVE FeedTypeOK'
  <2>1. count' \in [Fetcher -> 0 .. MaxRetries - 1]
    <3>1. count[f] \in 0 .. MaxRetries - 1
      BY DEF FeedTypeOK
    <3>2. CASE count[f] + 1 < MaxRetries /\ count' = [count EXCEPT ![f] = @ + 1]
      BY <3>1, <3>2, FeedAssumption DEF FeedTypeOK
    <3>3. CASE count' = [count EXCEPT ![f] = 0]
      BY <3>3, FeedAssumption DEF FeedTypeOK
    <3> QED
      BY <1>12, <3>2, <3>3 DEF Throw
  <2>2. pc' \in [Fetcher -> FetchPC]
    BY <1>12 DEF Throw, FeedTypeOK, FetchPC
  <2> QED
    BY <1>12, <2>1, <2>2 DEF Throw, Forget, FeedTypeOK, chainVars
<1>13. ASSUME NEW f \in Fetcher, StopFetch(f) PROVE FeedTypeOK'
  BY <1>13, FeedAssumption DEF StopFetch, Forget, FeedTypeOK, FetchPC, chainVars
<1>14. CASE UNCHANGED fetchVars
  BY <1>14 DEF FeedTypeOK, fetchVars, locals
<1> QED
  BY <1>1, <1>2, <1>3, <1>4, <1>5, <1>6, <1>7, <1>8, <1>9, <1>10, <1>11,
     <1>12, <1>13, <1>14 DEF FeedNext, ChainStep, FetcherStep, ProceedFetch

-----------------------------------------------------------------------------
(***************************************************************************)
(* What any step may do to what is shared: the chain and the database only *)
(* grow.  It is all that the other activations need.                       *)
(***************************************************************************)
FeedGrows ==
  /\ Len(chain) <= Len(chain')
  /\ \A h \in 1 .. Len(chain) : chain'[h] = chain[h]
  /\ contractState <= contractState'
  /\ DOMAIN actionModel \subseteq DOMAIN actionModel'
  /\ \A h \in DOMAIN actionModel :
       actionModel[h].active => actionModel'[h].active

SameLocals(f) ==
  /\ pc'[f] \in {"idle", "findLast"} => pc[f] \in {"idle", "findLast"}
  /\ actionId'[f] = actionId[f]
  /\ previousActionState'[f] = previousActionState[f]
  /\ actions'[f] = actions[f]
  /\ actionState'[f] = actionState[f]
  /\ notActiveActions'[f] = notActiveActions[f]

Forgotten(f) ==
  /\ actionId'[f] = 0 /\ previousActionState'[f] = 0
  /\ actions'[f] = <<>> /\ actionState'[f] = 0 /\ notActiveActions'[f] = {}

(* What an activation read before its awaits stays right while the others  *)
(* run: stale, but never wrong.                                            *)
LEMMA StaleIsHarmless ==
  ASSUME FeedTypeOK, FeedTypeOK', FeedGrows, NEW f \in Fetcher,
         FetchInv(f), SameLocals(f) \/ Forgotten(f)
  PROVE  FetchInv(f)'
<1>1. CASE SameLocals(f)
  <2>1. actionId[f] \in Nat /\ actionState[f] \in Nat
        /\ actions[f] \in Seq(FetchedAction)
        /\ contractState \in Nat /\ contractState' \in Nat /\ Len(chain) \in Nat
        /\ Len(chain') \in Nat
    BY DEF FeedTypeOK, ActionState
  <2>2. ReadLast(f)' /\ NoBatchYet(f)'
    BY <1>1 DEF FetchInv, ReadLast, NoBatchYet, SameLocals, FeedGrows
  <2>3. BatchFollows(f)'
    <3>1. ASSUME NEW i \in DOMAIN actions[f]
          PROVE  /\ actionId[f] + i <= Len(chain')
                 /\ actions[f][i].hash = actionId[f] + i
                 /\ actions[f][i].actions = chain'[actionId[f] + i]
      <4>1. /\ actionId[f] + i <= Len(chain)
            /\ actions[f][i].hash = actionId[f] + i
            /\ actions[f][i].actions = chain[actionId[f] + i]
        BY DEF FetchInv, BatchFollows
      <4>2. actionId[f] + i \in 1 .. Len(chain)
        BY <2>1, <4>1
      <4> QED
        BY <2>1, <4>1, <4>2 DEF FeedGrows
    <3> QED
      BY <1>1, <3>1 DEF SameLocals, BatchFollows
  <2>4. actionState'[f] <= contractState'
    BY <1>1, <2>1 DEF FetchInv, SameLocals, FeedGrows
  <2>5. ListFollows(f)'
    <3>1. ASSUME NEW h \in notActiveActions[f]
          PROVE  /\ h \in DOMAIN actionModel'
                 /\ h <= contractState'
                 /\ h > 1 => \/ h - 1 \in notActiveActions[f]
                             \/ /\ h - 1 \in DOMAIN actionModel'
                                /\ actionModel'[h - 1].active
      <4>1. h \in Nat
        BY DEF FeedTypeOK
      <4> QED
        BY <2>1, <4>1 DEF FetchInv, ListFollows, FeedGrows
    <3> QED
      BY <1>1, <3>1 DEF SameLocals, ListFollows
  <2> QED
    BY <2>2, <2>3, <2>4, <2>5 DEF FetchInv
<1>2. CASE Forgotten(f)
  <2>1. DOMAIN actions'[f] = {} /\ notActiveActions'[f] = {}
    BY <1>2 DEF Forgotten
  <2>2. BatchFollows(f)' /\ ListFollows(f)'
    BY <2>1 DEF BatchFollows, ListFollows
  <2>3. ReadLast(f)' /\ NoBatchYet(f)' /\ actionState'[f] <= contractState'
    BY <1>2 DEF Forgotten, ReadLast, NoBatchYet, FeedTypeOK
  <2> QED
    BY <2>2, <2>3 DEF FetchInv
<1> QED
  BY <1>1, <1>2

(* So a step of f has to be examined for f only.                           *)
LEMMA OthersKeep ==
  ASSUME FeedInv, FeedTypeOK', FeedGrows, NEW f \in Fetcher,
         \A g \in Fetcher \ {f} : SameLocals(g),
         SameLocals(f) \/ Forgotten(f) \/ FetchInv(f)'
  PROVE  FetchesInv'
<1>1. ASSUME NEW g \in Fetcher PROVE FetchInv(g)'
  <2>1. FetchInv(g)
    BY DEF FeedInv, FetchesInv
  <2>2. CASE g # f
    BY <2>1, <2>2, StaleIsHarmless DEF FeedInv
  <2>3. CASE g = f
    BY <2>1, <2>3, StaleIsHarmless DEF FeedInv
  <2> QED
    BY <2>2, <2>3
<1> QED
  BY <1>1 DEF FetchesInv

\* The invariants of the database.
CollectionInv == MirrorIsPrefix /\ ActiveIsReducedPrefix

(* The chain may grow under the database.                                  *)
LEMMA ChainKeeps ==
  ASSUME FeedInv, FeedTypeOK', ChainStep
  PROVE  CollectionInv' /\ FeedGrows /\ \A f \in Fetcher : SameLocals(f)
<1>1. UNCHANGED <<actionModel, pc, locals>>
  BY DEF ChainStep, DispatchAction, Reduce
<1>2. \A f \in Fetcher : SameLocals(f)
  BY <1>1 DEF SameLocals, locals
<1>3. /\ Len(chain) \in Nat /\ Len(chain') \in Nat /\ Len(chain) <= Len(chain')
      /\ \A h \in 1 .. Len(chain) : chain'[h] = chain[h]
      /\ contractState \in Nat /\ contractState' \in Nat /\ contractState <= contractState'
  <2> USE DEF FeedInv, FeedTypeOK
  <2>1. CASE \E a \in Action : DispatchAction(a)
    BY <2>1 DEF DispatchAction
  <2>2. CASE \E n \in contractState + 1 .. Len(chain) : Reduce(n)
    BY <2>2 DEF Reduce
  <2> QED
    BY <2>1, <2>2 DEF ChainStep
<1>4. FeedGrows
  BY <1>1, <1>3 DEF FeedGrows
<1>5. MirrorIsPrefix'
  <2>1. \A h \in DOMAIN actionModel : h \in 1 .. Len(chain) /\ h \in 1 .. Len(chain')
    BY <1>3 DEF FeedInv, MirrorIsPrefix
  <2> QED
    BY <1>1, <1>3, <2>1 DEF FeedInv, MirrorIsPrefix
<1>6. ActiveIsReducedPrefix'
  <2>1. \A h \in DOMAIN actionModel : h \in Nat
    BY DEF FeedInv, FeedTypeOK, ActionState
  <2>2. ASSUME NEW h \in DOMAIN actionModel, actionModel[h].active
        PROVE  /\ h <= contractState'
               /\ h > 1 => h - 1 \in DOMAIN actionModel /\ actionModel[h - 1].active
    <3>1. /\ h <= contractState
          /\ h > 1 => h - 1 \in DOMAIN actionModel /\ actionModel[h - 1].active
      BY <2>2 DEF FeedInv, ActiveIsReducedPrefix
    <3> QED
      BY <1>3, <2>1, <3>1
  <2> QED
    BY <1>1, <2>2 DEF ActiveIsReducedPrefix
<1> QED
  BY <1>2, <1>4, <1>5, <1>6 DEF CollectionInv

(* A step of f that writes nothing to the database.                        *)
LEMMA ReadKeeps ==
  ASSUME FeedInv, FeedTypeOK', UNCHANGED <<chain, contractState, actionModel>>
  PROVE  CollectionInv' /\ FeedGrows
<1>1. Len(chain) \in Nat /\ contractState \in Nat
  BY DEF FeedInv, FeedTypeOK
<1> QED
  BY <1>1 DEF FeedInv, CollectionInv, MirrorIsPrefix, ActiveIsReducedPrefix, FeedGrows

(* An upsert touches one document, and leaves its field active alone.      *)
LEMMA UpsertedIs ==
  ASSUME NEW h, NEW id, NEW prev, NEW a,
         actionModel' = Upserted(h, id, prev, a)
  PROVE  /\ DOMAIN actionModel' = DOMAIN actionModel \cup {h}
         /\ \A g \in DOMAIN actionModel : g # h => actionModel'[g] = actionModel[g]
         /\ actionModel'[h].actionId = id
         /\ actionModel'[h].previousActionState = prev
         /\ actionModel'[h].actions = a
         /\ actionModel'[h].active <=> h \in DOMAIN actionModel /\ actionModel[h].active
<1> DEFINE wasActive == h \in DOMAIN actionModel /\ actionModel[h].active
<1>1. wasActive \in BOOLEAN
  OBVIOUS
<1>2. actionModel' = [g \in DOMAIN actionModel \cup {h} |->
             IF g = h
             THEN [actionId |-> id, previousActionState |-> prev,
                   actions |-> a, active |-> wasActive]
             ELSE actionModel[g]]
  BY DEF Upserted
<1> HIDE DEF wasActive
<1>3. /\ DOMAIN actionModel' = DOMAIN actionModel \cup {h}
      /\ \A g \in DOMAIN actionModel : g # h => actionModel'[g] = actionModel[g]
  BY <1>2
<1>4. actionModel'[h] = [actionId |-> id, previousActionState |-> prev,
              actions |-> a, active |-> wasActive]
  BY <1>2
<1>5. /\ actionModel'[h].actionId = id
      /\ actionModel'[h].previousActionState = prev
      /\ actionModel'[h].actions = a
  BY <1>4
<1>6. actionModel'[h].active = wasActive
  BY <1>4
<1>7. actionModel'[h].active <=> wasActive
  BY <1>6
<1> QED
  BY <1>3, <1>5, <1>7 DEF wasActive

(* An upsert appends to the mirrored prefix, or repeats a document.        *)
LEMMA UpsertKeeps ==
  ASSUME FeedInv, FeedTypeOK', NEW f \in Fetcher, Upsert(f)
  PROVE  CollectionInv' /\ FeedGrows /\ FetchInv(f)'
         /\ \A g \in Fetcher \ {f} : SameLocals(g)
<1> DEFINE h == actionId[f] + 1
<1>1. /\ actions[f] \in Seq(FetchedAction) /\ actions[f] # <<>>
      /\ actionId[f] \in Nat /\ contractState \in Nat /\ Len(chain) \in Nat
  BY DEF Upsert, FeedInv, FeedTypeOK
<1>2. FetchInv(f)
  BY DEF FeedInv, FetchesInv
<1>3. 1 \in DOMAIN actions[f] /\ Head(actions[f]) = actions[f][1]
  BY <1>1
<1>4. /\ Head(actions[f]).hash = h
      /\ Head(actions[f]).actions = chain[h]
      /\ h \in 1 .. Len(chain)
  BY <1>1, <1>2, <1>3 DEF FetchInv, BatchFollows
<1>5. previousActionState[f] = h - 1
  BY <1>1, <1>2 DEF FetchInv, ReadLast
<1>6. /\ DOMAIN actionModel' = DOMAIN actionModel \cup {h}
      /\ \A g \in DOMAIN actionModel : g # h => actionModel'[g] = actionModel[g]
      /\ actionModel'[h].actionId = h - 1
      /\ actionModel'[h].previousActionState = h - 1
      /\ actionModel'[h].actions = chain[h]
      /\ actionModel'[h].active <=> h \in DOMAIN actionModel /\ actionModel[h].active
  <2>1. actionModel' = Upserted(h, actionId[f], h - 1, chain[h])
    BY <1>4, <1>5 DEF Upsert
  <2> HIDE DEF h
  <2>2. /\ DOMAIN actionModel' = DOMAIN actionModel \cup {h}
        /\ \A g \in DOMAIN actionModel : g # h => actionModel'[g] = actionModel[g]
        /\ actionModel'[h].actionId = actionId[f]
        /\ actionModel'[h].previousActionState = h - 1
        /\ actionModel'[h].actions = chain[h]
        /\ actionModel'[h].active <=> h \in DOMAIN actionModel /\ actionModel[h].active
    BY <2>1, UpsertedIs, Zenon
  <2>3. actionId[f] = h - 1
    BY <1>1 DEF h
  <2> QED
    BY <2>2, <2>3, Zenon
<1>7. UNCHANGED <<chain, contractState>>
  BY DEF Upsert, chainVars
<1>8. FeedGrows
  BY <1>1, <1>6, <1>7 DEF FeedGrows
<1>9. h > 1 => h - 1 \in DOMAIN actionModel
  BY <1>1, <1>2 DEF FetchInv, ReadLast
<1>10. MirrorIsPrefix'
  BY <1>4, <1>6, <1>7, <1>9 DEF FeedInv, MirrorIsPrefix
<1>11. ActiveIsReducedPrefix'
  BY <1>6, <1>7 DEF FeedInv, FeedTypeOK, ActionState, ActiveIsReducedPrefix
<1>12. FetchInv(f)'
  <2>1. /\ actionId'[f] = h /\ previousActionState'[f] = h
        /\ actions'[f] = Tail(actions[f])
        /\ actionState'[f] = actionState[f]
        /\ notActiveActions'[f] = notActiveActions[f]
    BY <1>4 DEF Upsert, FeedInv, FeedTypeOK
  <2>2. ReadLast(f)' /\ NoBatchYet(f)'
    BY <1>6, <2>1 DEF ReadLast, NoBatchYet, Upsert
  <2>3. BatchFollows(f)'
    <3>1. ASSUME NEW i \in DOMAIN actions'[f]
          PROVE  /\ h + i <= Len(chain)
                 /\ actions'[f][i].hash = h + i
                 /\ actions'[f][i].actions = chain[h + i]
      <4>1. i \in Nat /\ i + 1 \in DOMAIN actions[f]
            /\ actions'[f][i] = actions[f][i + 1]
        BY <1>1, <2>1
      <4>2. actionId[f] + (i + 1) = h + i
        <5>1. i \in Nat
          BY <4>1
        <5> QED
          BY <1>1, <5>1
      <4> QED
        BY <1>2, <4>1, <4>2 DEF FetchInv, BatchFollows
    <3> QED
      BY <1>7, <2>1, <3>1 DEF BatchFollows
  <2>4. actionState'[f] <= contractState' /\ ListFollows(f)'
    <3>1. /\ actionState[f] <= contractState /\ ListFollows(f)
      BY <1>2 DEF FetchInv
    <3> QED
      BY <1>7, <1>8, <2>1, <3>1 DEF ListFollows, FeedGrows
  <2> QED
    BY <2>2, <2>3, <2>4 DEF FetchInv
<1>13. \A g \in Fetcher \ {f} : SameLocals(g)
  BY DEF Upsert, SameLocals, FeedInv, FeedTypeOK
<1> QED
  BY <1>8, <1>10, <1>11, <1>12, <1>13 DEF CollectionInv

(* Marking the oldest of the list active extends the active prefix.        *)
LEMMA ActivateKeeps ==
  ASSUME FeedInv, FeedTypeOK', NEW f \in Fetcher, SetActive(f)
  PROVE  CollectionInv' /\ FeedGrows /\ FetchInv(f)'
         /\ \A g \in Fetcher \ {f} : SameLocals(g)
<1>1. PICK h \in notActiveActions[f] :
        /\ \A g \in notActiveActions[f] :
             actionModel[h].actionId <= actionModel[g].actionId
        /\ actionModel' = [actionModel EXCEPT ![h].active = TRUE]
        /\ notActiveActions' = [notActiveActions EXCEPT ![f] = @ \ {h}]
  BY DEF SetActive
<1>2. UNCHANGED <<chain, contractState, actionId, previousActionState, actions, actionState>>
  BY DEF SetActive, chainVars
<1>3. FetchInv(f)
  BY DEF FeedInv, FetchesInv
<1>4. /\ h \in DOMAIN actionModel /\ h <= contractState
      /\ h \in Nat /\ contractState \in Nat /\ Len(chain) \in Nat
  BY <1>3 DEF FetchInv, ListFollows, FeedInv, FeedTypeOK
<1>5. h > 1 => h - 1 \in DOMAIN actionModel /\ actionModel[h - 1].active
  <2> SUFFICES ASSUME h > 1, h - 1 \in notActiveActions[f] PROVE FALSE
    BY <1>3 DEF FetchInv, ListFollows
  <2>1. h - 1 \in DOMAIN actionModel
    BY <1>3 DEF FetchInv, ListFollows
  <2>2. actionModel[h].actionId = h - 1 /\ actionModel[h - 1].actionId = h - 2
    BY <1>4, <2>1 DEF FeedInv, MirrorIsPrefix
  <2> QED
    BY <1>1, <1>4, <2>2
<1>6. /\ DOMAIN actionModel' = DOMAIN actionModel
      /\ \A g \in DOMAIN actionModel :
           /\ actionModel'[g].actionId = actionModel[g].actionId
           /\ actionModel'[g].previousActionState = actionModel[g].previousActionState
           /\ actionModel'[g].actions = actionModel[g].actions
      /\ \A g \in DOMAIN actionModel : g # h => actionModel'[g] = actionModel[g]
      /\ actionModel'[h].active
  <2>1. \A g \in DOMAIN actionModel : actionModel[g] \in Doc
    BY DEF FeedInv, FeedTypeOK
  <2>2. DOMAIN actionModel' = DOMAIN actionModel
        /\ \A g \in DOMAIN actionModel : g # h => actionModel'[g] = actionModel[g]
    BY <1>1
  <2>3. actionModel'[h] = [actionModel[h] EXCEPT !.active = TRUE]
    BY <1>1, <1>4
  <2>4. /\ actionModel'[h].actionId = actionModel[h].actionId
        /\ actionModel'[h].previousActionState = actionModel[h].previousActionState
        /\ actionModel'[h].actions = actionModel[h].actions
        /\ actionModel'[h].active
    BY <1>4, <2>1, <2>3 DEF Doc
  <2> QED
    BY <2>2, <2>4
<1>7. FeedGrows
  BY <1>2, <1>4, <1>6 DEF FeedGrows
<1>8. MirrorIsPrefix'
  BY <1>2, <1>6 DEF FeedInv, MirrorIsPrefix
<1>9. ActiveIsReducedPrefix'
  <2>1. ASSUME NEW g \in DOMAIN actionModel, actionModel'[g].active
        PROVE  /\ g <= contractState
               /\ g > 1 => g - 1 \in DOMAIN actionModel /\ actionModel'[g - 1].active
    <3>1. CASE g = h
      BY <1>4, <1>5, <1>6, <3>1
    <3>2. CASE g # h
      <4>1. actionModel[g].active
        BY <1>6, <2>1, <3>2
      <4>2. g <= contractState
            /\ (g > 1 => g - 1 \in DOMAIN actionModel /\ actionModel[g - 1].active)
        BY <4>1 DEF FeedInv, ActiveIsReducedPrefix
      <4> QED
        BY <1>7, <4>2 DEF FeedGrows
    <3> QED
      BY <3>1, <3>2
  <2> QED
    BY <1>2, <1>6, <2>1 DEF ActiveIsReducedPrefix
<1>10. FetchInv(f)'
  <2>1. ReadLast(f)' /\ BatchFollows(f)' /\ actionState'[f] <= contractState'
    BY <1>2, <1>3, <1>6 DEF FetchInv, ReadLast, BatchFollows
  <2>4. NoBatchYet(f)'
    BY DEF SetActive, NoBatchYet
  <2>2. notActiveActions'[f] = notActiveActions[f] \ {h}
    BY <1>1 DEF FeedInv, FeedTypeOK
  <2>3. ListFollows(f)'
    <3>1. ASSUME NEW g \in notActiveActions'[f]
          PROVE  /\ g \in DOMAIN actionModel' /\ g <= contractState'
                 /\ g > 1 => \/ g - 1 \in notActiveActions'[f]
                             \/ /\ g - 1 \in DOMAIN actionModel'
                                /\ actionModel'[g - 1].active
      <4>1. g \in notActiveActions[f]
        BY <2>2
      <4>2. g \in DOMAIN actionModel /\ g <= contractState
            /\ (g > 1 => \/ g - 1 \in notActiveActions[f]
                         \/ g - 1 \in DOMAIN actionModel /\ actionModel[g - 1].active)
        BY <1>3, <4>1 DEF FetchInv, ListFollows
      <4>3. CASE g - 1 = h
        BY <1>2, <1>4, <1>6, <4>2, <4>3
      <4>4. CASE g - 1 # h
        BY <1>2, <1>6, <2>2, <4>2, <4>4
      <4> QED
        BY <4>3, <4>4
    <3> QED
      BY <3>1 DEF ListFollows
  <2> QED
    BY <2>1, <2>3, <2>4 DEF FetchInv
<1>11. \A g \in Fetcher \ {f} : SameLocals(g)
  <2>1. pc' = pc
    BY DEF SetActive
  <2> QED
    BY <1>1, <1>2, <2>1 DEF SameLocals, FeedInv, FeedTypeOK
<1> QED
  BY <1>7, <1>8, <1>9, <1>10, <1>11 DEF CollectionInv

(* What the reading steps of f put in its local variables is right.        *)
LEMMA ReadsAreRight ==
  ASSUME FeedInv, FeedTypeOK', NEW f \in Fetcher,
         \/ FindLast(f)
         \/ \E n \in 0 .. Len(chain) : FetchActions(f, n)
         \/ \E r \in 0 .. contractState : FetchActionState(f, r)
         \/ FindPending(f)
  PROVE  FetchInv(f)'
<1> USE DEF FeedInv, FeedTypeOK
<1>1. FetchInv(f)
  BY DEF FetchesInv
<1>2. CASE FindLast(f)
  <2>1. actions'[f] = <<>> /\ DOMAIN actions'[f] = {}
    BY <1>1, <1>2 DEF FetchInv, NoBatchYet, FindLast
  <2>2. NoBatchYet(f)' /\ BatchFollows(f)'
    BY <2>1 DEF NoBatchYet, BatchFollows
  <2>3. ReadLast(f)'
    <3>1. CASE actionId'[f] = 0 /\ previousActionState'[f] = 0
      BY <3>1 DEF ReadLast
    <3>2. CASE \E h \in LastActions :
                 /\ actionId' = [actionId EXCEPT ![f] = actionModel[h].actionId + 1]
                 /\ previousActionState' = [previousActionState EXCEPT ![f] = h]
      <4>1. PICK h \in LastActions :
                 /\ actionId' = [actionId EXCEPT ![f] = actionModel[h].actionId + 1]
                 /\ previousActionState' = [previousActionState EXCEPT ![f] = h]
        BY <3>2
      <4>2. h \in DOMAIN actionModel /\ h \in Nat /\ actionModel[h].actionId = h - 1
        BY DEF LastActions, MirrorIsPrefix, ActionState
      <4>3. actionId'[f] = h /\ previousActionState'[f] = h
        BY <4>1, <4>2
      <4> QED
        BY <1>2, <4>2, <4>3 DEF ReadLast, FindLast
    <3> QED
      BY <1>2, <3>1, <3>2 DEF FindLast, InitialActionState
  <2>4. actionState'[f] <= contractState' /\ ListFollows(f)'
    BY <1>1, <1>2 DEF FetchInv, FindLast, ListFollows, chainVars
  <2> QED
    BY <2>2, <2>3, <2>4 DEF FetchInv
<1>3. ASSUME NEW n \in 0 .. Len(chain), FetchActions(f, n) PROVE FetchInv(f)'
  <2>1. actions'[f] = Fetched(n, actionId[f]) /\ actionId[f] \in Nat
    BY <1>3 DEF FetchActions
  <2>2. UNCHANGED <<chain, actionId>>
    BY <1>3 DEF FetchActions, chainVars
  <2>3. \A i \in DOMAIN Fetched(n, actionId[f]) :
          /\ actionId[f] + i <= Len(chain)
          /\ Fetched(n, actionId[f])[i].hash = actionId[f] + i
          /\ Fetched(n, actionId[f])[i].actions = chain[actionId[f] + i]
    BY <2>1, FetchedIsNext
  <2>4. BatchFollows(f)'
    BY <2>1, <2>2, <2>3 DEF BatchFollows
  <2>5. NoBatchYet(f)'
    BY <1>3 DEF FetchActions, NoBatchYet
  <2> QED
    BY <1>1, <1>3, <2>4, <2>5
    DEF FetchInv, FetchActions, ReadLast, ListFollows, chainVars
<1>4. ASSUME NEW r \in 0 .. contractState, FetchActionState(f, r) PROVE FetchInv(f)'
  <2>1. NoBatchYet(f)'
    BY <1>4 DEF FetchActionState, NoBatchYet
  <2> QED
    BY <1>1, <1>4, <2>1
    DEF FetchInv, FetchActionState, ReadLast, BatchFollows, ListFollows, chainVars
<1>5. CASE FindPending(f)
  <2>1. UNCHANGED <<chain, contractState, actionModel, actionId, previousActionState,
                    actions, actionState>>
    BY <1>5 DEF FindPending, chainVars
  <2>2. notActiveActions'[f] =
          {h \in DOMAIN actionModel :
             /\ actionState[f] \in DOMAIN actionModel
             /\ actionModel[h].actionId <= actionModel[actionState[f]].actionId
             /\ ~ actionModel[h].active}
    BY <1>5 DEF FindPending
  <2>3. ASSUME NEW h \in notActiveActions'[f]
        PROVE  /\ h \in DOMAIN actionModel
               /\ h <= contractState
               /\ h > 1 => \/ h - 1 \in notActiveActions'[f]
                           \/ h - 1 \in DOMAIN actionModel /\ actionModel[h - 1].active
    <3> DEFINE s == actionState[f]
    <3>1. /\ h \in DOMAIN actionModel /\ s \in DOMAIN actionModel
          /\ actionModel[h].actionId <= actionModel[s].actionId
      BY <2>2
    <3>2. h \in Nat /\ s \in Nat /\ contractState \in Nat /\ s <= contractState
      BY <1>1, <3>1 DEF FetchInv, ActionState
    <3>3. actionModel[h].actionId = h - 1 /\ actionModel[s].actionId = s - 1
      BY <3>1 DEF MirrorIsPrefix
    <3>4. h <= s
      BY <3>1, <3>2, <3>3
    <3>5. h > 1 => h - 1 \in DOMAIN actionModel /\ actionModel[h - 1].actionId = h - 2
      BY <3>1, <3>2 DEF MirrorIsPrefix
    <3>6. h > 1 => actionModel[h - 1].actionId <= actionModel[s].actionId
      BY <3>2, <3>3, <3>4, <3>5
    <3> QED
      BY <2>2, <3>1, <3>2, <3>4, <3>5, <3>6
  <2>4. ListFollows(f)'
    BY <2>1, <2>3 DEF ListFollows
  <2>5. NoBatchYet(f)'
    BY <1>5 DEF FindPending, NoBatchYet
  <2> QED
    BY <1>1, <2>1, <2>4, <2>5 DEF FetchInv, ReadLast, BatchFollows
<1> QED
  BY <1>2, <1>3, <1>4, <1>5

-----------------------------------------------------------------------------
(* Every step keeps the inductive invariant, and only adds to what is      *)
(* shared.                                                                 *)
LEMMA FeedStepInv == FeedInv /\ [FeedNext]_fetchVars => FeedInv' /\ FeedGrows
<1> SUFFICES ASSUME FeedInv, [FeedNext]_fetchVars PROVE FeedInv' /\ FeedGrows
  OBVIOUS
<1>1. FeedTypeOK'
  BY TypeStep DEF FeedInv
<1>2. ASSUME CollectionInv', FeedGrows, FetchesInv' PROVE FeedInv' /\ FeedGrows
  BY <1>1, <1>2 DEF FeedInv, CollectionInv
<1>3. CASE ChainStep
  <2>1. CollectionInv' /\ FeedGrows /\ \A f \in Fetcher : SameLocals(f)
    BY <1>1, <1>3, ChainKeeps
  <2>2. FetchesInv'
    BY <1>1, <2>1, StaleIsHarmless DEF FeedInv, FetchesInv
  <2> QED
    BY <1>2, <2>1, <2>2
<1>4. ASSUME NEW f \in Fetcher,
             \/ StartFetch(f) \/ UpsertsDone(f) \/ FetchDone(f)
             \/ Throw(f) \/ StopFetch(f)
      PROVE  FeedInv' /\ FeedGrows
  <2>1. CollectionInv' /\ FeedGrows
    BY <1>1, <1>4, ReadKeeps
    DEF StartFetch, UpsertsDone, FetchDone, Throw, StopFetch, chainVars
  <2>2. SameLocals(f) \/ Forgotten(f)
    BY <1>4
    DEF StartFetch, UpsertsDone, FetchDone, Throw, StopFetch, Forget, SameLocals,
        Forgotten, locals, FeedInv, FeedTypeOK, InitialActionState
  <2>3. \A g \in Fetcher \ {f} : SameLocals(g)
    BY <1>4
    DEF StartFetch, UpsertsDone, FetchDone, Throw, StopFetch, Forget, SameLocals,
        locals, FeedInv, FeedTypeOK
  <2> QED
    BY <1>1, <1>2, <2>1, <2>2, <2>3, OthersKeep
<1>5. ASSUME NEW f \in Fetcher,
             \/ FindLast(f)
             \/ \E n \in 0 .. Len(chain) : FetchActions(f, n)
             \/ \E r \in 0 .. contractState : FetchActionState(f, r)
             \/ FindPending(f)
      PROVE  FeedInv' /\ FeedGrows
  <2>1. CollectionInv' /\ FeedGrows
    BY <1>1, <1>5, ReadKeeps
    DEF FindLast, FetchActions, FetchActionState, FindPending, chainVars
  <2>2. FetchInv(f)'
    BY <1>1, <1>5, ReadsAreRight
  <2>3. \A g \in Fetcher \ {f} : SameLocals(g)
    BY <1>5
    DEF FindLast, FetchActions, FetchActionState, FindPending, SameLocals, FeedInv, FeedTypeOK
  <2> QED
    BY <1>1, <1>2, <2>1, <2>2, <2>3, OthersKeep
<1>6. ASSUME NEW f \in Fetcher, Upsert(f) \/ SetActive(f) PROVE FeedInv' /\ FeedGrows
  <2>1. CollectionInv' /\ FeedGrows /\ FetchInv(f)'
        /\ \A g \in Fetcher \ {f} : SameLocals(g)
    BY <1>1, <1>6, UpsertKeeps, ActivateKeeps
  <2> QED
    BY <1>1, <1>2, <2>1, OthersKeep
<1>7. CASE UNCHANGED fetchVars
  <2>1. CollectionInv' /\ FeedGrows
    BY <1>1, <1>7, ReadKeeps DEF fetchVars
  <2>2. \A f \in Fetcher : SameLocals(f)
    BY <1>7 DEF fetchVars, locals, SameLocals
  <2>3. FetchesInv'
    BY <1>1, <2>1, <2>2, StaleIsHarmless DEF FeedInv, FetchesInv
  <2> QED
    BY <1>2, <2>1, <2>3
<1> QED
  BY <1>3, <1>4, <1>5, <1>6, <1>7 DEF FeedNext, FetcherStep, ProceedFetch

(* The inductive invariant holds of every behaviour.                       *)
LEMMA AlwaysFeedInv == FeedSpec => []FeedInv
<1>1. FeedInit => FeedInv
  BY FeedInitInv
<1>2. FeedInv /\ [FeedNext]_fetchVars => FeedInv'
  BY FeedStepInv
<1> QED
  BY <1>1, <1>2, PTL DEF FeedSpec

(* The variables keep their types (all of fetch()).                        *)
THEOREM FeedTypeCorrect == FeedSpec => []FeedTypeOK
<1>1. FeedInv => FeedTypeOK
  BY DEF FeedInv
<1> QED
  BY <1>1, AlwaysFeedInv, PTL

(* However many activations run, whatever they read before their awaits    *)
(* and wherever they stop, the collection is a gapless prefix of the chain *)
(* (fetchRollupActions).                                                   *)
THEOREM MirrorCorrect == FeedSpec => []MirrorIsPrefix
<1>1. FeedInv => MirrorIsPrefix
  BY DEF FeedInv
<1> QED
  BY <1>1, AlwaysFeedInv, PTL

(* The active documents are always a prefix of the reduced actions         *)
(* (updateRollupActions).                                                  *)
THEOREM ActiveCorrect == FeedSpec => []ActiveIsReducedPrefix
<1>1. FeedInv => ActiveIsReducedPrefix
  BY DEF FeedInv
<1> QED
  BY <1>1, AlwaysFeedInv, PTL

(* No upsert of fetchRollupActions ever violates a unique index of the     *)
(* schema.                                                                 *)
THEOREM NoConflict == FeedSpec => []UpsertNeverConflicts
<1>1. FeedInv => UpsertNeverConflicts
  <2> SUFFICES ASSUME FeedInv, NEW f \in Fetcher, actions[f] # <<>>,
                      NEW g \in DOMAIN actionModel \ {Head(actions[f]).hash}
               PROVE  /\ actionModel[g].actionId # actionId[f]
                      /\ actionModel[g].previousActionState # previousActionState[f]
    BY DEF UpsertNeverConflicts, NoDuplicateKey
  <2>1. /\ actions[f] \in Seq(FetchedAction) /\ actionId[f] \in Nat /\ g \in Nat
    BY DEF FeedInv, FeedTypeOK, ActionState
  <2>2. 1 \in DOMAIN actions[f] /\ Head(actions[f]) = actions[f][1]
    BY <2>1
  <2>3. g # actionId[f] + 1 /\ previousActionState[f] = actionId[f]
    BY <2>2 DEF FeedInv, FetchesInv, FetchInv, BatchFollows, ReadLast
  <2>4. actionModel[g].actionId = g - 1 /\ actionModel[g].previousActionState = g - 1
    BY DEF FeedInv, MirrorIsPrefix
  <2> QED
    BY <2>1, <2>3, <2>4
<1> QED
  BY <1>1, AlwaysFeedInv, PTL

(* No step removes or rewrites a mirrored action, or makes an active one   *)
(* pending again (the upserts of fetchRollupActions).                      *)
THEOREM Durable == FeedSpec => NeverRewritten
<1>1. FeedInv /\ FeedInv' /\ [FeedNext]_fetchVars =>
        [\A h \in DOMAIN actionModel :
           /\ h \in DOMAIN actionModel'
           /\ actionModel'[h].actions = actionModel[h].actions
           /\ actionModel'[h].actionId = actionModel[h].actionId
           /\ actionModel[h].active => actionModel'[h].active]_actionModel
  <2> SUFFICES ASSUME FeedInv, FeedInv', [FeedNext]_fetchVars, NEW h \in DOMAIN actionModel
               PROVE  /\ h \in DOMAIN actionModel'
                      /\ actionModel'[h].actions = actionModel[h].actions
                      /\ actionModel'[h].actionId = actionModel[h].actionId
                      /\ actionModel[h].active => actionModel'[h].active
    OBVIOUS
  <2>1. FeedGrows
    BY FeedStepInv
  <2>2. h \in DOMAIN actionModel' /\ (actionModel[h].active => actionModel'[h].active)
    BY <2>1 DEF FeedGrows
  <2>3. /\ actionModel[h].actionId = h - 1 /\ actionModel'[h].actionId = h - 1
        /\ actionModel[h].actions = chain[h] /\ actionModel'[h].actions = chain'[h]
        /\ h \in 1 .. Len(chain)
    BY <2>2 DEF FeedInv, MirrorIsPrefix
  <2> QED
    BY <2>1, <2>2, <2>3 DEF FeedGrows
<1> QED
  BY <1>1, AlwaysFeedInv, PTL DEF FeedSpec, NeverRewritten

-----------------------------------------------------------------------------
(***************************************************************************)
(* The feed implements the mirror.                                         *)
(***************************************************************************)
mirrored == [h \in DOMAIN actionModel |-> actionModel[h].actions]
marked == {h \in DOMAIN actionModel : actionModel[h].active}

LEMMA MirrorInit == FeedInit => Mirror!Init
<1> SUFFICES ASSUME FeedInit PROVE Mirror!Init
  OBVIOUS
<1>1. DOMAIN actionModel = {}
  BY DEF FeedInit
<1>2. mirrored = [h \in {} |-> chain[h]] /\ marked = {}
  BY <1>1 DEF mirrored, marked
<1> QED
  BY <1>2 DEF FeedInit, InitialActionState, Mirror!Init, mirrored, marked

(* An upsert of a new action records it; one of a mirrored action, by an   *)
(* activation that started before another finished, changes nothing.       *)
LEMMA UpsertRefines ==
  ASSUME FeedInv, FeedInv', NEW f \in Fetcher, Upsert(f)
  PROVE  [Mirror!Next]_(Mirror!vars)
<1> DEFINE h == Head(actions[f]).hash
<1>1. UNCHANGED <<chain, contractState>>
  BY DEF Upsert, chainVars
<1>2. /\ DOMAIN actionModel' = DOMAIN actionModel \cup {h}
      /\ \A g \in DOMAIN actionModel' :
           actionModel'[g].active <=> g \in DOMAIN actionModel /\ actionModel[g].active
  <2>1. actionModel' = Upserted(h, actionId[f], previousActionState[f],
                                Head(actions[f]).actions)
    BY DEF Upsert
  <2> HIDE DEF h
  <2>2. /\ DOMAIN actionModel' = DOMAIN actionModel \cup {h}
        /\ \A g \in DOMAIN actionModel : g # h => actionModel'[g] = actionModel[g]
        /\ actionModel'[h].active <=> h \in DOMAIN actionModel /\ actionModel[h].active
    BY <2>1, UpsertedIs, Zenon DEF h
  <2>3. ASSUME NEW g \in DOMAIN actionModel'
        PROVE  actionModel'[g].active <=> g \in DOMAIN actionModel /\ actionModel[g].active
    <3>1. CASE g = h
      BY <2>2, <3>1, Zenon
    <3>2. CASE g # h
      <4>1. g \in DOMAIN actionModel
        BY <2>2, <3>2
      <4> QED
        BY <2>2, <3>2, <4>1, Zenon
    <3> QED
      BY <3>1, <3>2
  <2> QED
    BY <2>2, <2>3
<1>3. mirrored' = [g \in DOMAIN actionModel \cup {h} |-> chain[g]]
  BY <1>1, <1>2 DEF FeedInv, MirrorIsPrefix, mirrored
<1>4. marked' = marked
  BY <1>2 DEF marked
<1>5. CASE h \in DOMAIN actionModel
  <2>1. mirrored = [g \in DOMAIN actionModel |-> chain[g]]
    BY DEF FeedInv, MirrorIsPrefix, mirrored
  <2>2. DOMAIN actionModel \cup {h} = DOMAIN actionModel
    BY <1>5
  <2>3. mirrored' = mirrored
    BY <1>3, <2>1, <2>2
  <2>4. UNCHANGED Mirror!vars
    BY <1>1, <1>4, <2>3 DEF Mirror!vars, mirrored, marked
  <2> QED
    BY <2>4
<1>6. CASE h \notin DOMAIN actionModel
  <2>1. h \in 1 .. Len(chain) /\ (h > 1 => h - 1 \in DOMAIN actionModel)
    <3>1. h \in 1 .. Len(chain) /\ (h > 1 => h - 1 \in DOMAIN actionModel')
      BY <1>1, <1>2 DEF FeedInv, MirrorIsPrefix
    <3> QED
      BY <1>2, <3>1
  <2>2. DOMAIN mirrored = DOMAIN actionModel
    BY DEF mirrored
  <2>3. PICK k \in 1 .. Len(chain) : k = h
    BY <2>1
  <2>4. Mirror!Record(k)
    BY <1>1, <1>3, <1>4, <1>6, <2>1, <2>2, <2>3 DEF Mirror!Record, mirrored, marked
  <2> QED
    BY <2>4 DEF Mirror!Next
<1> QED
  BY <1>5, <1>6

(* Marking an action active is the abstract step, or a repetition of it.   *)
LEMMA ActivateRefines ==
  ASSUME FeedInv, FeedInv', NEW f \in Fetcher, SetActive(f)
  PROVE  [Mirror!Next]_(Mirror!vars)
<1>1. PICK h \in notActiveActions[f] :
        actionModel' = [actionModel EXCEPT ![h].active = TRUE]
  BY DEF SetActive
<1>2. UNCHANGED <<chain, contractState>>
  BY DEF SetActive, chainVars
<1>3. h \in DOMAIN actionModel /\ h \in 1 .. Len(chain) /\ h \in Nat
  BY DEF FeedInv, FetchesInv, FetchInv, ListFollows, FeedTypeOK, MirrorIsPrefix
<1>4. DOMAIN actionModel' = DOMAIN actionModel
  BY <1>1
<1>5. mirrored' = mirrored
  BY <1>2, <1>4 DEF FeedInv, MirrorIsPrefix, mirrored
<1>6. actionModel'[h].active
      /\ \A g \in DOMAIN actionModel : g # h => actionModel'[g] = actionModel[g]
  <2>1. actionModel[h] \in Doc
    BY <1>3 DEF FeedInv, FeedTypeOK
  <2>2. actionModel'[h] = [actionModel[h] EXCEPT !.active = TRUE]
    BY <1>1, <1>3
  <2>3. actionModel'[h].active
    BY <2>1, <2>2 DEF Doc
  <2> QED
    BY <1>1, <2>3
<1>7. marked' = marked \cup {h}
  BY <1>3, <1>4, <1>6 DEF marked
<1>8. CASE h \in marked
  <2>1. marked' = marked
    BY <1>7, <1>8
  <2> QED
    BY <1>2, <1>5, <2>1 DEF Mirror!vars, mirrored, marked
<1>9. CASE h \notin marked
  <2>1. h <= contractState /\ (h > 1 => h - 1 \in marked)
    <3>1. h <= contractState' /\ (h > 1 => h - 1 \in DOMAIN actionModel'
                                     /\ actionModel'[h - 1].active)
      BY <1>3, <1>4, <1>6 DEF FeedInv, ActiveIsReducedPrefix
    <3> QED
      BY <1>2, <1>3, <1>4, <1>6, <3>1 DEF marked
  <2>2. DOMAIN mirrored = DOMAIN actionModel
    BY DEF mirrored
  <2>3. Mirror!Activate(h)
    BY <1>2, <1>3, <1>5, <1>7, <1>9, <2>1, <2>2 DEF Mirror!Activate, mirrored, marked
  <2> QED
    BY <1>3, <2>3 DEF Mirror!Next
<1> QED
  BY <1>8, <1>9

(* The database a feed of any number of activations maintains is the       *)
(* mirror of ActionMirror.                                                 *)
THEOREM MirrorRefinement == FeedSpec => MirrorSpec
<1>1. FeedInit => Mirror!Init
  BY MirrorInit
<1>2. FeedInv /\ FeedInv' /\ [FeedNext]_fetchVars => [Mirror!Next]_(Mirror!vars)
  <2> SUFFICES ASSUME FeedInv, FeedInv', [FeedNext]_fetchVars
               PROVE  [Mirror!Next]_(Mirror!vars)
    OBVIOUS
  <2>1. ASSUME NEW a \in Action, DispatchAction(a) PROVE Mirror!Next
    BY <2>1 DEF DispatchAction, Mirror!Next, Mirror!Dispatch
  <2>2. ASSUME NEW n \in contractState + 1 .. Len(chain), Reduce(n) PROVE Mirror!Next
    <3>1. Mirror!Reduce(n) /\ n \in 1 .. Len(chain)
      BY <2>2 DEF Reduce, Mirror!Reduce, FeedInv, FeedTypeOK
    <3> QED
      BY <3>1 DEF Mirror!Next
  <2>3. ASSUME NEW f \in Fetcher, Upsert(f) \/ SetActive(f)
        PROVE  [Mirror!Next]_(Mirror!vars)
    BY <2>3, UpsertRefines, ActivateRefines
  <2>4. ASSUME UNCHANGED <<chain, contractState, actionModel>>
        PROVE  UNCHANGED Mirror!vars
    BY <2>4 DEF Mirror!vars
  <2>5. ASSUME NEW f \in Fetcher, FetcherStep(f), ~ Upsert(f), ~ SetActive(f)
        PROVE  UNCHANGED <<chain, contractState, actionModel>>
    BY <2>5
    DEF FetcherStep, ProceedFetch, StartFetch, FindLast, FetchActions, UpsertsDone,
        FetchActionState, FindPending, FetchDone, Throw, StopFetch, chainVars
  <2>6. CASE UNCHANGED fetchVars
    BY <2>4, <2>6 DEF fetchVars
  <2> QED
    BY <2>1, <2>2, <2>3, <2>4, <2>5, <2>6 DEF FeedNext, ChainStep
<1> QED
  BY <1>1, <1>2, AlwaysFeedInv, PTL DEF FeedSpec, MirrorSpec, Mirror!Spec

-----------------------------------------------------------------------------
(***************************************************************************)
(* The roll-up job: what its local variables say of the trees and of the   *)
(* contract.                                                               *)
(***************************************************************************)
IsLocal(l) ==
  l = [pc |-> l.pc, next |-> l.next, found |-> l.found, notActiveActions |-> l.notActiveActions,
       state |-> l.state, counterStorage |-> l.counterStorage,
       rollupStorage |-> l.rollupStorage, actionCounter |-> l.actionCounter,
       proof |-> l.proof, nonce |-> l.nonce, undisturbed |-> l.undisturbed]

IsProof(p) == p = [from |-> p.from, actions |-> p.actions, counters |-> p.counters, rollups |-> p.rollups]

\* Recorded and active are the first actions, in any case.
FeedRight ==
  /\ log \in Seq(ZkApp) /\ Len(log) <= MaxActions
  /\ reduced \in 0 .. Len(log)
  /\ \E m \in 0 .. Len(log) : DOMAIN mirror = 1 .. m
  /\ \E n \in 0 .. reduced : active = 1 .. n
  /\ active \subseteq DOMAIN mirror

IsTransaction(tx) == tx.from \in 0 .. reduced /\ tx.actions \in Seq(1 .. Len(log))

MempoolRight == \A tx \in mempool : IsTransaction(tx)

StorageRight == counterStorage \in [ZkApp -> Nat] /\ IsTree(rollupStorage) /\ TreesAreRight

\* A list of active actions of a contract lacks none before one it has.
FirstOf(z, ids) == \E n \in Nat : 1 .. n \subseteq active /\ ids = Of(z, 1 .. n)

LocalRight(l) ==
  /\ IsLocal(l) /\ IsProof(l.proof)
  /\ l.pc \in PC /\ l.next \in DOMAIN ZkApps
  /\ (l.pc \notin {"find", "write", "count"} => l.next = 1)
  /\ (l.pc = "write" => FirstOf(ZkApps[l.next], l.found))
  /\ (l.pc # "write" => l.found = {})
  /\ l.notActiveActions \subseteq 1 .. Len(log)
  /\ l.state \in 0 .. reduced
  /\ l.counterStorage \in [ZkApp -> Nat] /\ l.actionCounter \in [ZkApp -> Nat]
  /\ l.proof.counters \in [ZkApp -> Nat]
  /\ IsTree(l.rollupStorage) /\ IsTree(l.proof.rollups)
  /\ IsTransaction(l.proof)
  /\ l.nonce \in BOOLEAN /\ l.undisturbed \in BOOLEAN

\* What is left to prove follows the first n actions.
Follow(ids, n) == \E m \in Nat : ids = n + 1 .. m

\* The clones and the proof begin with the trees of the contract.
Cloned(l) ==
  /\ l.counterStorage = Counters(1 .. reduced) /\ l.proof.counters = Counters(1 .. reduced)
  /\ l.rollupStorage = Rollups(1 .. reduced) /\ l.proof.rollups = Rollups(1 .. reduced)
  /\ l.proof.from = reduced /\ l.proof.actions = <<>>

CountedUpTo(l) == \A m \in 1 .. l.next - 1 : l.actionCounter[ZkApps[m]] = Counters(1 .. reduced)[ZkApps[m]]

\* Clones, counts and proof have gone through the same actions.
InStep(l) ==
  /\ l.counterStorage = l.proof.counters /\ l.actionCounter = l.proof.counters
  /\ l.rollupStorage = l.proof.rollups
  /\ l.rollupStorage = [leaf \in DOMAIN l.rollupStorage |-> l.rollupStorage[leaf]]
  /\ \A leaf \in DOMAIN l.rollupStorage : leaf[2] < l.actionCounter[leaf[1]]

Continues(p) == p.from = reduced /\ \A n \in DOMAIN p.actions : p.actions[n] = reduced + n

UndisturbedRight(l) ==
  l.undisturbed =>
    /\ l.pc \in {"fetchState", "clone", "count"} => Synced /\ Follow(l.notActiveActions, reduced)
    /\ l.pc = "clone" => l.state = reduced
    /\ l.pc = "count" => Cloned(l) /\ CountedUpTo(l)
    /\ l.pc = "prove" => /\ InStep(l) /\ Continues(l.proof)
                         /\ Follow(l.notActiveActions, reduced + Len(l.proof.actions))
    /\ l.pc = "send" => Continues(l.proof)

JobsRight == /\ job = [j \in Job |-> job[j]]
             /\ \A j \in Job : LocalRight(job[j]) /\ UndisturbedRight(job[j])

Right == FeedRight /\ MempoolRight /\ StorageRight /\ JobsRight

-----------------------------------------------------------------------------
(***************************************************************************)
(* Nth(ids, n): the n-th of a finite set of numbers is the one with n      *)
(* below it.                                                               *)
(***************************************************************************)
Below(S, i) == {h \in S : h < i}

LEMMA BoundedIs ==
  ASSUME NEW n \in Nat, NEW S, S \subseteq 1 .. n
  PROVE  /\ IsFiniteSet(S) /\ Cardinality(S) \in Nat /\ Cardinality(S) <= n /\ S \subseteq Nat
<1>1. IsFiniteSet(1 .. n) /\ Cardinality(1 .. n) = IF 1 > n THEN 0 ELSE n - 1 + 1
  BY FS_Interval
<1>2. Cardinality(1 .. n) = n
  BY <1>1
<1>3. IsFiniteSet(S) /\ Cardinality(S) <= n
  BY <1>1, <1>2, FS_Subset
<1> QED
  BY <1>3, FS_CardinalityType

(* The numbers below the elements of a finite set are distinct, and are    *)
(* all numbers below its cardinality.                                      *)
LEMMA RankIs ==
  ASSUME NEW S, S \subseteq Nat, IsFiniteSet(S)
  PROVE  /\ Cardinality(S) \in Nat
         /\ \A i \in S : Cardinality(Below(S, i)) \in 0 .. Cardinality(S) - 1
         /\ \A i, j \in S : Cardinality(Below(S, i)) = Cardinality(Below(S, j)) => i = j
         /\ \A n \in 0 .. Cardinality(S) - 1 : \E i \in S : Cardinality(Below(S, i)) = n
<1>1. Cardinality(S) \in Nat
  BY FS_CardinalityType
<1>2. \A i : IsFiniteSet(Below(S, i)) /\ Cardinality(Below(S, i)) \in Nat
  <2> SUFFICES ASSUME NEW i PROVE IsFiniteSet(Below(S, i)) /\ Cardinality(Below(S, i)) \in Nat
    OBVIOUS
  <2>1. Below(S, i) \in SUBSET S
    BY DEF Below
  <2> QED
    BY <2>1, FS_Subset, FS_CardinalityType
<1>3. ASSUME NEW i \in S PROVE Cardinality(Below(S, i)) \in 0 .. Cardinality(S) - 1
  <2>1. IsFiniteSet(S \ {i}) /\ Cardinality(S \ {i}) = IF i \in S THEN Cardinality(S) - 1 ELSE Cardinality(S)
    BY FS_RemoveElement
  <2>2. Below(S, i) \in SUBSET (S \ {i})
    BY DEF Below
  <2>3. Cardinality(Below(S, i)) <= Cardinality(S \ {i})
    BY <2>1, <2>2, FS_Subset
  <2> QED
    BY <1>1, <1>2, <2>1, <2>3
<1>4. ASSUME NEW i \in S, NEW j \in S, i < j
      PROVE  Cardinality(Below(S, i)) < Cardinality(Below(S, j))
  <2>0. i \in Nat /\ j \in Nat /\ ~ (i < i) /\ \A h \in S : h < i => h < j
    BY <1>4
  <2>1. i \notin Below(S, i) /\ Below(S, i) \cup {i} \in SUBSET Below(S, j)
    BY <1>4, <2>0 DEF Below
  <2>2. Cardinality(Below(S, i) \cup {i}) = IF i \in Below(S, i) THEN Cardinality(Below(S, i))
                                            ELSE Cardinality(Below(S, i)) + 1
    BY <1>2, FS_AddElement
  <2>3. Cardinality(Below(S, i) \cup {i}) <= Cardinality(Below(S, j))
    BY <1>2, <2>1, FS_Subset
  <2>4. Cardinality(Below(S, i)) \in Nat /\ Cardinality(Below(S, j)) \in Nat
    BY <1>2
  <2> QED
    BY <2>1, <2>2, <2>3, <2>4
<1>5. ASSUME NEW i \in S, NEW j \in S, Cardinality(Below(S, i)) = Cardinality(Below(S, j))
      PROVE  i = j
  <2>1. ~ (i < j) /\ ~ (j < i)
    BY <1>2, <1>4, <1>5
  <2>2. i \in Nat /\ j \in Nat
    OBVIOUS
  <2> QED
    BY <2>1, <2>2
<1>6. ASSUME NEW n \in 0 .. Cardinality(S) - 1 PROVE \E i \in S : Cardinality(Below(S, i)) = n
  <2> DEFINE T == 0 .. Cardinality(S) - 1
             f == [i \in S |-> Cardinality(Below(S, i))]
  <2>1. IsFiniteSet(T) /\ Cardinality(T) = IF 0 > Cardinality(S) - 1 THEN 0 ELSE Cardinality(S) - 1 - 0 + 1
    <3>1. 0 \in Int /\ Cardinality(S) - 1 \in Int
      BY <1>1
    <3> QED
      BY <3>1, FS_Interval
  <2>2. Cardinality(T) = Cardinality(S)
    BY <1>1, <2>1
  <2>3. f \in Injection(S, T)
    <3>1. f \in [S -> T]
      BY <1>3
    <3>2. \A i, j \in S : f[i] = f[j] => i = j
      BY <1>5
    <3> HIDE DEF f, T
    <3> QED
      BY <3>1, <3>2 DEF Injection, IsInjective
  <2>4. f \in Surjection(S, T)
    <3> HIDE DEF f, T
    <3> QED
      BY <2>1, <2>2, <2>3, FS_Injection
  <2>5. \E i \in S : f[i] = n
    <3>1. n \in T
      BY <1>6
    <3> HIDE DEF f, T
    <3> QED
      BY <2>4, <3>1 DEF Surjection
  <2> QED
    BY <2>5
<1> QED
  BY <1>1, <1>3, <1>5, <1>6

LEMMA NthIs ==
  ASSUME NEW S, S \subseteq Nat, IsFiniteSet(S), NEW n \in Nat, n < Cardinality(S)
  PROVE  Nth(S, n) \in S /\ Cardinality(Below(S, Nth(S, n))) = n
<1>1. n \in 0 .. Cardinality(S) - 1
  BY FS_CardinalityType
<1>2. \E i \in S : Cardinality(Below(S, i)) = n
  BY <1>1, RankIs
<1> QED
  BY <1>2 DEF Nth, Below

-----------------------------------------------------------------------------
(***************************************************************************)
(* The actions of a contract.                                              *)
(***************************************************************************)
LEMMA Bounds ==
  /\ MaxActions \in Nat /\ Len(ZkApps) \in Nat \ {0} /\ DOMAIN ZkApps = 1 .. Len(ZkApps)
  /\ 1 \in DOMAIN ZkApps
  /\ \A n \in DOMAIN ZkApps : ZkApps[n] \in ZkApp
  /\ \A z \in ZkApp : \E n \in DOMAIN ZkApps : z = ZkApps[n]
<1>1. Len(ZkApps) \in Nat /\ DOMAIN ZkApps = 1 .. Len(ZkApps) /\ ZkApps # <<>>
  BY RollupAssumption
<1>2. Len(ZkApps) # 0
  BY <1>1, RollupAssumption
<1> QED
  BY <1>1, <1>2, RollupAssumption DEF ZkApp

LEMMA FeedIs ==
  ASSUME FeedRight
  PROVE  /\ Len(log) \in Nat /\ DOMAIN log = 1 .. Len(log) /\ Len(log) <= MaxActions
         /\ reduced \in Nat /\ reduced <= Len(log) /\ 1 .. reduced \subseteq DOMAIN log
         /\ active \subseteq 1 .. reduced /\ active \subseteq DOMAIN log
         /\ DOMAIN mirror \subseteq DOMAIN log
         /\ \A i \in DOMAIN log : log[i] \in ZkApp
<1>1. Len(log) \in Nat /\ DOMAIN log = 1 .. Len(log) /\ \A i \in DOMAIN log : log[i] \in ZkApp
  BY DEF FeedRight
<1>2. reduced \in Nat /\ reduced <= Len(log) /\ 1 .. reduced \subseteq DOMAIN log
  BY <1>1 DEF FeedRight
<1>3. active \subseteq 1 .. reduced
  BY <1>2 DEF FeedRight
<1>4. DOMAIN mirror \subseteq DOMAIN log
  BY <1>1 DEF FeedRight
<1> QED
  BY <1>1, <1>2, <1>3, <1>4 DEF FeedRight

LEMMA OfIs ==
  ASSUME FeedRight, NEW z, NEW ids, ids \subseteq DOMAIN log
  PROVE  /\ IsFiniteSet(Of(z, ids)) /\ Of(z, ids) \subseteq ids /\ Of(z, ids) \subseteq Nat
         /\ Cardinality(Of(z, ids)) \in Nat /\ Cardinality(Of(z, ids)) <= MaxActions
<1>1. Of(z, ids) \subseteq ids /\ Of(z, ids) \subseteq 1 .. Len(log)
  BY FeedIs DEF Of
<1>2. Len(log) \in Nat /\ Len(log) <= MaxActions
  BY FeedIs
<1>3. /\ IsFiniteSet(Of(z, ids)) /\ Cardinality(Of(z, ids)) \in Nat
      /\ Cardinality(Of(z, ids)) <= Len(log) /\ Of(z, ids) \subseteq Nat
  BY <1>1, <1>2, BoundedIs
<1> QED
  BY <1>1, <1>2, <1>3, Bounds

(* The leaves of a contract that has a number of actions.                  *)
LEMMA LeavesAre ==
  ASSUME NEW z \in ZkApp, NEW size \in Nat, size <= MaxActions
  PROVE  /\ LeavesOf(z, size) \subseteq ZkApp \X Nat
         /\ \A leaf \in LeavesOf(z, size) : leaf[1] = z /\ leaf[2] \in Nat /\ leaf[2] < size
         /\ \A n \in Nat : n < size => <<z, n>> \in LeavesOf(z, size)
<1>1. \A n \in Nat : n < size => n \in 0 .. MaxActions
  BY Bounds
<1> QED
  BY <1>1 DEF LeavesOf

LEMMA TreesAre ==
  ASSUME FeedRight, NEW ids, ids \subseteq DOMAIN log
  PROVE  /\ Counters(ids) \in [ZkApp -> Nat]
         /\ IsTree(Rollups(ids))
         /\ \A leaf \in DOMAIN Rollups(ids) : leaf[2] < Counters(ids)[leaf[1]]
<1>1. \A z \in ZkApp : /\ Cardinality(Of(z, ids)) \in Nat /\ Cardinality(Of(z, ids)) <= MaxActions
                       /\ IsFiniteSet(Of(z, ids)) /\ Of(z, ids) \subseteq Nat
                       /\ Of(z, ids) \subseteq 1 .. Len(log)
  BY OfIs, FeedIs
<1>2. Counters(ids) \in [ZkApp -> Nat] /\ \A z \in ZkApp : Counters(ids)[z] = Cardinality(Of(z, ids))
  BY <1>1 DEF Counters
<1>3. ASSUME NEW leaf \in DOMAIN Rollups(ids)
      PROVE  /\ leaf \in ZkApp \X Nat /\ leaf[2] < Counters(ids)[leaf[1]]
             /\ Rollups(ids)[leaf] \in 1 .. Len(log)
  <2>1. PICK z \in ZkApp : leaf \in LeavesOf(z, Cardinality(Of(z, ids)))
    BY DEF Rollups
  <2>2. leaf \in ZkApp \X Nat /\ leaf[1] = z /\ leaf[2] \in Nat /\ leaf[2] < Cardinality(Of(z, ids))
    BY <1>1, <2>1, LeavesAre
  <2>3. Rollups(ids)[leaf] = Nth(Of(leaf[1], ids), leaf[2])
    BY DEF Rollups
  <2>4. Nth(Of(z, ids), leaf[2]) \in Of(z, ids)
    BY <1>1, <2>2, NthIs
  <2> QED
    BY <1>1, <1>2, <2>2, <2>3, <2>4
<1> QED
  BY <1>2, <1>3 DEF IsTree

(* The trees of actions that are in the log do not depend on what follows. *)
LEMMA SameTrees ==
  ASSUME NEW ids, \A i \in ids : log'[i] = log[i]
  PROVE  /\ \A z : Of(z, ids)' = Of(z, ids)
         /\ Counters(ids)' = Counters(ids) /\ Rollups(ids)' = Rollups(ids)
<1>1. \A z : Of(z, ids)' = Of(z, ids)
  BY DEF Of
<1>2. Counters(ids)' = Counters(ids)
  BY <1>1 DEF Counters
<1>3. Rollups(ids)' = Rollups(ids)
  BY <1>1 DEF Rollups
<1> QED
  BY <1>1, <1>2, <1>3

-----------------------------------------------------------------------------
(***************************************************************************)
(* What a step leaves right by what it leaves alone.                       *)
(***************************************************************************)
\* What grows.
Grows ==
  /\ \A i \in DOMAIN log : i \in DOMAIN log' /\ log'[i] = log[i]
  /\ Len(log') \in Nat /\ Len(log) <= Len(log')
  /\ reduced' \in Nat /\ reduced <= reduced'
  /\ active \subseteq active'

LEMMA TransactionKeeps ==
  ASSUME FeedRight, Grows, NEW tx, IsTransaction(tx)
  PROVE  IsTransaction(tx)'
<1>1. reduced \in Nat /\ Len(log) \in Nat
  BY FeedIs
<1>2. 0 .. reduced \subseteq 0 .. reduced' /\ 1 .. Len(log) \subseteq 1 .. Len(log')
  BY <1>1 DEF Grows
<1>3. \A S, T : S \subseteq T => Seq(S) \subseteq Seq(T)
  OBVIOUS
<1> QED
  BY <1>2, <1>3 DEF IsTransaction

LEMMA TreeKeeps ==
  ASSUME FeedRight, Grows, NEW t, IsTree(t)
  PROVE  IsTree(t)'
<1>1. Len(log) \in Nat
  BY FeedIs
<1>2. 1 .. Len(log) \subseteq 1 .. Len(log')
  BY <1>1 DEF Grows
<1> QED
  BY <1>2 DEF IsTree

LEMMA FirstOfKeeps ==
  ASSUME FeedRight, Grows, NEW z, NEW ids, FirstOf(z, ids)
  PROVE  FirstOf(z, ids)'
<1>1. PICK n \in Nat : 1 .. n \subseteq active /\ ids = Of(z, 1 .. n)
  BY DEF FirstOf
<1>2. \A i \in 1 .. n : log'[i] = log[i]
  BY <1>1, FeedIs DEF Grows
<1>3. Of(z, 1 .. n)' = Of(z, 1 .. n)
  BY <1>2 DEF Of
<1>4. 1 .. n \subseteq active'
  BY <1>1 DEF Grows
<1> QED
  BY <1>1, <1>3, <1>4 DEF FirstOf

LEMMA LocalKeeps ==
  ASSUME FeedRight, Grows, NEW l, LocalRight(l)
  PROVE  LocalRight(l)'
<1>1. reduced \in Nat /\ Len(log) \in Nat
  BY FeedIs
<1>2. 0 .. reduced \subseteq 0 .. reduced' /\ 1 .. Len(log) \subseteq 1 .. Len(log')
  BY <1>1 DEF Grows
<1>3. IsTransaction(l.proof)'
  BY TransactionKeeps DEF LocalRight
<1>4. IsTree(l.rollupStorage)' /\ IsTree(l.proof.rollups)'
  BY TreeKeeps DEF LocalRight
<1>5. l.pc = "write" => FirstOf(ZkApps[l.next], l.found)'
  BY FirstOfKeeps DEF LocalRight
<1>6. l.state \in 0 .. reduced' /\ l.notActiveActions \subseteq 1 .. Len(log')
  BY <1>2 DEF LocalRight
<1>7. /\ IsLocal(l) /\ IsProof(l.proof)
      /\ l.pc \in PC /\ l.next \in DOMAIN ZkApps
      /\ (l.pc \notin {"find", "write", "count"} => l.next = 1)
      /\ (l.pc # "write" => l.found = {})
      /\ l.counterStorage \in [ZkApp -> Nat] /\ l.actionCounter \in [ZkApp -> Nat]
      /\ l.proof.counters \in [ZkApp -> Nat]
      /\ l.nonce \in BOOLEAN /\ l.undisturbed \in BOOLEAN
  BY DEF LocalRight
<1> QED
  BY <1>3, <1>4, <1>5, <1>6, <1>7 DEF LocalRight, IsLocal, IsProof

(* A job stays undisturbed while the contract, the active actions and the  *)
(* trees are what they were.                                               *)
LEMMA UndisturbedKeeps ==
  ASSUME FeedRight, Grows, UNCHANGED <<reduced, active, storages>>, NEW l, UndisturbedRight(l)
  PROVE  UndisturbedRight(l)'
<1>1. \A i \in 1 .. reduced : log'[i] = log[i]
  BY FeedIs DEF Grows
<1>2. PICK n : n = reduced
  OBVIOUS
<1>3. reduced' = n /\ \A i \in 1 .. n : log'[i] = log[i]
  BY <1>1, <1>2
<1>4. Counters(1 .. n)' = Counters(1 .. n) /\ Rollups(1 .. n)' = Rollups(1 .. n)
  BY <1>3, SameTrees
<1>5. Counters(1 .. reduced)' = Counters(1 .. reduced) /\ Rollups(1 .. reduced)' = Rollups(1 .. reduced)
  BY <1>2, <1>3, <1>4 DEF Counters, Rollups
<1>6. PICK ids : ids = active
  OBVIOUS
<1>7. active' = ids /\ \A i \in ids : log'[i] = log[i]
  BY <1>6, FeedIs DEF Grows
<1>8. Counters(ids)' = Counters(ids) /\ Rollups(ids)' = Rollups(ids)
  BY <1>7, SameTrees
<1>9. Counters(active)' = Counters(active) /\ Rollups(active)' = Rollups(active)
  BY <1>6, <1>7, <1>8 DEF Counters, Rollups
<1>10. Synced => Synced'
  BY <1>9 DEF Synced, storages
<1>11. Cloned(l) => Cloned(l)'
  BY <1>5 DEF Cloned
<1>12. CountedUpTo(l) => CountedUpTo(l)'
  BY <1>5 DEF CountedUpTo
<1>13. \A p : Continues(p)' = Continues(p)
  BY DEF Continues
<1>14. \A s, m : Follow(s, m)' = Follow(s, m)
  BY DEF Follow
<1>15. InStep(l)' = InStep(l)
  BY DEF InStep
<1> HIDE DEF storages
<1> QED
  BY <1>10, <1>11, <1>12, <1>13, <1>14, <1>15 DEF UndisturbedRight, storages

(* The histories of the jobs do not matter but for what is undisturbed.    *)
LEMMA Forgets ==
  ASSUME NEW l, LocalRight(l), NEW b \in BOOLEAN, NEW c \in {FALSE, l.undisturbed},
         NEW m, m = [[l EXCEPT !.nonce = b] EXCEPT !.undisturbed = c]
  PROVE  LocalRight(m) /\ (UndisturbedRight(l) => UndisturbedRight(m))
<1>1. IsLocal(l)
  BY DEF LocalRight
<1>2. /\ m.pc = l.pc /\ m.next = l.next /\ m.found = l.found
      /\ m.notActiveActions = l.notActiveActions /\ m.state = l.state
      /\ m.counterStorage = l.counterStorage /\ m.rollupStorage = l.rollupStorage
      /\ m.actionCounter = l.actionCounter /\ m.proof = l.proof
      /\ m.nonce = b /\ m.undisturbed = c
      /\ IsLocal(m)
  BY <1>1 DEF IsLocal
<1>3. c \in BOOLEAN
  BY DEF LocalRight
<1>4. LocalRight(m)
  BY <1>2, <1>3 DEF LocalRight
<1>5. ASSUME UndisturbedRight(l), m.undisturbed PROVE UndisturbedRight(m)
  <2>1. l.undisturbed
    BY <1>2, <1>5
  <2> QED
    BY <1>2, <1>5, <2>1 DEF UndisturbedRight, Cloned, CountedUpTo, InStep
<1> QED
  BY <1>4, <1>5 DEF UndisturbedRight

(* The trees in memory stay right: their leaves are of actions before      *)
(* those that become active.                                               *)
LEMMA StorageKeeps ==
  ASSUME FeedRight, StorageRight, Grows, UNCHANGED storages,
         \A h \in active' \ active : h \in Nat /\ \A i \in active : i < h
  PROVE  StorageRight'
<1>1. counterStorage' = counterStorage /\ rollupStorage' = rollupStorage
  BY DEF storages
<1>2. IsTree(rollupStorage)'
  <2>1. PICK t : t = rollupStorage
    OBVIOUS
  <2>2. IsTree(t)'
    BY <2>1, TreeKeeps DEF StorageRight
  <2> QED
    BY <1>1, <2>1, <2>2 DEF IsTree
<1>3. ASSUME NEW leaf \in DOMAIN rollupStorage
      PROVE  /\ rollupStorage[leaf] \in Of(leaf[1], active)'
             /\ Cardinality({h \in Of(leaf[1], active)' : h < rollupStorage[leaf]}) = leaf[2]
  <2> DEFINE z == leaf[1]
             i == rollupStorage[leaf]
  <2>1. i \in Of(z, active) /\ Cardinality({h \in Of(z, active) : h < i}) = leaf[2]
    BY DEF StorageRight, TreesAreRight, LeavesAreRight
  <2>2. i \in active /\ i \in Nat /\ active \subseteq DOMAIN log
    BY <2>1, FeedIs DEF Of
  <2>3. \A h \in active : log'[h] = log[h] /\ h \in active'
    BY <2>2 DEF Grows
  <2>4. i \in Of(z, active)'
    BY <2>1, <2>2, <2>3 DEF Of
  <2>5. ASSUME NEW h \in active' \ active PROVE ~ (h < i)
    <3>1. i < h
      BY <2>2
    <3>2. h \in Nat
      OBVIOUS
    <3> QED
      BY <2>2, <3>1, <3>2
  <2>6. {h \in Of(z, active)' : h < i} = {h \in Of(z, active) : h < i}
    BY <2>3, <2>5 DEF Of
  <2> QED
    BY <2>1, <2>4, <2>6
<1>4. LeavesAreRight'
  BY <1>1, <1>3 DEF LeavesAreRight
<1>5. CountersHaveLeaves'
  BY <1>1 DEF StorageRight, TreesAreRight, CountersHaveLeaves, LeavesOf
<1> QED
  BY <1>1, <1>2, <1>4, <1>5 DEF StorageRight, TreesAreRight

LEMMA MempoolKeeps ==
  ASSUME FeedRight, Grows, MempoolRight, mempool' \subseteq mempool
  PROVE  MempoolRight'
<1>1. \A tx \in mempool' : IsTransaction(tx)'
  BY TransactionKeeps DEF MempoolRight
<1> QED
  BY <1>1 DEF MempoolRight

-----------------------------------------------------------------------------
(***************************************************************************)
(* The chain and the collection.                                           *)
(***************************************************************************)
LEMMA SameGrows ==
  ASSUME FeedRight, UNCHANGED feedVars
  PROVE  Grows /\ FeedRight'
<1>1. Len(log) \in Nat /\ reduced \in Nat
  BY FeedIs
<1>2. log' = log /\ reduced' = reduced /\ active' = active /\ mirror' = mirror
  BY DEF feedVars
<1> QED
  BY <1>1, <1>2 DEF Grows, FeedRight

LEMMA JobsKeep ==
  ASSUME FeedRight, Grows, UNCHANGED <<reduced, active, storages>>, job' = [k \in Job |-> job'[k]],
         \A k \in Job : LocalRight(job'[k]) /\ UndisturbedRight(job'[k])
  PROVE  JobsRight'
<1>1. \A k \in Job : LocalRight(job[k])'
  BY LocalKeeps
<1>2. \A k \in Job : UndisturbedRight(job[k])'
  BY UndisturbedKeeps
<1> QED
  BY <1>1, <1>2 DEF JobsRight

(* A step of which the jobs notice nothing.                                *)
LEMMA Unnoticed ==
  ASSUME Right, Grows, FeedRight', UNCHANGED <<reduced, active, storages>>,
         mempool' \subseteq mempool,
         NEW b, b \in {TRUE, FALSE},
         job' = IF b THEN NonceUsed(job) ELSE job
  PROVE  Right'
<1>0. FeedRight /\ MempoolRight /\ StorageRight /\ JobsRight
  BY DEF Right
<1>1. StorageRight'
  BY <1>0, StorageKeeps
<1>2. MempoolRight'
  BY <1>0, MempoolKeeps
<1>3. ASSUME NEW k \in Job PROVE LocalRight(job'[k]) /\ UndisturbedRight(job'[k])
  <2>1. PICK l : l = job[k]
    OBVIOUS
  <2>2. LocalRight(l) /\ UndisturbedRight(l)
    BY <1>0, <2>1 DEF JobsRight
  <2>3. CASE ~ b
    BY <2>1, <2>2, <2>3
  <2>4. CASE b
    <3>1. PICK m : m = job'[k]
      OBVIOUS
    <3>2. m = [l EXCEPT !.nonce = FALSE]
      BY <2>1, <2>4, <3>1 DEF NonceUsed
    <3>3. m = [[l EXCEPT !.nonce = FALSE] EXCEPT !.undisturbed = l.undisturbed]
      BY <2>2, <3>2 DEF LocalRight, IsLocal
    <3>4. LocalRight(m) /\ UndisturbedRight(m)
      BY <2>2, <3>3, Forgets
    <3> QED
      BY <3>1, <3>4
  <2> QED
    BY <2>3, <2>4
<1>4. job' = [k \in Job |-> job'[k]]
  BY <1>0 DEF JobsRight, NonceUsed
<1>5. JobsRight'
  BY <1>0, <1>3, <1>4, JobsKeep
<1> QED
  BY <1>1, <1>2, <1>5 DEF Right

LEMMA DispatchIsRight ==
  ASSUME Right, NEW z \in ZkApp, Dispatch(z)
  PROVE  Right'
<1>0. FeedRight
  BY DEF Right
<1>1. /\ Len(log) < MaxActions /\ log' = Append(log, z)
      /\ UNCHANGED <<reduced, mirror, active, mempool, storages, job>>
  BY DEF Dispatch, Feed!Dispatch
<1>2. /\ Len(log) \in Nat /\ DOMAIN log = 1 .. Len(log) /\ log \in Seq(ZkApp)
      /\ reduced \in Nat /\ reduced <= Len(log)
  BY <1>0, FeedIs DEF FeedRight
<1>3. /\ log' \in Seq(ZkApp) /\ Len(log') = Len(log) + 1
      /\ \A i \in 1 .. Len(log) : log'[i] = log[i]
  BY <1>1, <1>2
<1>4. DOMAIN log' = 1 .. Len(log') /\ Len(log') \in Nat /\ Len(log') <= MaxActions
  BY <1>1, <1>2, <1>3, Bounds
<1>5. Grows
  <2>1. 1 .. Len(log) \subseteq 1 .. Len(log')
    BY <1>2, <1>3
  <2>2. Len(log) <= Len(log') /\ reduced <= reduced' /\ reduced' \in Nat
    BY <1>1, <1>2, <1>3
  <2> QED
    BY <1>1, <1>2, <1>3, <1>4, <2>1, <2>2 DEF Grows
<1>6. FeedRight'
  <2>1. 0 .. Len(log) \subseteq 0 .. Len(log')
    BY <1>2, <1>3
  <2> QED
    BY <1>0, <1>1, <1>3, <1>4, <2>1 DEF FeedRight
<1> QED
  BY <1>1, <1>5, <1>6, Unnoticed

LEMMA RecordIsRight ==
  ASSUME Right, NEW h \in 1 .. Len(log), Record(h)
  PROVE  Right'
<1>0. FeedRight
  BY DEF Right
<1>1. /\ h \notin DOMAIN mirror /\ (h > 1 => h - 1 \in DOMAIN mirror)
      /\ DOMAIN mirror' = DOMAIN mirror \cup {h}
      /\ UNCHANGED <<log, reduced, active, mempool, storages, job>>
  BY DEF Record, Feed!Record
<1>2. Len(log) \in Nat /\ reduced \in Nat
  BY <1>0, FeedIs
<1>3. PICK m \in 0 .. Len(log) : DOMAIN mirror = 1 .. m
  BY <1>0 DEF FeedRight
<1>4. h = m + 1
  BY <1>1, <1>2, <1>3
<1>5. DOMAIN mirror' = 1 .. m + 1 /\ m + 1 \in 0 .. Len(log)
  BY <1>1, <1>2, <1>3, <1>4
<1>6. FeedRight'
  BY <1>0, <1>1, <1>5 DEF FeedRight
<1>7. Grows
  BY <1>1, <1>2 DEF Grows
<1> QED
  BY <1>1, <1>6, <1>7, Unnoticed

LEMMA OtherTransactionIsRight ==
  ASSUME Right, OtherTransaction
  PROVE  Right'
<1>1. mempool' = {} /\ job' = NonceUsed(job) /\ UNCHANGED feedVars /\ UNCHANGED storages
  BY DEF OtherTransaction
<1>2. Grows /\ FeedRight'
  BY <1>1, SameGrows DEF Right
<1>3. UNCHANGED <<reduced, active, storages>>
  BY <1>1 DEF feedVars
<1> QED
  BY <1>1, <1>2, <1>3, Unnoticed

(* Jobs that something has disturbed.                                      *)
LEMMA DisturbedJobs ==
  ASSUME FeedRight, Grows, NEW jobs, \A k \in Job : LocalRight(jobs[k]),
         NEW b, b \in {TRUE, FALSE},
         job' = IF b THEN NonceUsed(Disturbed(jobs)) ELSE Disturbed(jobs)
  PROVE  JobsRight'
<1>1. ASSUME NEW k \in Job PROVE LocalRight(job'[k]) /\ ~ job'[k].undisturbed
  <2>1. PICK l : l = jobs[k]
    OBVIOUS
  <2>2. LocalRight(l) /\ IsLocal(l) /\ l.nonce \in BOOLEAN
    BY <2>1 DEF LocalRight
  <2>3. PICK m : m = job'[k]
    OBVIOUS
  <2>4. m = [[l EXCEPT !.nonce = IF b THEN FALSE ELSE @] EXCEPT !.undisturbed = FALSE]
    <3>1. CASE b
      <4>1. m = [[l EXCEPT !.undisturbed = FALSE] EXCEPT !.nonce = FALSE]
        BY <2>1, <2>3, <3>1 DEF NonceUsed, Disturbed
      <4> QED
        BY <2>2, <3>1, <4>1 DEF IsLocal
    <3>2. CASE ~ b
      <4>1. m = [l EXCEPT !.undisturbed = FALSE]
        BY <2>1, <2>3, <3>2 DEF Disturbed
      <4> QED
        BY <2>2, <3>2, <4>1 DEF IsLocal
    <3> QED
      BY <3>1, <3>2
  <2>5. PICK c \in BOOLEAN : c = IF b THEN FALSE ELSE l.nonce
    BY <2>2
  <2>6. m = [[l EXCEPT !.nonce = c] EXCEPT !.undisturbed = FALSE]
    BY <2>2, <2>4, <2>5 DEF IsLocal
  <2>7. LocalRight(m)
    BY <2>2, <2>6, Forgets
  <2>8. m.undisturbed = FALSE
    BY <2>2, <2>6 DEF IsLocal
  <2> QED
    BY <2>3, <2>7, <2>8
<1>2. \A k \in Job : LocalRight(job[k])'
  BY <1>1, LocalKeeps
<1>3. \A k \in Job : UndisturbedRight(job[k])'
  BY <1>1 DEF UndisturbedRight
<1>4. job' = [k \in Job |-> job'[k]]
  BY DEF NonceUsed, Disturbed
<1> QED
  BY <1>2, <1>3, <1>4 DEF JobsRight

LEMMA ActivateIsRight ==
  ASSUME Right, NEW h \in 1 .. Len(log), Activate(h)
  PROVE  Right'
<1>0. FeedRight /\ MempoolRight /\ StorageRight /\ JobsRight
  BY DEF Right
<1>1. /\ h \in DOMAIN mirror /\ h \notin active /\ h <= reduced /\ (h > 1 => h - 1 \in active)
      /\ active' = active \cup {h} /\ job' = Disturbed(job)
      /\ UNCHANGED <<log, reduced, mirror, mempool, storages>>
  BY DEF Activate, Feed!Activate
<1>2. Len(log) \in Nat /\ reduced \in Nat
  BY <1>0, FeedIs
<1>3. PICK n \in 0 .. reduced : active = 1 .. n
  BY <1>0 DEF FeedRight
<1>4. h = n + 1
  BY <1>1, <1>2, <1>3
<1>5. active' = 1 .. n + 1 /\ n + 1 \in 0 .. reduced
  BY <1>1, <1>2, <1>3, <1>4
<1>6. active' \subseteq DOMAIN mirror
  BY <1>0, <1>1 DEF FeedRight
<1>7. FeedRight'
  BY <1>0, <1>1, <1>5, <1>6 DEF FeedRight
<1>8. Grows
  BY <1>1, <1>2 DEF Grows
<1>9. \A g \in active' \ active : g \in Nat /\ \A i \in active : i < g
  BY <1>1, <1>2, <1>3, <1>4
<1>10. StorageRight'
  BY <1>0, <1>1, <1>8, <1>9, StorageKeeps
<1>11. MempoolRight'
  BY <1>0, <1>1, <1>8, MempoolKeeps
<1>12. JobsRight'
  <2>1. PICK jobs : jobs = job
    OBVIOUS
  <2>2. \A k \in Job : LocalRight(jobs[k])
    BY <1>0, <2>1 DEF JobsRight
  <2> QED
    BY <1>0, <1>1, <1>8, <2>1, <2>2, DisturbedJobs
<1> QED
  BY <1>7, <1>10, <1>11, <1>12 DEF Right

LEMMA IncludeIsRight ==
  ASSUME Right, NEW tx \in mempool, Include(tx)
  PROVE  Right'
<1>0. FeedRight /\ MempoolRight /\ StorageRight /\ JobsRight
  BY DEF Right
<1>1. /\ reduced' = IF Accepts(tx) THEN reduced + Len(tx.actions) ELSE reduced
      /\ mempool' = {}
      /\ job' = NonceUsed(IF reduced' = reduced THEN job ELSE Disturbed(job))
      /\ UNCHANGED <<log, mirror, active, storages>>
  BY DEF Include
<1>2. Len(log) \in Nat /\ reduced \in Nat /\ reduced <= Len(log)
  BY <1>0, FeedIs
<1>3. reduced' \in Nat /\ reduced <= reduced' /\ reduced' <= Len(log)
  <2>1. CASE ~ Accepts(tx)
    BY <1>1, <1>2, <2>1
  <2>2. CASE Accepts(tx)
    <3>1. tx.actions \in Seq(1 .. Len(log)) /\ Len(tx.actions) \in Nat
      BY <1>0 DEF MempoolRight, IsTransaction
    <3>2. reduced' = reduced + Len(tx.actions)
      BY <1>1, <2>2
    <3>3. CASE Len(tx.actions) = 0
      BY <1>2, <3>2, <3>3
    <3>4. CASE Len(tx.actions) # 0
      <4>1. Len(tx.actions) \in DOMAIN tx.actions
        BY <3>1, <3>4
      <4>2. tx.actions[Len(tx.actions)] = tx.from + Len(tx.actions) /\ tx.from = reduced
        BY <2>2, <4>1 DEF Accepts
      <4>3. tx.actions[Len(tx.actions)] \in 1 .. Len(log)
        BY <3>1, <4>1
      <4> QED
        BY <1>2, <3>1, <3>2, <4>2, <4>3
    <3> QED
      BY <3>3, <3>4
  <2> QED
    BY <2>1, <2>2
<1>4. Grows
  BY <1>1, <1>2, <1>3 DEF Grows
<1>5. FeedRight'
  <2>1. 0 .. reduced \subseteq 0 .. reduced' /\ reduced' \in 0 .. Len(log)
    BY <1>2, <1>3
  <2> QED
    BY <1>0, <1>1, <2>1 DEF FeedRight
<1>6. CASE reduced' = reduced
  <2>1. job' = NonceUsed(job) /\ mempool' \subseteq mempool
    BY <1>1, <1>6
  <2> QED
    BY <1>1, <1>4, <1>5, <1>6, <2>1, Unnoticed
<1>7. CASE reduced' # reduced
  <2>1. StorageRight'
    BY <1>0, <1>1, <1>4, StorageKeeps
  <2>2. MempoolRight'
    BY <1>0, <1>1, <1>4, MempoolKeeps
  <2>3. JobsRight'
    <3>1. PICK jobs : jobs = job
      OBVIOUS
    <3>2. \A k \in Job : LocalRight(jobs[k])
      BY <1>0, <3>1 DEF JobsRight
    <3>3. job' = NonceUsed(Disturbed(jobs))
      BY <1>1, <1>7, <3>1
    <3> QED
      BY <1>0, <1>4, <3>2, <3>3, DisturbedJobs
  <2> QED
    BY <1>5, <2>1, <2>2, <2>3 DEF Right
<1> QED
  BY <1>6, <1>7

-----------------------------------------------------------------------------
(***************************************************************************)
(* The jobs.                                                               *)
(***************************************************************************)
(* A step of one job, which leaves the trees as they are.                  *)
LEMMA JobOnly ==
  ASSUME Right, NEW j \in Job, UNCHANGED <<feedVars, mempool, storages>>,
         NEW m, job' = [job EXCEPT ![j] = m], LocalRight(m), UndisturbedRight(m)
  PROVE  Right'
<1>0. FeedRight /\ MempoolRight /\ StorageRight /\ JobsRight
  BY DEF Right
<1>1. Grows /\ FeedRight' /\ UNCHANGED <<reduced, active, storages>>
  BY <1>0, SameGrows DEF feedVars
<1>2. StorageRight'
  BY <1>0, <1>1, StorageKeeps
<1>3. MempoolRight'
  BY <1>0, <1>1, MempoolKeeps
<1>4. \A k \in Job : LocalRight(job'[k]) /\ UndisturbedRight(job'[k])
  BY <1>0 DEF JobsRight
<1>5. job' = [k \in Job |-> job'[k]]
  BY <1>0 DEF JobsRight
<1>6. JobsRight'
  BY <1>0, <1>1, <1>4, <1>5, JobsKeep
<1> QED
  BY <1>1, <1>2, <1>3, <1>6 DEF Right

LEMMA IdleIs ==
  ASSUME FeedRight
  PROVE  LocalRight(Idle) /\ UndisturbedRight(Idle)
<1>1. 0 \in 0 .. reduced
  BY FeedIs
<1>2. NoCounters \in [ZkApp -> Nat] /\ IsTree(EmptyTree)
  BY DEF NoCounters, EmptyTree, IsTree
<1>3. IsTransaction(NoProof) /\ IsProof(NoProof)
  BY <1>1 DEF NoProof, IsTransaction, IsProof
<1>4. NoProof.counters = NoCounters /\ NoProof.rollups = EmptyTree
  BY DEF NoProof
<1>5. 1 \in DOMAIN ZkApps
  BY Bounds
<1>6. /\ Idle.pc = "idle" /\ Idle.next = 1 /\ Idle.found = {} /\ Idle.notActiveActions = {}
      /\ Idle.state = 0 /\ Idle.counterStorage = NoCounters /\ Idle.rollupStorage = EmptyTree
      /\ Idle.actionCounter = NoCounters /\ Idle.proof = NoProof /\ Idle.nonce = FALSE
      /\ Idle.undisturbed = FALSE /\ IsLocal(Idle)
  BY DEF Idle, IsLocal
<1> QED
  BY <1>1, <1>2, <1>3, <1>4, <1>5, <1>6 DEF LocalRight, UndisturbedRight, PC

(* A job that is over.                                                     *)
LEMMA ReturnIsRight ==
  ASSUME Right, NEW j \in Job, job' = [job EXCEPT ![j] = Idle], UNCHANGED <<feedVars, mempool, storages>>
  PROVE  Right'
<1>1. LocalRight(Idle) /\ UndisturbedRight(Idle)
  BY IdleIs DEF Right
<1>2. PICK m : m = Idle
  OBVIOUS
<1> QED
  BY <1>1, <1>2, JobOnly

LEMMA CrashIsRight ==
  ASSUME Right, Crash
  PROVE  Right'
<1>0. FeedRight /\ MempoolRight /\ StorageRight /\ JobsRight
  BY DEF Right
<1>1. /\ counterStorage' = NoCounters /\ rollupStorage' = EmptyTree
      /\ job' = [k \in Job |-> Idle] /\ UNCHANGED feedVars /\ UNCHANGED mempool
  BY DEF Crash
<1>2. Grows /\ FeedRight'
  BY <1>0, <1>1, SameGrows
<1>3. MempoolRight'
  BY <1>0, <1>1, <1>2, MempoolKeeps
<1>4. StorageRight'
  <2>1. NoCounters \in [ZkApp -> Nat] /\ \A z \in ZkApp : NoCounters[z] = 0
    BY DEF NoCounters
  <2>2. DOMAIN EmptyTree = {}
    BY DEF EmptyTree
  <2>3. \A z : LeavesOf(z, 0) = {}
    BY DEF LeavesOf
  <2>4. IsTree(rollupStorage)' /\ LeavesAreRight'
    BY <1>1, <2>2 DEF IsTree, LeavesAreRight
  <2>5. CountersHaveLeaves'
    BY <1>1, <2>1, <2>3 DEF CountersHaveLeaves, LeavesOf
  <2> QED
    BY <1>1, <2>1, <2>4, <2>5 DEF StorageRight, TreesAreRight
<1>5. JobsRight'
  <2>1. LocalRight(Idle) /\ ~ Idle.undisturbed
    BY <1>0, IdleIs DEF Idle
  <2>2. \A k \in Job : LocalRight(job'[k]) /\ ~ job'[k].undisturbed
    BY <1>1, <2>1
  <2>3. \A k \in Job : LocalRight(job[k])'
    BY <1>0, <1>2, <2>2, LocalKeeps
  <2>4. \A k \in Job : UndisturbedRight(job[k])'
    BY <2>2 DEF UndisturbedRight
  <2> QED
    BY <1>1, <2>3, <2>4 DEF JobsRight
<1> QED
  BY <1>2, <1>3, <1>4, <1>5 DEF Right

LEMMA LocalIs ==
  ASSUME Right, NEW j \in Job, NEW l, l = job[j]
  PROVE  /\ LocalRight(l) /\ UndisturbedRight(l) /\ IsLocal(l)
BY DEF Right, JobsRight, LocalRight

LEMMA StartIsRight ==
  ASSUME Right, NEW j \in Job, Start(j)
  PROVE  Right'
<1>1. PICK l : l = job[j]
  OBVIOUS
<1>2. PICK m : m = [l EXCEPT !.pc = "find"]
  OBVIOUS
<1>3. LocalRight(l) /\ IsLocal(l) /\ UndisturbedRight(l)
  BY <1>1, LocalIs
<1>4. job' = [job EXCEPT ![j] = m] /\ UNCHANGED <<feedVars, mempool, storages>> /\ l.pc = "idle"
  BY <1>1, <1>2 DEF Start
<1>5. /\ m.pc = "find" /\ m.next = l.next /\ m.found = l.found
      /\ m.notActiveActions = l.notActiveActions /\ m.state = l.state
      /\ m.counterStorage = l.counterStorage /\ m.rollupStorage = l.rollupStorage
      /\ m.actionCounter = l.actionCounter /\ m.proof = l.proof
      /\ m.nonce = l.nonce /\ m.undisturbed = l.undisturbed /\ IsLocal(m)
  BY <1>2, <1>3 DEF IsLocal
<1>6. LocalRight(m)
  BY <1>3, <1>4, <1>5 DEF LocalRight, PC
<1>7. UndisturbedRight(m)
  BY <1>5 DEF UndisturbedRight
<1> QED
  BY <1>4, <1>6, <1>7, JobOnly

LEMMA FindActiveIsRight ==
  ASSUME Right, NEW j \in Job, FindActive(j)
  PROVE  Right'
<1>1. PICK l : l = job[j]
  OBVIOUS
<1>2. PICK found : found = Of(ZkApps[l.next], active)
  OBVIOUS
<1>3. PICK m : m = [l EXCEPT !.pc = "write", !.found = found]
  OBVIOUS
<1>4. LocalRight(l) /\ IsLocal(l) /\ FeedRight
  BY <1>1, LocalIs DEF Right
<1>5. job' = [job EXCEPT ![j] = m] /\ UNCHANGED <<feedVars, mempool, storages>> /\ l.pc = "find"
  BY <1>1, <1>2, <1>3 DEF FindActive
<1>6. /\ m.pc = "write" /\ m.next = l.next /\ m.found = found
      /\ m.notActiveActions = l.notActiveActions /\ m.state = l.state
      /\ m.counterStorage = l.counterStorage /\ m.rollupStorage = l.rollupStorage
      /\ m.actionCounter = l.actionCounter /\ m.proof = l.proof
      /\ m.nonce = l.nonce /\ m.undisturbed = l.undisturbed /\ IsLocal(m)
  BY <1>3, <1>4 DEF IsLocal
<1>7. FirstOf(ZkApps[l.next], found)
  <2>1. PICK n \in 0 .. reduced : active = 1 .. n
    BY <1>4 DEF FeedRight
  <2>2. n \in Nat
    OBVIOUS
  <2> QED
    BY <1>2, <2>1, <2>2 DEF FirstOf
<1>8. LocalRight(m)
  BY <1>4, <1>5, <1>6, <1>7 DEF LocalRight, PC
<1>9. UndisturbedRight(m)
  BY <1>6 DEF UndisturbedRight
<1> QED
  BY <1>5, <1>8, <1>9, JobOnly

LEMMA UpdateThrowsIsRight ==
  ASSUME Right, NEW j \in Job, UpdateThrows(j)
  PROVE  Right'
<1>1. PICK l : l = job[j]
  OBVIOUS
<1>2. PICK m : m = [l EXCEPT !.pc = "updated", !.next = 1]
  OBVIOUS
<1>3. LocalRight(l) /\ IsLocal(l)
  BY <1>1, LocalIs
<1>4. job' = [job EXCEPT ![j] = m] /\ UNCHANGED <<feedVars, mempool, storages>> /\ l.pc = "find"
  BY <1>1, <1>2 DEF UpdateThrows
<1>5. /\ m.pc = "updated" /\ m.next = 1 /\ m.found = l.found
      /\ m.notActiveActions = l.notActiveActions /\ m.state = l.state
      /\ m.counterStorage = l.counterStorage /\ m.rollupStorage = l.rollupStorage
      /\ m.actionCounter = l.actionCounter /\ m.proof = l.proof
      /\ m.nonce = l.nonce /\ m.undisturbed = l.undisturbed /\ IsLocal(m)
  BY <1>2, <1>3 DEF IsLocal
<1>6. LocalRight(m)
  BY <1>3, <1>4, <1>5, Bounds DEF LocalRight, PC
<1>7. UndisturbedRight(m)
  BY <1>5 DEF UndisturbedRight
<1> QED
  BY <1>4, <1>6, <1>7, JobOnly

LEMMA NextTreeIsRight ==
  ASSUME Right, NEW j \in Job, job[j].pc = "write", NEW jobs, jobs = NextTree(j)
  PROVE  /\ jobs = [k \in Job |-> jobs[k]]
         /\ \A k \in Job : LocalRight(jobs[k]) /\ UndisturbedRight(jobs[k])
<1>0. JobsRight
  BY DEF Right
<1>1. PICK l : l = job[j]
  OBVIOUS
<1>2. LocalRight(l) /\ IsLocal(l) /\ l.pc = "write" /\ l.next \in DOMAIN ZkApps
  BY <1>1, LocalIs DEF LocalRight
<1>3. PICK n : n = IF l.next < Len(ZkApps) THEN l.next + 1 ELSE 1
  OBVIOUS
<1>4. PICK label : label = IF l.next < Len(ZkApps) THEN "find" ELSE "updated"
  OBVIOUS
<1>5. PICK m : m = [l EXCEPT !.pc = label, !.next = n, !.found = {}]
  OBVIOUS
<1>6. jobs = [job EXCEPT ![j] = m]
  <2>1. CASE l.next < Len(ZkApps)
    BY <1>1, <1>3, <1>4, <1>5, <2>1 DEF NextTree
  <2>2. CASE ~ (l.next < Len(ZkApps))
    BY <1>1, <1>3, <1>4, <1>5, <2>2 DEF NextTree
  <2> QED
    BY <2>1, <2>2
<1>7. n \in DOMAIN ZkApps /\ label \in {"find", "updated"} /\ (label = "updated" => n = 1)
  BY <1>2, <1>3, <1>4, Bounds
<1>8. /\ m.pc = label /\ m.next = n /\ m.found = {}
      /\ m.notActiveActions = l.notActiveActions /\ m.state = l.state
      /\ m.counterStorage = l.counterStorage /\ m.rollupStorage = l.rollupStorage
      /\ m.actionCounter = l.actionCounter /\ m.proof = l.proof
      /\ m.nonce = l.nonce /\ m.undisturbed = l.undisturbed /\ IsLocal(m)
  BY <1>2, <1>5 DEF IsLocal
<1>9. LocalRight(m)
  BY <1>2, <1>7, <1>8 DEF LocalRight, PC
<1>10. UndisturbedRight(m)
  BY <1>7, <1>8 DEF UndisturbedRight
<1>11. jobs = [k \in Job |-> jobs[k]] /\ \A k \in Job : jobs[k] = IF k = j THEN m ELSE job[k]
  BY <1>0, <1>6 DEF JobsRight
<1> QED
  BY <1>0, <1>9, <1>10, <1>11 DEF JobsRight

(* The n-th of a list of active actions that lacks none is the n-th of all *)
(* active ones.                                                            *)
LEMMA LeavesAreFirst ==
  ASSUME FeedRight, NEW z \in ZkApp, NEW found, FirstOf(z, found)
  PROVE  /\ Cardinality(found) \in Nat /\ Cardinality(found) <= MaxActions
         /\ DOMAIN Leaves(z, found) = LeavesOf(z, Cardinality(found))
         /\ \A leaf \in DOMAIN Leaves(z, found) :
              /\ leaf \in ZkApp \X Nat
              /\ Leaves(z, found)[leaf] \in Of(leaf[1], active)
              /\ Cardinality({h \in Of(leaf[1], active) : h < Leaves(z, found)[leaf]}) = leaf[2]
<1>1. PICK n \in Nat : 1 .. n \subseteq active /\ found = Of(z, 1 .. n)
  BY DEF FirstOf
<1>2. 1 .. n \subseteq DOMAIN log /\ active \subseteq DOMAIN log /\ Len(log) \in Nat /\ DOMAIN log = 1 .. Len(log)
  BY <1>1, FeedIs
<1>3. /\ IsFiniteSet(found) /\ found \subseteq 1 .. n /\ found \subseteq Nat
      /\ Cardinality(found) \in Nat /\ Cardinality(found) <= MaxActions
  BY <1>1, <1>2, OfIs
<1>4. ASSUME NEW leaf \in LeavesOf(z, Cardinality(found))
      PROVE  /\ leaf \in ZkApp \X Nat
             /\ Leaves(z, found)[leaf] \in Of(leaf[1], active)
             /\ Cardinality({h \in Of(leaf[1], active) : h < Leaves(z, found)[leaf]}) = leaf[2]
  <2>1. leaf \in ZkApp \X Nat /\ leaf[1] = z /\ leaf[2] \in Nat /\ leaf[2] < Cardinality(found)
    BY <1>3, LeavesAre
  <2>2. PICK i : i = Nth(found, leaf[2])
    OBVIOUS
  <2>3. i \in found /\ Cardinality(Below(found, i)) = leaf[2]
    BY <1>3, <2>1, <2>2, NthIs
  <2>4. Leaves(z, found)[leaf] = i
    BY <2>2 DEF Leaves
  <2>5. i \in Of(z, active)
    BY <1>1, <2>3 DEF Of
  <2>6. ASSUME NEW h \in active, h < i PROVE h \in 1 .. n
    <3>1. h \in Nat /\ h >= 1 /\ i \in 1 .. n
      BY <1>2, <1>3, <2>3
    <3> QED
      BY <2>6, <3>1
  <2>7. {h \in Of(z, active) : h < i} = Below(found, i)
    BY <1>1, <2>6 DEF Of, Below
  <2> QED
    BY <2>1, <2>3, <2>4, <2>5, <2>7
<1>5. DOMAIN Leaves(z, found) = LeavesOf(z, Cardinality(found))
  BY DEF Leaves
<1> QED
  BY <1>3, <1>4, <1>5

LEMMA WriteTreeIsRight ==
  ASSUME Right, NEW j \in Job, WriteTree(j)
  PROVE  Right'
<1>0. FeedRight /\ MempoolRight /\ StorageRight /\ JobsRight
  BY DEF Right
<1>1. PICK l : l = job[j]
  OBVIOUS
<1>2. PICK z : z = ZkApps[l.next]
  OBVIOUS
<1>3. PICK found : found = l.found
  OBVIOUS
<1>4. /\ l.pc = "write" /\ UNCHANGED feedVars /\ mempool' = mempool
      /\ counterStorage' = [counterStorage EXCEPT ![z] = Cardinality(found)]
      /\ rollupStorage' = Overwrite(rollupStorage, Leaves(z, found))
      /\ job' = IF storages' = storages THEN NextTree(j) ELSE Disturbed(NextTree(j))
  BY <1>1, <1>2, <1>3 DEF WriteTree
<1>5. LocalRight(l) /\ z \in ZkApp /\ FirstOf(z, found)
  <2>1. LocalRight(l)
    BY <1>1, LocalIs
  <2> QED
    BY <1>2, <1>3, <1>4, <2>1, Bounds DEF LocalRight
<1>6. Grows /\ FeedRight' /\ log' = log /\ active' = active /\ reduced' = reduced
  BY <1>0, <1>4, SameGrows DEF feedVars
<1>7. MempoolRight'
  BY <1>0, <1>4, <1>6, MempoolKeeps
<1>8. PICK leaves : leaves = Leaves(z, found)
  OBVIOUS
<1>9. PICK size : size = Cardinality(found)
  OBVIOUS
<1>10. /\ size \in Nat /\ size <= MaxActions
       /\ DOMAIN leaves = LeavesOf(z, size)
       /\ \A leaf \in DOMAIN leaves :
            /\ leaf \in ZkApp \X Nat
            /\ leaves[leaf] \in Of(leaf[1], active)
            /\ Cardinality({h \in Of(leaf[1], active) : h < leaves[leaf]}) = leaf[2]
  BY <1>0, <1>5, <1>8, <1>9, LeavesAreFirst
<1>11. /\ DOMAIN rollupStorage' = DOMAIN rollupStorage \cup DOMAIN leaves
       /\ \A leaf \in DOMAIN rollupStorage' :
            rollupStorage'[leaf] = IF leaf \in DOMAIN leaves THEN leaves[leaf] ELSE rollupStorage[leaf]
  BY <1>4, <1>8 DEF Overwrite
<1>12. /\ DOMAIN rollupStorage \subseteq ZkApp \X Nat
       /\ \A leaf \in DOMAIN rollupStorage :
            /\ rollupStorage[leaf] \in Of(leaf[1], active)
            /\ Cardinality({h \in Of(leaf[1], active) : h < rollupStorage[leaf]}) = leaf[2]
  BY <1>0 DEF StorageRight, TreesAreRight, LeavesAreRight, IsTree
<1>13. \A leaf \in DOMAIN rollupStorage' :
         /\ leaf \in ZkApp \X Nat
         /\ rollupStorage'[leaf] \in Of(leaf[1], active)
         /\ Cardinality({h \in Of(leaf[1], active) : h < rollupStorage'[leaf]}) = leaf[2]
  BY <1>10, <1>11, <1>12
<1>14. LeavesAreRight'
  BY <1>6, <1>13 DEF LeavesAreRight, Of
<1>15. IsTree(rollupStorage)'
  <2>1. active \subseteq 1 .. Len(log)
    BY <1>0, FeedIs
  <2> QED
    BY <1>6, <1>13, <2>1 DEF IsTree, Of
<1>16. counterStorage' \in [ZkApp -> Nat]
  BY <1>0, <1>4, <1>9, <1>10 DEF StorageRight
<1>17. CountersHaveLeaves'
  <2> SUFFICES ASSUME NEW y \in ZkApp
               PROVE  LeavesOf(y, counterStorage'[y]) \subseteq DOMAIN rollupStorage'
    BY DEF CountersHaveLeaves, LeavesOf
  <2>1. LeavesOf(y, counterStorage[y]) \subseteq DOMAIN rollupStorage
    BY <1>0 DEF StorageRight, TreesAreRight, CountersHaveLeaves
  <2>2. counterStorage'[y] = IF y = z THEN size ELSE counterStorage[y]
    BY <1>0, <1>4, <1>9 DEF StorageRight
  <2> QED
    BY <1>10, <1>11, <2>1, <2>2
<1>18. StorageRight'
  BY <1>14, <1>15, <1>16, <1>17 DEF StorageRight, TreesAreRight
<1>19. JobsRight'
  <2>1. PICK jobs : jobs = NextTree(j)
    OBVIOUS
  <2>2. /\ jobs = [k \in Job |-> jobs[k]]
        /\ \A k \in Job : LocalRight(jobs[k]) /\ UndisturbedRight(jobs[k])
    BY <1>1, <1>4, <2>1, NextTreeIsRight
  <2>3. CASE storages' = storages
    <3>1. job' = jobs
      BY <1>4, <2>1, <2>3
    <3>2. UNCHANGED <<reduced, active, storages>>
      BY <1>6, <2>3
    <3> QED
      BY <1>0, <1>6, <2>2, <3>1, <3>2, JobsKeep
  <2>4. CASE storages' # storages
    <3>1. job' = Disturbed(jobs)
      BY <1>4, <2>1, <2>4
    <3> QED
      BY <1>0, <1>6, <2>2, <3>1, DisturbedJobs
  <2> QED
    BY <2>3, <2>4
<1> QED
  BY <1>6, <1>7, <1>18, <1>19 DEF Right

LEMMA FindNotActiveIsRight ==
  ASSUME Right, NEW j \in Job, FindNotActive(j)
  PROVE  Right'
<1>0. FeedRight
  BY DEF Right
<1>1. PICK l : l = job[j]
  OBVIOUS
<1>2. PICK ids : ids = NotActiveActions
  OBVIOUS
<1>3. PICK b : b = Synced
  OBVIOUS
<1>4. PICK m : m = [l EXCEPT !.pc = "fetchState", !.notActiveActions = ids, !.undisturbed = b]
  OBVIOUS
<1>5. LocalRight(l) /\ IsLocal(l)
  BY <1>1, LocalIs
<1>6. /\ job' = IF ids = {} THEN [job EXCEPT ![j] = Idle] ELSE [job EXCEPT ![j] = m]
      /\ UNCHANGED <<feedVars, mempool, storages>> /\ l.pc = "updated"
  BY <1>1, <1>2, <1>3, <1>4 DEF FindNotActive
<1>7. /\ m.pc = "fetchState" /\ m.next = l.next /\ m.found = l.found
      /\ m.notActiveActions = ids /\ m.state = l.state
      /\ m.counterStorage = l.counterStorage /\ m.rollupStorage = l.rollupStorage
      /\ m.actionCounter = l.actionCounter /\ m.proof = l.proof
      /\ m.nonce = l.nonce /\ m.undisturbed = b /\ IsLocal(m)
  BY <1>4, <1>5 DEF IsLocal
<1>8. ids \subseteq 1 .. Len(log) /\ b \in BOOLEAN
  <2>1. ids \subseteq DOMAIN mirror
    BY <1>2 DEF NotActiveActions
  <2>2. b \in BOOLEAN
    BY <1>3 DEF Synced
  <2> QED
    BY <1>0, <2>1, <2>2, FeedIs
<1>9. LocalRight(m)
  BY <1>5, <1>6, <1>7, <1>8 DEF LocalRight, PC
<1>10. b => Synced /\ Follow(ids, reduced)
  <2>1. SUFFICES ASSUME Synced PROVE Follow(ids, reduced)
    BY <1>3
  <2>2. active = 1 .. reduced /\ reduced \in Nat
    BY <1>0, <2>1, FeedIs DEF Synced
  <2>3. PICK n \in 0 .. Len(log) : DOMAIN mirror = 1 .. n
    BY <1>0 DEF FeedRight
  <2>4. n \in Nat
    BY <1>0, FeedIs
  <2>5. ids = reduced + 1 .. n
    BY <1>2, <2>2, <2>3, <2>4 DEF NotActiveActions
  <2> QED
    BY <2>4, <2>5 DEF Follow
<1>11. UndisturbedRight(m)
  BY <1>7, <1>10 DEF UndisturbedRight
<1>12. CASE ids = {}
  BY <1>6, <1>12, ReturnIsRight
<1>13. CASE ids # {}
  BY <1>6, <1>9, <1>11, <1>13, JobOnly
<1> QED
  BY <1>12, <1>13

LEMMA FetchStateIsRight ==
  ASSUME Right, NEW j \in Job, NEW s \in 0 .. reduced, FetchState(j, s)
  PROVE  Right'
<1>1. PICK l : l = job[j]
  OBVIOUS
<1>2. PICK b : b = (l.undisturbed /\ s = reduced)
  OBVIOUS
<1>3. PICK m : m = [l EXCEPT !.pc = "clone", !.state = s, !.undisturbed = b]
  OBVIOUS
<1>4. LocalRight(l) /\ IsLocal(l) /\ UndisturbedRight(l)
  BY <1>1, LocalIs
<1>5. UNCHANGED <<feedVars, mempool, storages>> /\ l.pc = "fetchState"
  BY <1>1 DEF FetchState
<1>6. job' = [job EXCEPT ![j] = m]
  BY <1>1, <1>2, <1>3, <1>4 DEF FetchState, IsLocal
<1>7. /\ m.pc = "clone" /\ m.next = l.next /\ m.found = l.found
      /\ m.notActiveActions = l.notActiveActions /\ m.state = s
      /\ m.counterStorage = l.counterStorage /\ m.rollupStorage = l.rollupStorage
      /\ m.actionCounter = l.actionCounter /\ m.proof = l.proof
      /\ m.nonce = l.nonce /\ m.undisturbed = b /\ IsLocal(m)
  BY <1>3, <1>4 DEF IsLocal
<1>8. b \in BOOLEAN
  BY <1>2
<1>9. LocalRight(m)
  BY <1>4, <1>5, <1>7, <1>8 DEF LocalRight, PC
<1>10. UndisturbedRight(m)
  BY <1>2, <1>4, <1>5, <1>7 DEF UndisturbedRight
<1> QED
  BY <1>5, <1>6, <1>9, <1>10, JobOnly

LEMMA CloneIsRight ==
  ASSUME Right, NEW j \in Job, Clone(j)
  PROVE  Right'
<1>0. FeedRight /\ StorageRight
  BY DEF Right
<1>1. PICK l : l = job[j]
  OBVIOUS
<1>2. PICK p : p = [from |-> l.state, actions |-> <<>>, counters |-> Counters(1 .. l.state),
                    rollups |-> Rollups(1 .. l.state)]
  OBVIOUS
<1>3. PICK m : m = [l EXCEPT !.pc = "count", !.counterStorage = counterStorage,
                             !.rollupStorage = rollupStorage, !.proof = p]
  OBVIOUS
<1>4. LocalRight(l) /\ IsLocal(l) /\ UndisturbedRight(l)
  BY <1>1, LocalIs
<1>5. UNCHANGED <<feedVars, mempool, storages>> /\ l.pc = "clone" /\ job' = [job EXCEPT ![j] = m]
  BY <1>1, <1>2, <1>3 DEF Clone
<1>6. /\ m.pc = "count" /\ m.next = l.next /\ m.found = l.found
      /\ m.notActiveActions = l.notActiveActions /\ m.state = l.state
      /\ m.counterStorage = counterStorage /\ m.rollupStorage = rollupStorage
      /\ m.actionCounter = l.actionCounter /\ m.proof = p
      /\ m.nonce = l.nonce /\ m.undisturbed = l.undisturbed /\ IsLocal(m)
  BY <1>3, <1>4 DEF IsLocal
<1>7. /\ IsProof(p) /\ p.from = l.state /\ p.actions = <<>>
      /\ p.counters = Counters(1 .. l.state) /\ p.rollups = Rollups(1 .. l.state)
  BY <1>2 DEF IsProof
<1>8. l.state \in 0 .. reduced /\ l.next = 1
  BY <1>4, <1>5 DEF LocalRight
<1>9. p.counters \in [ZkApp -> Nat] /\ IsTree(p.rollups)
  <2>1. 1 .. l.state \subseteq DOMAIN log
    BY <1>0, <1>8, FeedIs
  <2>2. PICK ids : ids = 1 .. l.state
    OBVIOUS
  <2> QED
    BY <1>0, <1>7, <2>1, <2>2, TreesAre
<1>10. IsTransaction(p)
  BY <1>7, <1>8 DEF IsTransaction
<1>11. LocalRight(m)
  BY <1>0, <1>4, <1>5, <1>6, <1>7, <1>9, <1>10 DEF LocalRight, PC, StorageRight
<1>12. ASSUME l.undisturbed
       PROVE  /\ Synced /\ Follow(l.notActiveActions, reduced)
              /\ Cloned(m) /\ CountedUpTo(m)
  <2>1. Synced /\ Follow(l.notActiveActions, reduced) /\ l.state = reduced
    BY <1>4, <1>5, <1>12 DEF UndisturbedRight
  <2>2. counterStorage = Counters(1 .. reduced) /\ rollupStorage = Rollups(1 .. reduced)
    BY <2>1 DEF Synced
  <2>3. Cloned(m)
    BY <1>6, <1>7, <2>1, <2>2 DEF Cloned
  <2>4. CountedUpTo(m)
    BY <1>6, <1>8 DEF CountedUpTo
  <2> QED
    BY <2>1, <2>3, <2>4
<1>13. UndisturbedRight(m)
  BY <1>6, <1>12 DEF UndisturbedRight
<1> QED
  BY <1>5, <1>11, <1>13, JobOnly

LEMMA CountIsRight ==
  ASSUME Right, NEW j \in Job, Count(j)
  PROVE  Right'
<1>0. FeedRight
  BY DEF Right
<1>1. PICK l : l = job[j]
  OBVIOUS
<1>2. LocalRight(l) /\ IsLocal(l) /\ UndisturbedRight(l) /\ l.pc = "count" /\ l.next \in DOMAIN ZkApps
  BY <1>1, LocalIs DEF LocalRight, Count
<1>3. PICK z : z = ZkApps[l.next]
  OBVIOUS
<1>4. PICK counter : counter = [l.actionCounter EXCEPT ![z] = Counted(z)]
  OBVIOUS
<1>5. PICK n : n = IF l.next < Len(ZkApps) THEN l.next + 1 ELSE 1
  OBVIOUS
<1>6. PICK label : label = IF l.next < Len(ZkApps) THEN "count" ELSE "prove"
  OBVIOUS
<1>7. PICK m : m = [l EXCEPT !.pc = label, !.next = n, !.actionCounter = counter]
  OBVIOUS
<1>8. UNCHANGED <<feedVars, mempool, storages>>
  BY DEF Count
<1>9. job' = [job EXCEPT ![j] = m]
  <2>0. job = [k \in Job |-> job[k]]
    BY DEF Right, JobsRight
  <2>1. PICK counted : counted = [job EXCEPT ![j].actionCounter[z] = Counted(z)]
    OBVIOUS
  <2>2. job' = IF l.next < Len(ZkApps) THEN [counted EXCEPT ![j].next = l.next + 1]
               ELSE [counted EXCEPT ![j].pc = "prove", ![j].next = 1]
    BY <1>1, <1>3, <2>1 DEF Count
  <2>3. counted = [job EXCEPT ![j] = [l EXCEPT !.actionCounter = counter]]
    BY <1>1, <1>4, <2>1
  <2>4. PICK c : c = [l EXCEPT !.actionCounter = counter]
    OBVIOUS
  <2>5. /\ counted = [job EXCEPT ![j] = c] /\ counted[j] = c
        /\ c.pc = "count" /\ c.actionCounter = counter
    BY <1>2, <2>0, <2>3, <2>4 DEF IsLocal
  <2>6. CASE l.next < Len(ZkApps)
    <3>1. job' = [counted EXCEPT ![j] = [c EXCEPT !.next = l.next + 1]]
      BY <2>2, <2>5, <2>6
    <3>2. [c EXCEPT !.next = l.next + 1] = m
      BY <1>2, <1>5, <1>6, <1>7, <2>4, <2>6 DEF IsLocal
    <3>3. [counted EXCEPT ![j] = m] = [job EXCEPT ![j] = m]
      BY <2>0, <2>5
    <3> QED
      BY <3>1, <3>2, <3>3
  <2>7. CASE ~ (l.next < Len(ZkApps))
    <3>1. job' = [counted EXCEPT ![j] = [c EXCEPT !.pc = "prove", !.next = 1]]
      BY <2>2, <2>5, <2>7
    <3>2. [c EXCEPT !.pc = "prove", !.next = 1] = m
      BY <1>2, <1>5, <1>6, <1>7, <2>4, <2>7 DEF IsLocal
    <3>3. [counted EXCEPT ![j] = m] = [job EXCEPT ![j] = m]
      BY <2>0, <2>5
    <3> QED
      BY <3>1, <3>2, <3>3
  <2> QED
    BY <2>6, <2>7
<1>10. /\ m.pc = label /\ m.next = n /\ m.found = l.found
       /\ m.notActiveActions = l.notActiveActions /\ m.state = l.state
       /\ m.counterStorage = l.counterStorage /\ m.rollupStorage = l.rollupStorage
       /\ m.actionCounter = counter /\ m.proof = l.proof
       /\ m.nonce = l.nonce /\ m.undisturbed = l.undisturbed /\ IsLocal(m)
  BY <1>2, <1>7 DEF IsLocal
<1>11. /\ n \in DOMAIN ZkApps /\ label \in {"count", "prove"} /\ (label = "prove" => n = 1)
       /\ z \in ZkApp
  BY <1>2, <1>3, <1>5, <1>6, Bounds
<1>12. counter \in [ZkApp -> Nat] /\ \A y \in ZkApp : counter[y] = IF y = z THEN Counted(z) ELSE l.actionCounter[y]
  <2>1. Counted(z) \in Nat
    <3>1. active \subseteq DOMAIN log
      BY <1>0, FeedIs
    <3>2. PICK ids : ids = active
      OBVIOUS
    <3> QED
      BY <1>0, <3>1, <3>2, OfIs DEF Counted
  <2>2. l.actionCounter \in [ZkApp -> Nat]
    BY <1>2 DEF LocalRight
  <2> QED
    BY <1>4, <1>11, <2>1, <2>2
<1>13. LocalRight(m)
  BY <1>2, <1>10, <1>11, <1>12 DEF LocalRight, PC
<1>14. ASSUME l.undisturbed
       PROVE  /\ Synced /\ Follow(l.notActiveActions, reduced) /\ Cloned(l)
              /\ \A k \in 1 .. l.next : counter[ZkApps[k]] = Counters(1 .. reduced)[ZkApps[k]]
  <2>1. Synced /\ Follow(l.notActiveActions, reduced) /\ Cloned(l) /\ CountedUpTo(l)
    BY <1>2, <1>14 DEF UndisturbedRight
  <2>2. Counted(z) = Counters(1 .. reduced)[z]
    BY <1>11, <2>1 DEF Counted, Counters, Synced
  <2>3. ASSUME NEW k \in 1 .. l.next PROVE counter[ZkApps[k]] = Counters(1 .. reduced)[ZkApps[k]]
    <3>1. k \in DOMAIN ZkApps /\ ZkApps[k] \in ZkApp
      BY <1>2, Bounds
    <3>2. CASE k = l.next
      BY <1>3, <1>11, <1>12, <2>2, <3>2
    <3>3. CASE k # l.next
      <4>1. k \in 1 .. l.next - 1
        BY <1>2, <3>3, Bounds
      <4>2. l.actionCounter[ZkApps[k]] = Counters(1 .. reduced)[ZkApps[k]]
        BY <2>1, <4>1 DEF CountedUpTo
      <4>3. CASE ZkApps[k] = z
        BY <1>12, <2>2, <3>1, <4>3
      <4>4. CASE ZkApps[k] # z
        BY <1>12, <3>1, <4>2, <4>4
      <4> QED
        BY <4>3, <4>4
    <3> QED
      BY <3>2, <3>3
  <2> QED
    BY <2>1, <2>3
<1>15. ASSUME m.undisturbed PROVE UndisturbedRight(m)
  <2>0. l.undisturbed
    BY <1>10, <1>15
  <2>1. CASE l.next < Len(ZkApps)
    <3>1. label = "count" /\ n - 1 = l.next
      BY <1>2, <1>5, <1>6, <2>1, Bounds
    <3>2. CountedUpTo(m) /\ Cloned(m)
      BY <1>10, <1>14, <2>0, <3>1 DEF CountedUpTo, Cloned
    <3> QED
      BY <1>10, <1>14, <2>0, <3>1, <3>2 DEF UndisturbedRight
  <2>2. CASE ~ (l.next < Len(ZkApps))
    <3>1. label = "prove" /\ l.next = Len(ZkApps)
      BY <1>2, <1>6, <2>2, Bounds
    <3>2. PICK ids : ids = 1 .. reduced
      OBVIOUS
    <3>3. /\ Counters(ids) \in [ZkApp -> Nat]
          /\ \A leaf \in DOMAIN Rollups(ids) : leaf[2] < Counters(ids)[leaf[1]]
      <4>1. ids \subseteq DOMAIN log
        BY <1>0, <3>2, FeedIs
      <4> QED
        BY <1>0, <4>1, TreesAre
    <3>4. \A y \in ZkApp : counter[y] = Counters(ids)[y]
      <4>1. \A y \in ZkApp : \E k \in 1 .. l.next : y = ZkApps[k]
        BY <3>1, Bounds
      <4> QED
        BY <1>14, <2>0, <3>2, <4>1
    <3>5. counter = Counters(ids)
      BY <1>12, <3>3, <3>4
    <3>6. InStep(m)
      <4>1. Rollups(ids) = [leaf \in DOMAIN Rollups(ids) |-> Rollups(ids)[leaf]]
        BY DEF Rollups
      <4>2. m.rollupStorage = Rollups(ids) /\ m.proof.rollups = Rollups(ids)
        BY <1>10, <1>14, <2>0, <3>2 DEF Cloned
      <4>3. m.counterStorage = Counters(ids) /\ m.actionCounter = Counters(ids) /\ m.proof.counters = Counters(ids)
        BY <1>10, <1>14, <2>0, <3>2, <3>5 DEF Cloned
      <4> QED
        BY <3>3, <4>1, <4>2, <4>3 DEF InStep
    <3>7. Continues(m.proof) /\ Len(m.proof.actions) = 0
      BY <1>10, <1>14, <2>0 DEF Continues, Cloned
    <3>8. Follow(m.notActiveActions, reduced + Len(m.proof.actions))
      <4>1. reduced + Len(m.proof.actions) = reduced
        BY <1>0, <3>7, FeedIs
      <4> QED
        BY <1>10, <1>14, <2>0, <4>1
    <3> QED
      BY <1>10, <3>1, <3>6, <3>7, <3>8 DEF UndisturbedRight
  <2> QED
    BY <2>1, <2>2
<1>16. UndisturbedRight(m)
  BY <1>15 DEF UndisturbedRight
<1> QED
  BY <1>8, <1>9, <1>13, <1>16, JobOnly

-----------------------------------------------------------------------------
(***************************************************************************)
(* The proof of an action.                                                 *)
(***************************************************************************)
LEMMA SmallestIs ==
  ASSUME NEW n \in Nat, NEW S, S \subseteq 1 .. n, S # {}
  PROVE  \E i \in S : \A h \in S : i <= h
<1>1. IsFiniteSet(S) /\ Cardinality(S) \in Nat /\ S \subseteq Nat
  BY BoundedIs
<1>2. Cardinality(S) # 0
  BY <1>1, FS_EmptySet
<1>3. 0 \in 0 .. Cardinality(S) - 1
  BY <1>1, <1>2
<1>4. PICK i \in S : Cardinality(Below(S, i)) = 0
  BY <1>1, <1>3, RankIs
<1>5. IsFiniteSet(Below(S, i))
  <2>1. Below(S, i) \in SUBSET S
    BY DEF Below
  <2> QED
    BY <1>1, <2>1, FS_Subset
<1>6. Below(S, i) = {}
  BY <1>4, <1>5, FS_EmptySet
<1>7. \A h \in S : h \in Nat /\ i \in Nat /\ ~ (h < i)
  BY <1>1, <1>6 DEF Below
<1> QED
  BY <1>7


LEMMA CurrentIs ==
  ASSUME FeedRight, NEW j \in Job, LocalRight(job[j]), job[j].notActiveActions # {}
  PROVE  /\ Current(j) \in job[j].notActiveActions /\ Current(j) \in 1 .. Len(log)
         /\ log[Current(j)] \in ZkApp
         /\ \A h \in job[j].notActiveActions : Current(j) <= h
<1>1. job[j].notActiveActions \subseteq 1 .. Len(log) /\ Len(log) \in Nat
  BY FeedIs DEF LocalRight
<1>2. PICK ids : ids = job[j].notActiveActions
  OBVIOUS
<1>3. \E i \in ids : \A h \in ids : i <= h
  BY <1>1, <1>2, SmallestIs
<1>4. Current(j) \in ids /\ \A h \in ids : Current(j) <= h
  BY <1>2, <1>3 DEF Current
<1> QED
  BY <1>1, <1>2, <1>4, FeedIs

(* The first of a list that follows an action is the one after it.         *)
LEMMA FollowNext ==
  ASSUME NEW n \in Nat, NEW ids, Follow(ids, n), NEW i \in ids, \A h \in ids : i <= h
  PROVE  i = n + 1 /\ Follow(ids \ {i}, n + 1)
<1>1. PICK m \in Nat : ids = n + 1 .. m
  BY DEF Follow
<1>2. n + 1 \in ids /\ i \in Nat
  BY <1>1
<1>3. i = n + 1
  BY <1>1, <1>2
<1>4. ids \ {i} = (n + 1) + 1 .. m
  BY <1>1, <1>3
<1> QED
  BY <1>1, <1>3, <1>4 DEF Follow

LEMMA ProveIsRight ==
  ASSUME Right, NEW j \in Job, Prove(j)
  PROVE  Right'
<1>0. FeedRight
  BY DEF Right
<1>1. PICK l : l = job[j]
  OBVIOUS
<1>2. /\ LocalRight(l) /\ IsLocal(l) /\ UndisturbedRight(l) /\ l.pc = "prove"
      /\ l.notActiveActions # {} /\ IsProof(l.proof)
  BY <1>1, LocalIs DEF LocalRight, Prove
<1>3. PICK i : i = Current(j)
  OBVIOUS
<1>4. PICK z : z = log[i]
  OBVIOUS
<1>5. PICK c : c = l.actionCounter[z]
  OBVIOUS
<1>6. PICK leaf : leaf = LeafOf(j)
  OBVIOUS
<1>7. leaf = <<z, c>> /\ leaf[1] = z /\ leaf[2] = c
  BY <1>1, <1>3, <1>4, <1>5, <1>6 DEF LeafOf
<1>8. /\ i \in l.notActiveActions /\ i \in 1 .. Len(log) /\ z \in ZkApp
      /\ \A h \in l.notActiveActions : i <= h
  BY <1>0, <1>1, <1>2, <1>3, <1>4, CurrentIs
<1>9. PICK actionCounter : actionCounter = [l.actionCounter EXCEPT ![z] = c + 1]
  OBVIOUS
<1>10. PICK counters : counters = [l.counterStorage EXCEPT ![z] = c + 1]
  OBVIOUS
<1>11. PICK rollups : rollups = [k \in DOMAIN l.rollupStorage \cup {leaf} |->
                                  IF k = leaf THEN i ELSE l.rollupStorage[k]]
  OBVIOUS
<1>12. PICK proved : proved = [k \in DOMAIN l.proof.rollups \cup {leaf} |->
                                IF k = leaf THEN i ELSE l.proof.rollups[k]]
  OBVIOUS
<1>13. PICK reached : reached = [l.proof.counters EXCEPT ![z] = c + 1]
  OBVIOUS
<1>14. PICK p : p = [from |-> l.proof.from, actions |-> Append(l.proof.actions, i),
                     counters |-> reached, rollups |-> proved]
  OBVIOUS
<1>15. PICK m : m = [l EXCEPT !.notActiveActions = l.notActiveActions \ {i},
                              !.actionCounter = actionCounter, !.counterStorage = counters,
                              !.rollupStorage = rollups, !.proof = p]
  OBVIOUS
<1>16. UNCHANGED <<feedVars, mempool, storages>>
  BY DEF Prove
<1>17. job' = [job EXCEPT ![j] = m]
  <2>0. job = [k \in Job |-> job[k]]
    BY DEF Right, JobsRight
  <2>1. job' = [job EXCEPT
           ![j].notActiveActions = @ \ {i},
           ![j].actionCounter = [@ EXCEPT ![leaf[1]] = leaf[2] + 1],
           ![j].counterStorage = [@ EXCEPT ![leaf[1]] = leaf[2] + 1],
           ![j].rollupStorage =
             [k \in DOMAIN @ \cup {leaf} |-> IF k = leaf THEN i ELSE @[k]],
           ![j].proof = [from |-> @.from, actions |-> Append(@.actions, i),
                         counters |-> [@.counters EXCEPT ![leaf[1]] = leaf[2] + 1],
                         rollups |-> [k \in DOMAIN @.rollups \cup {leaf} |->
                                       IF k = leaf THEN i ELSE @.rollups[k]]]]
    BY <1>3, <1>6 DEF Prove, Incremented
  <2>2. job' = [job EXCEPT ![j] = [l EXCEPT
           !.notActiveActions = @ \ {i},
           !.actionCounter = [@ EXCEPT ![leaf[1]] = leaf[2] + 1],
           !.counterStorage = [@ EXCEPT ![leaf[1]] = leaf[2] + 1],
           !.rollupStorage =
             [k \in DOMAIN @ \cup {leaf} |-> IF k = leaf THEN i ELSE @[k]],
           !.proof = [from |-> @.from, actions |-> Append(@.actions, i),
                         counters |-> [@.counters EXCEPT ![leaf[1]] = leaf[2] + 1],
                         rollups |-> [k \in DOMAIN @.rollups \cup {leaf} |->
                                       IF k = leaf THEN i ELSE @.rollups[k]]]]]
    BY <1>1, <1>2, <2>0, <2>1 DEF IsLocal
  <2>3. job' = [job EXCEPT ![j] = [l EXCEPT
           !.notActiveActions = l.notActiveActions \ {i}, !.actionCounter = actionCounter,
           !.counterStorage = counters, !.rollupStorage = rollups, !.proof = p]]
    BY <1>2, <1>7, <1>9, <1>10, <1>11, <1>12, <1>13, <1>14, <2>2 DEF IsLocal
  <2> QED
    BY <1>15, <2>3
<1>18. /\ m.pc = "prove" /\ m.next = l.next /\ m.found = l.found
       /\ m.notActiveActions = l.notActiveActions \ {i} /\ m.state = l.state
       /\ m.counterStorage = counters /\ m.rollupStorage = rollups
       /\ m.actionCounter = actionCounter /\ m.proof = p
       /\ m.nonce = l.nonce /\ m.undisturbed = l.undisturbed /\ IsLocal(m)
  BY <1>2, <1>15 DEF IsLocal
<1>19. /\ IsProof(p) /\ p.from = l.proof.from /\ p.actions = Append(l.proof.actions, i)
       /\ p.counters = reached /\ p.rollups = proved
  BY <1>14 DEF IsProof
<1>20. /\ l.actionCounter \in [ZkApp -> Nat] /\ l.counterStorage \in [ZkApp -> Nat]
       /\ l.proof.counters \in [ZkApp -> Nat] /\ IsTree(l.rollupStorage) /\ IsTree(l.proof.rollups)
       /\ l.proof.from \in 0 .. reduced /\ l.proof.actions \in Seq(1 .. Len(log))
  BY <1>2 DEF LocalRight, IsTransaction
<1>21. c \in Nat
  BY <1>5, <1>8, <1>20
<1>22. actionCounter \in [ZkApp -> Nat] /\ counters \in [ZkApp -> Nat] /\ reached \in [ZkApp -> Nat]
  BY <1>8, <1>9, <1>10, <1>13, <1>20, <1>21
<1>23. IsTree(rollups) /\ IsTree(proved)
  BY <1>7, <1>8, <1>11, <1>12, <1>20, <1>21 DEF IsTree
<1>24. IsTransaction(p)
  BY <1>8, <1>19, <1>20 DEF IsTransaction
<1>25. LocalRight(m)
  BY <1>2, <1>18, <1>19, <1>22, <1>23, <1>24 DEF LocalRight
<1>26. ASSUME l.undisturbed
       PROVE  /\ InStep(m) /\ Continues(p)
              /\ Follow(l.notActiveActions \ {i}, reduced + Len(p.actions))
  <2>1. /\ InStep(l) /\ Continues(l.proof)
        /\ Follow(l.notActiveActions, reduced + Len(l.proof.actions))
    BY <1>2, <1>26 DEF UndisturbedRight
  <2>2. PICK n : n = Len(l.proof.actions)
    OBVIOUS
  <2>3. /\ n \in Nat /\ reduced \in Nat /\ reduced + n \in Nat
        /\ Len(p.actions) = n + 1 /\ DOMAIN p.actions = 1 .. n + 1
        /\ p.actions[n + 1] = i /\ \A k \in 1 .. n : p.actions[k] = l.proof.actions[k]
        /\ DOMAIN l.proof.actions = 1 .. n
    <3>1. reduced \in Nat
      BY <1>0, FeedIs
    <3> QED
      BY <1>8, <1>19, <1>20, <2>2, <3>1
  <2>4. i = (reduced + n) + 1 /\ Follow(l.notActiveActions \ {i}, (reduced + n) + 1)
    BY <1>8, <2>1, <2>2, <2>3, FollowNext
  <2>5. Follow(l.notActiveActions \ {i}, reduced + Len(p.actions))
    <3>1. (reduced + n) + 1 = reduced + Len(p.actions)
      BY <2>3
    <3> QED
      BY <2>4, <3>1
  <2>6. Continues(p)
    <3>1. p.from = reduced
      BY <1>19, <2>1 DEF Continues
    <3>2. ASSUME NEW k \in DOMAIN p.actions PROVE p.actions[k] = reduced + k
      <4>1. CASE k = n + 1
        BY <2>3, <2>4, <4>1
      <4>2. CASE k # n + 1
        <5>1. k \in 1 .. n
          BY <2>3, <4>2
        <5> QED
          BY <2>1, <2>3, <5>1 DEF Continues
      <4> QED
        BY <4>1, <4>2
    <3> QED
      BY <3>1, <3>2 DEF Continues
  <2>7. /\ l.counterStorage = l.proof.counters /\ l.actionCounter = l.proof.counters
        /\ l.rollupStorage = l.proof.rollups
        /\ \A k \in DOMAIN l.rollupStorage : k[2] < l.actionCounter[k[1]]
    BY <2>1 DEF InStep
  <2>8. counters = reached /\ actionCounter = reached
    BY <1>9, <1>10, <1>13, <2>7
  <2>9. rollups = proved
    BY <1>11, <1>12, <2>7
  <2>10. ASSUME NEW k \in DOMAIN rollups PROVE k[2] < actionCounter[k[1]]
    <3>1. CASE k = leaf
      BY <1>7, <1>8, <1>9, <1>20, <1>21, <3>1
    <3>2. CASE k # leaf
      <4>1. k \in DOMAIN l.rollupStorage
        BY <1>11, <3>2
      <4>2. k[1] \in ZkApp /\ k[2] \in Nat /\ k[2] < l.actionCounter[k[1]]
        BY <1>20, <2>7, <4>1 DEF IsTree
      <4>3. l.actionCounter[k[1]] \in Nat
        BY <1>20, <4>2
      <4>4. CASE k[1] = z
        BY <1>5, <1>8, <1>9, <1>20, <1>21, <4>2, <4>4
      <4>5. CASE k[1] # z
        BY <1>9, <1>20, <4>2, <4>5
      <4> QED
        BY <4>4, <4>5
    <3> QED
      BY <3>1, <3>2
  <2>11. InStep(m)
    <3>1. rollups = [k \in DOMAIN rollups |-> rollups[k]]
      BY <1>11
    <3>2. /\ m.counterStorage = reached /\ m.proof.counters = reached /\ m.actionCounter = reached
          /\ m.rollupStorage = rollups /\ m.proof.rollups = rollups
      BY <1>18, <1>19, <2>8, <2>9
    <3> QED
      BY <2>8, <2>10, <3>1, <3>2 DEF InStep
  <2> QED
    BY <2>5, <2>6, <2>11
<1>27. UndisturbedRight(m)
  BY <1>18, <1>26 DEF UndisturbedRight
<1> QED
  BY <1>16, <1>17, <1>25, <1>27, JobOnly

LEMMA FetchNonceIsRight ==
  ASSUME Right, NEW j \in Job, FetchNonce(j)
  PROVE  Right'
<1>1. PICK l : l = job[j]
  OBVIOUS
<1>2. PICK m : m = [l EXCEPT !.pc = "send", !.nonce = TRUE]
  OBVIOUS
<1>3. LocalRight(l) /\ IsLocal(l) /\ UndisturbedRight(l)
  BY <1>1, LocalIs
<1>4. job' = [job EXCEPT ![j] = m] /\ UNCHANGED <<feedVars, mempool, storages>> /\ l.pc = "prove"
  BY <1>1, <1>2 DEF FetchNonce
<1>5. /\ m.pc = "send" /\ m.next = l.next /\ m.found = l.found
      /\ m.notActiveActions = l.notActiveActions /\ m.state = l.state
      /\ m.counterStorage = l.counterStorage /\ m.rollupStorage = l.rollupStorage
      /\ m.actionCounter = l.actionCounter /\ m.proof = l.proof
      /\ m.nonce = TRUE /\ m.undisturbed = l.undisturbed /\ IsLocal(m)
  BY <1>2, <1>3 DEF IsLocal
<1>6. LocalRight(m)
  BY <1>3, <1>4, <1>5 DEF LocalRight, PC
<1>7. UndisturbedRight(m)
  BY <1>3, <1>4, <1>5 DEF UndisturbedRight
<1> QED
  BY <1>4, <1>6, <1>7, JobOnly

LEMMA SendIsRight ==
  ASSUME Right, NEW j \in Job, Send(j)
  PROVE  Right'
<1>0. FeedRight /\ MempoolRight /\ StorageRight /\ JobsRight
  BY DEF Right
<1>1. PICK l : l = job[j]
  OBVIOUS
<1>2. LocalRight(l)
  BY <1>1, LocalIs
<1>3. /\ mempool' \subseteq mempool \cup {[from |-> l.proof.from, actions |-> l.proof.actions]}
      /\ job' = [job EXCEPT ![j] = Idle] /\ UNCHANGED feedVars /\ UNCHANGED storages
  BY <1>1 DEF Send
<1>4. Grows /\ FeedRight' /\ UNCHANGED <<reduced, active, storages>> /\ log' = log
  BY <1>0, <1>3, SameGrows DEF feedVars
<1>5. StorageRight'
  BY <1>0, <1>4, StorageKeeps
<1>6. MempoolRight'
  <2>1. IsTransaction([from |-> l.proof.from, actions |-> l.proof.actions])
    BY <1>2 DEF LocalRight, IsTransaction
  <2>2. \A tx \in mempool' : IsTransaction(tx)
    BY <1>0, <1>3, <2>1 DEF MempoolRight
  <2> QED
    BY <1>0, <1>4, <2>2, TransactionKeeps DEF MempoolRight
<1>7. JobsRight'
  <2>1. LocalRight(Idle) /\ UndisturbedRight(Idle)
    BY <1>0, IdleIs
  <2>2. PICK m : m = Idle
    OBVIOUS
  <2>3. job' = [job EXCEPT ![j] = m] /\ LocalRight(m) /\ UndisturbedRight(m)
    BY <1>3, <2>1, <2>2
  <2>4. \A k \in Job : LocalRight(job'[k]) /\ UndisturbedRight(job'[k])
    BY <1>0, <2>3 DEF JobsRight
  <2>5. job' = [k \in Job |-> job'[k]]
    BY <1>0, <2>3 DEF JobsRight
  <2> QED
    BY <1>0, <1>4, <2>4, <2>5, JobsKeep
<1> QED
  BY <1>4, <1>5, <1>6, <1>7 DEF Right

-----------------------------------------------------------------------------
(***************************************************************************)
(* The inductive invariant, and what follows from it.                      *)
(***************************************************************************)
LEMMA InitIsRight == Init => Right
<1> SUFFICES ASSUME Init PROVE Right
  OBVIOUS
<1>1. /\ log = <<>> /\ reduced = 0 /\ DOMAIN mirror = {} /\ active = {} /\ mempool = {}
      /\ counterStorage = NoCounters /\ rollupStorage = EmptyTree /\ job = [j \in Job |-> Idle]
  BY DEF Init, Feed!Init
<1>2. FeedRight
  <2>1. log \in Seq(ZkApp) /\ Len(log) = 0
    BY <1>1
  <2>2. 1 .. 0 = {}
    OBVIOUS
  <2> QED
    BY <1>1, <2>1, <2>2, Bounds DEF FeedRight
<1>3. MempoolRight
  BY <1>1 DEF MempoolRight
<1>4. StorageRight
  <2>1. NoCounters \in [ZkApp -> Nat] /\ \A z \in ZkApp : NoCounters[z] = 0
    BY DEF NoCounters
  <2>2. DOMAIN EmptyTree = {}
    BY DEF EmptyTree
  <2>3. \A z : LeavesOf(z, 0) = {}
    BY DEF LeavesOf
  <2> QED
    BY <1>1, <2>1, <2>2, <2>3 DEF StorageRight, TreesAreRight, LeavesAreRight, CountersHaveLeaves, IsTree
<1>5. JobsRight
  BY <1>1, <1>2, IdleIs DEF JobsRight
<1> QED
  BY <1>2, <1>3, <1>4, <1>5 DEF Right

LEMMA JobStepIsRight ==
  ASSUME Right, NEW j \in Job, Proceed(j) \/ UpdateThrows(j) \/ Skip(j) \/ RollupThrows(j)
  PROVE  Right'
<1>1. ASSUME NEW s \in 0 .. reduced, FetchState(j, s) PROVE Right'
  BY <1>1, FetchStateIsRight
<1>2. ASSUME ProveFails(j) \/ Skip(j) \/ RollupThrows(j) PROVE Right'
  BY <1>2, ReturnIsRight DEF ProveFails, Skip, RollupThrows
<1> QED
  BY <1>1, <1>2, StartIsRight, FindActiveIsRight, WriteTreeIsRight, FindNotActiveIsRight, CloneIsRight,
     CountIsRight, ProveIsRight, FetchNonceIsRight, SendIsRight, UpdateThrowsIsRight DEF Proceed

LEMMA NextIsRight == Right /\ [Next]_vars => Right'
<1> SUFFICES ASSUME Right, [Next]_vars PROVE Right'
  OBVIOUS
<1>1. ASSUME NEW z \in ZkApp, Dispatch(z) PROVE Right'
  BY <1>1, DispatchIsRight
<1>2. ASSUME NEW h \in 1 .. Len(log), Record(h) \/ Activate(h) PROVE Right'
  BY <1>2, RecordIsRight, ActivateIsRight
<1>3. ASSUME NEW tx \in mempool, Include(tx) PROVE Right'
  BY <1>3, IncludeIsRight
<1>4. ASSUME NEW j \in Job, Proceed(j) \/ UpdateThrows(j) \/ Skip(j) \/ RollupThrows(j) PROVE Right'
  BY <1>4, JobStepIsRight
<1>5. CASE UNCHANGED vars
  <2>1. UNCHANGED <<reduced, active, storages>> /\ UNCHANGED feedVars /\ job' = job /\ mempool' = mempool
    BY <1>5 DEF vars, feedVars
  <2>2. Grows /\ FeedRight'
    BY <2>1, SameGrows DEF Right
  <2> QED
    BY <2>1, <2>2, Unnoticed
<1> QED
  BY <1>1, <1>2, <1>3, <1>4, <1>5, OtherTransactionIsRight, CrashIsRight DEF Next, FeedStep

LEMMA RightIsInvariant == Spec => []Right
BY InitIsRight, NextIsRight, PTL DEF Spec

(* However jobs overlap and fail, the variables of the process keep their  *)
(* types: what a job has in its list, in its clones and in its proof are   *)
(* actions of the chain, and no state is ahead of the contract.            *)
THEOREM TypeCorrect == Spec => []TypeOK
<1>1. Right => TypeOK
  <2> SUFFICES ASSUME Right PROVE TypeOK
    OBVIOUS
  <2>0. FeedRight /\ MempoolRight /\ StorageRight /\ JobsRight
    BY DEF Right
  <2>1. /\ log \in Seq(ZkApp) /\ reduced \in 0 .. Len(log) /\ DOMAIN mirror \subseteq 1 .. Len(log)
        /\ active \subseteq DOMAIN mirror
    BY <2>0, FeedIs DEF FeedRight
  <2>2. \A tx \in mempool : tx.from \in 0 .. reduced /\ tx.actions \in Seq(1 .. Len(log))
    BY <2>0 DEF MempoolRight, IsTransaction
  <2>3. counterStorage \in [ZkApp -> Nat] /\ IsTree(rollupStorage)
    BY <2>0 DEF StorageRight
  <2>4. DOMAIN job = Job
    BY <2>0 DEF JobsRight
  <2>5. ASSUME NEW j \in Job PROVE LocalsOK(job[j])
    <3>1. PICK l : l = job[j]
      OBVIOUS
    <3>2. LocalRight(l)
      BY <2>0, <3>1 DEF JobsRight
    <3>3. l.found \subseteq 1 .. Len(log)
      <4>1. CASE l.pc = "write"
        <5>1. PICK n \in Nat : 1 .. n \subseteq active /\ l.found = Of(ZkApps[l.next], 1 .. n)
          BY <3>2, <4>1 DEF LocalRight, FirstOf
        <5> QED
          BY <2>0, <5>1, FeedIs DEF Of
      <4>2. CASE l.pc # "write"
        BY <3>2, <4>2 DEF LocalRight
      <4> QED
        BY <4>1, <4>2
    <3> QED
      BY <3>1, <3>2, <3>3 DEF LocalsOK, LocalRight, IsTransaction
  <2> QED
    BY <2>1, <2>2, <2>3, <2>4, <2>5 DEF TypeOK
<1> QED
  BY <1>1, RightIsInvariant, PTL

(* updateMerkleTrees(): whatever old list a job writes and however jobs    *)
(* take turns in doing it, the n-th leaf of a contract is its n-th active  *)
(* action, and a counter never promises an action without a leaf.          *)
THEOREM TreesStayRight == Spec => []TreesAreRight
<1>1. Right => TreesAreRight
  BY DEF Right, StorageRight
<1> QED
  BY <1>1, RightIsInvariant, PTL

(* rollup(): a job that nothing disturbs proves every action of its batch, *)
(* of however many contracts, and the contract accepts what it sends.      *)
THEOREM UndisturbedJobsSucceed == Spec => []UndisturbedSucceeds
<1>1. Right => UndisturbedSucceeds
  <2> SUFFICES ASSUME Right, NEW j \in Job, job[j].undisturbed
               PROVE  /\ job[j].pc = "prove" /\ job[j].notActiveActions # {} => WitnessesFit(j)
                      /\ job[j].pc = "send" => Accepts(job[j].proof)
    BY DEF UndisturbedSucceeds, UndisturbedProves, UndisturbedIsAccepted
  <2>0. FeedRight
    BY DEF Right
  <2>1. PICK l : l = job[j]
    OBVIOUS
  <2>2. LocalRight(l) /\ UndisturbedRight(l)
    BY <2>1, LocalIs
  <2>3. ASSUME l.pc = "prove", l.notActiveActions # {} PROVE WitnessesFit(j)
    <3>1. PICK z : z = log[Current(j)]
      OBVIOUS
    <3>2. PICK leaf : leaf = LeafOf(j)
      OBVIOUS
    <3>3. z \in ZkApp
      BY <2>0, <2>1, <2>2, <2>3, <3>1, CurrentIs
    <3>4. leaf = <<z, l.actionCounter[z]>> /\ leaf[1] = z /\ leaf[2] = l.actionCounter[z]
      BY <2>1, <3>1, <3>2 DEF LeafOf
    <3>5. InStep(l)
      BY <2>1, <2>2, <2>3 DEF UndisturbedRight
    <3>6. l.actionCounter \in [ZkApp -> Nat] /\ l.counterStorage \in [ZkApp -> Nat] /\ IsTree(l.proof.rollups)
      BY <2>2 DEF LocalRight
    <3>7. l.proof.counters = [l.counterStorage EXCEPT ![z] = l.actionCounter[z]]
      BY <3>3, <3>5, <3>6 DEF InStep
    <3>8. leaf \notin DOMAIN l.rollupStorage
      <4>1. l.actionCounter[z] \in Nat /\ ~ (l.actionCounter[z] < l.actionCounter[z])
        BY <3>3, <3>6
      <4> QED
        BY <3>4, <3>5, <4>1 DEF InStep
    <3>9. DOMAIN l.rollupStorage \ {leaf} = DOMAIN l.rollupStorage
      BY <3>8
    <3>10. l.proof.rollups = [k \in DOMAIN l.rollupStorage |-> l.rollupStorage[k]]
      BY <2>2, <3>5 DEF InStep, LocalRight
    <3> QED
      BY <2>1, <3>2, <3>4, <3>7, <3>9, <3>10 DEF WitnessesFit
  <2>4. ASSUME l.pc = "send" PROVE Accepts(l.proof)
    <3>1. Continues(l.proof)
      BY <2>1, <2>2, <2>4 DEF UndisturbedRight
    <3> QED
      BY <3>1 DEF Continues, Accepts
  <2> QED
    BY <2>1, <2>3, <2>4
<1> QED
  BY <1>1, RightIsInvariant, PTL

(* The roll-up and its transactions do to the chain and the collection     *)
(* only what ActionMirror allows: a transaction that is included reduces   *)
(* the next actions of the log, or nothing.                                *)
THEOREM RollupFollowsMirror == Spec => Feed!Spec
<1>1. Init => Feed!Init
  BY DEF Init
<1>2. Right /\ Right' /\ [Next]_vars => [Feed!Next]_(Feed!vars)
  <2> SUFFICES ASSUME Right, Right', [Next]_vars, ~ UNCHANGED Feed!vars
               PROVE  Feed!Next
    OBVIOUS
  <2>1. ~ UNCHANGED feedVars
    BY DEF feedVars, Feed!vars
  <2>2. CASE FeedStep
    BY <2>2 DEF FeedStep, Dispatch, Record, Activate, Feed!Next
  <2>3. ASSUME NEW tx \in mempool, Include(tx) PROVE Feed!Next
    <3>1. UNCHANGED <<log, mirror, active>> /\ reduced' # reduced
      BY <2>1, <2>3 DEF Include, feedVars
    <3>2. reduced' = reduced + Len(tx.actions) /\ Len(tx.actions) \in Nat
      BY <2>3, <3>1 DEF Include, Right, MempoolRight, IsTransaction
    <3>3. reduced \in Nat /\ reduced' \in 0 .. Len(log) /\ Len(log) \in Nat
      BY <3>1 DEF Right, FeedRight
    <3>4. reduced' > reduced /\ reduced' \in 1 .. Len(log)
      BY <3>1, <3>2, <3>3
    <3>5. Feed!Reduce(reduced')
      BY <3>1, <3>4 DEF Feed!Reduce
    <3> QED
      BY <3>4, <3>5 DEF Feed!Next
  <2>4. ASSUME \/ OtherTransaction \/ Crash \/ UNCHANGED vars
               \/ \E j \in Job : Proceed(j) \/ UpdateThrows(j) \/ Skip(j) \/ RollupThrows(j)
        PROVE  UNCHANGED feedVars
    BY <2>4, Zenon
    DEF OtherTransaction, Crash, vars, Proceed, UpdateThrows, Skip, RollupThrows, Start, FindActive,
        WriteTree, FindNotActive, FetchState, Clone, Count, Prove, ProveFails, FetchNonce, Send
  <2> QED
    BY <2>1, <2>2, <2>3, <2>4 DEF Next
<1> QED
  BY <1>1, <1>2, RightIsInvariant, PTL DEF Spec, Feed!Spec
=============================================================================
