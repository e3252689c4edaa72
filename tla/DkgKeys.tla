------------------------------ MODULE DkgKeys ------------------------------
(***************************************************************************)
(* How updateDkgActions turns the reduced actions of the DKG contract into *)
(* key documents.  On chain the k-th GENERATE_KEY of a committee makes its *)
(* key k; the server only sees the order of the actions, and gives a new   *)
(* key the id after the last one it finds in the collection.  The document *)
(* is written first and the action is marked active by a later save, so a  *)
(* worker that stops in between, or another worker that runs in between,   *)
(* meets the action again.                                                 *)
(*                                                                         *)
(*   dkgActions   the mirrored actions, in chain order (see ActionFeed)    *)
(*   events       how many of them the contract has reduced (external)     *)
(*   dkgEvents    how many of their events are mirrored                    *)
(*   active       ids of the active actions                                *)
(*   keyModel     the collection, by keyIndex = <<committeeId, keyId>>     *)
(*   pc, ...      the local variables of each activation                   *)
(*   interrupted  history: activations cut off in the middle of an action  *)
(*   createdFor   history: the action a key document was created for       *)
(***************************************************************************)
EXTENDS Naturals, Sequences, FiniteSets

CONSTANTS Worker,         \* concurrent activations of updateDkgActions()
          Committee,
          MaxActions,     \* bound: actions dispatched on chain
          MaxInterrupted  \* bound: activations cut off

ASSUME KeysAssumption == MaxActions \in Nat /\ MaxInterrupted \in Nat

VARIABLES dkgActions, events, dkgEvents, active, keyModel,
          pc, notActiveActions, notActiveAction, nextKeyIdMapping, keyStatus,
          interrupted, createdFor

chainVars == <<dkgActions, events>>
dbVars == <<dkgEvents, active, keyModel, createdFor>>
locals == <<pc, notActiveActions, notActiveAction, nextKeyIdMapping, keyStatus>>
vars == <<chainVars, dbVars, locals, interrupted>>

Enum == {"GENERATE_KEY", "FINALIZE_ROUND_1", "FINALIZE_ROUND_2", "DEPRECATE_KEY"}
KeyStatus == {"ROUND_1_CONTRIBUTION", "ROUND_2_CONTRIBUTION", "ACTIVE", "DEPRECATED"}
DkgAction == [actionEnum : Enum, committeeId : Committee, keyId : Nat]
KeyIndex == Committee \X Nat
PC == {"idle", "fetchEvents", "find", "exists", "lastKey", "create",
       "findKey", "saveKey", "saveAction"}

\* nextKeyIdMapping: the ids known so far, by committee.
NoMapping == [c \in {} |-> 0]

Init ==
  /\ dkgActions = <<>> /\ events = 0
  /\ dkgEvents = 0 /\ active = {}
  /\ keyModel = [k \in {} |-> "ACTIVE"]
  /\ createdFor = [k \in {} |-> 0]
  /\ pc = [w \in Worker |-> "idle"]
  /\ notActiveActions = [w \in Worker |-> {}]
  /\ notActiveAction = [w \in Worker |-> 0]
  /\ nextKeyIdMapping = [w \in Worker |-> NoMapping]
  /\ keyStatus = [w \in Worker |-> "ACTIVE"]
  /\ interrupted = 0

-----------------------------------------------------------------------------
(***************************************************************************)
(* The chain.                                                              *)
(***************************************************************************)

\* Ids of the actions that generate keys of c, among those of ids.
Generates(c, ids) ==
  {i \in ids : /\ dkgActions[i].actionEnum = "GENERATE_KEY"
               /\ dkgActions[i].committeeId = c}

\* The keys of c the contract has.
ChainKeys(c) == Cardinality(Generates(c, 1 .. events))

\* Whether one of the actions of ids is the given one.
Among(ids, enum, key) ==
  \E i \in ids \cap DOMAIN dkgActions : dkgActions[i] =
    [actionEnum |-> enum, committeeId |-> key[1], keyId |-> key[2]]

\* The step of a key's life the contract must have reduced before it accepts enum.
Predecessor(enum) ==
  CASE enum = "FINALIZE_ROUND_2" -> "FINALIZE_ROUND_1"
    [] enum = "DEPRECATE_KEY" -> "FINALIZE_ROUND_2"

\* A member asks for a key, or the contract of a round finalizes one, and
\* fetchDkgActions() mirrors the action (ActionFeed).
Dispatch(enum, key) ==
  /\ Len(dkgActions) < MaxActions
  /\ \/ enum = "GENERATE_KEY" /\ key[2] = 0
     \/ /\ enum # "GENERATE_KEY"
        /\ key[2] < ChainKeys(key[1])
        /\ ~ Among(1 .. Len(dkgActions), enum, key)
        /\ \/ enum = "FINALIZE_ROUND_1"
           \/ /\ enum \in {"FINALIZE_ROUND_2", "DEPRECATE_KEY"}
              /\ Among(1 .. events, Predecessor(enum), key)
  /\ dkgActions' = Append(dkgActions, [actionEnum |-> enum,
                                       committeeId |-> key[1], keyId |-> key[2]])
  /\ UNCHANGED <<events, dbVars, locals, interrupted>>

\* A roll-up transaction reduces the actions up to n and emits their states.
Reduce(n) ==
  /\ events' = n
  /\ UNCHANGED <<dkgActions, dbVars, locals, interrupted>>

-----------------------------------------------------------------------------
(***************************************************************************)
(* One activation of updateDkgActions().                                   *)
(***************************************************************************)
Goto(w, label) == pc' = [pc EXCEPT ![w] = label]

\* The activation is over: its variables go out of scope.
Return(w) ==
  /\ Goto(w, "idle")
  /\ notActiveActions' = [notActiveActions EXCEPT ![w] = {}]
  /\ notActiveAction' = [notActiveAction EXCEPT ![w] = 0]
  /\ nextKeyIdMapping' = [nextKeyIdMapping EXCEPT ![w] = NoMapping]
  /\ keyStatus' = [keyStatus EXCEPT ![w] = "ACTIVE"]

\* A timer adds a job.
Start(w) ==
  /\ pc[w] = "idle"
  /\ Goto(w, "fetchEvents")
  /\ UNCHANGED <<chainVars, dbVars, notActiveActions, notActiveAction,
                 nextKeyIdMapping, keyStatus, interrupted>>

\* fetchDkgEvents, answered by a node that has seen the first n reduced.  The
\* upserts are keyed by eventId and always carry the same event.
FetchEvents(w, n) ==
  /\ pc[w] = "fetchEvents"
  /\ dkgEvents' = IF n > dkgEvents THEN n ELSE dkgEvents
  /\ Goto(w, "find")
  /\ UNCHANGED <<chainVars, active, keyModel, createdFor, notActiveActions,
                 notActiveAction, nextKeyIdMapping, keyStatus, interrupted>>

\* find({active: false}, {}, {sort: {actionId: 1}})
NotActive == DOMAIN dkgActions \ active

Find(w) ==
  /\ pc[w] = "find"
  /\ notActiveActions' = [notActiveActions EXCEPT ![w] = NotActive]
  /\ Goto(w, "exists")
  /\ UNCHANGED <<chainVars, dbVars, notActiveAction, nextKeyIdMapping, keyStatus,
                 interrupted>>

\* Mutant: the event is not looked up.
EventNotLookedUp(i) == i <= Len(dkgActions)

\* Mutant: the event of the last reduced action is missed.
EventBefore(i) == i < dkgEvents

\* dkgEventModel.exists({data: {$in: [currentActionState]}})
EventExists(i) == i <= dkgEvents

\* i is the next of the sorted list.
IsNext(w, i) == i \in notActiveActions[w] /\ \A j \in notActiveActions[w] : i <= j

Exists(w) ==
  /\ pc[w] = "exists"
  /\ \E i \in notActiveActions[w] :
       /\ IsNext(w, i) /\ EventExists(i)
       /\ notActiveAction' = [notActiveAction EXCEPT ![w] = i]
       /\ notActiveActions' = [notActiveActions EXCEPT ![w] = @ \ {i}]
  /\ Goto(w, "lastKey")
  /\ UNCHANGED <<chainVars, dbVars, nextKeyIdMapping, keyStatus, interrupted>>

\* The end of the list, or the break at the first action without an event.
Done(w) ==
  /\ pc[w] = "exists"
  /\ \A i \in notActiveActions[w] : IsNext(w, i) => ~ EventExists(i)
  /\ Return(w)
  /\ UNCHANGED <<chainVars, dbVars, interrupted>>

Current(w) == dkgActions[notActiveAction[w]]

\* Documents of the keys of c.
KeysOf(c) == {key \in DOMAIN keyModel : key[1] = c}

\* Mutant: ids start at 1.
NextKeyIdsFromOne(c) ==
  IF KeysOf(c) = {} THEN {1}
  ELSE {last[2] + 1 : last \in {key \in KeysOf(c) :
                                  \A other \in KeysOf(c) : other[2] <= key[2]}}

\* findOne({committeeId: c}, {}, {sort: {keyId: -1}}), and the id after it.
NextKeyIds(c) ==
  IF KeysOf(c) = {} THEN {0}
  ELSE {last[2] + 1 : last \in {key \in KeysOf(c) :
                                  \A other \in KeysOf(c) : other[2] <= key[2]}}

\* Looked up for the first action of each committee, then only incremented.
LastKey(w) ==
  /\ pc[w] = "lastKey"
  /\ LET c == Current(w).committeeId
     IN  IF c \in DOMAIN nextKeyIdMapping[w] THEN UNCHANGED nextKeyIdMapping
         ELSE \E n \in NextKeyIds(c) :
                nextKeyIdMapping' = [nextKeyIdMapping EXCEPT ![w] =
                  [d \in DOMAIN @ \cup {c} |-> IF d = c THEN n ELSE @[d]]]
  /\ Goto(w, IF Current(w).actionEnum = "GENERATE_KEY" THEN "create" ELSE "findKey")
  /\ UNCHANGED <<chainVars, dbVars, notActiveActions, notActiveAction, keyStatus,
                 interrupted>>

NewKey(w) == <<Current(w).committeeId, nextKeyIdMapping[w][Current(w).committeeId]>>

\* keyModel.create({keyIndex, ..., status: ROUND_1_CONTRIBUTION})
Create(w) ==
  /\ pc[w] = "create"
  /\ NewKey(w) \notin DOMAIN keyModel
  /\ keyModel' = [key \in DOMAIN keyModel \cup {NewKey(w)} |->
                    IF key = NewKey(w) THEN "ROUND_1_CONTRIBUTION" ELSE keyModel[key]]
  /\ createdFor' = [key \in DOMAIN keyModel' |->
                      IF key = NewKey(w) THEN notActiveAction[w] ELSE createdFor[key]]
  /\ nextKeyIdMapping' =
       [nextKeyIdMapping EXCEPT ![w][Current(w).committeeId] = @ + 1]
  /\ Goto(w, "saveAction")
  /\ UNCHANGED <<chainVars, dkgEvents, active, notActiveActions, notActiveAction,
                 keyStatus, interrupted>>

\* Mutant: the duplicate key error is swallowed.
DuplicateKeyIgnored(w) ==
  /\ pc[w] = "create"
  /\ NewKey(w) \in DOMAIN keyModel
  /\ Goto(w, "saveAction")
  /\ UNCHANGED <<chainVars, dbVars, notActiveActions, notActiveAction,
                 nextKeyIdMapping, keyStatus, interrupted>>

\* keyIndex is unique: the creation is refused and fetch() starts over.
DuplicateKey(w) ==
  /\ pc[w] = "create"
  /\ NewKey(w) \in DOMAIN keyModel
  /\ Return(w)
  /\ UNCHANGED <<chainVars, dbVars, interrupted>>

CurrentKey(w) == <<Current(w).committeeId, Current(w).keyId>>

FindKey(w) ==
  /\ pc[w] = "findKey"
  /\ CurrentKey(w) \in DOMAIN keyModel
  /\ keyStatus' = [keyStatus EXCEPT ![w] = keyModel[CurrentKey(w)]]
  /\ Goto(w, "saveKey")
  /\ UNCHANGED <<chainVars, dbVars, notActiveActions, notActiveAction,
                 nextKeyIdMapping, interrupted>>

\* Mutant: FINALIZE_ROUND_2 leaves the key in round 2.
StatusAfterRound2(enum) ==
  CASE enum = "GENERATE_KEY" -> "ROUND_1_CONTRIBUTION"
    [] enum \in {"FINALIZE_ROUND_1", "FINALIZE_ROUND_2"} -> "ROUND_2_CONTRIBUTION"
    [] enum = "DEPRECATE_KEY" -> "DEPRECATED"

\* The status a key gets from an action.
StatusAfter(enum) ==
  CASE enum = "GENERATE_KEY" -> "ROUND_1_CONTRIBUTION"
    [] enum = "FINALIZE_ROUND_1" -> "ROUND_2_CONTRIBUTION"
    [] enum = "FINALIZE_ROUND_2" -> "ACTIVE"
    [] enum = "DEPRECATE_KEY" -> "DEPRECATED"

\* key.set('status', ...); key.save() writes only what differs from what was read.
SaveKey(w) ==
  /\ pc[w] = "saveKey"
  /\ LET status == StatusAfter(Current(w).actionEnum)
     IN  keyModel' = IF status = keyStatus[w] THEN keyModel
                     ELSE [keyModel EXCEPT ![CurrentKey(w)] = status]
  /\ Goto(w, "saveAction")
  /\ UNCHANGED <<chainVars, dkgEvents, active, createdFor, notActiveActions,
                 notActiveAction, nextKeyIdMapping, keyStatus, interrupted>>

\* notActiveAction.save(), and the loop goes on.
SaveAction(w) ==
  /\ pc[w] = "saveAction"
  /\ active' = active \cup {notActiveAction[w]}
  /\ notActiveAction' = [notActiveAction EXCEPT ![w] = 0]
  /\ keyStatus' = [keyStatus EXCEPT ![w] = "ACTIVE"]
  /\ Goto(w, "exists")
  /\ UNCHANGED <<chainVars, dkgEvents, keyModel, createdFor, notActiveActions,
                 nextKeyIdMapping, interrupted>>

\* A crash, or an awaited call that throws.
Interrupt(w) ==
  /\ pc[w] # "idle"
  /\ interrupted < MaxInterrupted
  /\ interrupted' = interrupted + 1
  /\ Return(w)
  /\ UNCHANGED <<chainVars, dbVars>>

-----------------------------------------------------------------------------
ChainStep ==
  \/ \E enum \in Enum, c \in Committee, k \in 0 .. MaxActions : Dispatch(enum, <<c, k>>)
  \/ \E n \in events + 1 .. Len(dkgActions) : Reduce(n)

Proceed(w) ==
  \/ Start(w) \/ \E n \in 0 .. events : FetchEvents(w, n)
  \/ Find(w) \/ Exists(w) \/ Done(w) \/ LastKey(w)
  \/ Create(w) \/ DuplicateKey(w) \/ FindKey(w) \/ SaveKey(w) \/ SaveAction(w)

Next == ChainStep \/ \E w \in Worker : Proceed(w) \/ Interrupt(w)

Spec == Init /\ [][Next]_vars

(***************************************************************************)
(* The timers start fetch() over and over, and an awaited call answers.    *)
(***************************************************************************)
Fairness ==
  \A w \in Worker : WF_vars(Proceed(w)) /\ SF_vars(FetchEvents(w, events))

FairSpec == Spec /\ Fairness

-----------------------------------------------------------------------------
(***************************************************************************)
(* Properties.                                                             *)
(***************************************************************************)
IsMapping(m) == \E known \in SUBSET Committee : m \in [known -> Nat]

MappingsOK == /\ DOMAIN nextKeyIdMapping = Worker
              /\ \A w \in Worker : IsMapping(nextKeyIdMapping[w])

TypeOK ==
  /\ dkgActions \in Seq(DkgAction)
  /\ events \in 0 .. Len(dkgActions)
  /\ dkgEvents \in 0 .. events
  /\ active \in SUBSET DOMAIN dkgActions
  /\ DOMAIN keyModel \subseteq KeyIndex
  /\ \A key \in DOMAIN keyModel : keyModel[key] \in KeyStatus
  /\ DOMAIN createdFor = DOMAIN keyModel
  /\ \A key \in DOMAIN createdFor : createdFor[key] \in DOMAIN dkgActions
  /\ pc \in [Worker -> PC]
  /\ notActiveActions \in [Worker -> SUBSET DOMAIN dkgActions]
  /\ notActiveAction \in [Worker -> DOMAIN dkgActions \cup {0}]
  /\ MappingsOK
  /\ keyStatus \in [Worker -> KeyStatus]
  /\ interrupted \in 0 .. MaxInterrupted

(* The key ids of a committee have no gap, although each worker counts on  *)
(* from the last key it saw when its pass began (nextKeyIdMapping): the    *)
(* Merkle trees are rebuilt from the number of keys.                       *)
KeyIdsContiguous ==
  \A key \in DOMAIN keyModel :
    key[2] > 0 => <<key[1], key[2] - 1>> \in DOMAIN keyModel

(* No GENERATE_KEY becomes active without a key document of its own,       *)
(* whatever a stale pass of another worker creates or is refused.          *)
EveryGenerateHasItsKey ==
  \A i \in active :
    dkgActions[i].actionEnum = "GENERATE_KEY" =>
      \E key \in DOMAIN keyModel :
        key[1] = dkgActions[i].committeeId /\ createdFor[key] = i

(* A worker that finalizes or deprecates a key finds its document: without *)
(* this findOne returns null, key.set throws, and the action blocks all    *)
(* those behind it on every retry.                                         *)
FinalizeFindsItsKey ==
  \A w \in Worker : pc[w] \in {"findKey", "saveKey"} => CurrentKey(w) \in DOMAIN keyModel

(* Whatever two workers do to each other, the keys that the trees and the  *)
(* later actions rely on are there: no gap in the ids, and a document for  *)
(* every key that an action finalizes or deprecates.                       *)
KeysAreThere == KeyIdsContiguous /\ FinalizeFindsItsKey

(* The active actions are a prefix of those whose events are mirrored,     *)
(* although each worker goes through a list it read before the others ran. *)
ActiveInOrder ==
  \A i \in active : i <= dkgEvents /\ (i > 1 => i - 1 \in active)

\* Actions whose key is created and that are about to become active.
Creating(c) ==
  {w \in Worker : /\ pc[w] = "saveAction"
                  /\ notActiveAction[w] \in Generates(c, DOMAIN dkgActions)}

(* A single worker makes one document too many only by being interrupted   *)
(* between create and save, and never a document too few: after a clean    *)
(* run the keys are exactly those of the contract.                         *)
SurplusKeysAreInterruptions ==
  \A c \in Committee :
    LET expected == Cardinality(Generates(c, active)) + Cardinality(Creating(c))
    IN  /\ Cardinality(KeysOf(c)) <= expected + interrupted
        /\ interrupted = 0 => Cardinality(KeysOf(c)) = expected

(* A single worker creates the keys in the order of the actions that ask   *)
(* for them, so that an interruption shifts ids but never exchanges them.  *)
KeysInChainOrder ==
  \A key, later \in DOMAIN keyModel :
    key[1] = later[1] /\ key[2] < later[2] => createdFor[key] <= createdFor[later]

\* What the last of the actions of ids that concern a key of the contract made of it.
StatusIn(ids, key) ==
  IF Among(ids, "DEPRECATE_KEY", key) THEN "DEPRECATED"
  ELSE IF Among(ids, "FINALIZE_ROUND_2", key) THEN "ACTIVE"
  ELSE IF Among(ids, "FINALIZE_ROUND_1", key) THEN "ROUND_2_CONTRIBUTION"
  ELSE "ROUND_1_CONTRIBUTION"

(* With a single worker, repeated after any interruption, the status of a  *)
(* key is the one its active actions give it, or the one the action that   *)
(* is next to become active gives it: it never falls back.                 *)
StatusFollowsActions ==
  \A key \in DOMAIN keyModel :
    \/ keyModel[key] = StatusIn(active, key)
    \/ keyModel[key] = StatusIn(active \cup {Cardinality(active) + 1}, key)

(* Every reduced action becomes active: a worker that was refused a key or *)
(* was interrupted starts over, and none waits for another.                *)
EventuallyActive ==
  \A i \in 1 .. MaxActions : events >= i ~> i \in active
=============================================================================
