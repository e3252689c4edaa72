--------------------------- MODULE DkgKeysProofs ---------------------------
(***************************************************************************)
(* What updateDkgActions guarantees for any number of workers, committees  *)
(* and actions.  The argument: keys are only ever added at the end of a    *)
(* committee's ids or refused, a worker's next id follows a key that       *)
(* exists, and an action is saved only by a worker that has created its    *)
(* key or found it.  Then what rollupDkg() guarantees together with it     *)
(* (DkgRollup), where one worker runs: what it has in hand is always the   *)
(* first action that is not active, so that the documents are those of the *)
(* active actions but for that one and for what was interrupted.           *)
(***************************************************************************)
EXTENDS DkgRollup, FiniteSetTheorems, WellFoundedInduction, TLAPS

\* Every id below a key's is a key: what makes the ids gapless by induction.
DownClosed ==
  \A key \in DOMAIN keyModel : \A k \in 0 .. key[2] : <<key[1], k>> \in DOMAIN keyModel

\* The next id of a committee is 0 or follows a key.
MappingFollows(w) ==
  \A c \in DOMAIN nextKeyIdMapping[w] :
    nextKeyIdMapping[w][c] = 0 \/ <<c, nextKeyIdMapping[w][c] - 1>> \in DOMAIN keyModel

Handling == {"lastKey", "create", "findKey", "saveKey", "saveAction"}

\* What w holds while it handles an action.
CurrentIsRight(w) ==
  /\ pc[w] \in Handling =>
       /\ notActiveAction[w] \in DOMAIN dkgActions
       /\ notActiveAction[w] <= dkgEvents
       /\ notActiveAction[w] > 1 => notActiveAction[w] - 1 \in active
  /\ pc[w] = "create" =>
       /\ Current(w).committeeId \in DOMAIN nextKeyIdMapping[w]
  /\ pc[w] \in {"findKey", "saveKey"} => Current(w).actionEnum # "GENERATE_KEY"
  /\ pc[w] = "saveAction" /\ Current(w).actionEnum = "GENERATE_KEY" =>
       \E key \in DOMAIN keyModel :
         key[1] = Current(w).committeeId /\ createdFor[key] = notActiveAction[w]

\* What is before an action of w's list is active, in the list, or in hand.
ListIsClosed(w) ==
  \A i \in notActiveActions[w] :
    i > 1 => \/ i - 1 \in active \/ i - 1 \in notActiveActions[w]
             \/ pc[w] \in Handling /\ i - 1 = notActiveAction[w]

WorkerInv(w) == MappingFollows(w) /\ CurrentIsRight(w) /\ ListIsClosed(w)

SharedInv == DownClosed /\ EveryGenerateHasItsKey /\ ActiveInOrder

IInv == TypeOK /\ SharedInv /\ \A w \in Worker : WorkerInv(w)

-----------------------------------------------------------------------------
(* A mapping is a function from some committees to ids.                    *)
LEMMA MappingIs ==
  ASSUME NEW m
  PROVE  IsMapping(m) <=> /\ m = [c \in DOMAIN m |-> m[c]]
                           /\ DOMAIN m \subseteq Committee
                           /\ \A c \in DOMAIN m : m[c] \in Nat
<1>1. ASSUME IsMapping(m)
      PROVE  /\ m = [c \in DOMAIN m |-> m[c]]
             /\ DOMAIN m \subseteq Committee
             /\ \A c \in DOMAIN m : m[c] \in Nat
  <2>1. PICK known \in SUBSET Committee : m \in [known -> Nat]
    BY <1>1 DEF IsMapping
  <2> QED
    BY <2>1
<1>2. ASSUME m = [c \in DOMAIN m |-> m[c]], DOMAIN m \subseteq Committee,
             \A c \in DOMAIN m : m[c] \in Nat
      PROVE  IsMapping(m)
  <2>1. m \in [DOMAIN m -> Nat]
    BY <1>2
  <2> QED
    BY <1>2, <2>1 DEF IsMapping
<1> QED
  BY <1>1, <1>2

(* Nothing is known at the start of a pass.                                *)
LEMMA NoMappingIs == IsMapping(NoMapping) /\ DOMAIN NoMapping = {}
<1>1. NoMapping \in [{} -> Nat]
  BY DEF NoMapping
<1> QED
  BY <1>1 DEF IsMapping

LEMMA InitInv == Init => IInv
<1> SUFFICES ASSUME Init PROVE IInv
  OBVIOUS
<1>1. /\ dkgActions = <<>> /\ Len(dkgActions) = 0 /\ DOMAIN dkgActions = {}
      /\ active = {} /\ DOMAIN keyModel = {} /\ DOMAIN createdFor = {}
  BY DEF Init
<1>2. TypeOK
  BY <1>1, NoMappingIs, KeysAssumption
  DEF MappingsOK, Init, TypeOK, PC, KeyStatus
<1>3. SharedInv
  BY <1>1 DEF SharedInv, DownClosed, EveryGenerateHasItsKey, ActiveInOrder
<1>4. \A w \in Worker : WorkerInv(w)
  <2> SUFFICES ASSUME NEW w \in Worker PROVE WorkerInv(w)
    OBVIOUS
  <2>1. /\ pc[w] = "idle" /\ notActiveActions[w] = {}
        /\ DOMAIN nextKeyIdMapping[w] = {}
    BY NoMappingIs DEF Init
  <2> QED
    BY <2>1 DEF WorkerInv, MappingFollows, CurrentIsRight, ListIsClosed, Handling
<1> QED
  BY <1>2, <1>3, <1>4 DEF IInv

-----------------------------------------------------------------------------
(* The ids of actions are numbers.                                         *)
LEMMA Ids ==
  ASSUME TypeOK
  PROVE  /\ DOMAIN dkgActions \subseteq Nat \ {0}
         /\ dkgEvents \in Nat
         /\ \A w \in Worker : /\ notActiveAction[w] \in Nat
                              /\ notActiveActions[w] \subseteq DOMAIN dkgActions
<1>1. DOMAIN dkgActions = 1 .. Len(dkgActions) /\ Len(dkgActions) \in Nat
  BY DEF TypeOK
<1>2. events \in Nat /\ dkgEvents \in 0 .. events
  BY <1>1 DEF TypeOK
<1>3. ASSUME NEW w \in Worker
      PROVE  /\ notActiveAction[w] \in DOMAIN dkgActions \cup {0}
             /\ notActiveActions[w] \subseteq DOMAIN dkgActions
  BY DEF TypeOK
<1> QED
  BY <1>1, <1>2, <1>3

(* The key a worker is about to create, or to look for, is a key index.    *)
LEMMA KeysAreIndexes ==
  ASSUME TypeOK, NEW w \in Worker, notActiveAction[w] \in DOMAIN dkgActions
  PROVE  /\ Current(w) \in DkgAction
         /\ CurrentKey(w) \in KeyIndex
         /\ Current(w).committeeId \in DOMAIN nextKeyIdMapping[w] =>
              /\ NewKey(w) \in KeyIndex
              /\ nextKeyIdMapping[w][Current(w).committeeId] \in Nat
<1>1. Current(w) \in DkgAction
  BY DEF Current, TypeOK
<1>2. Current(w).committeeId \in Committee /\ Current(w).keyId \in Nat
  BY <1>1 DEF DkgAction
<1>3. IsMapping(nextKeyIdMapping[w])
  BY DEF MappingsOK, TypeOK
<1> QED
  BY <1>1, <1>2, <1>3, MappingIs DEF CurrentKey, NewKey, KeyIndex

(* The end of an activation.                                               *)
LEMMA ReturnTypes ==
  ASSUME TypeOK, NEW w \in Worker, Return(w)
  PROVE  /\ pc' \in [Worker -> PC]
         /\ notActiveActions' \in [Worker -> SUBSET DOMAIN dkgActions]
         /\ notActiveAction' \in [Worker -> DOMAIN dkgActions \cup {0}]
         /\ MappingsOK'
         /\ keyStatus' \in [Worker -> KeyStatus]
BY NoMappingIs DEF MappingsOK, TypeOK, Return, Goto, PC, KeyStatus

\* The types of what a step of w may write.
LocalTypes ==
  /\ pc \in [Worker -> PC]
  /\ notActiveActions \in [Worker -> SUBSET DOMAIN dkgActions]
  /\ notActiveAction \in [Worker -> DOMAIN dkgActions \cup {0}]
  /\ MappingsOK
  /\ keyStatus \in [Worker -> KeyStatus]

KeyTypes ==
  /\ DOMAIN keyModel \subseteq KeyIndex
  /\ \A key \in DOMAIN keyModel : keyModel[key] \in KeyStatus
  /\ DOMAIN createdFor = DOMAIN keyModel
  /\ \A key \in DOMAIN createdFor : createdFor[key] \in DOMAIN dkgActions

ChainTypes ==
  /\ dkgActions \in Seq(DkgAction)
  /\ events \in 0 .. Len(dkgActions)
  /\ dkgEvents \in 0 .. events
  /\ active \in SUBSET DOMAIN dkgActions
  /\ interrupted \in 0 .. MaxInterrupted

LEMMA TypesAre ==
  /\ TypeOK <=> LocalTypes /\ KeyTypes /\ ChainTypes
  /\ TypeOK' <=> LocalTypes' /\ KeyTypes' /\ ChainTypes'
BY DEF TypeOK, LocalTypes, KeyTypes, ChainTypes

(* Every step of a worker keeps the types.                                 *)
LEMMA WorkerTypeStep ==
  ASSUME TypeOK, NEW w \in Worker, Proceed(w) \/ Interrupt(w),
         \A v \in Worker : CurrentIsRight(v)
  PROVE  TypeOK'
<1> USE DEF Goto
<1>1. CASE Start(w)
  BY <1>1 DEF MappingsOK, Start, TypeOK, PC, chainVars, dbVars
<1>2. CASE \E n \in 0 .. events : FetchEvents(w, n)
  <2>1. dkgEvents' \in 0 .. events
    BY <1>2 DEF FetchEvents, TypeOK
  <2> QED
    BY <1>2, <2>1 DEF MappingsOK, FetchEvents, TypeOK, PC, chainVars
<1>3. CASE Find(w)
  BY <1>3 DEF MappingsOK, Find, NotActive, TypeOK, PC, chainVars, dbVars
<1>4. CASE Exists(w)
  <2>1. PICK i \in notActiveActions[w] :
          /\ notActiveAction' = [notActiveAction EXCEPT ![w] = i]
          /\ notActiveActions' = [notActiveActions EXCEPT ![w] = @ \ {i}]
    BY <1>4 DEF Exists
  <2>2. /\ notActiveAction' \in [Worker -> DOMAIN dkgActions \cup {0}]
        /\ notActiveActions' \in [Worker -> SUBSET DOMAIN dkgActions]
    BY <2>1 DEF TypeOK
  <2> QED
    BY <1>4, <2>2 DEF MappingsOK, Exists, TypeOK, PC, chainVars, dbVars
<1>5. CASE Done(w)
  <2>1. LocalTypes'
    BY <1>5, ReturnTypes DEF Done, LocalTypes, chainVars
  <2> QED
    BY <1>5, <2>1, TypesAre DEF Done, KeyTypes, ChainTypes, chainVars, dbVars
<1>6. CASE LastKey(w)
  <2> DEFINE c == Current(w).committeeId
  <2>1. notActiveAction[w] \in DOMAIN dkgActions
    BY <1>6 DEF LastKey, CurrentIsRight, Handling
  <2>2. c \in Committee
    BY <2>1, KeysAreIndexes DEF DkgAction
  <2>3. \A n \in NextKeyIds(c) : n \in Nat
    BY DEF NextKeyIds, KeysOf, TypeOK, KeyIndex
  <2>4. MappingsOK'
    <3>1. CASE UNCHANGED nextKeyIdMapping
      BY <3>1 DEF MappingsOK, TypeOK
    <3>2. ASSUME NEW n \in NextKeyIds(c),
                 nextKeyIdMapping' = [nextKeyIdMapping EXCEPT ![w] =
                   [d \in DOMAIN @ \cup {c} |-> IF d = c THEN n ELSE @[d]]]
          PROVE  MappingsOK'
      <4> DEFINE old == nextKeyIdMapping[w]
                 new == [d \in DOMAIN old \cup {c} |-> IF d = c THEN n ELSE old[d]]
      <4>1. IsMapping(old)
        BY DEF MappingsOK, TypeOK
      <4>2. DOMAIN old \subseteq Committee /\ \A d \in DOMAIN old : old[d] \in Nat
        BY <4>1, MappingIs
      <4>3. new \in [DOMAIN old \cup {c} -> Nat]
        BY <2>3, <4>2
      <4>4. IsMapping(new)
        BY <2>2, <4>2, <4>3 DEF IsMapping
      <4> QED
        BY <3>2, <4>4 DEF MappingsOK, TypeOK
    <3> QED
      BY <1>6, <3>1, <3>2 DEF LastKey
  <2>5. pc' \in [Worker -> PC]
    BY <1>6 DEF LastKey, TypeOK, PC
  <2> QED
    BY <1>6, <2>4, <2>5 DEF LastKey, TypeOK, chainVars, dbVars
<1>7. CASE Create(w)
  <2> DEFINE c == Current(w).committeeId
             old == nextKeyIdMapping[w]
  <2>1. notActiveAction[w] \in DOMAIN dkgActions /\ c \in DOMAIN old
    BY <1>7 DEF Create, CurrentIsRight, Handling
  <2>2. NewKey(w) \in KeyIndex /\ old[c] \in Nat
    BY <2>1, KeysAreIndexes
  <2>3. KeyTypes'
    BY <1>7, <2>1, <2>2 DEF Create, TypeOK, KeyTypes, KeyStatus, chainVars
  <2>4. MappingsOK'
    <3>1. IsMapping(old)
      BY DEF MappingsOK, TypeOK
    <3>2. PICK known \in SUBSET Committee : old \in [known -> Nat]
      BY <3>1 DEF IsMapping
    <3>3. [old EXCEPT ![c] = @ + 1] \in [known -> Nat]
      BY <2>1, <2>2, <3>2
    <3>4. IsMapping([old EXCEPT ![c] = @ + 1])
      BY <3>3 DEF IsMapping
    <3>5. nextKeyIdMapping' = [nextKeyIdMapping EXCEPT ![w] = [old EXCEPT ![c] = @ + 1]]
      BY <1>7 DEF Create, TypeOK
    <3> QED
      BY <3>4, <3>5 DEF MappingsOK, TypeOK
  <2>5. LocalTypes'
    BY <1>7, <2>4 DEF Create, TypeOK, LocalTypes, PC, chainVars
  <2> QED
    BY <1>7, <2>3, <2>5, TypesAre DEF Create, ChainTypes, chainVars
<1>8. CASE DuplicateKey(w)
  <2>1. LocalTypes'
    BY <1>8, ReturnTypes DEF DuplicateKey, LocalTypes, chainVars
  <2> QED
    BY <1>8, <2>1, TypesAre DEF DuplicateKey, KeyTypes, ChainTypes, chainVars, dbVars
<1>9. CASE FindKey(w)
  BY <1>9 DEF MappingsOK, FindKey, TypeOK, PC, chainVars, dbVars
<1>10. CASE SaveKey(w)
  <2>1. notActiveAction[w] \in DOMAIN dkgActions
    BY <1>10 DEF SaveKey, CurrentIsRight, Handling
  <2>2. Current(w).actionEnum \in Enum
    BY <2>1, KeysAreIndexes DEF DkgAction
  <2>3. StatusAfter(Current(w).actionEnum) \in KeyStatus
    BY <2>2 DEF Enum, StatusAfter, KeyStatus
  <2>4. DOMAIN keyModel' = DOMAIN keyModel
        /\ \A key \in DOMAIN keyModel : keyModel'[key] \in KeyStatus
    BY <1>10, <2>3 DEF SaveKey, TypeOK
  <2>5. KeyTypes'
    BY <1>10, <2>4 DEF SaveKey, TypeOK, KeyTypes, chainVars
  <2>6. LocalTypes'
    BY <1>10 DEF MappingsOK, SaveKey, TypeOK, LocalTypes, PC, chainVars
  <2> QED
    BY <1>10, <2>5, <2>6, TypesAre DEF SaveKey, ChainTypes, chainVars
<1>11. CASE SaveAction(w)
  <2>1. notActiveAction[w] \in DOMAIN dkgActions
    BY <1>11 DEF SaveAction, CurrentIsRight, Handling
  <2> QED
    BY <1>11, <2>1 DEF MappingsOK, SaveAction, TypeOK, PC, KeyStatus, chainVars
<1>12. CASE Interrupt(w)
  <2>1. LocalTypes'
    BY <1>12, ReturnTypes DEF Interrupt, LocalTypes, chainVars
  <2>2. interrupted' \in 0 .. MaxInterrupted
    BY <1>12, KeysAssumption DEF Interrupt, TypeOK
  <2> QED
    BY <1>12, <2>1, <2>2, TypesAre DEF Interrupt, KeyTypes, ChainTypes, chainVars, dbVars
<1> QED
  BY <1>1, <1>2, <1>3, <1>4, <1>5, <1>6, <1>7, <1>8, <1>9, <1>10, <1>11, <1>12
  DEF Proceed

(* Every step of the chain keeps the types.                                *)
LEMMA ChainTypeStep == TypeOK /\ ChainStep => TypeOK'
<1> SUFFICES ASSUME TypeOK, ChainStep PROVE TypeOK'
  OBVIOUS
<1>1. ASSUME NEW enum \in Enum, NEW c \in Committee, NEW k \in 0 .. MaxActions,
             Dispatch(enum, <<c, k>>)
      PROVE  TypeOK'
  <2> DEFINE action == [actionEnum |-> enum, committeeId |-> c, keyId |-> k]
  <2>1. action \in DkgAction
    BY KeysAssumption DEF DkgAction
  <2>2. dkgActions' = Append(dkgActions, action)
    BY <1>1 DEF Dispatch
  <2>3. /\ dkgActions' \in Seq(DkgAction) /\ Len(dkgActions') = Len(dkgActions) + 1
        /\ DOMAIN dkgActions \subseteq DOMAIN dkgActions'
    BY <2>1, <2>2 DEF TypeOK
  <2>4. events \in 0 .. Len(dkgActions')
    BY <2>3 DEF TypeOK
  <2>5. UNCHANGED <<events, dbVars, locals, interrupted>>
    BY <1>1 DEF Dispatch
  <2> QED
    BY <2>3, <2>4, <2>5 DEF MappingsOK, TypeOK, dbVars, locals
<1>2. ASSUME NEW n \in events + 1 .. Len(dkgActions), Reduce(n) PROVE TypeOK'
  BY <1>2 DEF MappingsOK, Reduce, TypeOK, dbVars, locals
<1> QED
  BY <1>1, <1>2 DEF ChainStep

-----------------------------------------------------------------------------
(***************************************************************************)
(* What is shared only grows, and that is all the other workers need.      *)
(***************************************************************************)
Grows ==
  /\ DOMAIN dkgActions \subseteq DOMAIN dkgActions'
  /\ \A i \in DOMAIN dkgActions : dkgActions'[i] = dkgActions[i]
  /\ dkgEvents <= dkgEvents'
  /\ active \subseteq active'
  /\ DOMAIN keyModel \subseteq DOMAIN keyModel'
  /\ \A key \in DOMAIN keyModel : createdFor'[key] = createdFor[key]

SameLocals(w) ==
  /\ pc'[w] = pc[w]
  /\ notActiveActions'[w] = notActiveActions[w]
  /\ notActiveAction'[w] = notActiveAction[w]
  /\ nextKeyIdMapping'[w] = nextKeyIdMapping[w]

Returned(w) ==
  /\ pc'[w] = "idle"
  /\ notActiveActions'[w] = {}
  /\ DOMAIN nextKeyIdMapping'[w] = {}

(* What a worker read before its awaits stays usable while the others run. *)
LEMMA StaleIsHarmless ==
  ASSUME TypeOK, TypeOK', Grows, NEW w \in Worker, WorkerInv(w),
         SameLocals(w) \/ Returned(w)
  PROVE  WorkerInv(w)'
<1>1. CASE SameLocals(w)
  <2>1. MappingFollows(w)'
    BY <1>1 DEF WorkerInv, MappingFollows, SameLocals, Grows
  <2>2. CurrentIsRight(w)'
    <3>1. pc[w] \in Handling => Current(w)' = Current(w)
      BY <1>1 DEF WorkerInv, CurrentIsRight, SameLocals, Grows, Current
    <3>2. pc'[w] \in Handling =>
            /\ notActiveAction'[w] \in DOMAIN dkgActions'
            /\ notActiveAction'[w] <= dkgEvents'
            /\ notActiveAction'[w] > 1 => notActiveAction'[w] - 1 \in active'
      <4>1. dkgEvents \in Nat /\ dkgEvents' \in Nat /\ notActiveAction[w] \in Nat
        <5>1. dkgEvents \in Nat /\ notActiveAction[w] \in Nat
          BY Ids
        <5>2. dkgActions' \in Seq(DkgAction) /\ events' \in 0 .. Len(dkgActions')
              /\ dkgEvents' \in 0 .. events'
          BY DEF TypeOK
        <5> QED
          BY <5>1, <5>2
      <4> QED
        BY <1>1, <4>1 DEF WorkerInv, CurrentIsRight, SameLocals, Grows
    <3>3. pc[w] \in {"create", "findKey", "saveKey", "saveAction"} => pc[w] \in Handling
      BY DEF Handling
    <3>4. pc'[w] = "create" => Current(w).committeeId' \in DOMAIN nextKeyIdMapping'[w]
      BY <1>1, <3>1, <3>3 DEF WorkerInv, CurrentIsRight, SameLocals
    <3>5. pc'[w] \in {"findKey", "saveKey"} => Current(w).actionEnum' # "GENERATE_KEY"
      BY <1>1, <3>1, <3>3 DEF WorkerInv, CurrentIsRight, SameLocals
    <3>6. pc'[w] = "saveAction" /\ Current(w).actionEnum' = "GENERATE_KEY" =>
            \E key \in DOMAIN keyModel' :
              key[1] = Current(w).committeeId' /\ createdFor'[key] = notActiveAction'[w]
      BY <1>1, <3>1, <3>3 DEF WorkerInv, CurrentIsRight, SameLocals, Grows
    <3> QED
      BY <3>2, <3>4, <3>5, <3>6 DEF CurrentIsRight
  <2>3. ListIsClosed(w)'
    BY <1>1 DEF WorkerInv, ListIsClosed, SameLocals, Grows
  <2> QED
    BY <2>1, <2>2, <2>3 DEF WorkerInv
<1>2. CASE Returned(w)
  BY <1>2
  DEF Returned, WorkerInv, MappingFollows, CurrentIsRight, ListIsClosed, Handling
<1> QED
  BY <1>1, <1>2

LEMMA ReturnedAfterReturn ==
  ASSUME TypeOK, NEW w \in Worker, Return(w)
  PROVE  Returned(w)
BY NoMappingIs DEF MappingsOK, TypeOK, Return, Goto, Returned

(* A step that adds nothing to the collections keeps their invariants.     *)
LEMMA UntouchedKeeps ==
  ASSUME IInv, TypeOK', UNCHANGED <<active, keyModel, createdFor>>,
         DOMAIN dkgActions \subseteq DOMAIN dkgActions',
         \A i \in DOMAIN dkgActions : dkgActions'[i] = dkgActions[i],
         dkgEvents <= dkgEvents'
  PROVE  SharedInv' /\ Grows
<1>1. DownClosed'
  BY DEF IInv, SharedInv, DownClosed
<1>2. EveryGenerateHasItsKey'
  BY DEF IInv, TypeOK, SharedInv, EveryGenerateHasItsKey
<1>3. ActiveInOrder'
  <2>1. dkgEvents \in Nat /\ dkgEvents' \in Nat /\ \A i \in active : i \in Nat
    BY DEF IInv, TypeOK
  <2> QED
    BY <2>1 DEF IInv, SharedInv, ActiveInOrder
<1>4. Grows
  BY DEF Grows, IInv
<1> QED
  BY <1>1, <1>2, <1>3, <1>4 DEF SharedInv

(* Creating a key after the last one this worker knows: the id is free, so *)
(* it is the id after the last key there is.                               *)
LEMMA CreateKeeps ==
  ASSUME IInv, TypeOK', NEW w \in Worker, Create(w)
  PROVE  SharedInv' /\ Grows /\ WorkerInv(w)'
         /\ \A v \in Worker \ {w} : SameLocals(v)
<1> DEFINE c == Current(w).committeeId
           n == nextKeyIdMapping[w][c]
           i == notActiveAction[w]
<1>1. WorkerInv(w)
  BY DEF IInv
<1>2. i \in DOMAIN dkgActions /\ c \in DOMAIN nextKeyIdMapping[w] /\ n \in Nat
  <2>1. i \in DOMAIN dkgActions /\ c \in DOMAIN nextKeyIdMapping[w]
    BY <1>1 DEF WorkerInv, CurrentIsRight, Create, Handling
  <2> QED
    BY <2>1, KeysAreIndexes DEF IInv
<1>3. n = 0 \/ <<c, n - 1>> \in DOMAIN keyModel
  BY <1>1, <1>2 DEF WorkerInv, MappingFollows
<1>4. NewKey(w) = <<c, n>> /\ <<c, n>> \notin DOMAIN keyModel
  BY DEF Create, NewKey
<1>5. /\ DOMAIN keyModel' = DOMAIN keyModel \cup {<<c, n>>}
      /\ createdFor'[<<c, n>>] = i
      /\ \A key \in DOMAIN keyModel : createdFor'[key] = createdFor[key]
  <2> HIDE DEF c, n, i
  <2>1. DOMAIN keyModel' = DOMAIN keyModel \cup {NewKey(w)}
    BY DEF Create
  <2>2. createdFor' = [key \in DOMAIN keyModel' |->
                         IF key = NewKey(w) THEN i ELSE createdFor[key]]
    BY DEF Create, i
  <2> QED
    BY <1>4, <2>1, <2>2
<1>6. UNCHANGED <<dkgActions, events, dkgEvents, active, notActiveActions, notActiveAction>>
  BY DEF Create, chainVars
<1>7. Grows
  BY <1>5, <1>6, Ids DEF Grows, IInv
<1>8. DownClosed'
  <2>1. ASSUME NEW key \in DOMAIN keyModel', NEW k \in 0 .. key[2]
        PROVE  <<key[1], k>> \in DOMAIN keyModel'
    <3>1. CASE key \in DOMAIN keyModel
      BY <1>5, <3>1 DEF IInv, SharedInv, DownClosed
    <3>2. CASE key = <<c, n>>
      <4>1. CASE k = n
        BY <1>5, <3>2, <4>1
      <4>2. CASE k # n
        <5>1. n > 0 /\ <<c, n - 1>> \in DOMAIN keyModel /\ k \in 0 .. n - 1
          BY <1>2, <1>3, <3>2, <4>2
        <5>2. <<c, k>> \in DOMAIN keyModel
          BY <5>1 DEF IInv, SharedInv, DownClosed
        <5> QED
          BY <1>5, <3>2, <5>2
      <4> QED
        BY <4>1, <4>2
    <3> QED
      BY <1>5, <3>1, <3>2
  <2> QED
    BY <2>1 DEF DownClosed
<1>9. EveryGenerateHasItsKey' /\ ActiveInOrder'
  BY <1>5, <1>6 DEF IInv, SharedInv, EveryGenerateHasItsKey, ActiveInOrder
<1>10. WorkerInv(w)'
  <2>1. Current(w)' = Current(w) /\ pc'[w] = "saveAction"
    BY <1>6 DEF Current, Create, Goto, IInv, TypeOK
  <2>2. MappingFollows(w)'
    <3> DEFINE old == nextKeyIdMapping[w]
    <3>1. old = [d \in DOMAIN old |-> old[d]] /\ \A d \in DOMAIN old : old[d] \in Nat
      BY MappingIs DEF MappingsOK, IInv, TypeOK
    <3>2. nextKeyIdMapping'[w] = [old EXCEPT ![c] = @ + 1]
      BY DEF MappingsOK, Create, IInv, TypeOK
    <3>3. /\ DOMAIN nextKeyIdMapping'[w] = DOMAIN old
          /\ nextKeyIdMapping'[w][c] = n + 1
          /\ \A d \in DOMAIN old : d # c => nextKeyIdMapping'[w][d] = old[d]
      BY <1>2, <3>2
    <3>4. ASSUME NEW d \in DOMAIN nextKeyIdMapping'[w]
          PROVE  \/ nextKeyIdMapping'[w][d] = 0
                 \/ <<d, nextKeyIdMapping'[w][d] - 1>> \in DOMAIN keyModel'
      <4>1. CASE d = c
        BY <1>2, <1>5, <3>3, <4>1
      <4>2. CASE d # c
        BY <1>1, <1>5, <3>3, <4>2 DEF WorkerInv, MappingFollows
      <4> QED
        BY <4>1, <4>2
    <3> QED
      BY <3>4 DEF MappingFollows
  <2>3. CurrentIsRight(w)'
    <3>1. pc[w] \in Handling
      BY DEF Create, Handling
    <3>2. /\ i \in DOMAIN dkgActions /\ i <= dkgEvents
          /\ i > 1 => i - 1 \in active
      BY <1>1, <3>1 DEF WorkerInv, CurrentIsRight
    <3>3. \E key \in DOMAIN keyModel' :
            key[1] = Current(w).committeeId' /\ createdFor'[key] = notActiveAction'[w]
      <4>1. <<c, n>> \in DOMAIN keyModel' /\ <<c, n>>[1] = c
        BY <1>5
      <4> QED
        BY <1>5, <1>6, <2>1, <4>1
    <3> QED
      BY <1>6, <2>1, <3>2, <3>3 DEF CurrentIsRight
  <2>4. ListIsClosed(w)'
    <3>1. pc[w] \in Handling /\ pc'[w] \in Handling
      BY <2>1 DEF Create, Handling
    <3> QED
      BY <1>1, <1>6, <3>1 DEF WorkerInv, ListIsClosed
  <2> QED
    BY <2>2, <2>3, <2>4 DEF WorkerInv
<1>11. \A v \in Worker \ {w} : SameLocals(v)
  BY DEF Create, Goto, SameLocals, IInv, TypeOK
<1> QED
  BY <1>7, <1>8, <1>9, <1>10, <1>11 DEF SharedInv

(* The id looked up for a committee is 0 or follows a key.                 *)
LEMMA LastKeyKeeps ==
  ASSUME IInv, TypeOK', NEW w \in Worker, LastKey(w)
  PROVE  WorkerInv(w)'
<1> DEFINE c == Current(w).committeeId
           old == nextKeyIdMapping[w]
<1>1. WorkerInv(w)
  BY DEF IInv
<1>2. /\ UNCHANGED <<dkgActions, dkgEvents, active, keyModel, createdFor,
                     notActiveActions, notActiveAction>>
      /\ pc[w] = "lastKey"
      /\ pc'[w] = IF Current(w).actionEnum = "GENERATE_KEY" THEN "create" ELSE "findKey"
  BY DEF LastKey, Goto, chainVars, dbVars, IInv, TypeOK
<1>3. Current(w)' = Current(w)
  BY <1>2 DEF Current
<1>4. MappingFollows(w)' /\ c \in DOMAIN nextKeyIdMapping'[w]
  <2>1. CASE c \in DOMAIN old
    <3>1. UNCHANGED nextKeyIdMapping
      BY <2>1 DEF LastKey
    <3> QED
      BY <1>1, <1>2, <2>1, <3>1 DEF WorkerInv, MappingFollows
  <2>2. ASSUME NEW n \in NextKeyIds(c), c \notin DOMAIN old,
               nextKeyIdMapping' = [nextKeyIdMapping EXCEPT ![w] =
                 [d \in DOMAIN @ \cup {c} |-> IF d = c THEN n ELSE @[d]]]
        PROVE  MappingFollows(w)' /\ c \in DOMAIN nextKeyIdMapping'[w]
    <3>1. n = 0 \/ <<c, n - 1>> \in DOMAIN keyModel
      <4>1. CASE KeysOf(c) = {}
        BY <2>2, <4>1 DEF NextKeyIds
      <4>2. CASE KeysOf(c) # {}
        <5>1. PICK last \in KeysOf(c) : n = last[2] + 1
          BY <2>2, <4>2 DEF NextKeyIds
        <5>2. last \in DOMAIN keyModel /\ last[1] = c /\ last \in KeyIndex
          BY <5>1 DEF KeysOf, IInv, TypeOK
        <5>3. last = <<c, last[2]>> /\ last[2] \in Nat
          BY <5>2 DEF KeyIndex
        <5>4. n - 1 = last[2]
          BY <5>1, <5>3
        <5> QED
          BY <5>2, <5>3, <5>4
      <4> QED
        BY <4>1, <4>2
    <3>2. nextKeyIdMapping'[w] = [d \in DOMAIN old \cup {c} |-> IF d = c THEN n ELSE old[d]]
      <4> HIDE DEF c
      <4> QED
        BY <2>2 DEF MappingsOK, IInv, TypeOK
    <3>3. /\ DOMAIN nextKeyIdMapping'[w] = DOMAIN old \cup {c}
          /\ nextKeyIdMapping'[w][c] = n
          /\ \A d \in DOMAIN old : nextKeyIdMapping'[w][d] = old[d]
      <4> HIDE DEF c, old
      <4> QED
        BY <2>2, <3>2
    <3>4. ASSUME NEW d \in DOMAIN nextKeyIdMapping'[w]
          PROVE  \/ nextKeyIdMapping'[w][d] = 0
                 \/ <<d, nextKeyIdMapping'[w][d] - 1>> \in DOMAIN keyModel'
      <4>1. CASE d = c
        BY <1>2, <3>1, <3>3, <4>1
      <4>2. CASE d \in DOMAIN old
        BY <1>1, <1>2, <3>3, <4>2 DEF WorkerInv, MappingFollows
      <4> QED
        BY <3>3, <4>1, <4>2
    <3> QED
      BY <3>3, <3>4 DEF MappingFollows
  <2> QED
    BY <2>1, <2>2 DEF LastKey
<1>5. CurrentIsRight(w)'
  <2>1. /\ notActiveAction[w] \in DOMAIN dkgActions
        /\ notActiveAction[w] <= dkgEvents
        /\ notActiveAction[w] > 1 => notActiveAction[w] - 1 \in active
    BY <1>1, <1>2 DEF WorkerInv, CurrentIsRight, Handling
  <2>2. pc'[w] = "findKey" => Current(w).actionEnum # "GENERATE_KEY"
    BY <1>2
  <2>3. pc'[w] # "saveKey" /\ pc'[w] # "saveAction"
    BY <1>2
  <2> QED
    BY <1>2, <1>3, <1>4, <2>1, <2>2, <2>3 DEF CurrentIsRight
<1>6. ListIsClosed(w)'
  <2>1. pc[w] \in Handling /\ pc'[w] \in Handling
    BY <1>2 DEF Handling
  <2> QED
    BY <1>1, <1>2, <2>1 DEF WorkerInv, ListIsClosed
<1> QED
  BY <1>4, <1>5, <1>6 DEF WorkerInv

(* The next of the list is the first: the one before it is active.         *)
LEMMA ExistsKeeps ==
  ASSUME IInv, TypeOK', NEW w \in Worker, Exists(w)
  PROVE  WorkerInv(w)'
<1>1. WorkerInv(w) /\ pc[w] = "exists" /\ pc[w] \notin Handling
  BY DEF IInv, Exists, Handling
<1>2. PICK i \in notActiveActions[w] :
        /\ IsNext(w, i) /\ EventExists(i)
        /\ notActiveAction' = [notActiveAction EXCEPT ![w] = i]
        /\ notActiveActions' = [notActiveActions EXCEPT ![w] = @ \ {i}]
  BY DEF Exists
<1>3. /\ UNCHANGED <<dkgActions, dkgEvents, active, keyModel, createdFor,
                     nextKeyIdMapping>>
      /\ pc'[w] = "lastKey" /\ pc'[w] \in Handling
      /\ notActiveAction'[w] = i
      /\ notActiveActions'[w] = notActiveActions[w] \ {i}
  BY <1>2 DEF Exists, Goto, chainVars, dbVars, IInv, TypeOK, Handling
<1>4. /\ i \in DOMAIN dkgActions /\ i \in Nat
      /\ \A j \in notActiveActions[w] : j \in Nat /\ i <= j
  BY <1>2, Ids DEF IInv, IsNext
<1>5. MappingFollows(w)'
  BY <1>1, <1>3 DEF WorkerInv, MappingFollows
<1>6. i > 1 => i - 1 \in active
  <2>1. i - 1 \notin notActiveActions[w]
    BY <1>4
  <2> QED
    BY <1>1, <2>1 DEF WorkerInv, ListIsClosed
<1>7. CurrentIsRight(w)'
  BY <1>2, <1>3, <1>4, <1>6 DEF CurrentIsRight, EventExists
<1>8. ListIsClosed(w)'
  BY <1>1, <1>3 DEF WorkerInv, ListIsClosed
<1> QED
  BY <1>5, <1>7, <1>8 DEF WorkerInv

(* The action saved has its key, its event and an active predecessor.      *)
LEMMA SaveActionKeeps ==
  ASSUME IInv, TypeOK', NEW w \in Worker, SaveAction(w)
  PROVE  SharedInv' /\ Grows /\ WorkerInv(w)'
<1> DEFINE i == notActiveAction[w]
<1>1. WorkerInv(w) /\ pc[w] = "saveAction" /\ pc[w] \in Handling
  BY DEF IInv, SaveAction, Handling
<1>2. /\ UNCHANGED <<dkgActions, dkgEvents, keyModel, createdFor, notActiveActions,
                     nextKeyIdMapping>>
      /\ active' = active \cup {i}
      /\ pc'[w] = "exists" /\ pc'[w] \notin Handling
  BY DEF SaveAction, Goto, chainVars, IInv, TypeOK, Handling
<1>3. /\ i \in DOMAIN dkgActions /\ i <= dkgEvents
      /\ i > 1 => i - 1 \in active
  BY <1>1 DEF WorkerInv, CurrentIsRight
<1>4. Grows
  BY <1>2, Ids DEF Grows, IInv
<1>5. DownClosed'
  BY <1>2 DEF IInv, SharedInv, DownClosed
<1>6. EveryGenerateHasItsKey'
  <2>1. dkgActions[i].actionEnum = "GENERATE_KEY" =>
          \E key \in DOMAIN keyModel :
            key[1] = dkgActions[i].committeeId /\ createdFor[key] = i
    BY <1>1 DEF WorkerInv, CurrentIsRight, Current
  <2> HIDE DEF i
  <2> QED
    BY <1>2, <2>1 DEF IInv, SharedInv, EveryGenerateHasItsKey
<1>7. ActiveInOrder'
  <2> HIDE DEF i
  <2> QED
    BY <1>2, <1>3 DEF IInv, SharedInv, ActiveInOrder
<1>8. WorkerInv(w)'
  <2>1. MappingFollows(w)'
    BY <1>1, <1>2 DEF WorkerInv, MappingFollows
  <2>2. CurrentIsRight(w)'
    BY <1>2 DEF CurrentIsRight, Handling
  <2>3. ListIsClosed(w)'
    BY <1>1, <1>2 DEF WorkerInv, ListIsClosed
  <2> QED
    BY <2>1, <2>2, <2>3 DEF WorkerInv
<1> QED
  BY <1>4, <1>5, <1>6, <1>7, <1>8 DEF SharedInv

(* A document is found, and its status saved: the ids stay what they are.  *)
LEMMA KeyKeeps ==
  ASSUME IInv, TypeOK', NEW w \in Worker, FindKey(w) \/ SaveKey(w)
  PROVE  SharedInv' /\ Grows /\ WorkerInv(w)'
<1>1. WorkerInv(w) /\ pc[w] \in {"findKey", "saveKey"} /\ pc[w] \in Handling
  BY DEF IInv, FindKey, SaveKey, Handling
<1>2. /\ UNCHANGED <<dkgActions, dkgEvents, active, createdFor, notActiveActions,
                     notActiveAction, nextKeyIdMapping>>
      /\ DOMAIN keyModel' = DOMAIN keyModel
      /\ pc'[w] \in {"saveKey", "saveAction"} /\ pc'[w] \in Handling
  BY DEF FindKey, SaveKey, Goto, chainVars, dbVars, IInv, TypeOK, Handling
<1>3. Current(w)' = Current(w) /\ Current(w).actionEnum # "GENERATE_KEY"
  BY <1>1, <1>2 DEF Current, WorkerInv, CurrentIsRight
<1>4. Grows
  BY <1>2, Ids DEF Grows, IInv
<1>5. SharedInv'
  BY <1>2 DEF IInv, SharedInv, DownClosed, EveryGenerateHasItsKey, ActiveInOrder
<1>6. MappingFollows(w)'
  BY <1>1, <1>2 DEF WorkerInv, MappingFollows
<1>7. CurrentIsRight(w)'
  <2>1. /\ notActiveAction[w] \in DOMAIN dkgActions
        /\ notActiveAction[w] <= dkgEvents
        /\ notActiveAction[w] > 1 => notActiveAction[w] - 1 \in active
    BY <1>1 DEF WorkerInv, CurrentIsRight
  <2> QED
    BY <1>2, <1>3, <2>1 DEF CurrentIsRight
<1>8. ListIsClosed(w)'
  BY <1>1, <1>2 DEF WorkerInv, ListIsClosed
<1> QED
  BY <1>4, <1>5, <1>6, <1>7, <1>8 DEF WorkerInv

(* The steps that read the mirrored collections into local variables.      *)
LEMMA ReadKeeps ==
  ASSUME IInv, TypeOK', NEW w \in Worker,
         Start(w) \/ Find(w) \/ \E n \in 0 .. events : FetchEvents(w, n)
  PROVE  /\ UNCHANGED <<dkgActions, active, keyModel, createdFor>>
         /\ dkgEvents <= dkgEvents'
         /\ WorkerInv(w)'
         /\ \A v \in Worker \ {w} : SameLocals(v)
<1>1. /\ pc[w] \notin Handling /\ pc'[w] \notin Handling
      /\ pc'[w] \in {"fetchEvents", "find", "exists"}
  BY DEF Start, Find, FetchEvents, Goto, Handling, IInv, TypeOK
<1>2. /\ UNCHANGED <<dkgActions, active, keyModel, createdFor, notActiveAction,
                     nextKeyIdMapping>>
      /\ dkgEvents <= dkgEvents'
  <2>1. CASE Start(w) \/ Find(w)
    BY <2>1, Ids DEF Start, Find, chainVars, dbVars, IInv
  <2>2. ASSUME NEW n \in 0 .. events, FetchEvents(w, n)
        PROVE  /\ UNCHANGED <<dkgActions, active, keyModel, createdFor, notActiveAction,
                              nextKeyIdMapping>>
               /\ dkgEvents <= dkgEvents'
    <3>1. dkgEvents' = IF n > dkgEvents THEN n ELSE dkgEvents
      BY <2>2 DEF FetchEvents
    <3>2. n \in Nat /\ dkgEvents \in Nat
      BY <2>2, Ids DEF IInv, TypeOK
    <3> QED
      BY <2>2, <3>1, <3>2 DEF FetchEvents, chainVars
  <2> QED
    BY <2>1, <2>2
<1>3. \/ notActiveActions'[w] = notActiveActions[w]
      \/ notActiveActions'[w] = DOMAIN dkgActions \ active
  BY DEF Start, Find, FetchEvents, NotActive, IInv, TypeOK
<1>4. WorkerInv(w)'
  <2>1. MappingFollows(w)'
    BY <1>2 DEF IInv, WorkerInv, MappingFollows
  <2>2. CurrentIsRight(w)'
    BY <1>1 DEF CurrentIsRight
  <2>3. ListIsClosed(w)'
    <3>1. CASE notActiveActions'[w] = notActiveActions[w]
      BY <1>1, <1>2, <3>1 DEF IInv, WorkerInv, ListIsClosed
    <3>2. CASE notActiveActions'[w] = DOMAIN dkgActions \ active
      <4>1. dkgActions \in Seq(DkgAction)
        BY DEF IInv, TypeOK
      <4>2. DOMAIN dkgActions = 1 .. Len(dkgActions) /\ Len(dkgActions) \in Nat
        BY <4>1
      <4>3. \A i \in DOMAIN dkgActions : i > 1 => i - 1 \in DOMAIN dkgActions
        BY <4>2
      <4> QED
        BY <1>2, <3>2, <4>3 DEF ListIsClosed
    <3> QED
      BY <1>3, <3>1, <3>2
  <2> QED
    BY <2>1, <2>2, <2>3 DEF WorkerInv
<1>5. \A v \in Worker \ {w} : SameLocals(v)
  BY DEF Start, Find, FetchEvents, Goto, SameLocals, dbVars, IInv, TypeOK
<1> QED
  BY <1>2, <1>4, <1>5

(* A step of a worker leaves the variables of the others alone.            *)
LEMMA OthersKeepTheirs ==
  ASSUME IInv, NEW w \in Worker, Proceed(w) \/ Interrupt(w), NEW v \in Worker \ {w}
  PROVE  SameLocals(v)
<1> USE DEF Goto, SameLocals, IInv, TypeOK
<1>1. CASE Start(w) \/ \E n \in 0 .. events : FetchEvents(w, n)
  BY <1>1 DEF Start, FetchEvents
<1>2. CASE Find(w) \/ Exists(w)
  BY <1>2 DEF Find, Exists
<1>3. CASE Return(w)
  BY <1>3 DEF Return
<1>4. CASE LastKey(w)
  <2>1. nextKeyIdMapping'[v] = nextKeyIdMapping[v]
    BY <1>4 DEF MappingsOK, LastKey
  <2> QED
    BY <1>4, <2>1 DEF LastKey
<1>5. CASE Create(w)
  BY <1>5 DEF Create
<1>6. CASE FindKey(w) \/ SaveKey(w) \/ SaveAction(w)
  BY <1>6 DEF FindKey, SaveKey, SaveAction
<1> QED
  BY <1>1, <1>2, <1>3, <1>4, <1>5, <1>6 DEF Proceed, Done, DuplicateKey, Interrupt

(* The chain only adds: no worker notices before its next call.            *)
LEMMA ChainKeeps ==
  ASSUME IInv, TypeOK', ChainStep
  PROVE  SharedInv' /\ Grows /\ \A w \in Worker : SameLocals(w)
<1>1. /\ UNCHANGED <<active, keyModel, createdFor, dkgEvents>>
      /\ \A w \in Worker : SameLocals(w)
  BY DEF ChainStep, Dispatch, Reduce, dbVars, locals, SameLocals
<1>2. /\ DOMAIN dkgActions \subseteq DOMAIN dkgActions'
      /\ \A i \in DOMAIN dkgActions : dkgActions'[i] = dkgActions[i]
  <2>1. ASSUME NEW enum \in Enum, NEW c \in Committee, NEW k \in 0 .. MaxActions,
               Dispatch(enum, <<c, k>>)
        PROVE  /\ DOMAIN dkgActions \subseteq DOMAIN dkgActions'
               /\ \A i \in DOMAIN dkgActions : dkgActions'[i] = dkgActions[i]
    <3> DEFINE action == [actionEnum |-> enum, committeeId |-> c, keyId |-> k]
    <3>1. action \in DkgAction /\ dkgActions \in Seq(DkgAction)
      BY KeysAssumption DEF DkgAction, IInv, TypeOK
    <3>2. dkgActions' = Append(dkgActions, action)
      BY <2>1 DEF Dispatch
    <3> HIDE DEF action
    <3> QED
      BY <3>1, <3>2
  <2> QED
    BY <2>1 DEF ChainStep, Reduce
<1>3. dkgEvents <= dkgEvents'
  BY <1>1, Ids DEF IInv
<1> QED
  BY <1>1, <1>2, <1>3, UntouchedKeeps

LEMMA StepInv == IInv /\ [Next]_vars => IInv'
<1> SUFFICES ASSUME IInv, [Next]_vars PROVE IInv'
  OBVIOUS
<1>1. ASSUME NEW w \in Worker, Proceed(w) \/ Interrupt(w) PROVE IInv'
  <2>1. TypeOK'
    BY <1>1, WorkerTypeStep DEF IInv, WorkerInv
  <2>2. SharedInv' /\ Grows /\ (WorkerInv(w)' \/ Returned(w))
    <3>1. CASE Start(w) \/ Find(w) \/ \E n \in 0 .. events : FetchEvents(w, n)
      <4>1. /\ UNCHANGED <<dkgActions, active, keyModel, createdFor>>
            /\ dkgEvents <= dkgEvents' /\ WorkerInv(w)'
        BY <2>1, <3>1, ReadKeeps
      <4> QED
        BY <2>1, <4>1, UntouchedKeeps
    <3>2. CASE Exists(w) \/ LastKey(w)
      <4>1. UNCHANGED <<dkgActions, dkgEvents, active, keyModel, createdFor>>
        BY <3>2 DEF Exists, LastKey, chainVars, dbVars
      <4>2. dkgEvents <= dkgEvents'
        BY <4>1, Ids DEF IInv
      <4> QED
        BY <2>1, <3>2, <4>1, <4>2, ExistsKeeps, LastKeyKeeps, UntouchedKeeps
    <3>3. CASE Done(w) \/ DuplicateKey(w) \/ Interrupt(w)
      <4>1. UNCHANGED <<dkgActions, dkgEvents, active, keyModel, createdFor>> /\ Return(w)
        BY <3>3 DEF Done, DuplicateKey, Interrupt, chainVars, dbVars
      <4>2. dkgEvents <= dkgEvents'
        BY <4>1, Ids DEF IInv
      <4> QED
        BY <2>1, <4>1, <4>2, ReturnedAfterReturn, UntouchedKeeps DEF IInv
    <3>4. CASE Create(w)
      BY <2>1, <3>4, CreateKeeps
    <3>5. CASE FindKey(w) \/ SaveKey(w)
      BY <2>1, <3>5, KeyKeeps
    <3>6. CASE SaveAction(w)
      BY <2>1, <3>6, SaveActionKeeps
    <3> QED
      BY <1>1, <3>1, <3>2, <3>3, <3>4, <3>5, <3>6 DEF Proceed
  <2>3. ASSUME NEW v \in Worker PROVE WorkerInv(v)'
    <3>1. CASE v # w
      <4>1. SameLocals(v)
        BY <1>1, <3>1, OthersKeepTheirs
      <4> QED
        BY <2>1, <2>2, <4>1, StaleIsHarmless DEF IInv
    <3>2. CASE v = w
      BY <2>1, <2>2, <3>2, StaleIsHarmless DEF IInv
    <3> QED
      BY <3>1, <3>2
  <2> QED
    BY <2>1, <2>2, <2>3 DEF IInv
<1>2. CASE ChainStep
  <2>1. TypeOK'
    BY <1>2, ChainTypeStep DEF IInv
  <2>2. SharedInv' /\ Grows /\ \A w \in Worker : SameLocals(w)
    BY <1>2, <2>1, ChainKeeps
  <2>3. \A w \in Worker : WorkerInv(w)'
    BY <2>1, <2>2, StaleIsHarmless DEF IInv
  <2> QED
    BY <2>1, <2>2, <2>3 DEF IInv
<1>3. CASE UNCHANGED vars
  <2>1. TypeOK'
    BY <1>3 DEF MappingsOK, IInv, TypeOK, vars, chainVars, dbVars, locals
  <2>2. SharedInv'
    BY <1>3 DEF IInv, SharedInv, DownClosed, EveryGenerateHasItsKey, ActiveInOrder,
                vars, chainVars, dbVars
  <2>3. Grows /\ \A w \in Worker : SameLocals(w)
    BY <1>3, Ids DEF IInv, Grows, SameLocals, vars, chainVars, dbVars, locals
  <2>4. \A w \in Worker : WorkerInv(w)'
    BY <2>1, <2>3, StaleIsHarmless DEF IInv
  <2> QED
    BY <2>1, <2>2, <2>4 DEF IInv
<1> QED
  BY <1>1, <1>2, <1>3 DEF Next

LEMMA AlwaysIInv == Spec => []IInv
BY InitInv, StepInv, PTL DEF Spec

-----------------------------------------------------------------------------
(***************************************************************************)
(* Theorems.                                                               *)
(***************************************************************************)

(* Type correctness of the collections and of every activation's locals.   *)
THEOREM TypeCorrect == Spec => []TypeOK
<1>1. IInv => TypeOK
  BY DEF IInv
<1> QED
  BY <1>1, AlwaysIInv, PTL

LEMMA NoGap == IInv => KeyIdsContiguous
<1> SUFFICES ASSUME IInv, NEW key \in DOMAIN keyModel, key[2] > 0
             PROVE  <<key[1], key[2] - 1>> \in DOMAIN keyModel
  BY DEF KeyIdsContiguous
<1>1. key[2] \in Nat
  BY DEF IInv, TypeOK, KeyIndex
<1>2. key[2] - 1 \in 0 .. key[2]
  BY <1>1
<1> QED
  BY <1>2 DEF IInv, SharedInv, DownClosed

(* The key ids of a committee never have a gap, however many workers       *)
(* create keys from mappings they filled at different times.               *)
THEOREM KeysHaveNoGap == Spec => []KeyIdsContiguous
BY NoGap, AlwaysIInv, PTL

(* No GENERATE_KEY is ever marked active before a key document exists that *)
(* was created for it: a duplicate key error never swallows a key.         *)
THEOREM GeneratesHaveKeys == Spec => []EveryGenerateHasItsKey
<1>1. IInv => EveryGenerateHasItsKey
  BY DEF IInv, SharedInv
<1> QED
  BY <1>1, AlwaysIInv, PTL

(* The active actions are always a prefix of the reduced ones whose events *)
(* are mirrored, whatever lists the workers go through.                    *)
THEOREM ActiveIsAPrefix == Spec => []ActiveInOrder
<1>1. IInv => ActiveInOrder
  BY DEF IInv, SharedInv
<1> QED
  BY <1>1, AlwaysIInv, PTL

-----------------------------------------------------------------------------
(***************************************************************************)
(* Every action but a GENERATE_KEY finds its document.  The contract       *)
(* admits it only for a key that an earlier action generated; when a       *)
(* worker comes to it, the actions before it are active, each GENERATE_KEY *)
(* among them has a document of its own, and the ids have no gap, so that  *)
(* there are documents under as many ids as the contract had keys.         *)
(***************************************************************************)
AdmittedForKey ==
  \A i \in DOMAIN dkgActions :
    dkgActions[i].actionEnum # "GENERATE_KEY" =>
      dkgActions[i].keyId < Cardinality(Generates(dkgActions[i].committeeId, 1 .. i - 1))

FInv == IInv /\ AdmittedForKey

LEMMA BoundedIs ==
  ASSUME NEW n \in Nat, NEW S, S \subseteq 1 .. n
  PROVE  IsFiniteSet(S) /\ Cardinality(S) \in Nat
<1>1. IsFiniteSet(1 .. n)
  BY FS_Interval
<1> QED
  BY <1>1, FS_Subset, FS_CardinalityType

(* A set of natural numbers has a smallest element.                        *)
LEMMA Smallest ==
  ASSUME NEW S, S \subseteq Nat, S # {}
  PROVE  \E m \in S : \A h \in S : m <= h
<1> DEFINE less == OpToRel(<, Nat)
<1>1. IsWellFoundedOn(less, Nat)
  BY NatLessThanWellFounded
<1>2. \A h, m \in Nat : h < m => <<h, m>> \in less
  BY DEF OpToRel
<1> HIDE DEF less
<1>3. PICK m \in S : \A h \in S : ~ (<<h, m>> \in less)
  BY <1>1, WFMin
<1>4. \A h \in S : h \in Nat /\ m \in Nat /\ ~ (h < m)
  BY <1>2, <1>3
<1> QED
  BY <1>4

(* All actions before an active one are active.                            *)
LEMMA ActiveBelow ==
  ASSUME TypeOK, ActiveInOrder, NEW i \in active
  PROVE  1 .. i \subseteq active
<1>0. i \in Nat /\ active \subseteq Nat \ {0}
  BY Ids DEF TypeOK
<1> DEFINE S == {d \in 0 .. i : i - d \in 1 .. i /\ i - d \notin active}
<1>1. CASE S = {}
  <2>1. ASSUME NEW h \in 1 .. i PROVE h \in active
    <3>1. i - h \in 0 .. i /\ i - (i - h) = h
      BY <1>0
    <3> QED
      BY <1>1, <3>1
  <2> QED
    BY <2>1
<1>2. CASE S # {}
  <2>1. S \subseteq Nat
    BY <1>0
  <2>2. PICK d \in S : \A e \in S : d <= e
    <3> HIDE DEF S
    <3> QED
      BY <1>2, <2>1, Smallest
  <2>3. d \in Nat /\ i - d \in 1 .. i /\ i - d \notin active
    BY <1>0, <2>2
  <2>4. d >= 1
    <3>1. d = 0 => i - d = i
      BY <1>0
    <3> QED
      BY <2>3, <3>1
  <2>5. d - 1 \notin S
    BY <2>2, <2>3, <2>4
  <2>6. d - 1 \in 0 .. i /\ i - (d - 1) \in 1 .. i
    BY <1>0, <2>3, <2>4
  <2>7. i - (d - 1) \in active
    BY <2>5, <2>6
  <2>8. i - (d - 1) > 1 /\ (i - (d - 1)) - 1 = i - d
    BY <1>0, <2>3, <2>4
  <2> QED
    BY <2>3, <2>7, <2>8 DEF ActiveInOrder
<1> QED
  BY <1>1, <1>2

(* There are documents for as many ids as active actions generate keys.    *)
LEMMA KeysForGenerates ==
  ASSUME IInv, NEW c \in Committee, NEW n \in Nat, 1 .. n \subseteq active,
         NEW k \in Nat, k < Cardinality(Generates(c, 1 .. n))
  PROVE  <<c, k>> \in DOMAIN keyModel
<1> DEFINE S == Generates(c, 1 .. n)
           T == 0 .. k - 1
           Made(i) == CHOOSE key \in DOMAIN keyModel : key[1] = c /\ createdFor[key] = i
           f == [i \in S |-> Made(i)[2]]
<1>1. IsFiniteSet(S) /\ Cardinality(S) \in Nat
  BY BoundedIs DEF Generates
<1>2. ASSUME NEW i \in S
      PROVE  Made(i) \in DOMAIN keyModel /\ Made(i)[1] = c /\ createdFor[Made(i)] = i
  <2>1. i \in active /\ dkgActions[i].actionEnum = "GENERATE_KEY" /\ dkgActions[i].committeeId = c
    BY DEF Generates
  <2>2. \E key \in DOMAIN keyModel : key[1] = c /\ createdFor[key] = i
    BY <2>1 DEF IInv, SharedInv, EveryGenerateHasItsKey
  <2> QED
    BY <2>2
<1>3. ASSUME NEW i \in S
      PROVE  Made(i) = <<c, Made(i)[2]>> /\ Made(i)[2] \in Nat
  <2>1. Made(i) \in Committee \X Nat
    BY <1>2 DEF IInv, TypeOK, KeyIndex
  <2> HIDE DEF Made
  <2> QED
    BY <1>2, <2>1
<1> SUFFICES ASSUME <<c, k>> \notin DOMAIN keyModel PROVE FALSE
  OBVIOUS
<1>4. ASSUME NEW i \in S PROVE Made(i)[2] \in T
  <2>1. PICK key \in DOMAIN keyModel : key = Made(i)
    BY <1>2
  <2>2. key[1] = c /\ key[2] \in Nat
    BY <1>2, <1>3, <2>1
  <2>3. \A h \in 0 .. key[2] : <<c, h>> \in DOMAIN keyModel
    BY <2>2 DEF IInv, SharedInv, DownClosed
  <2>4. ~ (k <= key[2])
    BY <2>2, <2>3
  <2>5. key[2] \in T
    BY <2>2, <2>4
  <2> QED
    BY <2>1, <2>5
<1>5. \A i, j \in S : Made(i)[2] = Made(j)[2] => i = j
  <2> SUFFICES ASSUME NEW i \in S, NEW j \in S, Made(i)[2] = Made(j)[2] PROVE i = j
    OBVIOUS
  <2>1. Made(i) = Made(j)
    <3>1. Made(i) = <<c, Made(i)[2]>> /\ Made(j) = <<c, Made(j)[2]>>
      BY <1>3
    <3> HIDE DEF Made
    <3> QED
      BY <3>1
  <2>2. createdFor[Made(i)] = i /\ createdFor[Made(j)] = j
    BY <1>2
  <2> HIDE DEF Made
  <2> QED
    BY <2>1, <2>2
<1>6. f \in Injection(S, T)
  <2> HIDE DEF Made, S, T
  <2>1. f \in [S -> T] /\ \A i, j \in S : f[i] = f[j] => i = j
    BY <1>4, <1>5
  <2> HIDE DEF f
  <2> QED
    BY <2>1 DEF Injection, IsInjective
<1>7. IsFiniteSet(T) /\ Cardinality(T) = k
  <2>1. 0 \in Int /\ k - 1 \in Int
    OBVIOUS
  <2>2. IsFiniteSet(0 .. k - 1) /\ Cardinality(0 .. k - 1) = IF 0 > k - 1 THEN 0 ELSE k - 1 - 0 + 1
    BY <2>1, FS_Interval
  <2> QED
    BY <2>2
<1>8. Cardinality(S) <= k
  <2> HIDE DEF S, T, f
  <2> QED
    BY <1>6, <1>7, FS_Injection
<1> QED
  BY <1>1, <1>8

(* The keys of an earlier part of the chain are among those of a later one.*)
LEMMA GeneratesGrow ==
  ASSUME NEW c, NEW m \in Nat, NEW n \in Nat, m <= n
  PROVE  Cardinality(Generates(c, 1 .. m)) <= Cardinality(Generates(c, 1 .. n))
<1>1. Generates(c, 1 .. m) \subseteq Generates(c, 1 .. n)
  BY DEF Generates
<1>2. IsFiniteSet(Generates(c, 1 .. n))
  BY BoundedIs DEF Generates
<1> QED
  BY <1>1, <1>2, FS_Subset

LEMMA AdmittedStep ==
  ASSUME FInv, [Next]_vars
  PROVE  AdmittedForKey'
<1>0. /\ dkgActions \in Seq(DkgAction) /\ Len(dkgActions) \in Nat
      /\ DOMAIN dkgActions = 1 .. Len(dkgActions) /\ events \in 0 .. Len(dkgActions)
  BY DEF FInv, IInv, TypeOK
<1>1. CASE UNCHANGED dkgActions
  BY <1>1 DEF FInv, AdmittedForKey, Generates
<1>2. ASSUME NEW enum \in Enum, NEW c \in Committee, NEW k \in 0 .. MaxActions,
             Dispatch(enum, <<c, k>>)
      PROVE  AdmittedForKey'
  <2> DEFINE action == [actionEnum |-> enum, committeeId |-> c, keyId |-> k]
  <2>1. action \in DkgAction
    BY KeysAssumption DEF DkgAction
  <2>2. PICK n \in Nat : n = Len(dkgActions)
    BY <1>0
  <2>3. /\ DOMAIN dkgActions' = 1 .. n + 1 /\ dkgActions'[n + 1] = action
        /\ \A i \in 1 .. n : dkgActions'[i] = dkgActions[i]
    <3>1. dkgActions' = Append(dkgActions, action)
      BY <1>2 DEF Dispatch
    <3> HIDE DEF action
    <3> QED
      BY <1>0, <2>1, <2>2, <3>1
  <2>4. ASSUME NEW d, NEW i \in 1 .. n + 1
        PROVE  {h \in 1 .. i - 1 : /\ dkgActions'[h].actionEnum = "GENERATE_KEY"
                                   /\ dkgActions'[h].committeeId = d} = Generates(d, 1 .. i - 1)
    <3>1. \A h \in 1 .. i - 1 : dkgActions'[h] = dkgActions[h]
      BY <2>3
    <3> QED
      BY <3>1 DEF Generates
  <2>5. ASSUME enum # "GENERATE_KEY" PROVE k < Cardinality(Generates(c, 1 .. n))
    <3>1. k < Cardinality(Generates(c, 1 .. events))
      BY <1>2, <2>5 DEF Dispatch, ChainKeys
    <3>2. events \in Nat /\ events <= n
      BY <1>0, <2>2
    <3>3. /\ Cardinality(Generates(c, 1 .. events)) \in Nat
          /\ Cardinality(Generates(c, 1 .. n)) \in Nat /\ k \in Nat
      BY <2>2, <3>2, BoundedIs, KeysAssumption DEF Generates
    <3>4. Cardinality(Generates(c, 1 .. events)) <= Cardinality(Generates(c, 1 .. n))
      BY <2>2, <3>2, GeneratesGrow
    <3> QED
      BY <3>1, <3>3, <3>4
  <2>6. ASSUME NEW i \in 1 .. n + 1, dkgActions'[i].actionEnum # "GENERATE_KEY", NEW d,
               dkgActions'[i].committeeId = d
        PROVE  dkgActions'[i].keyId < Cardinality(Generates(d, 1 .. i - 1))
    <3>1. CASE i = n + 1
      <4>1. dkgActions'[i] = action /\ 1 .. i - 1 = 1 .. n
        BY <2>2, <2>3, <3>1
      <4> QED
        BY <2>5, <2>6, <4>1
    <3>2. CASE i \in 1 .. n
      <4>1. dkgActions'[i] = dkgActions[i] /\ i \in DOMAIN dkgActions
        BY <1>0, <2>2, <2>3, <3>2
      <4> QED
        BY <2>6, <4>1 DEF FInv, AdmittedForKey
    <3> QED
      BY <2>2, <3>1, <3>2
  <2>7. \A i \in DOMAIN dkgActions' :
          dkgActions'[i].actionEnum # "GENERATE_KEY" =>
            dkgActions'[i].keyId <
              Cardinality({h \in 1 .. i - 1 :
                /\ dkgActions'[h].actionEnum = "GENERATE_KEY"
                /\ dkgActions'[h].committeeId = dkgActions'[i].committeeId})
    <3> SUFFICES ASSUME NEW i \in 1 .. n + 1, dkgActions'[i].actionEnum # "GENERATE_KEY"
                 PROVE  dkgActions'[i].keyId <
                          Cardinality({h \in 1 .. i - 1 :
                            /\ dkgActions'[h].actionEnum = "GENERATE_KEY"
                            /\ dkgActions'[h].committeeId = dkgActions'[i].committeeId})
      BY <2>3
    <3>1. PICK d : dkgActions'[i].committeeId = d
      OBVIOUS
    <3>2. dkgActions'[i].keyId < Cardinality(Generates(d, 1 .. i - 1))
      BY <2>6, <3>1
    <3> QED
      BY <2>4, <3>1, <3>2
  <2> QED
    BY <2>7 DEF AdmittedForKey, Generates
<1>3. CASE \E n \in events + 1 .. Len(dkgActions) : Reduce(n)
  BY <1>1, <1>3 DEF Reduce
<1>4. ASSUME NEW w \in Worker, Proceed(w) \/ Interrupt(w) PROVE AdmittedForKey'
  <2>1. UNCHANGED dkgActions
    BY <1>4 DEF Proceed, Start, FetchEvents, Find, Exists, Done, LastKey, Create, DuplicateKey,
                FindKey, SaveKey, SaveAction, Interrupt, chainVars
  <2> QED
    BY <1>1, <2>1
<1>5. CASE UNCHANGED vars
  BY <1>1, <1>5 DEF vars, chainVars
<1> QED
  BY <1>2, <1>3, <1>4, <1>5 DEF Next, ChainStep

LEMMA FinalizeFinds == FInv => FinalizeFindsItsKey
<1> SUFFICES ASSUME FInv, NEW w \in Worker, pc[w] \in {"findKey", "saveKey"}
             PROVE  CurrentKey(w) \in DOMAIN keyModel
  BY DEF FinalizeFindsItsKey
<1> DEFINE i == notActiveAction[w]
<1>1. /\ i \in DOMAIN dkgActions /\ Current(w).actionEnum # "GENERATE_KEY"
      /\ i > 1 => i - 1 \in active
  BY DEF FInv, IInv, WorkerInv, CurrentIsRight, Handling
<1>2. i \in Nat \ {0} /\ i - 1 \in Nat
  BY <1>1, Ids DEF FInv, IInv
<1>3. 1 .. i - 1 \subseteq active
  <2>1. CASE i = 1
    BY <2>1
  <2>2. CASE i > 1
    BY <1>1, <2>2, ActiveBelow DEF FInv, IInv, SharedInv
  <2> QED
    BY <1>2, <2>1, <2>2
<1>4. /\ Current(w).committeeId \in Committee /\ Current(w).keyId \in Nat
  BY <1>1, KeysAreIndexes DEF FInv, IInv, DkgAction
<1>5. Current(w).keyId < Cardinality(Generates(Current(w).committeeId, 1 .. i - 1))
  BY <1>1 DEF FInv, AdmittedForKey, Current
<1> HIDE DEF i
<1> QED
  BY <1>2, <1>3, <1>4, <1>5, KeysForGenerates DEF CurrentKey, FInv

(* A key that a FINALIZE or a DEPRECATE names has its document when a      *)
(* worker comes to it, and ids have no gap, however workers overlap: no    *)
(* action blocks those behind it for want of a key.                        *)
THEOREM KeysAreFound == Spec => []KeysAreThere
<1>1. Init => FInv
  <2> SUFFICES ASSUME Init PROVE FInv
    OBVIOUS
  <2>1. DOMAIN dkgActions = {}
    BY DEF Init
  <2> QED
    BY <2>1, InitInv DEF FInv, AdmittedForKey
<1>2. FInv /\ [Next]_vars => FInv'
  BY AdmittedStep, StepInv DEF FInv
<1>3. Spec => []FInv
  BY <1>1, <1>2, PTL DEF Spec
<1> QED
  BY <1>3, FinalizeFinds, KeysHaveNoGap, PTL DEF KeysAreThere


-----------------------------------------------------------------------------
(***************************************************************************)
(* The roll-up of DkgRollup.  Its steps are steps of the pass, or reduce   *)
(* actions of the log, or leave the pass alone: what is proved of the pass *)
(* holds of both together.  First, what a log is that the contract admits. *)
(***************************************************************************)

(* An admissible action makes a longer legal log.                          *)
LEMMA LegalAppend ==
  ASSUME NEW log \in Seq(DkgAction), Legal(log), NEW a \in DkgAction,
         a.actionEnum # "GENERATE_KEY" =>
           /\ a.keyId < Cardinality({h \in DOMAIN log : /\ log[h].actionEnum = "GENERATE_KEY"
                                                        /\ log[h].committeeId = a.committeeId})
           /\ \A h \in DOMAIN log :
                log[h].committeeId = a.committeeId /\ log[h].keyId = a.keyId =>
                  log[h].actionEnum # a.actionEnum
           /\ a.actionEnum # "FINALIZE_ROUND_1" =>
                \E h \in DOMAIN log :
                  /\ log[h].committeeId = a.committeeId /\ log[h].keyId = a.keyId
                  /\ log[h].actionEnum = Predecessor(a.actionEnum)
  PROVE  Legal(Append(log, a))
<1>1. PICK m \in Nat : m = Len(log)
  OBVIOUS
<1>2. PICK new : new = Append(log, a)
  OBVIOUS
<1>3. /\ DOMAIN new = 1 .. m + 1 /\ DOMAIN log = 1 .. m /\ new[m + 1] = a
      /\ \A h \in 1 .. m : new[h] = log[h]
  BY <1>1, <1>2
<1>4. SUFFICES ASSUME NEW i \in 1 .. m + 1, new[i].actionEnum # "GENERATE_KEY"
               PROVE  Admissible(new, i)
  BY <1>2, <1>3 DEF Legal
<1>5. CASE i = m + 1
  <2>1. 1 .. i - 1 = 1 .. m /\ new[i] = a
    BY <1>3, <1>5
  <2>2. {h \in 1 .. m : /\ new[h].actionEnum = "GENERATE_KEY"
                        /\ new[h].committeeId = a.committeeId}
          = {h \in DOMAIN log : /\ log[h].actionEnum = "GENERATE_KEY"
                                /\ log[h].committeeId = a.committeeId}
    BY <1>3
  <2> QED
    BY <1>3, <1>4, <2>1, <2>2 DEF Admissible
<1>6. CASE i \in 1 .. m
  <2>1. new[i] = log[i] /\ \A h \in 1 .. i - 1 : new[h] = log[h]
    BY <1>3, <1>6
  <2>2. Admissible(log, i)
    BY <1>3, <1>4, <1>6, <2>1 DEF Legal
  <2>3. {h \in 1 .. i - 1 : /\ new[h].actionEnum = "GENERATE_KEY"
                            /\ new[h].committeeId = new[i].committeeId}
          = {h \in 1 .. i - 1 : /\ log[h].actionEnum = "GENERATE_KEY"
                                /\ log[h].committeeId = log[i].committeeId}
    BY <2>1
  <2> QED
    BY <2>1, <2>2, <2>3 DEF Admissible
<1> QED
  BY <1>5, <1>6

(* What an action of the log is.                                           *)
LEMMA ActionIs ==
  ASSUME TypeOK, NEW i \in DOMAIN dkgActions, NEW enum, NEW c, NEW k
  PROVE  /\ dkgActions[i] \in DkgAction
         /\ dkgActions[i] = [actionEnum |-> enum, committeeId |-> c, keyId |-> k]
              <=> /\ dkgActions[i].actionEnum = enum
                  /\ dkgActions[i].committeeId = c /\ dkgActions[i].keyId = k
<1>1. dkgActions[i] \in DkgAction
  BY DEF TypeOK
<1> QED
  BY <1>1 DEF DkgAction

\* Action i is that step of the life of a key.
IsStep(i, enum, key) ==
  /\ dkgActions[i].actionEnum = enum
  /\ dkgActions[i].committeeId = key[1] /\ dkgActions[i].keyId = key[2]

LEMMA AmongIs ==
  ASSUME TypeOK, NEW ids, NEW enum, NEW key
  PROVE  Among(ids, enum, key) <=> \E i \in ids \cap DOMAIN dkgActions : IsStep(i, enum, key)
BY ActionIs DEF Among, IsStep

LEMMA LegalStep ==
  ASSUME TypeOK, Legal(dkgActions), [Next]_vars
  PROVE  Legal(dkgActions')
<1>1. CASE UNCHANGED dkgActions
  BY <1>1 DEF Legal, Admissible
<1>2. ASSUME NEW enum \in Enum, NEW c \in Committee, NEW k \in 0 .. MaxActions,
             Dispatch(enum, <<c, k>>)
      PROVE  Legal(dkgActions')
  <2>1. PICK a : a = [actionEnum |-> enum, committeeId |-> c, keyId |-> k]
    OBVIOUS
  <2>2. a \in DkgAction /\ a.actionEnum = enum /\ a.committeeId = c /\ a.keyId = k
    BY <2>1, KeysAssumption DEF DkgAction
  <2>3. dkgActions' = Append(dkgActions, a)
    BY <1>2, <2>1 DEF Dispatch
  <2>4. PICK n \in Nat : n = Len(dkgActions) /\ DOMAIN dkgActions = 1 .. n /\ events \in 0 .. n
    BY DEF TypeOK
  <2>5. ASSUME enum # "GENERATE_KEY"
        PROVE  /\ k < Cardinality({h \in DOMAIN dkgActions :
                                     /\ dkgActions[h].actionEnum = "GENERATE_KEY"
                                     /\ dkgActions[h].committeeId = c})
               /\ \A h \in DOMAIN dkgActions :
                    dkgActions[h].committeeId = c /\ dkgActions[h].keyId = k =>
                      dkgActions[h].actionEnum # enum
               /\ enum # "FINALIZE_ROUND_1" =>
                    \E h \in DOMAIN dkgActions :
                      /\ dkgActions[h].committeeId = c /\ dkgActions[h].keyId = k
                      /\ dkgActions[h].actionEnum = Predecessor(enum)
    <3>1. k < Cardinality(Generates(c, 1 .. events))
      BY <1>2, <2>5 DEF Dispatch, ChainKeys
    <3>2. Cardinality(Generates(c, 1 .. events)) <= Cardinality(Generates(c, 1 .. n))
      BY <2>4, GeneratesGrow
    <3>3. /\ Cardinality(Generates(c, 1 .. events)) \in Nat
          /\ Cardinality(Generates(c, 1 .. n)) \in Nat
      BY <2>4, BoundedIs DEF Generates
    <3>4. k < Cardinality(Generates(c, 1 .. n))
      BY <3>1, <3>2, <3>3, KeysAssumption
    <3>5. ~ Among(1 .. n, enum, <<c, k>>)
      BY <1>2, <2>4, <2>5 DEF Dispatch
    <3>6. enum # "FINALIZE_ROUND_1" => Among(1 .. events, Predecessor(enum), <<c, k>>)
      BY <1>2, <2>5 DEF Dispatch
    <3>7. \A h \in DOMAIN dkgActions : ~ IsStep(h, enum, <<c, k>>)
      BY <2>4, <3>5, AmongIs
    <3>8. ASSUME enum # "FINALIZE_ROUND_1"
          PROVE  \E h \in DOMAIN dkgActions : IsStep(h, Predecessor(enum), <<c, k>>)
      BY <3>6, <3>8, AmongIs
    <3>9. Generates(c, 1 .. n) = {h \in DOMAIN dkgActions :
                                   /\ dkgActions[h].actionEnum = "GENERATE_KEY"
                                   /\ dkgActions[h].committeeId = c}
      BY <2>4 DEF Generates
    <3> QED
      BY <3>4, <3>7, <3>8, <3>9 DEF IsStep
  <2> QED
    BY <2>2, <2>3, <2>5, LegalAppend DEF TypeOK
<1>3. CASE \E n \in events + 1 .. Len(dkgActions) : Reduce(n)
  BY <1>1, <1>3 DEF Reduce
<1>4. ASSUME NEW w \in Worker, Proceed(w) \/ Interrupt(w) PROVE Legal(dkgActions')
  <2>1. UNCHANGED dkgActions
    BY <1>4 DEF Proceed, Start, FetchEvents, Find, Exists, Done, LastKey, Create, DuplicateKey,
                FindKey, SaveKey, SaveAction, Interrupt, chainVars
  <2> QED
    BY <1>1, <2>1
<1>5. CASE UNCHANGED vars
  BY <1>1, <1>5 DEF vars, chainVars
<1> QED
  BY <1>2, <1>3, <1>4, <1>5 DEF Next, ChainStep

(* In a legal log an action on a key comes after the one that generates    *)
(* it and after the steps before it in the key's life, and comes once.     *)
LEMMA LegalIs ==
  ASSUME TypeOK, Legal(dkgActions), NEW i \in DOMAIN dkgActions,
         dkgActions[i].actionEnum # "GENERATE_KEY", NEW c, NEW k,
         dkgActions[i].committeeId = c, dkgActions[i].keyId = k
  PROVE  /\ k < Cardinality(Generates(c, 1 .. i - 1))
         /\ \A h \in 1 .. i - 1 : ~ IsStep(h, dkgActions[i].actionEnum, <<c, k>>)
         /\ dkgActions[i].actionEnum # "FINALIZE_ROUND_1" =>
              \E h \in 1 .. i - 1 : IsStep(h, Predecessor(dkgActions[i].actionEnum), <<c, k>>)
BY DEF Legal, Admissible, Generates, IsStep


(* The steps that come before a step in a key's life are in the log too.   *)
LEMMA StepsBelow ==
  ASSUME TypeOK, Legal(dkgActions), NEW n \in Nat, 1 .. n \subseteq DOMAIN dkgActions,
         NEW c, NEW k
  PROVE  /\ Among(1 .. n, "FINALIZE_ROUND_2", <<c, k>>) => Among(1 .. n, "FINALIZE_ROUND_1", <<c, k>>)
         /\ Among(1 .. n, "DEPRECATE_KEY", <<c, k>>) => Among(1 .. n, "FINALIZE_ROUND_2", <<c, k>>)
<1>1. ASSUME NEW enum \in {"FINALIZE_ROUND_2", "DEPRECATE_KEY"}, Among(1 .. n, enum, <<c, k>>)
      PROVE  Among(1 .. n, Predecessor(enum), <<c, k>>)
  <2>1. PICK i \in 1 .. n : i \in DOMAIN dkgActions /\ IsStep(i, enum, <<c, k>>)
    BY <1>1, AmongIs
  <2>2. \E h \in 1 .. i - 1 : IsStep(h, Predecessor(enum), <<c, k>>)
    BY <1>1, <2>1, LegalIs DEF IsStep
  <2>3. \A h \in 1 .. i - 1 : h \in 1 .. n /\ h \in DOMAIN dkgActions
    BY <2>1
  <2> QED
    BY <2>2, <2>3, AmongIs
<1> QED
  BY <1>1 DEF Predecessor

(* The step that an action is gives its key the status of that step, which *)
(* it did not have before.                                                 *)
LEMMA StatusStep ==
  ASSUME TypeOK, Legal(dkgActions), NEW i \in DOMAIN dkgActions,
         dkgActions[i].actionEnum # "GENERATE_KEY", NEW c, NEW k,
         dkgActions[i].committeeId = c, dkgActions[i].keyId = k
  PROVE  /\ StatusIn(1 .. i, <<c, k>>) = StatusAfter(dkgActions[i].actionEnum)
         /\ StatusIn(1 .. i - 1, <<c, k>>) # StatusAfter(dkgActions[i].actionEnum)
<1>1. PICK e : e = dkgActions[i].actionEnum
  OBVIOUS
<1>2. e \in {"FINALIZE_ROUND_1", "FINALIZE_ROUND_2", "DEPRECATE_KEY"}
  BY <1>1, ActionIs DEF DkgAction, Enum
<1>3. i \in Nat \ {0} /\ 1 .. i \subseteq DOMAIN dkgActions
      /\ i - 1 \in Nat /\ 1 .. i - 1 \subseteq DOMAIN dkgActions
  BY Ids DEF TypeOK
<1>4. ~ Among(1 .. i - 1, e, <<c, k>>)
  BY <1>1, LegalIs, AmongIs
<1>5. \A enum : Among(1 .. i, enum, <<c, k>>) <=> enum = e \/ Among(1 .. i - 1, enum, <<c, k>>)
  <2>1. 1 .. i = 1 .. i - 1 \cup {i} /\ IsStep(i, e, <<c, k>>)
        /\ \A enum : IsStep(i, enum, <<c, k>>) => enum = e
    BY <1>1, <1>3 DEF IsStep
  <2> QED
    BY <2>1, AmongIs
<1>6. /\ Among(1 .. i - 1, "FINALIZE_ROUND_2", <<c, k>>) => Among(1 .. i - 1, "FINALIZE_ROUND_1", <<c, k>>)
      /\ Among(1 .. i - 1, "DEPRECATE_KEY", <<c, k>>) => Among(1 .. i - 1, "FINALIZE_ROUND_2", <<c, k>>)
  BY <1>3, StepsBelow
<1> QED
  BY <1>1, <1>2, <1>4, <1>5, <1>6 DEF StatusIn, StatusAfter

(* Actions on other keys, and those that generate keys, change no status.  *)
LEMMA StatusOther ==
  ASSUME TypeOK, NEW ids, NEW more, ids \subseteq more, NEW c, NEW k,
         \A i \in (more \ ids) \cap DOMAIN dkgActions :
           \/ dkgActions[i].actionEnum = "GENERATE_KEY"
           \/ dkgActions[i].committeeId # c \/ dkgActions[i].keyId # k
  PROVE  StatusIn(more, <<c, k>>) = StatusIn(ids, <<c, k>>)
<1>1. \A enum : enum # "GENERATE_KEY" =>
        (Among(more, enum, <<c, k>>) <=> Among(ids, enum, <<c, k>>))
  BY AmongIs DEF IsStep
<1> QED
  BY <1>1 DEF StatusIn

(* A key that is not yet generated has no step behind it.                  *)
LEMMA StatusOfNew ==
  ASSUME TypeOK, Legal(dkgActions), NEW n \in Nat, 1 .. n \subseteq DOMAIN dkgActions,
         NEW c, NEW k \in Nat, k >= Cardinality(Generates(c, 1 .. n))
  PROVE  StatusIn(1 .. n, <<c, k>>) = "ROUND_1_CONTRIBUTION"
<1>1. ASSUME NEW i \in 1 .. n, dkgActions[i].actionEnum # "GENERATE_KEY",
             dkgActions[i].committeeId = c, dkgActions[i].keyId = k
      PROVE  FALSE
  <2>1. k < Cardinality(Generates(c, 1 .. i - 1))
    BY <1>1, LegalIs
  <2>2. i - 1 \in Nat /\ i - 1 <= n
    OBVIOUS
  <2>3. /\ Cardinality(Generates(c, 1 .. i - 1)) \in Nat /\ Cardinality(Generates(c, 1 .. n)) \in Nat
    BY <2>2, BoundedIs DEF Generates
  <2>4. Cardinality(Generates(c, 1 .. i - 1)) <= Cardinality(Generates(c, 1 .. n))
    BY <2>2, GeneratesGrow
  <2> QED
    BY <2>1, <2>3, <2>4
<1>2. \A enum : enum # "GENERATE_KEY" => ~ Among(1 .. n, enum, <<c, k>>)
  BY <1>1, AmongIs DEF IsStep
<1> QED
  BY <1>2 DEF StatusIn

(* The active actions are those up to the last one.                        *)
LEMMA ActiveIs ==
  ASSUME TypeOK, ActiveInOrder
  PROVE  active = 1 .. Cardinality(active) /\ Cardinality(active) \in Nat
<1>1. PICK n \in Nat : n = Len(dkgActions) /\ DOMAIN dkgActions = 1 .. n
  BY DEF TypeOK
<1>2. active \subseteq 1 .. n
  BY <1>1 DEF TypeOK
<1> DEFINE S == {m \in Nat : m + 1 \notin active}
<1>3. S # {}
  <2>1. n \in S
    BY <1>2
  <2> QED
    BY <2>1
<1>4. PICK m \in S : \A h \in S : m <= h
  <2> HIDE DEF S
  <2>1. S \subseteq Nat
    BY DEF S
  <2> QED
    BY <1>3, <2>1, Smallest
<1>5. 1 .. m \subseteq active
  <2> SUFFICES ASSUME NEW i \in 1 .. m, i \notin active PROVE FALSE
    OBVIOUS
  <2>1. i - 1 \in S
    BY <1>4
  <2> QED
    BY <1>4, <2>1
<1>6. active \subseteq 1 .. m
  <2> SUFFICES ASSUME NEW i \in active, i \notin 1 .. m PROVE FALSE
    OBVIOUS
  <2>1. i \in Nat \ {0}
    BY <1>2
  <2>2. m + 1 \in 1 .. i
    BY <1>4, <2>1
  <2>3. 1 .. i \subseteq active
    BY ActiveBelow
  <2> QED
    BY <1>4, <2>2, <2>3
<1>7. active = 1 .. m /\ m \in Nat
  BY <1>4, <1>5, <1>6
<1>8. Cardinality(1 .. m) = m
  <2>1. Cardinality(1 .. m) = IF 1 > m THEN 0 ELSE m - 1 + 1
    BY <1>7, FS_Interval
  <2> QED
    BY <1>7, <2>1
<1> QED
  BY <1>7, <1>8


-----------------------------------------------------------------------------
(***************************************************************************)
(* One worker.  What it has in hand is the first action that is not        *)
(* active, and nobody else changes what it has read.                       *)
(***************************************************************************)
OneWorker == \A v, w \in Worker : v = w

\* The action that is next to become active.
Front == Cardinality(active) + 1

Turn(w) ==
  /\ pc[w] \in Handling =>
       notActiveAction[w] = Front /\ notActiveAction[w] \notin notActiveActions[w]
  /\ pc[w] = "create" => Current(w).actionEnum = "GENERATE_KEY"
  /\ notActiveActions[w] \cap active = {}

LEMMA IntervalCard ==
  ASSUME NEW n \in Nat
  PROVE  Cardinality(1 .. n) = n
<1>1. Cardinality(1 .. n) = IF 1 > n THEN 0 ELSE n - 1 + 1
  BY FS_Interval
<1> QED
  BY <1>1

(* A step adds to what is shared.                                          *)
LEMMA GrowStep ==
  ASSUME IInv, [Next]_vars
  PROVE  Grows /\ events <= events'
<1>0. TypeOK /\ IInv' /\ TypeOK'
  BY StepInv DEF IInv
<1>1. dkgEvents \in Nat /\ events \in Nat
  BY <1>0 DEF TypeOK
<1>2. ASSUME NEW w \in Worker, Proceed(w) \/ Interrupt(w) PROVE Grows /\ events <= events'
  <2>1. CASE Start(w) \/ Find(w) \/ \E n \in 0 .. events : FetchEvents(w, n)
    <3>1. Grows
      BY <1>0, <2>1, ReadKeeps, UntouchedKeeps
    <3> QED
      BY <1>1, <2>1, <3>1 DEF Start, Find, FetchEvents, chainVars
  <2>2. CASE Exists(w) \/ LastKey(w) \/ Done(w) \/ DuplicateKey(w) \/ Interrupt(w)
    <3>1. UNCHANGED <<dkgActions, events, dkgEvents, active, keyModel, createdFor>>
      BY <2>2 DEF Exists, LastKey, Done, DuplicateKey, Interrupt, chainVars, dbVars
    <3> QED
      BY <1>1, <3>1 DEF Grows
  <2>3. CASE Create(w)
    <3>1. Grows
      BY <1>0, <2>3, CreateKeeps
    <3>2. UNCHANGED events
      BY <2>3 DEF Create, chainVars
    <3> QED
      BY <1>1, <3>1, <3>2
  <2>4. CASE FindKey(w) \/ SaveKey(w)
    BY <1>0, <1>1, <2>4, KeyKeeps DEF FindKey, SaveKey, chainVars
  <2>5. CASE SaveAction(w)
    <3>1. Grows
      BY <1>0, <2>5, SaveActionKeeps
    <3>2. UNCHANGED events
      BY <2>5 DEF SaveAction, chainVars
    <3> QED
      BY <1>1, <3>1, <3>2
  <2> QED
    BY <1>2, <2>1, <2>2, <2>3, <2>4, <2>5 DEF Proceed
<1>3. CASE ChainStep
  <2>1. Grows
    BY <1>0, <1>3, ChainKeeps
  <2>2. events <= events'
    <3>1. CASE UNCHANGED events
      BY <1>1, <3>1
    <3>2. ASSUME NEW n \in events + 1 .. Len(dkgActions), Reduce(n) PROVE events <= events'
      <4>1. events' = n
        BY <3>2 DEF Reduce
      <4> QED
        BY <1>1, <4>1
    <3> QED
      BY <1>3, <3>1, <3>2 DEF ChainStep, Dispatch
  <2> QED
    BY <2>1, <2>2
<1>4. CASE UNCHANGED vars
  BY <1>1, <1>4 DEF Grows, vars, chainVars, dbVars
<1> QED
  BY <1>2, <1>3, <1>4 DEF Next

LEMMA TurnStep ==
  ASSUME IInv, OneWorker, \A w \in Worker : Turn(w), [Next]_vars
  PROVE  \A w \in Worker : Turn(w)'
<1>0. TypeOK /\ ActiveInOrder /\ IInv' /\ TypeOK' /\ Grows
  BY StepInv, GrowStep DEF IInv, SharedInv
<1>1. PICK n \in Nat : active = 1 .. n /\ Cardinality(active) = n
  BY <1>0, ActiveIs
<1>2. ASSUME NEW w \in Worker, Proceed(w) \/ Interrupt(w) PROVE Turn(w)'
  <2>1. CASE Start(w) \/ Find(w) \/ \E m \in 0 .. events : FetchEvents(w, m)
    <3>1. UNCHANGED active /\ pc'[w] \notin Handling /\ pc'[w] # "create"
      BY <1>0, <2>1 DEF Start, Find, FetchEvents, dbVars, Goto, Handling, TypeOK
    <3>2. \/ notActiveActions'[w] = notActiveActions[w]
          \/ notActiveActions'[w] = DOMAIN dkgActions \ active
      BY <1>0, <2>1 DEF Start, Find, FetchEvents, NotActive, TypeOK
    <3> QED
      BY <3>1, <3>2 DEF Turn
  <2>2. CASE Exists(w)
    <3>1. PICK i \in notActiveActions[w] :
            /\ notActiveAction' = [notActiveAction EXCEPT ![w] = i]
            /\ notActiveActions' = [notActiveActions EXCEPT ![w] = @ \ {i}]
      BY <2>2 DEF Exists
    <3>2. /\ UNCHANGED active /\ pc'[w] = "lastKey" /\ pc'[w] \in Handling
          /\ notActiveAction'[w] = i /\ notActiveActions'[w] = notActiveActions[w] \ {i}
      BY <1>0, <2>2, <3>1 DEF Exists, dbVars, Goto, Handling, TypeOK
    <3>3. i \in Nat \ {0} /\ i \notin active
      BY <1>0, <3>1, Ids DEF Turn
    <3>4. i > 1 => i - 1 \in active
      BY <1>0, <3>2 DEF IInv, WorkerInv, CurrentIsRight
    <3>5. i = n + 1
      BY <1>1, <3>3, <3>4
    <3> QED
      BY <1>1, <3>2, <3>5 DEF Turn, Front
  <2>3. CASE LastKey(w) \/ Create(w) \/ FindKey(w) \/ SaveKey(w)
    <3>1. /\ UNCHANGED <<active, dkgActions, notActiveAction, notActiveActions>>
          /\ pc[w] \in Handling
          /\ pc'[w] = "create" => Current(w).actionEnum = "GENERATE_KEY"
      BY <1>0, <2>3
      DEF LastKey, Create, FindKey, SaveKey, chainVars, dbVars, Goto, Handling, TypeOK
    <3> QED
      BY <3>1 DEF Turn, Front, Current
  <2>4. CASE SaveAction(w)
    <3>1. /\ pc[w] \in Handling /\ active' = active \cup {notActiveAction[w]}
          /\ pc'[w] \notin Handling /\ pc'[w] # "create"
          /\ UNCHANGED notActiveActions
      BY <1>0, <2>4 DEF SaveAction, Goto, Handling, TypeOK
    <3> QED
      BY <3>1 DEF Turn
  <2>5. CASE Done(w) \/ DuplicateKey(w) \/ Interrupt(w)
    <3>1. Returned(w)
      BY <1>0, <2>5, ReturnedAfterReturn DEF Done, DuplicateKey, Interrupt
    <3> QED
      BY <3>1 DEF Turn, Returned, Handling
  <2> QED
    BY <1>2, <2>1, <2>2, <2>3, <2>4, <2>5 DEF Proceed
<1>3. CASE ChainStep \/ UNCHANGED vars
  <2>1. UNCHANGED <<active, pc, notActiveAction, notActiveActions>>
    BY <1>3 DEF ChainStep, Dispatch, Reduce, vars, dbVars, locals
  <2>2. ASSUME NEW w \in Worker PROVE Turn(w)'
    <3>1. pc[w] = "create" => Current(w)' = Current(w)
      <4>1. pc[w] = "create" => notActiveAction[w] \in DOMAIN dkgActions
        BY DEF IInv, WorkerInv, CurrentIsRight, Handling
      <4> QED
        BY <1>0, <2>1, <4>1 DEF Current, Grows
    <3> QED
      BY <2>1, <3>1 DEF Turn, Front
  <2> QED
    BY <2>2
<1> QED
  BY <1>2, <1>3 DEF Next, OneWorker


\* The documents of a committee's keys can be counted, and how many there are.
KeysCounted == (\A c \in Committee : IsFiniteSet(KeysOf(c))) /\ SurplusKeysAreInterruptions

\* Whoever creates a key is about to save an action that generates one.
LEMMA CreatingIs ==
  ASSUME IInv, NEW c, NEW w \in Worker
  PROVE  w \in Creating(c) <=> /\ pc[w] = "saveAction"
                               /\ Current(w).actionEnum = "GENERATE_KEY"
                               /\ Current(w).committeeId = c
<1>1. pc[w] = "saveAction" => notActiveAction[w] \in DOMAIN dkgActions
  BY DEF IInv, WorkerInv, CurrentIsRight, Handling
<1> QED
  BY <1>1 DEF Creating, Generates, Current

(* Each step but Create, SaveAction and Interrupt leaves the numbers alone. *)
LEMMA CountStep ==
  ASSUME IInv, OneWorker, \A w \in Worker : Turn(w), KeysCounted, [Next]_vars
  PROVE  KeysCounted'
<1>0. TypeOK /\ ActiveInOrder /\ IInv' /\ TypeOK' /\ Grows
  BY StepInv, GrowStep DEF IInv, SharedInv
<1>1. PICK n \in Nat : active = 1 .. n /\ Cardinality(active) = n
  BY <1>0, ActiveIs
<1>2. interrupted \in Nat
  BY <1>0, KeysAssumption DEF TypeOK
<1>3. SUFFICES ASSUME NEW c \in Committee
               PROVE  /\ IsFiniteSet(KeysOf(c)')
                      /\ Cardinality(KeysOf(c)') <=
                           Cardinality(Generates(c, active)') + Cardinality(Creating(c)') + interrupted'
                      /\ interrupted' = 0 =>
                           Cardinality(KeysOf(c)') =
                             Cardinality(Generates(c, active)') + Cardinality(Creating(c)')
  BY DEF KeysCounted, SurplusKeysAreInterruptions
<1>4. PICK K, G, C : K = KeysOf(c) /\ G = Generates(c, active) /\ C = Creating(c)
  OBVIOUS
<1>5. /\ IsFiniteSet(K) /\ Cardinality(K) \in Nat
      /\ IsFiniteSet(G) /\ Cardinality(G) \in Nat
      /\ Cardinality(K) <= Cardinality(G) + Cardinality(C) + interrupted
      /\ interrupted = 0 => Cardinality(K) = Cardinality(G) + Cardinality(C)
  <2>1. IsFiniteSet(K)
    BY <1>4 DEF KeysCounted
  <2>2. IsFiniteSet(G) /\ Cardinality(G) \in Nat
    BY <1>1, <1>4, BoundedIs DEF Generates
  <2> QED
    BY <1>3, <1>4, <2>1, <2>2, FS_CardinalityType DEF KeysCounted, SurplusKeysAreInterruptions
<1>6. active' = active => Generates(c, active)' = G
  BY <1>0, <1>4 DEF Generates, Grows, TypeOK
<1>7. CASE KeysOf(c)' = K /\ active' = active /\ Creating(c)' = C /\ interrupted' = interrupted
  BY <1>5, <1>6, <1>7
<1>8. ASSUME NEW w \in Worker, Proceed(w) \/ Interrupt(w)
      PROVE  /\ IsFiniteSet(KeysOf(c)')
             /\ Cardinality(KeysOf(c)') <=
                  Cardinality(Generates(c, active)') + Cardinality(Creating(c)') + interrupted'
             /\ interrupted' = 0 =>
                  Cardinality(KeysOf(c)') =
                    Cardinality(Generates(c, active)') + Cardinality(Creating(c)')
  <2>1. /\ \A v \in Worker : v = w
        /\ C \subseteq {w} /\ (w \in C <=> /\ pc[w] = "saveAction"
                                           /\ Current(w).actionEnum = "GENERATE_KEY"
                                           /\ Current(w).committeeId = c)
    BY <1>4, CreatingIs DEF OneWorker, Creating
  <2>2. Creating(c)' = IF /\ pc'[w] = "saveAction" /\ notActiveAction'[w] \in DOMAIN dkgActions'
                          /\ dkgActions'[notActiveAction'[w]].actionEnum = "GENERATE_KEY"
                          /\ dkgActions'[notActiveAction'[w]].committeeId = c
                       THEN {w} ELSE {}
    BY <2>1 DEF Creating, Generates
  <2>3. Cardinality({}) = 0 /\ Cardinality({w}) = 1
    BY FS_EmptySet, FS_Singleton
  <2>4. CASE \/ Start(w) \/ Find(w) \/ Exists(w) \/ LastKey(w) \/ Done(w) \/ DuplicateKey(w)
             \/ FindKey(w) \/ \E m \in 0 .. events : FetchEvents(w, m)
    <3>1. /\ UNCHANGED <<active, keyModel, interrupted>>
          /\ pc[w] # "saveAction" /\ pc'[w] # "saveAction"
      BY <1>0, <2>4
      DEF Start, Find, Exists, LastKey, Done, DuplicateKey, FindKey, FetchEvents, Goto, Return,
          dbVars, TypeOK
    <3>2. Creating(c)' = C /\ KeysOf(c)' = K
      BY <1>4, <2>1, <2>2, <3>1 DEF KeysOf
    <3> QED
      BY <1>7, <3>1, <3>2
  <2>5. CASE SaveKey(w)
    <3>1. /\ UNCHANGED <<active, dkgActions, interrupted, notActiveAction>>
          /\ DOMAIN keyModel' = DOMAIN keyModel
          /\ pc[w] = "saveKey"
      BY <1>0, <2>5 DEF SaveKey, chainVars, TypeOK
    <3>2. Current(w).actionEnum # "GENERATE_KEY"
      BY <3>1 DEF IInv, WorkerInv, CurrentIsRight
    <3>3. Creating(c)' = C /\ KeysOf(c)' = K
      BY <1>4, <2>1, <2>2, <3>1, <3>2 DEF KeysOf, Current
    <3> QED
      BY <1>7, <3>1, <3>3
  <2>6. CASE Create(w)
    <3>1. /\ UNCHANGED <<active, dkgActions, interrupted, notActiveAction>>
          /\ pc[w] = "create" /\ pc'[w] = "saveAction"
          /\ NewKey(w) \notin DOMAIN keyModel
          /\ DOMAIN keyModel' = DOMAIN keyModel \cup {NewKey(w)}
      BY <1>0, <2>6 DEF Create, chainVars, Goto, TypeOK
    <3>2. Current(w).actionEnum = "GENERATE_KEY" /\ notActiveAction[w] \in DOMAIN dkgActions
      BY <3>1 DEF IInv, WorkerInv, CurrentIsRight, Handling, Turn
    <3>3. C = {} /\ Creating(c)' = IF Current(w).committeeId = c THEN {w} ELSE {}
      BY <2>1, <2>2, <3>1, <3>2 DEF Current
    <3>4. PICK key : key = NewKey(w) /\ key[1] = Current(w).committeeId
      <4>1. PICK d, k : d = Current(w).committeeId /\ k = nextKeyIdMapping[w][d]
        OBVIOUS
      <4>2. NewKey(w) = <<d, k>> /\ <<d, k>>[1] = d
        BY <4>1 DEF NewKey
      <4> QED
        BY <4>1, <4>2
    <3>5. CASE Current(w).committeeId = c
      <4>1. KeysOf(c)' = K \cup {key} /\ key \notin K
        BY <1>4, <3>1, <3>4, <3>5 DEF KeysOf
      <4>2. IsFiniteSet(K \cup {key}) /\ Cardinality(K \cup {key}) = Cardinality(K) + 1
        BY <1>5, <4>1, FS_AddElement
      <4> QED
        BY <1>2, <1>5, <1>6, <2>3, <3>1, <3>3, <3>5, <4>1, <4>2
    <3>6. CASE Current(w).committeeId # c
      <4>1. KeysOf(c)' = K
        BY <1>4, <3>1, <3>4, <3>6 DEF KeysOf
      <4> QED
        BY <1>7, <3>1, <3>3, <3>6, <4>1
    <3> QED
      BY <3>5, <3>6
  <2>7. CASE SaveAction(w)
    <3>1. /\ UNCHANGED <<keyModel, dkgActions, interrupted>>
          /\ pc[w] = "saveAction" /\ pc'[w] # "saveAction"
          /\ active' = active \cup {notActiveAction[w]}
      BY <1>0, <2>7 DEF SaveAction, chainVars, Goto, TypeOK
    <3>2. PICK i : i = notActiveAction[w] /\ i = n + 1 /\ i \notin active
      BY <1>1, <3>1 DEF Turn, Front, Handling
    <3>3. Creating(c)' = {} /\ KeysOf(c)' = K
      BY <1>4, <2>2, <3>1 DEF KeysOf
    <3>4. CASE w \in C
      <4>1. Generates(c, active)' = G \cup {i} /\ i \notin G /\ C = {w}
        BY <1>4, <2>1, <3>1, <3>2, <3>4 DEF Generates, Current
      <4>2. Cardinality(G \cup {i}) = Cardinality(G) + 1
        BY <1>5, <4>1, FS_AddElement
      <4>3. PICK k, g \in Nat : k = Cardinality(K) /\ g = Cardinality(G)
        BY <1>5
      <4>4. k <= (g + 1) + 0 + interrupted /\ (interrupted = 0 => k = (g + 1) + 0)
        BY <1>2, <1>5, <2>3, <4>1, <4>3
      <4>5. /\ IsFiniteSet(KeysOf(c)') /\ Cardinality(KeysOf(c)') = k
            /\ Cardinality(Generates(c, active)') = g + 1 /\ Cardinality(Creating(c)') = 0
        BY <1>5, <2>3, <3>3, <4>1, <4>2, <4>3
      <4> QED
        BY <3>1, <4>4, <4>5
    <3>5. CASE w \notin C
      <4>1. Generates(c, active)' = G /\ C = {}
        BY <1>4, <2>1, <3>1, <3>2, <3>5 DEF Generates, Current
      <4> QED
        BY <1>5, <2>3, <3>1, <3>3, <4>1
    <3> QED
      BY <3>4, <3>5
  <2>8. CASE Interrupt(w)
    <3>1. /\ UNCHANGED <<active, keyModel, dkgActions>> /\ interrupted' = interrupted + 1
          /\ pc'[w] # "saveAction"
      BY <1>0, <2>8 DEF Interrupt, Return, Goto, chainVars, dbVars, TypeOK
    <3>2. Creating(c)' = {} /\ KeysOf(c)' = K
      BY <1>4, <2>2, <3>1 DEF KeysOf
    <3>3. Cardinality(C) = 0 \/ Cardinality(C) = 1
      <4>1. C = {} \/ C = {w}
        BY <2>1
      <4> QED
        BY <2>3, <4>1
    <3>4. Generates(c, active)' = G
      BY <1>6, <3>1
    <3>5. PICK k, g \in Nat : k = Cardinality(K) /\ g = Cardinality(G)
      BY <1>5
    <3>6. k <= g + 0 + (interrupted + 1) /\ interrupted + 1 # 0
      BY <1>2, <1>5, <3>3, <3>5
    <3>7. /\ IsFiniteSet(KeysOf(c)') /\ Cardinality(KeysOf(c)') = k
          /\ Cardinality(Generates(c, active)') = g /\ Cardinality(Creating(c)') = 0
      BY <1>5, <2>3, <3>2, <3>4, <3>5
    <3>8. interrupted' = interrupted + 1
      BY <3>1
    <3> QED
      BY <3>6, <3>7, <3>8
  <2> QED
    BY <1>8, <2>4, <2>5, <2>6, <2>7, <2>8 DEF Proceed
<1>9. CASE ChainStep \/ UNCHANGED vars
  <2>1. UNCHANGED <<active, keyModel, interrupted, pc, notActiveAction>>
    BY <1>9 DEF ChainStep, Dispatch, Reduce, vars, dbVars, locals
  <2>2. \A w \in Worker : pc[w] = "saveAction" => notActiveAction[w] \in DOMAIN dkgActions
    BY DEF IInv, WorkerInv, CurrentIsRight, Handling
  <2>3. Creating(c)' = C
    BY <1>0, <1>4, <2>1, <2>2 DEF Creating, Generates, Grows
  <2>4. KeysOf(c)' = K
    BY <1>4, <2>1 DEF KeysOf
  <2> QED
    BY <1>7, <2>1, <2>3, <2>4
<1> QED
  BY <1>8, <1>9 DEF Next

\* Ids in the order of the actions, the last of which is in hand at most.
KeysOrdered == KeysInChainOrder /\ \A key \in DOMAIN keyModel : createdFor[key] <= Front

LEMMA OrderStep ==
  ASSUME IInv, OneWorker, \A w \in Worker : Turn(w), KeysOrdered, [Next]_vars
  PROVE  KeysOrdered'
<1>0. TypeOK /\ ActiveInOrder /\ IInv' /\ TypeOK' /\ ActiveInOrder' /\ Grows
  BY StepInv, GrowStep DEF IInv, SharedInv
<1>1. PICK n \in Nat : active = 1 .. n /\ Cardinality(active) = n /\ Front = n + 1
  BY <1>0, ActiveIs DEF Front
<1>2. \A key \in DOMAIN keyModel : createdFor[key] \in Nat /\ key[2] \in Nat
  BY <1>0, Ids DEF TypeOK, KeyIndex
<1>3. ASSUME NEW w \in Worker, Create(w) PROVE KeysOrdered'
  <2>1. PICK new, i, c, k : /\ new = NewKey(w) /\ i = notActiveAction[w]
                            /\ c = Current(w).committeeId /\ k = nextKeyIdMapping[w][c]
    OBVIOUS
  <2>2. i = n + 1
    BY <1>1, <1>3, <2>1 DEF Create, Turn, Handling
  <2>3. new = <<c, k>> /\ new \notin DOMAIN keyModel /\ new[1] = c /\ new[2] = k
    BY <1>3, <2>1 DEF Create, NewKey
  <2>4. k \in Nat
    <3>1. new \in DOMAIN keyModel'
      BY <1>3, <2>1 DEF Create
    <3> QED
      BY <1>0, <2>3, <3>1 DEF TypeOK, KeyIndex
  <2>5. /\ UNCHANGED active
        /\ DOMAIN keyModel' = DOMAIN keyModel \cup {new}
        /\ createdFor'[new] = i
        /\ \A key \in DOMAIN keyModel : createdFor'[key] = createdFor[key]
    <3>1. DOMAIN keyModel' = DOMAIN keyModel \cup {new} /\ UNCHANGED active
      BY <1>3, <2>1 DEF Create
    <3>2. createdFor' = [key \in DOMAIN keyModel' |-> IF key = new THEN i ELSE createdFor[key]]
      BY <1>3, <2>1 DEF Create
    <3> QED
      BY <2>3, <3>1, <3>2
  <2>6. ASSUME NEW key \in DOMAIN keyModel, key[1] = c PROVE key[2] < k
    <3>1. \A h \in 0 .. key[2] : <<c, h>> \in DOMAIN keyModel
      BY <2>6 DEF IInv, SharedInv, DownClosed
    <3> QED
      BY <1>2, <2>3, <2>4, <3>1
  <2>7. \A key \in DOMAIN keyModel : createdFor[key] <= n + 1
    BY <1>1 DEF KeysOrdered
  <2>8. KeysInChainOrder'
    <3> SUFFICES ASSUME NEW key \in DOMAIN keyModel', NEW later \in DOMAIN keyModel',
                        key[1] = later[1], key[2] < later[2]
                 PROVE  createdFor'[key] <= createdFor'[later]
      BY DEF KeysInChainOrder
    <3>1. CASE key \in DOMAIN keyModel /\ later \in DOMAIN keyModel
      BY <2>5, <3>1 DEF KeysOrdered, KeysInChainOrder
    <3>2. CASE key \in DOMAIN keyModel /\ later = new
      BY <2>2, <2>5, <2>7, <3>2
    <3>3. CASE key = new
      <4>1. later \notin DOMAIN keyModel
        BY <1>2, <2>3, <2>4, <2>6, <3>3
      <4>2. later = new
        BY <2>5, <4>1
      <4> QED
        BY <2>3, <2>4, <3>3, <4>2
    <3> QED
      BY <2>5, <3>1, <3>2, <3>3
  <2> QED
    BY <1>1, <2>2, <2>5, <2>7, <2>8 DEF KeysOrdered, Front
<1>4. ASSUME UNCHANGED keyModel \/ DOMAIN keyModel' = DOMAIN keyModel, UNCHANGED createdFor,
             active' = active \/ active' = active \cup {n + 1}
      PROVE  KeysOrdered'
  <2>1. Front' \in {n + 1, n + 2}
    <3>1. CASE active' = active
      BY <1>1, <3>1 DEF Front
    <3>2. CASE active' = active \cup {n + 1}
      <4>1. active' = 1 .. n + 1
        BY <1>1, <3>2
      <4> QED
        BY <4>1, IntervalCard DEF Front
    <3> QED
      BY <1>4, <3>1, <3>2
  <2>2. \A key \in DOMAIN keyModel : createdFor[key] <= n + 1
    BY <1>1 DEF KeysOrdered
  <2>3. KeysInChainOrder'
    BY <1>4 DEF KeysOrdered, KeysInChainOrder
  <2> QED
    BY <1>2, <1>4, <2>1, <2>2, <2>3 DEF KeysOrdered
<1>5. ASSUME NEW w \in Worker, Proceed(w) \/ Interrupt(w), ~ Create(w) PROVE KeysOrdered'
  <2>1. CASE SaveAction(w)
    <3>1. notActiveAction[w] = n + 1
      BY <1>1, <2>1 DEF SaveAction, Turn, Handling
    <3> QED
      BY <1>4, <2>1, <3>1 DEF SaveAction
  <2>2. CASE SaveKey(w)
    BY <1>0, <1>4, <2>2 DEF SaveKey, TypeOK
  <2>3. CASE ~ SaveAction(w) /\ ~ SaveKey(w)
    BY <1>4, <1>5, <2>3
    DEF Proceed, Start, FetchEvents, Find, Exists, Done, LastKey, DuplicateKey, FindKey, Interrupt,
        dbVars
  <2> QED
    BY <2>1, <2>2, <2>3
<1>6. CASE ChainStep \/ UNCHANGED vars
  BY <1>4, <1>6 DEF ChainStep, Dispatch, Reduce, vars, dbVars
<1> QED
  BY <1>3, <1>5, <1>6 DEF Next


\* w has saved a key's status, and is about to save the action that gave it.
Written(w, key) ==
  pc[w] = "saveAction" /\ Current(w).actionEnum # "GENERATE_KEY" /\ key = CurrentKey(w)

\* A status is that of the active actions, or has the next one in it too: it has
\* when that one is about to be saved, and else only after an interruption.
KeyRight(key) ==
  /\ keyModel[key] \in {StatusIn(active, key), StatusIn(active \cup {Front}, key)}
  /\ (\E w \in Worker : Written(w, key)) => keyModel[key] = StatusIn(active \cup {Front}, key)
  /\ interrupted = 0 /\ (\A w \in Worker : ~ Written(w, key)) =>
       keyModel[key] = StatusIn(active, key)

StatusesRight ==
  /\ \A key \in DOMAIN keyModel : KeyRight(key)
  /\ \A w \in Worker : pc[w] = "saveKey" => keyStatus[w] = keyModel[CurrentKey(w)]

(* Later actions do not change what earlier ones made of a key.            *)
LEMMA StatusStable ==
  ASSUME TypeOK, Grows, NEW ids, ids \subseteq DOMAIN dkgActions, NEW key
  PROVE  StatusIn(ids, key)' = StatusIn(ids, key)
<1>1. ids \cap DOMAIN dkgActions' = ids /\ ids \cap DOMAIN dkgActions = ids
  BY DEF Grows
<1>2. \A i \in ids : dkgActions'[i] = dkgActions[i]
  BY DEF Grows
<1>3. \A enum : (Among(ids, enum, key))' <=> Among(ids, enum, key)
  BY <1>1, <1>2 DEF Among
<1> QED
  BY <1>3 DEF StatusIn

LEMMA StatusNext ==
  ASSUME TypeOK, Grows, NEW n \in Nat, 1 .. n \subseteq DOMAIN dkgActions, active' = 1 .. n, NEW key
  PROVE  /\ StatusIn(active, key)' = StatusIn(1 .. n, key)
         /\ n + 1 \in DOMAIN dkgActions =>
              StatusIn(active \cup {Front}, key)' = StatusIn(1 .. n + 1, key)
<1>1. Front' = n + 1 /\ active' \cup {Front'} = 1 .. n + 1
  BY IntervalCard DEF Front
<1>2. StatusIn(active, key)' = StatusIn(1 .. n, key)'
  BY DEF StatusIn, Among
<1>3. StatusIn(active \cup {Front}, key)' = StatusIn(1 .. n + 1, key)'
  BY <1>1 DEF StatusIn, Among
<1>4. StatusIn(1 .. n, key)' = StatusIn(1 .. n, key)
  BY StatusStable
<1>5. ASSUME n + 1 \in DOMAIN dkgActions
      PROVE  StatusIn(1 .. n + 1, key)' = StatusIn(1 .. n + 1, key)
  <2>1. 1 .. n + 1 \subseteq DOMAIN dkgActions
    BY <1>5
  <2> QED
    BY <2>1, StatusStable
<1> QED
  BY <1>2, <1>3, <1>4, <1>5

(* With the next action a status is what it is without, unless the action  *)
(* is a step in the life of the key.                                       *)
LEMMA StatusNotIts ==
  ASSUME TypeOK, NEW n \in Nat, NEW c, NEW k,
         n + 1 \in DOMAIN dkgActions =>
           \/ dkgActions[n + 1].actionEnum = "GENERATE_KEY"
           \/ dkgActions[n + 1].committeeId # c \/ dkgActions[n + 1].keyId # k
  PROVE  StatusIn(1 .. n + 1, <<c, k>>) = StatusIn(1 .. n, <<c, k>>)
<1>1. 1 .. n \subseteq 1 .. n + 1 /\ (1 .. n + 1) \ 1 .. n = {n + 1}
  OBVIOUS
<1> QED
  BY <1>1, StatusOther

\* What a step needs in terms of the actions before and after.
LEMMA KeyRightNext ==
  ASSUME TypeOK, Grows, NEW n \in Nat, 1 .. n \subseteq DOMAIN dkgActions, active' = 1 .. n, NEW key,
         \/ keyModel'[key] = StatusIn(1 .. n, key) /\ \A w \in Worker : ~ Written(w, key)'
         \/ /\ n + 1 \in DOMAIN dkgActions
            /\ keyModel'[key] \in {StatusIn(1 .. n, key), StatusIn(1 .. n + 1, key)}
            /\ (\E w \in Worker : Written(w, key)') => keyModel'[key] = StatusIn(1 .. n + 1, key)
            /\ interrupted' = 0 /\ (\A w \in Worker : ~ Written(w, key)') =>
                 keyModel'[key] = StatusIn(1 .. n, key)
  PROVE  KeyRight(key)'
<1>1. /\ StatusIn(active, key)' = StatusIn(1 .. n, key)
      /\ n + 1 \in DOMAIN dkgActions =>
           StatusIn(active \cup {Front}, key)' = StatusIn(1 .. n + 1, key)
  BY StatusNext
<1> QED
  BY <1>1 DEF KeyRight


(* Saving a status gives a key what the next action makes of it; saving    *)
(* the action makes that the status of the active ones.                    *)
LEMMA StatusesStep ==
  ASSUME IInv, Legal(dkgActions), OneWorker, \A w \in Worker : Turn(w), StatusesRight, [Next]_vars
  PROVE  StatusesRight'
<1>0. TypeOK /\ ActiveInOrder /\ IInv' /\ TypeOK' /\ Grows
  BY StepInv, GrowStep DEF IInv, SharedInv
<1>1. PICK n \in Nat : /\ active = 1 .. n /\ Cardinality(active) = n /\ Front = n + 1
                       /\ active \cup {Front} = 1 .. n + 1
  BY <1>0, ActiveIs DEF Front
<1>2. 1 .. n \subseteq DOMAIN dkgActions
  BY <1>0, <1>1 DEF TypeOK
<1>3. ASSUME NEW key \in DOMAIN keyModel
      PROVE  /\ keyModel[key] \in {StatusIn(1 .. n, key), StatusIn(1 .. n + 1, key)}
             /\ (\E w \in Worker : Written(w, key)) => keyModel[key] = StatusIn(1 .. n + 1, key)
             /\ interrupted = 0 /\ (\A w \in Worker : ~ Written(w, key)) =>
                  keyModel[key] = StatusIn(1 .. n, key)
  BY <1>1 DEF StatusesRight, KeyRight
<1>4. \A key \in DOMAIN keyModel : key = <<key[1], key[2]>> /\ key[2] \in Nat
  BY <1>0 DEF TypeOK, KeyIndex
<1>5. ASSUME NEW w \in Worker, pc[w] \in Handling
      PROVE  notActiveAction[w] = n + 1 /\ n + 1 \in DOMAIN dkgActions
  BY <1>1, <1>5 DEF Turn, IInv, WorkerInv, CurrentIsRight
<1>6. ASSUME NEW key \in DOMAIN keyModel, UNCHANGED <<active, keyModel>>,
             interrupted' = 0 => interrupted = 0,
             \A w \in Worker : Written(w, key)' <=> Written(w, key)
      PROVE  KeyRight(key)'
  <2>1. CASE n + 1 \in DOMAIN dkgActions
    BY <1>0, <1>1, <1>2, <1>3, <1>6, <2>1, KeyRightNext
  <2>2. CASE n + 1 \notin DOMAIN dkgActions
    <3>1. \A w \in Worker : ~ Written(w, key)
      BY <1>5, <2>2 DEF Written, Handling
    <3>2. PICK c, k : key = <<c, k>>
      BY <1>4
    <3>3. StatusIn(1 .. n + 1, key) = StatusIn(1 .. n, key)
      BY <1>0, <2>2, <3>2, StatusNotIts
    <3> QED
      BY <1>0, <1>1, <1>2, <1>3, <1>6, <3>1, <3>3, KeyRightNext
  <2> QED
    BY <2>1, <2>2
<1>7. ASSUME NEW w \in Worker, Proceed(w) \/ Interrupt(w) PROVE StatusesRight'
  <2>0. \A v \in Worker : v = w
    BY DEF OneWorker
  <2>1. CASE \/ Start(w) \/ Find(w) \/ Exists(w) \/ LastKey(w) \/ Done(w) \/ DuplicateKey(w)
             \/ FindKey(w) \/ \E m \in 0 .. events : FetchEvents(w, m)
    <3>1. /\ UNCHANGED <<active, keyModel, interrupted>>
          /\ pc[w] # "saveAction" /\ pc'[w] # "saveAction"
      BY <1>0, <2>1
      DEF Start, Find, Exists, LastKey, Done, DuplicateKey, FindKey, FetchEvents, Goto, Return,
          dbVars, TypeOK
    <3>2. \A key \in DOMAIN keyModel' : KeyRight(key)'
      BY <1>6, <2>0, <3>1 DEF Written
    <3>3. pc'[w] = "saveKey" => keyStatus'[w] = keyModel'[CurrentKey(w)']
      <4>1. CASE FindKey(w)
        <5>1. keyStatus'[w] = keyModel[CurrentKey(w)]
          BY <1>0, <4>1 DEF FindKey, TypeOK
        <5>2. CurrentKey(w)' = CurrentKey(w)
          BY <4>1 DEF FindKey, chainVars, CurrentKey, Current
        <5> QED
          BY <3>1, <5>1, <5>2
      <4>2. CASE ~ FindKey(w)
        BY <1>0, <2>1, <4>2
        DEF Start, Find, Exists, LastKey, Done, DuplicateKey, FetchEvents, Goto, Return, TypeOK
      <4> QED
        BY <4>1, <4>2
    <3> QED
      BY <2>0, <3>2, <3>3 DEF StatusesRight
  <2>2. CASE SaveKey(w)
    <3>1. PICK i, c, k, e : /\ i = n + 1 /\ i = notActiveAction[w] /\ i \in DOMAIN dkgActions
                            /\ e = dkgActions[i].actionEnum
                            /\ c = dkgActions[i].committeeId /\ k = dkgActions[i].keyId
      BY <1>5, <2>2 DEF SaveKey, Handling
    <3>2. /\ CurrentKey(w) = <<c, k>> /\ Current(w).actionEnum = e /\ e # "GENERATE_KEY"
          /\ <<c, k>> \in DOMAIN keyModel
      <4>1. CurrentKey(w) = <<c, k>> /\ Current(w).actionEnum = e
        BY <3>1 DEF CurrentKey, Current
      <4>2. Current(w).actionEnum # "GENERATE_KEY"
        BY <2>2 DEF SaveKey, IInv, WorkerInv, CurrentIsRight
      <4>3. CurrentKey(w) \in DOMAIN keyModel
        <5>1. i \in Nat \ {0} /\ i - 1 = n
          BY <1>0, <3>1, Ids
        <5>2. k < Cardinality(Generates(c, 1 .. n))
          BY <1>0, <3>1, <4>1, <4>2, <5>1, LegalIs
        <5>3. c \in Committee /\ k \in Nat
          BY <1>0, <3>1, ActionIs DEF DkgAction
        <5> QED
          BY <1>1, <4>1, <5>2, <5>3, KeysForGenerates
      <4> QED
        BY <4>1, <4>2, <4>3
    <3>3. /\ UNCHANGED <<active, dkgActions, notActiveAction, interrupted>>
          /\ pc[w] = "saveKey" /\ pc'[w] = "saveAction"
          /\ keyModel' = IF StatusAfter(e) = keyStatus[w] THEN keyModel
                         ELSE [keyModel EXCEPT ![<<c, k>>] = StatusAfter(e)]
      BY <1>0, <2>2, <3>2 DEF SaveKey, chainVars, Goto, TypeOK
    <3>4. keyStatus[w] = keyModel[<<c, k>>]
      BY <3>2, <3>3 DEF StatusesRight
    <3>5. /\ DOMAIN keyModel' = DOMAIN keyModel /\ keyModel'[<<c, k>>] = StatusAfter(e)
          /\ \A key \in DOMAIN keyModel : key # <<c, k>> => keyModel'[key] = keyModel[key]
      BY <3>2, <3>3, <3>4
    <3>6. \A key : Written(w, key)' <=> key = <<c, k>>
      <4>1. CurrentKey(w)' = <<c, k>> /\ Current(w)' = Current(w)
        BY <3>2, <3>3 DEF CurrentKey, Current
      <4> QED
        BY <3>2, <3>3, <4>1 DEF Written
    <3>7. StatusIn(1 .. n + 1, <<c, k>>) = StatusAfter(e)
      BY <1>0, <3>1, <3>2, StatusStep
    <3>8. KeyRight(<<c, k>>)'
      BY <1>0, <1>1, <1>2, <2>0, <3>1, <3>3, <3>5, <3>6, <3>7, KeyRightNext
    <3>9. ASSUME NEW key \in DOMAIN keyModel, key # <<c, k>> PROVE KeyRight(key)'
      <4>1. ~ Written(w, key)
        BY <3>3 DEF Written
      <4> QED
        BY <1>0, <1>1, <1>2, <1>3, <2>0, <3>1, <3>3, <3>5, <3>6, <3>9, <4>1, KeyRightNext
    <3>10. pc'[w] # "saveKey"
      BY <3>3
    <3> QED
      BY <2>0, <3>5, <3>8, <3>9, <3>10 DEF StatusesRight
  <2>3. CASE Create(w)
    <3>1. PICK c, k, new : /\ c = Current(w).committeeId /\ k = nextKeyIdMapping[w][c]
                           /\ new = <<c, k>>
      OBVIOUS
    <3>2. /\ UNCHANGED <<active, dkgActions, notActiveAction, interrupted>>
          /\ pc[w] = "create" /\ pc'[w] = "saveAction"
          /\ new \notin DOMAIN keyModel
          /\ DOMAIN keyModel' = DOMAIN keyModel \cup {new}
          /\ keyModel'[new] = "ROUND_1_CONTRIBUTION"
          /\ \A key \in DOMAIN keyModel : keyModel'[key] = keyModel[key]
      <4>1. NewKey(w) = new
        BY <3>1 DEF NewKey
      <4>2. keyModel' = [key \in DOMAIN keyModel \cup {new} |->
                           IF key = new THEN "ROUND_1_CONTRIBUTION" ELSE keyModel[key]]
        BY <2>3, <4>1 DEF Create
      <4>3. new \notin DOMAIN keyModel
        BY <2>3, <4>1 DEF Create
      <4>4. /\ UNCHANGED <<active, dkgActions, notActiveAction, interrupted>>
            /\ pc[w] = "create" /\ pc'[w] = "saveAction"
        BY <1>0, <2>3 DEF Create, chainVars, Goto, TypeOK
      <4> QED
        BY <4>2, <4>3, <4>4
    <3>3. Current(w).actionEnum = "GENERATE_KEY" /\ notActiveAction[w] = n + 1
          /\ n + 1 \in DOMAIN dkgActions
      BY <1>5, <3>2 DEF Turn, Handling
    <3>4. \A key : ~ Written(w, key)' /\ ~ Written(w, key)
      BY <3>2, <3>3 DEF Written, Current
    <3>5. new \in KeyIndex
      BY <1>0, <3>2 DEF TypeOK
    <3>6. c \in Committee /\ k \in Nat
      BY <3>1, <3>5 DEF KeyIndex
    <3>7. StatusIn(1 .. n, new) = "ROUND_1_CONTRIBUTION"
      <4>1. ~ (k < Cardinality(Generates(c, 1 .. n)))
        BY <1>1, <3>1, <3>2, <3>6, KeysForGenerates
      <4>2. Cardinality(Generates(c, 1 .. n)) \in Nat
        BY BoundedIs DEF Generates
      <4> QED
        BY <1>0, <1>2, <3>1, <3>6, <4>1, <4>2, StatusOfNew
    <3>8. KeyRight(new)'
      BY <1>0, <1>1, <1>2, <2>0, <3>2, <3>4, <3>7, KeyRightNext
    <3>9. ASSUME NEW key \in DOMAIN keyModel PROVE KeyRight(key)'
      BY <1>0, <1>1, <1>2, <1>3, <2>0, <3>2, <3>3, <3>4, <3>9, KeyRightNext
    <3> QED
      BY <2>0, <3>2, <3>8, <3>9 DEF StatusesRight
  <2>4. CASE SaveAction(w)
    <3>1. /\ UNCHANGED <<keyModel, dkgActions, interrupted>>
          /\ pc[w] = "saveAction" /\ pc'[w] = "exists"
          /\ active' = active \cup {notActiveAction[w]}
      BY <1>0, <2>4 DEF SaveAction, chainVars, Goto, TypeOK
    <3>2. notActiveAction[w] = n + 1 /\ n + 1 \in DOMAIN dkgActions /\ active' = 1 .. n + 1
      BY <1>1, <1>5, <3>1 DEF Handling
    <3>3. ASSUME NEW key \in DOMAIN keyModel PROVE KeyRight(key)'
      <4>1. keyModel[key] = StatusIn(1 .. n + 1, key)
        <5>1. CASE Written(w, key)
          BY <1>3, <5>1
        <5>2. CASE ~ Written(w, key)
          <6>1. PICK c, k : key = <<c, k>>
            BY <1>4
          <6>2. \/ dkgActions[n + 1].actionEnum = "GENERATE_KEY"
                \/ dkgActions[n + 1].committeeId # c \/ dkgActions[n + 1].keyId # k
            BY <3>1, <3>2, <5>2, <6>1 DEF Written, Current, CurrentKey
          <6>3. StatusIn(1 .. n + 1, key) = StatusIn(1 .. n, key)
            BY <1>0, <6>1, <6>2, StatusNotIts
          <6> QED
            BY <1>3, <6>3
        <5> QED
          BY <5>1, <5>2
      <4>2. \A v \in Worker : ~ Written(v, key)'
        BY <2>0, <3>1 DEF Written
      <4>3. n + 1 \in Nat /\ 1 .. n + 1 \subseteq DOMAIN dkgActions
        BY <1>2, <3>2
      <4> QED
        BY <1>0, <3>1, <3>2, <4>1, <4>2, <4>3, KeyRightNext
    <3> QED
      BY <2>0, <3>1, <3>3 DEF StatusesRight
  <2>5. CASE Interrupt(w)
    <3>1. /\ UNCHANGED <<active, keyModel>> /\ interrupted' # 0
          /\ pc'[w] = "idle"
      <4>1. interrupted \in Nat
        BY <1>0, KeysAssumption DEF TypeOK
      <4> QED
        BY <1>0, <2>5, <4>1 DEF Interrupt, Return, Goto, dbVars, TypeOK
    <3>2. ASSUME NEW key \in DOMAIN keyModel PROVE KeyRight(key)'
      <4>1. \A v \in Worker : ~ Written(v, key)'
        BY <2>0, <3>1 DEF Written
      <4>2. CASE n + 1 \in DOMAIN dkgActions
        BY <1>0, <1>1, <1>2, <1>3, <3>1, <4>1, <4>2, KeyRightNext
      <4>3. CASE n + 1 \notin DOMAIN dkgActions
        <5>1. PICK c, k : key = <<c, k>>
          BY <1>4
        <5>2. StatusIn(1 .. n + 1, key) = StatusIn(1 .. n, key)
          BY <1>0, <4>3, <5>1, StatusNotIts
        <5> QED
          BY <1>0, <1>1, <1>2, <1>3, <3>1, <4>1, <5>2, KeyRightNext
      <4> QED
        BY <4>2, <4>3
    <3> QED
      BY <2>0, <3>1, <3>2 DEF StatusesRight
  <2> QED
    BY <1>7, <2>1, <2>2, <2>3, <2>4, <2>5 DEF Proceed
<1>8. CASE ChainStep \/ UNCHANGED vars
  <2>1. UNCHANGED <<active, keyModel, interrupted, pc, notActiveAction, keyStatus>>
    BY <1>8 DEF ChainStep, Dispatch, Reduce, vars, dbVars, locals
  <2>2. ASSUME NEW w \in Worker, pc[w] \in Handling
        PROVE  Current(w)' = Current(w) /\ CurrentKey(w)' = CurrentKey(w)
    BY <1>0, <1>5, <2>1, <2>2 DEF Grows, Current, CurrentKey
  <2>3. \A w \in Worker : \A key \in DOMAIN keyModel : Written(w, key)' <=> Written(w, key)
    BY <2>1, <2>2 DEF Written, Handling
  <2>4. \A key \in DOMAIN keyModel' : KeyRight(key)'
    BY <1>6, <2>1, <2>3
  <2>5. \A w \in Worker : pc'[w] = "saveKey" => keyStatus'[w] = keyModel'[CurrentKey(w)']
    BY <2>1, <2>2 DEF StatusesRight, Handling
  <2> QED
    BY <2>4, <2>5 DEF StatusesRight
<1> QED
  BY <1>7, <1>8 DEF Next

-----------------------------------------------------------------------------
(***************************************************************************)
(* The keys of a committee are counted by the actions that generate them.  *)
(***************************************************************************)
Counted(c, n) == Cardinality(Generates(c, 1 .. n))

LEMMA CountedIs ==
  ASSUME NEW c, NEW n \in Nat
  PROVE  /\ IsFiniteSet(Generates(c, 1 .. n)) /\ Counted(c, n) \in Nat
         /\ Counted(c, n) <= n
         /\ Counted(c, 0) = 0
<1>1. Generates(c, 1 .. n) \subseteq 1 .. n /\ Generates(c, 1 .. 0) = {}
  BY DEF Generates
<1>2. IsFiniteSet(1 .. n) /\ Cardinality(1 .. n) = n
  BY FS_Interval, IntervalCard
<1>3. IsFiniteSet(Generates(c, 1 .. n)) /\ Cardinality(Generates(c, 1 .. n)) <= n
  BY <1>1, <1>2, FS_Subset
<1>4. Cardinality({}) = 0 /\ Cardinality(Generates(c, 1 .. n)) \in Nat
  BY <1>1, BoundedIs, FS_EmptySet
<1> QED
  BY <1>1, <1>3, <1>4 DEF Counted

\* Action i generates a key of c.
IsGenerate(c, i) == dkgActions[i].actionEnum = "GENERATE_KEY" /\ dkgActions[i].committeeId = c

LEMMA CountedNext ==
  ASSUME NEW c, NEW n \in Nat
  PROVE  Counted(c, n + 1) = IF IsGenerate(c, n + 1) THEN Counted(c, n) + 1 ELSE Counted(c, n)
<1>1. IsFiniteSet(Generates(c, 1 .. n)) /\ n + 1 \notin Generates(c, 1 .. n)
  <2>1. n + 1 \notin Generates(c, 1 .. n)
    BY DEF Generates
  <2> QED
    BY <2>1, CountedIs
<1>2. 1 .. n + 1 = (1 .. n) \cup {n + 1}
  OBVIOUS
<1>3. Generates(c, 1 .. n + 1) = IF IsGenerate(c, n + 1) THEN Generates(c, 1 .. n) \cup {n + 1}
                                 ELSE Generates(c, 1 .. n)
  BY <1>2 DEF Generates, IsGenerate
<1>4. Cardinality(Generates(c, 1 .. n) \cup {n + 1}) = Cardinality(Generates(c, 1 .. n)) + 1
  BY <1>1, FS_AddElement
<1> QED
  BY <1>3, <1>4 DEF Counted

(* Of two actions that generate keys of a committee the later one has more *)
(* of them before it.                                                      *)
LEMMA CountedLess ==
  ASSUME NEW c, NEW i \in Nat \ {0}, NEW m \in Nat, i <= m, IsGenerate(c, i)
  PROVE  Counted(c, i - 1) < Counted(c, m)
<1>1. PICK h \in Nat : h = i - 1 /\ i = h + 1
  OBVIOUS
<1>2. Counted(c, i) = Counted(c, h) + 1
  BY <1>1, CountedNext
<1>3. Counted(c, i) <= Counted(c, m)
  BY GeneratesGrow DEF Counted
<1>4. Counted(c, h) \in Nat /\ Counted(c, m) \in Nat
  BY CountedIs
<1> QED
  BY <1>1, <1>2, <1>3, <1>4

(* Each id below the count has the action that generates its key.          *)
LEMMA NthGenerate ==
  ASSUME NEW c, NEW n \in Nat, NEW k \in Nat, k < Counted(c, n)
  PROVE  \E i \in Generates(c, 1 .. n) : Counted(c, i - 1) = k
<1> DEFINE S == {m \in Nat : k < Counted(c, m)}
<1>1. PICK m \in S : \A h \in S : m <= h
  BY Smallest
<1>2. m \in Nat /\ k < Counted(c, m) /\ m <= n /\ m # 0
  BY <1>1, CountedIs
<1>3. PICK h \in Nat : h = m - 1 /\ m = h + 1
  BY <1>2
<1>4. Counted(c, h) \in Nat /\ ~ (k < Counted(c, h))
  BY <1>1, <1>3, CountedIs
<1>5. Counted(c, m) = IF IsGenerate(c, m) THEN Counted(c, h) + 1 ELSE Counted(c, h)
  BY <1>3, CountedNext
<1>6. IsGenerate(c, m) /\ Counted(c, h) = k
  BY <1>2, <1>4, <1>5
<1> QED
  BY <1>2, <1>3, <1>6 DEF Generates, IsGenerate

\* The first g ids of a committee.
IdsOf(c, g) == {<<c, k>> : k \in 0 .. g - 1}

LEMMA IdsCount ==
  ASSUME NEW c, NEW g \in Nat
  PROVE  IsFiniteSet(IdsOf(c, g)) /\ Cardinality(IdsOf(c, g)) = g
<1> DEFINE S == 0 .. g - 1
           T == IdsOf(c, g)
           f == [k \in S |-> <<c, k>>]
<1>1. IsFiniteSet(S) /\ Cardinality(S) = g
  <2>1. 0 \in Int /\ g - 1 \in Int
    OBVIOUS
  <2>2. IsFiniteSet(0 .. g - 1) /\ Cardinality(0 .. g - 1) = IF 0 > g - 1 THEN 0 ELSE g - 1 - 0 + 1
    BY <2>1, FS_Interval
  <2> QED
    BY <2>2
<1>2. f \in [S -> T]
  BY DEF IdsOf
<1>3. \A h, k \in S : f[h] = f[k] => h = k
  OBVIOUS
<1>4. \A t \in T : \E k \in S : f[k] = t
  BY DEF IdsOf
<1>5. ExistsBijection(S, T)
  <2> HIDE DEF S, T, f
  <2>1. f \in Bijection(S, T)
    BY <1>2, <1>3, <1>4 DEF Bijection, Injection, Surjection, IsInjective
  <2> QED
    BY <2>1 DEF ExistsBijection
<1> QED
  <2> HIDE DEF S, f
  <2> QED
    BY <1>1, <1>5, FS_Bijection

(* The ids of a committee's keys are those up to their number.             *)
LEMMA KeysOfIs ==
  ASSUME IInv, NEW c \in Committee, IsFiniteSet(KeysOf(c))
  PROVE  /\ Cardinality(KeysOf(c)) \in Nat
         /\ KeysOf(c) = IdsOf(c, Cardinality(KeysOf(c)))
         /\ NextKeyIds(c) = {Cardinality(KeysOf(c))}
<1>0. \A key \in KeysOf(c) : key \in DOMAIN keyModel /\ key[1] = c /\ key[2] \in Nat /\ key = <<c, key[2]>>
  BY DEF KeysOf, IInv, TypeOK, KeyIndex
<1>1. PICK g \in Nat : g = Cardinality(KeysOf(c))
  BY FS_CardinalityType
<1> DEFINE S == {k \in Nat : <<c, k>> \notin DOMAIN keyModel}
<1>2. S # {}
  <2> SUFFICES ASSUME \A k \in Nat : <<c, k>> \in DOMAIN keyModel PROVE FALSE
    OBVIOUS
  <2>1. IdsOf(c, g + 1) \subseteq KeysOf(c)
    BY DEF IdsOf, KeysOf
  <2>2. Cardinality(IdsOf(c, g + 1)) = g + 1
    BY IdsCount
  <2> QED
    BY <1>1, <2>1, <2>2, FS_Subset
<1>3. PICK m \in S : \A h \in S : m <= h
  BY <1>2, Smallest
<1>4. KeysOf(c) = IdsOf(c, m)
  <2>1. ASSUME NEW k \in 0 .. m - 1 PROVE <<c, k>> \in KeysOf(c)
    BY <1>3, <2>1 DEF KeysOf
  <2>2. ASSUME NEW key \in KeysOf(c) PROVE key \in IdsOf(c, m)
    <3>1. ~ (m <= key[2])
      BY <1>0, <1>3 DEF IInv, SharedInv, DownClosed
    <3> QED
      BY <1>0, <1>3, <3>1 DEF IdsOf
  <2> QED
    BY <2>1, <2>2 DEF IdsOf
<1>5. g = m
  BY <1>1, <1>3, <1>4, IdsCount
<1>6. NextKeyIds(c) = {g}
  <2>1. CASE g = 0
    <3>1. KeysOf(c) = {}
      BY <1>4, <1>5, <2>1 DEF IdsOf
    <3> QED
      BY <2>1, <3>1 DEF NextKeyIds
  <2>2. CASE g > 0
    <3> DEFINE last == <<c, g - 1>>
    <3>1. last \in KeysOf(c) /\ last[2] = g - 1 /\ \A other \in KeysOf(c) : other[2] <= g - 1
      BY <1>4, <1>5, <2>2 DEF IdsOf
    <3>2. {key \in KeysOf(c) : \A other \in KeysOf(c) : other[2] <= key[2]} = {last}
      <4>1. ASSUME NEW key \in KeysOf(c), \A other \in KeysOf(c) : other[2] <= key[2]
            PROVE  key = last
        <5>1. last[2] <= key[2] /\ key[2] <= g - 1
          BY <3>1, <4>1
        <5>2. key[2] = g - 1
          BY <1>0, <3>1, <5>1
        <5> QED
          BY <1>0, <5>2
      <4> QED
        BY <3>1, <4>1
    <3>3. KeysOf(c) # {} /\ last[2] + 1 = g
      BY <3>1
    <3> HIDE DEF last
    <3> QED
      BY <3>2, <3>3 DEF NextKeyIds
  <2> QED
    BY <2>1, <2>2
<1> QED
  BY <1>1, <1>4, <1>5, <1>6

(* A status is one of those there are.                                     *)
LEMMA StatusInIs ==
  ASSUME NEW ids, NEW key
  PROVE  StatusIn(ids, key) \in KeyStatus
BY DEF StatusIn, KeyStatus

\* What holds of the pass with one worker.
OneInv == (\A w \in Worker : Turn(w)) /\ KeysCounted /\ KeysOrdered /\ StatusesRight

(* What the documents are at the start: those of the actions reduced then. *)
LEMMA StartIs ==
  ASSUME RollupInit
  PROVE  /\ dkgActions = History /\ events = Len(History) /\ dkgEvents = Len(History)
         /\ Len(History) \in Nat /\ active = 1 .. Len(History) /\ DOMAIN dkgActions = 1 .. Len(History)
         /\ dkgActions \in Seq(DkgAction) /\ Len(History) <= MaxActions /\ Legal(dkgActions)
         /\ \A key : key \in DOMAIN keyModel <=>
              /\ key \in Committee \X Nat
              /\ key[2] < Counted(key[1], Len(History))
         /\ \A key \in DOMAIN keyModel : keyModel[key] = StatusIn(active, key)
         /\ DOMAIN createdFor = DOMAIN keyModel
         /\ \A key \in DOMAIN keyModel :
              /\ createdFor[key] \in Generates(key[1], active)
              /\ Counted(key[1], createdFor[key] - 1) = key[2]
<1>1. /\ dkgActions = History /\ events = Len(History) /\ dkgEvents = Len(History)
      /\ Len(History) \in Nat /\ active = 1 .. Len(History) /\ DOMAIN dkgActions = 1 .. Len(History)
      /\ DOMAIN History = 1 .. Len(History)
      /\ dkgActions \in Seq(DkgAction) /\ Len(History) <= MaxActions /\ Legal(dkgActions)
  BY HistoryAssumption DEF RollupInit
<1>2. keyModel = Statuses(1 .. Len(History)) /\ MaxActions \in Nat
  BY <1>1, KeysAssumption DEF RollupInit
<1>3. DOMAIN keyModel = {k \in Committee \X (0 .. MaxActions) : k[2] < Counted(k[1], Len(History))}
  BY <1>2 DEF Statuses, GeneratedBy, Counted
<1>4. ASSUME NEW key
      PROVE  key \in DOMAIN keyModel <=>
               /\ key \in Committee \X Nat
               /\ key[2] < Counted(key[1], Len(History))
  <2>1. ASSUME key \in Committee \X Nat, key[2] < Counted(key[1], Len(History))
        PROVE  key[2] \in 0 .. MaxActions
    <3>1. PICK g \in Nat : g = Counted(key[1], Len(History)) /\ g <= Len(History)
      BY <1>1, CountedIs
    <3> QED
      BY <1>1, <1>2, <2>1, <3>1
  <2>2. 0 .. MaxActions \subseteq Nat
    OBVIOUS
  <2> QED
    BY <1>3, <2>1, <2>2
<1>5. \A key \in DOMAIN keyModel : keyModel[key] = StatusIn(active, key)
  BY <1>1, <1>2 DEF Statuses
<1>6. DOMAIN createdFor = DOMAIN keyModel
  BY DEF RollupInit
<1>7. ASSUME NEW key \in DOMAIN keyModel
      PROVE  /\ createdFor[key] \in Generates(key[1], active)
             /\ Counted(key[1], createdFor[key] - 1) = key[2]
  <2>1. key[2] \in Nat /\ key[2] < Counted(key[1], Len(History))
    BY <1>4
  <2>2. \E i \in Generates(key[1], 1 .. Len(History)) : Counted(key[1], i - 1) = key[2]
    BY <1>1, <2>1, NthGenerate
  <2>3. createdFor[key] = CHOOSE i \in Generates(key[1], DOMAIN History) :
                            GeneratedBy(key[1], 1 .. i - 1) = key[2]
    BY DEF RollupInit
  <2>4. createdFor[key] = CHOOSE i \in Generates(key[1], 1 .. Len(History)) :
                            Counted(key[1], i - 1) = key[2]
    BY <1>1, <2>3 DEF GeneratedBy, Counted
  <2> QED
    BY <1>1, <2>2, <2>4
<1> QED
  BY <1>1, <1>4, <1>5, <1>6, <1>7

LEMMA StartInv == RollupInit => IInv /\ OneInv
<1> SUFFICES ASSUME RollupInit PROVE IInv /\ OneInv
  OBVIOUS
<1>1. PICK n \in Nat : /\ n = Len(History) /\ active = 1 .. n /\ DOMAIN dkgActions = 1 .. n
                       /\ events = n /\ dkgEvents = n /\ Len(dkgActions) = n
                       /\ dkgActions \in Seq(DkgAction)
  BY StartIs
<1>2. \A key : key \in DOMAIN keyModel <=> /\ key \in Committee \X Nat
                                           /\ key[2] < Counted(key[1], n)
  BY <1>1, StartIs
<1>3. \A c : Counted(c, n) \in Nat
  BY CountedIs
<1>4. \A w \in Worker : /\ pc[w] = "idle" /\ notActiveActions[w] = {}
                        /\ DOMAIN nextKeyIdMapping[w] = {}
  BY NoMappingIs DEF RollupInit
<1>5. TypeOK
  <2>1. LocalTypes
    BY NoMappingIs DEF LocalTypes, MappingsOK, RollupInit, PC, KeyStatus
  <2>2. DOMAIN keyModel \subseteq KeyIndex
    BY <1>2 DEF KeyIndex
  <2>3. \A key \in DOMAIN keyModel : keyModel[key] \in KeyStatus
    BY StartIs, StatusInIs
  <2>4. \A key \in DOMAIN createdFor : createdFor[key] \in DOMAIN dkgActions
    <3>1. \A c : Generates(c, active) \subseteq DOMAIN dkgActions
      BY <1>1 DEF Generates
    <3> QED
      BY <3>1, StartIs
  <2>5. ChainTypes
    BY <1>1, KeysAssumption DEF ChainTypes, RollupInit
  <2> QED
    BY <2>1, <2>2, <2>3, <2>4, <2>5, StartIs, TypesAre DEF KeyTypes
<1>6. DownClosed
  <2> SUFFICES ASSUME NEW key \in DOMAIN keyModel, NEW k \in 0 .. key[2]
               PROVE  <<key[1], k>> \in DOMAIN keyModel
    BY DEF DownClosed
  <2>1. PICK c \in Committee, m \in Nat : key[1] = c /\ key[2] = m /\ m < Counted(c, n)
    BY <1>2
  <2>2. k \in Nat /\ k < Counted(c, n)
    BY <1>3, <2>1
  <2>3. <<c, k>> \in Committee \X Nat /\ <<c, k>>[1] = c /\ <<c, k>>[2] = k
    BY <2>2
  <2>4. <<c, k>> \in DOMAIN keyModel
    BY <1>2, <2>2, <2>3
  <2> QED
    BY <2>1, <2>4
<1>7. EveryGenerateHasItsKey
  <2> SUFFICES ASSUME NEW i \in active, dkgActions[i].actionEnum = "GENERATE_KEY"
               PROVE  \E key \in DOMAIN keyModel :
                        key[1] = dkgActions[i].committeeId /\ createdFor[key] = i
    BY DEF EveryGenerateHasItsKey
  <2>1. PICK c \in Committee : c = dkgActions[i].committeeId
    BY <1>1, <1>5, ActionIs DEF DkgAction
  <2>2. i \in Nat \ {0} /\ i <= n /\ IsGenerate(c, i)
    BY <1>1, <2>1 DEF IsGenerate
  <2>3. PICK k \in Nat : k = Counted(c, i - 1)
    BY <2>2, CountedIs
  <2>4. k < Counted(c, n)
    BY <2>2, <2>3, CountedLess
  <2>5. PICK key \in Committee \X Nat : key[1] = c /\ key[2] = k
    <3>1. <<c, k>> \in Committee \X Nat /\ <<c, k>>[1] = c /\ <<c, k>>[2] = k
      BY <2>3
    <3> QED
      BY <3>1
  <2>6. key \in DOMAIN keyModel
    BY <1>2, <2>4, <2>5
  <2>7. PICK j : j = createdFor[key] /\ j \in Generates(c, active) /\ Counted(c, j - 1) = k
    BY <2>5, <2>6, StartIs
  <2>8. j \in Nat \ {0} /\ IsGenerate(c, j)
    BY <1>1, <2>7 DEF Generates, IsGenerate
  <2>9. i = j
    <3>1. CASE i < j
      <4>1. j - 1 \in Nat /\ i <= j - 1
        BY <2>2, <2>8, <3>1
      <4>2. Counted(c, i - 1) < Counted(c, j - 1)
        BY <2>2, <4>1, CountedLess
      <4> QED
        BY <2>3, <2>7, <4>2
    <3>2. CASE j < i
      <4>1. i - 1 \in Nat /\ j <= i - 1
        BY <2>2, <2>8, <3>2
      <4>2. Counted(c, j - 1) < Counted(c, i - 1)
        BY <2>8, <4>1, CountedLess
      <4> QED
        BY <2>3, <2>7, <4>2
    <3> QED
      BY <2>2, <2>8, <3>1, <3>2
  <2> QED
    BY <2>1, <2>5, <2>6, <2>7, <2>9
<1>8. ActiveInOrder
  BY <1>1 DEF ActiveInOrder
<1>9. \A w \in Worker : WorkerInv(w)
  BY <1>4 DEF WorkerInv, MappingFollows, CurrentIsRight, ListIsClosed, Handling
<1>10. IInv
  BY <1>5, <1>6, <1>7, <1>8, <1>9 DEF IInv, SharedInv
<1>11. \A w \in Worker : Turn(w)
  BY <1>4 DEF Turn, Handling
<1>12. KeysCounted
  <2> SUFFICES ASSUME NEW c \in Committee
               PROVE  /\ IsFiniteSet(KeysOf(c))
                      /\ Cardinality(KeysOf(c)) <=
                           Cardinality(Generates(c, active)) + Cardinality(Creating(c)) + interrupted
                      /\ Cardinality(KeysOf(c)) =
                           Cardinality(Generates(c, active)) + Cardinality(Creating(c))
    BY DEF KeysCounted, SurplusKeysAreInterruptions
  <2>1. KeysOf(c) = IdsOf(c, Counted(c, n))
    <3>1. ASSUME NEW key \in KeysOf(c) PROVE key \in IdsOf(c, Counted(c, n))
      <4>1. key \in Committee \X Nat /\ key[2] < Counted(c, n) /\ key[1] = c
        BY <1>2 DEF KeysOf
      <4> QED
        BY <1>3, <4>1 DEF IdsOf
    <3>2. ASSUME NEW k \in 0 .. Counted(c, n) - 1 PROVE <<c, k>> \in KeysOf(c)
      <4>1. k \in Nat /\ k < Counted(c, n)
        BY <1>3
      <4>2. <<c, k>> \in Committee \X Nat /\ <<c, k>>[1] = c /\ <<c, k>>[2] = k
        BY <4>1
      <4> QED
        BY <1>2, <4>1, <4>2 DEF KeysOf
    <3> QED
      BY <3>1, <3>2 DEF IdsOf
  <2>2. IsFiniteSet(KeysOf(c)) /\ Cardinality(KeysOf(c)) = Counted(c, n)
    BY <1>3, <2>1, IdsCount
  <2>3. Creating(c) = {}
    BY <1>4 DEF Creating
  <2>4. Cardinality(Creating(c)) = 0
    BY <2>3, FS_EmptySet
  <2>5. Cardinality(Generates(c, active)) = Counted(c, n)
    BY <1>1 DEF Counted
  <2>6. interrupted = 0
    BY DEF RollupInit
  <2> QED
    BY <1>3, <2>2, <2>4, <2>5, <2>6
<1>13. KeysOrdered
  <2>1. Front = n + 1
    BY <1>1, IntervalCard DEF Front
  <2>2. ASSUME NEW key \in DOMAIN keyModel
        PROVE  /\ createdFor[key] \in 1 .. n /\ IsGenerate(key[1], createdFor[key])
               /\ Counted(key[1], createdFor[key] - 1) = key[2]
    BY <1>1, StartIs DEF Generates, IsGenerate
  <2>3. ASSUME NEW key \in DOMAIN keyModel, NEW later \in DOMAIN keyModel,
               key[1] = later[1], key[2] < later[2]
        PROVE  createdFor[key] <= createdFor[later]
    <3>1. PICK i, j \in 1 .. n : i = createdFor[key] /\ j = createdFor[later]
      BY <2>2
    <3>2. PICK c : c = key[1]
      OBVIOUS
    <3>3. IsGenerate(c, j) /\ Counted(c, i - 1) = key[2] /\ Counted(c, j - 1) = later[2]
      BY <2>2, <2>3, <3>1, <3>2
    <3>4. CASE j < i
      <4>1. j \in Nat \ {0} /\ i - 1 \in Nat /\ j <= i - 1
        BY <3>1, <3>4
      <4>2. Counted(c, j - 1) < Counted(c, i - 1)
        BY <3>3, <4>1, CountedLess
      <4>3. Counted(c, j - 1) \in Nat /\ Counted(c, i - 1) \in Nat
        BY <3>1, CountedIs
      <4> QED
        BY <2>3, <3>3, <4>2, <4>3
    <3> QED
      BY <3>1, <3>4
  <2> QED
    BY <2>1, <2>2, <2>3 DEF KeysOrdered, KeysInChainOrder
<1>14. StatusesRight
  <2>1. \A key \in DOMAIN keyModel : KeyRight(key)
    BY <1>4, StartIs DEF KeyRight, Written
  <2> QED
    BY <1>4, <2>1 DEF StatusesRight
<1> QED
  BY <1>10, <1>11, <1>12, <1>13, <1>14 DEF OneInv

-----------------------------------------------------------------------------
(***************************************************************************)
(* The roll-up, for any number of workers.                                 *)
(***************************************************************************)
Fields == {"pc", "numRolluped", "batch", "state", "clone"}
TreesFields == {"counter", "status", "process"}

\* The log: what the contract admits, and no DEPRECATE_KEY reduced since the start.
LogRight ==
  /\ Len(dkgActions) <= MaxActions /\ Legal(dkgActions)
  /\ Len(History) <= events /\ 1 .. Len(History) \subseteq active
  /\ \A h \in 1 .. events : dkgActions[h].actionEnum = "DEPRECATE_KEY" => h <= Len(History)

TreesRight ==
  /\ DOMAIN trees = TreesFields /\ trees.process \subseteq active
  /\ DOMAIN rollup.clone = TreesFields /\ rollup.clone.process \subseteq active

\* A batch is the actions from the first that is not active to the last rolled up.
RollupRight ==
  /\ DOMAIN rollup = Fields
  /\ rollup.pc \in {"idle", "find", "state", "prove", "send"}
  /\ rolluped \in 0 .. Len(dkgActions)
  /\ rollup.numRolluped \in 0 .. rolluped
  /\ rollup.state \in 0 .. events
  /\ rollup.pc \in {"state", "prove", "send"} =>
       \E a \in Len(History) .. events, m \in 0 .. rolluped : rollup.batch = a + 1 .. m

\* What is proved comes after the state, before any DEPRECATE_KEY that comes after the
\* state, and generates keys of one committee only.
ProofRight ==
  /\ Proven(rollup.batch) \subseteq rollup.state + 1 .. Len(dkgActions)
  /\ \A i, j \in rollup.batch : \A c, d \in Committee :
       IsGenerate(c, i) /\ IsGenerate(d, j) => c = d
  /\ \A i \in Deprecations(rollup.batch) : i > rollup.state =>
       \A h \in Proven(rollup.batch) : h < i

RInv == LogRight /\ TreesRight /\ RollupRight /\ (rollup.pc = "send" => ProofRight)

LEMMA StartRInv == RollupInit => RInv
<1> SUFFICES ASSUME RollupInit PROVE RInv
  OBVIOUS
<1>1. PICK n \in Nat : /\ n = Len(History) /\ active = 1 .. n /\ DOMAIN dkgActions = 1 .. n
                       /\ events = n /\ Len(dkgActions) = n /\ n <= MaxActions
                       /\ Legal(dkgActions)
  BY StartIs
<1>2. rolluped = n /\ trees = NoTrees /\ rollup = NotRolling
  BY <1>1 DEF RollupInit
<1>3. DOMAIN NoTrees = TreesFields /\ NoTrees.process = {}
  BY DEF NoTrees, TreesFields
<1>4. /\ DOMAIN NotRolling = Fields /\ NotRolling.pc = "idle" /\ NotRolling.numRolluped = 0
      /\ NotRolling.state = 0 /\ NotRolling.clone = NoTrees
  BY DEF NotRolling, Fields
<1>5. LogRight
  BY <1>1 DEF LogRight
<1>6. TreesRight
  BY <1>2, <1>3, <1>4 DEF TreesRight
<1>7. RollupRight /\ rollup.pc # "send"
  BY <1>1, <1>2, <1>4 DEF RollupRight
<1> QED
  BY <1>5, <1>6, <1>7 DEF RInv

(* The actions of a batch are in the log.                                  *)
LEMMA BatchIs ==
  ASSUME TypeOK, RollupRight, rollup.pc \in {"state", "prove", "send"}
  PROVE  /\ rollup.batch \subseteq DOMAIN dkgActions /\ rollup.batch \subseteq Nat \ {0}
         /\ rollup.state \in Nat
         /\ \E a \in Len(History) .. events, m \in 0 .. rolluped : rollup.batch = a + 1 .. m
<1>1. PICK a \in Len(History) .. events, m \in 0 .. rolluped : rollup.batch = a + 1 .. m
  BY DEF RollupRight
<1>2. /\ Len(History) \in Nat /\ Len(dkgActions) \in Nat /\ DOMAIN dkgActions = 1 .. Len(dkgActions)
      /\ events \in Nat /\ rolluped \in 0 .. Len(dkgActions) /\ rollup.state \in 0 .. events
  BY HistoryAssumption DEF TypeOK, RollupRight
<1> QED
  BY <1>1, <1>2

(* Numbers after e with all before them down to e are the next ones.       *)
LEMMA NextOnes ==
  ASSUME NEW e \in Nat, NEW n \in Nat, NEW S, S \subseteq e + 1 .. n,
         \A h \in S : e + 1 .. h \subseteq S
  PROVE  /\ Cardinality(S) \in Nat /\ (e <= n => e + Cardinality(S) <= n)
         /\ S = e + 1 .. e + Cardinality(S)
<1> DEFINE T == {i \in Nat : i > e /\ i \notin S}
<1>1. PICK x \in Nat : x > e /\ x > n
  <2>1. e + n + 1 \in Nat /\ e + n + 1 > e /\ e + n + 1 > n
    OBVIOUS
  <2> QED
    BY <2>1
<1>2. x \in T
  BY <1>1
<1>3. PICK m \in T : \A h \in T : m <= h
  BY <1>2, Smallest
<1>4. S = e + 1 .. m - 1
  <2>1. ASSUME NEW h \in e + 1 .. m - 1 PROVE h \in S
    BY <1>3
  <2>2. ASSUME NEW h \in S PROVE h \in e + 1 .. m - 1
    <3>1. h \in Nat /\ h > e /\ (m <= h => m \in e + 1 .. h)
      BY <1>3
    <3> QED
      BY <1>3, <3>1
  <2> QED
    BY <2>1, <2>2
<1>5. Cardinality(S) = m - 1 - e
  <2>1. e + 1 \in Int /\ m - 1 \in Int /\ m > e
    BY <1>3
  <2>2. Cardinality(e + 1 .. m - 1) = IF e + 1 > m - 1 THEN 0 ELSE m - 1 - (e + 1) + 1
    BY <2>1, FS_Interval
  <2> QED
    BY <1>4, <2>1, <2>2
<1>6. m - 1 > e => m - 1 \in S
  BY <1>3, <1>4
<1> QED
  BY <1>3, <1>4, <1>5, <1>6

(* A transaction reduces the next actions of the log, none of which        *)
(* deprecates a key.                                                       *)
LEMMA SendIs ==
  ASSUME TypeOK, RInv, Send
  PROVE  /\ Cardinality(Proven(rollup.batch)) \in Nat
         /\ events + Cardinality(Proven(rollup.batch)) <= Len(dkgActions)
         /\ Proven(rollup.batch) = events + 1 .. events + Cardinality(Proven(rollup.batch))
<1>0. rollup.pc = "send" /\ rollup.state = events /\ ProofRight /\ RollupRight
  BY DEF Send, RInv
<1>1. PICK n \in Nat, e \in Nat : /\ n = Len(dkgActions) /\ DOMAIN dkgActions = 1 .. n
                                  /\ e = events /\ e <= n
  BY DEF TypeOK
<1>2. PICK a \in Nat, m \in Nat : rollup.batch = a + 1 .. m /\ a <= e /\ m <= n
  <2>1. PICK a \in Len(History) .. events, m \in 0 .. rolluped : rollup.batch = a + 1 .. m
    BY <1>0, BatchIs
  <2>2. Len(History) \in Nat /\ rolluped \in 0 .. n
    BY <1>0, <1>1, HistoryAssumption DEF RollupRight
  <2>3. a \in Nat /\ m \in Nat /\ a <= e /\ m <= n
    BY <1>1, <2>1, <2>2
  <2> QED
    BY <2>1, <2>3
<1>3. PICK P : P = Proven(rollup.batch)
  OBVIOUS
<1>4. P \subseteq e + 1 .. n
  BY <1>0, <1>1, <1>3 DEF ProofRight
<1>5. ASSUME NEW h \in P, NEW i \in e + 1 .. h PROVE i \in P
  <2>1. h \in rollup.batch /\ h \in Nat
    BY <1>3, <1>4 DEF Proven
  <2>2. i \in rollup.batch
    BY <1>2, <2>1
  <2>3. i \notin Deprecations(rollup.batch)
    <3>1. ASSUME i \in Deprecations(rollup.batch) PROVE FALSE
      <4>1. h < i
        BY <1>0, <1>1, <1>3, <3>1 DEF ProofRight
      <4> QED
        BY <2>1, <4>1
    <3> QED
      BY <3>1
  <2> QED
    BY <1>3, <2>2, <2>3 DEF Proven
<1> QED
  BY <1>1, <1>3, <1>4, <1>5, NextOnes

(* What the pass sees of a step of the two together is a step of its own.  *)
LEMMA StepIsNext ==
  ASSUME TypeOK, RInv, [RollupNext]_allVars
  PROVE  [Next]_vars
<1>1. CASE PassStep
  <2>1. ASSUME NEW c \in Committee, NEW k \in 0 .. ChainKeys(c), NEW enum \in Enum,
               Dispatch(enum, <<c, k>>)
        PROVE  Next
    <3>1. ChainKeys(c) \in Nat /\ ChainKeys(c) <= events /\ events \in 0 .. Len(dkgActions)
          /\ Len(dkgActions) \in Nat
      <4>1. Len(dkgActions) \in Nat /\ events \in 0 .. Len(dkgActions) /\ events \in Nat
        BY DEF TypeOK
      <4> QED
        BY <4>1, CountedIs DEF ChainKeys, Counted
    <3>2. k \in 0 .. MaxActions
      BY <3>1, KeysAssumption DEF RInv, LogRight
    <3> QED
      BY <2>1, <3>2 DEF Next, ChainStep
  <2> QED
    BY <1>1, <2>1 DEF PassStep, Next
<1>2. CASE UNCHANGED vars
  BY <1>2
<1>3. CASE Send
  <2>1. PICK k \in Nat : k = Cardinality(Proven(rollup.batch)) /\ events + k <= Len(dkgActions)
    BY <1>3, SendIs
  <2>2. /\ events' = events + k /\ events \in Nat /\ Len(dkgActions) \in Nat
        /\ UNCHANGED <<dkgActions, dbVars, locals, interrupted>>
    BY <1>3, <2>1 DEF Send, TypeOK
  <2>3. CASE k = 0
    BY <2>2, <2>3 DEF vars, chainVars
  <2>4. CASE k > 0
    <3>1. events + k \in events + 1 .. Len(dkgActions) /\ Reduce(events + k)
      BY <2>1, <2>2, <2>4 DEF Reduce
    <3> QED
      BY <3>1 DEF Next, ChainStep
  <2> QED
    BY <2>1, <2>3, <2>4
<1>4. CASE Restart
  BY <1>4 DEF Restart, Next
<1>5. CASE RollupStep
  BY <1>2, <1>3, <1>4, <1>5
  DEF RollupStep, RollUp, RefreshKeys, RefreshProcess, CountRolluped, FindBatch, FetchDkgState,
      Prove, ProveFails, RollupFails
<1>6. CASE UNCHANGED allVars
  BY <1>2, <1>6 DEF allVars
<1> QED
  BY <1>1, <1>5, <1>6 DEF RollupNext

(* Only a transaction of the roll-up reduces actions.                      *)
LEMMA EventsStay ==
  ASSUME [RollupNext]_allVars, ~ Send
  PROVE  UNCHANGED events
<1>1. CASE UNCHANGED vars
  BY <1>1 DEF vars, chainVars
<1>2. ASSUME NEW w \in Worker, Proceed(w) \/ Interrupt(w) PROVE UNCHANGED events
  BY <1>2 DEF Proceed, Start, FetchEvents, Find, Exists, Done, LastKey, Create,
              DuplicateKey, FindKey, SaveKey, SaveAction, Interrupt, chainVars
<1>3. CASE PassStep
  BY <1>2, <1>3 DEF PassStep, Dispatch
<1>4. CASE RollupStep
  BY <1>1, <1>2, <1>4
  DEF RollupStep, RollUp, RefreshKeys, RefreshProcess, CountRolluped, FindBatch, FetchDkgState,
      Prove, ProveFails, RollupFails, Restart
<1> QED
  BY <1>1, <1>3, <1>4 DEF RollupNext, allVars

(* No DEPRECATE_KEY is reduced, and what the log admits stays.             *)
LEMMA LogStep ==
  ASSUME IInv, RInv, [RollupNext]_allVars
  PROVE  LogRight'
<1>0. /\ [Next]_vars /\ Grows /\ events <= events' /\ TypeOK /\ TypeOK' /\ LogRight
      /\ Len(History) \in Nat
  BY StepIsNext, GrowStep, StepInv, HistoryAssumption DEF IInv, RInv
<1>1. Len(dkgActions') <= MaxActions
  <2>1. CASE UNCHANGED dkgActions
    BY <1>0, <2>1 DEF LogRight
  <2>2. ASSUME NEW enum, NEW key, Dispatch(enum, key) PROVE Len(dkgActions') <= MaxActions
    BY <1>0, <2>2, KeysAssumption DEF Dispatch, TypeOK
  <2>3. CASE \E w \in Worker : Proceed(w) \/ Interrupt(w)
    BY <2>1, <2>3 DEF Proceed, Start, FetchEvents, Find, Exists, Done, LastKey, Create,
                      DuplicateKey, FindKey, SaveKey, SaveAction, Interrupt, chainVars
  <2>4. CASE UNCHANGED vars
    BY <2>1, <2>4 DEF vars, chainVars
  <2> QED
    BY <1>0, <2>1, <2>2, <2>3, <2>4 DEF Next, ChainStep, Reduce
<1>2. Legal(dkgActions')
  BY <1>0, LegalStep DEF LogRight
<1>3. Len(History) <= events' /\ 1 .. Len(History) \subseteq active'
  <2>1. Len(History) <= events /\ 1 .. Len(History) \subseteq active /\ active \subseteq active'
    BY <1>0 DEF LogRight, Grows
  <2>2. events \in Nat /\ events' \in Nat
    BY <1>0 DEF TypeOK
  <2> QED
    BY <1>0, <2>1, <2>2
<1>4. ASSUME NEW h \in 1 .. events', dkgActions'[h].actionEnum = "DEPRECATE_KEY"
      PROVE  h <= Len(History)
  <2>0. /\ events \in Nat /\ events' \in Nat /\ Len(dkgActions) \in Nat /\ events <= Len(dkgActions)
        /\ DOMAIN dkgActions = 1 .. Len(dkgActions)
    BY <1>0 DEF TypeOK
  <2>1. CASE h <= events
    <3>1. h \in 1 .. events /\ h \in DOMAIN dkgActions
      BY <2>0, <2>1
    <3>2. dkgActions'[h] = dkgActions[h]
      BY <1>0, <3>1 DEF Grows
    <3> QED
      BY <1>0, <1>4, <3>1, <3>2 DEF LogRight
  <2>2. CASE Send /\ h > events
    <3>1. PICK k \in Nat : /\ k = Cardinality(Proven(rollup.batch))
                           /\ Proven(rollup.batch) = events + 1 .. events + k
      BY <1>0, <2>2, SendIs
    <3>2. events' = events + k /\ UNCHANGED dkgActions
      BY <2>2, <3>1 DEF Send
    <3>3. h \in Proven(rollup.batch)
      BY <2>0, <2>2, <3>1, <3>2
    <3>4. dkgActions[h].actionEnum # "DEPRECATE_KEY"
      BY <3>3 DEF Proven, Deprecations
    <3> QED
      BY <1>4, <3>2, <3>4
  <2>3. CASE UNCHANGED events
    BY <2>0, <2>1, <2>3
  <2> QED
    BY <2>0, <2>1, <2>2, <2>3, EventsStay
<1> QED
  BY <1>1, <1>2, <1>3, <1>4 DEF LogRight

LEMMA TreesStep ==
  ASSUME IInv, RInv, [RollupNext]_allVars
  PROVE  TreesRight'
<1>0. Grows /\ active \subseteq active' /\ TreesRight
  BY StepIsNext, GrowStep DEF IInv, RInv, Grows
<1>1. DOMAIN rollup = Fields
  BY DEF RInv, RollupRight
<1>2. /\ DOMAIN NoTrees = TreesFields /\ NoTrees.process = {} /\ NotRolling.clone = NoTrees
  BY DEF NoTrees, NotRolling, TreesFields
<1>3. /\ DOMAIN trees' = TreesFields
      /\ trees'.process \subseteq active'
  <2>1. CASE UNCHANGED trees
    BY <1>0, <2>1 DEF TreesRight
  <2>2. CASE RefreshKeys
    BY <1>0, <2>2 DEF RefreshKeys, TreesRight, TreesFields
  <2>3. CASE RefreshProcess
    BY <1>0, <2>3 DEF RefreshProcess, TreesRight, TreesFields
  <2>4. CASE Restart
    BY <1>0, <1>2, <2>4 DEF Restart
  <2> QED
    BY <2>1, <2>2, <2>3, <2>4
    DEF RollupNext, PassStep, RollupStep, RollUp, CountRolluped, FindBatch, FetchDkgState,
        Prove, ProveFails, Send, RollupFails, rollupVars, allVars
<1>4. \/ rollup'.clone = rollup.clone \/ rollup'.clone = trees \/ rollup'.clone = NoTrees
  <2>1. CASE UNCHANGED rollup
    BY <2>1
  <2>2. CASE FindBatch \/ ProveFails \/ Send \/ RollupFails \/ Restart
    BY <1>1, <1>2, <2>2 DEF FindBatch, ProveFails, Send, RollupFails, Restart, Fields
  <2>3. CASE CountRolluped \/ Prove \/ \E n \in Len(History) .. events : FetchDkgState(n)
    BY <1>1, <2>3 DEF CountRolluped, Prove, FetchDkgState, Fields
  <2> QED
    BY <2>1, <2>2, <2>3
    DEF RollupNext, PassStep, RollupStep, RollUp, RefreshKeys, RefreshProcess, rollupVars, allVars
<1> QED
  BY <1>0, <1>2, <1>3, <1>4 DEF TreesRight

LEMMA RollupRightStep ==
  ASSUME IInv, RInv, [RollupNext]_allVars
  PROVE  RollupRight'
<1>0. /\ Grows /\ events <= events' /\ TypeOK /\ TypeOK' /\ RollupRight /\ LogRight /\ ActiveInOrder
      /\ Len(History) \in Nat
  BY StepIsNext, GrowStep, StepInv, HistoryAssumption DEF IInv, RInv, SharedInv
<1>1. PICK n \in Nat, m \in Nat, e \in Nat, f \in Nat, r \in Nat, l \in Nat :
        /\ n = Len(dkgActions) /\ m = Len(dkgActions') /\ n <= m
        /\ e = events /\ f = events' /\ e <= f
        /\ r = rolluped /\ r <= n /\ l = Len(History) /\ l <= e
  <2>1. /\ Len(dkgActions) \in Nat /\ Len(dkgActions') \in Nat /\ events \in Nat /\ events' \in Nat
        /\ DOMAIN dkgActions = 1 .. Len(dkgActions) /\ DOMAIN dkgActions' = 1 .. Len(dkgActions')
    BY <1>0 DEF TypeOK
  <2>2. 1 .. Len(dkgActions) \subseteq 1 .. Len(dkgActions')
    BY <1>0, <2>1 DEF Grows
  <2>3. Len(dkgActions) <= Len(dkgActions')
    BY <2>1, <2>2
  <2>4. rolluped \in Nat /\ rolluped <= Len(dkgActions)
    BY <1>0, <2>1 DEF RollupRight
  <2> QED
    BY <1>0, <2>1, <2>3, <2>4 DEF LogRight
<1>2. /\ DOMAIN rollup = Fields /\ rollup.pc \in {"idle", "find", "state", "prove", "send"}
      /\ rollup.numRolluped \in 0 .. r /\ rollup.state \in 0 .. e
  BY <1>0, <1>1 DEF RollupRight
<1>3. rollup.pc \in {"state", "prove", "send"} => \E a \in l .. e, b \in 0 .. r : rollup.batch = a + 1 .. b
  BY <1>0, <1>1 DEF RollupRight
<1>4. PICK s \in Nat : s = rolluped' /\ r <= s /\ s <= m
  <2>1. CASE UNCHANGED rolluped
    BY <1>1, <2>1
  <2>2. ASSUME NEW k \in rolluped + 1 .. Len(dkgActions), RollUp(k)
        PROVE  rolluped' \in Nat /\ r <= rolluped' /\ rolluped' <= m
    BY <1>1, <2>2 DEF RollUp
  <2>3. rolluped' \in Nat /\ r <= rolluped' /\ rolluped' <= m
    BY <1>1, <2>1, <2>2
    DEF RollupNext, PassStep, RollupStep, RefreshKeys, RefreshProcess, CountRolluped, FindBatch,
        FetchDkgState, Prove, ProveFails, Send, RollupFails, Restart, rollupVars, allVars
  <2> QED
    BY <2>3
<1>5. SUFFICES
        /\ DOMAIN rollup' = Fields
        /\ rollup'.pc \in {"idle", "find", "state", "prove", "send"}
        /\ rollup'.numRolluped \in 0 .. s
        /\ rollup'.state \in 0 .. f
        /\ rollup'.pc \in {"state", "prove", "send"} =>
             \E a \in l .. f, b \in 0 .. s : rollup'.batch = a + 1 .. b
  BY <1>1, <1>4 DEF RollupRight
<1>6. CASE UNCHANGED rollup
  BY <1>1, <1>2, <1>3, <1>4, <1>6
<1>7. CASE rollup' = NotRolling
  BY <1>7 DEF NotRolling, Fields
<1>8. CASE CountRolluped
  <2>1. rollup' = [rollup EXCEPT !.pc = "find", !.numRolluped = rolluped]
    BY <1>8 DEF CountRolluped
  <2> QED
    BY <1>1, <1>2, <1>4, <2>1 DEF Fields
<1>9. CASE FindBatch
  <2>1. CASE FoundActions = {}
    BY <1>7, <1>9, <2>1 DEF FindBatch
  <2>2. CASE FoundActions # {}
    <3>1. rollup' = [rollup EXCEPT !.pc = "state", !.numRolluped = 0, !.batch = FoundActions]
      BY <1>9, <2>2 DEF FindBatch
    <3>2. PICK k \in Nat : active = 1 .. k
      BY <1>0, ActiveIs
    <3>3. k \in l .. e
      <4>1. l <= k
        BY <1>0, <1>1, <3>2 DEF LogRight
      <4>2. k > 0 => k <= dkgEvents
        BY <1>0, <3>2 DEF ActiveInOrder
      <4>3. dkgEvents \in Nat /\ dkgEvents <= e
        BY <1>0, <1>1 DEF TypeOK
      <4> QED
        BY <1>1, <4>1, <4>2, <4>3
    <3>4. FoundActions = k + 1 .. rollup.numRolluped
      BY <1>2, <3>2 DEF FoundActions
    <3>5. rollup.numRolluped \in 0 .. s /\ k \in l .. f
      BY <1>1, <1>2, <1>4, <3>3
    <3> QED
      BY <1>1, <1>2, <1>4, <3>1, <3>4, <3>5 DEF Fields
  <2> QED
    BY <2>1, <2>2
<1>10. ASSUME NEW k \in Len(History) .. events, FetchDkgState(k)
       PROVE  /\ DOMAIN rollup' = Fields
              /\ rollup'.pc \in {"idle", "find", "state", "prove", "send"}
              /\ rollup'.numRolluped \in 0 .. s
              /\ rollup'.state \in 0 .. f
              /\ rollup'.pc \in {"state", "prove", "send"} =>
                   \E a \in l .. f, b \in 0 .. s : rollup'.batch = a + 1 .. b
  <2>1. /\ rollup.pc = "state"
        /\ rollup' = [rollup EXCEPT !.pc = "prove", !.state = k, !.clone = trees]
    BY <1>10 DEF FetchDkgState
  <2>2. k \in 0 .. f
    BY <1>1
  <2>3. PICK a \in l .. e, b \in 0 .. r : rollup.batch = a + 1 .. b
    BY <1>3, <2>1
  <2>4. a \in l .. f /\ b \in 0 .. s
    BY <1>1, <1>4
  <2> QED
    BY <1>1, <1>2, <1>4, <2>1, <2>2, <2>3, <2>4 DEF Fields
<1>11. CASE Prove
  <2>1. rollup.pc = "prove" /\ rollup' = [rollup EXCEPT !.pc = "send", !.clone = NoTrees]
    BY <1>11 DEF Prove
  <2>3. PICK a \in l .. e, b \in 0 .. r : rollup.batch = a + 1 .. b
    BY <1>3, <2>1
  <2>4. a \in l .. f /\ b \in 0 .. s
    BY <1>1, <1>4
  <2> QED
    BY <1>1, <1>2, <1>4, <2>1, <2>3, <2>4 DEF Fields
<1> QED
  BY <1>6, <1>7, <1>8, <1>9, <1>10, <1>11
  DEF RollupNext, PassStep, RollupStep, RollUp, RefreshKeys, RefreshProcess, ProveFails, Send,
      RollupFails, Restart, rollupVars, allVars

(* A bounded set of numbers has a biggest element.                         *)
LEMMA Biggest ==
  ASSUME NEW n \in Nat, NEW S, S \subseteq 1 .. n, S # {}
  PROVE  \E m \in S : \A h \in S : h <= m
<1> DEFINE T == {b \in Nat : \A h \in S : h <= b}
<1>1. n \in T
  OBVIOUS
<1>2. PICK m \in T : \A b \in T : m <= b
  BY <1>1, Smallest
<1>3. m \in S
  <2>1. CASE m = 0
    <3>1. PICK h \in S : TRUE
      OBVIOUS
    <3> QED
      BY <1>2, <2>1, <3>1
  <2>2. CASE m > 0 /\ m \notin S
    <3>1. m - 1 \in Nat /\ \A h \in S : h <= m - 1
      BY <1>2, <2>2
    <3>2. m - 1 \in T
      BY <3>1
    <3> QED
      BY <1>2, <2>2, <3>2
  <2> QED
    BY <1>2, <2>1, <2>2
<1> QED
  BY <1>2, <1>3

(* The actions that a step stands on are in the log, and more for later    *)
(* steps.                                                                  *)
LEMMA ReachedIs ==
  ASSUME TypeOK, RollupRight, rollup.pc \in {"prove", "send"}, NEW j
  PROVE  /\ Reached(j) \subseteq DOMAIN dkgActions
         /\ \A c : IsFiniteSet(Generates(c, Reached(j))) /\ GeneratedBy(c, Reached(j)) \in Nat
<1>1. PICK n \in Nat : n = Len(dkgActions) /\ DOMAIN dkgActions = 1 .. n /\ events \in 0 .. n
  BY DEF TypeOK
<1>2. rollup.batch \subseteq 1 .. n /\ rollup.state \in 0 .. n
  BY <1>1, BatchIs DEF RollupRight
<1>3. Reached(j) \subseteq 1 .. n
  BY <1>2 DEF Reached, Proven, Before
<1>4. ASSUME NEW c PROVE Generates(c, Reached(j)) \subseteq 1 .. n
  BY <1>3 DEF Generates
<1> QED
  BY <1>1, <1>3, <1>4, BoundedIs DEF GeneratedBy

LEMMA ReachedMore ==
  ASSUME TypeOK, RollupRight, rollup.pc \in {"prove", "send"},
         NEW h \in Nat, NEW j \in Nat, h <= j, NEW c
  PROVE  /\ Reached(h) \subseteq Reached(j)
         /\ GeneratedBy(c, Reached(h)) <= GeneratedBy(c, Reached(j))
         /\ \A i \in Reached(j) \ Reached(h) : IsGenerate(c, i) =>
              GeneratedBy(c, Reached(h)) < GeneratedBy(c, Reached(j))
<1>1. Reached(h) \subseteq Reached(j)
  <2>1. rollup.batch \subseteq Nat
    BY BatchIs
  <2>2. Before(h) \subseteq Before(j)
    BY <2>1 DEF Before
  <2>3. Proven(Before(h)) \subseteq Proven(Before(j))
    BY <2>2 DEF Proven, Deprecations
  <2> QED
    BY <2>3 DEF Reached
<1>2. PICK G, H : G = Generates(c, Reached(h)) /\ H = Generates(c, Reached(j))
  OBVIOUS
<1>3. /\ G \subseteq H /\ IsFiniteSet(H) /\ IsFiniteSet(G)
      /\ Cardinality(G) \in Nat /\ Cardinality(H) \in Nat
  BY <1>1, <1>2, ReachedIs DEF Generates, GeneratedBy
<1>4. Cardinality(G) <= Cardinality(H) /\ (Cardinality(H) = Cardinality(G) => H = G)
  BY <1>3, FS_Subset
<1>5. \A i \in Reached(j) \ Reached(h) : IsGenerate(c, i) => i \in H /\ i \notin G
  BY <1>2 DEF Generates, IsGenerate
<1>6. \A i \in Reached(j) \ Reached(h) : IsGenerate(c, i) => Cardinality(G) < Cardinality(H)
  BY <1>3, <1>4, <1>5
<1> QED
  BY <1>1, <1>2, <1>4, <1>6 DEF GeneratedBy

(* A counter that an earlier step of the proof has written is one short of *)
(* what the contract counts: nextKeyId is written, not nextKeyId + 1.      *)
LEMMA CounterIsShort ==
  ASSUME TypeOK, RollupRight, rollup.pc = "prove", Proves, NEW c \in Committee,
         NEW i \in rollup.batch, NEW j \in rollup.batch, i < j, IsGenerate(c, i)
  PROVE  CounterLeaf(c, j) # GeneratedBy(c, Reached(j))
<1>1. PICK n \in Nat : n = Len(dkgActions) /\ DOMAIN dkgActions = 1 .. n
  BY DEF TypeOK
<1>2. rollup.batch \subseteq 1 .. n
  BY <1>1, BatchIs
<1>3. PICK own : own = Generates(c, Before(j))
  OBVIOUS
<1>4. ASSUME NEW h \in own
      PROVE  /\ h \in rollup.batch /\ h \in Nat /\ h < j /\ IsGenerate(c, h)
             /\ h \notin Reached(h) /\ h \in Reached(j)
             /\ OwnKey(h)[2] = GeneratedBy(c, Reached(h))
  <2>1. h \in rollup.batch /\ h < j /\ IsGenerate(c, h)
    BY <1>3 DEF Generates, Before, IsGenerate
  <2>2. h \in Proven(rollup.batch) /\ h \in Proven(Before(j))
    BY <2>1 DEF IsGenerate, Proven, Deprecations, Before
  <2>3. Presupposed(h) /\ Witnessed(h)
    BY <2>2 DEF Proves
  <2> QED
    BY <1>2, <2>1, <2>2, <2>3 DEF Presupposed, Witnessed, Reached, IsGenerate
<1>5. i \in own /\ j \in Nat
  BY <1>2, <1>3 DEF Generates, Before, IsGenerate
<1>6. own \subseteq 1 .. n
  BY <1>2, <1>4
<1>7. PICK m \in own : \A h \in own : h <= m
  BY <1>5, <1>6, Biggest
<1>8. \A h \in own : OwnKey(h)[2] <= OwnKey(m)[2]
  <2>1. ASSUME NEW h \in own PROVE GeneratedBy(c, Reached(h)) <= GeneratedBy(c, Reached(m))
    BY <1>4, <1>7, ReachedMore
  <2> QED
    BY <1>4, <2>1
<1>9. PICK S : S = {OwnKey(h)[2] : h \in own}
  OBVIOUS
<1>10. CounterLeaf(c, j) = CHOOSE v \in S : \A h \in own : OwnKey(h)[2] <= v
  BY <1>3, <1>5, <1>9 DEF CounterLeaf
<1>11. CounterLeaf(c, j) \in S
  <2>1. OwnKey(m)[2] \in S
    BY <1>9
  <2>2. \E v \in S : \A h \in own : OwnKey(h)[2] <= v
    BY <1>8, <2>1
  <2> QED
    BY <1>10, <2>2
<1>12. PICK h \in own : CounterLeaf(c, j) = OwnKey(h)[2]
  BY <1>9, <1>11
<1>13. CounterLeaf(c, j) = GeneratedBy(c, Reached(h)) /\ h \in Reached(j) \ Reached(h) /\ h <= j
  BY <1>4, <1>5, <1>12
<1>14. GeneratedBy(c, Reached(h)) < GeneratedBy(c, Reached(j))
  BY <1>4, <1>5, <1>13, ReachedMore
<1>15. GeneratedBy(c, Reached(h)) \in Nat /\ GeneratedBy(c, Reached(j)) \in Nat
  BY ReachedIs
<1> QED
  BY <1>13, <1>14, <1>15

LEMMA ProvesGives ==
  ASSUME TypeOK, RollupRight, rollup.pc = "prove", Proves
  PROVE  ProofRight
<1>1. PICK n \in Nat : n = Len(dkgActions) /\ DOMAIN dkgActions = 1 .. n
  BY DEF TypeOK
<1>2. rollup.batch \subseteq 1 .. n /\ rollup.state \in Nat
  BY <1>1, BatchIs
<1>3. \A i \in Proven(rollup.batch) : i \in rollup.batch /\ Witnessed(i)
  BY DEF Proves, Proven
<1>4. ASSUME NEW i \in Proven(rollup.batch) PROVE i \in rollup.state + 1 .. n
  <2>1. i \in 1 .. n /\ i \notin 1 .. rollup.state
    BY <1>2, <1>3 DEF Witnessed, Reached
  <2> QED
    BY <1>2, <2>1
<1>5. ASSUME NEW i \in rollup.batch, NEW j \in rollup.batch, i < j,
             NEW c \in Committee, NEW d \in Committee, IsGenerate(c, i), IsGenerate(d, j)
      PROVE  c = d
  <2>1. j \in Proven(rollup.batch)
    BY <1>5 DEF Proven, Deprecations, IsGenerate
  <2>2. c # d => CounterLeaf(c, j) = GeneratedBy(c, Reached(j))
    BY <1>3, <1>5, <2>1 DEF Witnessed, IsGenerate
  <2> QED
    BY <1>5, <2>2, CounterIsShort
<1>6. ASSUME NEW i \in rollup.batch, NEW j \in rollup.batch, NEW c \in Committee,
             NEW d \in Committee, IsGenerate(c, i), IsGenerate(d, j)
      PROVE  c = d
  <2>1. CASE i = j
    BY <1>6, <2>1 DEF IsGenerate
  <2>2. CASE i < j
    BY <1>5, <1>6, <2>2
  <2>3. CASE j < i
    BY <1>5, <1>6, <2>3
  <2> QED
    BY <1>2, <2>1, <2>2, <2>3
<1>7. ASSUME NEW i \in Deprecations(rollup.batch), i > rollup.state,
             NEW h \in Proven(rollup.batch), ~ (h < i)
      PROVE  FALSE
  <2>1. i \in rollup.batch /\ h \in rollup.batch /\ i # h
    BY <1>3 DEF Deprecations, Proven
  <2>2. i \in Nat /\ h \in Nat /\ i < h
    BY <1>2, <1>7, <2>1
  <2>3. i \in ProcessLeaves(h) \ {h}
    BY <2>1, <2>2 DEF ProcessLeaves, Before
  <2>4. i \in Reached(h)
    BY <1>3, <2>3 DEF Witnessed
  <2>5. i \notin 1 .. rollup.state /\ i \notin Proven(Before(h))
    BY <1>2, <1>7, <2>2 DEF Proven, Deprecations
  <2> QED
    BY <2>4, <2>5 DEF Reached
<1> QED
  BY <1>1, <1>4, <1>6, <1>7 DEF ProofRight

(* What is said of a proof stays true as the log grows.                    *)
LEMMA ProofStays ==
  ASSUME TypeOK, TypeOK', RollupRight, Grows, rollup.pc \in {"prove", "send"}, ProofRight,
         rollup'.batch = rollup.batch, rollup'.state = rollup.state
  PROVE  ProofRight'
<1>1. PICK n \in Nat, m \in Nat : /\ n = Len(dkgActions) /\ DOMAIN dkgActions = 1 .. n
                                  /\ m = Len(dkgActions') /\ DOMAIN dkgActions' = 1 .. m
  BY DEF TypeOK
<1>2. n <= m
  BY <1>1 DEF Grows
<1>3. PICK B \in SUBSET DOMAIN dkgActions, s \in Nat : B = rollup.batch /\ s = rollup.state
  BY BatchIs
<1>4. \A i \in B : dkgActions'[i] = dkgActions[i]
  BY <1>3 DEF Grows
<1>5. Deprecations(B)' = Deprecations(B) /\ Proven(B)' = Proven(B)
  BY <1>4 DEF Deprecations, Proven
<1>6. Deprecations(rollup.batch)' = Deprecations(B) /\ Proven(rollup.batch)' = Proven(B)
  BY <1>3, <1>5 DEF Deprecations, Proven
<1>7. /\ Proven(B) \subseteq s + 1 .. n
      /\ \A i, j \in B : \A c, d \in Committee : IsGenerate(c, i) /\ IsGenerate(d, j) => c = d
      /\ \A i \in Deprecations(B) : i > s => \A h \in Proven(B) : h < i
  BY <1>1, <1>3 DEF ProofRight
<1>8. \A i, j \in B : \A c, d \in Committee :
        IsGenerate(c, i)' /\ IsGenerate(d, j)' => c = d
  BY <1>4, <1>7 DEF IsGenerate
<1>9. Proven(B) \subseteq s + 1 .. m
  BY <1>2, <1>7
<1>10. Proven(rollup.batch)' \subseteq rollup'.state + 1 .. Len(dkgActions')
  BY <1>1, <1>3, <1>6, <1>9
<1>11. \A i \in Deprecations(rollup.batch)' : i > rollup'.state =>
         \A h \in Proven(rollup.batch)' : h < i
  BY <1>3, <1>6, <1>7
<1>12. \A i, j \in rollup'.batch : \A c, d \in Committee :
         IsGenerate(c, i)' /\ IsGenerate(d, j)' => c = d
  BY <1>3, <1>8
<1> QED
  BY <1>10, <1>11, <1>12 DEF ProofRight

LEMMA RInvStep ==
  ASSUME IInv, RInv, [RollupNext]_allVars
  PROVE  RInv'
<1>0. Grows /\ TypeOK /\ TypeOK' /\ RollupRight
  BY StepIsNext, GrowStep, StepInv DEF IInv, RInv
<1>1. DOMAIN rollup = Fields
  BY <1>0 DEF RollupRight
<1>2. ASSUME rollup'.pc = "send" PROVE ProofRight'
  <2>1. CASE UNCHANGED rollup
    <3>1. /\ rollup.pc = "send" /\ rollup.pc \in {"prove", "send"}
          /\ rollup'.batch = rollup.batch /\ rollup'.state = rollup.state
      BY <1>2, <2>1
    <3>2. ProofRight
      BY <3>1 DEF RInv
    <3> QED
      BY <1>0, <3>1, <3>2, ProofStays
  <2>2. CASE Prove
    <3>1. rollup' = [rollup EXCEPT !.pc = "send", !.clone = NoTrees] /\ rollup.pc = "prove" /\ Proves
      BY <2>2 DEF Prove
    <3>2. rollup'.batch = rollup.batch /\ rollup'.state = rollup.state
      BY <1>1, <3>1 DEF Fields
    <3> QED
      BY <1>0, <3>1, <3>2, ProvesGives, ProofStays
  <2>3. CASE FindBatch \/ ProveFails \/ Send \/ RollupFails \/ Restart
    <3>1. NotRolling.pc = "idle"
      BY DEF NotRolling
    <3>2. rollup' = NotRolling \/ rollup'.pc = "state"
      <4>1. CASE FindBatch /\ FoundActions # {}
        BY <1>1, <4>1 DEF FindBatch, Fields
      <4> QED
        BY <2>3, <4>1 DEF FindBatch, ProveFails, Send, RollupFails, Restart
    <3> QED
      BY <1>2, <3>1, <3>2
  <2>4. CASE CountRolluped \/ \E k \in Len(History) .. events : FetchDkgState(k)
    BY <1>1, <1>2, <2>4 DEF CountRolluped, FetchDkgState, Fields
  <2> QED
    BY <2>1, <2>2, <2>3, <2>4
    DEF RollupNext, PassStep, RollupStep, RollUp, RefreshKeys, RefreshProcess, rollupVars, allVars
<1> QED
  BY <1>2, LogStep, TreesStep, RollupRightStep DEF RInv

-----------------------------------------------------------------------------
(* What is proved of the pass with any number of workers, together with    *)
(* the roll-up.                                                            *)
LEMMA AlwaysRInv == RollupSpec => [](IInv /\ RInv)
<1>1. RollupInit => IInv /\ RInv
  BY StartInv, StartRInv
<1>2. IInv /\ RInv /\ [RollupNext]_allVars => IInv' /\ RInv'
  <2>1. IInv => TypeOK
    BY DEF IInv
  <2> QED
    BY <2>1, StepIsNext, StepInv, RInvStep
<1> QED
  BY <1>1, <1>2, PTL DEF RollupSpec

(* What an action asks for in a legal log is what the contract admits.     *)
LEMMA LegalIsAdmitted == TypeOK /\ Legal(dkgActions) => AdmittedForKey
<1> SUFFICES ASSUME TypeOK, Legal(dkgActions), NEW i \in DOMAIN dkgActions,
                    dkgActions[i].actionEnum # "GENERATE_KEY"
             PROVE  dkgActions[i].keyId < Cardinality(Generates(dkgActions[i].committeeId, 1 .. i - 1))
  BY DEF AdmittedForKey
<1> QED
  BY LegalIs

(* Also where the server starts on the documents of earlier runs and rolls *)
(* up what it has, with any number of workers: ids have no gap, a key that *)
(* an action names has its document, no GENERATE_KEY becomes active        *)
(* without one of its own, and the active actions are a prefix.            *)
THEOREM KeysAreFoundWithRollup ==
  RollupSpec => [](KeysAreThere /\ EveryGenerateHasItsKey /\ ActiveInOrder)
<1>1. IInv /\ RInv => FInv
  BY LegalIsAdmitted DEF FInv, RInv, LogRight, IInv
<1>2. IInv /\ RInv => KeysAreThere /\ EveryGenerateHasItsKey /\ ActiveInOrder
  BY <1>1, FinalizeFinds, NoGap DEF KeysAreThere, IInv, SharedInv
<1> QED
  BY <1>2, AlwaysRInv, PTL

(* What holds of the pass with one worker stays.                           *)
LEMMA OneStep ==
  ASSUME IInv, RInv, OneWorker, OneInv, [RollupNext]_allVars
  PROVE  OneInv'
<1>1. [Next]_vars /\ Legal(dkgActions)
  BY StepIsNext DEF IInv, RInv, LogRight
<1> QED
  BY <1>1, TurnStep, CountStep, OrderStep, StatusesStep DEF OneInv

(* With one worker, as the queue has it, no document of a key is missing   *)
(* and there is one too many only where updateDkgActions was interrupted,  *)
(* ids are in the order of the actions that ask for the keys, and a status *)
(* never falls back behind the active actions, also when the server starts *)
(* on the documents of an earlier run.                                     *)
THEOREM DocumentsAreRight ==
  ASSUME OneWorker
  PROVE  RollupSpec => []DocumentsFollowActions
<1>1. RollupInit => OneInv
  BY StartInv
<1>2. IInv /\ RInv /\ OneInv /\ [RollupNext]_allVars => OneInv'
  BY OneStep
<1>3. RollupSpec => [](IInv /\ RInv /\ OneInv)
  BY <1>1, <1>2, AlwaysRInv, PTL DEF RollupSpec
<1>4. OneInv => DocumentsFollowActions
  <2>1. ASSUME StatusesRight PROVE StatusFollowsActions
    BY <2>1 DEF StatusesRight, KeyRight, StatusFollowsActions, Front
  <2> QED
    BY <2>1 DEF OneInv, KeysCounted, KeysOrdered, DocumentsFollowActions
<1> QED
  BY <1>3, <1>4, PTL

-----------------------------------------------------------------------------
(***************************************************************************)
(* What stops the roll-up.                                                 *)
(***************************************************************************)

(* Two actions stay in the way of the batches to come.                     *)
LEMMA BlockedStep ==
  ASSUME IInv, RInv, RollupNext, NEW i \in events + 1 .. rolluped,
         NEW j \in events + 1 .. rolluped, Blocked(i, j)
  PROVE  Blocked(i, j)'
<1>0. /\ Grows /\ TypeOK /\ TypeOK' /\ RollupRight /\ RollupRight' /\ ActiveInOrder
  <2>1. IInv => TypeOK
    BY DEF IInv
  <2> QED
    BY <2>1, StepIsNext, GrowStep, StepInv, RollupRightStep DEF IInv, RInv, SharedInv
<1>1. PICK e \in Nat, n \in Nat, r \in Nat :
        /\ e = events /\ n = Len(dkgActions) /\ DOMAIN dkgActions = 1 .. n
        /\ r = rolluped /\ r <= n /\ i > e /\ j > e /\ i <= r /\ j <= r /\ i \in Nat /\ j \in Nat
  <2>1. /\ events \in Nat /\ Len(dkgActions) \in Nat /\ DOMAIN dkgActions = 1 .. Len(dkgActions)
        /\ rolluped \in Nat /\ rolluped <= Len(dkgActions)
    BY <1>0 DEF TypeOK, RollupRight
  <2>2. /\ i > events /\ j > events /\ i <= rolluped /\ j <= rolluped
        /\ i \in Nat /\ j \in Nat
    BY <2>1
  <2> QED
    BY <2>1, <2>2
<1>2. /\ i \in DOMAIN dkgActions /\ j \in DOMAIN dkgActions
      /\ dkgActions'[i] = dkgActions[i] /\ dkgActions'[j] = dkgActions[j]
  BY <1>0, <1>1 DEF Grows
<1>3. rolluped' \in Nat /\ r <= rolluped'
  <2>1. \/ UNCHANGED rolluped \/ \E k \in rolluped + 1 .. Len(dkgActions) : RollUp(k)
    BY DEF RollupNext, PassStep, RollupStep, RefreshKeys, RefreshProcess, CountRolluped, FindBatch,
           FetchDkgState, Prove, ProveFails, Send, RollupFails, Restart, rollupVars
  <2> QED
    BY <1>1, <2>1 DEF RollUp
<1>4. i < j /\ (Cardinality(Generators({i, j})) = 2 \/ i \in Deprecations({i}))
  BY DEF Blocked
<1>5. (Cardinality(Generators({i, j})) = 2 \/ i \in Deprecations({i}))'
  <2>1. Deprecations({i})' = Deprecations({i})
    BY <1>2 DEF Deprecations
  <2>2. \A c : Generates(c, {i, j})' = Generates(c, {i, j})
    BY <1>2 DEF Generates
  <2>3. Generators({i, j})' = Generators({i, j})
    BY <2>2 DEF Generators
  <2> QED
    BY <1>4, <2>1, <2>3
<1>6. /\ rollup.pc \in {"idle", "find", "state", "prove", "send"} /\ DOMAIN rollup = Fields
      /\ rollup.pc = "find" => {i, j} \subseteq 1 .. rollup.numRolluped
      /\ rollup.pc \in {"state", "prove", "send"} => {i, j} \subseteq rollup.batch
  BY <1>0 DEF RollupRight, Blocked
<1>7. SUFFICES /\ {i, j} \subseteq events' + 1 .. rolluped'
               /\ rollup'.pc = "find" => {i, j} \subseteq 1 .. rollup'.numRolluped
               /\ rollup'.pc \in {"state", "prove", "send"} => {i, j} \subseteq rollup'.batch
  <2>1. rollup'.pc \in {"idle", "find", "state", "prove", "send"}
    BY <1>0 DEF RollupRight
  <2> QED
    BY <1>4, <1>5, <1>7, <2>1 DEF Blocked
<1>8. ASSUME Send PROVE i > events' /\ j > events' /\ events' \in Nat
  <2>1. PICK k \in Nat : /\ k = Cardinality(Proven(rollup.batch))
                         /\ Proven(rollup.batch) = events + 1 .. events + k
    BY <1>0, <1>8, SendIs
  <2>2. /\ events' = e + k /\ rollup.pc = "send" /\ {i, j} \subseteq rollup.batch /\ ProofRight
        /\ rollup.state = events
    BY <1>1, <1>6, <1>8, <2>1 DEF Send, RInv
  <2>3. i \in Deprecations({i})
    <3>1. CASE Cardinality(Generators({i, j})) = 2
      <4>1. PICK c \in Generators({i, j}) : TRUE
        BY <3>1, FS_EmptySet
      <4>2. PICK d \in Generators({i, j}) : d # c
        <5>1. Cardinality({c}) = 1
          BY FS_Singleton
        <5>2. Generators({i, j}) # {c}
          BY <3>1, <5>1
        <5> QED
          BY <4>1, <5>2
      <4>3. PICK x \in {i, j}, y \in {i, j} : IsGenerate(c, x) /\ IsGenerate(d, y)
        BY <4>1, <4>2 DEF Generators, Generates, IsGenerate
      <4>4. c \in Committee /\ d \in Committee
        BY <4>1, <4>2 DEF Generators
      <4>5. x \in rollup.batch /\ y \in rollup.batch
        BY <2>2, <4>3
      <4>6. c = d
        BY <2>2, <4>3, <4>4, <4>5 DEF ProofRight
      <4> QED
        BY <4>2, <4>6
    <3> QED
      BY <1>4, <3>1
  <2>4. i \notin Proven(rollup.batch)
    BY <2>3 DEF Proven, Deprecations, IsGenerate
  <2>5. i \notin e + 1 .. e + k
    BY <1>1, <2>1, <2>4
  <2> QED
    BY <1>1, <1>4, <2>2, <2>5
<1>9. {i, j} \subseteq events' + 1 .. rolluped'
  <2>1. CASE Send
    BY <1>1, <1>3, <1>8, <2>1
  <2>2. CASE ~ Send
    <3>1. UNCHANGED events
      BY <2>2, EventsStay
    <3> QED
      BY <1>1, <1>3, <3>1
  <2> QED
    BY <2>1, <2>2
<1>10. CASE UNCHANGED rollup
  BY <1>6, <1>9, <1>10
<1>11. CASE rollup' = NotRolling
  BY <1>9, <1>11 DEF NotRolling
<1>12. CASE CountRolluped
  BY <1>1, <1>6, <1>9, <1>12 DEF CountRolluped, Fields
<1>13. CASE FindBatch
  <2>1. CASE FoundActions = {}
    BY <1>11, <1>13, <2>1 DEF FindBatch
  <2>2. CASE FoundActions # {}
    <3>1. rollup' = [rollup EXCEPT !.pc = "state", !.numRolluped = 0, !.batch = FoundActions]
      BY <1>13, <2>2 DEF FindBatch
    <3>2. i \notin active /\ j \notin active
      <4>1. dkgEvents \in Nat /\ dkgEvents <= e
        BY <1>0, <1>1 DEF TypeOK
      <4>2. \A h \in active : h <= dkgEvents
        BY <1>0 DEF ActiveInOrder
      <4> QED
        BY <1>1, <4>1, <4>2
    <3>3. {i, j} \subseteq FoundActions
      BY <1>6, <1>13, <3>2 DEF FindBatch, FoundActions
    <3> QED
      BY <1>6, <1>9, <3>1, <3>3 DEF Fields
  <2> QED
    BY <2>1, <2>2
<1>14. CASE Prove \/ \E k \in Len(History) .. events : FetchDkgState(k)
  <2>1. rollup.pc \in {"state", "prove"} /\ rollup'.pc \in {"prove", "send"} /\ rollup'.batch = rollup.batch
    BY <1>6, <1>14 DEF Prove, FetchDkgState, Fields
  <2> QED
    BY <1>6, <1>9, <2>1
<1> QED
  BY <1>10, <1>11, <1>12, <1>13, <1>14
  DEF RollupNext, PassStep, RollupStep, RollUp, RefreshKeys, RefreshProcess, ProveFails, Send,
      RollupFails, Restart, rollupVars

\* A batch that is sent and that generates keys of c was proved when there were as many
\* documents of keys of c as keys, and all that the contract had reduced was active.
SendRight ==
  rollup.pc = "send" =>
    \A c \in Committee : Generates(c, rollup.batch) # {} =>
      /\ 1 .. rollup.state \subseteq active
      /\ rollup.state = events => ~ Surplus(c)

(* Before an action of the batch that is proved is all that is reduced, or *)
(* is proved before it.                                                    *)
LEMMA ReducedIsActive ==
  ASSUME TypeOK, RInv, rollup.pc = "prove", Proves, NEW g \in Proven(rollup.batch)
  PROVE  1 .. rollup.state \subseteq active
<1> SUFFICES ASSUME NEW h \in 1 .. rollup.state, h \notin active PROVE FALSE
  OBVIOUS
<1>0. RollupRight /\ TreesRight /\ LogRight
  BY DEF RInv
<1>1. PICK a \in Len(History) .. events, m \in 0 .. rolluped : rollup.batch = a + 1 .. m
  BY <1>0, BatchIs
<1>2. /\ Len(History) \in Nat /\ events \in Nat /\ rollup.state \in 0 .. events
      /\ rolluped \in Nat
  BY <1>0, HistoryAssumption DEF TypeOK, RollupRight
<1>3. g \in rollup.batch /\ Witnessed(g)
  BY DEF Proves, Proven
<1>4. h \in Reached(g) /\ g \notin Reached(g) /\ ProcessLeaves(g) \ {g} = Reached(g)
  BY <1>3 DEF Witnessed, Reached
<1>5. h \in Before(g)
  BY <1>0, <1>4 DEF ProcessLeaves, TreesRight
<1>6. h \in rollup.batch
  BY <1>5 DEF Before
<1>7. h \notin Proven(rollup.batch)
  <2>1. ProofRight
    BY <1>0, ProvesGives
  <2> QED
    BY <1>2, <2>1 DEF ProofRight
<1>8. dkgActions[h].actionEnum = "DEPRECATE_KEY"
  BY <1>6, <1>7 DEF Proven, Deprecations
<1>9. h \in 1 .. events
  BY <1>2
<1>10. h <= Len(History)
  BY <1>0, <1>8, <1>9 DEF LogRight
<1> QED
  BY <1>1, <1>2, <1>6, <1>10

(* The first step that generates a key of c is proved only if the          *)
(* documents of its keys are as many as the contract had counted.          *)
LEMMA CountIsProved ==
  ASSUME IInv, RInv, KeysCounted, rollup.pc = "prove", Proves, NEW c \in Committee,
         Generates(c, rollup.batch) # {}
  PROVE  Cardinality(KeysOf(c)) = Counted(c, rollup.state)
<1>0. TypeOK /\ RollupRight
  BY DEF IInv, RInv
<1>1. rollup.batch \subseteq Nat /\ rollup.state \in Nat
  BY <1>0, BatchIs
<1>2. PICK g \in Generates(c, rollup.batch) : \A h \in Generates(c, rollup.batch) : g <= h
  <2>1. Generates(c, rollup.batch) \subseteq Nat
    BY <1>1 DEF Generates
  <2> QED
    BY <2>1, Smallest
<1>3. /\ g \in rollup.batch /\ g \in Nat /\ g \in Proven(rollup.batch)
      /\ dkgActions[g].actionEnum = "GENERATE_KEY" /\ dkgActions[g].committeeId = c
  BY <1>1, <1>2 DEF Generates, Proven, Deprecations
<1>4. Generates(c, Before(g)) = {}
  <2>1. ASSUME NEW h \in Generates(c, Before(g)) PROVE FALSE
    <3>1. h \in Generates(c, rollup.batch) /\ h < g /\ h \in Nat
      BY <1>1 DEF Generates, Before
    <3> QED
      BY <1>2, <1>3, <3>1
  <2> QED
    BY <2>1
<1>5. Generates(c, Reached(g)) = Generates(c, 1 .. rollup.state)
  BY <1>4 DEF Generates, Reached, Proven
<1>6. PICK k \in Nat : k = Cardinality(KeysOf(c)) /\ NextKeyIds(c) = {k}
  BY KeysOfIs DEF KeysCounted
<1>7. GeneratedBy(c, Before(g)) = 0
  BY <1>4, FS_EmptySet DEF GeneratedBy
<1>8. OwnKey(g)[2] = k
  <2>1. (CHOOSE x \in FirstKeyId(c) : TRUE) = k
    BY <1>6 DEF FirstKeyId
  <2>2. OwnKey(g) = <<c, k + 0>>
    BY <1>3, <1>7, <2>1 DEF OwnKey
  <2> QED
    BY <2>2
<1>9. OwnKey(g)[2] = GeneratedBy(c, Reached(g))
  BY <1>3 DEF Proves, Presupposed
<1> QED
  BY <1>5, <1>6, <1>8, <1>9 DEF GeneratedBy, Counted

(* The documents only become more.                                         *)
LEMMA KeysMore ==
  ASSUME KeysCounted, KeysCounted', Grows, NEW c \in Committee
  PROVE  /\ Cardinality(KeysOf(c)) \in Nat /\ Cardinality(KeysOf(c))' \in Nat
         /\ Cardinality(KeysOf(c)) <= Cardinality(KeysOf(c))'
<1>1. PICK K, L : K = KeysOf(c) /\ L = KeysOf(c)'
  OBVIOUS
<1>2. K \subseteq L
  BY <1>1 DEF KeysOf, Grows
<1>3. IsFiniteSet(K) /\ IsFiniteSet(L)
  BY <1>1 DEF KeysCounted
<1>4. Cardinality(K) <= Cardinality(L) /\ Cardinality(K) \in Nat /\ Cardinality(L) \in Nat
  BY <1>2, <1>3, FS_Subset, FS_CardinalityType
<1>5. Cardinality(KeysOf(c))' = Cardinality(L)
  BY <1>1
<1> QED
  BY <1>1, <1>4, <1>5

(* The keys of the contract are counted over the reduced actions.          *)
LEMMA ChainKeysStay ==
  ASSUME TypeOK, Grows, events' = events, NEW c
  PROVE  ChainKeys(c)' = ChainKeys(c)
<1>1. \A h \in 1 .. events : dkgActions'[h] = dkgActions[h]
  BY DEF TypeOK, Grows
<1>2. Generates(c, 1 .. events)' = Generates(c, 1 .. events)
  BY <1>1 DEF Generates
<1> QED
  BY <1>2 DEF ChainKeys

(* While the contract is in the state of the proof, and all of it is       *)
(* active, no key is created.                                              *)
LEMMA NothingToCreate ==
  ASSUME IInv, OneWorker, OneInv, 1 .. events \subseteq active, [Next]_vars
  PROVE  DOMAIN keyModel' = DOMAIN keyModel
<1>0. TypeOK /\ ActiveInOrder
  BY DEF IInv, SharedInv
<1>1. PICK n \in Nat : active = 1 .. n /\ Cardinality(active) = n
  BY <1>0, ActiveIs
<1>2. ASSUME NEW w \in Worker, Create(w) PROVE FALSE
  <2>1. pc[w] \in Handling
    BY <1>2 DEF Create, Handling
  <2>2. notActiveAction[w] = n + 1 /\ notActiveAction[w] <= dkgEvents
    BY <1>1, <2>1 DEF OneInv, Turn, Front, IInv, WorkerInv, CurrentIsRight
  <2>3. dkgEvents \in Nat /\ events \in Nat /\ dkgEvents <= events
    BY <1>0 DEF TypeOK
  <2>4. n + 1 \in 1 .. events
    BY <2>2, <2>3
  <2> QED
    BY <1>1, <2>4
<1>3. ASSUME NEW w \in Worker, SaveKey(w) PROVE DOMAIN keyModel' = DOMAIN keyModel
  BY <1>3 DEF SaveKey
<1>4. UNCHANGED keyModel => DOMAIN keyModel' = DOMAIN keyModel
  OBVIOUS
<1>5. ASSUME NEW w \in Worker, Proceed(w) \/ Interrupt(w) PROVE DOMAIN keyModel' = DOMAIN keyModel
  BY <1>2, <1>3, <1>4, <1>5
  DEF Proceed, Start, FetchEvents, Find, Exists, Done, LastKey, DuplicateKey, FindKey, SaveAction,
      Interrupt, dbVars
<1>6. CASE ChainStep \/ UNCHANGED vars
  BY <1>4, <1>6 DEF ChainStep, Dispatch, Reduce, vars, dbVars
<1> QED
  BY <1>5, <1>6 DEF Next

LEMMA SendRightStep ==
  ASSUME IInv, RInv, OneWorker, OneInv, SendRight, [RollupNext]_allVars
  PROVE  SendRight'
<1>0. /\ [Next]_vars /\ Grows /\ TypeOK /\ TypeOK' /\ RollupRight /\ RollupRight'
      /\ OneInv' /\ events <= events'
  <2>1. IInv => TypeOK
    BY DEF IInv
  <2> QED
    BY <2>1, StepIsNext, GrowStep, StepInv, OneStep, RollupRightStep DEF IInv, RInv
<1>1. /\ events \in Nat /\ events' \in Nat /\ rollup.state \in Nat /\ rollup.state <= events
      /\ DOMAIN rollup = Fields
  BY <1>0 DEF TypeOK, RollupRight
<1>2. SUFFICES ASSUME rollup'.pc = "send", NEW c \in Committee, Generates(c, rollup.batch)' # {}
               PROVE  /\ 1 .. rollup'.state \subseteq active'
                      /\ rollup'.state = events' => ~ Surplus(c)'
  BY DEF SendRight
<1>3. CASE UNCHANGED rollup
  <2>1. /\ rollup.pc = "send" /\ rollup'.state = rollup.state /\ rollup'.batch = rollup.batch
        /\ rollup.batch \subseteq DOMAIN dkgActions
    BY <1>0, <1>2, <1>3, BatchIs
  <2>2. Generates(c, rollup.batch) # {}
    <3>1. \A i \in rollup.batch : dkgActions'[i] = dkgActions[i]
      BY <1>0, <2>1 DEF Grows
    <3> QED
      BY <1>2, <2>1, <3>1 DEF Generates
  <2>3. 1 .. rollup.state \subseteq active /\ (rollup.state = events => ~ Surplus(c))
    BY <2>1, <2>2 DEF SendRight
  <2>4. 1 .. rollup.state \subseteq active'
    BY <1>0, <2>3 DEF Grows
  <2>5. ASSUME rollup.state = events' PROVE ~ Surplus(c)'
    <3>1. events' = events /\ rollup.state = events
      BY <1>0, <1>1, <2>5
    <3>2. DOMAIN keyModel' = DOMAIN keyModel
      BY <1>0, <2>3, <3>1, NothingToCreate
    <3>3. KeysOf(c)' = KeysOf(c) /\ ChainKeys(c)' = ChainKeys(c)
      BY <1>0, <3>1, <3>2, ChainKeysStay DEF KeysOf
    <3> QED
      BY <2>3, <3>1, <3>3 DEF Surplus
  <2> QED
    BY <2>1, <2>4, <2>5
<1>4. CASE Prove
  <2>1. /\ rollup' = [rollup EXCEPT !.pc = "send", !.clone = NoTrees] /\ rollup.pc = "prove" /\ Proves
        /\ UNCHANGED vars
    BY <1>4 DEF Prove
  <2>2. /\ rollup'.batch = rollup.batch /\ rollup'.state = rollup.state
        /\ UNCHANGED <<dkgActions, events, active, keyModel>>
    BY <1>1, <2>1 DEF Fields, vars, chainVars, dbVars
  <2>3. Generates(c, rollup.batch) # {}
    BY <1>2, <2>2 DEF Generates
  <2>4. PICK g \in Proven(rollup.batch) : TRUE
    BY <2>3 DEF Generates, Proven, Deprecations
  <2>5. 1 .. rollup.state \subseteq active
    BY <1>0, <2>1, <2>4, ReducedIsActive
  <2>6. Cardinality(KeysOf(c)) = Counted(c, rollup.state)
    BY <2>1, <2>3, CountIsProved DEF OneInv
  <2>7. rollup.state = events => ~ Surplus(c)
    <3>1. ASSUME rollup.state = events PROVE Cardinality(KeysOf(c)) = ChainKeys(c)
      BY <2>6, <3>1 DEF ChainKeys, Counted
    <3>2. ChainKeys(c) \in Nat
      BY <1>1, CountedIs DEF ChainKeys, Counted
    <3> QED
      BY <3>1, <3>2 DEF Surplus
  <2>8. Surplus(c)' <=> Surplus(c)
    BY <2>2 DEF Surplus, KeysOf, ChainKeys, Generates
  <2> QED
    BY <2>2, <2>5, <2>7, <2>8
<1>5. rollup' = NotRolling => rollup'.pc = "idle"
  BY DEF NotRolling
<1>6. CASE FindBatch \/ CountRolluped \/ \E k \in Len(History) .. events : FetchDkgState(k)
  <2>1. rollup' = NotRolling \/ rollup'.pc \in {"state", "find", "prove"}
    BY <1>1, <1>6 DEF FindBatch, CountRolluped, FetchDkgState, Fields
  <2> QED
    BY <1>2, <1>5, <2>1
<1> QED
  BY <1>2, <1>3, <1>4, <1>5, <1>6
  DEF RollupNext, PassStep, RollupStep, RollUp, RefreshKeys, RefreshProcess, ProveFails, Send,
      RollupFails, Restart, rollupVars, allVars

(* A document too many stays one too many: a batch that would make its key *)
(* is not proved, or was proved in another state of the contract.          *)
LEMMA SurplusStep ==
  ASSUME IInv, RInv, OneWorker, OneInv, SendRight, RollupNext, NEW c \in Committee, Surplus(c)
  PROVE  Surplus(c)'
<1>0. Grows /\ TypeOK /\ TypeOK' /\ OneInv'
  <2>1. IInv => TypeOK
    BY DEF IInv
  <2> QED
    BY <2>1, StepIsNext, GrowStep, StepInv, OneStep DEF IInv
<1>1. PICK k \in Nat, l \in Nat : /\ k = Cardinality(KeysOf(c)) /\ Cardinality(KeysOf(c))' = l
                                  /\ k <= l
  BY <1>0, KeysMore DEF OneInv
<1>2. k > ChainKeys(c)
  BY <1>1 DEF Surplus
<1>3. ChainKeys(c)' = ChainKeys(c)
  <2>1. CASE ~ Send
    BY <1>0, <2>1, EventsStay, ChainKeysStay
  <2>2. CASE Send
    <3>1. PICK n \in Nat : /\ n = Cardinality(Proven(rollup.batch))
                           /\ Proven(rollup.batch) = events + 1 .. events + n
      BY <1>0, <2>2, SendIs
    <3>2. /\ events' = events + n /\ UNCHANGED dkgActions /\ events \in Nat
          /\ rollup.pc = "send" /\ rollup.state = events
      BY <1>0, <2>2, <3>1 DEF Send, TypeOK
    <3>3. Generates(c, rollup.batch) = {}
      BY <3>2 DEF SendRight
    <3>4. Generates(c, Proven(rollup.batch)) = {}
      BY <3>3 DEF Generates, Proven
    <3>5. 1 .. events + n = (1 .. events) \cup Proven(rollup.batch)
      <4>1. PICK e \in Nat : e = events
        BY <3>2
      <4>2. 1 .. e + n = (1 .. e) \cup (e + 1 .. e + n)
        OBVIOUS
      <4> QED
        BY <3>1, <4>1, <4>2
    <3>6. Generates(c, 1 .. events + n) = Generates(c, 1 .. events)
      BY <3>4, <3>5 DEF Generates
    <3>7. Generates(c, 1 .. events)' = Generates(c, 1 .. events)
      BY <3>2, <3>6 DEF Generates
    <3> QED
      BY <3>7 DEF ChainKeys
  <2> QED
    BY <2>1, <2>2
<1>4. ChainKeys(c) \in Nat
  BY <1>0, CountedIs DEF ChainKeys, Counted, TypeOK
<1>5. l > ChainKeys(c)
  BY <1>1, <1>2, <1>4
<1> QED
  BY <1>1, <1>3, <1>5 DEF Surplus

(* What stops the roll-up of DKG actions stops it for ever, with one       *)
(* worker: two actions that generate keys of two committees, an action     *)
(* after a DEPRECATE_KEY, or one document of a key too many.               *)
THEOREM StoppedStaysStopped ==
  ASSUME OneWorker
  PROVE  RollupSpec => StoppedForEver
<1>1. RollupInit => OneInv /\ SendRight
  <2>1. RollupInit => rollup.pc = "idle"
    BY DEF RollupInit, NotRolling
  <2> QED
    BY <2>1, StartInv DEF SendRight
<1>2. IInv /\ RInv /\ OneInv /\ SendRight /\ [RollupNext]_allVars => OneInv' /\ SendRight'
  BY OneStep, SendRightStep
<1>3. RollupSpec => [](IInv /\ RInv /\ OneInv /\ SendRight)
  BY <1>1, <1>2, AlwaysRInv, PTL DEF RollupSpec
<1>4. IInv /\ RInv /\ OneInv /\ SendRight /\ [RollupNext]_allVars =>
        [/\ \A i, j \in events + 1 .. rolluped : Blocked(i, j) => Blocked(i, j)'
         /\ \A c \in Committee : Surplus(c) => Surplus(c)']_allVars
  BY BlockedStep, SurplusStep
<1> QED
  BY <1>3, <1>4, PTL DEF RollupSpec, StoppedForEver

-----------------------------------------------------------------------------
(***************************************************************************)
(* What is proved.                                                         *)
(***************************************************************************)

\* The documents are those of what the contract has reduced.
DocumentsOfNow ==
  /\ active = 1 .. events
  /\ \A key : key \in DOMAIN keyModel <=>
       key \in Committee \X Nat /\ key[2] < Counted(key[1], events)
  /\ \A key \in DOMAIN keyModel : keyModel[key] = StatusIn(1 .. events, key)
  /\ \A c \in Committee : /\ Cardinality(KeysOf(c)) = Counted(c, events)
                          /\ NextKeyIds(c) = {Counted(c, events)}

LEMMA FreshIsNow ==
  ASSUME IInv, RInv, OneInv, CloneIsFresh, interrupted = 0
  PROVE  DocumentsOfNow
<1>0. TypeOK /\ ActiveInOrder /\ TreesRight
  BY DEF IInv, SharedInv, RInv
<1>1. PICK e \in Nat, d \in Nat : e = events /\ d = dkgEvents /\ d <= e
  BY <1>0 DEF TypeOK
<1>2. active = 1 .. e
  <2>1. 1 .. e \subseteq active
    BY <1>0, <1>1 DEF CloneIsFresh, TreesRight
  <2>2. active \subseteq 1 .. e
    <3>1. active \subseteq Nat \ {0} /\ \A i \in active : i <= d
      BY <1>0, <1>1, Ids DEF TypeOK, ActiveInOrder
    <3> QED
      BY <1>1, <3>1
  <2> QED
    BY <2>1, <2>2
<1>3. ASSUME NEW w \in Worker PROVE pc[w] # "saveAction"
  <2>1. SUFFICES ASSUME pc[w] = "saveAction" PROVE FALSE
    OBVIOUS
  <2>2. pc[w] \in Handling
    BY <2>1 DEF Handling
  <2>3. notActiveAction[w] = Front /\ notActiveAction[w] <= d
    BY <1>1, <2>2 DEF OneInv, Turn, IInv, WorkerInv, CurrentIsRight
  <2>4. Front = e + 1
    BY <1>2, IntervalCard DEF Front
  <2> QED
    BY <1>1, <2>3, <2>4
<1>4. ASSUME NEW c \in Committee
      PROVE  /\ Cardinality(KeysOf(c)) = Counted(c, e)
             /\ KeysOf(c) = IdsOf(c, Counted(c, e))
             /\ NextKeyIds(c) = {Counted(c, e)}
  <2>1. Creating(c) = {}
    BY <1>3 DEF Creating
  <2>2. Cardinality(Creating(c)) = 0
    BY <2>1, FS_EmptySet
  <2>3. Cardinality(KeysOf(c)) = Cardinality(Generates(c, active)) + Cardinality(Creating(c))
    BY DEF OneInv, KeysCounted, SurplusKeysAreInterruptions
  <2>4. Cardinality(Generates(c, active)) = Counted(c, e) /\ Counted(c, e) \in Nat
    BY <1>2, CountedIs DEF Counted
  <2>5. Cardinality(KeysOf(c)) = Counted(c, e)
    BY <2>2, <2>3, <2>4
  <2>6. IsFiniteSet(KeysOf(c))
    BY DEF OneInv, KeysCounted
  <2> QED
    BY <2>5, <2>6, KeysOfIs
<1>5. ASSUME NEW key
      PROVE  key \in DOMAIN keyModel <=> key \in Committee \X Nat /\ key[2] < Counted(key[1], e)
  <2>1. ASSUME key \in DOMAIN keyModel
        PROVE  key \in Committee \X Nat /\ key[2] < Counted(key[1], e)
    <3>1. key \in Committee \X Nat
      BY <1>0, <2>1 DEF TypeOK, KeyIndex
    <3>2. PICK c \in Committee, k \in Nat : key[1] = c /\ key[2] = k
      BY <3>1
    <3>3. key \in IdsOf(c, Counted(c, e))
      BY <1>4, <2>1, <3>2 DEF KeysOf
    <3>4. PICK h \in 0 .. Counted(c, e) - 1 : key = <<c, h>>
      BY <3>3 DEF IdsOf
    <3>5. h < Counted(c, e) /\ key[2] = h
      BY <3>4, CountedIs, <1>1
    <3> QED
      BY <3>1, <3>2, <3>5
  <2>2. ASSUME key \in Committee \X Nat, key[2] < Counted(key[1], e)
        PROVE  key \in DOMAIN keyModel
    <3>1. PICK c \in Committee, k \in Nat : key = <<c, k>> /\ key[1] = c /\ key[2] = k
      BY <2>2
    <3>2. k \in 0 .. Counted(c, e) - 1
      BY <1>1, <2>2, <3>1, CountedIs
    <3>3. key \in KeysOf(c)
      BY <1>4, <3>1, <3>2 DEF IdsOf
    <3> QED
      BY <3>3 DEF KeysOf
  <2> QED
    BY <2>1, <2>2
<1>6. ASSUME NEW key \in DOMAIN keyModel PROVE keyModel[key] = StatusIn(1 .. e, key)
  <2>1. KeyRight(key)
    BY DEF OneInv, StatusesRight
  <2>2. \A w \in Worker : ~ Written(w, key)
    BY <1>3 DEF Written
  <2> QED
    BY <1>2, <2>1, <2>2 DEF KeyRight
<1> QED
  BY <1>1, <1>2, <1>4, <1>5, <1>6 DEF DocumentsOfNow

\* A batch of the next actions, without any DEPRECATE_KEY, on fresh trees.
PlainBatch ==
  /\ CloneIsFresh
  /\ \E m \in Nat : m <= Len(dkgActions) /\ rollup.batch = events + 1 .. m
  /\ Deprecations(rollup.batch) = {}

(* What a step of a plain batch stands on: all that is before it.          *)
LEMMA PlainReached ==
  ASSUME TypeOK, PlainBatch, NEW i \in rollup.batch
  PROVE  /\ i \in Nat \ {0} /\ i > events /\ i \in DOMAIN dkgActions
         /\ Before(i) = events + 1 .. i - 1 /\ Proven(Before(i)) = Before(i)
         /\ Proven(rollup.batch) = rollup.batch
         /\ Reached(i) = 1 .. i - 1
         /\ \A j \in 1 .. i - 1 : j > events => j \in rollup.batch
<1>1. PICK e \in Nat, n \in Nat : e = events /\ n = Len(dkgActions) /\ DOMAIN dkgActions = 1 .. n
  <2>1. events \in Nat /\ Len(dkgActions) \in Nat /\ DOMAIN dkgActions = 1 .. Len(dkgActions)
    BY DEF TypeOK
  <2> QED
    BY <2>1
<1>2. PICK m \in Nat : m <= n /\ rollup.batch = e + 1 .. m
  BY <1>1 DEF PlainBatch
<1>3. i \in Nat \ {0} /\ i > e /\ i \in 1 .. n /\ i <= m
  BY <1>2
<1>4. Before(i) = e + 1 .. i - 1
  BY <1>2, <1>3 DEF Before
<1>5. Before(i) \subseteq rollup.batch
  BY DEF Before
<1>6. Proven(Before(i)) = Before(i) /\ Proven(rollup.batch) = rollup.batch
  BY <1>5 DEF Proven, Deprecations, PlainBatch
<1>7. rollup.state = e
  BY <1>1 DEF PlainBatch, CloneIsFresh
<1>8. 1 .. i - 1 = (1 .. e) \cup (e + 1 .. i - 1)
  BY <1>3
<1>9. Reached(i) = 1 .. i - 1
  BY <1>4, <1>6, <1>7, <1>8 DEF Reached
<1> QED
  BY <1>1, <1>2, <1>3, <1>4, <1>6, <1>9

(* Keys are counted part by part.                                          *)
LEMMA CountedParts ==
  ASSUME NEW c, NEW e \in Nat, NEW n \in Nat, e <= n
  PROVE  /\ GeneratedBy(c, e + 1 .. n) \in Nat
         /\ Counted(c, n) = Counted(c, e) + GeneratedBy(c, e + 1 .. n)
<1>1. PICK S, T, U : S = Generates(c, 1 .. e) /\ T = Generates(c, e + 1 .. n) /\ U = Generates(c, 1 .. n)
  OBVIOUS
<1>2. U = S \cup T /\ S \cap T = {} /\ T \subseteq 1 .. n
  BY <1>1 DEF Generates
<1>3. IsFiniteSet(S) /\ Cardinality(S) \in Nat
  BY <1>1, CountedIs DEF Counted
<1>4. IsFiniteSet(T) /\ Cardinality(T) \in Nat
  BY <1>2, BoundedIs
<1>5. Cardinality(U) = Cardinality(S) + Cardinality(T) - Cardinality({})
  BY <1>2, <1>3, <1>4, FS_Union
<1>6. Cardinality({}) = 0
  BY FS_EmptySet
<1> QED
  BY <1>1, <1>3, <1>4, <1>5, <1>6 DEF Counted, GeneratedBy

(* The key of an action of a plain batch is the one the contract gives it. *)
LEMMA PlainKeyOf ==
  ASSUME TypeOK, PlainBatch, DocumentsOfNow, NEW i \in rollup.batch,
         NEW c, c = dkgActions[i].committeeId
  PROVE  /\ c \in Committee
         /\ IsGenerate(c, i) => KeyOf(i) = <<c, Counted(c, i - 1)>> /\ OwnKey(i) = KeyOf(i)
         /\ ~ IsGenerate(c, i) => KeyOf(i) = <<c, dkgActions[i].keyId>>
<1>1. /\ i \in Nat \ {0} /\ i > events /\ i \in DOMAIN dkgActions /\ Before(i) = events + 1 .. i - 1
  BY PlainReached
<1>2. c \in Committee
  BY <1>1, ActionIs DEF DkgAction
<1>3. PICK e \in Nat, h \in Nat : e = events /\ h = i - 1 /\ e <= h
  BY <1>1 DEF TypeOK
<1>4. (CHOOSE n \in FirstKeyId(c) : TRUE) = Counted(c, e)
  BY <1>2, <1>3 DEF DocumentsOfNow, FirstKeyId
<1>5. OwnKey(i) = <<c, Counted(c, e) + GeneratedBy(c, e + 1 .. h)>>
  BY <1>1, <1>3, <1>4 DEF OwnKey
<1>6. OwnKey(i) = <<c, Counted(c, i - 1)>>
  BY <1>3, <1>5, CountedParts
<1> QED
  BY <1>2, <1>6 DEF KeyOf, IsGenerate

(* The last action that concerns a key is what makes its status.           *)
LEMMA LastMakesStatus ==
  ASSUME TypeOK, Legal(dkgActions), PlainBatch, DocumentsOfNow, NEW i \in rollup.batch,
         NEW j \in Before(i), NEW c \in Committee, NEW k \in Nat, KeyOf(j) = <<c, k>>,
         \A h \in Before(i) : KeyOf(h) = <<c, k>> => h <= j
  PROVE  StatusAfter(dkgActions[j].actionEnum) = StatusIn(1 .. i - 1, <<c, k>>)
<1>1. /\ i \in Nat \ {0} /\ i > events /\ i \in DOMAIN dkgActions /\ Before(i) = events + 1 .. i - 1
  BY PlainReached
<1>2. j \in rollup.batch
  BY DEF Before
<1>3. j \in Nat \ {0} /\ j > events /\ j \in DOMAIN dkgActions /\ j <= i - 1
  BY <1>1, <1>2, PlainReached DEF TypeOK
<1>4. PICK d \in Committee : d = dkgActions[j].committeeId
  BY <1>2, PlainKeyOf
<1>5. 1 .. i - 1 \subseteq DOMAIN dkgActions
  <2>1. DOMAIN dkgActions = 1 .. Len(dkgActions) /\ Len(dkgActions) \in Nat
    BY DEF TypeOK
  <2> QED
    BY <1>1, <2>1
<1>6. ASSUME NEW h \in 1 .. i - 1, h > j
      PROVE  \/ dkgActions[h].actionEnum = "GENERATE_KEY"
             \/ dkgActions[h].committeeId # c \/ dkgActions[h].keyId # k
  <2>1. SUFFICES ASSUME dkgActions[h].actionEnum # "GENERATE_KEY", dkgActions[h].committeeId = c,
                        dkgActions[h].keyId = k
                 PROVE  FALSE
    OBVIOUS
  <2>2. h > events /\ h \in Nat
    BY <1>1, <1>3, <1>6 DEF TypeOK
  <2>3. h \in Before(i) /\ h \in rollup.batch
    <3>1. h \in rollup.batch
      BY <2>2, PlainReached
    <3> QED
      BY <1>1, <2>2, <3>1 DEF Before
  <2>4. KeyOf(h) = <<c, k>>
    BY <2>1 DEF KeyOf
  <2> QED
    BY <1>3, <1>6, <2>2, <2>3, <2>4
<1>7. CASE IsGenerate(d, j)
  <2>1. <<c, k>> = <<d, Counted(d, j - 1)>>
    BY <1>2, <1>4, <1>7, PlainKeyOf
  <2>2. c = d /\ k = Counted(c, j - 1)
    BY <2>1
  <2>3. PICK n \in Nat : n = j - 1 /\ j = n + 1
    BY <1>3
  <2>4. 1 .. n \subseteq 1 .. i - 1
    BY <1>1, <1>3, <2>3
  <2>5. 1 .. n \subseteq DOMAIN dkgActions
    BY <1>5, <2>4
  <2>6. StatusIn(1 .. n, <<c, k>>) = "ROUND_1_CONTRIBUTION"
    <3>1. k >= Cardinality(Generates(c, 1 .. n))
      BY <2>2, <2>3 DEF Counted
    <3> QED
      BY <2>5, <3>1, StatusOfNew
  <2>7. \A h \in (1 .. i - 1 \ 1 .. n) \cap DOMAIN dkgActions :
           \/ dkgActions[h].actionEnum = "GENERATE_KEY"
           \/ dkgActions[h].committeeId # c \/ dkgActions[h].keyId # k
    <3>1. ASSUME NEW h \in 1 .. i - 1, h \notin 1 .. n PROVE h = j \/ h > j
      BY <1>1, <1>3, <2>3, <3>1
    <3>2. dkgActions[j].actionEnum = "GENERATE_KEY"
      BY <1>7 DEF IsGenerate
    <3> QED
      BY <1>6, <3>1, <3>2
  <2>8. StatusIn(1 .. i - 1, <<c, k>>) = StatusIn(1 .. n, <<c, k>>)
    <3>1. PICK I, J : I = 1 .. i - 1 /\ J = 1 .. n
      OBVIOUS
    <3>2. /\ J \subseteq I
          /\ \A h \in (I \ J) \cap DOMAIN dkgActions :
               \/ dkgActions[h].actionEnum = "GENERATE_KEY"
               \/ dkgActions[h].committeeId # c \/ dkgActions[h].keyId # k
      BY <2>4, <2>7, <3>1
    <3>3. StatusIn(I, <<c, k>>) = StatusIn(J, <<c, k>>)
      BY <3>2, StatusOther
    <3> QED
      BY <3>1, <3>3
  <2> QED
    BY <1>7, <2>6, <2>8 DEF StatusAfter, IsGenerate
<1>8. CASE ~ IsGenerate(d, j)
  <2>1. <<c, k>> = <<d, dkgActions[j].keyId>>
    BY <1>2, <1>4, <1>8, PlainKeyOf
  <2>2. dkgActions[j].committeeId = c /\ dkgActions[j].keyId = k
        /\ dkgActions[j].actionEnum # "GENERATE_KEY"
    BY <1>4, <1>8, <2>1 DEF IsGenerate
  <2>3. StatusIn(1 .. j, <<c, k>>) = StatusAfter(dkgActions[j].actionEnum)
    BY <1>3, <2>2, StatusStep
  <2>4. 1 .. j \subseteq 1 .. i - 1
    BY <1>1, <1>3
  <2>5. \A h \in (1 .. i - 1 \ 1 .. j) \cap DOMAIN dkgActions :
           \/ dkgActions[h].actionEnum = "GENERATE_KEY"
           \/ dkgActions[h].committeeId # c \/ dkgActions[h].keyId # k
    <3>1. ASSUME NEW h \in 1 .. i - 1, h \notin 1 .. j PROVE h > j
      BY <1>1, <1>3, <3>1
    <3> QED
      BY <1>6, <3>1
  <2>6. StatusIn(1 .. i - 1, <<c, k>>) = StatusIn(1 .. j, <<c, k>>)
    <3>1. PICK I, J : I = 1 .. i - 1 /\ J = 1 .. j
      OBVIOUS
    <3>2. /\ J \subseteq I
          /\ \A h \in (I \ J) \cap DOMAIN dkgActions :
               \/ dkgActions[h].actionEnum = "GENERATE_KEY"
               \/ dkgActions[h].committeeId # c \/ dkgActions[h].keyId # k
      BY <2>4, <2>5, <3>1
    <3>3. StatusIn(I, <<c, k>>) = StatusIn(J, <<c, k>>)
      BY <3>2, StatusOther
    <3> QED
      BY <3>1, <3>3
  <2> QED
    BY <2>3, <2>6
<1> QED
  BY <1>7, <1>8

(* The keys of the clone are those the contract has before step i.         *)
LEMMA PlainKeys ==
  ASSUME TypeOK, Legal(dkgActions), PlainBatch, DocumentsOfNow, NEW i \in rollup.batch,
         NEW c \in Committee, NEW k \in Nat
  PROVE  <<c, k>> \in DOMAIN keyModel \cup {KeyOf(j) : j \in Before(i)} <=> k < Counted(c, i - 1)
<1>1. /\ i \in Nat \ {0} /\ i > events /\ Before(i) = events + 1 .. i - 1
      /\ events \in Nat /\ i - 1 \in Nat /\ events <= i - 1
  BY PlainReached DEF TypeOK
<1>2. Counted(c, i - 1) \in Nat /\ Counted(c, events) \in Nat /\ Counted(c, events) <= Counted(c, i - 1)
  BY <1>1, CountedIs, GeneratesGrow DEF Counted
<1>3. <<c, k>> \in DOMAIN keyModel <=> k < Counted(c, events)
  BY DEF DocumentsOfNow
<1>4. ASSUME NEW j \in Before(i), KeyOf(j) = <<c, k>> PROVE k < Counted(c, i - 1)
  <2>1. j \in rollup.batch
    BY DEF Before
  <2>2. j \in Nat \ {0} /\ j <= i - 1 /\ j \in DOMAIN dkgActions
    BY <1>1, <2>1, PlainReached
  <2>3. PICK d \in Committee : d = dkgActions[j].committeeId
    BY <2>1, PlainKeyOf
  <2>4. CASE IsGenerate(d, j)
    <3>1. <<c, k>> = <<d, Counted(d, j - 1)>>
      BY <1>4, <2>1, <2>3, <2>4, PlainKeyOf
    <3>2. Counted(d, j - 1) < Counted(d, i - 1)
      BY <1>1, <2>2, <2>4, CountedLess
    <3> QED
      BY <3>1, <3>2
  <2>5. CASE ~ IsGenerate(d, j)
    <3>1. <<c, k>> = <<d, dkgActions[j].keyId>>
      BY <1>4, <2>1, <2>3, <2>5, PlainKeyOf
    <3>2. dkgActions[j].committeeId = c /\ dkgActions[j].keyId = k
          /\ dkgActions[j].actionEnum # "GENERATE_KEY"
      BY <2>3, <2>5, <3>1 DEF IsGenerate
    <3>3. k < Counted(c, j - 1)
      BY <2>2, <3>2, LegalIs DEF Counted
    <3>4. j - 1 \in Nat /\ j - 1 <= i - 1
      BY <1>1, <2>2
    <3>5. Counted(c, j - 1) \in Nat /\ Counted(c, j - 1) <= Counted(c, i - 1)
      BY <1>1, <3>4, CountedIs, GeneratesGrow DEF Counted
    <3> QED
      BY <1>2, <3>3, <3>5
  <2> QED
    BY <2>4, <2>5
<1>5. ASSUME k < Counted(c, i - 1), ~ (k < Counted(c, events))
      PROVE  \E j \in Before(i) : KeyOf(j) = <<c, k>>
  <2>1. PICK j \in Generates(c, 1 .. i - 1) : Counted(c, j - 1) = k
    BY <1>1, <1>5, NthGenerate
  <2>2. j \in 1 .. i - 1 /\ IsGenerate(c, j) /\ j \in Nat \ {0}
    BY <1>1, <2>1 DEF Generates, IsGenerate
  <2>3. j > events
    <3>1. CASE j <= events
      <4>1. Counted(c, j - 1) < Counted(c, events)
        BY <1>1, <2>2, <3>1, CountedLess
      <4> QED
        BY <1>5, <2>1, <4>1
    <3> QED
      BY <1>1, <2>2, <3>1
  <2>4. j \in rollup.batch /\ j \in Before(i)
    <3>1. j \in rollup.batch
      BY <2>2, <2>3, PlainReached
    <3> QED
      BY <1>1, <2>2, <3>1 DEF Before
  <2>5. c = dkgActions[j].committeeId
    BY <2>2 DEF IsGenerate
  <2>6. KeyOf(j) = <<c, k>>
    BY <2>1, <2>2, <2>4, <2>5, PlainKeyOf
  <2> QED
    BY <2>4, <2>6
<1>6. k < Counted(c, events) => k < Counted(c, i - 1)
  BY <1>2
<1> QED
  BY <1>3, <1>4, <1>5, <1>6

(* The clone of the status leaves is the contract's before step i.         *)
LEMMA PlainStatusLeaves ==
  ASSUME TypeOK, LogRight, PlainBatch, DocumentsOfNow, NEW i \in rollup.batch
  PROVE  StatusLeaves(i) = Statuses(1 .. i - 1)
<1>0. Legal(dkgActions) /\ Len(dkgActions) <= MaxActions /\ MaxActions \in Nat
  BY KeysAssumption DEF LogRight
<1>1. /\ i \in Nat \ {0} /\ i > events /\ i \in DOMAIN dkgActions /\ Before(i) = events + 1 .. i - 1
      /\ Proven(Before(i)) = Before(i)
  BY PlainReached
<1>2. /\ Len(dkgActions) \in Nat /\ DOMAIN dkgActions = 1 .. Len(dkgActions) /\ events \in Nat
      /\ i - 1 \in Nat /\ i - 1 < Len(dkgActions)
  BY <1>1 DEF TypeOK
<1> DEFINE W == Proven(Before(i))
           D == DOMAIN rollup.clone.status \cup {KeyOf(j) : j \in W}
<1>4. rollup.clone.status = keyModel
  BY DEF PlainBatch, CloneIsFresh
<1>5. StatusLeaves(i) = [k \in D |->
         IF \E j \in W : KeyOf(j) = k
         THEN StatusAfter(dkgActions[CHOOSE j \in W :
                KeyOf(j) = k /\ \A h \in W : KeyOf(h) = k => h <= j].actionEnum)
         ELSE rollup.clone.status[k]]
  BY DEF StatusLeaves
<1>3. W = Before(i) /\ D = DOMAIN keyModel \cup {KeyOf(j) : j \in Before(i)}
  BY <1>1, <1>4
<1> HIDE DEF W, D
<1>6. ASSUME NEW key
      PROVE  key \in D <=> key \in Committee \X (0 .. MaxActions) /\ key[2] < Counted(key[1], i - 1)
  <2>1. ASSUME key \in D PROVE key \in Committee \X Nat
    <3>1. CASE key \in DOMAIN keyModel
      BY <3>1 DEF TypeOK, KeyIndex
    <3>2. ASSUME NEW j \in W, key = KeyOf(j) PROVE key \in Committee \X Nat
      <4>1. j \in rollup.batch
        BY <1>3, <3>2 DEF Before
      <4>2. j \in Nat \ {0} /\ j \in DOMAIN dkgActions
        BY <4>1, PlainReached
      <4>3. dkgActions[j].keyId \in Nat /\ Counted(dkgActions[j].committeeId, j - 1) \in Nat
        BY <4>2, ActionIs, CountedIs DEF DkgAction
      <4> QED
        BY <3>2, <4>1, <4>3, PlainKeyOf
    <3> QED
      BY <1>3, <2>1, <3>1, <3>2
  <2>2. ASSUME NEW c \in Committee, NEW k \in Nat, key = <<c, k>>
        PROVE  key \in D <=> key \in Committee \X (0 .. MaxActions) /\ key[2] < Counted(key[1], i - 1)
    <3>1. key[1] = c /\ key[2] = k
      BY <2>2
    <3>2. key \in D <=> k < Counted(c, i - 1)
      BY <1>0, <1>3, <2>2, PlainKeys
    <3>3. Counted(c, i - 1) \in Nat /\ Counted(c, i - 1) <= i - 1
      BY <1>2, CountedIs
    <3>4. k < Counted(c, i - 1) => k \in 0 .. MaxActions
      BY <1>0, <1>2, <3>3
    <3> QED
      BY <2>2, <3>1, <3>2, <3>4
  <2>3. key \in Committee \X (0 .. MaxActions) => key \in Committee \X Nat
    BY <1>0
  <2>4. key \in Committee \X Nat => \E c \in Committee, k \in Nat : key = <<c, k>>
    OBVIOUS
  <2> QED
    BY <2>1, <2>2, <2>3, <2>4
<1>7. D = {k \in Committee \X (0 .. MaxActions) : k[2] < GeneratedBy(k[1], 1 .. i - 1)}
  <2>1. \A c : GeneratedBy(c, 1 .. i - 1) = Counted(c, i - 1)
    BY DEF GeneratedBy, Counted
  <2> QED
    BY <1>6, <2>1
<1>8. Statuses(1 .. i - 1) = [k \in D |-> StatusIn(1 .. i - 1, k)]
  BY <1>7 DEF Statuses
<1>9. ASSUME NEW key \in D
      PROVE  StatusIn(1 .. i - 1, key) =
               IF \E j \in W : KeyOf(j) = key
               THEN StatusAfter(dkgActions[CHOOSE j \in W :
                      KeyOf(j) = key /\ \A h \in W : KeyOf(h) = key => h <= j].actionEnum)
               ELSE rollup.clone.status[key]
  <2>1. PICK c \in Committee, k \in Nat : key = <<c, k>>
    BY <1>0, <1>6
  <2>2. CASE \E j \in W : KeyOf(j) = key
    <3> DEFINE S == {j \in W : KeyOf(j) = key}
               last == CHOOSE j \in W : KeyOf(j) = key /\ \A h \in W : KeyOf(h) = key => h <= j
    <3>1. S \subseteq 1 .. i - 1 /\ S # {}
      BY <1>1, <1>2, <1>3, <2>2
    <3>2. \E j \in S : \A h \in S : h <= j
      <4> HIDE DEF S
      <4> QED
        BY <1>2, <3>1, Biggest
    <3>3. \E j \in W : KeyOf(j) = key /\ \A h \in W : KeyOf(h) = key => h <= j
      BY <3>2
    <3>4. last \in W /\ KeyOf(last) = key /\ \A h \in W : KeyOf(h) = key => h <= last
      <4> HIDE DEF S
      <4> QED
        BY <3>3
    <3> HIDE DEF last, S
    <3>5. StatusAfter(dkgActions[last].actionEnum) = StatusIn(1 .. i - 1, key)
      BY <1>0, <1>3, <2>1, <3>4, LastMakesStatus
    <3> QED
      BY <2>2, <3>5 DEF last
  <2>3. CASE ~ \E j \in W : KeyOf(j) = key
    <3>1. key \in DOMAIN keyModel /\ keyModel[key] = StatusIn(1 .. events, key)
      BY <1>3, <2>3 DEF DocumentsOfNow
    <3>2. 1 .. events \subseteq 1 .. i - 1
      BY <1>1, <1>2
    <3>3. \A h \in (1 .. i - 1 \ 1 .. events) \cap DOMAIN dkgActions :
             \/ dkgActions[h].actionEnum = "GENERATE_KEY"
             \/ dkgActions[h].committeeId # c \/ dkgActions[h].keyId # k
      <4>1. SUFFICES ASSUME NEW h \in 1 .. i - 1, h \notin 1 .. events,
                            dkgActions[h].actionEnum # "GENERATE_KEY",
                            dkgActions[h].committeeId = c, dkgActions[h].keyId = k
                     PROVE  FALSE
        OBVIOUS
      <4>2. h > events /\ h \in W
        BY <1>1, <1>2, <1>3, <4>1
      <4>3. KeyOf(h) = key
        BY <2>1, <4>1 DEF KeyOf
      <4> QED
        BY <2>3, <4>2, <4>3
    <3>4. PICK I, J : I = 1 .. i - 1 /\ J = 1 .. events
      OBVIOUS
    <3>5. StatusIn(I, <<c, k>>) = StatusIn(J, <<c, k>>)
      <4>1. /\ J \subseteq I
            /\ \A h \in (I \ J) \cap DOMAIN dkgActions :
                 \/ dkgActions[h].actionEnum = "GENERATE_KEY"
                 \/ dkgActions[h].committeeId # c \/ dkgActions[h].keyId # k
        BY <3>2, <3>3, <3>4
      <4> QED
        BY <4>1, StatusOther
    <3> QED
      BY <1>4, <2>1, <2>3, <3>1, <3>4, <3>5
  <2> QED
    BY <2>2, <2>3
<1> QED
  BY <1>5, <1>8, <1>9

(* A step of a plain batch is proved.                                      *)
LEMMA PlainStep ==
  ASSUME TypeOK, LogRight, PlainBatch, DocumentsOfNow, NEW i \in rollup.batch,
         \A j \in rollup.batch : \A c, d \in Committee : IsGenerate(c, i) /\ IsGenerate(d, j) => c = d
  PROVE  Presupposed(i) /\ Witnessed(i)
<1>1. /\ i \in Nat \ {0} /\ i > events /\ i \in DOMAIN dkgActions /\ Before(i) = events + 1 .. i - 1
      /\ Reached(i) = 1 .. i - 1 /\ events \in Nat
  BY PlainReached DEF TypeOK
<1>2. PICK c : c = dkgActions[i].committeeId
  OBVIOUS
<1>3. PICK n \in Nat, e \in Nat : n = i - 1 /\ i = n + 1 /\ e = events /\ e <= n
  BY <1>1
<1>4. c \in Committee
  BY <1>2, PlainKeyOf
<1>5. Presupposed(i)
  <2>1. CASE IsGenerate(c, i)
    <3>1. OwnKey(i) = <<c, Counted(c, n)>>
      BY <1>2, <1>3, <2>1, PlainKeyOf
    <3>2. OwnKey(i)[2] = Counted(c, n)
      BY <3>1
    <3> QED
      BY <1>1, <1>2, <1>3, <2>1, <3>2 DEF Presupposed, IsGenerate, GeneratedBy, Counted
  <2>2. CASE ~ IsGenerate(c, i)
    <3>1. PICK k : k = dkgActions[i].keyId
      OBVIOUS
    <3>2. KeyOf(i) = <<c, k>> /\ KeyOf(i)[1] = c /\ KeyOf(i)[2] = k
      BY <1>2, <2>2, <3>1, PlainKeyOf
    <3>3. dkgActions[i].actionEnum # "GENERATE_KEY" /\ Legal(dkgActions)
      BY <1>2, <2>2 DEF IsGenerate, LogRight
    <3>4. k < Counted(c, n)
      BY <1>1, <1>2, <1>3, <3>1, <3>3, LegalIs DEF Counted
    <3>5. StatusIn(1 .. i, <<c, k>>) # StatusIn(1 .. i - 1, <<c, k>>)
      BY <1>1, <1>2, <3>1, <3>3, StatusStep
    <3>6. (1 .. i - 1) \cup {i} = 1 .. i
      BY <1>1
    <3>7. StatusIn(Reached(i) \cup {i}, KeyOf(i)) # StatusIn(Reached(i), KeyOf(i))
      BY <1>1, <3>2, <3>5, <3>6
    <3> QED
      BY <1>1, <1>3, <3>2, <3>3, <3>4, <3>7 DEF Presupposed, GeneratedBy, Counted
  <2> QED
    BY <2>1, <2>2
<1>6. i \notin Reached(i)
  BY <1>1
<1>7. ProcessLeaves(i) \ {i} = Reached(i)
  <2>1. rollup.clone.process = 1 .. e
    BY <1>3 DEF PlainBatch, CloneIsFresh
  <2>2. ProcessLeaves(i) = (1 .. e) \cup (e + 1 .. n)
    BY <1>1, <1>3, <2>1 DEF ProcessLeaves
  <2> QED
    BY <1>1, <1>3, <2>2
<1>8. StatusLeaves(i) = Statuses(Reached(i))
  BY <1>1, PlainStatusLeaves
<1>9. ASSUME dkgActions[i].actionEnum = "GENERATE_KEY", NEW d \in Committee \ {c}
      PROVE  CounterLeaf(d, i) = GeneratedBy(d, Reached(i))
  <2>1. Generates(d, Before(i)) = {}
    <3>1. ASSUME NEW j \in Generates(d, Before(i)) PROVE FALSE
      <4>1. j \in rollup.batch /\ IsGenerate(d, j)
        BY DEF Generates, Before, IsGenerate
      <4>2. IsGenerate(c, i)
        BY <1>2, <1>9 DEF IsGenerate
      <4> QED
        BY <1>4, <4>1, <4>2
    <3> QED
      BY <3>1
  <2>2. CounterLeaf(d, i) = rollup.clone.counter[d]
    BY <2>1 DEF CounterLeaf
  <2>3. rollup.clone.counter[d] = Cardinality(KeysOf(d))
    BY DEF PlainBatch, CloneIsFresh
  <2>4. Cardinality(KeysOf(d)) = Counted(d, e)
    BY <1>3 DEF DocumentsOfNow
  <2>5. GeneratedBy(d, e + 1 .. n) = 0
    BY <1>1, <1>3, <2>1, FS_EmptySet DEF GeneratedBy
  <2>6. Counted(d, e) \in Nat
    BY CountedIs
  <2>7. Counted(d, n) = Counted(d, e)
    BY <1>3, <2>5, <2>6, CountedParts
  <2> QED
    BY <1>1, <1>3, <2>2, <2>3, <2>4, <2>7 DEF GeneratedBy, Counted
<1>10. Witnessed(i)
  BY <1>2, <1>6, <1>7, <1>8, <1>9 DEF Witnessed
<1> QED
  BY <1>5, <1>10

(* Two committees that generate keys in a batch are more than one.         *)
LEMMA TwoGenerators ==
  ASSUME TypeOK, rollup.batch \subseteq DOMAIN dkgActions,
         NEW i \in rollup.batch, NEW j \in rollup.batch, NEW c \in Committee, NEW d \in Committee,
         IsGenerate(c, i), IsGenerate(d, j), c # d
  PROVE  Cardinality(Generators(rollup.batch)) > 1
<1> DEFINE S == {h \in rollup.batch : dkgActions[h].actionEnum = "GENERATE_KEY"}
           T == Generators(rollup.batch)
           f == [h \in S |-> dkgActions[h].committeeId]
<1>1. IsFiniteSet(S)
  <2>1. PICK n \in Nat : DOMAIN dkgActions = 1 .. n
    BY DEF TypeOK
  <2>2. S \subseteq 1 .. n
    BY <2>1
  <2> HIDE DEF S
  <2> QED
    BY <2>2, BoundedIs
<1>2. f \in [S -> T]
  <2>1. ASSUME NEW h \in S PROVE dkgActions[h].committeeId \in T
    <3>1. h \in DOMAIN dkgActions
      OBVIOUS
    <3>2. dkgActions[h].committeeId \in Committee
      BY <3>1, ActionIs DEF DkgAction
    <3> QED
      BY <3>2 DEF Generators, Generates
  <2> QED
    BY <2>1
<1>3. \A t \in T : \E h \in S : f[h] = t
  BY DEF Generators, Generates
<1>4. IsFiniteSet(T)
  <2> HIDE DEF S, T, f
  <2>1. f \in Surjection(S, T)
    BY <1>2, <1>3 DEF Surjection
  <2> QED
    BY <1>1, <2>1, FS_Surjection
<1>5. c \in T /\ d \in T
  BY DEF Generators, Generates, IsGenerate
<1> HIDE DEF T
<1>6. Cardinality({c}) = 1 /\ IsFiniteSet({c})
  BY FS_Singleton
<1>7. Cardinality({c} \cup {d}) = 2
  BY <1>6, FS_AddElement
<1>8. Cardinality({c} \cup {d}) <= Cardinality(T) /\ Cardinality(T) \in Nat
  BY <1>4, <1>5, FS_Subset, FS_CardinalityType
<1> QED
  BY <1>7, <1>8 DEF T

LEMMA PlainBatchIsProved ==
  ASSUME IInv, RInv, OneInv
  PROVE  PlainBatchProves
<1> SUFFICES ASSUME rollup.pc = "prove", CloneIsFresh, interrupted = 0,
                    rollup.state + 1 \in rollup.batch, rollup.batch \cap 1 .. rollup.state = {},
                    Deprecations(rollup.batch) = {},
                    ~ (Cardinality(Generators(rollup.batch)) > 1)
             PROVE  Proves
  BY DEF PlainBatchProves
<1>0. TypeOK /\ LogRight /\ RollupRight
  BY DEF IInv, RInv
<1>1. DocumentsOfNow
  BY FreshIsNow
<1>2. PICK a \in Len(History) .. events, m \in 0 .. rolluped : rollup.batch = a + 1 .. m
  BY <1>0, BatchIs
<1>3. /\ Len(History) \in Nat /\ events \in Nat /\ Len(dkgActions) \in Nat
      /\ rolluped \in 0 .. Len(dkgActions) /\ rollup.state = events
  BY <1>0, HistoryAssumption DEF TypeOK, RollupRight, CloneIsFresh
<1>4. a \in Nat /\ a <= events /\ m \in Nat /\ m <= Len(dkgActions)
  BY <1>2, <1>3
<1>5. a = events
  <2>1. CASE a < events
    <3>1. a + 1 \in rollup.batch /\ a + 1 \in 1 .. rollup.state
      BY <1>2, <1>3, <1>4, <2>1
    <3> QED
      BY <3>1
  <2> QED
    BY <1>3, <1>4, <2>1
<1>6. PlainBatch
  BY <1>2, <1>4, <1>5 DEF PlainBatch
<1>7. ASSUME NEW i \in rollup.batch PROVE Presupposed(i) /\ Witnessed(i)
  <2>1. rollup.batch \subseteq DOMAIN dkgActions
    BY <1>0, BatchIs
  <2>2. \A j \in rollup.batch : \A c, d \in Committee : IsGenerate(c, i) /\ IsGenerate(d, j) => c = d
    BY <1>0, <2>1, TwoGenerators
  <2> QED
    BY <1>0, <1>1, <1>6, <2>2, PlainStep
<1> QED
  BY <1>7 DEF Proves, Proven

(* With one worker and no interruption, a batch that starts after what is  *)
(* reduced is proved on fresh trees, if no DEPRECATE_KEY is in it and only *)
(* one committee generates keys: the ids that rollupDkg counts on from the *)
(* documents are those of the contract, and the leaves it writes are those *)
(* of the roots.                                                           *)
THEOREM PlainBatchesAreProved ==
  ASSUME OneWorker
  PROVE  RollupSpec => []PlainBatchProves
<1>1. RollupInit => OneInv
  BY StartInv
<1>2. IInv /\ RInv /\ OneInv /\ [RollupNext]_allVars => OneInv'
  BY OneStep
<1>3. RollupSpec => [](IInv /\ RInv /\ OneInv)
  BY <1>1, <1>2, AlwaysRInv, PTL DEF RollupSpec
<1>4. IInv /\ RInv /\ OneInv => PlainBatchProves
  BY PlainBatchIsProved
<1> QED
  BY <1>3, <1>4, PTL
=============================================================================
