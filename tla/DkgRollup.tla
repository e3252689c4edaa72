------------------------------ MODULE DkgRollup ------------------------------
(***************************************************************************)
(* rollupDkg() and the trees it proves against, together with the pass of  *)
(* DkgKeys: the transactions that reduce the actions of the DKG contract   *)
(* are those of this server, and one pass runs at a time.                  *)
(*                                                                         *)
(* A proof has one step per action of the batch.  Each step checks the     *)
(* witnesses of a clone of the trees against the roots that the steps      *)
(* before it have computed.  A witness holds the other leaves of its tree, *)
(* not its own.  The key leaf is written where the status leaf is; one     *)
(* tree stands for both.                                                   *)
(*                                                                         *)
(*   rolluped   how many DKG actions have an active action of the roll-up  *)
(*   trees      _dkg: keyCounterStorage, keyStatusStorage, and the ids in  *)
(*              processStorage                                             *)
(*   rollup     the local variables of rollupDkg()                         *)
(***************************************************************************)
EXTENDS DkgKeys

CONSTANT History  \* the actions that are reduced and active at the start

\* What Dispatch asks of action i of a log: its key was generated before, it is not
\* there yet, and the step before it in the key's life is.
Admissible(log, i) ==
  LET before == 1 .. i - 1
      ofKey == {h \in before : /\ log[h].committeeId = log[i].committeeId
                               /\ log[h].keyId = log[i].keyId}
  IN  /\ log[i].keyId < Cardinality({h \in before : /\ log[h].actionEnum = "GENERATE_KEY"
                                                    /\ log[h].committeeId = log[i].committeeId})
      /\ \A h \in ofKey : log[h].actionEnum # log[i].actionEnum
      /\ log[i].actionEnum # "FINALIZE_ROUND_1" =>
           \E h \in ofKey : log[h].actionEnum = Predecessor(log[i].actionEnum)

Legal(log) == \A i \in DOMAIN log : log[i].actionEnum # "GENERATE_KEY" => Admissible(log, i)

ASSUME HistoryAssumption ==
  History \in Seq(DkgAction) /\ Len(History) <= MaxActions /\ Legal(History)

VARIABLES rolluped, trees, rollup

rollupVars == <<rolluped, trees, rollup>>
allVars == <<vars, rollupVars>>

NoTrees == [counter |-> [c \in Committee |-> 0], status |-> [k \in {} |-> "ACTIVE"], process |-> {}]
NotRolling == [pc |-> "idle", numRolluped |-> 0, batch |-> {}, state |-> 0, clone |-> NoTrees]

\* The keys of c that the actions of ids generate.
GeneratedBy(c, ids) == Cardinality(Generates(c, ids))

\* The statuses on the contract after the actions of ids.
Statuses(ids) ==
  [k \in {k \in Committee \X (0 .. MaxActions) : k[2] < GeneratedBy(k[1], ids)} |->
     StatusIn(ids, k)]

\* A worker starts on the documents of earlier ones.
RollupInit ==
  /\ dkgActions = History /\ events = Len(History)
  /\ dkgEvents = Len(History) /\ active = DOMAIN History
  /\ keyModel = Statuses(DOMAIN History)
  /\ createdFor = [k \in DOMAIN keyModel |->
       CHOOSE i \in Generates(k[1], DOMAIN History) :
         GeneratedBy(k[1], 1 .. i - 1) = k[2]]
  /\ pc = [w \in Worker |-> "idle"]
  /\ notActiveActions = [w \in Worker |-> {}]
  /\ notActiveAction = [w \in Worker |-> 0]
  /\ nextKeyIdMapping = [w \in Worker |-> NoMapping]
  /\ keyStatus = [w \in Worker |-> "ACTIVE"]
  /\ interrupted = 0
  /\ rolluped = Len(History) /\ trees = NoTrees /\ rollup = NotRolling

-----------------------------------------------------------------------------
(***************************************************************************)
(* updateMerkleTrees(): leaves are written over, none is ever removed.     *)
(***************************************************************************)
RefreshKeys ==
  /\ \A w \in Worker : pc[w] = "idle"
  /\ trees' = [trees EXCEPT
       !.counter = [c \in Committee |-> Cardinality(KeysOf(c))],
       !.status = [k \in DOMAIN @ \cup DOMAIN keyModel |->
                     IF k \in DOMAIN keyModel THEN keyModel[k] ELSE @[k]]]
  /\ UNCHANGED <<vars, rolluped, rollup>>

\* updateProcessStorageForDkg(): the counter of a processed action stays 0.
RefreshProcess ==
  /\ \A w \in Worker : pc[w] = "idle"
  /\ trees' = [trees EXCEPT !.process = @ \cup active]
  /\ UNCHANGED <<vars, rolluped, rollup>>

-----------------------------------------------------------------------------
(***************************************************************************)
(* rollupDkg().                                                            *)
(***************************************************************************)

\* The roll-up contract has reduced DKG actions, and their documents are active.
RollUp(n) ==
  /\ rolluped' = n
  /\ UNCHANGED <<vars, trees, rollup>>

CountRolluped ==
  /\ rollup.pc = "idle"
  /\ rollup' = [rollup EXCEPT !.pc = "find", !.numRolluped = rolluped]
  /\ UNCHANGED <<vars, rolluped, trees>>

\* find({active: false, actionId: {$lt: numRollupedActions}})
FoundActions == 1 .. rollup.numRolluped \ active

FindBatch ==
  /\ rollup.pc = "find"
  /\ rollup' = IF FoundActions = {} THEN NotRolling
               ELSE [rollup EXCEPT !.pc = "state", !.numRolluped = 0, !.batch = FoundActions]
  /\ UNCHANGED <<vars, rolluped, trees>>

\* fetchDkgState(), answered by a node that has seen n reduced, all of the history
\* among them, and the clones.
FetchDkgState(n) ==
  /\ rollup.pc = "state"
  /\ rollup' = [rollup EXCEPT !.pc = "prove", !.state = n, !.clone = trees]
  /\ UNCHANGED <<vars, rolluped, trees>>

-----------------------------------------------------------------------------
(***************************************************************************)
(* The proof, with its step for action i.                                  *)
(***************************************************************************)
Before(i) == {j \in rollup.batch : j < i}
Deprecations(ids) == {j \in ids : dkgActions[j].actionEnum = "DEPRECATE_KEY"}

\* DEPRECATE_KEY has no step.
Proven(ids) == ids \ Deprecations(ids)

\* The actions that the roots of step i stand for.
Reached(i) == 1 .. rollup.state \cup Proven(Before(i))

\* Mutant: the next id is counted from the active actions.
FirstKeyIdCounted(c) == {GeneratedBy(c, active)}

\* The id that nextKeyIdMapping starts from.
FirstKeyId(c) == NextKeyIds(c)

\* The id of the key that action i generates.
OwnKey(i) ==
  LET c == dkgActions[i].committeeId
  IN  <<c, (CHOOSE n \in FirstKeyId(c) : TRUE) + GeneratedBy(c, Before(i))>>

KeyOf(i) ==
  IF dkgActions[i].actionEnum = "GENERATE_KEY" THEN OwnKey(i)
  ELSE <<dkgActions[i].committeeId, dkgActions[i].keyId>>

\* The clone of a counter leaf at step i: nextKeyId is written, not nextKeyId + 1.
CounterLeaf(c, i) ==
  LET own == Generates(c, Before(i))
  IN  IF own = {} THEN rollup.clone.counter[c]
      ELSE CHOOSE n \in {OwnKey(j)[2] : j \in own} : \A j \in own : OwnKey(j)[2] <= n

\* The clone of the status leaves at step i.
StatusLeaves(i) ==
  LET written == Proven(Before(i))
  IN  [k \in DOMAIN rollup.clone.status \cup {KeyOf(j) : j \in written} |->
         IF \E j \in written : KeyOf(j) = k
         THEN StatusAfter(dkgActions[CHOOSE j \in written :
                KeyOf(j) = k /\ \A h \in written : KeyOf(h) = k => h <= j].actionEnum)
         ELSE rollup.clone.status[k]]

\* The clone of the process leaves at step i; an action without a step has its leaf.
ProcessLeaves(i) == rollup.clone.process \cup Before(i)

\* Tree but for one leaf.
Without(leaves, k) == [j \in DOMAIN leaves \ {k} |-> leaves[j]]

\* Own leaves have the values the action presupposes.
Presupposed(i) ==
  IF dkgActions[i].actionEnum = "GENERATE_KEY"
  THEN OwnKey(i)[2] = GeneratedBy(dkgActions[i].committeeId, Reached(i))
  ELSE /\ KeyOf(i)[2] < GeneratedBy(KeyOf(i)[1], Reached(i))
       /\ StatusIn(Reached(i) \cup {i}, KeyOf(i)) # StatusIn(Reached(i), KeyOf(i))

\* The other leaves are those of the roots.
Witnessed(i) ==
  /\ i \notin Reached(i)
  /\ ProcessLeaves(i) \ {i} = Reached(i)
  /\ Without(StatusLeaves(i), KeyOf(i)) = Without(Statuses(Reached(i)), KeyOf(i))
  /\ dkgActions[i].actionEnum = "GENERATE_KEY" =>
       \A c \in Committee \ {dkgActions[i].committeeId} : CounterLeaf(c, i) = GeneratedBy(c, Reached(i))

Proves == \A i \in Proven(rollup.batch) : Presupposed(i) /\ Witnessed(i)

Prove ==
  /\ rollup.pc = "prove" /\ Proves
  /\ rollup' = [rollup EXCEPT !.pc = "send", !.clone = NoTrees]
  /\ UNCHANGED <<vars, rolluped, trees>>

\* A step that cannot be proved throws.
ProveFails ==
  /\ rollup.pc = "prove" /\ ~ Proves
  /\ rollup' = NotRolling
  /\ UNCHANGED <<vars, rolluped, trees>>

\* The transaction is included if the contract is still in the state of the proof.
Send ==
  /\ rollup.pc = "send" /\ rollup.state = events
  /\ events' = events + Cardinality(Proven(rollup.batch))
  /\ rollup' = NotRolling
  /\ UNCHANGED <<dkgActions, dbVars, locals, interrupted, rolluped, trees>>

\* An awaited call throws, or the transaction is refused or lost.
RollupFails ==
  /\ rollup.pc # "idle"
  /\ rollup' = NotRolling
  /\ UNCHANGED <<vars, rolluped, trees>>

\* The process stops, with its pass if one is under way, and forgets its trees.
Restart ==
  /\ trees' = NoTrees /\ rollup' = NotRolling
  /\ IF \A w \in Worker : pc[w] = "idle" THEN UNCHANGED vars
     ELSE \E w \in Worker : Interrupt(w)
  /\ UNCHANGED rolluped

RollupStep ==
  \/ \E n \in rolluped + 1 .. Len(dkgActions) : RollUp(n)
  \/ RefreshKeys \/ RefreshProcess
  \/ CountRolluped \/ FindBatch \/ \E n \in Len(History) .. events : FetchDkgState(n)
  \/ Prove \/ ProveFails \/ Send \/ RollupFails \/ Restart

\* A step of the pass, or a dispatch.
PassStep ==
  /\ \/ \E c \in Committee : \E k \in 0 .. ChainKeys(c), enum \in Enum : Dispatch(enum, <<c, k>>)
     \/ \E w \in Worker : Proceed(w) \/ Interrupt(w)
  /\ UNCHANGED rollupVars

RollupNext == PassStep \/ RollupStep

RollupSpec == RollupInit /\ [][RollupNext]_allVars

-----------------------------------------------------------------------------
(***************************************************************************)
(* Properties.                                                             *)
(***************************************************************************)
(* What the documents of a single pass are worth to the roll-up: it makes  *)
(* one too many only where it is interrupted between create and save, and  *)
(* none too few; ids are in the order of the actions that ask for them;    *)
(* and a status never falls back behind the active actions.                *)
DocumentsFollowActions == SurplusKeysAreInterruptions /\ KeysInChainOrder /\ StatusFollowsActions

\* State and clones are of now: those of the contract and of the documents.
CloneIsFresh ==
  /\ rollup.state = events
  /\ rollup.clone.process = 1 .. rollup.state
  /\ rollup.clone.counter = [c \in Committee |-> Cardinality(KeysOf(c))]
  /\ rollup.clone.status = keyModel

Generators(ids) == {c \in Committee : Generates(c, ids) # {}}

(* A batch that starts after what is reduced, on fresh trees and without   *)
(* any interruption before, is proved, if no DEPRECATE_KEY is in it and    *)
(* only one committee generates keys: ids counted on from the documents    *)
(* are those of the contract.                                              *)
PlainBatchProves ==
  rollup.pc = "prove" /\ CloneIsFresh /\ interrupted = 0 =>
    \/ rollup.state + 1 \notin rollup.batch \/ rollup.batch \cap 1 .. rollup.state # {}
    \/ Deprecations(rollup.batch) # {} \/ Cardinality(Generators(rollup.batch)) > 1
    \/ Proves

\* After i, action j is not proved, and whatever batch comes next has both: they
\* generate keys of two committees, or i has no step but a leaf.
Blocked(i, j) ==
  /\ i < j /\ {i, j} \subseteq events + 1 .. rolluped
  /\ Cardinality(Generators({i, j})) = 2 \/ i \in Deprecations({i})
  /\ CASE rollup.pc = "idle" -> TRUE
       [] rollup.pc = "find" -> {i, j} \subseteq 1 .. rollup.numRolluped
       [] OTHER -> {i, j} \subseteq rollup.batch

\* There are more documents of keys than keys.
Surplus(c) == Cardinality(KeysOf(c)) > ChainKeys(c)

(* What stops the roll-up stops it for ever, as the next batch has all     *)
(* that the last one had: keys of two committees, of which the second is   *)
(* proved against a counter that was not raised; an action after a         *)
(* DEPRECATE_KEY; and one document of a key too many.                      *)
StoppedForEver ==
  [][/\ \A i, j \in events + 1 .. rolluped : Blocked(i, j) => Blocked(i, j)'
     /\ \A c \in Committee : Surplus(c) => Surplus(c)']_allVars
=============================================================================
