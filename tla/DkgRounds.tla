----------------------------- MODULE DkgRounds -----------------------------
(***************************************************************************)
(* One of the two rounds of a key generation, for one committee.  Members  *)
(* contribute to a key by actions of the round contract; when every member *)
(* has, a roll-up finalizes the key, and an event names the actions that   *)
(* were taken.  updateRound1Actions() and updateRound2Actions(), which     *)
(* have the same text, then push each contribution into the key document   *)
(* and mark its action active; nobody awaits these two writes.             *)
(* updateMerkleTrees() rebuilds the trees from the documents, with a count *)
(* of the active actions read later than the documents; rollupRound1() and *)
(* rollupRound2() differ in the batch they take and in when they give up.  *)
(*                                                                         *)
(*   log            the contributions, in the order they were dispatched   *)
(*   events         finalizations: a key and the action of each member     *)
(*   mempool        the roll-up transaction, if one is pending             *)
(*   mirrored, mirroredEvents   how many actions and events are recorded   *)
(*   known          the keys that have a document                          *)
(*   pushed         how many times a contribution is in its key document:  *)
(*                  Many for all that is more than once                    *)
(*   active         ids of the active actions                              *)
(*   pushing, saving   of each server: the writes nobody awaits            *)
(*   storage        the trees in the memory of each server                 *)
(*   job            the local variables of each server's job               *)
(*   quiet          history: no pass began while another one was not over  *)
(***************************************************************************)
EXTENDS Naturals, Sequences, FiniteSets

CONSTANTS Round,       \* 1 or 2
          Server,      \* processes, each with its own trees
          Roller,      \* those that run roll-ups
          MaxKey,      \* keys 1 .. MaxKey of the committee, in order of creation
          Member,      \* its members
          Repeats,     \* whether a member may contribute to a key again
          MaxActions,  \* bound: actions dispatched
          MaxInFlight  \* bound: writes of a contribution a server has in flight

ASSUME RoundsAssumption ==
  /\ Round \in {1, 2} /\ Repeats \in BOOLEAN /\ Roller \subseteq Server
  /\ {MaxKey, MaxActions, MaxInFlight} \subseteq Nat
  /\ IsFiniteSet(Member) /\ Member # {}

VARIABLES log, events, mempool, mirrored, mirroredEvents, known, pushed,
          active, pushing, saving, storage, job, quiet

chainVars == <<log, events>>
writeVars == <<pushed, active, pushing, saving>>
vars == <<chainVars, mempool, mirrored, mirroredEvents, known, writeVars,
          storage, job, quiet>>

Key == 1 .. MaxKey
ActionId == 1 .. MaxActions
numberOfMembers == Cardinality(Member)

PC == {"idle", "find", "contribute", "findKeys", "count", "findEvents",
       "findActions", "updated", "findStatus", "findBatch", "fetchState", "prove", "send"}

Many == 2

None == [i \in ActionId |-> 0]

\* The trees: contributions and encryptions by key, and the processed actions.
\* An encryption holds the whole list of contributions: each one's number in it.
EmptyTrees == [contribution |-> [k \in {} |-> {}], encryption |-> [k \in {} |-> None],
               processed |-> {}]

Idle == [pc |-> "idle", notActiveActions |-> {}, round |-> None, keys |-> {},
         mapped |-> 0, numRollupedActions |-> 0, batch |-> {}, from |-> 0, trees |-> EmptyTrees]

Init ==
  /\ log = <<>> /\ events = <<>> /\ mempool = {}
  /\ mirrored = 0 /\ mirroredEvents = 0 /\ known = {}
  /\ pushed = None /\ active = {}
  /\ pushing = [s \in Server |-> None] /\ saving = [s \in Server |-> None]
  /\ storage = [s \in Server |-> EmptyTrees]
  /\ job = [s \in Server |-> Idle]
  /\ quiet = TRUE

Increment(n) == IF n < Many THEN n + 1 ELSE Many

\* The first of a list that the code sorts, or that is in order of creation.
First(list) == CHOOSE i \in list : \A h \in list : i <= h

-----------------------------------------------------------------------------
(***************************************************************************)
(* The chain, and what the other parts of the server record.               *)
(***************************************************************************)

\* The actions of key k among ids.
Of(k, ids) == {i \in ids : log[i].key = k}

Finalized(n) == {events[e].key : e \in 1 .. n}
\* The actions that the first n events name.
Named(n) == UNION {events[e].actions : e \in 1 .. n}

\* One contribution of each member.
Complete(ids) ==
  /\ Cardinality(ids) = numberOfMembers
  /\ {log[i].member : i \in ids} = Member

\* The list of contributions in which each of ids comes once.
OnceEach(ids) == [i \in ActionId |-> IF i \in ids THEN 1 ELSE 0]

Dispatch(k, m) ==
  /\ Len(log) < MaxActions
  /\ Repeats \/ \A i \in DOMAIN log : log[i] # [key |-> k, member |-> m]
  /\ log' = Append(log, [key |-> k, member |-> m])
  /\ UNCHANGED <<events, mempool, mirrored, mirroredEvents, known, writeVars,
                 storage, job, quiet>>

\* The contract accepts a proof that starts at its state.
Include(tx) ==
  /\ events' = IF tx.from = Len(events)
               THEN Append(events, [key |-> tx.key, actions |-> tx.actions])
               ELSE events
  /\ mempool' = {}
  /\ UNCHANGED <<log, mirrored, mirroredEvents, known, writeVars, storage, job, quiet>>

\* Another deployment finalizes a key, with any contribution of each member.
FinalizeElsewhere(k, ids) ==
  /\ k \notin Finalized(Len(events))
  /\ ids \subseteq Of(k, DOMAIN log) /\ Complete(ids)
  /\ events' = Append(events, [key |-> k, actions |-> ids])
  /\ UNCHANGED <<log, mempool, mirrored, mirroredEvents, known, writeVars,
                 storage, job, quiet>>

\* fetchRound1Actions(), fetchRound2Actions() (ActionFeed).
Record ==
  /\ mirrored < Len(log)
  /\ mirrored' = mirrored + 1
  /\ UNCHANGED <<chainVars, mempool, mirroredEvents, known, writeVars,
                 storage, job, quiet>>

\* updateDkgActions() creates a key's document (DkgKeys).
CreateKey(k) ==
  /\ known = 1 .. k - 1
  /\ known' = known \cup {k}
  /\ UNCHANGED <<chainVars, mempool, mirrored, mirroredEvents, writeVars,
                 storage, job, quiet>>

-----------------------------------------------------------------------------
(***************************************************************************)
(* updateRound1Actions(), updateRound2Actions()                            *)
(***************************************************************************)
Goto(s, label) == job' = [job EXCEPT ![s].pc = label]

\* A node that may lag behind answers with the first n events; those that
\* follow the last recorded one are upserted.  The pass begins with this.
FetchEvents(s, n) ==
  /\ job[s].pc = "idle"
  /\ mirroredEvents' = IF n > mirroredEvents THEN n ELSE mirroredEvents
  /\ Goto(s, "find")
  /\ UNCHANGED <<chainVars, mempool, mirrored, known, writeVars, storage, quiet>>

\* No contribution is in the hands of a pass.
NothingInFlight ==
  \A s \in Server : pushing[s] = None /\ saving[s] = None /\ job[s].pc # "contribute"

NotActive == (1 .. mirrored) \ active

Find(s) ==
  /\ job[s].pc = "find"
  /\ \A i \in NotActive : pushing[s][i] + saving[s][i] < MaxInFlight
  /\ job' = [job EXCEPT ![s].pc = "contribute", ![s].notActiveActions = NotActive]
  /\ quiet' = (quiet /\ NothingInFlight)
  /\ UNCHANGED <<chainVars, mempool, mirrored, mirroredEvents, known, writeVars, storage>>

\* exists({data: {$in: [currentActionState]}})
EventExists(i) == i \in Named(mirroredEvents)

\* Mutant: an action without an event is passed over.
WithEvent(ids) == {i \in ids : \A h \in ids : EventExists(h) => EventExists(i) /\ i <= h}

\* The action a loop over ids has reached, if any.
Reached(ids) == {i \in ids : \A h \in ids : i <= h}

\* The next action has its event and its key's document, which is loaded for
\* it: the push is started, and the save of the action will follow it.
\* (What the two lookups find stays true, so they are one step.)
Contribute(s) ==
  /\ job[s].pc = "contribute"
  /\ \E i \in Reached(job[s].notActiveActions) :
       /\ EventExists(i)
       /\ log[i].key \in known
       /\ pushing' = [pushing EXCEPT ![s][i] = @ + 1]
       /\ job' = [job EXCEPT ![s].notActiveActions = @ \ {i}]
  /\ UNCHANGED <<chainVars, mempool, mirrored, mirroredEvents, known,
                 pushed, active, saving, storage, quiet>>

\* The loop ends, or breaks at the first action without an event.
ContributeDone(s) ==
  /\ job[s].pc = "contribute"
  /\ \A i \in Reached(job[s].notActiveActions) : ~ EventExists(i)
  /\ job' = [job EXCEPT ![s].pc = "findKeys", ![s].notActiveActions = {}]
  /\ UNCHANGED <<chainVars, mempool, mirrored, mirroredEvents, known, writeVars,
                 storage, quiet>>

\* Mutant: the save of the action is started with the push.
PushAndSave(s, i) ==
  /\ pushing[s][i] > 0
  /\ pushing' = [pushing EXCEPT ![s][i] = @ - 1]
  /\ pushed' = pushed
  /\ saving' = [saving EXCEPT ![s][i] = @ + 1]
  /\ UNCHANGED <<chainVars, mempool, mirrored, mirroredEvents, known, active,
                 storage, job, quiet>>

\* key.save(): a $push, to which concurrent ones add up.
Push(s, i) ==
  /\ pushing[s][i] > 0
  /\ pushing' = [pushing EXCEPT ![s][i] = @ - 1]
  /\ pushed' = [pushed EXCEPT ![i] = Increment(@)]
  /\ saving' = [saving EXCEPT ![s][i] = @ + 1]
  /\ UNCHANGED <<chainVars, mempool, mirrored, mirroredEvents, known, active,
                 storage, job, quiet>>

\* .then(async () => { await notActiveAction.save(); })
Save(s, i) ==
  /\ saving[s][i] > 0
  /\ saving' = [saving EXCEPT ![s][i] = @ - 1]
  /\ active' = active \cup {i}
  /\ UNCHANGED <<chainVars, mempool, mirrored, mirroredEvents, known, pushed, pushing,
                 storage, job, quiet>>

\* fetch() starts over, or gives up after MaxRetries attempts, and the trees
\* are updated.
Retry(s) ==
  /\ \E label \in {"idle", "findKeys"} :
       job' = [job EXCEPT ![s].pc = label, ![s].notActiveActions = {}]
  /\ UNCHANGED <<chainVars, mempool, mirrored, mirroredEvents, known, writeVars,
                 storage, quiet>>

\* findOne() of the key returns null, and push throws.
KeyNotFound(s) ==
  /\ job[s].pc = "contribute"
  /\ \E i \in Reached(job[s].notActiveActions) : EventExists(i) /\ log[i].key \notin known
  /\ Retry(s)

\* An awaited call throws (or throws at once, and the pass does nothing).
FetchThrows(s) == job[s].pc \in {"find", "contribute"} /\ Retry(s)

-----------------------------------------------------------------------------
(***************************************************************************)
(* updateMerkleTrees()                                                     *)
(***************************************************************************)
FindKeys(s) ==
  /\ job[s].pc = "findKeys"
  /\ job' = [job EXCEPT ![s].pc = "count", ![s].round = pushed, ![s].keys = known]
  /\ UNCHANGED <<chainVars, mempool, mirrored, mirroredEvents, known, writeVars,
                 storage, quiet>>

\* The contributions to k in a key document that was loaded as list.
InDocument(k, list) == Of(k, {i \in DOMAIN log : list[i] > 0})

\* Mutant: the trees are written whatever the count.
AnyCount(k) == TRUE

\* count({..., active: true}) == committee.numberOfMembers
AllContributed(k) == Cardinality(Of(k, active)) = numberOfMembers

\* Round 1 empties the subtree of the key first.  Round 2 does not, and writes
\* the whole list of contributions into the encryption leaf of each member.
WithKey(trees, k, list) ==
  LET ids == InDocument(k, list)
      Put(tree, leaf) == [h \in DOMAIN tree \cup {k} |-> IF h = k THEN leaf ELSE tree[h]]
  IN  IF Round = 1 THEN [trees EXCEPT !.contribution = Put(@, ids)]
      ELSE IF ids = {} THEN trees
      ELSE [trees EXCEPT
              !.contribution =
                Put(@, IF k \in DOMAIN @ THEN @[k] \cup ids ELSE ids),
              !.encryption =
                Put(@, [i \in ActionId |-> IF i \in ids THEN list[i] ELSE 0])]

\* The count of the active actions is read after the document.
Count(s) ==
  LET k == First(job[s].keys)
  IN  /\ job[s].pc = "count"
      /\ job[s].keys # {}
      /\ storage' = IF AllContributed(k)
                    THEN [storage EXCEPT ![s] = WithKey(@, k, job[s].round)]
                    ELSE storage
      /\ job' = [job EXCEPT ![s].keys = @ \ {k}]
      /\ UNCHANGED <<chainVars, mempool, mirrored, mirroredEvents, known, writeVars, quiet>>

CountDone(s) ==
  /\ job[s].pc = "count"
  /\ job[s].keys = {}
  /\ job' = [job EXCEPT ![s].pc = "findEvents", ![s].round = None]
  /\ UNCHANGED <<chainVars, mempool, mirrored, mirroredEvents, known, writeVars,
                 storage, quiet>>

\* updateProcessStorageForRound1(), ...2(): every event read gives its actions
\* the counter 0 ("!0" holds, so it stays 0) ...
FindEvents(s) ==
  /\ job[s].pc = "findEvents"
  /\ job' = [job EXCEPT ![s].pc = "findActions", ![s].mapped = mirroredEvents]
  /\ UNCHANGED <<chainVars, mempool, mirrored, mirroredEvents, known, writeVars,
                 storage, quiet>>

\* Mutant: the filter on active is dropped.
AllMapped(mapped) == Named(mapped)

\* ... and the active ones among them get their leaf.
Processed(mapped) == active \cap Named(mapped)

FindActions(s) ==
  /\ job[s].pc = "findActions"
  /\ storage' = [storage EXCEPT ![s].processed =
                   @ \cup Processed(job[s].mapped)]
  /\ job' = [job EXCEPT ![s].pc = "updated", ![s].mapped = 0]
  /\ UNCHANGED <<chainVars, mempool, mirrored, mirroredEvents, known, writeVars, quiet>>

\* An awaited call throws, and the rest is not written.
UpdateThrows(s) ==
  /\ job[s].pc \in {"findKeys", "count", "findEvents", "findActions"}
  /\ job' = [job EXCEPT ![s].pc = "updated", ![s].round = None, ![s].keys = {},
                        ![s].mapped = 0]
  /\ UNCHANGED <<chainVars, mempool, mirrored, mirroredEvents, known, writeVars,
                 storage, quiet>>

\* A job that only updates, or whose order leaves out this roll-up.
Skip(s) ==
  /\ job[s].pc = "updated"
  /\ job' = [job EXCEPT ![s] = Idle]
  /\ UNCHANGED <<chainVars, mempool, mirrored, mirroredEvents, known, writeVars,
                 storage, quiet>>

-----------------------------------------------------------------------------
(***************************************************************************)
(* rollupRound1(), rollupRound2()                                          *)
(***************************************************************************)
\* The roll-up contract's actions of num contributions are active (RollupContract).
FindRolled(s, num) ==
  /\ s \in Roller /\ job[s].pc = "updated"
  /\ job' = [job EXCEPT ![s].pc = "findStatus", ![s].numRollupedActions = num]
  /\ UNCHANGED <<chainVars, mempool, mirrored, mirroredEvents, known, writeVars,
                 storage, quiet>>

\* A key has the status of round 1 from the start, and at least until it is
\* finalized; that of round 2 it has from any later time on (DkgKeys).
FindStatus(s, keys) ==
  /\ job[s].pc = "findStatus"
  /\ Round = 1 => known \ Finalized(Len(events)) \subseteq keys
  /\ job' = [job EXCEPT ![s].pc = "findBatch", ![s].keys = keys]
  /\ UNCHANGED <<chainVars, mempool, mirrored, mirroredEvents, known, writeVars,
                 storage, quiet>>

\* $sort: {actionId: -1}, $group by member with $first
Latest(ids) == {i \in ids : \A h \in ids : log[h].member = log[i].member => h <= i}

\* The pending contributions to k that the roll-up contract has taken.
Pending(k, num) == {i \in Of(k, NotActive) : i <= num}

\* Round 1 takes all of them, round 2 the latest of each member.
Batch(k, num) == IF Round = 1 THEN Pending(k, num) ELSE Latest(Pending(k, num))

FindBatch(s) ==
  LET k == First(job[s].keys)
      batch == Batch(k, job[s].numRollupedActions)
  IN  /\ job[s].pc = "findBatch"
      /\ job[s].keys # {}
      /\ Cardinality(batch) = numberOfMembers
      /\ job' = [job EXCEPT ![s].pc = "fetchState", ![s].keys = {k}, ![s].batch = batch]
      /\ UNCHANGED <<chainVars, mempool, mirrored, mirroredEvents, known, writeVars,
                     storage, quiet>>

\* Mutant: round 1 returns, too.
NoKeys(keys) == {}

NextKeys(keys) == IF Round = 1 THEN keys \ {First(keys)} ELSE {}

\* A key that lacks contributions: round 1 goes on, round 2 returns.
SkipKey(s) ==
  LET k == First(job[s].keys)
  IN  /\ job[s].pc = "findBatch"
      /\ job[s].keys # {}
      /\ Cardinality(Batch(k, job[s].numRollupedActions)) # numberOfMembers
      /\ job' = [job EXCEPT ![s].keys = NextKeys(@)]
      /\ UNCHANGED <<chainVars, mempool, mirrored, mirroredEvents, known, writeVars,
                     storage, quiet>>

NoMoreKeys(s) ==
  /\ job[s].pc = "findBatch"
  /\ job[s].keys = {}
  /\ job' = [job EXCEPT ![s] = Idle]
  /\ UNCHANGED <<chainVars, mempool, mirrored, mirroredEvents, known, writeVars,
                 storage, quiet>>

\* fetchRound1State(), fetchRound2State(); then the trees are cloned.
FetchState(s, n) ==
  /\ job[s].pc = "fetchState"
  /\ job' = [job EXCEPT ![s].pc = "prove", ![s].from = n, ![s].trees = storage[s]]
  /\ UNCHANGED <<chainVars, mempool, mirrored, mirroredEvents, known, writeVars,
                 storage, quiet>>

Without(k, tree) == [h \in DOMAIN tree \ {k} |-> tree[h]]

\* The trees agree, but for the leaves of k, with those of the contract after
\* its first n finalizations, which do not include k's.
Agree(trees, k, n) ==
  /\ k \notin Finalized(n)
  /\ Without(k, trees.contribution) = [h \in Finalized(n) |-> Of(h, Named(n))]
  /\ Round = 2 => Without(k, trees.encryption) =
                    [h \in Finalized(n) |-> OnceEach(Of(h, Named(n)))]
  /\ trees.processed = Named(n)

\* The witnesses lead to the roots the proof starts from, and its actions are
\* one of each member, none of them processed.
WitnessesFit(s) ==
  /\ Agree(job[s].trees, First(job[s].keys), job[s].from)
  /\ Complete(job[s].batch)
  /\ job[s].batch \cap Named(job[s].from) = {}

\* FinalizeRound1.init, contribute, ...: the loop works on the clones only.  (An
\* action that is mapped already would get the counter 1; its key is finalized.)
Prove(s) ==
  /\ job[s].pc = "prove"
  /\ WitnessesFit(s)
  /\ job' = [job EXCEPT ![s].pc = "send", ![s].trees = EmptyTrees]
  /\ UNCHANGED <<chainVars, mempool, mirrored, mirroredEvents, known, writeVars,
                 storage, quiet>>

\* A proof that does not fit throws.
ProveFails(s) ==
  /\ job[s].pc = "prove"
  /\ ~ WitnessesFit(s)
  /\ job' = [job EXCEPT ![s] = Idle]
  /\ UNCHANGED <<chainVars, mempool, mirrored, mirroredEvents, known, writeVars,
                 storage, quiet>>

\* The transaction is refused if another one has its nonce.
Send(s) ==
  /\ job[s].pc = "send"
  /\ mempool' = IF mempool = {}
                THEN {[key |-> First(job[s].keys), actions |-> job[s].batch,
                       from |-> job[s].from]}
                ELSE mempool
  /\ job' = [job EXCEPT ![s] = Idle]
  /\ UNCHANGED <<chainVars, mirrored, mirroredEvents, known, writeVars, storage, quiet>>

\* An awaited call throws, also because the nonce is used or a tree of another
\* component does not fit.
RollupThrows(s) ==
  /\ job[s].pc \in {"findStatus", "findBatch", "fetchState", "prove", "send"}
  /\ job' = [job EXCEPT ![s] = Idle]
  /\ UNCHANGED <<chainVars, mempool, mirrored, mirroredEvents, known, writeVars,
                 storage, quiet>>

\* The process stops, also because a write nobody awaits rejects.
Crash(s) ==
  /\ pushing' = [pushing EXCEPT ![s] = None]
  /\ saving' = [saving EXCEPT ![s] = None]
  /\ storage' = [storage EXCEPT ![s] = EmptyTrees]
  /\ job' = [job EXCEPT ![s] = Idle]
  /\ quiet' = (quiet /\ saving[s] = None)
  /\ UNCHANGED <<chainVars, mempool, mirrored, mirroredEvents, known, pushed, active>>

-----------------------------------------------------------------------------
ChainStep ==
  \/ \E k \in Key, m \in Member : Dispatch(k, m)
  \/ \E tx \in mempool : Include(tx)
  \/ \E k \in Key, ids \in SUBSET DOMAIN log : FinalizeElsewhere(k, ids)
  \/ Record \/ \E k \in Key : CreateKey(k)

Update(s) ==
  \/ (\E n \in 0 .. Len(events) : FetchEvents(s, n)) \/ Find(s)
  \/ Contribute(s) \/ ContributeDone(s) \/ KeyNotFound(s)
  \/ FindKeys(s) \/ Count(s) \/ CountDone(s) \/ FindEvents(s) \/ FindActions(s)

Rollup(s) ==
  \/ (\E num \in 0 .. Len(log) : FindRolled(s, num))
  \/ (\E keys \in SUBSET known : FindStatus(s, keys))
  \/ FindBatch(s) \/ SkipKey(s) \/ NoMoreKeys(s)
  \/ (\E n \in 0 .. Len(events) : FetchState(s, n))
  \/ Prove(s) \/ ProveFails(s) \/ Send(s)

Write(s) == \E i \in ActionId : Push(s, i) \/ Save(s, i)

Fail(s) == FetchThrows(s) \/ UpdateThrows(s) \/ RollupThrows(s) \/ Crash(s)

Next ==
  \/ ChainStep
  \/ \E s \in Server : Update(s) \/ Rollup(s) \/ Skip(s) \/ Write(s) \/ Fail(s)

Spec == Init /\ [][Next]_vars

-----------------------------------------------------------------------------
(***************************************************************************)
(* Properties.                                                             *)
(***************************************************************************)
Counts == [ActionId -> 0 .. Many]
InFlight == [ActionId -> 0 .. MaxInFlight]

TreesOK(t) ==
  /\ DOMAIN t.contribution \subseteq known /\ DOMAIN t.encryption \subseteq known
  /\ \A k \in DOMAIN t.contribution : t.contribution[k] \subseteq DOMAIN log
  /\ \A k \in DOMAIN t.encryption : t.encryption[k] \in Counts
  /\ t.processed \subseteq active

LocalsOK(l) ==
  /\ l.pc \in PC
  /\ l.notActiveActions \cup l.batch \subseteq 1 .. mirrored
  /\ l.round \in Counts
  /\ l.keys \subseteq known
  /\ l.mapped \in 0 .. mirroredEvents
  /\ l.numRollupedActions \in 0 .. Len(log)
  /\ l.from \in 0 .. Len(events)
  /\ TreesOK(l.trees)

TypeOK ==
  /\ log \in Seq([key : Key, member : Member])
  /\ events \in Seq([key : Key, actions : SUBSET DOMAIN log])
  /\ \A tx \in mempool : /\ tx.key \in Key /\ tx.actions \subseteq DOMAIN log
                         /\ tx.from \in 0 .. Len(events)
  /\ mirrored \in 0 .. Len(log)
  /\ mirroredEvents \in 0 .. Len(events)
  /\ known \subseteq Key
  /\ active \subseteq 1 .. mirrored
  /\ pushed \in Counts
  /\ {pushing, saving} \subseteq [Server -> InFlight]
  /\ quiet \in BOOLEAN
  /\ DOMAIN storage = Server /\ \A s \in Server : TreesOK(storage[s])
  /\ DOMAIN job = Server /\ \A s \in Server : LocalsOK(job[s])

(* An active action has its contribution in the document of its key, which *)
(* a later pass would not repeat, although neither write is awaited.       *)
ActiveHasContribution == \A i \in active : pushed[i] >= 1

(* A key document holds one contribution of each member: never also one    *)
(* that the member has replaced.                                           *)
OneContributionEach ==
  \A i, h \in DOMAIN log : log[i] = log[h] /\ pushed[i] > 0 /\ pushed[h] > 0 => i = h

(* The actions become active in any order, but none overtakes an action    *)
(* without an event: one that its member has replaced holds up for good    *)
(* all those that follow it.                                               *)
NoneOvertakes ==
  \A i \in active : 1 .. i \subseteq Named(mirroredEvents)

(* A contribution is in its document at most once unless a pass began      *)
(* before another one and its writes were over, or a process stopped       *)
(* between a push and the save that follows it.                            *)
OnceUnlessOverlapped ==
  quiet => \A i \in ActionId : pushed[i] <= 1

(* What un-awaited writes of a contribution and of its action leave in the *)
(* documents: no active action without its contribution, and no            *)
(* contribution twice but for an overlap or a stop.                        *)
ContributionsArrive == ActiveHasContribution /\ OnceUnlessOverlapped

(* A leaf in memory is the contribution the contract has, or missing: also *)
(* when the document was loaded before the actions were counted.           *)
LeavesAreRight ==
  \A s \in Server : \A k \in DOMAIN storage[s].contribution :
    /\ k \in Finalized(Len(events))
    /\ storage[s].contribution[k] \subseteq Of(k, Named(Len(events)))

\* What the contract has taken are its first contributions.
InOrder == Named(Len(events)) = 1 .. Cardinality(Named(Len(events)))

(* Once a key is finalized ahead of an earlier contribution, no roll-up of *)
(* this server is accepted, whatever its key, until that contribution is   *)
(* finalized as well: its trees cannot catch up with the contract.         *)
AcceptedOnlyInOrder == \A tx \in mempool : tx.from = Len(events) => InOrder

(* What contributions that are replaced, and keys that are finalized out   *)
(* of order, mean for documents, actions and transactions.                 *)
OrderIsKept == OneContributionEach /\ NoneOvertakes /\ AcceptedOnlyInOrder

Proceed(s) == Update(s) \/ Rollup(s) \/ Skip(s)

\* The timers start jobs for ever; a started write ends; this roll-up is part
\* of a job again and again; and the other parts of the system do theirs.
Fairness ==
  /\ \A s \in Server : WF_vars(Proceed(s))
  /\ \A s \in Roller : SF_vars(FindRolled(s, Len(log)))
  /\ \A s \in Server, i \in ActionId : WF_vars(Push(s, i)) /\ WF_vars(Save(s, i))
  /\ WF_vars(Record) /\ WF_vars(\E tx \in mempool : Include(tx))
  /\ \A k \in Key : WF_vars(CreateKey(k))

FairSpec == Spec /\ Fairness

\* A step in which nothing fails and no node lags behind.
Calm ==
  \/ ChainStep
  \/ \E s \in Server :
       \/ Write(s)
       \/ /\ Proceed(s)
          /\ job[s].pc = "idle" => mirroredEvents' = Len(events)
          /\ job[s].pc = "fetchState" => job'[s].from = Len(events)

(* A key to which every member has contributed is finalized and its        *)
(* contributions become active, once failures end, as long as keys are     *)
(* finalized in the order of their contributions: round 1, each member     *)
(* contributing once.                                                      *)
EventuallyFinalized ==
  (<>[][Calm]_vars /\ []InOrder) =>
    \A k \in Key : Complete(Of(k, DOMAIN log)) ~>
                     k \in Finalized(Len(events)) /\ Of(k, DOMAIN log) \subseteq active
=============================================================================
