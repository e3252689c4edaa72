------------------------------- MODULE Requests -------------------------------
(***************************************************************************)
(* DkgUsageContractsService, the request contract: fetchRequestEvents(),   *)
(* updateRequestActions(), the trees of requests and rollupRequest().  A   *)
(* request is created by an action, and resolved by another one that       *)
(* comes with a batch of events, one for each dimension of the result.     *)
(* Actions take effect once they are reduced; the events are there from    *)
(* the start, from another node, which may lag behind.                     *)
(*                                                                         *)
(* Jobs overlap.  Jobs of one process share the last state they fetched.   *)
(*                                                                         *)
(*   log          the actions recorded: NewRequest, or the id resolved     *)
(*   reduced      how many the contract has reduced                        *)
(*   events       the documents of events, in the order of eventId         *)
(*   active       ids of the actions marked active                         *)
(*   requests     the request documents, in the order of requestId         *)
(*   actionState  per process, the state fetched last, as the number of    *)
(*                actions it is after                                      *)
(*   storage      the trees in the memory of one process                   *)
(*   job          the local variables of each job                          *)
(*   steady       history: no state was fetched under a pass over events   *)
(*                and actions that was not over, none stopped inside a     *)
(*                batch or between a request and its action, and none was  *)
(*                shown less than all events                               *)
(***************************************************************************)
EXTENDS Integers, Sequences, FiniteSets

CONSTANTS Process, Here, \* the processes, and the one whose trees and roll-up are modelled
          Job, Home,     \* overlapping jobs, and the process of each
          Before,        \* the actions reduced before this system was set up
          MaxActions     \* bound: actions dispatched

NewRequest == -1

ASSUME RequestsAssumption ==
  /\ MaxActions \in Nat /\ IsFiniteSet(Job) /\ Here \in Process /\ Home \in [Job -> Process]
  /\ Before \in Seq({NewRequest} \cup Nat) /\ Len(Before) <= MaxActions
  /\ \A i \in DOMAIN Before : \* what is resolved was created before
       Before[i] < Cardinality({h \in 1 .. i - 1 : Before[h] = NewRequest})

VARIABLES log, reduced, events, active, requests, actionState, storage, job, steady

chainVars == <<log, reduced>>
vars == <<chainVars, events, active, requests, actionState, storage, job, steady>>

ActionId == 1 .. MaxActions

\* The elements of a set of ids in their order, from 0.
InOrder(ids) ==
  [n \in 0 .. Cardinality(ids) - 1 |->
     CHOOSE i \in ids : Cardinality({h \in ids : h < i}) = n]

Creates(ids) == {i \in ids : log[i] = NewRequest}
Resolves(ids) == {i \in ids : log[i] # NewRequest}
ResolvesOf(r, ids) == {i \in ids : log[i] = r}

\* The last of a set of ids, 0 for none.
Latest(ids) == IF ids = {} THEN 0 ELSE CHOOSE i \in ids : \A h \in ids : h <= i

\* The leaves of a request: key index, task, accumulation and expiration come
\* from the action that created it, the result from that which resolved it.
TreesAfter(n) ==
  [r \in DOMAIN InOrder(Creates(1 .. n)) |->
     [create |-> InOrder(Creates(1 .. n))[r], result |-> Latest(ResolvesOf(r, 1 .. n))]]

\* Of the events of a batch, two stand for all dimensions.
Dimension == {1, 2}

\* The batch of an action that resolves, and the action of a batch.
Batches == DOMAIN InOrder(Resolves(1 .. Len(log)))
ActionOf(b) == InOrder(Resolves(1 .. Len(log)))[b]

PC == {"idle", "fetchEvents", "store", "find", "findLatest", "next", "saveRequest",
       "saveAction", "findRequests", "updated", "fetchState", "clone", "send"}

NoEvents == {}
Idle == [pc |-> "idle", state |-> 0, batch |-> 0, last |-> 0, dimension |-> 1, eventId |-> 0,
         actions |-> {}, nextRequestId |-> 0, result |-> NoEvents]

Init ==
  /\ log = Before /\ reduced = Len(Before)
  /\ events = <<>> /\ active = {} /\ requests = <<>>
  /\ actionState = [p \in Process |-> 0]
  /\ storage = <<>>
  /\ job = [j \in Job |-> Idle]
  /\ steady = TRUE

\* What follows the pass; another process updates trees of its own.
AfterPass(j) == IF Home[j] = Here THEN "findRequests" ELSE "idle"

Goto(j, label) == job' = [job EXCEPT ![j].pc = label]
Return(j) == job' = [job EXCEPT ![j] = Idle]

-----------------------------------------------------------------------------
(***************************************************************************)
(* The contract.                                                           *)
(***************************************************************************)

\* The contract resolves what it has reduced; it may be asked to resolve a request
\* again, as computeResult() does as long as the request is not RESOLVED here.
\* fetchRequestActions() records the action (ActionFeed).
Dispatch(r) ==
  /\ Len(log) < MaxActions
  /\ r = NewRequest \/ r \in DOMAIN InOrder(Creates(1 .. reduced))
  /\ log' = Append(log, r)
  /\ UNCHANGED <<reduced, events, active, requests, actionState, storage, job, steady>>

\* A roll-up that was sent earlier, or by another process.
ReduceElsewhere(n) ==
  /\ n > reduced
  /\ reduced' = n
  /\ UNCHANGED <<log, events, active, requests, actionState, storage, job, steady>>

-----------------------------------------------------------------------------
(***************************************************************************)
(* fetchRequestEvents()                                                    *)
(***************************************************************************)
InPass(j) == job[j].pc \in {"fetchEvents", "store", "find", "findLatest", "next",
                            "saveRequest", "saveAction"}

\* fetchDkgRequestState(), answered by a node that may lag behind.
FetchState(j, n) ==
  /\ job[j].pc = "idle"
  /\ n \in 0 .. reduced
  /\ actionState' = [actionState EXCEPT ![Home[j]] = n]
  /\ steady' = (steady /\ \A k \in Job \ {j} : ~ InPass(k))
  /\ Goto(j, "fetchEvents")
  /\ UNCHANGED <<chainVars, events, active, requests, storage>>

\* Mutant: the batch of the last event is fetched again.
FromLastBatch == IF events = <<>> THEN 0 ELSE events[Len(events)].batch

\* Mutant: the number of the event is taken for that of the batch.
BatchAsEvent == Len(events)

\* The batch after that of the last event, whether that one is complete or not.
NextBatch == IF events = <<>> THEN 0 ELSE events[Len(events)].batch + 1

\* The events of the first n batches are returned.
FetchEvents(j, n) ==
  /\ job[j].pc = "fetchEvents"
  /\ n \in 0 .. Cardinality(Batches)
  /\ job' = [job EXCEPT ![j].pc = "store", ![j].batch = NextBatch, ![j].last = n,
                        ![j].dimension = 1, ![j].eventId = Len(events) + 1]
  /\ steady' = (steady /\ n = Cardinality(Batches))
  /\ UNCHANGED <<chainVars, events, active, requests, actionState, storage>>

EventsLeft(j) == job[j].batch < job[j].last

\* The document is found by batchId and eventId and written again, or inserted,
\* unless its eventId is taken (which is unique).
Upserts(j) ==
  \/ job[j].eventId = Len(events) + 1
  \/ job[j].eventId <= Len(events) /\ events[job[j].eventId].batch = job[j].batch

AfterEvent(j) ==
  [job[j] EXCEPT !.eventId = @ + 1,
                 !.dimension = IF @ = 1 THEN 2 ELSE 1,
                 !.batch = IF job[j].dimension = 1 THEN @ ELSE @ + 1]

StoreEvent(j) ==
  /\ job[j].pc = "store" /\ EventsLeft(j) /\ Upserts(j)
  /\ LET event == [batch |-> job[j].batch, dimension |-> job[j].dimension]
     IN  events' = [e \in 1 .. Len(events) \cup {job[j].eventId} |->
                      IF e = job[j].eventId THEN event ELSE events[e]]
  /\ job' = [job EXCEPT ![j] = AfterEvent(j)]
  /\ UNCHANGED <<chainVars, active, requests, actionState, storage, steady>>

EventsDone(j) ==
  /\ job[j].pc = "store" /\ ~ EventsLeft(j)
  /\ job' = [job EXCEPT ![j] = [Idle EXCEPT !.pc = "find"]]
  /\ UNCHANGED <<chainVars, events, active, requests, actionState, storage, steady>>

\* fetch() starts over, or gives up after MaxRetries attempts, and the trees
\* are updated.
Retry(j) ==
  /\ \E label \in {"idle", AfterPass(j)} : job' = [job EXCEPT ![j] = [Idle EXCEPT !.pc = label]]
  /\ UNCHANGED <<chainVars, events, active, requests, actionState, storage>>

\* The eventId is taken by an event of another batch.
DuplicateEvent(j) ==
  /\ job[j].pc = "store" /\ EventsLeft(j) /\ ~ Upserts(j)
  /\ Retry(j)
  /\ UNCHANGED steady

-----------------------------------------------------------------------------
(***************************************************************************)
(* updateRequestActions()                                                  *)
(***************************************************************************)

NotActive(n) == 1 .. n \ active

\* The state is read from the process, where another job may have put a newer or
\* an older one, and the action with that state is recorded.
Find(j) ==
  /\ job[j].pc = "find"
  /\ actionState[Home[j]] > 0
  /\ job' = [job EXCEPT ![j].pc = "findLatest", ![j].actions = NotActive(actionState[Home[j]])]
  /\ UNCHANGED <<chainVars, events, active, requests, actionState, storage, steady>>

\* It is not recorded yet (ActionFeed), or nothing was reduced.
FindNothing(j) ==
  /\ job[j].pc = "find"
  /\ Goto(j, AfterPass(j))
  /\ UNCHANGED <<chainVars, events, active, requests, actionState, storage, steady>>

FindLatest(j) ==
  /\ job[j].pc = "findLatest"
  /\ job' = [job EXCEPT ![j].pc = "next", ![j].nextRequestId = Len(requests)]
  /\ UNCHANGED <<chainVars, events, active, requests, actionState, storage, steady>>

\* Mutant: the actions are sorted the other way.
ReachedLast(ids) == {i \in ids : \A h \in ids : i >= h}

\* The first of the actions found, if any is left.
Reached(ids) == {i \in ids : \A h \in ids : i <= h}

\* The unique indexes on requestId and task admit the document of an action (each
\* is for a task of its own).
Admits(j, i) ==
  job[j].nextRequestId = Len(requests) /\ \A d \in DOMAIN requests : requests[d].create # i

Create(j) ==
  /\ job[j].pc = "next"
  /\ \E i \in Reached(job[j].actions) :
       /\ log[i] = NewRequest /\ Admits(j, i)
       /\ requests' = Append(requests, [create |-> i, resolve |-> 0, result |-> NoEvents])
  /\ job' = [job EXCEPT ![j].pc = "saveAction", ![j].nextRequestId = @ + 1]
  /\ UNCHANGED <<chainVars, events, active, actionState, storage, steady>>

\* Mutant: the error is ignored.
DuplicateIgnored(j) ==
  /\ job[j].pc = "next"
  /\ \E i \in Reached(job[j].actions) : log[i] = NewRequest /\ ~ Admits(j, i)
  /\ Goto(j, "saveAction")
  /\ UNCHANGED <<chainVars, events, active, requests, actionState, storage, steady>>

DuplicateRequest(j) ==
  /\ job[j].pc = "next"
  /\ \E i \in Reached(job[j].actions) : log[i] = NewRequest /\ ~ Admits(j, i)
  /\ Retry(j)
  /\ UNCHANGED steady

\* The events of a request, whichever batch they are of.
EventsOf(r) == {[batch |-> events[e].batch, dimension |-> events[e].dimension] :
                  e \in {x \in DOMAIN events : log[ActionOf(events[x].batch)] = r}}

FindRequest(j) ==
  /\ job[j].pc = "next"
  /\ \E i \in Reached(job[j].actions) :
       /\ log[i] \in 0 .. Len(requests) - 1
       /\ job' = [job EXCEPT ![j].pc = "saveRequest", ![j].result = EventsOf(log[i])]
  /\ UNCHANGED <<chainVars, events, active, requests, actionState, storage, steady>>

\* The request is RESOLVED once resolve is set.
SaveRequest(j) ==
  /\ job[j].pc = "saveRequest"
  /\ \E i \in Reached(job[j].actions) :
       requests' = [requests EXCEPT ![log[i] + 1].resolve = i,
                                    ![log[i] + 1].result = job[j].result]
  /\ job' = [job EXCEPT ![j].pc = "saveAction", ![j].result = NoEvents]
  /\ UNCHANGED <<chainVars, events, active, actionState, storage, steady>>

SaveAction(j) ==
  /\ job[j].pc = "saveAction"
  /\ active' = active \cup Reached(job[j].actions)
  /\ job' = [job EXCEPT ![j].pc = "next", ![j].actions = @ \ Reached(@)]
  /\ UNCHANGED <<chainVars, events, requests, actionState, storage, steady>>

\* (Requests are then expired against the genesis time, of which none is older.)
PassDone(j) ==
  /\ job[j].pc = "next"
  /\ job[j].actions = {}
  /\ job' = [job EXCEPT ![j] = [Idle EXCEPT !.pc = AfterPass(j)]]
  /\ UNCHANGED <<chainVars, events, active, requests, actionState, storage, steady>>

\* Between a request and its action, or between two events of a batch.
InTheMiddle(j) ==
  \/ job[j].pc = "saveAction"
  \/ job[j].pc = "store" /\ job[j].dimension = 2

\* An awaited call throws.
FetchThrows(j) ==
  /\ InPass(j)
  /\ Retry(j)
  /\ steady' = (steady /\ ~ InTheMiddle(j))

-----------------------------------------------------------------------------
(***************************************************************************)
(* updateMerkleTrees(), the leaves of requests                             *)
(***************************************************************************)

Leaves == [r \in 0 .. Len(requests) - 1 |-> [create |-> requests[r + 1].create,
                                             result |-> requests[r + 1].resolve]]

FindRequests(j) ==
  /\ job[j].pc = "findRequests"
  /\ storage' = Leaves
  /\ Goto(j, "updated")
  /\ UNCHANGED <<chainVars, events, active, requests, actionState, steady>>

\* A job that only updates, or whose update throws.
Skip(j) ==
  /\ job[j].pc \in {"findRequests", "updated"}
  /\ Return(j)
  /\ UNCHANGED <<chainVars, events, active, requests, actionState, storage, steady>>

-----------------------------------------------------------------------------
(***************************************************************************)
(* rollupRequest()                                                         *)
(***************************************************************************)

\* The actions recorded so far, as many as the first n.
FindBatch(j, n) ==
  /\ job[j].pc = "updated"
  /\ NotActive(n) # {}
  /\ job' = [job EXCEPT ![j].pc = "fetchState", ![j].actions = NotActive(n)]
  /\ UNCHANGED <<chainVars, events, active, requests, actionState, storage, steady>>

\* fetchDkgRequestState(), which may lag behind here, too, and sets the state of the
\* process under a pass of another job that has already fetched its events.
FetchRollupState(j) ==
  /\ job[j].pc = "fetchState"
  /\ \E n \in 0 .. reduced :
       /\ actionState' = [actionState EXCEPT ![Home[j]] = n]
       /\ job' = [job EXCEPT ![j].pc = "clone", ![j].state = n]
  /\ steady' = (steady /\ \A k \in Job \ {j} : ~ InPass(k))
  /\ UNCHANGED <<chainVars, events, active, requests, storage>>

\* The witnesses lead to the roots, and are those of the next ids.
WitnessesFit(j) == storage = TreesAfter(job[j].state)

\* UpdateRequest.init is proved, the trees are cloned; the loop over the actions,
\* UpdateRequest.initialize and UpdateRequest.resolve, works on the clones only.
CloneAndProve(j) ==
  /\ job[j].pc = "clone"
  /\ WitnessesFit(j)
  /\ Goto(j, "send")
  /\ UNCHANGED <<chainVars, events, active, requests, actionState, storage, steady>>

\* A proof that does not fit throws.
ProveFails(j) ==
  /\ job[j].pc = "clone"
  /\ ~ WitnessesFit(j)
  /\ Return(j)
  /\ UNCHANGED <<chainVars, events, active, requests, actionState, storage, steady>>

\* The contract accepts a proof that leads from its state along its actions.
Accepted(j) ==
  /\ job[j].state = reduced
  /\ job[j].actions = reduced + 1 .. reduced + Cardinality(job[j].actions)

\* The transaction is sent, and included before the job is over (ReduceElsewhere
\* if it is included later).
Send(j) ==
  /\ job[j].pc = "send"
  /\ reduced' = IF Accepted(j) THEN reduced + Cardinality(job[j].actions) ELSE reduced
  /\ Return(j)
  /\ UNCHANGED <<log, events, active, requests, actionState, storage, steady>>

\* An awaited call throws.
RollupThrows(j) ==
  /\ job[j].pc \in {"fetchState", "clone", "send"}
  /\ Return(j)
  /\ UNCHANGED <<chainVars, events, active, requests, actionState, storage, steady>>

\* A process stops.
Crash(p) ==
  /\ actionState' = [actionState EXCEPT ![p] = 0]
  /\ storage' = IF p = Here THEN <<>> ELSE storage
  /\ job' = [j \in Job |-> IF Home[j] = p THEN Idle ELSE job[j]]
  /\ steady' = (steady /\ \A j \in Job : Home[j] = p => ~ InTheMiddle(j))
  /\ UNCHANGED <<chainVars, events, active, requests>>

-----------------------------------------------------------------------------
ChainStep ==
  \/ \E r \in {NewRequest} \cup 0 .. MaxActions - 1 : Dispatch(r)
  \/ \E n \in 1 .. Len(log) : ReduceElsewhere(n)

Update(j) ==
  \/ \E n \in 0 .. MaxActions : FetchState(j, n) \/ FetchEvents(j, n)
  \/ StoreEvent(j) \/ EventsDone(j) \/ DuplicateEvent(j)
  \/ Find(j) \/ FindNothing(j) \/ FindLatest(j) \/ Create(j) \/ DuplicateRequest(j)
  \/ FindRequest(j) \/ SaveRequest(j) \/ SaveAction(j) \/ PassDone(j)
  \/ FindRequests(j)

Rollup(j) ==
  \/ \E n \in 1 .. Len(log) : FindBatch(j, n)
  \/ FetchRollupState(j) \/ CloneAndProve(j) \/ ProveFails(j) \/ Send(j)

Fail == (\E p \in Process : Crash(p)) \/ (\E j \in Job : FetchThrows(j) \/ RollupThrows(j))

Next == ChainStep \/ (\E j \in Job : Update(j) \/ Skip(j) \/ Rollup(j)) \/ Fail

Spec == Init /\ [][Next]_vars

-----------------------------------------------------------------------------
(***************************************************************************)
(* Properties.                                                             *)
(***************************************************************************)
Event == [batch : 0 .. MaxActions - 1, dimension : Dimension]

TypeOK ==
  /\ log \in Seq({NewRequest} \cup 0 .. MaxActions - 1) /\ Len(log) <= MaxActions
  /\ reduced \in 0 .. Len(log) /\ actionState \in [Process -> 0 .. reduced]
  /\ events \in Seq(Event) /\ active \subseteq 1 .. reduced
  /\ requests \in Seq([create : 1 .. reduced, resolve : 0 .. reduced, result : SUBSET Event])
  /\ \A r \in DOMAIN storage : storage[r] \in [create : 1 .. reduced, result : 0 .. reduced]
  /\ job \in [Job -> [pc : PC, state : 0 .. reduced, batch : 0 .. MaxActions,
                      last : 0 .. MaxActions, dimension : Dimension,
                      eventId : 0 .. 2 * MaxActions + 1, actions : SUBSET (1 .. Len(log)),
                      nextRequestId : 0 .. Len(requests), result : SUBSET Event]]
  /\ steady \in BOOLEAN

(* The documents are the requests of the contract, under their ids, and    *)
(* one is RESOLVED only by an action that was reduced and is its own,      *)
(* however passes overlap, stop and repeat.  (Two unique indexes make it   *)
(* so: a pass that counted too far is refused the task, one that counted   *)
(* too little the id.)                                                     *)
RequestsAreOnChain ==
  LET creates == InOrder(Creates(1 .. reduced))
  IN  \A d \in DOMAIN requests :
        /\ d - 1 \in DOMAIN creates /\ requests[d].create = creates[d - 1]
        /\ requests[d].resolve # 0 => log[requests[d].resolve] = d - 1

(* Actions become active in the order of the chain, each with its effect   *)
(* on the documents.                                                       *)
ActiveInOrder ==
  /\ active = 1 .. Cardinality(active)
  /\ Len(requests) >= Cardinality(Creates(active))
  /\ \A i \in Resolves(active) : requests[log[i] + 1].resolve # 0

\* The request exists, its action is not active, and nobody is about to save it.
Stranded(i) ==
  /\ \E d \in DOMAIN requests : requests[d].create = i
  /\ i \notin active
  /\ \A j \in Job : job[j].pc = "saveAction" => i \notin Reached(job[j].actions)

(* What a stop between a request and its action leaves behind is final:    *)
(* every later pass is refused the second document of the same task, and   *)
(* neither that action nor any after it ever becomes active.               *)
StrandedForEver ==
  [][\A i \in ActionId : Stranded(i) =>
       Stranded(i)' /\ {h \in active' : h > i} = {}]_vars

(* While the passes neither overlap nor stop in the middle, and are shown  *)
(* all events, a resolved request holds the events of every dimension of   *)
(* its result; otherwise parts may be missing, and stay so: the batch of   *)
(* the last event is never looked at again.                                *)
WholeWhileSteady ==
  steady =>
    \A d \in DOMAIN requests : requests[d].resolve # 0 =>
      \E b \in Batches : /\ ActionOf(b) = requests[d].resolve
                         /\ \A k \in Dimension : [batch |-> b, dimension |-> k] \in requests[d].result

(* A leaf in memory is the one that the contract had at some time.         *)
LeavesAreBehind ==
  LET creates == InOrder(Creates(1 .. reduced))
  IN  \A r \in DOMAIN storage :
        /\ r \in DOMAIN creates /\ storage[r].create = creates[r]
        /\ storage[r].result \in {0} \cup ResolvesOf(r, 1 .. reduced)

(* What overlaps and stops cannot break: documents, active actions and     *)
(* leaves are those of the contract at some time, under their ids.         *)
RequestsAreRight == RequestsAreOnChain /\ ActiveInOrder /\ LeavesAreBehind

(* While the passes are steady, the trees are those that the contract had  *)
(* at some time, all of one and the same: the only reason for a proof to   *)
(* fail is that they are older.                                            *)
TreesOfOneTime == steady => \E n \in 0 .. reduced : storage = TreesAfter(n)

(* What they can break, and what holds without them: whole results, and    *)
(* trees of one and the same time.                                         *)
RightWhileSteady == WholeWhileSteady /\ TreesOfOneTime
=============================================================================
