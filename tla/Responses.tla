------------------------------ MODULE Responses ------------------------------
(***************************************************************************)
(* DkgUsageContractsService, the response contract: fetchResponseEvents(), *)
(* updateResponseActions(), the trees of responses, rollupResponse() and   *)
(* computeResult().  Members respond to a request by actions.  When they   *)
(* are as many as the threshold, a transaction finalizes the request and   *)
(* emits a batch of events, which name the actions and give their sum; a   *)
(* second one resolves it with the result.  The requests are there from    *)
(* the start (Requests).                                                   *)
(*                                                                         *)
(* Jobs overlap; they are of one process and share its trees.              *)
(*                                                                         *)
(*   log        the actions recorded, and known to be rolled up: per       *)
(*              action, its request (members are distinct)                 *)
(*   finalized  the transactions that finalized a request, one batch each  *)
(*   computed   the requests for which the contract accepted a result      *)
(*   resolved   the requests whose document is RESOLVED                    *)
(*   events     the documents of events                                    *)
(*   processed  eventId of those marked processed                          *)
(*   active     the actions marked active                                  *)
(*   responses  per request, how often its responses were pushed, all of   *)
(*              them (as many as the threshold)                            *)
(*   finalizedD per request, how often its sum was pushed                  *)
(*   storage    the trees, and the counters from which the process tree is *)
(*              built                                                      *)
(*   job        the local variables of each job                            *)
(*   steady     history: no pass over the events began while another one   *)
(*              was not over, none stopped inside a batch or between a     *)
(*              request and its event                                      *)
(***************************************************************************)
EXTENDS Integers, Sequences, FiniteSets

CONSTANTS Job,          \* overlapping jobs
          LastRequest,  \* the requests are 0 .. LastRequest
          Threshold,    \* responses that a request needs
          EventOrder,   \* the order of the two kinds of events in a batch
          MaxCounter,   \* how many times FULL_DIMENSION fits into a UInt8
          Before,       \* the actions at the start
          MaxResponses  \* bound: actions

Kind == {"processed", "finalized"}

ASSUME ResponsesAssumption ==
  /\ IsFiniteSet(Job) /\ LastRequest \in Nat /\ Threshold \in Nat \ {0}
  /\ EventOrder \in {<<"processed", "finalized">>, <<"finalized", "processed">>}
  /\ MaxCounter \in Nat \ {0} /\ MaxResponses \in Nat
  /\ Before \in Seq(0 .. LastRequest) /\ Len(Before) <= MaxResponses

VARIABLES log, finalized, computed, resolved, events, processed, active,
          responses, finalizedD, storage, job, steady

chainVars == <<log, finalized, computed>>
docVars == <<resolved, events, processed, active, responses, finalizedD>>
vars == <<chainVars, docVars, storage, job, steady>>

ActionId == 1 .. MaxResponses
EventId == 1 .. 2 * MaxResponses
Requests == 0 .. LastRequest

\* How often something was pushed; Many for all that is more than once.
Many == 2
More(n) == IF n < Many THEN n + 1 ELSE Many
Times(k, n) == IF k = 0 THEN n ELSE IF k = 1 THEN More(n) ELSE Many

First(ids) == {i \in ids : \A h \in ids : i <= h}

\* The actions that k transactions finalized.
ActionsOf(k) == UNION {finalized[b].actions : b \in 1 .. k}

\* The trees of the contract after k of them: contributions, the requests that
\* have a sum, and the actions that were processed, with a counter of 1 (for
\* FULL_DIMENSION).
TreesAfter(k) ==
  [contribution |-> ActionsOf(k),
   response |-> [r \in {finalized[b].request : b \in 1 .. k} |-> 1],
   process |-> [a \in ActionsOf(k) |-> 1]]

EmptyStorage == [contribution |-> {}, response |-> <<>>, process |-> <<>>,
                 mapping |-> [a \in ActionId |-> 0]]

PC == {"idle", "store", "next", "save", "saveEvent", "findRequests",
       "findProcessed", "findActive", "updated", "counted", "found", "fetchState", "send",
       "compute"}

Idle == [pc |-> "idle", batch |-> 1, last |-> 0, index |-> 1, eventId |-> 0, todo |-> {},
         sums |-> 0, pending |-> {}, count |-> 0, request |-> 0, actions |-> {}, state |-> 0]

Init ==
  /\ log = Before /\ finalized = <<>> /\ computed = {}
  /\ resolved = {} /\ events = {} /\ processed = {} /\ active = {}
  /\ responses = [r \in Requests |-> 0]
  /\ finalizedD = [r \in Requests |-> 0]
  /\ storage = EmptyStorage
  /\ job = [j \in Job |-> Idle]
  /\ steady = TRUE

Goto(j, label) == job' = [job EXCEPT ![j].pc = label]
Return(j) == job' = [job EXCEPT ![j] = Idle]

-----------------------------------------------------------------------------
(***************************************************************************)
(* The contracts.                                                          *)
(***************************************************************************)
\* A member responds; fetchResponseActions() records the action (ActionFeed), it is
\* rolled up, and updateRollupActions() says so (RollupContract).
Respond(r) ==
  /\ Len(log) < MaxResponses
  /\ log' = Append(log, r)
  /\ UNCHANGED <<finalized, computed, docVars, storage, job, steady>>

\* The result is rolled up, and updateRequestActions() says so (Requests).
Resolve(r) ==
  /\ r \in computed \ resolved
  /\ resolved' = resolved \cup {r}
  /\ UNCHANGED <<chainVars, events, processed, active, responses, finalizedD, storage, job, steady>>

-----------------------------------------------------------------------------
(***************************************************************************)
(* fetchResponseEvents()                                                   *)
(***************************************************************************)
InPass(j) == job[j].pc \in {"store", "next", "save", "saveEvent"}

\* The last event of each kind, by batchId and then by eventId.
Last ==
  {e \in events : \A f \in events : f.kind = e.kind =>
     f.batch < e.batch \/ (f.batch = e.batch /\ f.eventId <= e.eventId)}

\* The batch after the last one of any kind, whether it is complete or not.
NextBatch == Cardinality({b \in DOMAIN finalized : \E e \in Last : e.batch >= b}) + 1

NextEventId == Cardinality({n \in EventId : \E e \in Last : e.eventId >= n}) + 1

\* (An answer that lags behind is as one that came earlier.)
FetchEvents(j) ==
  /\ job[j].pc = "idle"
  /\ job' = [job EXCEPT ![j].pc = "store", ![j].batch = NextBatch, ![j].last = Len(finalized),
                        ![j].eventId = NextEventId]
  /\ steady' = (steady /\ \A k \in Job \ {j} : ~ InPass(k))
  /\ UNCHANGED <<chainVars, docVars, storage>>

EventsLeft(j) == job[j].batch <= job[j].last

EventOf(j) == [batch |-> job[j].batch, eventId |-> job[j].eventId, kind |-> EventOrder[job[j].index]]

\* Found by batchId and eventId and written again, or inserted, unless its eventId is
\* taken in the collection of its kind (where it is unique): then the call throws.
Upserts(j) ==
  \A e \in events : e.kind = EventOf(j).kind /\ e.eventId = job[j].eventId => e.batch = job[j].batch

StoreEvent(j) ==
  /\ job[j].pc = "store" /\ EventsLeft(j) /\ Upserts(j)
  /\ events' = events \cup {EventOf(j)}
  /\ job' = [job EXCEPT ![j].eventId = @ + 1,
                        ![j].index = IF @ = 1 THEN 2 ELSE 1,
                        ![j].batch = IF job[j].index = 1 THEN @ ELSE @ + 1]
  /\ UNCHANGED <<chainVars, resolved, processed, active, responses, finalizedD, storage, steady>>

\* fetch() starts over, or gives up after MaxRetries attempts, and the trees
\* are updated.
Retry(j) ==
  /\ \E label \in {"idle", "findRequests"} : job' = [job EXCEPT ![j] = [Idle EXCEPT !.pc = label]]
  /\ UNCHANGED <<chainVars, docVars, storage>>

-----------------------------------------------------------------------------
(***************************************************************************)
(* updateResponseActions()                                                 *)
(***************************************************************************)

NotProcessed == {e.eventId : e \in {x \in events : x.kind = "processed"}} \ processed

\* The events that are left; after the last one, the trees are updated.
Proceed(j, ids) ==
  job' = [job EXCEPT ![j] = [Idle EXCEPT !.pc = IF ids = {} THEN "findRequests" ELSE "next",
                                         !.todo = ids]]

FindEvents(j) ==
  /\ job[j].pc = "store" /\ ~ EventsLeft(j)
  /\ Proceed(j, NotProcessed)
  /\ UNCHANGED <<chainVars, docVars, storage, steady>>

\* The transaction whose processed event has the id.
Transaction(n) ==
  finalized[CHOOSE b \in DOMAIN finalized :
              [batch |-> b, eventId |-> n, kind |-> "processed"] \in events]

SumsOf(r) == Cardinality({e \in events : e.kind = "finalized" /\ finalized[e.batch].request = r})

\* Request, actions and finalized events are found, and pushed in memory; the
\* actions are being saved, when the save of the request begins.
LoadEvent(j) ==
  /\ job[j].pc = "next"
  /\ \E n \in First(job[j].todo) :
       job' = [job EXCEPT ![j].pc = "save", ![j].pending = {"request", "actions"},
                          ![j].sums = IF SumsOf(Transaction(n).request) > Many THEN Many
                                      ELSE SumsOf(Transaction(n).request)]
  /\ UNCHANGED <<chainVars, docVars, storage, steady>>

\* Mutant: the event is saved once the request is.
SavedEarly(j, what) ==
  job' = [job EXCEPT ![j].pc = IF what = "request" THEN "saveEvent" ELSE "save",
                     ![j].pending = @ \ {what}, ![j].sums = IF what = "request" THEN 0 ELSE @]

SaveDone(j, what) ==
  job' = [job EXCEPT ![j].pc = IF job[j].pending = {what} THEN "saveEvent" ELSE "save",
                     ![j].pending = @ \ {what}, ![j].sums = IF what = "request" THEN 0 ELSE @]

\* Mongoose pushes to what is in the database.
SaveRequest(j) ==
  /\ job[j].pc = "save" /\ "request" \in job[j].pending
  /\ \E n \in First(job[j].todo) :
       LET t == Transaction(n)
       IN  /\ responses' = [responses EXCEPT ![t.request] = More(@)]
           /\ finalizedD' = [finalizedD EXCEPT ![t.request] = Times(job[j].sums, @)]
  /\ SaveDone(j, "request")
  /\ UNCHANGED <<chainVars, resolved, events, processed, active, storage, steady>>

\* One of the actions is saved, in any order; then they all are.
SaveAction(j) ==
  /\ job[j].pc = "save" /\ "actions" \in job[j].pending
  /\ \E n \in First(job[j].todo) : \E a \in Transaction(n).actions \ active :
       active' = active \cup {a}
  /\ UNCHANGED <<chainVars, resolved, events, processed, responses, finalizedD, storage, job, steady>>

SaveActions(j) ==
  /\ job[j].pc = "save" /\ "actions" \in job[j].pending
  /\ \E n \in First(job[j].todo) : Transaction(n).actions \subseteq active
  /\ SaveDone(j, "actions")
  /\ UNCHANGED <<chainVars, docVars, storage, steady>>

SaveEvent(j) ==
  /\ job[j].pc = "saveEvent"
  /\ processed' = processed \cup First(job[j].todo)
  /\ Proceed(j, job[j].todo \ First(job[j].todo))
  /\ UNCHANGED <<chainVars, resolved, events, active, responses, finalizedD, storage, steady>>

\* Between the request and its event, or between two events of a batch.
InTheMiddle(j) ==
  \/ job[j].pc = "saveEvent"
  \/ job[j].pc = "save" /\ "request" \notin job[j].pending
  \/ job[j].pc = "store" /\ job[j].index = 2

\* An awaited call throws; that of StoreEvent does if the eventId is taken.
FetchThrows(j) ==
  /\ InPass(j)
  /\ Retry(j)
  /\ steady' = (steady /\ ~ InTheMiddle(j))

-----------------------------------------------------------------------------
(***************************************************************************)
(* updateMerkleTrees(), the leaves of responses, and                       *)
(* updateProcessStorageForResponse()                                       *)
(***************************************************************************)
Overwrite(leaves, new) ==
  [x \in DOMAIN leaves \cup DOMAIN new |-> IF x \in DOMAIN new THEN new[x] ELSE leaves[x]]

FindRequests(j) ==
  /\ job[j].pc = "findRequests"
  /\ storage' = [storage EXCEPT
       !.contribution = @ \cup {a \in ActionId : \E b \in DOMAIN finalized : /\ a \in finalized[b].actions
                                                                       /\ responses[finalized[b].request] > 0},
       !.response = Overwrite(@, [r \in {q \in Requests : finalizedD[q] > 0} |-> finalizedD[r]])]
  /\ Goto(j, "findProcessed")
  /\ UNCHANGED <<chainVars, docVars, steady>>

\* The processed events that name an action, whether they are marked or not.
Naming(a) == {e \in events : e.kind = "processed" /\ a \in finalized[e.batch].actions}

AtMost(n, max) == IF n > max THEN max ELSE n

\* Mutant: a counter that does not fit wraps around.
Wrapped == [a \in ActionId |-> (storage.mapping[a] + Cardinality(Naming(a))) % (MaxCounter + 1)]

\* The counters are added to at each rebuild (beyond what fits, one stands for all).
Counted == [a \in ActionId |-> AtMost(storage.mapping[a] + Cardinality(Naming(a)), MaxCounter + 1)]

FindProcessed(j) ==
  /\ job[j].pc = "findProcessed"
  /\ storage' = [storage EXCEPT !.mapping = Counted]
  /\ Goto(j, "findActive")
  /\ UNCHANGED <<chainVars, docVars, steady>>

\* Mutant: the width of a counter is not checked.
AllCounted == {a \in active : storage.mapping[a] > 0}

\* The leaves are written in the order of actionId, until a counter does not fit.
Written ==
  {a \in active : /\ storage.mapping[a] > 0
                  /\ \A c \in active : c <= a => storage.mapping[c] <= MaxCounter}

FindActive(j) ==
  /\ job[j].pc = "findActive"
  /\ storage' = [storage EXCEPT !.process = Overwrite(@, [a \in Written |-> storage.mapping[a]])]
  /\ Goto(j, "updated")
  /\ UNCHANGED <<chainVars, docVars, steady>>

\* An awaited call throws, and the rest is not written.
UpdateThrows(j) ==
  /\ job[j].pc \in {"findRequests", "findProcessed", "findActive"}
  /\ Goto(j, "updated")
  /\ UNCHANGED <<chainVars, docVars, storage, steady>>

-----------------------------------------------------------------------------
(***************************************************************************)
(* rollupResponse()                                                        *)
(***************************************************************************)
Initialized == Requests \ resolved

\* The actions of a request among the first n.
RolledUp(r, n) == {a \in DOMAIN log : a <= n /\ log[a] = r}

Candidates(r, n) == RolledUp(r, n) \ active

\* The number of actions that are rolled up.
Count(j) ==
  /\ job[j].pc = "updated"
  /\ job' = [job EXCEPT ![j].pc = "counted", ![j].count = Len(log)]
  /\ UNCHANGED <<chainVars, docVars, storage, steady>>

\* Mutant: every request is looked at.
AnyRequest(j) ==
  /\ job[j].pc = "counted"
  /\ \E r \in Initialized : job' = [job EXCEPT ![j].pc = "found", ![j].request = r]
  /\ UNCHANGED <<chainVars, docVars, storage, steady>>

\* Of the requests that are not resolved, the first one decides: the loop returns.
FindRequest(j) ==
  /\ job[j].pc = "counted"
  /\ \E r \in First(Initialized) : job' = [job EXCEPT ![j].pc = "found", ![j].request = r]
  /\ UNCHANGED <<chainVars, docVars, storage, steady>>

\* Its actions that are not active and whose actionId is below that number: an action
\* that was rolled up since is not among them, unless it was counted and is recorded
\* only now.
FindBatch(j) ==
  /\ job[j].pc = "found"
  /\ \E n \in job[j].count .. Len(log) :
       LET found == Candidates(job[j].request, n)
       IN  IF Cardinality(found) = Threshold
           THEN job' = [job EXCEPT ![j].pc = "fetchState", ![j].count = 0, ![j].actions = found]
           ELSE Return(j)
  /\ UNCHANGED <<chainVars, docVars, storage, steady>>

\* The witnesses of the first proofs lead to the roots.
WitnessesFit(k) == /\ storage.contribution = TreesAfter(k).contribution
                   /\ storage.process = TreesAfter(k).process

\* fetchDkgResponseState(); the trees are cloned, and the loops over actions and
\* dimensions (contribute, compute, finalize) work on the clones only.  A proof
\* that does not fit throws.
FetchState(j) ==
  /\ job[j].pc = "fetchState"
  /\ IF WitnessesFit(Len(finalized))
     THEN job' = [job EXCEPT ![j].pc = "send", ![j].state = Len(finalized)]
     ELSE Return(j)
  /\ UNCHANGED <<chainVars, docVars, storage, steady>>

\* The contract is where the proof began, it finalizes a request once, and the
\* witness of the request, taken from the trees themselves, leads to the root.
Accepted(j) ==
  /\ job[j].state = Len(finalized)
  /\ \A b \in DOMAIN finalized : finalized[b].request # job[j].request
  /\ storage.response = TreesAfter(Len(finalized)).response

\* The transaction is included before the job is over, or not at all.
Send(j) ==
  /\ job[j].pc = "send"
  /\ finalized' = IF Accepted(j)
                  THEN Append(finalized, [request |-> job[j].request, actions |-> job[j].actions])
                  ELSE finalized
  /\ Return(j)
  /\ UNCHANGED <<log, computed, docVars, storage, steady>>

-----------------------------------------------------------------------------
(***************************************************************************)
(* computeResult()                                                         *)
(***************************************************************************)

\* Mutant: more responses than the threshold will do.
AtLeast(r) == responses[r] >= 1

\* The responses in the document are as many as the threshold.
Complete(r) == responses[r] = 1

\* The first request, of those that are not resolved, with enough responses; its
\* document is read now.
FindComplete(j) ==
  /\ job[j].pc = "updated"
  /\ \E r \in First({q \in Initialized : Complete(q)}) :
       job' = [job EXCEPT ![j].pc = "compute", ![j].request = r, ![j].sums = finalizedD[r]]
  /\ UNCHANGED <<chainVars, docVars, storage, steady>>

\* The sums, one per dimension, give a result; the tree of responses leads to the
\* root of the contract.  Too few sums throw, too many are not what was finalized.
ResultFits(j) == job[j].sums = 1 /\ storage.response = TreesAfter(Len(finalized)).response

\* ComputeResult is proved, RequestContract.resolve sent.  As long as the request
\* is not RESOLVED here, every job sends it again.
Compute(j) ==
  /\ job[j].pc = "compute"
  /\ computed' = IF ResultFits(j) THEN computed \cup {job[j].request} ELSE computed
  /\ Return(j)
  /\ UNCHANGED <<log, finalized, docVars, storage, steady>>

\* Nothing to do, a job that only updates, or an awaited call throws.
Skip(j) ==
  /\ job[j].pc \in {"updated", "counted", "found", "fetchState", "send", "compute"}
  /\ Return(j)
  /\ UNCHANGED <<chainVars, docVars, storage, steady>>

\* The process stops.
Crash ==
  /\ storage' = EmptyStorage
  /\ job' = [j \in Job |-> Idle]
  /\ steady' = (steady /\ \A j \in Job : ~ InTheMiddle(j))
  /\ UNCHANGED <<chainVars, docVars>>

-----------------------------------------------------------------------------
ChainStep == \E r \in Requests : Respond(r) \/ Resolve(r)

Update(j) ==
  \/ FetchEvents(j) \/ StoreEvent(j)
  \/ FindEvents(j) \/ LoadEvent(j) \/ SaveRequest(j) \/ SaveAction(j) \/ SaveActions(j) \/ SaveEvent(j)
  \/ FindRequests(j) \/ FindProcessed(j) \/ FindActive(j)

Rollup(j) ==
  \/ Count(j) \/ FindRequest(j) \/ FindBatch(j) \/ FetchState(j) \/ Send(j)
  \/ FindComplete(j) \/ Compute(j)

Fail == Crash \/ \E j \in Job : FetchThrows(j) \/ UpdateThrows(j)

Next == ChainStep \/ (\E j \in Job : Update(j) \/ Rollup(j) \/ Skip(j)) \/ Fail

Spec == Init /\ [][Next]_vars

-----------------------------------------------------------------------------
(***************************************************************************)
(* Properties.                                                             *)
(***************************************************************************)
TypeOK ==
  /\ log \in Seq(Requests) /\ Len(log) <= MaxResponses
  /\ finalized \in Seq([request : Requests, actions : SUBSET DOMAIN log])
  /\ computed \subseteq {finalized[b].request : b \in DOMAIN finalized} /\ resolved \subseteq computed
  /\ events \subseteq [batch : DOMAIN finalized, eventId : EventId, kind : Kind]
  /\ processed \subseteq {e.eventId : e \in events} /\ active \subseteq ActionsOf(Len(finalized))
  /\ responses \in [Requests -> 0 .. Many] /\ finalizedD \in [Requests -> 0 .. Many]
  /\ storage.contribution \subseteq ActionsOf(Len(finalized))
  /\ \A r \in DOMAIN storage.response : storage.response[r] \in 1 .. Many
  /\ \A a \in DOMAIN storage.process : a \in active /\ storage.process[a] \in 1 .. MaxCounter
  /\ storage.mapping \in [ActionId -> 0 .. MaxCounter + 1]
  /\ job \in [Job -> [pc : PC, batch : 1 .. MaxResponses + 1, last : 0 .. Len(finalized),
                      index : 1 .. 2, eventId : 0 .. 2 * MaxResponses + 1, todo : SUBSET EventId,
                      sums : 0 .. Many, pending : SUBSET {"request", "actions"},
                      count : 0 .. MaxResponses, request : Requests, actions : SUBSET DOMAIN log, state : 0 .. Len(finalized)]]
  /\ steady \in BOOLEAN

(* Requests are answered in turn: the first one that is not RESOLVED hides *)
(* all others from rollupResponse(), so that no request is finalized       *)
(* before every earlier one is resolved, and each one once.                *)
AnsweredInTurn ==
  \A b \in DOMAIN finalized :
    /\ \A r \in 0 .. finalized[b].request - 1 : r \in resolved
    /\ \A c \in DOMAIN finalized : finalized[b].request = finalized[c].request => b = c

(* An event is marked processed, never to be looked at again, only when    *)
(* the request has its responses and every action it names is active; what *)
(* was pushed was finalized.                                               *)
ProcessedIsCounted ==
  /\ \A e \in events :
       e.kind = "processed" /\ e.eventId \in processed =>
         responses[finalized[e.batch].request] >= 1 /\ finalized[e.batch].actions \subseteq active
  /\ \A r \in Requests :
       responses[r] + finalizedD[r] > 0 => \E b \in DOMAIN finalized : finalized[b].request = r

(* While the passes neither overlap nor stop in the middle, the responses  *)
(* and the sum of a request are pushed once, and together.  (Overlapping   *)
(* passes even store a batch under two ids, and process it twice.)         *)
CountedOnceWhileSteady ==
  steady =>
    /\ \A r \in Requests : responses[r] <= 1 /\ finalizedD[r] = responses[r]
    /\ \A e, f \in events : e.batch = f.batch /\ e.kind = f.kind => e = f

(* How often responses are counted: at least once if processed, and once   *)
(* while the passes are steady.                                            *)
CountedRight == ProcessedIsCounted /\ CountedOnceWhileSteady

\* Some job is past the check that led it to a request.
InFlight(r, label) == \E j \in Job : job[j].pc = label /\ job[j].request = r

(* What is pushed twice is final: such a request is never resolved, unless *)
(* a job was computing the result already; nor is one of which more        *)
(* actions were rolled up than the threshold ever finalized, unless a job  *)
(* was proving that already, or had counted the actions when they were not *)
(* too many yet; and all requests after it wait for ever.                  *)
TooManyResponses(r) == responses[r] > 1 /\ r \notin computed /\ ~ InFlight(r, "compute")

TooMany(r, n) == Cardinality(RolledUp(r, n)) > Threshold

TooManyActions(r) ==
  /\ TooMany(r, Len(log))
  /\ \A b \in DOMAIN finalized : finalized[b].request # r
  /\ \A j \in Job : /\ job[j].pc = "counted" => TooMany(r, job[j].count)
                    /\ job[j].pc = "found" /\ job[j].request = r => TooMany(r, job[j].count)
  /\ ~ InFlight(r, "fetchState") /\ ~ InFlight(r, "send")

TooManyIsForEver ==
  [][\A r \in Requests : /\ TooManyResponses(r) => TooManyResponses(r)'
                         /\ TooManyActions(r) => TooManyActions(r)']_vars

(* The counter of a processed action is that of the contract only after    *)
(* exactly one rebuild of the trees: once a leaf is written with another   *)
(* one, no proof of this process fits until it is started again.           *)
CounterNeedsRestart ==
  [][\A a \in DOMAIN storage.process :
       storage.process[a] > 1 /\ storage' # EmptyStorage =>
         /\ a \in DOMAIN storage'.process /\ storage'.process[a] > 1
         /\ \A j \in Job : job[j].pc = "fetchState" => job'[j].pc # "send"]_vars

=============================================================================
