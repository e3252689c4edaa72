---------------------------- MODULE ResponsesProofs ----------------------------
(***************************************************************************)
(* What the responses guarantee for any number of jobs, requests and       *)
(* actions.  The argument: a job that proves is past all requests before   *)
(* its own, and the contract finalizes a request once; an id names one     *)
(* event of its kind, so that what a job has pushed for the event in its   *)
(* hands is of the transaction it will mark; and as long as the history is *)
(* steady, the events are those below one number, and what is pushed but   *)
(* not marked is in the hands of the only job in a pass.                   *)
(***************************************************************************)
EXTENDS Responses, FiniteSetTheorems, TLAPS

\* The local variables of a job, and the trees, are records, whatever their values.
IsLocal(l) ==
  l = [pc |-> l.pc, batch |-> l.batch, last |-> l.last, index |-> l.index,
       eventId |-> l.eventId, todo |-> l.todo, sums |-> l.sums, pending |-> l.pending,
       count |-> l.count, request |-> l.request, actions |-> l.actions, state |-> l.state]

IsStorage(s) ==
  s = [contribution |-> s.contribution, response |-> s.response, process |-> s.process,
       mapping |-> s.mapping]

ChainRight ==
  /\ log \in Seq(Requests) /\ Len(log) <= MaxResponses
  /\ finalized \in Seq([request : Requests, actions : SUBSET DOMAIN log])
  /\ \A b \in DOMAIN finalized :
       /\ finalized[b].actions # {}
       /\ \A a \in finalized[b].actions : log[a] = finalized[b].request
  /\ computed \subseteq {finalized[b].request : b \in DOMAIN finalized} /\ resolved \subseteq computed

\* An id names one event of its kind, and there are two of them per batch at most.
EventsRight ==
  /\ \A e \in events : e.eventId <= 2 * e.batch
  /\ events \subseteq [batch : DOMAIN finalized, eventId : EventId, kind : Kind]
  /\ IsFiniteSet(events)
  /\ \A e, f \in events : e.kind = f.kind /\ e.eventId = f.eventId => e.batch = f.batch

Processed == {e \in events : e.kind = "processed"}
ProcessedIds == {e.eventId : e \in Processed}

DocumentsRight ==
  /\ processed \subseteq ProcessedIds
  /\ active \subseteq ActionsOf(Len(finalized))
  /\ responses \in [Requests -> 0 .. Many] /\ finalizedD \in [Requests -> 0 .. Many]

\* A leaf of the process tree was written with the counter, which only grew since.
StorageRight ==
  /\ IsStorage(storage)
  /\ storage.contribution \subseteq ActionsOf(Len(finalized))
  /\ \A r \in DOMAIN storage.response : storage.response[r] \in 1 .. Many
  /\ storage.mapping \in [ActionId -> 0 .. MaxCounter + 1]
  /\ \A a \in DOMAIN storage.process :
       /\ a \in active /\ storage.process[a] \in 1 .. MaxCounter
       /\ storage.process[a] <= storage.mapping[a]

\* All requests before r are resolved.
InTurn(r) == \A q \in 0 .. r - 1 : q \in resolved

\* What was pushed for the event in a job's hands.
RequestPushed(l) == l.pc = "saveEvent" \/ (l.pc = "save" /\ "request" \notin l.pending)
ActionsPushed(l) == l.pc = "saveEvent" \/ (l.pc = "save" /\ "actions" \notin l.pending)

InHands(l) == {e \in Processed : e.eventId \in First(l.todo)}

LocalRight(l) ==
  /\ IsLocal(l) /\ l.pc \in PC
  /\ l.batch \in 1 .. MaxResponses + 1 /\ l.last \in 0 .. Len(finalized) /\ l.index \in 1 .. 2
  /\ l.eventId \in 0 .. 2 * l.batch + l.index - 2
  /\ (l.pc = "store" => l.eventId > 0) /\ (l.pc # "store" => l.index = 1)
  /\ (l.index = 2 => l.batch <= l.last)
  /\ l.todo \subseteq ProcessedIds
  /\ l.sums \in 0 .. Many /\ l.pending \subseteq {"request", "actions"}
  /\ l.count \in 0 .. MaxResponses /\ l.request \in Requests
  /\ l.actions \subseteq DOMAIN log /\ l.state \in 0 .. Len(finalized)
  /\ l.pc \in {"found", "fetchState", "send"} => InTurn(l.request)
  /\ l.pc \in {"fetchState", "send"} => l.actions # {} /\ \A a \in l.actions : log[a] = l.request
  /\ l.pc = "compute" /\ l.sums > 0 => \E b \in DOMAIN finalized : finalized[b].request = l.request
  /\ RequestPushed(l) => \A e \in InHands(l) : responses[finalized[e.batch].request] >= 1
  /\ ActionsPushed(l) => \A e \in InHands(l) : finalized[e.batch].actions \subseteq active

JobsRight == DOMAIN job = Job /\ \A j \in Job : LocalRight(job[j])

Typed ==
  /\ ChainRight /\ EventsRight /\ DocumentsRight /\ StorageRight /\ JobsRight
  /\ AnsweredInTurn /\ ProcessedIsCounted /\ steady \in BOOLEAN

\* The events with the numbers that they have if nothing overlaps, below n.
Index(kind) == IF kind = EventOrder[1] THEN 1 ELSE 2
EventsBelow(n) ==
  {e \in [batch : DOMAIN finalized, eventId : EventId, kind : Kind] :
     e.eventId = 2 * e.batch - 2 + Index(e.kind) /\ e.eventId < n}

\* The transaction of a batch was pushed.
Marked(b) == \E e \in Processed : e.batch = b /\ e.eventId \in processed
Held(b) == \E j \in Job : RequestPushed(job[j]) /\ \E e \in InHands(job[j]) : e.batch = b
Pushed(b) == Marked(b) \/ Held(b)

SteadyLocal(l) ==
  /\ l.pc = "store" =>
       /\ l.batch <= Len(finalized) + 1
       /\ l.eventId = 2 * l.batch - 2 + l.index
       /\ events = EventsBelow(l.eventId)
  /\ l.pc \in {"next", "save", "saveEvent"} => l.todo \cap processed = {}
  /\ l.pc = "save" /\ "request" \in l.pending => l.sums = 1

OnePass == \A j, k \in Job : InPass(j) /\ InPass(k) => j = k

WholeBatches == \E b \in 1 .. Len(finalized) + 1 : events = EventsBelow(2 * b - 1)
BetweenPasses == (\A j \in Job : job[j].pc # "store") => WholeBatches

HasPushed(r) == \E b \in DOMAIN finalized : finalized[b].request = r /\ Pushed(b)
PushedOnce ==
  \A r \in Requests : /\ finalizedD[r] = responses[r]
                      /\ responses[r] = IF HasPushed(r) THEN 1 ELSE 0

SteadyRight ==
  steady => /\ OnePass /\ BetweenPasses /\ PushedOnce
            /\ \A j \in Job : SteadyLocal(job[j])

JobFunction == job = [j \in Job |-> job[j]]

Right == Typed /\ JobFunction /\ SteadyRight

-----------------------------------------------------------------------------
(* The bounds of the model, and the order of the two kinds of events.      *)
LEMMA Bounds ==
  /\ MaxResponses \in Nat /\ MaxCounter \in Nat \ {0} /\ LastRequest \in Nat /\ Threshold \in Nat \ {0}
  /\ 0 \in Requests /\ Requests \subseteq Nat
  /\ EventOrder[1] \in Kind /\ EventOrder[2] \in Kind
  /\ Index(EventOrder[1]) = 1 /\ Index(EventOrder[2]) = 2
  /\ \A k \in Kind : Index(k) \in {1, 2} /\ EventOrder[Index(k)] = k
BY ResponsesAssumption DEF Requests, Kind, Index

LEMMA IntervalIs ==
  ASSUME NEW n \in Nat
  PROVE  IsFiniteSet(1 .. n) /\ Cardinality(1 .. n) = n
<1>1. IsFiniteSet(1 .. n) /\ Cardinality(1 .. n) = IF 1 > n THEN 0 ELSE n - 1 + 1
  BY FS_Interval
<1> QED
  BY <1>1

(* The chain in terms of numbers of actions and transactions.              *)
LEMMA ChainIs ==
  ASSUME ChainRight
  PROVE  /\ Len(log) \in Nat /\ DOMAIN log = 1 .. Len(log) /\ DOMAIN log \subseteq ActionId
         /\ Len(finalized) \in Nat /\ DOMAIN finalized = 1 .. Len(finalized)
         /\ \A b \in DOMAIN finalized : /\ finalized[b].request \in Requests
                                        /\ finalized[b].actions \subseteq DOMAIN log
<1>1. Len(log) \in Nat /\ Len(finalized) \in Nat /\ MaxResponses \in Nat
  BY Bounds DEF ChainRight
<1>2. DOMAIN log = 1 .. Len(log) /\ DOMAIN finalized = 1 .. Len(finalized)
  BY <1>1 DEF ChainRight
<1>3. DOMAIN log \subseteq ActionId
  BY <1>1, <1>2 DEF ChainRight, ActionId
<1>4. \A b \in DOMAIN finalized : finalized[b] \in [request : Requests, actions : SUBSET DOMAIN log]
  <2> DEFINE T == [request : Requests, actions : SUBSET DOMAIN log]
  <2>1. finalized \in Seq(T)
    BY DEF ChainRight
  <2> HIDE DEF T
  <2>2. \A b \in 1 .. Len(finalized) : finalized[b] \in T
    BY <2>1
  <2> QED
    BY <1>2, <2>2 DEF T
<1> QED
  BY <1>1, <1>2, <1>3, <1>4

LEMMA InActions ==
  ASSUME Len(finalized) \in Nat, DOMAIN finalized = 1 .. Len(finalized), NEW a
  PROVE  a \in ActionsOf(Len(finalized)) <=> \E b \in DOMAIN finalized : a \in finalized[b].actions
BY DEF ActionsOf

(* Every transaction takes an action of the log for itself, so that there  *)
(* are no more of them than actions.                                       *)
LEMMA FewBatches ==
  ASSUME ChainRight, AnsweredInTurn
  PROVE  Len(finalized) <= MaxResponses
<1> DEFINE f == [b \in DOMAIN finalized |-> CHOOSE a \in finalized[b].actions : TRUE]
<1>1. \A b \in DOMAIN finalized : f[b] \in finalized[b].actions
  BY DEF ChainRight
<1>2. \A b \in DOMAIN finalized : f[b] \in DOMAIN log /\ log[f[b]] = finalized[b].request
  BY <1>1, ChainIs DEF ChainRight
<1>3. f \in [DOMAIN finalized -> DOMAIN log]
  BY <1>2
<1>4. \A b, c \in DOMAIN finalized : f[b] = f[c] => b = c
  BY <1>2 DEF AnsweredInTurn
<1>5. f \in Injection(DOMAIN finalized, DOMAIN log)
  <2> HIDE DEF f
  <2> QED
    BY <1>3, <1>4 DEF Injection, IsInjective
<1>6. IsFiniteSet(DOMAIN log) /\ Cardinality(DOMAIN log) = Len(log)
  BY ChainIs, IntervalIs
<1>7. Cardinality(DOMAIN finalized) <= Len(log)
  BY <1>5, <1>6, FS_Injection
<1>8. Cardinality(DOMAIN finalized) = Len(finalized)
  BY ChainIs, IntervalIs
<1> QED
  BY <1>7, <1>8, ChainIs, Bounds DEF ChainRight

LEMMA IdleIs ==
  /\ IsLocal(Idle) /\ Idle.pc = "idle" /\ Idle.batch = 1 /\ Idle.last = 0 /\ Idle.index = 1
  /\ Idle.eventId = 0 /\ Idle.todo = {} /\ Idle.sums = 0 /\ Idle.pending = {}
  /\ Idle.count = 0 /\ Idle.request = 0 /\ Idle.actions = {} /\ Idle.state = 0
BY DEF Idle, IsLocal

(* A job that has begun anew at one of the labels that need no other       *)
(* variable but the ids it has found.                                      *)
LEMMA FreshIsRight ==
  ASSUME ChainRight, NEW label \in {"idle", "findRequests", "next"}, NEW ids, ids \subseteq ProcessedIds,
         NEW l, l = [Idle EXCEPT !.pc = label, !.todo = ids]
  PROVE  LocalRight(l)
<1>1. /\ IsLocal(l) /\ l.pc = label /\ l.batch = 1 /\ l.last = 0 /\ l.index = 1
      /\ l.eventId = 0 /\ l.todo = ids /\ l.sums = 0 /\ l.pending = {}
      /\ l.count = 0 /\ l.request = 0 /\ l.actions = {} /\ l.state = 0
  BY IdleIs DEF IsLocal
<1>2. Len(finalized) \in Nat /\ MaxResponses \in Nat /\ 0 \in Requests
  BY ChainIs, Bounds
<1> QED
  BY <1>1, <1>2 DEF LocalRight, PC, RequestPushed, ActionsPushed, Many

LEMMA LabelIsRight ==
  ASSUME ChainRight, NEW label \in {"idle", "findRequests", "next"},
         NEW l, l = [Idle EXCEPT !.pc = label]
  PROVE  LocalRight(l)
<1>1. /\ IsLocal(l) /\ l.pc = label /\ l.batch = 1 /\ l.last = 0 /\ l.index = 1
      /\ l.eventId = 0 /\ l.todo = {} /\ l.sums = 0 /\ l.pending = {}
      /\ l.count = 0 /\ l.request = 0 /\ l.actions = {} /\ l.state = 0
  BY IdleIs DEF IsLocal
<1>2. Len(finalized) \in Nat /\ MaxResponses \in Nat /\ 0 \in Requests
  BY ChainIs, Bounds
<1> QED
  BY <1>1, <1>2 DEF LocalRight, PC, RequestPushed, ActionsPushed, Many

LEMMA IdleIsRight ==
  ASSUME ChainRight
  PROVE  LocalRight(Idle)
<1>2. Len(finalized) \in Nat /\ MaxResponses \in Nat /\ 0 \in Requests
  BY ChainIs, Bounds
<1> QED
  BY <1>2, IdleIs DEF LocalRight, PC, RequestPushed, ActionsPushed, Many

LEMMA EmptyIs ==
  /\ IsStorage(EmptyStorage) /\ EmptyStorage.contribution = {}
  /\ DOMAIN EmptyStorage.response = {} /\ DOMAIN EmptyStorage.process = {}
  /\ EmptyStorage.mapping = [a \in ActionId |-> 0]
BY DEF EmptyStorage, IsStorage

LEMMA InitTyped == Init => Typed
<1> SUFFICES ASSUME Init PROVE Typed
  OBVIOUS
<1>0. /\ log = Before /\ finalized = <<>> /\ computed = {} /\ resolved = {} /\ events = {}
      /\ processed = {} /\ active = {} /\ responses = [r \in Requests |-> 0]
      /\ finalizedD = [r \in Requests |-> 0] /\ storage = EmptyStorage
      /\ job = [j \in Job |-> Idle] /\ steady = TRUE
  BY DEF Init
<1>1. ChainRight
  <2>1. log \in Seq(Requests) /\ Len(log) <= MaxResponses
    BY <1>0, ResponsesAssumption DEF Requests
  <2>2. finalized \in Seq([request : Requests, actions : SUBSET DOMAIN log]) /\ DOMAIN finalized = {}
    BY <1>0
  <2> QED
    BY <1>0, <2>1, <2>2 DEF ChainRight
<1>2. EventsRight
  BY <1>0, FS_EmptySet DEF EventsRight
<1>3. DocumentsRight
  BY <1>0 DEF DocumentsRight, Many
<1>4. StorageRight
  BY <1>0, EmptyIs, Bounds DEF StorageRight
<1>5. JobsRight
  BY <1>0, <1>1, IdleIsRight DEF JobsRight
<1>6. AnsweredInTurn /\ ProcessedIsCounted
  BY <1>0 DEF AnsweredInTurn, ProcessedIsCounted
<1> QED
  BY <1>0, <1>1, <1>2, <1>3, <1>4, <1>5, <1>6 DEF Typed

-----------------------------------------------------------------------------
\* What is there stays there.
Grows ==
  /\ \A a \in DOMAIN log : a \in DOMAIN log' /\ log'[a] = log[a]
  /\ \A b \in DOMAIN finalized : b \in DOMAIN finalized' /\ finalized'[b] = finalized[b]
  /\ Len(finalized') \in Nat /\ Len(finalized) <= Len(finalized')
  /\ resolved \subseteq resolved' /\ events \subseteq events' /\ active \subseteq active'
  /\ \A r \in Requests : responses[r] >= 1 => responses'[r] >= 1

(* An id that a job has found names the same transaction later.            *)
LEMMA SameInHands ==
  ASSUME Typed, Grows, EventsRight', NEW l, l.todo \subseteq ProcessedIds, NEW e \in InHands(l)'
  PROVE  /\ \E f \in InHands(l) : f.batch = e.batch
         /\ e.batch \in DOMAIN finalized /\ finalized'[e.batch] = finalized[e.batch]
         /\ finalized[e.batch].request \in Requests
<1>1. e \in events' /\ e.kind = "processed" /\ e.eventId \in First(l.todo)
  BY DEF InHands, Processed
<1>2. e.eventId \in l.todo
  BY <1>1 DEF First
<1>3. PICK f \in events : f.kind = "processed" /\ f.eventId = e.eventId
  BY <1>2 DEF ProcessedIds, Processed
<1>4. f \in InHands(l)
  BY <1>1, <1>3 DEF InHands, Processed
<1>5. f.batch = e.batch
  BY <1>1, <1>3 DEF EventsRight, Grows
<1>6. f.batch \in DOMAIN finalized
  BY <1>3 DEF Typed, EventsRight
<1> QED
  BY <1>4, <1>5, <1>6, ChainIs DEF Grows, Typed

(* The local variables of a job stay right while everything grows.         *)
LEMMA LocalKeeps ==
  ASSUME Typed, Grows, EventsRight', NEW l, LocalRight(l)
  PROVE  LocalRight(l)'
<1>1. /\ IsLocal(l) /\ l.pc \in PC
      /\ l.batch \in 1 .. MaxResponses + 1 /\ l.last \in 0 .. Len(finalized) /\ l.index \in 1 .. 2
      /\ l.eventId \in 0 .. 2 * l.batch + l.index - 2
      /\ (l.pc = "store" => l.eventId > 0) /\ (l.pc # "store" => l.index = 1)
      /\ (l.index = 2 => l.batch <= l.last)
      /\ l.todo \subseteq ProcessedIds
      /\ l.sums \in 0 .. Many /\ l.pending \subseteq {"request", "actions"}
      /\ l.count \in 0 .. MaxResponses /\ l.request \in Requests
      /\ l.actions \subseteq DOMAIN log /\ l.state \in 0 .. Len(finalized)
      /\ (l.pc \in {"found", "fetchState", "send"} => InTurn(l.request))
      /\ (l.pc \in {"fetchState", "send"} =>
           l.actions # {} /\ \A a \in l.actions : log[a] = l.request)
      /\ (l.pc = "compute" /\ l.sums > 0 => \E b \in DOMAIN finalized : finalized[b].request = l.request)
  BY DEF LocalRight
<1>2. Len(finalized) \in Nat
  BY ChainIs DEF Typed
<1>3. l.last \in 0 .. Len(finalized') /\ l.state \in 0 .. Len(finalized')
  BY <1>1, <1>2 DEF Grows
<1>4. l.todo \subseteq ProcessedIds'
  BY <1>1 DEF ProcessedIds, Processed, Grows
<1>5. l.actions \subseteq DOMAIN log' /\ \A a \in l.actions : log'[a] = log[a]
  BY <1>1 DEF Grows
<1>6. InTurn(l.request) => InTurn(l.request)'
  BY DEF InTurn, Grows
<1>7. (\E b \in DOMAIN finalized : finalized[b].request = l.request) =>
        \E b \in DOMAIN finalized' : finalized'[b].request = l.request
  BY DEF Grows
<1>8. RequestPushed(l) => \A e \in InHands(l)' : responses'[finalized'[e.batch].request] >= 1
  <2> SUFFICES ASSUME RequestPushed(l), NEW e \in InHands(l)'
               PROVE  responses'[finalized'[e.batch].request] >= 1
    OBVIOUS
  <2>1. /\ \E f \in InHands(l) : f.batch = e.batch
        /\ finalized'[e.batch] = finalized[e.batch] /\ finalized[e.batch].request \in Requests
    BY <1>1, SameInHands
  <2>2. responses[finalized[e.batch].request] >= 1
    BY <2>1 DEF LocalRight
  <2> QED
    BY <2>1, <2>2 DEF Grows
<1>9. ActionsPushed(l) => \A e \in InHands(l)' : finalized'[e.batch].actions \subseteq active'
  <2> SUFFICES ASSUME ActionsPushed(l), NEW e \in InHands(l)'
               PROVE  finalized'[e.batch].actions \subseteq active'
    OBVIOUS
  <2>1. /\ \E f \in InHands(l) : f.batch = e.batch
        /\ finalized'[e.batch] = finalized[e.batch]
    BY <1>1, SameInHands
  <2>2. finalized[e.batch].actions \subseteq active
    BY <2>1 DEF LocalRight
  <2> QED
    BY <2>1, <2>2 DEF Grows
<1> QED
  BY <1>1, <1>3, <1>4, <1>5, <1>6, <1>7, <1>8, <1>9
  DEF LocalRight, IsLocal, RequestPushed, ActionsPushed

LEMMA JobsKeep ==
  ASSUME Typed, Grows, EventsRight', UNCHANGED job
  PROVE  JobsRight'
<1>1. \A k \in Job : LocalRight(job[k])'
  BY LocalKeeps DEF Typed, JobsRight
<1> QED
  BY <1>1 DEF Typed, JobsRight

(* Of the jobs, only j has changed, and is right.                          *)
LEMMA JobChanged ==
  ASSUME Typed, Grows, EventsRight', NEW j \in Job, DOMAIN job' = Job,
         \A k \in Job : k # j => job'[k] = job[k], LocalRight(job[j])'
  PROVE  JobsRight'
<1>1. \A k \in Job : k # j => LocalRight(job'[k])
  BY DEF Typed, JobsRight
<1>2. \A k \in Job : k # j => LocalRight(job[k])'
  BY <1>1, LocalKeeps
<1> QED
  BY <1>2 DEF JobsRight

LEMMA Unchanged ==
  ASSUME Typed, UNCHANGED <<chainVars, docVars>>
  PROVE  /\ Grows /\ ChainRight' /\ EventsRight' /\ DocumentsRight' /\ AnsweredInTurn' /\ ProcessedIsCounted'
         /\ (StorageRight /\ storage' = storage => StorageRight')
<1>1. /\ log' = log /\ finalized' = finalized /\ computed' = computed /\ resolved' = resolved
      /\ events' = events /\ processed' = processed /\ active' = active
      /\ responses' = responses /\ finalizedD' = finalizedD
  BY DEF chainVars, docVars
<1>2. Grows
  BY <1>1, ChainIs DEF Grows, Typed
<1>3. ChainRight' /\ EventsRight'
  BY <1>1 DEF Typed, ChainRight, EventsRight
<1>4. DocumentsRight' /\ (StorageRight /\ storage' = storage => StorageRight')
  BY <1>1 DEF Typed, DocumentsRight, StorageRight, ProcessedIds, Processed, ActionsOf, IsStorage
<1>5. AnsweredInTurn' /\ ProcessedIsCounted'
  BY <1>1 DEF Typed, AnsweredInTurn, ProcessedIsCounted
<1> QED
  BY <1>2, <1>3, <1>4, <1>5

(* A step that changes the variables of one job, and the history.          *)
LEMMA JobOnly ==
  ASSUME Typed, NEW j \in Job, UNCHANGED <<chainVars, docVars, storage>>,
         NEW l, job' = [job EXCEPT ![j] = l], LocalRight(l), steady' \in BOOLEAN
  PROVE  Typed'
<1>1. /\ Grows /\ ChainRight' /\ EventsRight' /\ DocumentsRight' /\ AnsweredInTurn' /\ ProcessedIsCounted'
      /\ StorageRight'
  BY Unchanged DEF Typed
<1>2. DOMAIN job' = Job /\ \A k \in Job : LocalRight(job'[k])
  BY DEF Typed, JobsRight
<1>3. \A k \in Job : LocalRight(job[k])'
  BY <1>1, <1>2, LocalKeeps
<1>4. JobsRight'
  BY <1>2, <1>3 DEF JobsRight
<1> QED
  BY <1>1, <1>4 DEF Typed

(* The variables of a job in a state that is right.                        *)
LEMMA LocalFacts ==
  ASSUME Typed, NEW j \in Job
  PROVE  /\ LocalRight(job[j]) /\ IsLocal(job[j]) /\ j \in DOMAIN job /\ DOMAIN job = Job
         /\ job[j].pc \in PC
         /\ job[j].batch \in 1 .. MaxResponses + 1 /\ job[j].last \in 0 .. Len(finalized)
         /\ job[j].index \in 1 .. 2 /\ (job[j].index = 2 => job[j].batch <= job[j].last)
         /\ job[j].eventId \in 0 .. 2 * job[j].batch + job[j].index - 2
         /\ job[j].todo \subseteq ProcessedIds
         /\ job[j].sums \in 0 .. Many /\ job[j].pending \subseteq {"request", "actions"}
         /\ job[j].request \in Requests /\ job[j].actions \subseteq DOMAIN log
         /\ job[j].count \in 0 .. MaxResponses /\ job[j].state \in 0 .. Len(finalized)
         /\ steady \in BOOLEAN
BY DEF Typed, JobsRight, LocalRight

-----------------------------------------------------------------------------
LEMMA CountIs ==
  ASSUME NEW n \in Nat, NEW S, S \subseteq 1 .. n
  PROVE  IsFiniteSet(S) /\ Cardinality(S) \in 0 .. n
<1>1. IsFiniteSet(1 .. n) /\ Cardinality(1 .. n) = n
  BY IntervalIs
<1>2. IsFiniteSet(S) /\ Cardinality(S) <= n
  BY <1>1, FS_Subset
<1> QED
  BY <1>2, FS_CardinalityType

(* The next batch lies beyond all that the last events name, and the ids    *)
(* before the next one are two per batch at most.                           *)
LEMMA NextIs ==
  ASSUME Typed
  PROVE  NextBatch \in 1 .. Len(finalized) + 1 /\ NextEventId \in 1 .. 2 * NextBatch - 1
<1> DEFINE S == {b \in DOMAIN finalized : \E e \in Last : e.batch >= b}
           T == {n \in EventId : \E e \in Last : e.eventId >= n}
<1>1. Len(finalized) \in Nat /\ DOMAIN finalized = 1 .. Len(finalized)
  BY ChainIs DEF Typed
<1>2. S \subseteq 1 .. Len(finalized)
  BY <1>1
<1>3. Last \subseteq events
  BY DEF Last
<1>4. \A e \in Last : /\ e.batch \in 1 .. Len(finalized) /\ e.eventId \in Nat
                      /\ e.eventId <= 2 * e.batch
  BY <1>1, <1>3, Bounds DEF Typed, EventsRight, EventId
<1>5. ASSUME NEW e \in Last PROVE e.batch <= Cardinality(S)
  <2>1. 1 .. e.batch \subseteq S
    BY <1>1, <1>4, <1>5
  <2>2. IsFiniteSet(S)
    <3> HIDE DEF S
    <3> QED
      BY <1>1, <1>2, CountIs
  <2>3. Cardinality(1 .. e.batch) <= Cardinality(S)
    <3> HIDE DEF S
    <3> QED
      BY <2>1, <2>2, FS_Subset
  <2> QED
    BY <1>4, <1>5, <2>3, IntervalIs
<1>6. Cardinality(S) \in 0 .. Len(finalized)
  <2> HIDE DEF S
  <2> QED
    BY <1>1, <1>2, CountIs
<1>7. T \subseteq 1 .. 2 * Cardinality(S)
  <2> SUFFICES ASSUME NEW n \in EventId, NEW e \in Last, e.eventId >= n
               PROVE  n \in 1 .. 2 * Cardinality(S)
    OBVIOUS
  <2>1. n \in Nat /\ 1 <= n
    BY Bounds DEF EventId
  <2>2. e.batch <= Cardinality(S) /\ e.batch \in Nat /\ e.eventId \in Nat /\ e.eventId <= 2 * e.batch
    BY <1>4, <1>5
  <2> HIDE DEF S
  <2> QED
    BY <1>6, <2>1, <2>2
<1> HIDE DEF S, T
<1>8. Cardinality(T) \in 0 .. 2 * Cardinality(S)
  <2>1. 2 * Cardinality(S) \in Nat
    BY <1>6
  <2> QED
    BY <1>7, <2>1, CountIs
<1>9. NextBatch = Cardinality(S) + 1 /\ NextEventId = Cardinality(T) + 1
  BY DEF NextBatch, NextEventId, S, T
<1> QED
  BY <1>1, <1>6, <1>8, <1>9

(* Steps of a pass that change only the job.                               *)
LEMMA PassTypes ==
  ASSUME Typed, NEW j \in Job,
         FetchEvents(j) \/ FindEvents(j) \/ LoadEvent(j) \/ FetchThrows(j)
  PROVE  Typed'
<1> DEFINE l == job'[j]
<1>0. /\ LocalRight(job[j]) /\ IsLocal(job[j]) /\ j \in DOMAIN job /\ job[j].pc \in PC
      /\ steady \in BOOLEAN /\ ChainRight /\ DOMAIN job = Job
  BY LocalFacts DEF Typed
<1>1. ASSUME FetchEvents(j) PROVE Typed'
  <2>1. /\ job' = [job EXCEPT ![j] = [job[j] EXCEPT !.pc = "store", !.batch = NextBatch,
                              !.last = Len(finalized), !.eventId = NextEventId]]
        /\ job[j].pc = "idle" /\ steady' \in BOOLEAN
    BY <1>0, <1>1 DEF FetchEvents
  <2>2. /\ IsLocal(l) /\ l.pc = "store" /\ l.batch = NextBatch /\ l.last = Len(finalized)
        /\ l.index = job[j].index /\ l.eventId = NextEventId /\ l.todo = job[j].todo
        /\ l.sums = job[j].sums /\ l.pending = job[j].pending /\ l.request = job[j].request
        /\ l.count = job[j].count /\ l.actions = job[j].actions /\ l.state = job[j].state
    BY <1>0, <2>1 DEF IsLocal
  <2>3. Len(finalized) \in Nat /\ Len(finalized) <= MaxResponses /\ MaxResponses \in Nat
    BY ChainIs, FewBatches, Bounds DEF Typed
  <2>4. /\ l.batch \in 1 .. MaxResponses + 1 /\ l.last \in 0 .. Len(finalized)
        /\ l.eventId \in 0 .. 2 * l.batch + l.index - 2 /\ l.eventId > 0
        /\ l.index = 1
    <3>1. NextBatch \in 1 .. Len(finalized) + 1 /\ NextEventId \in 1 .. 2 * NextBatch - 1
      BY NextIs
    <3>2. l.index = 1
      BY <1>0, <2>1, <2>2 DEF LocalRight
    <3> HIDE DEF l
    <3> QED
      BY <2>2, <2>3, <3>1, <3>2
  <2>5. LocalRight(l)
    BY <1>0, <2>2, <2>4 DEF LocalRight, PC, RequestPushed, ActionsPushed
  <2>6. job' = [job EXCEPT ![j] = l]
    BY <1>0, <2>1
  <2> QED
    BY <1>1, <2>1, <2>5, <2>6, JobOnly DEF FetchEvents
<1>2. ASSUME FindEvents(j) PROVE Typed'
  <2>1. PICK label \in {"findRequests", "next"} :
          job' = [job EXCEPT ![j] = [Idle EXCEPT !.pc = label, !.todo = NotProcessed]]
    BY <1>2 DEF FindEvents, Proceed
  <2>2. NotProcessed \subseteq ProcessedIds
    BY DEF NotProcessed, ProcessedIds, Processed
  <2>3. l = [Idle EXCEPT !.pc = label, !.todo = NotProcessed] /\ job' = [job EXCEPT ![j] = l]
    BY <1>0, <2>1
  <2>4. LocalRight(l)
    BY <1>0, <2>2, <2>3, FreshIsRight
  <2> QED
    BY <1>0, <1>2, <2>3, <2>4, JobOnly DEF FindEvents
<1>3. ASSUME LoadEvent(j) PROVE Typed'
  <2>1. PICK n \in First(job[j].todo) :
          job' = [job EXCEPT ![j].pc = "save", ![j].pending = {"request", "actions"},
                          ![j].sums = IF SumsOf(Transaction(n).request) > Many THEN Many
                                      ELSE SumsOf(Transaction(n).request)]
    BY <1>3 DEF LoadEvent
  <2> DEFINE s == SumsOf(Transaction(n).request)
             t == IF s > Many THEN Many ELSE s
  <2>2. s \in Nat
    <3> DEFINE S == {e \in events : e.kind = "finalized" /\ finalized[e.batch].request = Transaction(n).request}
    <3>1. IsFiniteSet(events)
      BY DEF Typed, EventsRight
    <3>2. S \in SUBSET events
      OBVIOUS
    <3> HIDE DEF S
    <3>3. Cardinality(S) \in Nat
      BY <3>1, <3>2, FS_Subset, FS_CardinalityType
    <3> QED
      BY <3>3 DEF S, SumsOf
  <2>3. t \in 0 .. Many
    <3> HIDE DEF s
    <3> QED
      BY <2>2 DEF Many
  <2>4. job' = [job EXCEPT ![j] = [job[j] EXCEPT !.pc = "save", !.pending = {"request", "actions"},
                                                 !.sums = t]]
    BY <1>0, <2>1
  <2> HIDE DEF t
  <2>5. /\ IsLocal(l) /\ l.pc = "save" /\ l.batch = job[j].batch /\ l.last = job[j].last
        /\ l.index = job[j].index /\ l.eventId = job[j].eventId /\ l.todo = job[j].todo
        /\ l.sums = t /\ l.pending = {"request", "actions"} /\ l.request = job[j].request
        /\ l.count = job[j].count /\ l.actions = job[j].actions /\ l.state = job[j].state
    BY <1>0, <2>4 DEF IsLocal
  <2>6. LocalRight(l)
    BY <1>0, <1>3, <2>3, <2>5 DEF LocalRight, PC, RequestPushed, ActionsPushed, LoadEvent
  <2>7. job' = [job EXCEPT ![j] = l]
    BY <1>0, <2>4
  <2> QED
    BY <1>0, <1>3, <2>6, <2>7, JobOnly DEF LoadEvent
<1>4. ASSUME FetchThrows(j) PROVE Typed'
  <2>1. PICK label \in {"idle", "findRequests"} : job' = [job EXCEPT ![j] = [Idle EXCEPT !.pc = label]]
    BY <1>4 DEF FetchThrows, Retry
  <2>2. l = [Idle EXCEPT !.pc = label] /\ job' = [job EXCEPT ![j] = l]
    BY <1>0, <2>1
  <2>3. LocalRight(l)
    BY <1>0, <2>2, LabelIsRight
  <2>4. steady' \in BOOLEAN
    BY <1>0, <1>4 DEF FetchThrows
  <2> QED
    BY <1>0, <1>4, <2>2, <2>3, <2>4, JobOnly DEF FetchThrows, Retry
<1> QED
  BY <1>1, <1>2, <1>3, <1>4

(* Steps of a roll-up that change only the job.                            *)
LEMMA RollupTypes ==
  ASSUME Typed, NEW j \in Job,
         \/ Count(j) \/ FindRequest(j) \/ FindBatch(j) \/ FetchState(j)
         \/ FindComplete(j) \/ Skip(j) \/ UpdateThrows(j)
  PROVE  Typed'
<1> DEFINE l == job'[j]
<1>0. /\ LocalRight(job[j]) /\ IsLocal(job[j]) /\ j \in DOMAIN job /\ job[j].pc \in PC
      /\ steady \in BOOLEAN /\ ChainRight /\ DOMAIN job = Job
  BY LocalFacts DEF Typed
<1>a. ASSUME Return(j), UNCHANGED <<chainVars, docVars, storage, steady>> PROVE Typed'
  BY <1>0, <1>a, IdleIsRight, JobOnly DEF Return
<1>0a. ASSUME Count(j) PROVE Typed'
  <2>1. /\ job' = [job EXCEPT ![j] = [job[j] EXCEPT !.pc = "counted", !.count = Len(log)]]
        /\ job[j].pc = "updated"
    BY <1>0, <1>0a DEF Count
  <2>2. /\ IsLocal(l) /\ l.pc = "counted" /\ l.batch = job[j].batch /\ l.last = job[j].last
        /\ l.index = job[j].index /\ l.eventId = job[j].eventId /\ l.todo = job[j].todo
        /\ l.sums = job[j].sums /\ l.pending = job[j].pending /\ l.state = job[j].state
        /\ l.count = Len(log) /\ l.request = job[j].request /\ l.actions = job[j].actions
    BY <1>0, <2>1 DEF IsLocal
  <2>3. Len(log) \in 0 .. MaxResponses
    BY <1>0, ChainIs, Bounds DEF ChainRight
  <2>4. LocalRight(l)
    <3> HIDE DEF l
    <3> QED
      BY <1>0, <2>1, <2>2, <2>3 DEF LocalRight, PC, RequestPushed, ActionsPushed
  <2>5. job' = [job EXCEPT ![j] = l]
    BY <1>0, <2>1
  <2> QED
    BY <1>0, <1>0a, <2>4, <2>5, JobOnly DEF Count
<1>0b. ASSUME FindRequest(j) PROVE Typed'
  <2>1. PICK r \in First(Initialized) :
          job' = [job EXCEPT ![j] = [job[j] EXCEPT !.pc = "found", !.request = r]]
    BY <1>0, <1>0b DEF FindRequest
  <2>2. r \in Requests /\ InTurn(r)
    <3>1. r \in Initialized /\ \A q \in Initialized : r <= q
      BY <2>1 DEF First
    <3>2. \A q \in 0 .. r - 1 : q \in Requests /\ ~ (r <= q)
      BY <3>1, Bounds DEF Initialized, Requests
    <3> QED
      BY <3>1, <3>2 DEF InTurn, Initialized
  <2>3. /\ IsLocal(l) /\ l.pc = "found" /\ l.batch = job[j].batch /\ l.last = job[j].last
        /\ l.index = job[j].index /\ l.eventId = job[j].eventId /\ l.todo = job[j].todo
        /\ l.sums = job[j].sums /\ l.pending = job[j].pending /\ l.state = job[j].state
        /\ l.count = job[j].count /\ l.request = r /\ l.actions = job[j].actions
    BY <1>0, <2>1 DEF IsLocal
  <2>4. LocalRight(l)
    <3>1. job[j].pc = "counted"
      BY <1>0b DEF FindRequest
    <3> HIDE DEF l
    <3> QED
      BY <1>0, <2>2, <2>3, <3>1 DEF LocalRight, PC, RequestPushed, ActionsPushed
  <2>5. job' = [job EXCEPT ![j] = l]
    BY <1>0, <2>1
  <2> QED
    BY <1>0, <1>0b, <2>4, <2>5, JobOnly DEF FindRequest
<1>1. ASSUME FindBatch(j) PROVE Typed'
  <2>1. PICK n \in job[j].count .. Len(log) :
          IF Cardinality(Candidates(job[j].request, n)) = Threshold
          THEN job' = [job EXCEPT ![j].pc = "fetchState", ![j].count = 0,
                                  ![j].actions = Candidates(job[j].request, n)]
          ELSE Return(j)
    BY <1>1 DEF FindBatch
  <2> DEFINE C == Candidates(job[j].request, n)
  <2>2. CASE Cardinality(C) = Threshold
    <3>1. job' = [job EXCEPT ![j] = [job[j] EXCEPT !.pc = "fetchState", !.count = 0, !.actions = C]]
      BY <1>0, <2>1, <2>2
    <3>2. C \subseteq DOMAIN log /\ \A a \in C : log[a] = job[j].request
      BY DEF Candidates, RolledUp
    <3>3. C # {}
      <4> HIDE DEF C
      <4> QED
        BY <2>2, FS_EmptySet, Bounds
    <3> HIDE DEF C
    <3>4. /\ IsLocal(l) /\ l.pc = "fetchState" /\ l.batch = job[j].batch /\ l.last = job[j].last
          /\ l.index = job[j].index /\ l.eventId = job[j].eventId /\ l.todo = job[j].todo
          /\ l.sums = job[j].sums /\ l.pending = job[j].pending /\ l.state = job[j].state
          /\ l.count = 0 /\ l.request = job[j].request /\ l.actions = C
      BY <1>0, <3>1 DEF IsLocal
    <3>5. job[j].pc = "found" /\ 0 \in 0 .. MaxResponses
      BY <1>1, Bounds DEF FindBatch
    <3>6. LocalRight(l)
      <4> HIDE DEF l
      <4> QED
        BY <1>0, <3>2, <3>3, <3>4, <3>5 DEF LocalRight, PC, RequestPushed, ActionsPushed
    <3>7. job' = [job EXCEPT ![j] = l]
      BY <1>0, <3>1
    <3> QED
      BY <1>0, <1>1, <3>6, <3>7, JobOnly DEF FindBatch
  <2>3. CASE Cardinality(C) # Threshold
    BY <1>a, <1>1, <2>1, <2>3 DEF FindBatch
  <2> QED
    BY <2>2, <2>3
<1>2. ASSUME FetchState(j) PROVE Typed'
  <2>1. CASE WitnessesFit(Len(finalized))
    <3>1. job' = [job EXCEPT ![j] = [job[j] EXCEPT !.pc = "send", !.state = Len(finalized)]]
      BY <1>0, <1>2, <2>1 DEF FetchState
    <3>2. /\ IsLocal(l) /\ l.pc = "send" /\ l.batch = job[j].batch /\ l.last = job[j].last
          /\ l.index = job[j].index /\ l.eventId = job[j].eventId /\ l.todo = job[j].todo
          /\ l.sums = job[j].sums /\ l.pending = job[j].pending /\ l.request = job[j].request
          /\ l.count = job[j].count /\ l.actions = job[j].actions /\ l.state = Len(finalized)
      BY <1>0, <3>1 DEF IsLocal
    <3>3. Len(finalized) \in Nat
      BY ChainIs DEF Typed
    <3>4. LocalRight(l)
      BY <1>0, <1>2, <3>2, <3>3 DEF LocalRight, PC, RequestPushed, ActionsPushed, FetchState
    <3>5. job' = [job EXCEPT ![j] = l]
      BY <1>0, <3>1
    <3> QED
      BY <1>0, <1>2, <3>4, <3>5, JobOnly DEF FetchState
  <2> QED
    BY <1>a, <1>2, <2>1 DEF FetchState
<1>3. ASSUME FindComplete(j) PROVE Typed'
  <2>1. PICK r \in First({q \in Initialized : Complete(q)}) :
          job' = [job EXCEPT ![j] = [job[j] EXCEPT !.pc = "compute", !.request = r,
                                                   !.sums = finalizedD[r]]]
    BY <1>0, <1>3 DEF FindComplete
  <2>2. r \in Requests /\ finalizedD[r] \in 0 .. Many /\ responses[r] \in 0 .. Many
    BY <2>1 DEF First, Initialized, Typed, DocumentsRight
  <2>3. finalizedD[r] > 0 => \E b \in DOMAIN finalized : finalized[b].request = r
    <3>1. finalizedD[r] > 0 => responses[r] + finalizedD[r] > 0
      BY <2>2 DEF Many
    <3> QED
      BY <2>2, <3>1 DEF Typed, ProcessedIsCounted
  <2>4. /\ IsLocal(l) /\ l.pc = "compute" /\ l.batch = job[j].batch /\ l.last = job[j].last
        /\ l.index = job[j].index /\ l.eventId = job[j].eventId /\ l.todo = job[j].todo
        /\ l.sums = finalizedD[r] /\ l.pending = job[j].pending /\ l.request = r
        /\ l.count = job[j].count /\ l.actions = job[j].actions /\ l.state = job[j].state
    BY <1>0, <2>1 DEF IsLocal
  <2>5. LocalRight(l)
    BY <1>0, <1>3, <2>2, <2>3, <2>4 DEF LocalRight, PC, RequestPushed, ActionsPushed, FindComplete
  <2>6. job' = [job EXCEPT ![j] = l]
    BY <1>0, <2>1
  <2> QED
    BY <1>0, <1>3, <2>5, <2>6, JobOnly DEF FindComplete
<1>4. ASSUME Skip(j) PROVE Typed'
  BY <1>4, <1>a DEF Skip
<1>5. ASSUME UpdateThrows(j) PROVE Typed'
  <2>1. job' = [job EXCEPT ![j] = [job[j] EXCEPT !.pc = "updated"]]
    BY <1>0, <1>5 DEF UpdateThrows, Goto
  <2>2. /\ IsLocal(l) /\ l.pc = "updated" /\ l.batch = job[j].batch /\ l.last = job[j].last
        /\ l.index = job[j].index /\ l.eventId = job[j].eventId /\ l.todo = job[j].todo
        /\ l.sums = job[j].sums /\ l.pending = job[j].pending /\ l.request = job[j].request
        /\ l.count = job[j].count /\ l.actions = job[j].actions /\ l.state = job[j].state
    BY <1>0, <2>1 DEF IsLocal
  <2>3. LocalRight(l)
    BY <1>0, <1>5, <2>2 DEF LocalRight, PC, RequestPushed, ActionsPushed, UpdateThrows
  <2>4. job' = [job EXCEPT ![j] = l]
    BY <1>0, <2>1
  <2> QED
    BY <1>0, <1>5, <2>3, <2>4, JobOnly DEF UpdateThrows
<1> QED
  BY <1>0a, <1>0b, <1>1, <1>2, <1>3, <1>4, <1>5

-----------------------------------------------------------------------------
LEMMA WiderSeq ==
  ASSUME NEW S, NEW T, S \subseteq T, NEW q \in Seq(S)
  PROVE  q \in Seq(T)
OBVIOUS

LEMMA SameActions ==
  ASSUME finalized' = finalized
  PROVE  ActionsOf(Len(finalized))' = ActionsOf(Len(finalized))
BY DEF ActionsOf

(* Steps of the chain.                                                     *)
LEMMA ChainTypes ==
  ASSUME Typed, NEW r \in Requests, Respond(r) \/ Resolve(r)
  PROVE  Typed'
<1>0. /\ ChainRight /\ EventsRight /\ DocumentsRight /\ StorageRight /\ JobsRight
      /\ AnsweredInTurn /\ ProcessedIsCounted /\ steady \in BOOLEAN
  BY DEF Typed
<1>1. ASSUME Respond(r) PROVE Typed'
  <2>1. /\ Len(log) < MaxResponses /\ log' = Append(log, r)
        /\ finalized' = finalized /\ computed' = computed /\ resolved' = resolved
        /\ events' = events /\ processed' = processed /\ active' = active /\ responses' = responses
        /\ finalizedD' = finalizedD /\ storage' = storage /\ job' = job /\ steady' = steady
    BY <1>1 DEF Respond, docVars
  <2>2. /\ log \in Seq(Requests) /\ Len(log) \in Nat /\ Len(finalized) \in Nat
        /\ DOMAIN log = 1 .. Len(log) /\ DOMAIN finalized = 1 .. Len(finalized) /\ MaxResponses \in Nat
        /\ \A b \in DOMAIN finalized : finalized[b].actions \subseteq DOMAIN log
    BY <1>0, ChainIs, Bounds DEF ChainRight
  <2>3. /\ log' \in Seq(Requests) /\ Len(log') = Len(log) + 1 /\ DOMAIN log' = 1 .. Len(log')
        /\ \A a \in DOMAIN log : a \in DOMAIN log' /\ log'[a] = log[a]
    BY <2>1, <2>2
  <2>4. finalized' \in Seq([request : Requests, actions : SUBSET DOMAIN log'])
    <3> DEFINE S == [request : Requests, actions : SUBSET DOMAIN log]
               T == [request : Requests, actions : SUBSET DOMAIN log']
    <3>1. S \subseteq T
      BY <2>3
    <3>2. finalized \in Seq(S)
      BY <1>0 DEF ChainRight
    <3> HIDE DEF S, T
    <3>3. finalized \in Seq(T)
      BY <3>1, <3>2, WiderSeq
    <3> QED
      BY <2>1, <3>3 DEF T
  <2>5. ChainRight'
    <3>1. \A b \in DOMAIN finalized : /\ finalized[b].actions # {}
                                      /\ \A a \in finalized[b].actions : log'[a] = finalized[b].request
      BY <1>0, <2>2, <2>3 DEF ChainRight
    <3>2. Len(log') <= MaxResponses
      BY <2>1, <2>2, <2>3
    <3>3. /\ \A b \in DOMAIN finalized' :
               /\ finalized'[b].actions # {}
               /\ \A a \in finalized'[b].actions : log'[a] = finalized'[b].request
          /\ computed' \subseteq {finalized'[b].request : b \in DOMAIN finalized'}
          /\ resolved' \subseteq computed'
      BY <1>0, <2>1, <3>1 DEF ChainRight
    <3> QED
      BY <2>3, <2>4, <3>2, <3>3, Zenon DEF ChainRight
  <2>6. Grows
    BY <2>1, <2>2, <2>3 DEF Grows
  <2>7. EventsRight'
    BY <1>0, <2>1 DEF EventsRight
  <2>8. DocumentsRight' /\ StorageRight'
    BY <1>0, <2>1, SameActions DEF DocumentsRight, StorageRight, ProcessedIds, Processed, IsStorage
  <2>9. JobsRight'
    BY <2>1, <2>6, <2>7, JobsKeep
  <2>10. AnsweredInTurn' /\ ProcessedIsCounted'
    BY <1>0, <2>1 DEF AnsweredInTurn, ProcessedIsCounted
  <2> QED
    BY <1>0, <2>1, <2>5, <2>7, <2>8, <2>9, <2>10 DEF Typed
<1>2. ASSUME Resolve(r) PROVE Typed'
  <2>1. /\ r \in computed /\ resolved' = resolved \cup {r} /\ log' = log
        /\ finalized' = finalized /\ computed' = computed
        /\ events' = events /\ processed' = processed /\ active' = active /\ responses' = responses
        /\ finalizedD' = finalizedD /\ storage' = storage /\ job' = job /\ steady' = steady
    BY <1>2 DEF Resolve, chainVars
  <2>2. Len(finalized) \in Nat
    BY <1>0, ChainIs
  <2>3. ChainRight'
    <3>1. finalized' \in Seq([request : Requests, actions : SUBSET DOMAIN log'])
      BY <1>0, <2>1 DEF ChainRight
    <3>2. resolved' \subseteq computed'
      BY <1>0, <2>1 DEF ChainRight
    <3> QED
      BY <1>0, <2>1, <3>1, <3>2 DEF ChainRight
  <2>4. Grows
    BY <2>1, <2>2 DEF Grows
  <2>5. EventsRight'
    BY <1>0, <2>1 DEF EventsRight
  <2>6. DocumentsRight' /\ StorageRight'
    BY <1>0, <2>1, SameActions DEF DocumentsRight, StorageRight, ProcessedIds, Processed, IsStorage
  <2>7. JobsRight'
    BY <2>1, <2>4, <2>5, JobsKeep
  <2>8. AnsweredInTurn' /\ ProcessedIsCounted'
    BY <1>0, <2>1 DEF AnsweredInTurn, ProcessedIsCounted
  <2> QED
    BY <1>0, <2>1, <2>3, <2>5, <2>6, <2>7, <2>8 DEF Typed
<1> QED
  BY <1>1, <1>2

LEMMA IdFits ==
  ASSUME NEW m \in Nat, NEW k \in Nat, k <= m, NEW b \in 1 .. k, NEW i \in 1 .. 2,
         NEW n \in Nat, n > 0, n <= 2 * b + i - 2
  PROVE  n \in 1 .. 2 * m /\ n <= 2 * b
OBVIOUS

LEMMA NextIdFits ==
  ASSUME NEW m \in Nat, NEW k \in Nat, k <= m, NEW b \in 1 .. k, NEW i \in 1 .. 2,
         NEW n \in Nat, n > 0, n <= 2 * b + i - 2
  PROVE  /\ n + 1 > 0 /\ b \in 1 .. m + 1 /\ b + 1 \in 1 .. m + 1
         /\ (i = 1 => n + 1 \in 0 .. 2 * b + 2 - 2)
         /\ (i = 2 => n + 1 \in 0 .. 2 * (b + 1) + 1 - 2)
OBVIOUS

(* An event is stored: the bound on its id counts two for each batch that  *)
(* a pass has gone through.                                                *)
LEMMA StoreTypes ==
  ASSUME Typed, NEW j \in Job, StoreEvent(j)
  PROVE  Typed'
<1> DEFINE l == job'[j]
           e == EventOf(j)
<1>0. /\ ChainRight /\ EventsRight /\ DocumentsRight /\ StorageRight /\ JobsRight
      /\ AnsweredInTurn /\ ProcessedIsCounted /\ steady \in BOOLEAN
      /\ LocalRight(job[j]) /\ IsLocal(job[j]) /\ DOMAIN job = Job
  BY LocalFacts DEF Typed
<1>1. /\ job[j].pc = "store" /\ job[j].batch <= job[j].last /\ Upserts(j)
      /\ events' = events \cup {e}
      /\ job' = [job EXCEPT ![j] = [job[j] EXCEPT !.eventId = @ + 1,
                                      !.index = IF @ = 1 THEN 2 ELSE 1,
                                      !.batch = IF job[j].index = 1 THEN @ ELSE @ + 1]]
      /\ log' = log /\ finalized' = finalized /\ computed' = computed /\ resolved' = resolved
      /\ processed' = processed /\ active' = active /\ responses' = responses
      /\ finalizedD' = finalizedD /\ storage' = storage /\ steady' = steady
  BY <1>0 DEF StoreEvent, EventsLeft, chainVars
<1>2. /\ Len(finalized) \in Nat /\ Len(finalized) <= MaxResponses /\ MaxResponses \in Nat
      /\ DOMAIN finalized = 1 .. Len(finalized)
  BY <1>0, ChainIs, FewBatches, Bounds
<1>3. /\ job[j].batch \in 1 .. Len(finalized) /\ job[j].index \in 1 .. 2 /\ job[j].eventId \in Nat
      /\ job[j].eventId > 0 /\ job[j].eventId <= 2 * job[j].batch + job[j].index - 2
  BY <1>0, <1>1, <1>2 DEF LocalRight
<1>4. job[j].eventId \in EventId /\ job[j].eventId <= 2 * job[j].batch
  BY <1>2, <1>3, IdFits DEF EventId
<1>5. /\ e = [batch |-> job[j].batch, eventId |-> job[j].eventId, kind |-> EventOrder[job[j].index]]
      /\ e.batch = job[j].batch /\ e.eventId = job[j].eventId /\ e.kind = EventOrder[job[j].index]
      /\ e \in [batch : DOMAIN finalized, eventId : EventId, kind : Kind]
  BY <1>2, <1>3, <1>4, Bounds DEF EventOf
<1> HIDE DEF e
<1>6. EventsRight'
  <2>1. IsFiniteSet(events')
    BY <1>0, <1>1, FS_AddElement DEF EventsRight
  <2>2. \A f \in events : f.kind = e.kind /\ f.eventId = e.eventId => f.batch = e.batch
    BY <1>1, <1>5 DEF Upserts, e
  <2>3. e.eventId <= 2 * e.batch
    BY <1>4, <1>5
  <2> QED
    BY <1>0, <1>1, <1>5, <2>1, <2>2, <2>3 DEF EventsRight
<1>7. Grows
  BY <1>1, <1>2 DEF Grows
<1>8. ChainRight' /\ AnsweredInTurn'
  BY <1>0, <1>1 DEF ChainRight, AnsweredInTurn
<1>9. DocumentsRight' /\ StorageRight'
  <2>1. ProcessedIds \subseteq ProcessedIds'
    BY <1>1 DEF ProcessedIds, Processed
  <2> QED
    BY <1>0, <1>1, <2>1, SameActions DEF DocumentsRight, StorageRight, IsStorage
<1>10. ProcessedIsCounted'
  <2>1. ASSUME NEW f \in events', f.kind = "processed", f.eventId \in processed
        PROVE  \E g \in events : g.kind = "processed" /\ g.eventId \in processed /\ g.batch = f.batch
    <3>1. PICK g \in events : g.kind = "processed" /\ g.eventId = f.eventId
      BY <1>0, <2>1 DEF DocumentsRight, ProcessedIds, Processed
    <3>2. g.batch = f.batch
      BY <1>1, <1>6, <2>1, <3>1 DEF EventsRight
    <3> QED
      BY <2>1, <3>1, <3>2
  <2> QED
    BY <1>0, <1>1, <2>1 DEF ProcessedIsCounted
<1>11. JobsRight'
  <2>1. /\ IsLocal(l) /\ l.pc = "store" /\ l.last = job[j].last
        /\ l.eventId = job[j].eventId + 1 /\ l.index = (IF job[j].index = 1 THEN 2 ELSE 1)
        /\ l.batch = (IF job[j].index = 1 THEN job[j].batch ELSE job[j].batch + 1)
        /\ l.todo = job[j].todo /\ l.sums = job[j].sums /\ l.pending = job[j].pending
        /\ l.request = job[j].request /\ l.count = job[j].count
        /\ l.actions = job[j].actions /\ l.state = job[j].state
    BY <1>0, <1>1 DEF IsLocal
  <2>2. /\ l.batch \in 1 .. MaxResponses + 1 /\ l.index \in 1 .. 2 /\ l.eventId > 0
        /\ l.eventId \in 0 .. 2 * l.batch + l.index - 2
        /\ (l.index = 2 => l.batch <= l.last)
    <3>1. /\ job[j].eventId + 1 > 0 /\ job[j].batch \in 1 .. MaxResponses + 1
          /\ job[j].batch + 1 \in 1 .. MaxResponses + 1
          /\ (job[j].index = 1 => job[j].eventId + 1 \in 0 .. 2 * job[j].batch + 2 - 2)
          /\ (job[j].index = 2 =>
                job[j].eventId + 1 \in 0 .. 2 * (job[j].batch + 1) + 1 - 2)
      BY <1>2, <1>3, NextIdFits
    <3> HIDE DEF l
    <3>2. CASE job[j].index = 1
      <4>1. l.index = 2 /\ l.batch = job[j].batch /\ l.eventId = job[j].eventId + 1
        BY <2>1, <3>2
      <4> QED
        BY <1>1, <2>1, <3>1, <3>2, <4>1
    <3>3. CASE job[j].index = 2
      <4>1. l.index = 1 /\ l.batch = job[j].batch + 1 /\ l.eventId = job[j].eventId + 1
        BY <2>1, <3>3
      <4> QED
        BY <3>1, <3>3, <4>1
    <3> QED
      BY <1>3, <3>2, <3>3
  <2>3. LocalRight(l)
    <3> HIDE DEF l
    <3> QED
      BY <1>0, <2>1, <2>2 DEF LocalRight, PC, RequestPushed, ActionsPushed
  <2>4. \A k \in Job : LocalRight(job'[k])
    BY <1>0, <1>1, <2>3 DEF JobsRight
  <2>5. \A k \in Job : LocalRight(job[k])'
    BY <1>6, <1>7, <2>4, LocalKeeps
  <2> QED
    BY <1>0, <1>1, <2>5 DEF JobsRight
<1> QED
  BY <1>0, <1>1, <1>6, <1>8, <1>9, <1>10, <1>11 DEF Typed

-----------------------------------------------------------------------------
(* The transaction of an id is that of the event that has it.              *)
LEMMA TransactionIs ==
  ASSUME EventsRight, NEW e \in Processed
  PROVE  /\ Transaction(e.eventId) = finalized[e.batch] /\ e \in events /\ e.kind = "processed"
         /\ e.batch \in DOMAIN finalized /\ e.eventId \in EventId
<1>1. /\ e \in events /\ e.kind = "processed"
      /\ e \in [batch : DOMAIN finalized, eventId : EventId, kind : Kind]
  BY DEF EventsRight, Processed
<1>2. e = [batch |-> e.batch, eventId |-> e.eventId, kind |-> "processed"] /\ e.batch \in DOMAIN finalized
  BY <1>1
<1>3. \A b \in DOMAIN finalized :
        [batch |-> b, eventId |-> e.eventId, kind |-> "processed"] \in events => b = e.batch
  BY <1>1 DEF EventsRight
<1>4. (CHOOSE b \in DOMAIN finalized :
         [batch |-> b, eventId |-> e.eventId, kind |-> "processed"] \in events) = e.batch
  BY <1>1, <1>2, <1>3
<1> QED
  BY <1>1, <1>2, <1>4 DEF Transaction

(* All that a job has in its hands is one transaction.                     *)
LEMMA OneInHands ==
  ASSUME EventsRight, NEW l, l.todo \subseteq ProcessedIds, NEW n \in First(l.todo)
  PROVE  /\ \A e \in InHands(l) : e.eventId = n /\ Transaction(n) = finalized[e.batch]
         /\ \E e \in InHands(l) : TRUE
         /\ First(l.todo) = {n} /\ n \in EventId
<1>1. \A i \in ProcessedIds : \E e \in Processed : e.eventId = i
  BY DEF ProcessedIds
<1>2. n \in l.todo
  BY DEF First
<1>3. PICK f \in Processed : f.eventId = n
  BY <1>1, <1>2
<1>4. ProcessedIds \subseteq Nat /\ n \in EventId
  BY <1>1, <1>3, TransactionIs, Bounds DEF EventId
<1>5. First(l.todo) = {n}
  <2>1. \A i \in First(l.todo) : i \in Nat /\ n \in Nat /\ i <= n /\ n <= i
    BY <1>2, <1>4 DEF First
  <2>2. \A i \in First(l.todo) : i = n
    BY <2>1
  <2> QED
    BY <2>2
<1>6. \A e \in InHands(l) : e.eventId = n /\ e \in Processed
  BY <1>5 DEF InHands
<1>7. f \in InHands(l)
  BY <1>3, <1>5 DEF InHands
<1> QED
  BY <1>4, <1>5, <1>6, <1>7, TransactionIs

LEMMA MoreIs ==
  ASSUME NEW n \in 0 .. Many, NEW k \in 0 .. Many
  PROVE  /\ More(n) \in 1 .. Many /\ Times(k, n) \in 0 .. Many /\ (k = 1 => Times(k, n) = More(n))
         /\ (k = 0 => Times(k, n) = n) /\ (n = 0 => More(n) = 1)
BY DEF More, Times, Many

(* A save is done: what the job has pushed by now is as it must be.        *)
LEMMA SaveIsRight ==
  ASSUME NEW l, NEW m, LocalRight(l)', l.pc = "save", IsLocal(m),
         m.batch = l.batch, m.last = l.last, m.index = l.index, m.eventId = l.eventId,
         m.todo = l.todo, m.count = l.count, m.request = l.request, m.actions = l.actions, m.state = l.state,
         m.pc \in {"save", "saveEvent"}, m.pending \subseteq l.pending, m.sums \in 0 .. Many,
         RequestPushed(m) => \A e \in InHands(l)' : responses'[finalized'[e.batch].request] >= 1,
         ActionsPushed(m) => \A e \in InHands(l)' : finalized'[e.batch].actions \subseteq active'
  PROVE  LocalRight(m)'
<1>1. InHands(m)' = InHands(l)' /\ (ProcessedIds)' = ProcessedIds'
  BY DEF InHands, First
<1>2. /\ RequestPushed(m)' = RequestPushed(m) /\ ActionsPushed(m)' = ActionsPushed(m)
      /\ IsLocal(m)' = IsLocal(m)
  BY DEF RequestPushed, ActionsPushed, IsLocal
<1> QED
  BY <1>1, <1>2 DEF LocalRight, PC

(* The request gets its responses and its sum.                             *)
LEMMA SaveRequestTypes ==
  ASSUME Typed, NEW j \in Job, SaveRequest(j)
  PROVE  Typed'
<1>0. /\ ChainRight /\ EventsRight /\ DocumentsRight /\ StorageRight /\ JobsRight
      /\ AnsweredInTurn /\ ProcessedIsCounted /\ steady \in BOOLEAN
      /\ LocalRight(job[j]) /\ IsLocal(job[j]) /\ DOMAIN job = Job /\ job[j].todo \subseteq ProcessedIds
      /\ job[j].sums \in 0 .. Many
  BY LocalFacts DEF Typed
<1>1. PICK n \in First(job[j].todo) :
        /\ responses' = [responses EXCEPT ![Transaction(n).request] = More(@)]
        /\ finalizedD' = [finalizedD EXCEPT ![Transaction(n).request] = Times(job[j].sums, @)]
  BY DEF SaveRequest
<1>2. /\ job[j].pc = "save" /\ "request" \in job[j].pending
      /\ job' = [job EXCEPT ![j] = [job[j] EXCEPT
                   !.pc = IF job[j].pending = {"request"} THEN "saveEvent" ELSE "save",
                   !.pending = job[j].pending \ {"request"}, !.sums = 0]]
      /\ log' = log /\ finalized' = finalized /\ computed' = computed /\ resolved' = resolved
      /\ events' = events /\ processed' = processed /\ active' = active
      /\ storage' = storage /\ steady' = steady
  BY <1>0 DEF SaveRequest, SaveDone, chainVars
<1> DEFINE r == Transaction(n).request
<1>3. /\ \A e \in InHands(job[j]) : Transaction(n) = finalized[e.batch]
      /\ \E e \in InHands(job[j]) : e.batch \in DOMAIN finalized /\ r = finalized[e.batch].request
  BY <1>0, OneInHands, TransactionIs DEF InHands
<1>4. r \in Requests /\ \E b \in DOMAIN finalized : finalized[b].request = r
  BY <1>0, <1>3, ChainIs
<1> HIDE DEF r
<1>5. /\ responses' = [responses EXCEPT ![r] = More(responses[r])]
      /\ finalizedD' = [finalizedD EXCEPT ![r] = Times(job[j].sums, finalizedD[r])]
  BY <1>1 DEF r
<1>6. /\ More(responses[r]) \in 1 .. Many /\ Times(job[j].sums, finalizedD[r]) \in 0 .. Many
      /\ responses \in [Requests -> 0 .. Many] /\ finalizedD \in [Requests -> 0 .. Many]
  BY <1>0, <1>4, MoreIs DEF DocumentsRight
<1>7. /\ responses' \in [Requests -> 0 .. Many] /\ finalizedD' \in [Requests -> 0 .. Many]
      /\ responses'[r] >= 1 /\ \A q \in Requests : responses[q] >= 1 => responses'[q] >= 1
      /\ \A q \in Requests : q # r => responses'[q] = responses[q] /\ finalizedD'[q] = finalizedD[q]
  BY <1>4, <1>5, <1>6
<1>8. ChainRight' /\ EventsRight' /\ AnsweredInTurn'
  BY <1>0, <1>2 DEF ChainRight, EventsRight, AnsweredInTurn
<1>9. DocumentsRight' /\ StorageRight'
  BY <1>0, <1>2, <1>7, SameActions DEF DocumentsRight, StorageRight, ProcessedIds, Processed, IsStorage
<1>10. Grows
  BY <1>0, <1>2, <1>7, ChainIs DEF Grows
<1>11. ProcessedIsCounted'
  <2>1. \A e \in events : finalized[e.batch].request \in Requests
    BY <1>0, ChainIs DEF EventsRight
  <2>2. \A e \in events : e.kind = "processed" /\ e.eventId \in processed =>
          responses'[finalized[e.batch].request] >= 1 /\ finalized[e.batch].actions \subseteq active
    BY <1>0, <1>7, <2>1 DEF ProcessedIsCounted
  <2>3. \A q \in Requests : responses'[q] + finalizedD'[q] > 0 =>
          \E b \in DOMAIN finalized : finalized[b].request = q
    BY <1>0, <1>4, <1>7 DEF ProcessedIsCounted
  <2> QED
    BY <1>2, <2>2, <2>3 DEF ProcessedIsCounted
<1>12. JobsRight'
  <2>1. PICK l : l = job[j]
    OBVIOUS
  <2>2. PICK m : m = job'[j]
    OBVIOUS
  <2>3. LocalRight(l) /\ LocalRight(l)'
    BY <1>0, <1>8, <1>10, <2>1, LocalKeeps
  <2>4. /\ IsLocal(m) /\ l.pc = "save" /\ m.pc = (IF l.pending = {"request"} THEN "saveEvent" ELSE "save")
        /\ m.batch = l.batch /\ m.last = l.last /\ m.index = l.index /\ m.eventId = l.eventId
        /\ m.todo = l.todo /\ m.count = l.count /\ m.request = l.request
        /\ m.actions = l.actions /\ m.state = l.state
        /\ m.pending = l.pending \ {"request"} /\ m.sums = 0 /\ l.pending \subseteq {"request", "actions"}
    BY <1>0, <1>2, <2>1, <2>2, <2>3 DEF IsLocal, LocalRight
  <2>5. InHands(l)' = InHands(l)
    BY <1>2 DEF InHands, Processed, First
  <2>6. \A e \in InHands(l)' : responses'[finalized'[e.batch].request] >= 1
    BY <1>2, <1>3, <1>7, <2>1, <2>5 DEF r
  <2>7. ActionsPushed(m) => ActionsPushed(l)
    BY <2>4 DEF ActionsPushed
  <2>8. ActionsPushed(m) => \A e \in InHands(l)' : finalized'[e.batch].actions \subseteq active'
    BY <1>2, <2>3, <2>5, <2>7 DEF LocalRight
  <2>9. LocalRight(m)'
    BY <2>3, <2>4, <2>6, <2>8, SaveIsRight DEF Many
  <2>10. LocalRight(job[j])'
    BY <2>2, <2>9
  <2> QED
    BY <1>0, <1>2, <1>8, <1>10, <2>10, JobChanged
<1> QED
  BY <1>0, <1>2, <1>8, <1>9, <1>11, <1>12 DEF Typed

(* An action becomes active.                                               *)
LEMMA SaveActionTypes ==
  ASSUME Typed, NEW j \in Job, SaveAction(j)
  PROVE  Typed'
<1>0. /\ ChainRight /\ EventsRight /\ DocumentsRight /\ StorageRight /\ JobsRight
      /\ AnsweredInTurn /\ ProcessedIsCounted /\ steady \in BOOLEAN
      /\ LocalRight(job[j]) /\ job[j].todo \subseteq ProcessedIds
  BY LocalFacts DEF Typed
<1>1. PICK n \in First(job[j].todo) : \E a \in Transaction(n).actions \ active : active' = active \cup {a}
  BY DEF SaveAction
<1>2. /\ log' = log /\ finalized' = finalized /\ computed' = computed /\ resolved' = resolved
      /\ events' = events /\ processed' = processed /\ responses' = responses
      /\ finalizedD' = finalizedD /\ storage' = storage /\ job' = job /\ steady' = steady
  BY DEF SaveAction, chainVars
<1>3. \E e \in InHands(job[j]) : e.batch \in DOMAIN finalized /\ Transaction(n) = finalized[e.batch]
  BY <1>0, OneInHands, TransactionIs DEF InHands
<1>4. active \subseteq active' /\ active' \subseteq ActionsOf(Len(finalized))
  BY <1>0, <1>1, <1>3, InActions, ChainIs DEF DocumentsRight
<1>5. ChainRight' /\ EventsRight' /\ AnsweredInTurn'
  BY <1>0, <1>2 DEF ChainRight, EventsRight, AnsweredInTurn
<1>6. DocumentsRight' /\ StorageRight'
  BY <1>0, <1>2, <1>4, SameActions DEF DocumentsRight, StorageRight, ProcessedIds, Processed, IsStorage
<1>7. Grows
  BY <1>0, <1>2, <1>4, ChainIs DEF Grows
<1>8. ProcessedIsCounted'
  <2>1. \A e \in events : e.kind = "processed" /\ e.eventId \in processed =>
          responses[finalized[e.batch].request] >= 1 /\ finalized[e.batch].actions \subseteq active'
    BY <1>0, <1>4 DEF ProcessedIsCounted
  <2> QED
    BY <1>0, <1>2, <2>1 DEF ProcessedIsCounted
<1>9. JobsRight'
  BY <1>2, <1>5, <1>7, JobsKeep
<1> QED
  BY <1>0, <1>2, <1>5, <1>6, <1>8, <1>9 DEF Typed

(* All of them are active.                                                 *)
LEMMA SaveActionsTypes ==
  ASSUME Typed, NEW j \in Job, SaveActions(j)
  PROVE  Typed'
<1>0. /\ ChainRight /\ EventsRight /\ DocumentsRight /\ StorageRight /\ JobsRight
      /\ AnsweredInTurn /\ ProcessedIsCounted /\ steady \in BOOLEAN
      /\ LocalRight(job[j]) /\ IsLocal(job[j]) /\ DOMAIN job = Job /\ job[j].todo \subseteq ProcessedIds
      /\ job[j].sums \in 0 .. Many
  BY LocalFacts DEF Typed
<1>1. PICK n \in First(job[j].todo) : Transaction(n).actions \subseteq active
  BY DEF SaveActions
<1>2. /\ job[j].pc = "save" /\ "actions" \in job[j].pending
      /\ job' = [job EXCEPT ![j] = [job[j] EXCEPT
                   !.pc = IF job[j].pending = {"actions"} THEN "saveEvent" ELSE "save",
                   !.pending = job[j].pending \ {"actions"}]]
      /\ log' = log /\ finalized' = finalized /\ computed' = computed /\ resolved' = resolved
      /\ events' = events /\ processed' = processed /\ active' = active /\ responses' = responses
      /\ finalizedD' = finalizedD /\ storage' = storage /\ steady' = steady
  <2>1. SaveDone(j, "actions")
    BY DEF SaveActions
  <2>2. job' = [job EXCEPT ![j] = [job[j] EXCEPT
                   !.pc = IF job[j].pending = {"actions"} THEN "saveEvent" ELSE "save",
                   !.pending = job[j].pending \ {"actions"}, !.sums = job[j].sums]]
    BY <1>0, <2>1 DEF SaveDone
  <2>3. [job[j] EXCEPT !.pc = IF job[j].pending = {"actions"} THEN "saveEvent" ELSE "save",
                   !.pending = job[j].pending \ {"actions"}, !.sums = job[j].sums]
        = [job[j] EXCEPT !.pc = IF job[j].pending = {"actions"} THEN "saveEvent" ELSE "save",
                   !.pending = job[j].pending \ {"actions"}]
    BY <1>0 DEF IsLocal
  <2> QED
    BY <2>2, <2>3 DEF SaveActions, chainVars, docVars
<1>3. /\ \A e \in InHands(job[j]) : Transaction(n) = finalized[e.batch]
      /\ \E e \in InHands(job[j]) : e.batch \in DOMAIN finalized /\ Transaction(n) = finalized[e.batch]
  BY <1>0, OneInHands, TransactionIs DEF InHands
<1>8. ChainRight' /\ EventsRight' /\ AnsweredInTurn'
  BY <1>0, <1>2 DEF ChainRight, EventsRight, AnsweredInTurn
<1>9. DocumentsRight' /\ StorageRight'
  BY <1>0, <1>2, SameActions DEF DocumentsRight, StorageRight, ProcessedIds, Processed, IsStorage
<1>10. Grows
  BY <1>0, <1>2, ChainIs DEF Grows
<1>11. ProcessedIsCounted'
  BY <1>0, <1>2 DEF ProcessedIsCounted
<1>12. JobsRight'
  <2>1. PICK l : l = job[j]
    OBVIOUS
  <2>2. PICK m : m = job'[j]
    OBVIOUS
  <2>3. LocalRight(l) /\ LocalRight(l)'
    BY <1>0, <1>8, <1>10, <2>1, LocalKeeps
  <2>4. /\ IsLocal(m) /\ l.pc = "save" /\ m.pc = (IF l.pending = {"actions"} THEN "saveEvent" ELSE "save")
        /\ m.batch = l.batch /\ m.last = l.last /\ m.index = l.index /\ m.eventId = l.eventId
        /\ m.todo = l.todo /\ m.count = l.count /\ m.request = l.request
        /\ m.actions = l.actions /\ m.state = l.state
        /\ m.pending = l.pending \ {"actions"} /\ m.sums = l.sums /\ l.pending \subseteq {"request", "actions"}
        /\ l.sums \in 0 .. Many
    BY <1>0, <1>2, <2>1, <2>2, <2>3 DEF IsLocal, LocalRight
  <2>5. InHands(l)' = InHands(l)
    BY <1>2 DEF InHands, Processed, First
  <2>6. \A e \in InHands(l)' : finalized'[e.batch].actions \subseteq active'
    BY <1>1, <1>2, <1>3, <2>1, <2>5
  <2>7. RequestPushed(m) => RequestPushed(l)
    BY <2>4 DEF RequestPushed
  <2>8. RequestPushed(m) => \A e \in InHands(l)' : responses'[finalized'[e.batch].request] >= 1
    BY <1>2, <2>3, <2>5, <2>7 DEF LocalRight
  <2>9. LocalRight(m)'
    BY <2>3, <2>4, <2>6, <2>8, SaveIsRight
  <2>10. LocalRight(job[j])'
    BY <2>2, <2>9
  <2> QED
    BY <1>0, <1>2, <1>8, <1>10, <2>10, JobChanged
<1> QED
  BY <1>0, <1>2, <1>8, <1>9, <1>11, <1>12 DEF Typed

(* An event is marked when both are saved.                                 *)
LEMMA SaveEventTypes ==
  ASSUME Typed, NEW j \in Job, SaveEvent(j)
  PROVE  Typed'
<1>0. /\ ChainRight /\ EventsRight /\ DocumentsRight /\ StorageRight /\ JobsRight
      /\ AnsweredInTurn /\ ProcessedIsCounted /\ steady \in BOOLEAN
      /\ LocalRight(job[j]) /\ IsLocal(job[j]) /\ DOMAIN job = Job /\ job[j].todo \subseteq ProcessedIds
  BY LocalFacts DEF Typed
<1>1. /\ job[j].pc = "saveEvent" /\ processed' = processed \cup First(job[j].todo)
      /\ log' = log /\ finalized' = finalized /\ computed' = computed /\ resolved' = resolved
      /\ events' = events /\ active' = active /\ responses' = responses
      /\ finalizedD' = finalizedD /\ storage' = storage /\ steady' = steady
  BY DEF SaveEvent, chainVars
<1>2. PICK label \in {"findRequests", "next"} :
        job' = [job EXCEPT ![j] = [Idle EXCEPT !.pc = label,
                                               !.todo = job[j].todo \ First(job[j].todo)]]
  BY DEF SaveEvent, Proceed
<1>3. ChainRight' /\ EventsRight' /\ AnsweredInTurn'
  BY <1>0, <1>1 DEF ChainRight, EventsRight, AnsweredInTurn
<1>4. First(job[j].todo) \subseteq ProcessedIds
  BY <1>0 DEF First
<1>5. DocumentsRight' /\ StorageRight'
  BY <1>0, <1>1, <1>4, SameActions DEF DocumentsRight, StorageRight, ProcessedIds, Processed, IsStorage
<1>6. Grows
  BY <1>0, <1>1, ChainIs DEF Grows
<1>7. ProcessedIsCounted'
  <2>1. ASSUME NEW e \in events, e.kind = "processed", e.eventId \in First(job[j].todo)
        PROVE  responses[finalized[e.batch].request] >= 1 /\ finalized[e.batch].actions \subseteq active
    <3>1. e \in InHands(job[j])
      BY <2>1 DEF InHands, Processed
    <3> QED
      BY <1>0, <1>1, <3>1 DEF LocalRight, RequestPushed, ActionsPushed
  <2> QED
    BY <1>0, <1>1, <2>1 DEF ProcessedIsCounted
<1>8. JobsRight'
  <2>1. PICK m : m = job'[j]
    OBVIOUS
  <2>2. LocalRight(m)
    BY <1>0, <1>2, <2>1, FreshIsRight
  <2>3. LocalRight(job[j])'
    BY <1>3, <1>6, <2>1, <2>2, LocalKeeps
  <2> QED
    BY <1>0, <1>2, <1>3, <1>6, <2>3, JobChanged
<1> QED
  BY <1>0, <1>1, <1>3, <1>5, <1>7, <1>8 DEF Typed

-----------------------------------------------------------------------------
(* Steps that write to the trees.                                          *)
LEMMA OverwriteIs ==
  ASSUME NEW f, NEW g
  PROVE  /\ DOMAIN Overwrite(f, g) = DOMAIN f \cup DOMAIN g
         /\ \A x \in DOMAIN g : Overwrite(f, g)[x] = g[x]
         /\ \A x \in DOMAIN f \ DOMAIN g : Overwrite(f, g)[x] = f[x]
BY DEF Overwrite

LEMMA TreeTypes ==
  ASSUME Typed, NEW j \in Job, UNCHANGED <<chainVars, docVars, steady>>,
         NEW label \in {"findProcessed", "findActive", "updated"},
         job[j].pc \in {"findRequests", "findProcessed", "findActive"},
         Goto(j, label), StorageRight'
  PROVE  Typed'
<1>0. LocalRight(job[j]) /\ IsLocal(job[j]) /\ DOMAIN job = Job /\ steady' \in BOOLEAN
  BY LocalFacts DEF Typed
<1>1. /\ Grows /\ ChainRight' /\ EventsRight' /\ DocumentsRight' /\ AnsweredInTurn' /\ ProcessedIsCounted'
  BY Unchanged DEF Typed
<1>2. job' = [job EXCEPT ![j] = [job[j] EXCEPT !.pc = label]]
  BY <1>0 DEF Goto
<1>3. PICK m : m = job'[j]
  OBVIOUS
<1>4. /\ IsLocal(m) /\ m.pc = label /\ m.batch = job[j].batch /\ m.last = job[j].last
      /\ m.index = job[j].index /\ m.eventId = job[j].eventId /\ m.todo = job[j].todo
      /\ m.sums = job[j].sums /\ m.pending = job[j].pending /\ m.request = job[j].request
      /\ m.count = job[j].count /\ m.actions = job[j].actions /\ m.state = job[j].state
  BY <1>0, <1>2, <1>3 DEF IsLocal
<1>5. LocalRight(m)
  BY <1>0, <1>4 DEF LocalRight, PC, RequestPushed, ActionsPushed
<1>6. LocalRight(job[j])'
  BY <1>1, <1>3, <1>5, LocalKeeps
<1>7. JobsRight'
  BY <1>0, <1>1, <1>2, <1>6, JobChanged
<1> QED
  BY <1>0, <1>1, <1>7 DEF Typed

LEMMA ActiveIs ==
  ASSUME ChainRight, DocumentsRight
  PROVE  active \subseteq ActionId
BY ChainIs, InActions DEF DocumentsRight

LEMMA StorageTypes ==
  ASSUME Typed, NEW j \in Job, FindRequests(j) \/ FindProcessed(j) \/ FindActive(j)
  PROVE  Typed'
<1>0. /\ ChainRight /\ EventsRight /\ DocumentsRight /\ StorageRight /\ ProcessedIsCounted
      /\ IsStorage(storage)
  BY DEF Typed, StorageRight
<1>1. ASSUME FindRequests(j) PROVE Typed'
  <2> DEFINE A == {a \in ActionId : \E b \in DOMAIN finalized : /\ a \in finalized[b].actions
                                                                /\ responses[finalized[b].request] > 0}
             G == [r \in {q \in Requests : finalizedD[q] > 0} |-> finalizedD[r]]
             T == Overwrite(storage.response, G)
  <2>1. storage' = [storage EXCEPT !.contribution = storage.contribution \cup A, !.response = T]
    BY <1>1 DEF FindRequests
  <2>2. A \subseteq ActionsOf(Len(finalized))
    BY <1>0, ChainIs, InActions
  <2>3. \A r \in DOMAIN T : T[r] \in 1 .. Many
    <3>1. \A r \in DOMAIN G : G[r] \in 1 .. Many
      BY <1>0 DEF DocumentsRight, Many
    <3> HIDE DEF G
    <3>2. /\ DOMAIN T = DOMAIN storage.response \cup DOMAIN G
          /\ \A r \in DOMAIN G : T[r] = G[r]
          /\ \A r \in DOMAIN storage.response \ DOMAIN G : T[r] = storage.response[r]
      BY OverwriteIs
    <3> HIDE DEF T
    <3>3. ASSUME NEW r \in DOMAIN T PROVE T[r] \in 1 .. Many
      <4>1. CASE r \in DOMAIN G
        BY <3>1, <3>2, <4>1
      <4>2. CASE r \notin DOMAIN G
        BY <1>0, <3>2, <3>3, <4>2 DEF StorageRight
      <4> QED
        BY <4>1, <4>2
    <3> QED
      BY <3>3
  <2> HIDE DEF A, T
  <2>4. /\ IsStorage(storage') /\ storage'.contribution = storage.contribution \cup A
        /\ storage'.response = T /\ storage'.process = storage.process
        /\ storage'.mapping = storage.mapping
    BY <1>0, <2>1 DEF IsStorage
  <2>5. active' = active /\ ActionsOf(Len(finalized))' = ActionsOf(Len(finalized))
    BY <1>1, SameActions DEF FindRequests, docVars, chainVars
  <2>6. StorageRight'
    BY <1>0, <2>2, <2>3, <2>4, <2>5 DEF StorageRight, IsStorage
  <2> QED
    BY <1>1, <2>6, TreeTypes DEF FindRequests
<1>2. ASSUME FindProcessed(j) PROVE Typed'
  <2>1. storage' = [storage EXCEPT !.mapping = Counted]
    BY <1>2 DEF FindProcessed
  <2>2. ASSUME NEW a \in ActionId
        PROVE  Counted[a] \in 0 .. MaxCounter + 1 /\ storage.mapping[a] <= Counted[a]
    <3> DEFINE n == Cardinality(Naming(a))
               m == storage.mapping[a]
    <3>1. n \in Nat
      <4>1. IsFiniteSet(events) /\ Naming(a) \in SUBSET events
        BY <1>0 DEF EventsRight, Naming
      <4> QED
        BY <4>1, FS_Subset, FS_CardinalityType
    <3>2. m \in 0 .. MaxCounter + 1 /\ MaxCounter \in Nat
      BY <1>0, Bounds DEF StorageRight
    <3>3. Counted[a] = AtMost(m + n, MaxCounter + 1)
      BY DEF Counted
    <3> HIDE DEF n, m
    <3>4. Counted[a] \in 0 .. MaxCounter + 1 /\ m <= Counted[a]
      BY <3>1, <3>2, <3>3 DEF AtMost
    <3> QED
      BY <3>4 DEF m
  <2>3. Counted \in [ActionId -> 0 .. MaxCounter + 1]
    <3>1. Counted = [a \in ActionId |-> Counted[a]]
      BY DEF Counted
    <3> HIDE DEF Counted
    <3> QED
      BY <2>2, <3>1
  <2> HIDE DEF Counted
  <2>4. /\ IsStorage(storage') /\ storage'.contribution = storage.contribution
        /\ storage'.response = storage.response /\ storage'.process = storage.process
        /\ storage'.mapping = Counted
    BY <1>0, <2>1 DEF IsStorage
  <2>5. active' = active /\ ActionsOf(Len(finalized))' = ActionsOf(Len(finalized))
    BY <1>2, SameActions DEF FindProcessed, docVars, chainVars
  <2>6. \A a \in DOMAIN storage.process : storage.process[a] <= Counted[a]
    <3> SUFFICES ASSUME NEW a \in DOMAIN storage.process
                 PROVE  storage.process[a] <= Counted[a]
      OBVIOUS
    <3>1. a \in ActionId
      BY <1>0, ActiveIs DEF StorageRight
    <3>2. /\ storage.process[a] \in 1 .. MaxCounter /\ storage.process[a] <= storage.mapping[a]
          /\ storage.mapping[a] \in 0 .. MaxCounter + 1 /\ MaxCounter \in Nat
      BY <1>0, <3>1, Bounds DEF StorageRight
    <3> QED
      BY <2>2, <3>1, <3>2
  <2>7. StorageRight'
    BY <1>0, <2>3, <2>4, <2>5, <2>6 DEF StorageRight, IsStorage
  <2> QED
    BY <1>2, <2>7, TreeTypes DEF FindProcessed
<1>3. ASSUME FindActive(j) PROVE Typed'
  <2> DEFINE G == [a \in Written |-> storage.mapping[a]]
             T == Overwrite(storage.process, G)
  <2>1. storage' = [storage EXCEPT !.process = T]
    BY <1>3 DEF FindActive
  <2>2. \A a \in DOMAIN G : a \in active /\ G[a] \in 1 .. MaxCounter /\ G[a] <= storage.mapping[a]
    <3> SUFFICES ASSUME NEW a \in Written
                 PROVE  a \in active /\ storage.mapping[a] \in 1 .. MaxCounter
                        /\ storage.mapping[a] <= storage.mapping[a]
      OBVIOUS
    <3>1. a \in active /\ storage.mapping[a] > 0 /\ (a <= a => storage.mapping[a] <= MaxCounter)
      BY DEF Written
    <3>2. a \in ActionId
      BY <1>0, <3>1, ActiveIs
    <3>3. a \in Nat /\ MaxCounter \in Nat
      BY <3>2, Bounds DEF ActionId
    <3>4. storage.mapping[a] \in 0 .. MaxCounter + 1
      BY <1>0, <3>2 DEF StorageRight
    <3> QED
      BY <3>1, <3>3, <3>4
  <2>3. \A a \in DOMAIN T : a \in active /\ T[a] \in 1 .. MaxCounter /\ T[a] <= storage.mapping[a]
    <3> HIDE DEF G
    <3>1. /\ DOMAIN T = DOMAIN storage.process \cup DOMAIN G
          /\ \A a \in DOMAIN G : T[a] = G[a]
          /\ \A a \in DOMAIN storage.process \ DOMAIN G : T[a] = storage.process[a]
      BY OverwriteIs
    <3> HIDE DEF T
    <3>2. ASSUME NEW a \in DOMAIN T
          PROVE  a \in active /\ T[a] \in 1 .. MaxCounter /\ T[a] <= storage.mapping[a]
      <4>1. CASE a \in DOMAIN G
        BY <2>2, <3>1, <4>1
      <4>2. CASE a \notin DOMAIN G
        BY <1>0, <3>1, <3>2, <4>2 DEF StorageRight
      <4> QED
        BY <4>1, <4>2
    <3> QED
      BY <3>2
  <2> HIDE DEF T
  <2>4. /\ IsStorage(storage') /\ storage'.contribution = storage.contribution
        /\ storage'.response = storage.response /\ storage'.process = T
        /\ storage'.mapping = storage.mapping
    BY <1>0, <2>1 DEF IsStorage
  <2>5. active' = active /\ ActionsOf(Len(finalized))' = ActionsOf(Len(finalized))
    BY <1>3, SameActions DEF FindActive, docVars, chainVars
  <2>6. StorageRight'
    BY <1>0, <2>3, <2>4, <2>5 DEF StorageRight, IsStorage
  <2> QED
    BY <1>3, <2>6, TreeTypes DEF FindActive
<1> QED
  BY <1>1, <1>2, <1>3

-----------------------------------------------------------------------------
(* A transaction is included: the request was not finalized before, and    *)
(* all requests before it are resolved, those that are finalized later     *)
(* included.                                                               *)
LEMMA SendTypes ==
  ASSUME Typed, NEW j \in Job, Send(j)
  PROVE  Typed'
<1> DEFINE r == job[j].request
           t == [request |-> job[j].request, actions |-> job[j].actions]
<1>0. /\ ChainRight /\ EventsRight /\ DocumentsRight /\ StorageRight /\ JobsRight
      /\ AnsweredInTurn /\ ProcessedIsCounted /\ steady \in BOOLEAN
      /\ LocalRight(job[j]) /\ DOMAIN job = Job
      /\ r \in Requests /\ job[j].actions \subseteq DOMAIN log
  BY LocalFacts DEF Typed
<1>1. /\ job[j].pc = "send" /\ job' = [job EXCEPT ![j] = Idle]
      /\ log' = log /\ computed' = computed /\ resolved' = resolved
      /\ events' = events /\ processed' = processed /\ active' = active /\ responses' = responses
      /\ finalizedD' = finalizedD /\ storage' = storage /\ steady' = steady
  BY DEF Send, Return, docVars
<1>2. CASE finalized' = finalized
  <2>1. UNCHANGED <<chainVars, docVars, storage>> /\ steady' \in BOOLEAN
    BY <1>0, <1>1, <1>2 DEF chainVars, docVars
  <2> QED
    BY <1>0, <1>1, <2>1, IdleIsRight, JobOnly
<1>3. CASE Accepted(j) /\ finalized' = Append(finalized, t)
  <2> DEFINE T == [request : Requests, actions : SUBSET DOMAIN log]
  <2>1. /\ InTurn(r) /\ job[j].actions # {} /\ \A a \in job[j].actions : log[a] = r
        /\ \A b \in DOMAIN finalized : finalized[b].request # r
    BY <1>0, <1>1, <1>3 DEF LocalRight, Accepted
  <2>2. Len(finalized) \in Nat /\ DOMAIN finalized = 1 .. Len(finalized) /\ finalized \in Seq(T)
    BY <1>0, ChainIs DEF ChainRight
  <2>3. t \in T /\ t.request = r /\ t.actions = job[j].actions
    BY <1>0
  <2> HIDE DEF T, t
  <2>4. /\ finalized' \in Seq(T) /\ Len(finalized') = Len(finalized) + 1
        /\ DOMAIN finalized' = 1 .. Len(finalized') /\ finalized'[Len(finalized')] = t
        /\ \A b \in DOMAIN finalized : b \in DOMAIN finalized' /\ finalized'[b] = finalized[b]
        /\ \A b \in DOMAIN finalized' : b \in DOMAIN finalized \/ b = Len(finalized')
    BY <1>3, <2>2, <2>3
  <2>5. ChainRight'
    <3>1. finalized' \in Seq([request : Requests, actions : SUBSET DOMAIN log'])
      BY <1>1, <2>4 DEF T
    <3>2. \A b \in DOMAIN finalized' :
            /\ finalized'[b].actions # {}
            /\ \A a \in finalized'[b].actions : log'[a] = finalized'[b].request
      BY <1>0, <1>1, <2>1, <2>3, <2>4 DEF ChainRight
    <3>3. computed' \subseteq {finalized'[b].request : b \in DOMAIN finalized'}
      <4>1. \A q \in computed : \E b \in DOMAIN finalized : q = finalized[b].request
        BY <1>0 DEF ChainRight
      <4> QED
        BY <1>1, <2>4, <4>1
    <3>4. log' \in Seq(Requests) /\ Len(log') <= MaxResponses /\ resolved' \subseteq computed'
      BY <1>0, <1>1 DEF ChainRight
    <3> QED
      BY <3>1, <3>2, <3>3, <3>4, Zenon DEF ChainRight
  <2>6. Grows
    BY <1>1, <2>2, <2>4 DEF Grows
  <2>7. EventsRight'
    <3>1. \A e \in events : e \in [batch : DOMAIN finalized', eventId : EventId, kind : Kind]
      BY <1>0, <2>4 DEF EventsRight
    <3> QED
      BY <1>0, <1>1, <3>1 DEF EventsRight
  <2>8. ActionsOf(Len(finalized)) \subseteq ActionsOf(Len(finalized))'
    <3>1. Len(finalized') \in Nat
      BY <2>2, <2>4
    <3>2. \A b \in 1 .. Len(finalized) : b \in 1 .. Len(finalized') /\ finalized'[b] = finalized[b]
      BY <2>2, <2>4
    <3> QED
      BY <3>2 DEF ActionsOf
  <2>9. DocumentsRight' /\ StorageRight'
    <3>1. active' = active /\ ProcessedIds' = ProcessedIds
      BY <1>1 DEF ProcessedIds, Processed
    <3>2. active' \subseteq ActionsOf(Len(finalized))'
      BY <1>0, <2>8, <3>1 DEF DocumentsRight
    <3>3. storage'.contribution \subseteq ActionsOf(Len(finalized))'
      BY <1>0, <1>1, <2>8 DEF StorageRight
    <3> QED
      BY <1>0, <1>1, <3>1, <3>2, <3>3 DEF DocumentsRight, StorageRight, IsStorage
  <2>10. AnsweredInTurn'
    <3>1. \A b \in DOMAIN finalized' : \A q \in 0 .. finalized'[b].request - 1 : q \in resolved'
      BY <1>0, <1>1, <2>1, <2>3, <2>4 DEF AnsweredInTurn, InTurn
    <3>2. \A b, c \in DOMAIN finalized' : finalized'[b].request = finalized'[c].request => b = c
      BY <1>0, <2>1, <2>3, <2>4 DEF AnsweredInTurn
    <3> QED
      BY <3>1, <3>2 DEF AnsweredInTurn
  <2>11. ProcessedIsCounted'
    <3>1. \A e \in events : e.batch \in DOMAIN finalized
      BY <1>0 DEF EventsRight
    <3>2. \A e \in events' : e.kind = "processed" /\ e.eventId \in processed' =>
            responses'[finalized'[e.batch].request] >= 1 /\ finalized'[e.batch].actions \subseteq active'
      BY <1>0, <1>1, <2>4, <3>1 DEF ProcessedIsCounted
    <3>3. \A q \in Requests : responses'[q] + finalizedD'[q] > 0 =>
            \E b \in DOMAIN finalized' : finalized'[b].request = q
      BY <1>0, <1>1, <2>4 DEF ProcessedIsCounted
    <3> QED
      BY <3>2, <3>3 DEF ProcessedIsCounted
  <2>12. JobsRight'
    <3>1. LocalRight(Idle)'
      BY <1>0, <2>6, <2>7, IdleIsRight, LocalKeeps
    <3>2. LocalRight(job[j])'
      BY <1>0, <1>1, <3>1
    <3> QED
      BY <1>0, <1>1, <2>6, <2>7, <3>2, JobChanged
  <2> QED
    BY <1>0, <1>1, <2>5, <2>7, <2>9, <2>10, <2>11, <2>12 DEF Typed
<1> QED
  BY <1>2, <1>3 DEF Send

(* The contract accepts a result only for a request that is finalized.     *)
LEMMA ComputeTypes ==
  ASSUME Typed, NEW j \in Job, Compute(j)
  PROVE  Typed'
<1>0. /\ ChainRight /\ EventsRight /\ DocumentsRight /\ StorageRight /\ JobsRight
      /\ AnsweredInTurn /\ ProcessedIsCounted /\ steady \in BOOLEAN
      /\ LocalRight(job[j]) /\ DOMAIN job = Job
  BY LocalFacts DEF Typed
<1>1. /\ job[j].pc = "compute" /\ job' = [job EXCEPT ![j] = Idle]
      /\ computed' = (IF ResultFits(j) THEN computed \cup {job[j].request} ELSE computed)
      /\ log' = log /\ finalized' = finalized /\ resolved' = resolved
      /\ events' = events /\ processed' = processed /\ active' = active /\ responses' = responses
      /\ finalizedD' = finalizedD /\ storage' = storage /\ steady' = steady
  BY DEF Compute, Return, docVars
<1>2. ResultFits(j) => \E b \in DOMAIN finalized : finalized[b].request = job[j].request
  BY <1>0, <1>1 DEF LocalRight, ResultFits
<1>3. /\ computed' \subseteq {finalized[b].request : b \in DOMAIN finalized} /\ computed \subseteq computed'
  BY <1>0, <1>1, <1>2 DEF ChainRight
<1>4. ChainRight'
  BY <1>0, <1>1, <1>3 DEF ChainRight
<1>5. EventsRight' /\ AnsweredInTurn' /\ ProcessedIsCounted'
  BY <1>0, <1>1 DEF EventsRight, AnsweredInTurn, ProcessedIsCounted
<1>6. Grows
  BY <1>0, <1>1, ChainIs DEF Grows
<1>7. DocumentsRight' /\ StorageRight'
  BY <1>0, <1>1, SameActions DEF DocumentsRight, StorageRight, ProcessedIds, Processed, IsStorage
<1>8. JobsRight'
  <2>1. LocalRight(Idle)'
    BY <1>0, <1>5, <1>6, IdleIsRight, LocalKeeps
  <2>2. LocalRight(job[j])'
    BY <1>0, <1>1, <2>1
  <2> QED
    BY <1>0, <1>1, <1>5, <1>6, <2>2, JobChanged
<1> QED
  BY <1>0, <1>1, <1>4, <1>5, <1>7, <1>8 DEF Typed

(* A restart leaves the documents, and the chain.                          *)
LEMMA CrashTypes ==
  ASSUME Typed, Crash
  PROVE  Typed'
<1>0. StorageRight /\ ChainRight /\ steady \in BOOLEAN
  BY DEF Typed
<1>1. /\ storage' = EmptyStorage /\ job' = [j \in Job |-> Idle] /\ steady' \in BOOLEAN
      /\ UNCHANGED <<chainVars, docVars>>
  BY <1>0 DEF Crash
<1>2. /\ Grows /\ ChainRight' /\ EventsRight' /\ DocumentsRight' /\ AnsweredInTurn' /\ ProcessedIsCounted'
  BY <1>1, Unchanged
<1>3. JobsRight'
  <2>1. LocalRight(Idle)'
    BY <1>0, <1>2, IdleIsRight, LocalKeeps
  <2> QED
    BY <1>1, <2>1 DEF JobsRight
<1>4. StorageRight'
  BY <1>1, EmptyIs, Bounds DEF StorageRight, IsStorage
<1> QED
  BY <1>1, <1>2, <1>3, <1>4 DEF Typed

LEMMA TypeStep == Typed /\ [Next]_vars => Typed'
<1> SUFFICES ASSUME Typed, [Next]_vars PROVE Typed'
  OBVIOUS
<1>1. CASE UNCHANGED vars
  <2>1. UNCHANGED <<chainVars, docVars>> /\ storage' = storage /\ job' = job /\ steady' = steady
    BY <1>1 DEF vars
  <2>2. /\ Grows /\ ChainRight' /\ EventsRight' /\ DocumentsRight' /\ AnsweredInTurn'
        /\ ProcessedIsCounted' /\ StorageRight'
    BY <2>1, Unchanged DEF Typed
  <2>3. JobsRight'
    BY <2>1, <2>2, JobsKeep
  <2> QED
    BY <2>1, <2>2, <2>3 DEF Typed
<1>2. CASE Next
  <2>1. CASE ChainStep
    BY <2>1, ChainTypes DEF ChainStep
  <2>2. CASE Crash
    BY <2>2, CrashTypes
  <2>3. ASSUME NEW j \in Job, Update(j) PROVE Typed'
    BY <2>3, PassTypes, StoreTypes, SaveRequestTypes, SaveActionTypes, SaveActionsTypes,
       SaveEventTypes, StorageTypes
    DEF Update
  <2>4. ASSUME NEW j \in Job, Rollup(j) \/ Skip(j) PROVE Typed'
    BY <2>4, RollupTypes, SendTypes, ComputeTypes DEF Rollup
  <2>5. ASSUME NEW j \in Job, FetchThrows(j) \/ UpdateThrows(j) PROVE Typed'
    BY <2>5, PassTypes, RollupTypes
  <2> QED
    BY <1>2, <2>1, <2>2, <2>3, <2>4, <2>5 DEF Next, Fail
<1> QED
  BY <1>1, <1>2

-----------------------------------------------------------------------------
LEMMA InitSteady == Init => SteadyRight
<1> SUFFICES ASSUME Init PROVE SteadyRight
  OBVIOUS
<1>0. /\ finalized = <<>> /\ events = {} /\ job = [j \in Job |-> Idle]
      /\ responses = [r \in Requests |-> 0] /\ finalizedD = [r \in Requests |-> 0]
  BY DEF Init
<1>1. \A j \in Job : job[j] = Idle /\ job[j].pc = "idle"
  BY <1>0, IdleIs
<1>2. OnePass /\ \A j \in Job : SteadyLocal(job[j])
  BY <1>1 DEF OnePass, InPass, SteadyLocal
<1>3. Len(finalized) = 0 /\ DOMAIN finalized = {}
  BY <1>0
<1>4. BetweenPasses
  <2>1. EventsBelow(2 * 1 - 1) = {}
    BY <1>3 DEF EventsBelow
  <2>2. 1 \in 1 .. Len(finalized) + 1
    BY <1>3
  <2> QED
    BY <1>0, <2>1, <2>2 DEF BetweenPasses, WholeBatches
<1>5. PushedOnce
  BY <1>0, <1>3 DEF PushedOnce, HasPushed
<1> QED
  BY <1>2, <1>4, <1>5 DEF SteadyRight

(* Steps of one job, which leave the documents that the passes write.      *)
LEMMA SteadyJob ==
  ASSUME Typed, SteadyRight, NEW j \in Job, steady' => steady,
         UNCHANGED <<finalized, events, processed, responses, finalizedD>>,
         \A k \in Job : k # j => job'[k] = job[k],
         steady' /\ InPass(j)' => \A k \in Job \ {j} : ~ InPass(k),
         steady' => BetweenPasses' /\ SteadyLocal(job'[j]),
         steady' => (RequestPushed(job'[j]) <=> RequestPushed(job[j])),
         steady' /\ RequestPushed(job[j]) => job'[j].todo = job[j].todo
  PROVE  SteadyRight'
<1> SUFFICES ASSUME steady' PROVE (OnePass /\ PushedOnce /\ \A k \in Job : SteadyLocal(job[k]))'
  BY DEF SteadyRight
<1>0. OnePass /\ BetweenPasses /\ PushedOnce /\ \A k \in Job : SteadyLocal(job[k])
  BY DEF SteadyRight
<1>1. OnePass'
  BY <1>0 DEF OnePass, InPass
<1>2. \A k \in Job : SteadyLocal(job'[k])
  BY <1>0
<1>3. \A k \in Job : SteadyLocal(job[k])'
  BY <1>2 DEF SteadyLocal, EventsBelow
<1>4. \A k \in Job : RequestPushed(job'[k]) = RequestPushed(job[k])
  BY DEF RequestPushed
<1>5. \A k \in Job : RequestPushed(job[k]) => InHands(job[k])' = InHands(job[k])
  BY DEF InHands, Processed, First
<1>6. \A b : Pushed(b)' = Pushed(b)
  <2> SUFFICES ASSUME NEW b PROVE Pushed(b)' = Pushed(b)
    OBVIOUS
  <2>1. Marked(b)' = Marked(b)
    BY DEF Marked, Processed
  <2>2. \A k \in Job : RequestPushed(job[k])' = RequestPushed(job[k])
    BY <1>4 DEF RequestPushed
  <2>3. Held(b)' = Held(b)
    BY <1>5, <2>2 DEF Held
  <2> QED
    BY <2>1, <2>3 DEF Pushed
<1>7. \A r : HasPushed(r)' = HasPushed(r)
  BY <1>6 DEF HasPushed
<1>8. PushedOnce'
  BY <1>0, <1>7 DEF PushedOnce
<1> QED
  BY <1>1, <1>3, <1>8

(* Nothing that steadiness is about has changed.                           *)
LEMMA SteadySame ==
  ASSUME SteadyRight, UNCHANGED <<finalized, events, processed, responses, finalizedD, job, steady>>
  PROVE  SteadyRight'
BY DEF SteadyRight, OnePass, InPass, BetweenPasses, WholeBatches, EventsBelow, PushedOnce, HasPushed,
       Pushed, Marked, Held, InHands, Processed, SteadyLocal, RequestPushed, First

(* A job that is in no pass, before or after.                              *)
LEMMA SteadyQuiet ==
  ASSUME Typed, SteadyRight, NEW j \in Job,
         UNCHANGED <<finalized, events, processed, responses, finalizedD, steady>>,
         \A k \in Job : k # j => job'[k] = job[k], ~ InPass(j), ~ InPass(j)'
  PROVE  SteadyRight'
<1>1. ~ RequestPushed(job[j]) /\ ~ RequestPushed(job'[j]) /\ SteadyLocal(job'[j])
  BY DEF InPass, RequestPushed, SteadyLocal
<1>2. job[j].pc # "store" /\ job'[j].pc # "store"
  BY DEF InPass
<1>3. BetweenPasses => BetweenPasses'
  BY <1>2 DEF BetweenPasses, WholeBatches, EventsBelow
<1> QED
  BY <1>1, <1>3, SteadyJob DEF SteadyRight

-----------------------------------------------------------------------------
(* The events below a number.                                              *)
LEMMA BelowIs ==
  ASSUME Typed, NEW n, NEW e
  PROVE  e \in EventsBelow(n) <=>
           /\ e = [batch |-> e.batch, eventId |-> e.eventId, kind |-> e.kind]
           /\ e.batch \in 1 .. Len(finalized) /\ e.kind \in Kind
           /\ e.eventId = 2 * e.batch - 2 + Index(e.kind) /\ e.eventId < n
<1>1. /\ Len(finalized) \in Nat /\ Len(finalized) <= MaxResponses /\ MaxResponses \in Nat
      /\ DOMAIN finalized = 1 .. Len(finalized)
  BY ChainIs, FewBatches, Bounds DEF Typed
<1>2. ASSUME e \in EventsBelow(n)
      PROVE  /\ e = [batch |-> e.batch, eventId |-> e.eventId, kind |-> e.kind]
             /\ e.batch \in 1 .. Len(finalized) /\ e.kind \in Kind
             /\ e.eventId = 2 * e.batch - 2 + Index(e.kind) /\ e.eventId < n
  BY <1>1, <1>2 DEF EventsBelow
<1>3. ASSUME e = [batch |-> e.batch, eventId |-> e.eventId, kind |-> e.kind],
             e.batch \in 1 .. Len(finalized), e.kind \in Kind,
             e.eventId = 2 * e.batch - 2 + Index(e.kind), e.eventId < n
      PROVE  e \in EventsBelow(n)
  <2>1. Index(e.kind) \in {1, 2}
    BY <1>3, Bounds
  <2>2. e.eventId \in 1 .. 2 * MaxResponses
    BY <1>1, <1>3, <2>1
  <2> QED
    BY <1>1, <1>3, <2>2 DEF EventsBelow, EventId
<1> QED
  BY <1>2, <1>3

(* The next numbers, if whole batches are stored.                          *)
LEMMA NextOfBatches ==
  ASSUME Typed, NEW b \in 1 .. Len(finalized) + 1, events = EventsBelow(2 * b - 1)
  PROVE  NextBatch = b /\ NextEventId = 2 * b - 1
<1>1. /\ Len(finalized) \in Nat /\ Len(finalized) <= MaxResponses /\ MaxResponses \in Nat
      /\ DOMAIN finalized = 1 .. Len(finalized) /\ b \in Nat /\ b >= 1
      /\ EventOrder[1] \in Kind /\ EventOrder[2] \in Kind
      /\ Index(EventOrder[1]) = 1 /\ Index(EventOrder[2]) = 2
  BY ChainIs, FewBatches, Bounds DEF Typed
<1>2. \A e \in events : /\ e.batch \in 1 .. b - 1 /\ e.eventId \in 1 .. 2 * b - 2
  <2> SUFFICES ASSUME NEW e \in events
               PROVE  e.batch \in 1 .. b - 1 /\ e.eventId \in 1 .. 2 * b - 2
    OBVIOUS
  <2>1. /\ e.batch \in 1 .. Len(finalized) /\ e.kind \in Kind
        /\ e.eventId = 2 * e.batch - 2 + Index(e.kind) /\ e.eventId < 2 * b - 1
    BY BelowIs
  <2>2. Index(e.kind) \in {1, 2}
    BY <2>1, Bounds
  <2> QED
    BY <1>1, <2>1, <2>2
<1>3. ASSUME b > 1 PROVE \E e \in Last : e.batch = b - 1 /\ e.eventId = 2 * b - 2
  <2> DEFINE e == [batch |-> b - 1, eventId |-> 2 * b - 2, kind |-> EventOrder[2]]
  <2>1. /\ e = [batch |-> e.batch, eventId |-> e.eventId, kind |-> e.kind]
        /\ e.batch = b - 1 /\ e.eventId = 2 * b - 2 /\ e.kind = EventOrder[2]
    OBVIOUS
  <2> HIDE DEF e
  <2>2. /\ e.batch \in 1 .. Len(finalized) /\ e.kind \in Kind /\ Index(e.kind) = 2
        /\ e.eventId < 2 * b - 1 /\ e.eventId = 2 * e.batch - 2 + 2
    BY <1>1, <1>3, <2>1
  <2>3. e \in events
    BY <2>1, <2>2, BelowIs
  <2>4. \A f \in events : f.kind = e.kind => f.batch < e.batch \/ (f.batch = e.batch /\ f.eventId <= e.eventId)
    BY <1>1, <1>2, <2>1
  <2> QED
    BY <2>1, <2>3, <2>4 DEF Last
<1>3a. Last \subseteq events
  BY DEF Last
<1>4. {c \in DOMAIN finalized : \E e \in Last : e.batch >= c} = 1 .. b - 1
  <2>1. ASSUME NEW c \in DOMAIN finalized, NEW e \in Last, e.batch >= c
        PROVE  c \in 1 .. b - 1
    <3>1. e.batch \in 1 .. b - 1 /\ c \in 1 .. Len(finalized)
      BY <1>1, <1>2, <1>3a
    <3> QED
      BY <1>1, <2>1, <3>1
  <2>2. ASSUME NEW c \in 1 .. b - 1
        PROVE  c \in DOMAIN finalized /\ \E e \in Last : e.batch >= c
    BY <1>1, <1>3
  <2> QED
    BY <2>1, <2>2
<1>5. {n \in EventId : \E e \in Last : e.eventId >= n} = 1 .. 2 * b - 2
  <2>1. ASSUME NEW n \in EventId, NEW e \in Last, e.eventId >= n
        PROVE  n \in 1 .. 2 * b - 2
    <3>1. e.eventId \in 1 .. 2 * b - 2
      BY <1>2, <1>3a
    <3> QED
      BY <1>1, <2>1, <3>1 DEF EventId
  <2>2. ASSUME NEW n \in 1 .. 2 * b - 2
        PROVE  n \in EventId /\ \E e \in Last : e.eventId >= n
    BY <1>1, <1>3 DEF EventId
  <2> QED
    BY <2>1, <2>2
<1>6. /\ Cardinality(1 .. b - 1) = b - 1 /\ Cardinality(1 .. 2 * b - 2) = 2 * b - 2
  <2>1. b - 1 \in Nat /\ 2 * b - 2 \in Nat
    BY <1>1
  <2> QED
    BY <2>1, IntervalIs
<1>7. NextBatch = (b - 1) + 1
  BY <1>4, <1>6 DEF NextBatch
<1>8. NextEventId = (2 * b - 2) + 1
  BY <1>5, <1>6 DEF NextEventId
<1> QED
  BY <1>1, <1>7, <1>8

(* A pass begins where the events end.                                     *)
LEMMA FetchSteady ==
  ASSUME Typed, SteadyRight, NEW j \in Job, FetchEvents(j)
  PROVE  SteadyRight'
<1>0. LocalRight(job[j]) /\ IsLocal(job[j]) /\ DOMAIN job = Job /\ Len(finalized) \in Nat
  BY LocalFacts, ChainIs DEF Typed
<1>1. /\ job' = [job EXCEPT ![j] = [job[j] EXCEPT !.pc = "store", !.batch = NextBatch,
                              !.last = Len(finalized), !.eventId = NextEventId]]
      /\ job[j].pc = "idle" /\ steady' = (steady /\ \A k \in Job \ {j} : ~ InPass(k))
      /\ UNCHANGED <<finalized, events, processed, responses, finalizedD>>
  BY <1>0 DEF FetchEvents, chainVars, docVars
<1>2. PICK m : m = job'[j]
  OBVIOUS
<1>3. /\ m.pc = "store" /\ m.batch = NextBatch /\ m.last = Len(finalized)
      /\ m.index = 1 /\ m.eventId = NextEventId
  BY <1>0, <1>1, <1>2 DEF IsLocal, LocalRight
<1>4. BetweenPasses'
  BY <1>2, <1>3 DEF BetweenPasses
<1>5. steady' => SteadyLocal(m)
  <2> SUFFICES ASSUME steady' PROVE SteadyLocal(m)
    OBVIOUS
  <2>1. \A k \in Job : job[k].pc # "store"
    BY <1>1 DEF InPass
  <2>2. PICK b \in 1 .. Len(finalized) + 1 : events = EventsBelow(2 * b - 1)
    BY <1>1, <2>1 DEF SteadyRight, BetweenPasses, WholeBatches
  <2>3. m.batch = b /\ m.eventId = 2 * b - 1 /\ b \in Nat
    BY <1>0, <1>3, <2>2, NextOfBatches
  <2>4. m.eventId = 2 * m.batch - 2 + m.index /\ m.batch <= Len(finalized) + 1
    BY <1>0, <1>3, <2>2, <2>3
  <2>5. events = EventsBelow(m.eventId)
    BY <2>2, <2>3
  <2> QED
    BY <1>3, <2>4, <2>5 DEF SteadyLocal
<1>6. ~ RequestPushed(job[j]) /\ ~ RequestPushed(job'[j])
  BY <1>1, <1>2, <1>3 DEF RequestPushed
<1>7. \A k \in Job : k # j => job'[k] = job[k]
  BY <1>0, <1>1
<1> QED
  BY <1>1, <1>2, <1>4, <1>5, <1>6, <1>7, SteadyJob

(* The event that is stored is the next one.                               *)
LEMMA OneMore ==
  ASSUME Typed, NEW b \in 1 .. Len(finalized), NEW i \in {1, 2}
  PROVE  EventsBelow(2 * b - 2 + i + 1) = EventsBelow(2 * b - 2 + i)
           \cup {[batch |-> b, eventId |-> 2 * b - 2 + i, kind |-> EventOrder[i]]}
<1> DEFINE n == 2 * b - 2 + i
           e == [batch |-> b, eventId |-> n, kind |-> EventOrder[i]]
<1>1. /\ Len(finalized) \in Nat /\ b \in Nat /\ n \in Nat /\ i \in Nat
  BY ChainIs DEF Typed
<1>2. /\ e.batch = b /\ e.eventId = n /\ e.kind = EventOrder[i]
      /\ e = [batch |-> e.batch, eventId |-> e.eventId, kind |-> e.kind]
  OBVIOUS
<1>3. e.kind \in Kind /\ Index(e.kind) = i
  BY <1>2, Bounds
<1>4. n = 2 * b - 2 + i
  OBVIOUS
<1> HIDE DEF e, n
<1>5. e \in EventsBelow(n + 1)
  BY <1>1, <1>2, <1>3, <1>4, BelowIs
<1>6. ASSUME NEW x \in EventsBelow(n) PROVE x \in EventsBelow(n + 1)
  <2>1. /\ x = [batch |-> x.batch, eventId |-> x.eventId, kind |-> x.kind]
        /\ x.batch \in 1 .. Len(finalized) /\ x.kind \in Kind
        /\ x.eventId = 2 * x.batch - 2 + Index(x.kind) /\ x.eventId < n
    BY <1>6, BelowIs
  <2>2. Index(x.kind) \in {1, 2}
    BY <2>1, Bounds
  <2>3. x.eventId < n + 1
    BY <1>1, <2>1, <2>2
  <2> QED
    BY <2>1, <2>3, BelowIs
<1>7. ASSUME NEW x \in EventsBelow(n + 1), x \notin EventsBelow(n) PROVE x = e
  <2>1. /\ x = [batch |-> x.batch, eventId |-> x.eventId, kind |-> x.kind]
        /\ x.batch \in 1 .. Len(finalized) /\ x.kind \in Kind
        /\ x.eventId = 2 * x.batch - 2 + Index(x.kind) /\ x.eventId < n + 1
    BY <1>7, BelowIs
  <2>2. Index(x.kind) \in {1, 2} /\ EventOrder[Index(x.kind)] = x.kind
    BY <2>1, Bounds
  <2>3. ~ (x.eventId < n)
    BY <1>7, <2>1, BelowIs
  <2>4. x.eventId = n
    BY <1>1, <2>1, <2>2, <2>3
  <2>5. x.batch = b /\ Index(x.kind) = i
    BY <1>1, <1>4, <2>1, <2>2, <2>4
  <2>6. x.kind = e.kind
    BY <1>2, <2>2, <2>5
  <2> QED
    BY <1>2, <2>1, <2>4, <2>5, <2>6
<1>8. EventsBelow(n + 1) = EventsBelow(n) \cup {e}
  BY <1>5, <1>6, <1>7
<1> QED
  BY <1>8 DEF n, e

LEMMA StoreSteady ==
  ASSUME Typed, SteadyRight, NEW j \in Job, StoreEvent(j)
  PROVE  SteadyRight'
<1> SUFFICES ASSUME steady' PROVE (OnePass /\ BetweenPasses /\ PushedOnce /\ \A k \in Job : SteadyLocal(job[k]))'
  BY DEF SteadyRight
<1>0. /\ LocalRight(job[j]) /\ IsLocal(job[j]) /\ DOMAIN job = Job /\ Len(finalized) \in Nat
      /\ job[j].index \in 1 .. 2 /\ job[j].last \in 0 .. Len(finalized)
      /\ job[j].batch \in 1 .. MaxResponses + 1 /\ processed \subseteq ProcessedIds
  BY LocalFacts, ChainIs DEF Typed, DocumentsRight
<1>1. /\ job[j].pc = "store" /\ job[j].batch <= job[j].last
      /\ events' = events \cup {EventOf(j)}
      /\ job' = [job EXCEPT ![j] = [job[j] EXCEPT !.eventId = @ + 1,
                                      !.index = IF @ = 1 THEN 2 ELSE 1,
                                      !.batch = IF job[j].index = 1 THEN @ ELSE @ + 1]]
      /\ finalized' = finalized /\ processed' = processed /\ responses' = responses
      /\ finalizedD' = finalizedD /\ steady' = steady
  BY <1>0 DEF StoreEvent, EventsLeft, chainVars
<1>2. OnePass /\ PushedOnce /\ \A k \in Job : SteadyLocal(job[k])
  BY <1>1 DEF SteadyRight
<1>3. PICK b : b = job[j].batch
  OBVIOUS
<1>4. PICK i : i = job[j].index
  OBVIOUS
<1>5. PICK n : n = job[j].eventId
  OBVIOUS
<1>6. /\ b \in 1 .. Len(finalized) /\ i \in {1, 2} /\ n = 2 * b - 2 + i /\ events = EventsBelow(n)
      /\ n \in Nat /\ b \in Nat
  <2>1. n = 2 * b - 2 + i /\ events = EventsBelow(n)
    BY <1>1, <1>2, <1>3, <1>4, <1>5 DEF SteadyLocal
  <2>2. b \in 1 .. Len(finalized) /\ i \in {1, 2}
    BY <1>0, <1>1, <1>3, <1>4, Bounds
  <2> QED
    BY <2>1, <2>2
<1>7. events' = EventsBelow(n + 1)
  <2>1. EventOf(j) = [batch |-> b, eventId |-> n, kind |-> EventOrder[i]]
    BY <1>3, <1>4, <1>5 DEF EventOf
  <2> QED
    BY <1>1, <1>6, <2>1, OneMore
<1>8. PICK m : m = job'[j]
  OBVIOUS
<1>9. /\ m.pc = "store" /\ m.last = job[j].last /\ m.eventId = n + 1
      /\ m.index = (IF i = 1 THEN 2 ELSE 1) /\ m.batch = (IF i = 1 THEN b ELSE b + 1)
  BY <1>0, <1>1, <1>3, <1>4, <1>5, <1>8 DEF IsLocal
<1>10. /\ m.batch <= Len(finalized) + 1
       /\ m.eventId = 2 * m.batch - 2 + m.index
  <2>1. CASE i = 1
    BY <1>0, <1>1, <1>3, <1>6, <1>9, <2>1
  <2>2. CASE i = 2
    BY <1>0, <1>1, <1>3, <1>6, <1>9, <2>2
  <2> QED
    BY <1>6, <2>1, <2>2
<1>11. EventsBelow(n + 1)' = EventsBelow(n + 1)
  BY <1>1 DEF EventsBelow
<1>12. \A k \in Job : k # j => ~ InPass(k) /\ job'[k] = job[k]
  BY <1>0, <1>1, <1>2 DEF OnePass, InPass
<1>13. SteadyLocal(job[j])'
  BY <1>1, <1>7, <1>8, <1>9, <1>10, <1>11 DEF SteadyLocal
<1>14. \A k \in Job : SteadyLocal(job[k])'
  BY <1>12, <1>13 DEF SteadyLocal, InPass
<1>15. BetweenPasses' /\ OnePass'
  BY <1>8, <1>9, <1>12 DEF BetweenPasses, OnePass, InPass
<1>16. \A k \in Job : ~ RequestPushed(job[k]) /\ ~ RequestPushed(job[k])'
  BY <1>1, <1>8, <1>9, <1>12 DEF RequestPushed, InPass
<1>17. \A c : Marked(c)' = Marked(c)
  <2> SUFFICES ASSUME NEW c PROVE Marked(c)' <=> Marked(c)
    BY DEF Marked
  <2>1. Marked(c) => Marked(c)'
    BY <1>1 DEF Marked, Processed
  <2>2. ASSUME NEW e \in events', e.kind = "processed", e.batch = c, e.eventId \in processed
        PROVE  e \in events
    <3>1. PICK f \in events : f.kind = "processed" /\ f.eventId = e.eventId
      BY <1>0, <2>2 DEF ProcessedIds, Processed
    <3>2. f.eventId < n
      BY <1>6, <3>1, BelowIs
    <3>3. EventOf(j).eventId = n
      BY <1>5 DEF EventOf
    <3> QED
      BY <1>1, <1>6, <2>2, <3>1, <3>2, <3>3
  <2>3. Marked(c)' => Marked(c)
    BY <1>1, <2>2 DEF Marked, Processed
  <2> QED
    BY <2>1, <2>3
<1>18. \A c : Pushed(c)' = Pushed(c)
  BY <1>16, <1>17 DEF Pushed, Held
<1>19. PushedOnce'
  BY <1>1, <1>2, <1>18 DEF PushedOnce, HasPushed
<1> QED
  BY <1>14, <1>15, <1>19

-----------------------------------------------------------------------------
(* A pass over whole batches goes on, or is over.                          *)
LEMMA FindSteady ==
  ASSUME Typed, SteadyRight, NEW j \in Job, FindEvents(j)
  PROVE  SteadyRight'
<1>0. /\ LocalRight(job[j]) /\ DOMAIN job = Job /\ Len(finalized) \in Nat
      /\ job[j].index \in 1 .. 2 /\ job[j].last \in 0 .. Len(finalized)
      /\ job[j].batch \in 1 .. MaxResponses + 1 /\ MaxResponses \in Nat
      /\ (job[j].index = 2 => job[j].batch <= job[j].last)
  BY LocalFacts, ChainIs, Bounds DEF Typed
<1>1. /\ job[j].pc = "store" /\ ~ (job[j].batch <= job[j].last)
      /\ UNCHANGED <<finalized, events, processed, responses, finalizedD, steady>>
  BY DEF FindEvents, EventsLeft, chainVars, docVars
<1>2. PICK label \in {"findRequests", "next"} :
        job' = [job EXCEPT ![j] = [Idle EXCEPT !.pc = label, !.todo = NotProcessed]]
  BY DEF FindEvents, Proceed
<1>3. PICK m : m = job'[j]
  OBVIOUS
<1>4. m.pc = label /\ m.todo = NotProcessed
  BY <1>0, <1>2, <1>3, IdleIs DEF IsLocal
<1>5. SteadyLocal(m)
  BY <1>4 DEF SteadyLocal, NotProcessed
<1>6. steady' => BetweenPasses'
  <2> SUFFICES ASSUME steady' PROVE BetweenPasses'
    OBVIOUS
  <2> DEFINE b == job[j].batch
  <2>1. /\ b <= Len(finalized) + 1
        /\ job[j].eventId = 2 * b - 2 + job[j].index /\ events = EventsBelow(job[j].eventId)
    BY <1>1 DEF SteadyRight, SteadyLocal
  <2>2. job[j].index = 1 /\ job[j].eventId = 2 * b - 1 /\ b \in 1 .. Len(finalized) + 1
    BY <1>0, <1>1, <2>1
  <2>3. WholeBatches
    BY <2>1, <2>2 DEF WholeBatches
  <2> QED
    BY <1>1, <2>3 DEF BetweenPasses, WholeBatches, EventsBelow
<1>7. steady' => \A k \in Job \ {j} : ~ InPass(k)
  BY <1>1 DEF SteadyRight, OnePass, InPass
<1>8. ~ RequestPushed(job[j]) /\ ~ RequestPushed(job'[j])
  BY <1>1, <1>3, <1>4 DEF RequestPushed
<1>9. \A k \in Job : k # j => job'[k] = job[k]
  BY <1>0, <1>2
<1> QED
  BY <1>1, <1>3, <1>5, <1>6, <1>7, <1>8, <1>9, SteadyJob

(* A call that throws outside a batch, and outside a request and its event *)
LEMMA ThrowSteady ==
  ASSUME Typed, SteadyRight, NEW j \in Job, FetchThrows(j)
  PROVE  SteadyRight'
<1>0. /\ LocalRight(job[j]) /\ DOMAIN job = Job /\ Len(finalized) \in Nat
      /\ job[j].index \in 1 .. 2 /\ job[j].batch \in 1 .. MaxResponses + 1 /\ MaxResponses \in Nat
  BY LocalFacts, ChainIs, Bounds DEF Typed
<1>1. /\ InPass(j) /\ steady' = (steady /\ ~ InTheMiddle(j))
      /\ UNCHANGED <<finalized, events, processed, responses, finalizedD>>
  BY DEF FetchThrows, Retry, chainVars, docVars
<1>2. PICK label \in {"idle", "findRequests"} : job' = [job EXCEPT ![j] = [Idle EXCEPT !.pc = label]]
  BY DEF FetchThrows, Retry
<1>3. PICK m : m = job'[j]
  OBVIOUS
<1>4. m.pc = label
  BY <1>0, <1>2, <1>3, IdleIs DEF IsLocal
<1>5. SteadyLocal(m) /\ ~ RequestPushed(m) /\ ~ InPass(j)'
  BY <1>3, <1>4 DEF SteadyLocal, RequestPushed, InPass
<1>6. steady' => ~ RequestPushed(job[j])
  BY <1>1 DEF InTheMiddle, RequestPushed
<1>7. \A k \in Job : k # j => job'[k] = job[k]
  BY <1>0, <1>2
<1>8. steady' => BetweenPasses'
  <2> SUFFICES ASSUME steady' PROVE BetweenPasses'
    OBVIOUS
  <2>1. WholeBatches
    <3>1. CASE job[j].pc = "store"
      <4> DEFINE b == job[j].batch
      <4>1. /\ b <= Len(finalized) + 1 /\ events = EventsBelow(job[j].eventId)
            /\ job[j].eventId = 2 * b - 2 + job[j].index
        BY <1>1, <3>1 DEF SteadyRight, SteadyLocal
      <4>2. job[j].index = 1
        <5>1. ~ InTheMiddle(j)
          BY <1>1
        <5>2. job[j].index # 2
          BY <3>1, <5>1 DEF InTheMiddle
        <5> QED
          BY <1>0, <5>2
      <4>3. b \in 1 .. Len(finalized) + 1 /\ job[j].eventId = 2 * b - 1
        BY <1>0, <4>1, <4>2
      <4> QED
        BY <4>1, <4>3 DEF WholeBatches
    <3>2. CASE job[j].pc # "store"
      <4>1. \A k \in Job : job[k].pc # "store"
        BY <1>1, <3>2 DEF SteadyRight, OnePass, InPass
      <4> QED
        BY <1>1, <4>1 DEF SteadyRight, BetweenPasses
    <3> QED
      BY <3>1, <3>2
  <2> QED
    BY <1>1, <2>1 DEF BetweenPasses, WholeBatches, EventsBelow
<1> QED
  BY <1>1, <1>3, <1>5, <1>6, <1>7, <1>8, SteadyJob

(* The finalized events of a batch that is whole give one sum.             *)
LEMMA SumsAreOne ==
  ASSUME Typed, NEW b \in 1 .. Len(finalized) + 1, events = EventsBelow(2 * b - 1), NEW e \in events
  PROVE  SumsOf(finalized[e.batch].request) = 1
<1>1. /\ Len(finalized) \in Nat /\ DOMAIN finalized = 1 .. Len(finalized) /\ b \in Nat
  BY ChainIs DEF Typed
<1>2. /\ e.batch \in 1 .. Len(finalized) /\ e.kind \in Kind
      /\ e.eventId = 2 * e.batch - 2 + Index(e.kind) /\ e.eventId < 2 * b - 1
  BY BelowIs
<1> DEFINE i == Index("finalized")
           f == [batch |-> e.batch, eventId |-> 2 * e.batch - 2 + i, kind |-> "finalized"]
           S == {x \in events : x.kind = "finalized" /\ finalized[x.batch].request = finalized[e.batch].request}
<1>3. i \in {1, 2} /\ Index(e.kind) \in {1, 2} /\ "finalized" \in Kind
  BY <1>2, Bounds DEF Kind
<1>4. /\ f = [batch |-> f.batch, eventId |-> f.eventId, kind |-> f.kind]
      /\ f.batch = e.batch /\ f.kind = "finalized" /\ f.eventId = 2 * e.batch - 2 + i
  OBVIOUS
<1>5. i = Index("finalized")
  OBVIOUS
<1> HIDE DEF i, f
<1>6. f.eventId = 2 * f.batch - 2 + Index(f.kind) /\ f.eventId < 2 * b - 1
  BY <1>1, <1>2, <1>3, <1>4, <1>5
<1>7. f \in S
  BY <1>2, <1>3, <1>4, <1>6, BelowIs
<1>8. ASSUME NEW x \in S PROVE x = f
  <2>1. /\ x = [batch |-> x.batch, eventId |-> x.eventId, kind |-> x.kind]
        /\ x.batch \in 1 .. Len(finalized) /\ x.kind = "finalized"
        /\ x.eventId = 2 * x.batch - 2 + Index(x.kind)
        /\ finalized[x.batch].request = finalized[e.batch].request
    BY BelowIs
  <2>2. x.batch = e.batch
    BY <1>1, <1>2, <2>1 DEF Typed, AnsweredInTurn
  <2> QED
    BY <1>4, <1>5, <2>1, <2>2
<1>9. S = {f}
  BY <1>7, <1>8
<1> QED
  BY <1>9, FS_Singleton DEF SumsOf

LEMMA LoadSteady ==
  ASSUME Typed, SteadyRight, NEW j \in Job, LoadEvent(j)
  PROVE  SteadyRight'
<1>0. /\ IsLocal(job[j]) /\ DOMAIN job = Job /\ EventsRight /\ job[j].todo \subseteq ProcessedIds
  BY LocalFacts DEF Typed
<1>1. PICK n \in First(job[j].todo) :
        job' = [job EXCEPT ![j] = [job[j] EXCEPT !.pc = "save", !.pending = {"request", "actions"},
                          !.sums = IF SumsOf(Transaction(n).request) > Many THEN Many
                                   ELSE SumsOf(Transaction(n).request)]]
  BY <1>0 DEF LoadEvent
<1>2. /\ job[j].pc = "next"
      /\ UNCHANGED <<finalized, events, processed, responses, finalizedD, steady>>
  BY DEF LoadEvent, chainVars, docVars
<1>3. PICK m : m = job'[j]
  OBVIOUS
<1>4. /\ m.pc = "save" /\ m.pending = {"request", "actions"} /\ m.todo = job[j].todo
      /\ m.sums = (IF SumsOf(Transaction(n).request) > Many THEN Many
                   ELSE SumsOf(Transaction(n).request))
  BY <1>0, <1>1, <1>3 DEF IsLocal
<1>5. steady' => \A k \in Job \ {j} : ~ InPass(k)
  BY <1>2 DEF SteadyRight, OnePass, InPass
<1>6. steady' => WholeBatches
  BY <1>2, <1>5 DEF SteadyRight, BetweenPasses, InPass
<1>7. steady' => BetweenPasses' /\ SteadyLocal(m)
  <2> SUFFICES ASSUME steady' PROVE BetweenPasses' /\ SteadyLocal(m)
    OBVIOUS
  <2>1. BetweenPasses'
    BY <1>2, <1>6 DEF BetweenPasses, WholeBatches, EventsBelow
  <2>2. PICK e \in InHands(job[j]) : Transaction(n) = finalized[e.batch]
    BY <1>0, OneInHands
  <2>3. SumsOf(Transaction(n).request) = 1
    BY <1>6, <2>2, SumsAreOne DEF WholeBatches, InHands, Processed
  <2>4. m.sums = 1
    BY <1>4, <2>3 DEF Many
  <2>5. m.todo \cap processed = {}
    BY <1>2, <1>4 DEF SteadyRight, SteadyLocal
  <2> QED
    BY <1>4, <2>1, <2>4, <2>5 DEF SteadyLocal
<1>8. ~ RequestPushed(job[j]) /\ ~ RequestPushed(job'[j])
  BY <1>2, <1>3, <1>4 DEF RequestPushed
<1>9. \A k \in Job : k # j => job'[k] = job[k]
  BY <1>0, <1>1
<1> QED
  BY <1>2, <1>3, <1>5, <1>7, <1>8, <1>9, SteadyJob

LEMMA SaveActionsSteady ==
  ASSUME Typed, SteadyRight, NEW j \in Job, SaveActions(j)
  PROVE  SteadyRight'
<1>0. /\ IsLocal(job[j]) /\ DOMAIN job = Job
  BY LocalFacts DEF Typed
<1>1. /\ job[j].pc = "save" /\ "actions" \in job[j].pending
      /\ UNCHANGED <<finalized, events, processed, responses, finalizedD, steady>>
      /\ SaveDone(j, "actions")
  BY DEF SaveActions, chainVars, docVars
<1>2. job' = [job EXCEPT ![j] = [job[j] EXCEPT
                 !.pc = IF job[j].pending = {"actions"} THEN "saveEvent" ELSE "save",
                 !.pending = job[j].pending \ {"actions"}, !.sums = job[j].sums]]
  BY <1>0, <1>1 DEF SaveDone
<1>3. PICK m : m = job'[j]
  OBVIOUS
<1>4. /\ m.pc = (IF job[j].pending = {"actions"} THEN "saveEvent" ELSE "save")
      /\ m.pending = job[j].pending \ {"actions"} /\ m.todo = job[j].todo /\ m.sums = job[j].sums
  BY <1>0, <1>2, <1>3 DEF IsLocal
<1>5. RequestPushed(m) <=> RequestPushed(job[j])
  BY <1>1, <1>4 DEF RequestPushed
<1>6. steady' => \A k \in Job \ {j} : ~ InPass(k)
  BY <1>1 DEF SteadyRight, OnePass, InPass
<1>7. steady' => BetweenPasses'
  BY <1>1, <1>6 DEF SteadyRight, BetweenPasses, WholeBatches, EventsBelow, InPass
<1>8. steady' => SteadyLocal(m)
  BY <1>1, <1>4 DEF SteadyRight, SteadyLocal
<1>9. \A k \in Job : k # j => job'[k] = job[k]
  BY <1>0, <1>2
<1> QED
  BY <1>1, <1>3, <1>4, <1>5, <1>6, <1>7, <1>8, <1>9, SteadyJob

-----------------------------------------------------------------------------
(* What is in the hands of a job whose pass is the only one, over whole    *)
(* batches: one processed event, the only one of its batch.                *)
LEMMA OnlyOne ==
  ASSUME Typed, NEW b, events = EventsBelow(b), NEW e \in Processed, NEW f \in Processed
  PROVE  (e.batch = f.batch <=> e.eventId = f.eventId) /\ (e.batch = f.batch => e = f)
<1>1. \A x \in Processed : /\ x = [batch |-> x.batch, eventId |-> x.eventId, kind |-> "processed"]
                           /\ x.batch \in 1 .. Len(finalized)
                           /\ x.eventId = 2 * x.batch - 2 + Index("processed")
  BY BelowIs DEF Processed
<1>2. Index("processed") \in {1, 2} /\ Len(finalized) \in Nat
  BY Bounds, ChainIs DEF Kind, Typed
<1>3. e.batch = f.batch <=> e.eventId = f.eventId
  BY <1>1, <1>2
<1> QED
  BY <1>1, <1>3

LEMMA SaveRequestSteady ==
  ASSUME Typed, SteadyRight, NEW j \in Job, SaveRequest(j)
  PROVE  SteadyRight'
<1> SUFFICES ASSUME steady' PROVE (OnePass /\ BetweenPasses /\ PushedOnce /\ \A k \in Job : SteadyLocal(job[k]))'
  BY DEF SteadyRight
<1>0. /\ IsLocal(job[j]) /\ DOMAIN job = Job /\ EventsRight /\ job[j].todo \subseteq ProcessedIds
      /\ ChainRight /\ responses \in [Requests -> 0 .. Many] /\ finalizedD \in [Requests -> 0 .. Many]
  BY LocalFacts DEF Typed, DocumentsRight
<1>1. PICK n \in First(job[j].todo) :
        /\ responses' = [responses EXCEPT ![Transaction(n).request] = More(@)]
        /\ finalizedD' = [finalizedD EXCEPT ![Transaction(n).request] = Times(job[j].sums, @)]
  BY DEF SaveRequest
<1>2. /\ job[j].pc = "save" /\ "request" \in job[j].pending
      /\ job' = [job EXCEPT ![j] = [job[j] EXCEPT
                   !.pc = IF job[j].pending = {"request"} THEN "saveEvent" ELSE "save",
                   !.pending = job[j].pending \ {"request"}, !.sums = 0]]
      /\ finalized' = finalized /\ events' = events /\ processed' = processed /\ steady' = steady
  BY <1>0 DEF SaveRequest, SaveDone, chainVars
<1>3. OnePass /\ BetweenPasses /\ PushedOnce /\ \A k \in Job : SteadyLocal(job[k])
  BY <1>2 DEF SteadyRight
<1>4. PICK e \in InHands(job[j]) : TRUE
  BY <1>0, OneInHands
<1>5. /\ e \in Processed /\ e.eventId = n /\ First(job[j].todo) = {n}
      /\ Transaction(n) = finalized[e.batch] /\ e.batch \in DOMAIN finalized
  BY <1>0, OneInHands, TransactionIs DEF InHands
<1>6. PICK r : r = Transaction(n).request
  OBVIOUS
<1>7. r \in Requests /\ finalized[e.batch].request = r
  BY <1>0, <1>5, <1>6, ChainIs
<1>8. \A k \in Job : k # j => ~ InPass(k) /\ job'[k] = job[k]
  BY <1>0, <1>2, <1>3 DEF OnePass, InPass
<1>9. WholeBatches
  BY <1>2, <1>3, <1>8 DEF BetweenPasses, InPass
<1>10. PICK m : m = job'[j]
  OBVIOUS
<1>11. /\ m.pc = (IF job[j].pending = {"request"} THEN "saveEvent" ELSE "save")
       /\ m.pending = job[j].pending \ {"request"} /\ m.todo = job[j].todo
  BY <1>0, <1>2, <1>10 DEF IsLocal
<1>12. job[j].sums = 1 /\ job[j].todo \cap processed = {}
  BY <1>2, <1>3 DEF SteadyLocal
<1>13. SteadyLocal(m)
  BY <1>11, <1>12 DEF SteadyLocal
<1>14. \A k \in Job : SteadyLocal(job[k])'
  BY <1>2, <1>8, <1>10, <1>12, <1>11, <1>3 DEF SteadyLocal, InPass
<1>15. OnePass' /\ BetweenPasses'
  BY <1>2, <1>8, <1>9 DEF OnePass, BetweenPasses, WholeBatches, EventsBelow, InPass
<1>16. \A k \in Job : ~ RequestPushed(job[k])
  BY <1>2, <1>8 DEF RequestPushed, InPass
<1>17. \A c : ~ Held(c)
  BY <1>16 DEF Held
<1>18. \A c : Held(c)' <=> c = e.batch
  <2>1. RequestPushed(job[j])' /\ \A k \in Job : k # j => ~ RequestPushed(job[k])'
    BY <1>8, <1>10, <1>11 DEF RequestPushed, InPass
  <2>2. InHands(job[j])' = InHands(job[j])
    BY <1>2, <1>10, <1>11 DEF InHands, Processed, First
  <2>3. \A f \in InHands(job[j]) : f.batch = e.batch
    BY <1>0, <1>4, <1>5 DEF InHands, Processed, EventsRight
  <2> QED
    BY <1>4, <2>1, <2>2, <2>3 DEF Held
<1>19. \A c : Marked(c)' = Marked(c)
  BY <1>2 DEF Marked, Processed
<1>20. ~ Pushed(e.batch)
  <2>1. n \notin processed
    BY <1>12 DEF First
  <2>2. \A f \in Processed : f.batch = e.batch => f.eventId = n
    BY <1>5, <1>9, OnlyOne DEF WholeBatches
  <2> QED
    BY <1>17, <2>1, <2>2 DEF Pushed, Marked
<1>21. \A c : c # e.batch => (Pushed(c)' <=> Pushed(c))
  BY <1>17, <1>18, <1>19 DEF Pushed
<1>22. ~ HasPushed(r)
  BY <1>5, <1>7, <1>20 DEF HasPushed, Typed, AnsweredInTurn
<1>23. HasPushed(r)'
  BY <1>2, <1>5, <1>7, <1>18 DEF HasPushed, Pushed
<1>24. \A q \in Requests : q # r => (HasPushed(q)' <=> HasPushed(q))
  BY <1>2, <1>7, <1>21 DEF HasPushed
<1>25. /\ responses[r] = 0 /\ finalizedD[r] = 0
  BY <1>3, <1>7, <1>22 DEF PushedOnce
<1>26. /\ responses' = [responses EXCEPT ![r] = 1] /\ finalizedD' = [finalizedD EXCEPT ![r] = 1]
  BY <1>0, <1>1, <1>6, <1>7, <1>12, <1>25 DEF More, Times, Many
<1>27. PushedOnce'
  <2> SUFFICES ASSUME NEW q \in Requests
               PROVE  finalizedD'[q] = responses'[q] /\ responses'[q] = IF HasPushed(q)' THEN 1 ELSE 0
    BY DEF PushedOnce
  <2>1. CASE q = r
    BY <1>0, <1>7, <1>23, <1>26, <2>1
  <2>2. CASE q # r
    BY <1>0, <1>3, <1>7, <1>24, <1>26, <2>2 DEF PushedOnce
  <2> QED
    BY <2>1, <2>2
<1> QED
  BY <1>14, <1>15, <1>27

LEMMA SaveEventSteady ==
  ASSUME Typed, SteadyRight, NEW j \in Job, SaveEvent(j)
  PROVE  SteadyRight'
<1> SUFFICES ASSUME steady' PROVE (OnePass /\ BetweenPasses /\ PushedOnce /\ \A k \in Job : SteadyLocal(job[k]))'
  BY DEF SteadyRight
<1>0. /\ DOMAIN job = Job /\ EventsRight /\ job[j].todo \subseteq ProcessedIds
  BY LocalFacts DEF Typed
<1>1. /\ job[j].pc = "saveEvent" /\ processed' = processed \cup First(job[j].todo)
      /\ finalized' = finalized /\ events' = events /\ responses' = responses
      /\ finalizedD' = finalizedD /\ steady' = steady
  BY DEF SaveEvent, chainVars
<1>2. PICK label \in {"findRequests", "next"} :
        job' = [job EXCEPT ![j] = [Idle EXCEPT !.pc = label,
                                               !.todo = job[j].todo \ First(job[j].todo)]]
  BY DEF SaveEvent, Proceed
<1>3. OnePass /\ BetweenPasses /\ PushedOnce /\ \A k \in Job : SteadyLocal(job[k])
  BY <1>1 DEF SteadyRight
<1>4. PICK m : m = job'[j]
  OBVIOUS
<1>5. m.pc = label /\ m.todo = job[j].todo \ First(job[j].todo)
  BY <1>0, <1>2, <1>4, IdleIs DEF IsLocal
<1>6. \A k \in Job : k # j => ~ InPass(k) /\ job'[k] = job[k]
  BY <1>0, <1>1, <1>2, <1>3 DEF OnePass, InPass
<1>7. WholeBatches
  BY <1>1, <1>3, <1>6 DEF BetweenPasses, InPass
<1>8. job[j].todo \cap processed = {}
  BY <1>1, <1>3 DEF SteadyLocal
<1>9. \A k \in Job : SteadyLocal(job[k])'
  BY <1>1, <1>4, <1>5, <1>6, <1>8 DEF SteadyLocal, InPass
<1>10. OnePass' /\ BetweenPasses'
  BY <1>1, <1>6, <1>7 DEF OnePass, BetweenPasses, WholeBatches, EventsBelow, InPass
<1>11. \A k \in Job : /\ ~ RequestPushed(job[k])'
                      /\ RequestPushed(job[k]) <=> k = j
  BY <1>1, <1>4, <1>5, <1>6 DEF RequestPushed, InPass
<1>12. \A c : Held(c) <=> \E e \in InHands(job[j]) : e.batch = c
  BY <1>11 DEF Held
<1>13. \A c : ~ Held(c)'
  BY <1>11 DEF Held
<1>14. \A c : Marked(c)' <=> Marked(c) \/ Held(c)
  <2>1. \A c : Marked(c)' <=>
          \E e \in Processed : e.batch = c /\ (e.eventId \in processed \/ e.eventId \in First(job[j].todo))
    BY <1>1 DEF Marked, Processed
  <2> QED
    BY <1>12, <2>1 DEF Marked, InHands
<1>15. \A c : Pushed(c)' <=> Pushed(c)
  BY <1>13, <1>14 DEF Pushed
<1>16. \A r : HasPushed(r)' <=> HasPushed(r)
  BY <1>1, <1>15 DEF HasPushed
<1>17. PushedOnce'
  BY <1>1, <1>3, <1>16 DEF PushedOnce
<1> QED
  BY <1>9, <1>10, <1>17

LEMMA SendSteady ==
  ASSUME Typed, SteadyRight, NEW j \in Job, Send(j)
  PROVE  SteadyRight'
<1> DEFINE t == [request |-> job[j].request, actions |-> job[j].actions]
<1>0. /\ DOMAIN job = Job /\ EventsRight /\ ChainRight /\ LocalRight(job[j])
  BY LocalFacts DEF Typed
<1>1. /\ job[j].pc = "send" /\ job' = [job EXCEPT ![j] = Idle]
      /\ events' = events /\ processed' = processed /\ responses' = responses
      /\ finalizedD' = finalizedD /\ steady' = steady
  BY DEF Send, Return, docVars
<1>2. /\ job'[j].pc = "idle" /\ ~ InPass(j) /\ ~ InPass(j)'
      /\ \A k \in Job : k # j => job'[k] = job[k]
  BY <1>0, <1>1, IdleIs DEF InPass
<1>3. CASE finalized' = finalized
  BY <1>1, <1>2, <1>3, SteadyQuiet
<1>4. CASE finalized' = Append(finalized, t)
  <2> SUFFICES ASSUME steady' PROVE (OnePass /\ BetweenPasses /\ PushedOnce /\ \A k \in Job : SteadyLocal(job[k]))'
    BY DEF SteadyRight
  <2> HIDE DEF t
  <2>1. OnePass /\ BetweenPasses /\ PushedOnce /\ \A k \in Job : SteadyLocal(job[k])
    BY <1>1 DEF SteadyRight
  <2> DEFINE T == [request : Requests, actions : SUBSET DOMAIN log]
  <2>2. Len(finalized) \in Nat /\ DOMAIN finalized = 1 .. Len(finalized) /\ finalized \in Seq(T)
    BY <1>0, ChainIs DEF ChainRight
  <2> HIDE DEF T
  <2>3. /\ Len(finalized') = Len(finalized) + 1 /\ DOMAIN finalized' = 1 .. Len(finalized) + 1
        /\ \A b \in DOMAIN finalized : finalized'[b] = finalized[b]
    BY <1>4, <2>2
  <2>4. ASSUME NEW n \in Nat, n <= 2 * Len(finalized) + 1 PROVE EventsBelow(n)' = EventsBelow(n)
    <3>1. \A k \in Kind : Index(k) \in {1, 2}
      BY Bounds
    <3>2. Typed'
      BY SendTypes
    <3>3. ASSUME NEW x \in EventsBelow(n)' PROVE x \in EventsBelow(n)
      <4>1. /\ x = [batch |-> x.batch, eventId |-> x.eventId, kind |-> x.kind]
            /\ x.batch \in 1 .. Len(finalized) + 1 /\ x.kind \in Kind /\ x.eventId \in EventId
            /\ x.eventId = 2 * x.batch - 2 + Index(x.kind) /\ x.eventId < n
        BY <2>3, <3>3 DEF EventsBelow, Index
      <4>2. x.batch \in 1 .. Len(finalized)
        BY <2>2, <2>4, <3>1, <4>1
      <4> QED
        BY <2>2, <4>1, <4>2 DEF EventsBelow
    <3>4. EventsBelow(n) \subseteq EventsBelow(n)'
      BY <2>2, <2>3 DEF EventsBelow, Index
    <3> QED
      BY <3>3, <3>4
  <2>5. WholeBatches => WholeBatches'
    <3> SUFFICES ASSUME NEW b \in 1 .. Len(finalized) + 1, events = EventsBelow(2 * b - 1)
                 PROVE  WholeBatches'
      BY DEF WholeBatches
    <3>1. 2 * b - 1 \in Nat /\ 2 * b - 1 <= 2 * Len(finalized) + 1 /\ b \in 1 .. Len(finalized') + 1
      BY <2>2, <2>3
    <3>2. EventsBelow(2 * b - 1)' = EventsBelow(2 * b - 1)
      BY <2>4, <3>1
    <3> QED
      BY <1>1, <3>1, <3>2 DEF WholeBatches
  <2>6. BetweenPasses'
    BY <1>1, <1>2, <2>1, <2>5 DEF BetweenPasses
  <2>7. OnePass'
    BY <1>2, <2>1 DEF OnePass, InPass
  <2>8. ASSUME NEW k \in Job PROVE SteadyLocal(job[k])'
    <3>1. CASE k = j
      BY <1>2, <3>1 DEF SteadyLocal
    <3>2. CASE k # j
      <4>1. PICK l : l = job[k]
        OBVIOUS
      <4>2. SteadyLocal(l) /\ LocalRight(l)
        BY <2>1, <4>1, LocalFacts
      <4>3. l.pc = "store" => l.eventId \in Nat /\ l.eventId <= 2 * Len(finalized) + 1
        <5> SUFFICES ASSUME l.pc = "store"
                     PROVE  l.eventId \in Nat /\ l.eventId <= 2 * Len(finalized) + 1
          OBVIOUS
        <5>1. /\ l.batch <= Len(finalized) + 1 /\ l.eventId = 2 * l.batch - 2 + l.index
          BY <4>2 DEF SteadyLocal
        <5>2. l.batch \in 1 .. MaxResponses + 1 /\ l.index \in 1 .. 2 /\ l.last \in 0 .. Len(finalized)
              /\ MaxResponses \in Nat /\ (l.index = 2 => l.batch <= l.last)
          BY <4>2, Bounds DEF LocalRight
        <5> QED
          BY <2>2, <5>1, <5>2
      <4>4. l.pc = "store" => EventsBelow(l.eventId)' = EventsBelow(l.eventId)
        BY <2>4, <4>3
      <4>5. SteadyLocal(l)'
        BY <1>1, <2>2, <2>3, <4>2, <4>4 DEF SteadyLocal, LocalRight
      <4> QED
        BY <1>2, <3>2, <4>1, <4>5
    <3> QED
      BY <3>1, <3>2
  <2>9. \A c : Pushed(c)' = Pushed(c) /\ (Pushed(c) => c \in DOMAIN finalized)
    <3>1. \A k \in Job : RequestPushed(job[k])' = RequestPushed(job[k])
      BY <1>1, <1>2 DEF RequestPushed
    <3>2. \A k \in Job : RequestPushed(job[k]) => InHands(job[k])' = InHands(job[k])
      BY <1>1, <1>2 DEF RequestPushed, InHands, Processed, First
    <3>3. \A c : Marked(c)' = Marked(c) /\ Held(c)' = Held(c)
      BY <1>1, <3>1, <3>2 DEF Marked, Held, Processed
    <3>4. \A e \in Processed : e.batch \in DOMAIN finalized
      BY <1>0 DEF EventsRight, Processed
    <3> QED
      BY <3>3, <3>4 DEF Pushed, Marked, Held, InHands
  <2>10. \A r : HasPushed(r)' <=> HasPushed(r)
    BY <2>2, <2>3, <2>9 DEF HasPushed
  <2>11. PushedOnce'
    BY <1>1, <2>1, <2>10 DEF PushedOnce
  <2> QED
    BY <2>6, <2>7, <2>8, <2>11
<1> QED
  BY <1>3, <1>4 DEF Send

LEMMA CrashSteady ==
  ASSUME Typed, SteadyRight, Crash
  PROVE  SteadyRight'
<1> SUFFICES ASSUME steady' PROVE (OnePass /\ BetweenPasses /\ PushedOnce /\ \A k \in Job : SteadyLocal(job[k]))'
  BY DEF SteadyRight
<1>0. Len(finalized) \in Nat /\ MaxResponses \in Nat
  BY ChainIs, Bounds DEF Typed
<1>1. /\ job' = [j \in Job |-> Idle] /\ steady /\ \A j \in Job : ~ InTheMiddle(j)
      /\ UNCHANGED <<finalized, events, processed, responses, finalizedD>>
  BY DEF Crash, chainVars, docVars
<1>2. OnePass /\ BetweenPasses /\ PushedOnce /\ \A k \in Job : SteadyLocal(job[k])
  BY <1>1 DEF SteadyRight
<1>3. \A k \in Job : job'[k].pc = "idle"
  BY <1>1, IdleIs
<1>4. OnePass' /\ \A k \in Job : SteadyLocal(job[k])'
  BY <1>3 DEF OnePass, InPass, SteadyLocal
<1>5. WholeBatches
  <2>1. CASE \A j \in Job : job[j].pc # "store"
    BY <1>2, <2>1 DEF BetweenPasses
  <2>2. ASSUME NEW j \in Job, job[j].pc = "store" PROVE WholeBatches
    <3> DEFINE b == job[j].batch
    <3>1. /\ b <= Len(finalized) + 1 /\ events = EventsBelow(job[j].eventId)
          /\ job[j].eventId = 2 * b - 2 + job[j].index
      BY <1>2, <2>2 DEF SteadyLocal
    <3>2. job[j].index # 2 /\ job[j].index \in 1 .. 2 /\ b \in 1 .. MaxResponses + 1
      BY <1>1, <2>2, LocalFacts DEF InTheMiddle
    <3>3. b \in 1 .. Len(finalized) + 1 /\ job[j].eventId = 2 * b - 1
      BY <1>0, <3>1, <3>2
    <3> QED
      BY <3>1, <3>3 DEF WholeBatches
  <2> QED
    BY <2>1, <2>2
<1>6. BetweenPasses'
  BY <1>1, <1>5 DEF BetweenPasses, WholeBatches, EventsBelow
<1>7. \A k \in Job : ~ RequestPushed(job[k]) /\ ~ RequestPushed(job[k])'
  BY <1>1, <1>3 DEF RequestPushed, InTheMiddle
<1>8. \A c : Pushed(c)' = Pushed(c)
  BY <1>1, <1>7 DEF Pushed, Held, Marked, Processed
<1>9. PushedOnce'
  BY <1>1, <1>2, <1>8 DEF PushedOnce, HasPushed
<1> QED
  BY <1>4, <1>6, <1>9

(* Steps of a job that is in no pass, except Send.                         *)
LEMMA QuietSteady ==
  ASSUME Typed, SteadyRight, NEW j \in Job,
         \/ FindRequests(j) \/ FindProcessed(j) \/ FindActive(j) \/ UpdateThrows(j)
         \/ Count(j) \/ FindRequest(j) \/ FindBatch(j) \/ FetchState(j)
         \/ FindComplete(j) \/ Compute(j) \/ Skip(j)
  PROVE  SteadyRight'
<1>0. DOMAIN job = Job /\ IsLocal(job[j])
  BY LocalFacts
<1>1. /\ UNCHANGED <<finalized, events, processed, responses, finalizedD, steady>>
      /\ ~ InPass(j)
  BY DEF FindRequests, FindProcessed, FindActive, UpdateThrows, Count, FindRequest, FindBatch,
         FetchState, FindComplete, Compute, Skip, InPass, chainVars, docVars
<1>2. \E m : /\ job' = [job EXCEPT ![j] = m]
             /\ m.pc \in {"findProcessed", "findActive", "updated", "counted", "found", "fetchState", "send",
                         "compute", "idle"}
  <2>1. ASSUME NEW label, Goto(j, label)
        PROVE  \E m : job' = [job EXCEPT ![j] = m] /\ m.pc = label
    <3>1. job' = [job EXCEPT ![j] = [job[j] EXCEPT !.pc = label]]
      BY <1>0, <2>1 DEF Goto
    <3>2. [job[j] EXCEPT !.pc = label].pc = label
      BY <1>0 DEF IsLocal
    <3> QED
      BY <3>1, <3>2
  <2>2. Return(j) => \E m : job' = [job EXCEPT ![j] = m] /\ m.pc = "idle"
    BY IdleIs DEF Return
  <2>3. CASE FindRequests(j) \/ FindProcessed(j) \/ FindActive(j) \/ UpdateThrows(j)
    BY <2>1, <2>3 DEF FindRequests, FindProcessed, FindActive, UpdateThrows
  <2>4. CASE Compute(j) \/ Skip(j)
    BY <2>2, <2>4 DEF Compute, Skip
  <2>5. CASE FindBatch(j)
    <3>1. \/ Return(j)
          \/ \E A : job' = [job EXCEPT ![j] = [job[j] EXCEPT !.pc = "fetchState", !.count = 0, !.actions = A]]
      BY <1>0, <2>5 DEF FindBatch
    <3>2. \A A : [job[j] EXCEPT !.pc = "fetchState", !.count = 0, !.actions = A].pc = "fetchState"
      BY <1>0 DEF IsLocal
    <3> QED
      BY <2>2, <3>1, <3>2
  <2>5a. CASE Count(j)
    <3>1. job' = [job EXCEPT ![j] = [job[j] EXCEPT !.pc = "counted", !.count = Len(log)]]
      BY <1>0, <2>5a DEF Count
    <3>2. [job[j] EXCEPT !.pc = "counted", !.count = Len(log)].pc = "counted"
      BY <1>0 DEF IsLocal
    <3> QED
      BY <3>1, <3>2
  <2>5b. CASE FindRequest(j)
    <3>1. PICK r : job' = [job EXCEPT ![j] = [job[j] EXCEPT !.pc = "found", !.request = r]]
      BY <1>0, <2>5b DEF FindRequest
    <3>2. [job[j] EXCEPT !.pc = "found", !.request = r].pc = "found"
      BY <1>0 DEF IsLocal
    <3> QED
      BY <3>1, <3>2
  <2>6. CASE FetchState(j)
    <3>1. CASE WitnessesFit(Len(finalized))
      <4>1. job' = [job EXCEPT ![j] = [job[j] EXCEPT !.pc = "send", !.state = Len(finalized)]]
        BY <1>0, <2>6, <3>1 DEF FetchState
      <4>2. [job[j] EXCEPT !.pc = "send", !.state = Len(finalized)].pc = "send"
        BY <1>0 DEF IsLocal
      <4> QED
        BY <4>1, <4>2
    <3> QED
      BY <2>2, <2>6, <3>1 DEF FetchState
  <2>7. CASE FindComplete(j)
    <3>1. PICK r \in First({q \in Initialized : Complete(q)}) :
            job' = [job EXCEPT ![j] = [job[j] EXCEPT !.pc = "compute", !.request = r,
                                                     !.sums = finalizedD[r]]]
      BY <1>0, <2>7 DEF FindComplete
    <3>2. [job[j] EXCEPT !.pc = "compute", !.request = r, !.sums = finalizedD[r]].pc = "compute"
      BY <1>0 DEF IsLocal
    <3> QED
      BY <3>1, <3>2
  <2> QED
    BY <2>3, <2>4, <2>5, <2>5a, <2>5b, <2>6, <2>7
<1>3. ~ InPass(j)' /\ \A k \in Job : k # j => job'[k] = job[k]
  BY <1>0, <1>2 DEF InPass
<1> QED
  BY <1>1, <1>3, SteadyQuiet

LEMMA SteadyStep == Typed /\ SteadyRight /\ [Next]_vars => SteadyRight'
<1> SUFFICES ASSUME Typed, SteadyRight, [Next]_vars PROVE SteadyRight'
  OBVIOUS
<1>1. CASE UNCHANGED vars
  BY <1>1, SteadySame DEF vars, chainVars, docVars
<1>2. CASE Next
  <2>1. CASE ChainStep
    <3>1. UNCHANGED <<finalized, events, processed, responses, finalizedD, job, steady>>
      BY <2>1 DEF ChainStep, Respond, Resolve, chainVars, docVars
    <3> QED
      BY <3>1, SteadySame
  <2>2. CASE Crash
    BY <2>2, CrashSteady
  <2>2a. ASSUME NEW j \in Job, SaveAction(j) PROVE SteadyRight'
    <3>1. UNCHANGED <<finalized, events, processed, responses, finalizedD, job, steady>>
      BY <2>2a DEF SaveAction, chainVars
    <3> QED
      BY <3>1, SteadySame
  <2>3. ASSUME NEW j \in Job, Update(j) PROVE SteadyRight'
    BY <2>2a, <2>3, FetchSteady, StoreSteady, FindSteady, LoadSteady, SaveRequestSteady, SaveActionsSteady,
       SaveEventSteady, QuietSteady DEF Update
  <2>4. ASSUME NEW j \in Job, Rollup(j) \/ Skip(j) PROVE SteadyRight'
    BY <2>4, SendSteady, QuietSteady DEF Rollup
  <2>5. ASSUME NEW j \in Job, FetchThrows(j) \/ UpdateThrows(j) PROVE SteadyRight'
    BY <2>5, ThrowSteady, QuietSteady
  <2> QED
    BY <1>2, <2>1, <2>2, <2>3, <2>4, <2>5 DEF Next, Fail
<1> QED
  BY <1>1, <1>2

-----------------------------------------------------------------------------
(* The jobs stay a function: a step changes one, or begins all anew.        *)
LEMMA JobsAre == JobFunction /\ [Next]_vars => JobFunction'
<1> SUFFICES ASSUME JobFunction, [Next]_vars PROVE JobFunction'
  OBVIOUS
<1>1. CASE UNCHANGED vars
  BY <1>1 DEF vars, JobFunction
<1>2. CASE ChainStep \/ Crash
  BY <1>2 DEF ChainStep, Respond, Resolve, Crash, JobFunction
<1>3. ASSUME NEW j \in Job, Update(j) PROVE JobFunction'
  <2>1. CASE FetchEvents(j) \/ StoreEvent(j)
    BY <2>1 DEF FetchEvents, StoreEvent, JobFunction
  <2>2. CASE FindEvents(j) \/ SaveEvent(j)
    BY <2>2 DEF FindEvents, SaveEvent, Proceed, JobFunction
  <2>3. CASE LoadEvent(j)
    BY <2>3 DEF LoadEvent, JobFunction
  <2>4. CASE SaveRequest(j) \/ SaveAction(j) \/ SaveActions(j)
    BY <2>4 DEF SaveRequest, SaveAction, SaveActions, SaveDone, JobFunction
  <2>5. CASE FindRequests(j) \/ FindProcessed(j) \/ FindActive(j)
    BY <2>5 DEF FindRequests, FindProcessed, FindActive, Goto, JobFunction
  <2> QED
    BY <1>3, <2>1, <2>2, <2>3, <2>4, <2>5 DEF Update
<1>4. ASSUME NEW j \in Job, Rollup(j) \/ Skip(j) PROVE JobFunction'
  <2>1. CASE Count(j) \/ FindRequest(j) \/ FindComplete(j)
    BY <2>1 DEF Count, FindRequest, FindComplete, JobFunction
  <2>2. CASE FindBatch(j) \/ FetchState(j)
    BY <2>2 DEF FindBatch, FetchState, Return, JobFunction
  <2>3. CASE Send(j) \/ Compute(j) \/ Skip(j)
    BY <2>3 DEF Send, Compute, Skip, Return, JobFunction
  <2> QED
    BY <1>4, <2>1, <2>2, <2>3 DEF Rollup
<1>5. ASSUME NEW j \in Job, FetchThrows(j) \/ UpdateThrows(j) PROVE JobFunction'
  BY <1>5 DEF FetchThrows, Retry, UpdateThrows, Goto, JobFunction
<1> QED
  BY <1>1, <1>2, <1>3, <1>4, <1>5 DEF Next, Fail

(* The strengthening is inductive.                                         *)
LEMMA RightIsInvariant == Spec => []Right
<1>1. Init => Right
  <2>1. Init => JobFunction
    BY DEF Init, JobFunction
  <2> QED
    BY <2>1, InitTyped, InitSteady DEF Right
<1>2. Right /\ [Next]_vars => Right'
  BY TypeStep, SteadyStep, JobsAre DEF Right
<1> QED
  BY <1>1, <1>2, PTL DEF Spec

LEMMA LocalsAre ==
  ASSUME Typed, NEW j \in Job
  PROVE  job[j] \in [pc : PC, batch : 1 .. MaxResponses + 1, last : 0 .. Len(finalized),
                     index : 1 .. 2, eventId : 0 .. 2 * MaxResponses + 1, todo : SUBSET EventId,
                     sums : 0 .. Many, pending : SUBSET {"request", "actions"},
                     count : 0 .. MaxResponses, request : Requests, actions : SUBSET DOMAIN log,
                     state : 0 .. Len(finalized)]
<1>1. PICK l : l = job[j]
  OBVIOUS
<1>2. LocalRight(l)
  BY <1>1, LocalFacts
<1>3. /\ l.batch \in 1 .. MaxResponses + 1 /\ l.index \in 1 .. 2 /\ (l.index = 2 => l.batch <= l.last)
      /\ l.last \in 0 .. Len(finalized) /\ l.eventId \in 0 .. 2 * l.batch + l.index - 2
  BY <1>2 DEF LocalRight
<1>4. Len(finalized) \in Nat /\ Len(finalized) <= MaxResponses /\ MaxResponses \in Nat
  BY ChainIs, FewBatches, Bounds DEF Typed
<1>5. l.eventId \in 0 .. 2 * MaxResponses + 1
  <2>1. CASE l.index = 1
    BY <1>3, <1>4, <2>1
  <2>2. CASE l.index = 2
    BY <1>3, <1>4, <2>2
  <2> QED
    BY <1>3, <2>1, <2>2
<1>6. l.todo \subseteq EventId
  <2>1. ProcessedIds \subseteq EventId
    BY TransactionIs DEF ProcessedIds, Typed
  <2> QED
    BY <1>2, <2>1 DEF LocalRight
<1> QED
  BY <1>1, <1>2, <1>5, <1>6 DEF LocalRight, IsLocal

LEMMA TypedIsTypeOK == Typed /\ JobFunction => TypeOK
<1> SUFFICES ASSUME Typed, JobFunction PROVE TypeOK
  OBVIOUS
<1>0. ChainRight /\ EventsRight /\ DocumentsRight /\ StorageRight /\ JobsRight /\ steady \in BOOLEAN
  BY DEF Typed
<1>1. processed \subseteq {e.eventId : e \in events}
  BY <1>0 DEF DocumentsRight, ProcessedIds, Processed
<1>2. job \in [Job -> [pc : PC, batch : 1 .. MaxResponses + 1, last : 0 .. Len(finalized),
                     index : 1 .. 2, eventId : 0 .. 2 * MaxResponses + 1, todo : SUBSET EventId,
                     sums : 0 .. Many, pending : SUBSET {"request", "actions"},
                     count : 0 .. MaxResponses, request : Requests, actions : SUBSET DOMAIN log,
                     state : 0 .. Len(finalized)]]
  <2> DEFINE T == [pc : PC, batch : 1 .. MaxResponses + 1, last : 0 .. Len(finalized),
                     index : 1 .. 2, eventId : 0 .. 2 * MaxResponses + 1, todo : SUBSET EventId,
                     sums : 0 .. Many, pending : SUBSET {"request", "actions"},
                     count : 0 .. MaxResponses, request : Requests, actions : SUBSET DOMAIN log,
                     state : 0 .. Len(finalized)]
  <2>1. \A j \in Job : job[j] \in T
    BY LocalsAre
  <2> HIDE DEF T
  <2>2. job = [j \in Job |-> job[j]]
    BY DEF JobFunction
  <2>3. job \in [Job -> T]
    BY <2>1, <2>2
  <2> QED
    BY <2>3 DEF T
<1>3. /\ log \in Seq(Requests) /\ Len(log) <= MaxResponses
      /\ finalized \in Seq([request : Requests, actions : SUBSET DOMAIN log])
      /\ computed \subseteq {finalized[b].request : b \in DOMAIN finalized} /\ resolved \subseteq computed
      /\ events \subseteq [batch : DOMAIN finalized, eventId : EventId, kind : Kind]
  BY <1>0 DEF ChainRight, EventsRight
<1>4. /\ active \subseteq ActionsOf(Len(finalized))
      /\ responses \in [Requests -> 0 .. Many] /\ finalizedD \in [Requests -> 0 .. Many]
  BY <1>0 DEF DocumentsRight
<1>5. /\ storage.contribution \subseteq ActionsOf(Len(finalized))
      /\ \A r \in DOMAIN storage.response : storage.response[r] \in 1 .. Many
      /\ \A a \in DOMAIN storage.process : a \in active /\ storage.process[a] \in 1 .. MaxCounter
      /\ storage.mapping \in [ActionId -> 0 .. MaxCounter + 1]
  BY <1>0 DEF StorageRight
<1> QED
  BY <1>0, <1>1, <1>2, <1>3, <1>4, <1>5, Zenon DEF TypeOK

(* Whatever the number of jobs and requests, the variables keep their      *)
(* types: an id that a pass gives is within what its batches allow, what   *)
(* is processed is an event, and what is active or in the trees was        *)
(* finalized.                                                              *)
THEOREM TypeCorrect == Spec => []TypeOK
<1>1. Right => TypeOK
  BY TypedIsTypeOK DEF Right
<1> QED
  BY <1>1, RightIsInvariant, PTL

(* rollupResponse() answers the requests in turn: one is finalized only    *)
(* when all before it are RESOLVED, by whatever job, and only once.        *)
THEOREM TurnsAreKept == Spec => []AnsweredInTurn
<1>1. Right => AnsweredInTurn
  BY DEF Right, Typed
<1> QED
  BY <1>1, RightIsInvariant, PTL

LEMMA SteadyIsOnce == Right => CountedOnceWhileSteady
<1> SUFFICES ASSUME Right, steady PROVE CountedOnceWhileSteady
  BY DEF CountedOnceWhileSteady
<1>0. Typed /\ BetweenPasses /\ PushedOnce /\ \A k \in Job : SteadyLocal(job[k])
  BY DEF Right, SteadyRight
<1>1. \E n : events = EventsBelow(n)
  <2>1. CASE \A j \in Job : job[j].pc # "store"
    BY <1>0, <2>1 DEF BetweenPasses, WholeBatches
  <2>2. ASSUME NEW j \in Job, job[j].pc = "store" PROVE \E n : events = EventsBelow(n)
    BY <1>0, <2>2 DEF SteadyLocal
  <2> QED
    BY <2>1, <2>2
<1>2. ASSUME NEW e \in events, NEW f \in events, e.batch = f.batch, e.kind = f.kind PROVE e = f
  <2>1. \A x \in events : /\ x = [batch |-> x.batch, eventId |-> x.eventId, kind |-> x.kind]
                          /\ x.eventId = 2 * x.batch - 2 + Index(x.kind)
    BY <1>0, <1>1, BelowIs
  <2> QED
    BY <1>2, <2>1
<1>3. \A r \in Requests : responses[r] <= 1 /\ finalizedD[r] = responses[r]
  BY <1>0 DEF PushedOnce
<1> QED
  BY <1>2, <1>3 DEF CountedOnceWhileSteady

(* updateResponseActions() counts what it marks: an event is processed     *)
(* only when the responses of its request are pushed and its actions are   *)
(* active, wherever a pass stops and however passes overlap; and while     *)
(* they neither overlap nor stop in the middle, everything is pushed once. *)
THEOREM CountedRightly == Spec => []CountedRight
<1>1. Right => CountedRight
  BY SteadyIsOnce DEF CountedRight, Right, Typed
<1> QED
  BY <1>1, RightIsInvariant, PTL

-----------------------------------------------------------------------------
(* A job comes to a label of the roll-up by one step only.                 *)
LEMMA Comes ==
  ASSUME Typed, Next, NEW k \in Job
  PROVE  /\ job'[k].pc = "counted" => job'[k] = job[k] \/ Count(k)
         /\ job'[k].pc = "found" => job'[k] = job[k] \/ FindRequest(k)
         /\ job'[k].pc = "compute" => job'[k] = job[k] \/ FindComplete(k)
         /\ job'[k].pc = "fetchState" => job'[k] = job[k] \/ FindBatch(k)
         /\ job'[k].pc = "send" => job'[k] = job[k] \/ FetchState(k)
<1> DEFINE Elsewhere(j) ==
             \E m : /\ job' = [job EXCEPT ![j] = m]
                   /\ m.pc \notin {"counted", "found", "compute", "fetchState", "send"}
           Goal == /\ job'[k].pc = "counted" => job'[k] = job[k] \/ Count(k)
                   /\ job'[k].pc = "found" => job'[k] = job[k] \/ FindRequest(k)
                   /\ job'[k].pc = "compute" => job'[k] = job[k] \/ FindComplete(k)
                   /\ job'[k].pc = "fetchState" => job'[k] = job[k] \/ FindBatch(k)
                   /\ job'[k].pc = "send" => job'[k] = job[k] \/ FetchState(k)
<1>0. DOMAIN job = Job /\ \A j \in Job : IsLocal(job[j])
  BY LocalFacts DEF Typed, JobsRight
<1>1. ASSUME NEW j \in Job, Elsewhere(j) PROVE Goal
  BY <1>0, <1>1
<1>2. ASSUME NEW j \in Job, Return(j) PROVE Elsewhere(j)
  BY <1>2, IdleIs DEF Return
<1>3. ASSUME NEW j \in Job, NEW label \in {"findProcessed", "findActive", "updated"}, Goto(j, label)
      PROVE  Elsewhere(j)
  <2>1. job' = [job EXCEPT ![j] = [job[j] EXCEPT !.pc = label]]
    BY <1>0, <1>3 DEF Goto
  <2>2. [job[j] EXCEPT !.pc = label].pc = label
    BY <1>0 DEF IsLocal
  <2> QED
    BY <2>1, <2>2
<1>4. ASSUME NEW j \in Job, NEW ids, Proceed(j, ids) PROVE Elsewhere(j)
  <2>1. PICK label \in {"findRequests", "next"} :
          job' = [job EXCEPT ![j] = [Idle EXCEPT !.pc = label, !.todo = ids]]
    BY <1>4 DEF Proceed
  <2>2. [Idle EXCEPT !.pc = label, !.todo = ids].pc = label
    BY IdleIs DEF IsLocal
  <2> QED
    BY <2>1, <2>2
<1>5. ASSUME NEW j \in Job, NEW what, SaveDone(j, what) PROVE Elsewhere(j)
  <2> DEFINE p == IF job[j].pending = {what} THEN "saveEvent" ELSE "save"
             m == [job[j] EXCEPT !.pc = p, !.pending = job[j].pending \ {what},
                                 !.sums = IF what = "request" THEN 0 ELSE job[j].sums]
  <2>1. job' = [job EXCEPT ![j] = m]
    BY <1>0, <1>5 DEF SaveDone
  <2>2. p \in {"save", "saveEvent"}
    OBVIOUS
  <2> HIDE DEF p
  <2>3. m.pc = p
    BY <1>0 DEF IsLocal
  <2> QED
    BY <2>1, <2>2, <2>3
<1>6. ASSUME NEW j \in Job, Retry(j) PROVE Elsewhere(j)
  <2>1. PICK label \in {"idle", "findRequests"} : job' = [job EXCEPT ![j] = [Idle EXCEPT !.pc = label]]
    BY <1>6 DEF Retry
  <2>2. [Idle EXCEPT !.pc = label].pc = label
    BY IdleIs DEF IsLocal
  <2> QED
    BY <2>1, <2>2
<1>7. ASSUME NEW j \in Job, FetchEvents(j) PROVE Elsewhere(j)
  <2> DEFINE m == [job[j] EXCEPT !.pc = "store", !.batch = NextBatch,
                                 !.last = Len(finalized), !.eventId = NextEventId]
  <2>1. job' = [job EXCEPT ![j] = m]
    BY <1>0, <1>7 DEF FetchEvents
  <2>2. m.pc = "store"
    BY <1>0 DEF IsLocal
  <2> QED
    BY <2>1, <2>2
<1>8. ASSUME NEW j \in Job, StoreEvent(j) PROVE Elsewhere(j)
  <2> DEFINE m == [job[j] EXCEPT !.eventId = @ + 1, !.index = IF @ = 1 THEN 2 ELSE 1,
                                 !.batch = IF job[j].index = 1 THEN @ ELSE @ + 1]
  <2>1. job' = [job EXCEPT ![j] = m] /\ job[j].pc = "store"
    BY <1>0, <1>8 DEF StoreEvent
  <2>2. m.pc = "store"
    BY <1>0, <2>1 DEF IsLocal
  <2> QED
    BY <2>1, <2>2
<1>9. ASSUME NEW j \in Job, LoadEvent(j) PROVE Elsewhere(j)
  <2>1. PICK s : job' = [job EXCEPT ![j] = [job[j] EXCEPT !.pc = "save",
                                              !.pending = {"request", "actions"}, !.sums = s]]
    BY <1>0, <1>9 DEF LoadEvent
  <2>2. [job[j] EXCEPT !.pc = "save", !.pending = {"request", "actions"}, !.sums = s].pc = "save"
    BY <1>0 DEF IsLocal
  <2> QED
    BY <2>1, <2>2
<1> HIDE DEF Elsewhere
<1>10. ASSUME NEW j \in Job, Count(j) \/ FindRequest(j) \/ FindBatch(j) \/ FindComplete(j) \/ FetchState(j)
       PROVE  Goal
  <2>1. \A i \in Job : i # j => job'[i] = job[i]
    BY <1>0, <1>10 DEF Count, FindRequest, FindBatch, FindComplete, FetchState, Return
  <2>2. CASE FindBatch(j)
    <3>1. CASE Return(j)
      BY <1>1, <1>2, <3>1
    <3>2. CASE ~ Return(j)
      <4>1. PICK A : job' = [job EXCEPT ![j] = [job[j] EXCEPT !.pc = "fetchState", !.count = 0, !.actions = A]]
        BY <1>0, <2>2, <3>2 DEF FindBatch
      <4>2. job'[j].pc = "fetchState"
        BY <1>0, <4>1 DEF IsLocal
      <4> QED
        BY <2>1, <2>2, <4>2
    <3> QED
      BY <3>1, <3>2
  <2>2a. CASE Count(j)
    <3>1. job'[j].pc = "counted"
      BY <1>0, <2>2a DEF Count, IsLocal
    <3> QED
      BY <2>1, <2>2a, <3>1
  <2>2b. CASE FindRequest(j)
    <3>1. job'[j].pc = "found"
      BY <1>0, <2>2b DEF FindRequest, IsLocal
    <3> QED
      BY <2>1, <2>2b, <3>1
  <2>3. CASE FindComplete(j)
    <3>1. job'[j].pc = "compute"
      BY <1>0, <2>3 DEF FindComplete, IsLocal
    <3> QED
      BY <2>1, <2>3, <3>1
  <2>4. CASE FetchState(j)
    <3>1. CASE WitnessesFit(Len(finalized))
      <4>1. job'[j].pc = "send"
        BY <1>0, <2>4, <3>1 DEF FetchState, IsLocal
      <4> QED
        BY <2>1, <2>4, <4>1
    <3>2. CASE ~ WitnessesFit(Len(finalized))
      BY <1>1, <1>2, <2>4, <3>2 DEF FetchState
    <3> QED
      BY <3>1, <3>2
  <2> QED
    BY <1>10, <2>2, <2>2a, <2>2b, <2>3, <2>4
<1>11. CASE ChainStep
  BY <1>11 DEF ChainStep, Respond, Resolve
<1>12. CASE Crash
  BY <1>12, IdleIs DEF Crash
<1>13. ASSUME NEW j \in Job, Update(j) PROVE Goal
  <2>0. CASE SaveAction(j)
    BY <2>0 DEF SaveAction
  <2>1. Elsewhere(j) \/ SaveAction(j)
    BY <1>3, <1>4, <1>5, <1>7, <1>8, <1>9, <1>13
    DEF Update, FindEvents, SaveRequest, SaveActions, SaveEvent, FindRequests, FindProcessed, FindActive
  <2> QED
    BY <1>1, <2>0, <2>1
<1>14. ASSUME NEW j \in Job, Rollup(j) \/ Skip(j) PROVE Goal
  BY <1>1, <1>2, <1>10, <1>14 DEF Rollup, Send, Compute, Skip
<1>15. ASSUME NEW j \in Job, FetchThrows(j) \/ UpdateThrows(j) PROVE Goal
  BY <1>1, <1>3, <1>6, <1>15 DEF FetchThrows, UpdateThrows
<1> QED
  BY <1>11, <1>12, <1>13, <1>14, <1>15 DEF Next, Fail

(* No action of a request that is not finalized is active.                 *)
LEMMA AllAreCandidates ==
  ASSUME Typed, NEW r \in Requests, \A b \in DOMAIN finalized : finalized[b].request # r, NEW n
  PROVE  Candidates(r, n) = RolledUp(r, n)
<1>1. \A a \in active : \E b \in DOMAIN finalized : a \in finalized[b].actions
  BY InActions, ChainIs DEF Typed, DocumentsRight
<1>2. \A a \in active : log[a] # r
  BY <1>1 DEF Typed, ChainRight
<1> QED
  BY <1>2 DEF Candidates, RolledUp

(* A set that contains one with more than the threshold has more, too.     *)
LEMMA LargerSet ==
  ASSUME NEW S, NEW T, S \subseteq T, IsFiniteSet(T), Cardinality(S) > Threshold
  PROVE  Cardinality(T) > Threshold
<1>1. IsFiniteSet(S) /\ Cardinality(S) <= Cardinality(T)
  BY FS_Subset
<1>2. Cardinality(S) \in Nat /\ Cardinality(T) \in Nat /\ Threshold \in Nat
  BY <1>1, FS_CardinalityType, Bounds
<1> QED
  BY <1>1, <1>2

(* Too many actions are too many of a larger number, now and later.        *)
LEMMA MoreActions ==
  ASSUME Typed, NEW r, NEW n \in Nat, TooMany(r, n)
  PROVE  /\ \A m \in Nat : n <= m => TooMany(r, m)
         /\ Typed' /\ (\A a \in DOMAIN log : a \in DOMAIN log' /\ log'[a] = log[a]) =>
              TooMany(r, n)' /\ TooMany(r, Len(log))'
<1>1. Len(log) \in Nat /\ DOMAIN log = 1 .. Len(log)
  BY ChainIs DEF Typed
<1>2. \A m : IsFiniteSet(RolledUp(r, m))
  <2> SUFFICES ASSUME NEW m PROVE IsFiniteSet(RolledUp(r, m))
    OBVIOUS
  <2>1. RolledUp(r, m) \subseteq 1 .. Len(log)
    BY <1>1 DEF RolledUp
  <2> QED
    BY <1>1, <2>1, CountIs
<1>3. ASSUME NEW m \in Nat, n <= m PROVE TooMany(r, m)
  <2>1. RolledUp(r, n) \subseteq RolledUp(r, m)
    BY <1>1, <1>3 DEF RolledUp
  <2> QED
    BY <1>2, <2>1, LargerSet DEF TooMany
<1>4. ASSUME Typed', \A a \in DOMAIN log : a \in DOMAIN log' /\ log'[a] = log[a]
      PROVE  TooMany(r, n)' /\ TooMany(r, Len(log))'
  <2>1. (Len(log) \in Nat /\ DOMAIN log = 1 .. Len(log))'
    BY <1>4, ChainIs DEF Typed
  <2> DEFINE S == RolledUp(r, n)
             T == {a \in DOMAIN log' : a <= n /\ log'[a] = r}
             U == {a \in DOMAIN log' : a <= Len(log') /\ log'[a] = r}
  <2>2. S \subseteq T /\ S \subseteq U
    BY <1>4, <2>1 DEF RolledUp
  <2>3. T \subseteq 1 .. Len(log') /\ U \subseteq 1 .. Len(log') /\ Len(log') \in Nat
    BY <2>1
  <2>4. Cardinality(S) > Threshold
    BY DEF TooMany
  <2>5. T = RolledUp(r, n)' /\ U = RolledUp(r, Len(log))'
    BY DEF RolledUp
  <2> HIDE DEF S, T, U
  <2>6. IsFiniteSet(T) /\ IsFiniteSet(U)
    BY <2>3, CountIs
  <2>7. Cardinality(T) > Threshold /\ Cardinality(U) > Threshold
    BY <2>2, <2>4, <2>6, LargerSet
  <2> QED
    BY <2>5, <2>7 DEF TooMany
<1> QED
  BY <1>3, <1>4

(* What grows: the actions, and the responses of a request.                *)
LEMMA LogGrows ==
  ASSUME Typed, Next
  PROVE  /\ \A a \in DOMAIN log : a \in DOMAIN log' /\ log'[a] = log[a]
         /\ \A r \in Requests : responses[r] > 1 => responses'[r] > 1
<1>0. /\ Len(log) \in Nat /\ DOMAIN log = 1 .. Len(log) /\ log \in Seq(Requests)
      /\ responses \in [Requests -> 0 .. Many]
  BY ChainIs DEF Typed, ChainRight, DocumentsRight
<1>1. CASE UNCHANGED <<log, responses>>
  BY <1>1
<1>2. ASSUME NEW r \in Requests, Respond(r)
      PROVE  UNCHANGED responses /\ \A a \in DOMAIN log : a \in DOMAIN log' /\ log'[a] = log[a]
  BY <1>0, <1>2 DEF Respond, docVars
<1>3. ASSUME NEW j \in Job, SaveRequest(j)
      PROVE  UNCHANGED log /\ \A r \in Requests : responses[r] > 1 => responses'[r] > 1
  <2>1. PICK q : responses' = [responses EXCEPT ![q] = More(@)]
    BY <1>3 DEF SaveRequest
  <2>2. ASSUME NEW r \in Requests, responses[r] > 1 PROVE responses'[r] > 1
    <3>1. r = q => More(responses[r]) > 1
      BY <1>0, <2>2 DEF More, Many
    <3> QED
      BY <1>0, <2>1, <2>2, <3>1
  <2> QED
    BY <1>3, <2>2 DEF SaveRequest, chainVars
<1>4. ASSUME NEW j \in Job, Update(j), ~ SaveRequest(j) PROVE UNCHANGED <<log, responses>>
  BY <1>4 DEF Update, FetchEvents, StoreEvent, FindEvents, LoadEvent, SaveAction, SaveActions, SaveEvent,
              FindRequests, FindProcessed, FindActive, chainVars, docVars
<1>5. ASSUME NEW j \in Job, Rollup(j) \/ Skip(j) PROVE UNCHANGED <<log, responses>>
  BY <1>5 DEF Rollup, Count, FindRequest, FindBatch, FetchState, Send, FindComplete, Compute, Skip,
     chainVars, docVars
<1>6. Fail => UNCHANGED <<log, responses>>
  BY DEF Fail, Crash, FetchThrows, Retry, UpdateThrows, chainVars, docVars
<1>7. ASSUME NEW r \in Requests, Resolve(r) PROVE UNCHANGED <<log, responses>>
  BY <1>7 DEF Resolve, chainVars
<1> QED
  BY <1>1, <1>2, <1>3, <1>4, <1>5, <1>6, <1>7 DEF Next, ChainStep

(* What the contract adds, it adds by the step of a job that is at Send or *)
(* Compute with that request.                                              *)
LEMMA ChainGrows ==
  ASSUME Typed, Next
  PROVE  /\ \A r \in computed' \ computed : InFlight(r, "compute")
         /\ \A b \in DOMAIN finalized' :
              \/ b \in DOMAIN finalized /\ finalized'[b] = finalized[b]
              \/ InFlight(finalized'[b].request, "send")
<1> DEFINE Goal == /\ \A r \in computed' \ computed : InFlight(r, "compute")
                   /\ \A b \in DOMAIN finalized' :
                        \/ b \in DOMAIN finalized /\ finalized'[b] = finalized[b]
                        \/ InFlight(finalized'[b].request, "send")
<1>1. UNCHANGED <<finalized, computed>> => Goal
  OBVIOUS
<1>2. ASSUME NEW j \in Job, Send(j) PROVE Goal
  <2>1. job[j].pc = "send" /\ computed' = computed
    BY <1>2 DEF Send
  <2>2. CASE finalized' = finalized
    BY <2>1, <2>2
  <2>3. CASE finalized' = Append(finalized, [request |-> job[j].request, actions |-> job[j].actions])
    <3> DEFINE t == [request |-> job[j].request, actions |-> job[j].actions]
               T == [request : Requests, actions : SUBSET DOMAIN log]
    <3>1. finalized \in Seq(T) /\ Len(finalized) \in Nat /\ DOMAIN finalized = 1 .. Len(finalized)
      BY ChainIs DEF Typed, ChainRight
    <3>2. t.request = job[j].request /\ finalized' = Append(finalized, t)
      BY <2>3
    <3> HIDE DEF t, T
    <3>3. \A b \in DOMAIN finalized' :
            \/ b \in DOMAIN finalized /\ finalized'[b] = finalized[b]
            \/ finalized'[b] = t
      BY <3>1, <3>2
    <3>4. InFlight(t.request, "send")
      BY <2>1, <3>2 DEF InFlight
    <3> QED
      BY <2>1, <3>3, <3>4
  <2> QED
    BY <1>2, <2>2, <2>3 DEF Send
<1>3. ASSUME NEW j \in Job, Compute(j) PROVE Goal
  BY <1>3 DEF Compute, InFlight
<1>4. ASSUME NEW j \in Job, Update(j) PROVE UNCHANGED <<finalized, computed>>
  BY <1>4 DEF Update, FetchEvents, StoreEvent, FindEvents, LoadEvent, SaveRequest, SaveAction, SaveActions,
              SaveEvent, FindRequests, FindProcessed, FindActive, chainVars
<1>5. ASSUME NEW j \in Job,
             Count(j) \/ FindRequest(j) \/ FindBatch(j) \/ FetchState(j) \/ FindComplete(j) \/ Skip(j)
      PROVE  UNCHANGED <<finalized, computed>>
  BY <1>5 DEF Count, FindRequest, FindBatch, FetchState, FindComplete, Skip, chainVars
<1>6. Fail => UNCHANGED <<finalized, computed>>
  BY DEF Fail, Crash, FetchThrows, Retry, UpdateThrows, chainVars
<1>7. ASSUME NEW r \in Requests, Respond(r) \/ Resolve(r) PROVE UNCHANGED <<finalized, computed>>
  BY <1>7 DEF Respond, Resolve, chainVars
<1> HIDE DEF Goal
<1>8. Goal
  BY <1>1, <1>2, <1>3, <1>4, <1>5, <1>6, <1>7 DEF Next, ChainStep, Rollup
<1> QED
  BY <1>8 DEF Goal

(* A request with responses pushed twice, or with more actions than the    *)
(* threshold, is passed over by computeResult() and rollupResponse() for   *)
(* ever: whatever jobs do, it stays so, unless one had it in its hands, or *)
(* had counted the actions before they were too many.                      *)
THEOREM TooManyStay == Spec => TooManyIsForEver
<1>1. ASSUME Typed, Typed', Next, NEW r \in Requests, TooManyResponses(r) PROVE TooManyResponses(r)'
  <2>1. responses[r] > 1 /\ r \notin computed /\ ~ InFlight(r, "compute")
    BY <1>1 DEF TooManyResponses
  <2>2. responses'[r] > 1 /\ r \notin computed'
    BY <1>1, <2>1, LogGrows, ChainGrows
  <2>3. ASSUME NEW k \in Job, job'[k].pc = "compute", job'[k].request = r PROVE FALSE
    <3>1. job'[k] = job[k] \/ FindComplete(k)
      BY <1>1, <2>3, Comes
    <3>2. job'[k] # job[k]
      BY <2>1, <2>3 DEF InFlight
    <3>3. FindComplete(k)
      BY <3>1, <3>2
    <3>4. PICK q \in First({x \in Initialized : Complete(x)}) :
            job' = [job EXCEPT ![k].pc = "compute", ![k].request = q, ![k].sums = finalizedD[q]]
      BY <3>3 DEF FindComplete
    <3>5. job'[k].request = q
      <4>1. IsLocal(job[k]) /\ DOMAIN job = Job
        BY <1>1, LocalFacts
      <4>2. job' = [job EXCEPT ![k] = [job[k] EXCEPT !.pc = "compute", !.request = q, !.sums = finalizedD[q]]]
        BY <3>4, <4>1
      <4> QED
        BY <4>1, <4>2 DEF IsLocal
    <3>6. responses[r] = 1
      BY <2>3, <3>4, <3>5 DEF First, Complete
    <3> QED
      BY <2>1, <3>6
  <2> QED
    BY <2>2, <2>3 DEF TooManyResponses, InFlight
<1>2. ASSUME Typed, Typed', Next, NEW r \in Requests, TooManyActions(r) PROVE TooManyActions(r)'
  <2>0. /\ DOMAIN job = Job /\ \A k \in Job : IsLocal(job[k]) /\ job[k].count \in Nat
        /\ Len(log) \in Nat
    <3>1. \A k \in Job : IsLocal(job[k]) /\ job[k].count \in Nat
      <4> SUFFICES ASSUME NEW k \in Job PROVE IsLocal(job[k]) /\ job[k].count \in Nat
        OBVIOUS
      <4>1. IsLocal(job[k]) /\ job[k].count \in 0 .. MaxResponses
        BY <1>2, LocalFacts
      <4> QED
        BY <4>1, Bounds
    <3> QED
      BY <1>2, <3>1, ChainIs DEF Typed, JobsRight
  <2>1. /\ TooMany(r, Len(log))
        /\ \A b \in DOMAIN finalized : finalized[b].request # r
        /\ \A k \in Job : job[k].pc = "counted" => TooMany(r, job[k].count)
        /\ \A k \in Job : job[k].pc = "found" /\ job[k].request = r => TooMany(r, job[k].count)
        /\ ~ InFlight(r, "fetchState") /\ ~ InFlight(r, "send")
    BY <1>2 DEF TooManyActions
  <2>a. \A a \in DOMAIN log : a \in DOMAIN log' /\ log'[a] = log[a]
    BY <1>2, LogGrows
  <2>b. \A n \in Nat : TooMany(r, n) => TooMany(r, n)'
    BY <1>2, <2>a, MoreActions
  <2>2. TooMany(r, Len(log))'
    BY <1>2, <2>0, <2>1, <2>a, MoreActions
  <2>3. \A b \in DOMAIN finalized' : finalized'[b].request # r
    BY <1>2, <2>1, ChainGrows
  <2>3a. ASSUME NEW k \in Job, job'[k].pc = "counted" PROVE TooMany(r, job[k].count)'
    <3>1. CASE job'[k] = job[k]
      <4>1. TooMany(r, job[k].count) /\ job'[k].count = job[k].count
        BY <2>1, <2>3a, <3>1
      <4> QED
        BY <2>0, <2>b, <4>1 DEF TooMany, RolledUp
    <3>2. CASE Count(k)
      <4>1. log' = log /\ job' = [job EXCEPT ![k] = [job[k] EXCEPT !.pc = "counted", !.count = Len(log)]]
        BY <2>0, <3>2 DEF Count, chainVars
      <4>2. job'[k].count = Len(log)
        BY <2>0, <4>1 DEF IsLocal
      <4> QED
        BY <2>1, <4>1, <4>2 DEF TooMany, RolledUp
    <3> QED
      BY <1>2, <2>3a, <3>1, <3>2, Comes
  <2>3b. ASSUME NEW k \in Job, job'[k].pc = "found", job'[k].request = r PROVE TooMany(r, job[k].count)'
    <3>1. TooMany(r, job[k].count) /\ job'[k].count = job[k].count
      <4>1. CASE job'[k] = job[k]
        BY <2>1, <2>3b, <4>1
      <4>2. CASE FindRequest(k)
        <5>1. PICK q : job' = [job EXCEPT ![k] = [job[k] EXCEPT !.pc = "found", !.request = q]]
          BY <2>0, <4>2 DEF FindRequest
        <5>2. job'[k].count = job[k].count /\ job[k].pc = "counted"
          BY <2>0, <4>2, <5>1 DEF FindRequest, IsLocal
        <5> QED
          BY <2>1, <5>2
      <4> QED
        BY <1>2, <2>3b, <4>1, <4>2, Comes
    <3> QED
      BY <2>0, <2>b, <3>1 DEF TooMany, RolledUp
  <2>4. ASSUME NEW k \in Job, job'[k].pc = "fetchState", job'[k].request = r PROVE FALSE
    <3>1. job'[k] = job[k] \/ FindBatch(k)
      BY <1>2, <2>4, Comes
    <3>2. job'[k] # job[k]
      BY <2>1, <2>4 DEF InFlight
    <3>3. FindBatch(k)
      BY <3>1, <3>2
    <3>4. ~ Return(k)
      BY <2>0, <2>4, IdleIs DEF Return
    <3>5. PICK n \in job[k].count .. Len(log) :
            /\ Cardinality(Candidates(job[k].request, n)) = Threshold
            /\ job' = [job EXCEPT ![k] = [job[k] EXCEPT !.pc = "fetchState", !.count = 0,
                                            !.actions = Candidates(job[k].request, n)]]
      BY <2>0, <3>3, <3>4 DEF FindBatch
    <3>6. job'[k].request = job[k].request
      BY <2>0, <3>5 DEF IsLocal
    <3>7. TooMany(r, job[k].count)
      BY <2>1, <2>4, <3>3, <3>6 DEF FindBatch
    <3>8. TooMany(r, n)
      <4>1. n \in Nat /\ job[k].count <= n
        BY <2>0, <3>5
      <4> QED
        BY <1>2, <2>0, <3>7, <4>1, MoreActions
    <3>9. Cardinality(RolledUp(r, n)) = Threshold
      BY <1>2, <2>1, <2>4, <3>5, <3>6, AllAreCandidates
    <3> QED
      BY <3>8, <3>9, Bounds DEF TooMany
  <2>5. ASSUME NEW k \in Job, job'[k].pc = "send", job'[k].request = r PROVE FALSE
    <3>1. job'[k] = job[k] \/ FetchState(k)
      BY <1>2, <2>5, Comes
    <3>2. job'[k] # job[k]
      BY <2>1, <2>5 DEF InFlight
    <3>3. FetchState(k) /\ job[k].pc = "fetchState"
      BY <3>1, <3>2 DEF FetchState
    <3>4. WitnessesFit(Len(finalized))
      BY <1>2, <2>5, <3>3, LocalFacts, IdleIs DEF FetchState, Return
    <3>5. job'[k].request = job[k].request
      <4>1. IsLocal(job[k]) /\ DOMAIN job = Job
        BY <1>2, LocalFacts
      <4>2. job' = [job EXCEPT ![k] = [job[k] EXCEPT !.pc = "send", !.state = Len(finalized)]]
        BY <3>3, <3>4, <4>1 DEF FetchState
      <4> QED
        BY <4>1, <4>2 DEF IsLocal
    <3> QED
      BY <2>1, <2>5, <3>3, <3>5 DEF InFlight
  <2> QED
    BY <2>2, <2>3, <2>3a, <2>3b, <2>4, <2>5 DEF TooManyActions, InFlight
<1>3. Right /\ Right' /\ [Next]_vars =>
        [\A r \in Requests : /\ TooManyResponses(r) => TooManyResponses(r)'
                             /\ TooManyActions(r) => TooManyActions(r)']_vars
  BY <1>1, <1>2 DEF Right
<1> QED
  BY <1>3, RightIsInvariant, PTL DEF Spec, TooManyIsForEver

(* A counter in the process tree that is not 1 never becomes 1 again       *)
(* before a restart: updateProcessStorageForResponse() only adds.  Until   *)
(* then no witness fits, and no proof of rollupResponse() is made.         *)
THEOREM RestartIsNeeded == Spec => CounterNeedsRestart
<1>1. ASSUME Typed, Next, NEW a \in DOMAIN storage.process, storage.process[a] > 1, storage' # EmptyStorage
      PROVE  /\ a \in DOMAIN storage'.process /\ storage'.process[a] > 1
             /\ \A j \in Job : job[j].pc = "fetchState" => job'[j].pc # "send"
  <2>0. IsStorage(storage) /\ a \in active /\ storage.process[a] <= storage.mapping[a]
        /\ storage.process[a] \in Nat /\ storage.mapping[a] \in Nat
    <3>1. IsStorage(storage) /\ a \in active /\ storage.process[a] <= storage.mapping[a]
          /\ storage.process[a] \in 1 .. MaxCounter /\ storage.mapping \in [ActionId -> 0 .. MaxCounter + 1]
      BY <1>1 DEF Typed, StorageRight
    <3>2. a \in ActionId /\ MaxCounter \in Nat
      BY <1>1, <3>1, ActiveIs, Bounds DEF Typed
    <3> QED
      BY <3>1, <3>2
  <2>1. \/ storage'.process = storage.process
        \/ storage'.process = Overwrite(storage.process, [c \in Written |-> storage.mapping[c]])
    <3>1. CASE storage' = storage
      BY <3>1
    <3>2. ASSUME NEW j \in Job, FindRequests(j) \/ FindProcessed(j) PROVE storage'.process = storage.process
      BY <2>0, <3>2 DEF FindRequests, FindProcessed, IsStorage
    <3>3. ASSUME NEW j \in Job, FindActive(j)
          PROVE  storage'.process = Overwrite(storage.process, [c \in Written |-> storage.mapping[c]])
      BY <2>0, <3>3 DEF FindActive, IsStorage
    <3>4. ASSUME NEW j \in Job,
                 \/ FetchEvents(j) \/ StoreEvent(j) \/ FindEvents(j) \/ LoadEvent(j) \/ SaveRequest(j)
                 \/ SaveAction(j) \/ SaveActions(j) \/ SaveEvent(j) \/ Rollup(j) \/ Skip(j)
                 \/ FetchThrows(j) \/ UpdateThrows(j)
          PROVE  storage' = storage
      BY <3>4 DEF FetchEvents, StoreEvent, FindEvents, LoadEvent, SaveRequest, SaveAction, SaveActions,
         SaveEvent, Rollup,
                  Count, FindRequest, FindBatch, FetchState, Send, FindComplete, Compute, Skip,
                     FetchThrows, Retry, UpdateThrows
    <3>5. ASSUME NEW r \in Requests, Respond(r) \/ Resolve(r) PROVE storage' = storage
      BY <3>5 DEF Respond, Resolve
    <3>6. ~ Crash
      BY <1>1 DEF Crash
    <3> QED
      BY <1>1, <3>1, <3>2, <3>3, <3>4, <3>5, <3>6 DEF Next, ChainStep, Update, Fail
  <2>2. a \in DOMAIN storage'.process /\ storage'.process[a] > 1
    <3>1. CASE storage'.process = storage.process
      BY <1>1, <3>1
    <3>2. CASE storage'.process = Overwrite(storage.process, [c \in Written |-> storage.mapping[c]])
      <4> DEFINE G == [c \in Written |-> storage.mapping[c]]
      <4>1. /\ a \in DOMAIN storage'.process
            /\ a \in Written => storage'.process[a] = storage.mapping[a]
            /\ a \notin Written => storage'.process[a] = storage.process[a]
        BY <1>1, <3>2 DEF Overwrite
      <4> QED
        BY <1>1, <2>0, <4>1
    <3> QED
      BY <2>1, <3>1, <3>2
  <2>3. ASSUME NEW j \in Job, job[j].pc = "fetchState", job'[j].pc = "send" PROVE FALSE
    <3>1. FetchState(j)
      BY <1>1, <2>3, Comes
    <3>2. WitnessesFit(Len(finalized))
      BY <1>1, <2>3, <3>1, LocalFacts, IdleIs DEF FetchState, Return
    <3>3. storage.process[a] = 1
      BY <1>1, <3>2 DEF WitnessesFit, TreesAfter
    <3> QED
      BY <1>1, <3>3
  <2> QED
    BY <2>2, <2>3
<1>2. Right /\ [Next]_vars =>
        [\A a \in DOMAIN storage.process :
           storage.process[a] > 1 /\ storage' # EmptyStorage =>
             /\ a \in DOMAIN storage'.process /\ storage'.process[a] > 1
             /\ \A j \in Job : job[j].pc = "fetchState" => job'[j].pc # "send"]_vars
  BY <1>1 DEF Right
<1> QED
  BY <1>2, RightIsInvariant, PTL DEF Spec, CounterNeedsRestart
=============================================================================
