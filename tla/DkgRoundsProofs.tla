---------------------------- MODULE DkgRoundsProofs ----------------------------
(***************************************************************************)
(* What the rounds guarantee for any number of servers, keys, members and  *)
(* contributions.  The argument: an action reaches the list, the writes    *)
(* and at last the active ones only behind actions that have an event; a   *)
(* save follows its push; a tree is written from documents in which all    *)
(* contributions have an event; and a proof fits only if what the contract *)
(* has taken so far is active.                                             *)
(***************************************************************************)
EXTENDS DkgRounds, FiniteSetTheorems, WellFoundedInduction, TLAPS

\* The local variables of a job, and the trees, are records, whatever their values.
IsTrees(t) ==
  t = [contribution |-> t.contribution, encryption |-> t.encryption, processed |-> t.processed]

IsLocal(l) ==
  l = [pc |-> l.pc, notActiveActions |-> l.notActiveActions, round |-> l.round,
       keys |-> l.keys, mapped |-> l.mapped, numRollupedActions |-> l.numRollupedActions,
       batch |-> l.batch, from |-> l.from, trees |-> l.trees]

\* A roll-up that has found its batch is about one key.
OneKey(l) == l.pc \in {"fetchState", "prove", "send"} => \E k \in Key : l.keys = {k}

JobsOK ==
  \A s \in Server : /\ IsTrees(storage[s])
                    /\ IsLocal(job[s]) /\ IsTrees(job[s].trees) /\ OneKey(job[s])

\* A server has at most MaxInFlight writes of a contribution in flight, and one
\* less if a pass is about to start one; the action is recorded.
WritesFit ==
  \A s \in Server, i \in ActionId :
    /\ pushing[s][i] + saving[s][i] <= MaxInFlight
    /\ job[s].pc = "contribute" /\ i \in job[s].notActiveActions =>
         pushing[s][i] + saving[s][i] < MaxInFlight
    /\ pushing[s][i] + saving[s][i] > 0 => i \in 1 .. mirrored

Typed == TypeOK /\ Len(log) <= MaxActions /\ JobsOK /\ WritesFit

-----------------------------------------------------------------------------
(* A set of natural numbers has a smallest element.                        *)
LEMMA Smallest ==
  ASSUME NEW S, S \subseteq Nat, S # {}
  PROVE  \E m \in S : \A h \in S : m <= h
<1> DEFINE less == OpToRel(<, Nat)
<1>1. IsWellFoundedOn(less, Nat)
  BY NatLessThanWellFounded
<1>2. \A h, m \in Nat : h < m => <<h, m>> \in less
  BY DEF OpToRel
<1> HIDE DEF less
<1>3. PICK m \in S : \A h \in S : ~ (<<h, m>> \in less)
  BY <1>1, WFMin
<1>4. \A h \in S : h \in Nat /\ m \in Nat /\ ~ (h < m)
  BY <1>2, <1>3
<1>5. \A h \in S : m <= h
  BY <1>4
<1> QED
  BY <1>5

(* The first of a list is one of the list.                                 *)
LEMMA FirstIs ==
  ASSUME NEW list, list \subseteq Nat, list # {}
  PROVE  First(list) \in list
BY Smallest DEF First

LEMMA FirstOfOne ==
  ASSUME NEW k \in Nat
  PROVE  First({k}) = k
BY FirstIs

(* Empty trees are trees, and a job that has ended holds nothing.          *)
LEMMA EmptyIs ==
  /\ IsTrees(EmptyTrees) /\ TreesOK(EmptyTrees)
  /\ DOMAIN EmptyTrees.contribution = {} /\ None \in Counts
BY DEF IsTrees, TreesOK, EmptyTrees, None, Counts, Many

LEMMA IdleIs ==
  ASSUME mirrored \in Nat, mirroredEvents \in Nat, Len(log) \in Nat, Len(events) \in Nat
  PROVE  /\ IsLocal(Idle) /\ LocalsOK(Idle) /\ IsTrees(Idle.trees) /\ OneKey(Idle)
         /\ Idle.pc = "idle"
<1>1. /\ Idle.pc = "idle" /\ Idle.notActiveActions = {} /\ Idle.round = None /\ Idle.keys = {}
      /\ Idle.mapped = 0 /\ Idle.numRollupedActions = 0 /\ Idle.batch = {} /\ Idle.from = 0
      /\ Idle.trees = EmptyTrees /\ IsLocal(Idle)
  BY DEF Idle, IsLocal
<1> QED
  BY <1>1, EmptyIs DEF LocalsOK, OneKey, PC

LEMMA InitTyped == Init => Typed
<1> SUFFICES ASSUME Init PROVE Typed
  OBVIOUS
<1>0. /\ log = <<>> /\ events = <<>> /\ mempool = {} /\ mirrored = 0 /\ mirroredEvents = 0
      /\ known = {} /\ pushed = None /\ active = {} /\ quiet = TRUE
      /\ pushing = [s \in Server |-> None] /\ saving = [s \in Server |-> None]
      /\ storage = [s \in Server |-> EmptyTrees] /\ job = [s \in Server |-> Idle]
  BY DEF Init
<1>1. Len(log) = 0 /\ Len(events) = 0
  BY <1>0
<1>2. MaxInFlight \in Nat /\ MaxActions \in Nat
  BY RoundsAssumption
<1>3. None \in InFlight
  BY <1>2 DEF None, InFlight
<1>4. log \in Seq([key : Key, member : Member])
  BY <1>0
<1>5. events \in Seq([key : Key, actions : SUBSET DOMAIN log])
  BY <1>0
<1>6. \A s \in Server : IsLocal(job[s]) /\ LocalsOK(job[s]) /\ IsTrees(job[s].trees) /\ OneKey(job[s])
                        /\ job[s].pc = "idle"
  BY <1>0, <1>1, IdleIs
<1>7. TypeOK
  BY <1>0, <1>1, <1>3, <1>4, <1>5, <1>6, EmptyIs DEF TypeOK
<1>8. JobsOK
  BY <1>0, <1>6, EmptyIs DEF JobsOK
<1>9. WritesFit
  BY <1>0, <1>2, <1>6 DEF WritesFit, None
<1> QED
  BY <1>1, <1>2, <1>7, <1>8, <1>9 DEF Typed

-----------------------------------------------------------------------------
\* What a step of a job that touches nothing else leaves as it is.
others == <<chainVars, mempool, mirrored, mirroredEvents, known, writeVars, storage>>

\* A list for which every write still fits.
ListFits(s, l) ==
  l.pc = "contribute" =>
    \A i \in l.notActiveActions : i \in ActionId => pushing[s][i] + saving[s][i] < MaxInFlight

(* Steps that change the variables of one job only.                        *)
LEMMA JobOnly ==
  ASSUME Typed, NEW s \in Server, NEW l,
         IsLocal(l), LocalsOK(l), IsTrees(l.trees), OneKey(l), ListFits(s, l),
         job' = [job EXCEPT ![s] = l], quiet' \in BOOLEAN, UNCHANGED others
  PROVE  Typed'
<1>1. /\ DOMAIN job' = Server /\ job'[s] = l
      /\ \A t \in Server : t # s => job'[t] = job[t]
  BY DEF Typed, TypeOK
<1>2. \A t \in Server : IsLocal(job'[t]) /\ LocalsOK(job'[t]) /\ IsTrees(job'[t].trees) /\ OneKey(job'[t])
  BY <1>1 DEF Typed, TypeOK, JobsOK
<1>a. /\ log' = log /\ events' = events /\ mempool' = mempool /\ mirrored' = mirrored
      /\ mirroredEvents' = mirroredEvents /\ known' = known /\ pushed' = pushed
      /\ active' = active /\ pushing' = pushing /\ saving' = saving /\ storage' = storage
  BY DEF others, chainVars, writeVars
<1>b. \A t \in Server : LocalsOK(job[t])'
  BY <1>a, <1>2 DEF LocalsOK, TreesOK, Counts, Key
<1>c. \A t \in Server : TreesOK(storage[t])'
  BY <1>a DEF Typed, TypeOK, TreesOK, Counts
<1>3. TypeOK'
  BY <1>1, <1>a, <1>b, <1>c DEF Typed, TypeOK, Counts, InFlight, Key
<1>4. JobsOK'
  BY <1>1, <1>2 DEF Typed, JobsOK, others, OneKey, Key
<1>5. WritesFit'
  BY <1>1 DEF Typed, WritesFit, ListFits, others, writeVars
<1> QED
  BY <1>3, <1>4, <1>5 DEF Typed, others, chainVars

(* The variables of a job in the typed state.                              *)
LEMMA LocalFacts ==
  ASSUME Typed, NEW s \in Server
  PROVE  /\ IsLocal(job[s]) /\ LocalsOK(job[s]) /\ IsTrees(job[s].trees) /\ OneKey(job[s])
         /\ s \in DOMAIN job /\ ListFits(s, job[s])
         /\ mirrored \in 0 .. Len(log) /\ mirroredEvents \in 0 .. Len(events)
         /\ Len(log) \in Nat /\ Len(events) \in Nat /\ MaxActions \in Nat /\ Len(log) <= MaxActions
         /\ known \subseteq Key /\ Key \subseteq Nat /\ active \subseteq 1 .. mirrored
         /\ pushed \in Counts /\ TreesOK(storage[s]) /\ IsTrees(storage[s]) /\ quiet \in BOOLEAN
BY RoundsAssumption DEF Typed, TypeOK, JobsOK, WritesFit, ListFits, Key

(* A job ends.                                                             *)
LEMMA JobEnds ==
  ASSUME Typed, NEW s \in Server, job' = [job EXCEPT ![s] = Idle],
         quiet' = quiet, UNCHANGED others
  PROVE  Typed'
<1>1. mirrored \in Nat /\ mirroredEvents \in Nat /\ Len(log) \in Nat /\ Len(events) \in Nat
  BY LocalFacts
<1>2. IsLocal(Idle) /\ LocalsOK(Idle) /\ IsTrees(Idle.trees) /\ OneKey(Idle) /\ Idle.pc = "idle"
  BY <1>1, IdleIs
<1>3. ListFits(s, Idle)
  BY <1>2 DEF ListFits
<1>4. quiet' \in BOOLEAN
  BY LocalFacts
<1> QED
  BY <1>2, <1>3, <1>4, JobOnly

(* The steps of the passes that change only the job.                       *)
LEMMA PassTypes ==
  ASSUME Typed, NEW s \in Server,
         Find(s) \/ ContributeDone(s) \/ KeyNotFound(s) \/ FetchThrows(s) \/ CountDone(s)
           \/ FindKeys(s) \/ FindEvents(s) \/ UpdateThrows(s) \/ Skip(s)
  PROVE  Typed'
<1> DEFINE l == job'[s]
<1>0. /\ IsLocal(job[s]) /\ LocalsOK(job[s]) /\ IsTrees(job[s].trees) /\ OneKey(job[s])
      /\ s \in DOMAIN job
      /\ mirrored \in 0 .. Len(log) /\ mirroredEvents \in 0 .. Len(events)
      /\ Len(log) \in Nat /\ Len(events) \in Nat /\ quiet \in BOOLEAN /\ pushed \in Counts
  BY LocalFacts
<1>1. ASSUME Find(s) PROVE Typed'
  <2>1. job' = [job EXCEPT ![s] =
                  [job[s] EXCEPT !.pc = "contribute", !.notActiveActions = NotActive]]
    BY <1>1 DEF Find
  <2>2. /\ IsLocal(l) /\ l.pc = "contribute" /\ l.notActiveActions = NotActive
        /\ l.round = job[s].round /\ l.keys = job[s].keys /\ l.mapped = job[s].mapped
        /\ l.numRollupedActions = job[s].numRollupedActions /\ l.batch = job[s].batch
        /\ l.from = job[s].from /\ l.trees = job[s].trees
    BY <1>0, <2>1 DEF IsLocal
  <2>3. LocalsOK(l) /\ OneKey(l)
    BY <1>0, <2>2 DEF LocalsOK, OneKey, PC, NotActive
  <2>4. ListFits(s, l)
    BY <1>1, <2>2 DEF ListFits, Find
  <2>5. quiet' \in BOOLEAN
    BY <1>1 DEF Find
  <2> QED
    BY <1>0, <1>1, <2>1, <2>2, <2>3, <2>4, <2>5, JobOnly DEF Find, others
<1>2. ASSUME ContributeDone(s) PROVE Typed'
  <2>1. job' = [job EXCEPT ![s] =
                  [job[s] EXCEPT !.pc = "findKeys", !.notActiveActions = {}]]
    BY <1>2 DEF ContributeDone
  <2>2. /\ IsLocal(l) /\ l.pc = "findKeys" /\ l.notActiveActions = {}
        /\ l.round = job[s].round /\ l.keys = job[s].keys /\ l.mapped = job[s].mapped
        /\ l.numRollupedActions = job[s].numRollupedActions /\ l.batch = job[s].batch
        /\ l.from = job[s].from /\ l.trees = job[s].trees
    BY <1>0, <2>1 DEF IsLocal
  <2>3. LocalsOK(l) /\ OneKey(l) /\ ListFits(s, l)
    BY <1>0, <2>2 DEF LocalsOK, OneKey, PC, ListFits
  <2> QED
    BY <1>0, <1>2, <2>1, <2>2, <2>3, JobOnly DEF ContributeDone, others
<1>3. ASSUME Retry(s) PROVE Typed'
  <2>1. PICK label \in {"idle", "findKeys"} :
          job' = [job EXCEPT ![s] = [job[s] EXCEPT !.pc = label, !.notActiveActions = {}]]
    BY <1>3 DEF Retry
  <2>2. /\ IsLocal(l) /\ l.pc \in {"idle", "findKeys"} /\ l.notActiveActions = {}
        /\ l.round = job[s].round /\ l.keys = job[s].keys /\ l.mapped = job[s].mapped
        /\ l.numRollupedActions = job[s].numRollupedActions /\ l.batch = job[s].batch
        /\ l.from = job[s].from /\ l.trees = job[s].trees
    BY <1>0, <2>1 DEF IsLocal
  <2>3. LocalsOK(l) /\ OneKey(l) /\ ListFits(s, l)
    BY <1>0, <2>2 DEF LocalsOK, OneKey, PC, ListFits
  <2> QED
    BY <1>0, <1>3, <2>1, <2>2, <2>3, JobOnly DEF Retry, others
<1>4. ASSUME CountDone(s) PROVE Typed'
  <2>1. job' = [job EXCEPT ![s] = [job[s] EXCEPT !.pc = "findEvents", !.round = None]]
    BY <1>4 DEF CountDone
  <2>2. /\ IsLocal(l) /\ l.pc = "findEvents" /\ l.notActiveActions = job[s].notActiveActions
        /\ l.round = None /\ l.keys = job[s].keys /\ l.mapped = job[s].mapped
        /\ l.numRollupedActions = job[s].numRollupedActions /\ l.batch = job[s].batch
        /\ l.from = job[s].from /\ l.trees = job[s].trees
    BY <1>0, <2>1 DEF IsLocal
  <2>3. LocalsOK(l) /\ OneKey(l) /\ ListFits(s, l)
    BY <1>0, <2>2, EmptyIs DEF LocalsOK, OneKey, PC, ListFits
  <2> QED
    BY <1>0, <1>4, <2>1, <2>2, <2>3, JobOnly DEF CountDone, others
<1>5. ASSUME FindKeys(s) PROVE Typed'
  <2>1. job' = [job EXCEPT ![s] =
                  [job[s] EXCEPT !.pc = "count", !.round = pushed, !.keys = known]]
    BY <1>5 DEF FindKeys
  <2>2. /\ IsLocal(l) /\ l.pc = "count" /\ l.notActiveActions = job[s].notActiveActions
        /\ l.round = pushed /\ l.keys = known /\ l.mapped = job[s].mapped
        /\ l.numRollupedActions = job[s].numRollupedActions /\ l.batch = job[s].batch
        /\ l.from = job[s].from /\ l.trees = job[s].trees
    BY <1>0, <2>1 DEF IsLocal
  <2>3. LocalsOK(l) /\ OneKey(l) /\ ListFits(s, l)
    BY <1>0, <2>2 DEF LocalsOK, OneKey, PC, ListFits
  <2> QED
    BY <1>0, <1>5, <2>1, <2>2, <2>3, JobOnly DEF FindKeys, others
<1>6. ASSUME FindEvents(s) PROVE Typed'
  <2>1. job' = [job EXCEPT ![s] =
                  [job[s] EXCEPT !.pc = "findActions", !.mapped = mirroredEvents]]
    BY <1>6 DEF FindEvents
  <2>2. /\ IsLocal(l) /\ l.pc = "findActions" /\ l.notActiveActions = job[s].notActiveActions
        /\ l.round = job[s].round /\ l.keys = job[s].keys /\ l.mapped = mirroredEvents
        /\ l.numRollupedActions = job[s].numRollupedActions /\ l.batch = job[s].batch
        /\ l.from = job[s].from /\ l.trees = job[s].trees
    BY <1>0, <2>1 DEF IsLocal
  <2>3. LocalsOK(l) /\ OneKey(l) /\ ListFits(s, l)
    BY <1>0, <2>2 DEF LocalsOK, OneKey, PC, ListFits
  <2> QED
    BY <1>0, <1>6, <2>1, <2>2, <2>3, JobOnly DEF FindEvents, others
<1>7. ASSUME UpdateThrows(s) PROVE Typed'
  <2>1. job' = [job EXCEPT ![s] =
                  [job[s] EXCEPT !.pc = "updated", !.round = None, !.keys = {}, !.mapped = 0]]
    BY <1>7 DEF UpdateThrows
  <2>2. /\ IsLocal(l) /\ l.pc = "updated" /\ l.notActiveActions = job[s].notActiveActions
        /\ l.round = None /\ l.keys = {} /\ l.mapped = 0
        /\ l.numRollupedActions = job[s].numRollupedActions /\ l.batch = job[s].batch
        /\ l.from = job[s].from /\ l.trees = job[s].trees
    BY <1>0, <2>1 DEF IsLocal
  <2>3. LocalsOK(l) /\ OneKey(l) /\ ListFits(s, l)
    BY <1>0, <2>2, EmptyIs DEF LocalsOK, OneKey, PC, ListFits
  <2> QED
    BY <1>0, <1>7, <2>1, <2>2, <2>3, JobOnly DEF UpdateThrows, others
<1>8. ASSUME Skip(s) PROVE Typed'
  BY <1>8, JobEnds DEF Skip, others
<1> QED
  BY <1>1, <1>2, <1>3, <1>4, <1>5, <1>6, <1>7, <1>8 DEF KeyNotFound, FetchThrows

-----------------------------------------------------------------------------
\* What never shrinks.
Grows ==
  /\ Len(log') \in Nat /\ Len(events') \in Nat /\ DOMAIN log' = 1 .. Len(log')
  /\ Len(log) <= Len(log') /\ Len(log') <= MaxActions /\ Len(events) <= Len(events')
  /\ mirrored <= mirrored' /\ mirrored' \in 0 .. Len(log')
  /\ mirroredEvents <= mirroredEvents' /\ mirroredEvents' \in 0 .. Len(events')
  /\ known \subseteq known' /\ known' \subseteq Key
  /\ active \subseteq active' /\ active' \subseteq 1 .. mirrored'

LEMMA Stays ==
  ASSUME Typed, UNCHANGED <<log, events, mirrored, mirroredEvents, known, active>>
  PROVE  Grows
BY LocalFacts DEF Grows, Typed, TypeOK

(* Nothing a job or a tree holds becomes wrong by that.                    *)
LEMMA TreesKeep ==
  ASSUME Typed, Grows, NEW t, TreesOK(t)
  PROVE  TreesOK(t)'
<1>1. DOMAIN log \subseteq DOMAIN log'
  BY DEF Typed, TypeOK, Grows
<1> QED
  BY <1>1 DEF TreesOK, Grows, Counts

LEMMA LocalsKeep ==
  ASSUME Typed, Grows, NEW l, LocalsOK(l)
  PROVE  LocalsOK(l)'
<1>1. TreesOK(l.trees)'
  BY TreesKeep DEF LocalsOK
<1>2. /\ mirrored \in Nat /\ mirroredEvents \in Nat /\ Len(log) \in Nat /\ Len(events) \in Nat
  BY DEF Typed, TypeOK
<1>3. l.mapped \in 0 .. mirroredEvents' /\ l.numRollupedActions \in 0 .. Len(log') /\ l.from \in 0 .. Len(events')
  BY <1>2 DEF LocalsOK, Grows
<1>4. l.notActiveActions \cup l.batch \subseteq 1 .. mirrored'
  BY <1>2 DEF LocalsOK, Grows
<1> QED
  BY <1>1, <1>3, <1>4 DEF LocalsOK, Grows, Counts

(* Steps of the chain, the feed and the writes leave jobs and trees alone. *)
LEMMA JobsKeep ==
  ASSUME Typed, Grows, UNCHANGED <<job, storage>>,
         log' \in Seq([key : Key, member : Member]),
         events' \in Seq([key : Key, actions : SUBSET DOMAIN log']),
         \A tx \in mempool' : /\ tx.key \in Key /\ tx.actions \subseteq DOMAIN log'
                              /\ tx.from \in 0 .. Len(events'),
         pushed' \in Counts, {pushing', saving'} \subseteq [Server -> InFlight],
         quiet' \in BOOLEAN, WritesFit'
  PROVE  Typed'
<1>1. \A t \in Server : LocalsOK(job[t])' /\ TreesOK(storage[t])'
  BY LocalsKeep, TreesKeep DEF Typed, TypeOK
<1>2. TypeOK'
  BY <1>1 DEF Typed, TypeOK, Grows, Counts, InFlight, Key
<1>3. JobsOK'
  BY DEF Typed, JobsOK, OneKey, Key
<1> QED
  BY <1>2, <1>3 DEF Typed, Grows

LEMMA WiderSeq ==
  ASSUME NEW S, NEW T, S \subseteq T, NEW q \in Seq(S)
  PROVE  q \in Seq(T)
OBVIOUS

LEMMA ChainTypes ==
  ASSUME Typed, ChainStep
  PROVE  Typed'
<1>0. /\ log \in Seq([key : Key, member : Member])
      /\ events \in Seq([key : Key, actions : SUBSET DOMAIN log])
      /\ \A tx \in mempool : /\ tx.key \in Key /\ tx.actions \subseteq DOMAIN log
                             /\ tx.from \in 0 .. Len(events)
      /\ pushed \in Counts /\ {pushing, saving} \subseteq [Server -> InFlight] /\ quiet \in BOOLEAN
      /\ mirrored \in 0 .. Len(log) /\ mirroredEvents \in 0 .. Len(events)
      /\ active \subseteq 1 .. mirrored /\ known \subseteq Key
      /\ Len(log) \in Nat /\ Len(events) \in Nat /\ MaxActions \in Nat /\ Len(log) <= MaxActions
      /\ WritesFit /\ DOMAIN log = 1 .. Len(log)
  BY LocalFacts, RoundsAssumption DEF Typed, TypeOK
<1>1. ASSUME NEW k \in Key, NEW m \in Member, Dispatch(k, m) PROVE Typed'
  <2>1. /\ log' = Append(log, [key |-> k, member |-> m])
        /\ UNCHANGED <<events, mempool, mirrored, mirroredEvents, known, pushed, active,
                       pushing, saving, storage, job, quiet>>
        /\ Len(log) < MaxActions
    BY <1>1 DEF Dispatch, writeVars
  <2>2. /\ log' \in Seq([key : Key, member : Member]) /\ Len(log') = Len(log) + 1
        /\ DOMAIN log' = 1 .. Len(log')
    BY <1>0, <2>1
  <2>3. Grows
    BY <1>0, <2>1, <2>2 DEF Grows
  <2>4. DOMAIN log \subseteq DOMAIN log'
    BY <1>0, <2>2
  <2>5. events' \in Seq([key : Key, actions : SUBSET DOMAIN log'])
    <3> DEFINE S == [key : Key, actions : SUBSET DOMAIN log]
               T == [key : Key, actions : SUBSET DOMAIN log']
    <3>1. S \subseteq T
      BY <2>4
    <3>2. events \in Seq(S)
      BY <1>0
    <3> HIDE DEF S, T
    <3>3. events \in Seq(T)
      BY <3>1, <3>2, WiderSeq
    <3> QED
      BY <2>1, <3>3 DEF T
  <2>6. WritesFit'
    BY <1>0, <2>1 DEF WritesFit, ActionId
  <2> QED
    BY <1>0, <2>1, <2>2, <2>3, <2>4, <2>5, <2>6, JobsKeep
<1>2. ASSUME NEW k \in Key, NEW ids \in SUBSET DOMAIN log,
             events' = Append(events, [key |-> k, actions |-> ids]), mempool' \subseteq mempool,
             UNCHANGED <<log, mirrored, mirroredEvents, known, writeVars, storage, job, quiet>>
      PROVE Typed'
  <2>1. /\ events' \in Seq([key : Key, actions : SUBSET DOMAIN log]) /\ Len(events') = Len(events) + 1
    BY <1>0, <1>2
  <2>2. Grows
    BY <1>0, <1>2, <2>1 DEF Grows, writeVars
  <2>3. WritesFit'
    BY <1>0, <1>2 DEF WritesFit, ActionId, writeVars
  <2>4. \A tx \in mempool' : tx.from \in 0 .. Len(events')
    BY <1>0, <1>2, <2>1
  <2> QED
    BY <1>0, <1>2, <2>1, <2>2, <2>3, <2>4, JobsKeep DEF writeVars
<1>3. ASSUME NEW tx \in mempool, Include(tx) PROVE Typed'
  <2>1. CASE tx.from = Len(events)
    BY <1>0, <1>2, <1>3, <2>1 DEF Include
  <2>2. CASE tx.from # Len(events)
    <3>1. UNCHANGED <<log, events, mirrored, mirroredEvents, known, writeVars, storage, job, quiet>> /\ mempool' = {}
      BY <1>3, <2>2 DEF Include
    <3>2. Grows
      BY <3>1, Stays DEF writeVars
    <3>3. WritesFit'
      BY <1>0, <3>1 DEF WritesFit, ActionId, writeVars
    <3> QED
      BY <1>0, <3>1, <3>2, <3>3, JobsKeep DEF writeVars
  <2> QED
    BY <2>1, <2>2
<1>4. ASSUME NEW k \in Key, NEW ids \in SUBSET DOMAIN log, FinalizeElsewhere(k, ids) PROVE Typed'
  BY <1>2, <1>4 DEF FinalizeElsewhere
<1>5. ASSUME Record PROVE Typed'
  <2>1. Grows
    BY <1>0, <1>5 DEF Grows, Record, chainVars, writeVars
  <2>2. WritesFit'
    BY <1>0, <1>5 DEF WritesFit, ActionId, Record, writeVars
  <2> QED
    BY <1>0, <1>5, <2>1, <2>2, JobsKeep DEF Record, chainVars, writeVars
<1>6. ASSUME NEW k \in Key, CreateKey(k) PROVE Typed'
  <2>1. Grows
    BY <1>0, <1>6 DEF Grows, CreateKey, chainVars, writeVars
  <2>2. WritesFit'
    BY <1>0, <1>6 DEF WritesFit, ActionId, CreateKey, writeVars
  <2> QED
    BY <1>0, <1>6, <2>1, <2>2, JobsKeep DEF CreateKey, chainVars, writeVars
<1> QED
  BY <1>1, <1>3, <1>4, <1>5, <1>6 DEF ChainStep

LEMMA WriteTypes ==
  ASSUME Typed, NEW s \in Server, NEW i \in ActionId, Push(s, i) \/ Save(s, i)
  PROVE  Typed'
<1>0. /\ pushed \in Counts /\ pushing \in [Server -> InFlight] /\ saving \in [Server -> InFlight]
      /\ WritesFit /\ MaxInFlight \in Nat
      /\ log \in Seq([key : Key, member : Member])
      /\ events \in Seq([key : Key, actions : SUBSET DOMAIN log])
      /\ \A tx \in mempool : /\ tx.key \in Key /\ tx.actions \subseteq DOMAIN log
                             /\ tx.from \in 0 .. Len(events)
      /\ quiet \in BOOLEAN /\ active \subseteq 1 .. mirrored
  BY RoundsAssumption DEF Typed, TypeOK
<1>1. ASSUME Push(s, i) PROVE Typed'
  <2>1. /\ pushing' = [pushing EXCEPT ![s][i] = @ - 1] /\ saving' = [saving EXCEPT ![s][i] = @ + 1]
        /\ pushed' = [pushed EXCEPT ![i] = Increment(@)] /\ pushing[s][i] > 0
        /\ UNCHANGED <<chainVars, mempool, mirrored, mirroredEvents, known, active, storage, job, quiet>>
    BY <1>1 DEF Push
  <2>2. pushed' \in Counts
    BY <1>0, <2>1 DEF Counts, Increment, Many
  <2>3. pushing[s][i] + saving[s][i] <= MaxInFlight /\ pushing[s][i] \in Nat /\ saving[s][i] \in Nat
    BY <1>0 DEF WritesFit, InFlight
  <2>4. /\ pushing' \in [Server -> InFlight] /\ saving' \in [Server -> InFlight]
        /\ \A t \in Server, h \in ActionId :
             pushing'[t][h] + saving'[t][h] = pushing[t][h] + saving[t][h]
    BY <1>0, <2>1, <2>3 DEF InFlight
  <2>5. WritesFit'
    BY <1>0, <2>1, <2>4 DEF WritesFit
  <2>6. Grows
    BY <2>1, Stays DEF chainVars
  <2> QED
    BY <1>0, <2>1, <2>2, <2>4, <2>5, <2>6, JobsKeep DEF chainVars
<1>2. ASSUME Save(s, i) PROVE Typed'
  <2>1. /\ saving' = [saving EXCEPT ![s][i] = @ - 1] /\ saving[s][i] > 0 /\ active' = active \cup {i}
        /\ UNCHANGED <<chainVars, mempool, mirrored, mirroredEvents, known, pushed, pushing, storage, job, quiet>>
    BY <1>2 DEF Save
  <2>2. /\ saving' \in [Server -> InFlight]
        /\ \A t \in Server, h \in ActionId : saving'[t][h] <= saving[t][h] /\ saving'[t][h] \in Nat
                                             /\ saving[t][h] \in Nat /\ pushing[t][h] \in Nat
    BY <1>0, <2>1 DEF InFlight
  <2>3. WritesFit'
    BY <1>0, <2>1, <2>2 DEF WritesFit
  <2>a. i \in 1 .. mirrored
    BY <1>0, <2>1, <2>2 DEF WritesFit
  <2>4. Grows
    BY <1>0, <1>2, <2>1, <2>a, LocalFacts DEF Grows, chainVars, Typed, TypeOK
  <2> QED
    BY <1>0, <2>1, <2>2, <2>3, <2>4, JobsKeep DEF chainVars
<1> QED
  BY <1>1, <1>2

(* The steps of a job that change something else, too.                     *)
LEMMA JobChanges ==
  ASSUME Typed, Grows, NEW s \in Server, NEW l,
         IsLocal(l), LocalsOK(l), IsTrees(l.trees), OneKey(l),
         job' = [job EXCEPT ![s] = l],
         DOMAIN storage' = Server,
         \A t \in Server : IsTrees(storage'[t]) /\ TreesOK(storage'[t]),
         UNCHANGED <<log, events, mempool, pushed>>,
         pushing' \in [Server -> InFlight], saving' \in [Server -> InFlight],
         quiet' \in BOOLEAN, WritesFit'
  PROVE  Typed'
<1>1. /\ DOMAIN job' = Server /\ job'[s] = l
      /\ \A t \in Server : t # s => job'[t] = job[t]
  BY DEF Typed, TypeOK
<1>2. ASSUME NEW t \in Server PROVE LocalsOK(job[t])' /\ TreesOK(storage[t])'
  <2>1. PICK u : u = job'[t] /\ LocalsOK(u)
    BY <1>1 DEF Typed, TypeOK
  <2>2. PICK v : v = storage'[t] /\ TreesOK(v)
    OBVIOUS
  <2>3. LocalsOK(u)' /\ TreesOK(v)'
    BY <2>1, <2>2, LocalsKeep, TreesKeep
  <2>4. TreesOK(storage[t])'
    BY <2>2, <2>3
  <2> QED
    BY <2>1, <2>3, <2>4
<1>3. TypeOK'
  BY <1>1, <1>2 DEF Typed, TypeOK, Grows, Counts, InFlight, Key
<1>4. JobsOK'
  BY <1>1 DEF Typed, JobsOK, OneKey, Key
<1> QED
  BY <1>3, <1>4 DEF Typed, Grows

(* A tree is written where documents and counts say so.                    *)
LEMMA WithKeyIs ==
  ASSUME Typed, NEW t, TreesOK(t), IsTrees(t), NEW k \in known, NEW list \in Counts
  PROVE  /\ TreesOK(WithKey(t, k, list)) /\ IsTrees(WithKey(t, k, list))
         /\ DOMAIN WithKey(t, k, list).contribution \subseteq DOMAIN t.contribution \cup {k}
         /\ \A h \in DOMAIN WithKey(t, k, list).contribution :
              WithKey(t, k, list).contribution[h] \subseteq
                (IF h \in DOMAIN t.contribution THEN t.contribution[h] ELSE {})
                  \cup (IF h = k THEN InDocument(k, list) ELSE {})
<1> DEFINE ids == InDocument(k, list)
           Put(tree, leaf) == [h \in DOMAIN tree \cup {k} |-> IF h = k THEN leaf ELSE tree[h]]
           code == [i \in ActionId |-> IF i \in ids THEN list[i] ELSE 0]
           both == IF k \in DOMAIN t.contribution THEN t.contribution[k] \cup ids ELSE ids
<1>1. ids \subseteq DOMAIN log
  BY DEF InDocument, Of
<1>2. code \in Counts
  BY DEF Counts, Many
<1>3. CASE Round = 1
  <2>1. WithKey(t, k, list) = [t EXCEPT !.contribution = Put(t.contribution, ids)]
    BY <1>3 DEF WithKey
  <2>2. WithKey(t, k, list) = [contribution |-> Put(t.contribution, ids),
                               encryption |-> t.encryption, processed |-> t.processed]
    BY <2>1 DEF IsTrees
  <2> QED
    BY <1>1, <2>2 DEF TreesOK, IsTrees
<1>4. CASE Round # 1 /\ ids = {}
  <2>1. WithKey(t, k, list) = t
    BY <1>4 DEF WithKey
  <2> QED
    BY <2>1
<1>5. CASE Round # 1 /\ ids # {}
  <2>1. WithKey(t, k, list) = [t EXCEPT !.contribution = Put(t.contribution, both),
                                        !.encryption = Put(t.encryption, code)]
    BY <1>5 DEF WithKey
  <2>2. WithKey(t, k, list) = [contribution |-> Put(t.contribution, both),
                               encryption |-> Put(t.encryption, code), processed |-> t.processed]
    BY <2>1 DEF IsTrees
  <2> HIDE DEF code
  <2> QED
    BY <1>1, <1>2, <2>2 DEF TreesOK, IsTrees
<1> QED
  BY <1>3, <1>4, <1>5

LEMMA MoreProcessed ==
  ASSUME NEW t, IsTrees(t), NEW p
  PROVE  [t EXCEPT !.processed = p] =
           [contribution |-> t.contribution, encryption |-> t.encryption, processed |-> p]
<1>1. [t EXCEPT !.processed = p].processed = p
  BY Zenon DEF IsTrees
<1> QED
  BY <1>1 DEF IsTrees

LEMMA StepTypes ==
  ASSUME Typed, NEW s \in Server,
         (\E n \in 0 .. Len(events) : FetchEvents(s, n)) \/ Contribute(s) \/ Count(s)
           \/ FindActions(s) \/ Crash(s)
  PROVE  Typed'
<1> PICK l : l = job'[s]
  OBVIOUS
<1>0. /\ IsLocal(job[s]) /\ LocalsOK(job[s]) /\ IsTrees(job[s].trees) /\ OneKey(job[s])
      /\ s \in DOMAIN job
      /\ mirrored \in 0 .. Len(log) /\ mirroredEvents \in 0 .. Len(events)
      /\ Len(log) \in Nat /\ Len(events) \in Nat /\ quiet \in BOOLEAN
      /\ known \subseteq Key /\ Key \subseteq Nat /\ MaxActions \in Nat /\ Len(log) <= MaxActions
      /\ active \subseteq 1 .. mirrored
  BY LocalFacts
<1>a. /\ pushing \in [Server -> InFlight] /\ saving \in [Server -> InFlight] /\ WritesFit
      /\ MaxInFlight \in Nat /\ DOMAIN log = 1 .. Len(log)
      /\ DOMAIN storage = Server /\ \A t \in Server : IsTrees(storage[t]) /\ TreesOK(storage[t])
  BY RoundsAssumption DEF Typed, TypeOK, JobsOK
<1>1. ASSUME NEW n \in 0 .. Len(events), FetchEvents(s, n) PROVE Typed'
  <2>1. /\ job' = [job EXCEPT ![s] = [job[s] EXCEPT !.pc = "find"]]
        /\ mirroredEvents' = (IF n > mirroredEvents THEN n ELSE mirroredEvents)
        /\ UNCHANGED <<log, events, mempool, mirrored, known, pushed, active, pushing, saving, storage, quiet>>
    BY <1>1 DEF FetchEvents, Goto, chainVars, writeVars
  <2>2. /\ IsLocal(l) /\ l.pc = "find" /\ l.notActiveActions = job[s].notActiveActions
        /\ l.round = job[s].round /\ l.keys = job[s].keys /\ l.mapped = job[s].mapped
        /\ l.numRollupedActions = job[s].numRollupedActions /\ l.batch = job[s].batch
        /\ l.from = job[s].from /\ l.trees = job[s].trees
    BY <1>0, <2>1 DEF IsLocal
  <2>3. Grows
    BY <1>0, <1>a, <2>1 DEF Grows
  <2>4. LocalsOK(l) /\ OneKey(l) /\ IsTrees(l.trees)
    BY <1>0, <2>2 DEF LocalsOK, OneKey, PC
  <2>6. WritesFit'
    BY <1>0, <1>a, <2>1, <2>2 DEF WritesFit
  <2>7. \A t \in Server : IsTrees(storage'[t]) /\ TreesOK(storage'[t])
    BY <1>a, <2>1
  <2> QED
    BY <1>0, <1>a, <2>1, <2>2, <2>3, <2>4, <2>6, <2>7, JobChanges
<1>2. ASSUME Contribute(s) PROVE Typed'
  <2>1. PICK i \in Reached(job[s].notActiveActions) :
          /\ pushing' = [pushing EXCEPT ![s][i] = @ + 1]
          /\ job' = [job EXCEPT ![s] = [job[s] EXCEPT !.notActiveActions = @ \ {i}]]
    BY <1>2 DEF Contribute
  <2>2. /\ UNCHANGED <<log, events, mempool, mirrored, mirroredEvents, known, pushed, active, saving, storage, quiet>>
        /\ job[s].pc = "contribute"
    BY <1>2 DEF Contribute, chainVars
  <2>3. /\ IsLocal(l) /\ l.pc = job[s].pc /\ l.notActiveActions = job[s].notActiveActions \ {i}
        /\ l.round = job[s].round /\ l.keys = job[s].keys /\ l.mapped = job[s].mapped
        /\ l.numRollupedActions = job[s].numRollupedActions /\ l.batch = job[s].batch
        /\ l.from = job[s].from /\ l.trees = job[s].trees
    BY <1>0, <2>1 DEF IsLocal
  <2>4. Grows
    BY <2>2, Stays
  <2>5. LocalsOK(l) /\ OneKey(l) /\ IsTrees(l.trees)
    BY <1>0, <2>3 DEF LocalsOK, OneKey
  <2>7. i \in job[s].notActiveActions /\ i \in 1 .. mirrored /\ i \in ActionId
    BY <1>0, <2>1 DEF Reached, LocalsOK, ActionId
  <2>8. pushing[s][i] + saving[s][i] < MaxInFlight /\ pushing[s][i] \in Nat /\ saving[s][i] \in Nat
    BY <1>a, <2>2, <2>7 DEF WritesFit, InFlight
  <2>9. pushing' \in [Server -> InFlight]
    BY <1>a, <2>1, <2>7, <2>8 DEF InFlight
  <2>b. \A t \in Server, h \in ActionId :
             pushing'[t][h] = IF t = s /\ h = i THEN pushing[t][h] + 1 ELSE pushing[t][h]
    BY <1>a, <2>1, <2>7, <2>8 DEF InFlight
  <2>10. \A t \in Server : t # s => job'[t] = job[t]
    BY <2>1
  <2>11. WritesFit'
    <3> SUFFICES ASSUME NEW t \in Server, NEW h \in ActionId
                 PROVE  /\ pushing'[t][h] + saving[t][h] <= MaxInFlight
                        /\ job'[t].pc = "contribute" /\ h \in job'[t].notActiveActions =>
                             pushing'[t][h] + saving[t][h] < MaxInFlight
                        /\ pushing'[t][h] + saving[t][h] > 0 => h \in 1 .. mirrored
      BY <2>2 DEF WritesFit
    <3>1. pushing[t][h] \in Nat /\ saving[t][h] \in Nat
      BY <1>a DEF InFlight
    <3>2. CASE t = s /\ h = i
      BY <1>a, <2>3, <2>7, <2>8, <2>b, <3>1, <3>2
    <3>3. CASE t = s /\ h # i
      BY <1>a, <2>2, <2>3, <2>b, <3>1, <3>3 DEF WritesFit
    <3>4. CASE t # s
      BY <1>a, <2>b, <2>10, <3>1, <3>4 DEF WritesFit
    <3> QED
      BY <3>2, <3>3, <3>4
  <2>12. \A t \in Server : IsTrees(storage'[t]) /\ TreesOK(storage'[t])
    BY <1>a, <2>2
  <2>13. job' = [job EXCEPT ![s] = l]
    BY <1>0, <2>1
  <2> QED
    BY <1>0, <1>a, <2>2, <2>3, <2>4, <2>5, <2>9, <2>11, <2>12, <2>13, JobChanges
<1>3. ASSUME Count(s) PROVE Typed'
  <2> DEFINE k == First(job[s].keys)
  <2>1. /\ job' = [job EXCEPT ![s] = [job[s] EXCEPT !.keys = @ \ {k}]]
        /\ job[s].pc = "count" /\ job[s].keys # {}
        /\ storage' = IF AllContributed(k) THEN [storage EXCEPT ![s] = WithKey(@, k, job[s].round)]
                      ELSE storage
        /\ UNCHANGED <<log, events, mempool, mirrored, mirroredEvents, known, pushed, active, pushing, saving, quiet>>
    BY <1>3 DEF Count, chainVars, writeVars
  <2>2. k \in known
    BY <1>0, <2>1, FirstIs DEF LocalsOK
  <2> HIDE DEF k
  <2>3. /\ IsLocal(l) /\ l.pc = "count" /\ l.notActiveActions = job[s].notActiveActions
        /\ l.round = job[s].round /\ l.keys = job[s].keys \ {k} /\ l.mapped = job[s].mapped
        /\ l.numRollupedActions = job[s].numRollupedActions /\ l.batch = job[s].batch
        /\ l.from = job[s].from /\ l.trees = job[s].trees
    BY <1>0, <2>1 DEF IsLocal
  <2>4. Grows
    BY <2>1, Stays
  <2>5. LocalsOK(l) /\ OneKey(l) /\ IsTrees(l.trees)
    BY <1>0, <2>3 DEF LocalsOK, OneKey, PC
  <2>7. IsTrees(WithKey(storage[s], k, job[s].round)) /\ TreesOK(WithKey(storage[s], k, job[s].round))
    BY <1>0, <1>a, <2>2, WithKeyIs DEF LocalsOK
  <2>8. DOMAIN storage' = Server /\ \A t \in Server : IsTrees(storage'[t]) /\ TreesOK(storage'[t])
    BY <1>a, <2>1, <2>7
  <2>10. \A t \in Server : t # s => job'[t] = job[t]
    BY <2>1
  <2>11. WritesFit'
    BY <1>a, <2>1, <2>3, <2>10 DEF WritesFit
  <2>12. job' = [job EXCEPT ![s] = l]
    BY <1>0, <2>1
  <2> QED
    BY <1>0, <1>a, <2>1, <2>3, <2>4, <2>5, <2>8, <2>11, <2>12, JobChanges
<1>4. ASSUME FindActions(s) PROVE Typed'
  <2> DEFINE t0 == [storage[s] EXCEPT !.processed = @ \cup Processed(job[s].mapped)]
  <2>1. /\ job' = [job EXCEPT ![s] = [job[s] EXCEPT !.pc = "updated", !.mapped = 0]]
        /\ storage' = [storage EXCEPT ![s] = t0]
        /\ UNCHANGED <<log, events, mempool, mirrored, mirroredEvents, known, pushed, active, pushing, saving, quiet>>
    BY <1>4 DEF FindActions, chainVars, writeVars
  <2>2. /\ IsLocal(l) /\ l.pc = "updated" /\ l.notActiveActions = job[s].notActiveActions
        /\ l.round = job[s].round /\ l.keys = job[s].keys /\ l.mapped = 0
        /\ l.numRollupedActions = job[s].numRollupedActions /\ l.batch = job[s].batch
        /\ l.from = job[s].from /\ l.trees = job[s].trees
    BY <1>0, <2>1 DEF IsLocal
  <2>a. PICK v : v = storage[s] /\ IsTrees(v)
    BY <1>a
  <2>3. t0 = [contribution |-> storage[s].contribution, encryption |-> storage[s].encryption,
              processed |-> storage[s].processed \cup Processed(job[s].mapped)]
    <3>1. [v EXCEPT !.processed = @ \cup Processed(job[s].mapped)] =
            [contribution |-> v.contribution, encryption |-> v.encryption,
             processed |-> v.processed \cup Processed(job[s].mapped)]
      BY <2>a, MoreProcessed
    <3> QED
      BY <2>a, <3>1
  <2>4. IsTrees(t0) /\ TreesOK(t0)
    BY <1>a, <2>3 DEF IsTrees, TreesOK, Processed
  <2>5. Grows
    BY <2>1, Stays
  <2> HIDE DEF t0
  <2>6. DOMAIN storage' = Server /\ \A t \in Server : IsTrees(storage'[t]) /\ TreesOK(storage'[t])
    BY <1>a, <2>1, <2>4
  <2>8. LocalsOK(l) /\ OneKey(l) /\ IsTrees(l.trees)
    BY <1>0, <2>2 DEF LocalsOK, OneKey, PC
  <2>10. WritesFit'
    BY <1>a, <2>1, <2>2 DEF WritesFit
  <2>11. job' = [job EXCEPT ![s] = l]
    BY <1>0, <2>1
  <2> QED
    BY <1>0, <1>a, <2>1, <2>2, <2>5, <2>6, <2>8, <2>10, <2>11, JobChanges
<1>5. ASSUME Crash(s) PROVE Typed'
  <2>1. /\ pushing' = [pushing EXCEPT ![s] = None] /\ saving' = [saving EXCEPT ![s] = None]
        /\ storage' = [storage EXCEPT ![s] = EmptyTrees] /\ job' = [job EXCEPT ![s] = Idle]
        /\ UNCHANGED <<log, events, mempool, mirrored, mirroredEvents, known, pushed, active>>
        /\ quiet' \in BOOLEAN
    BY <1>0, <1>5 DEF Crash, chainVars
  <2>2. IsLocal(Idle) /\ LocalsOK(Idle) /\ IsTrees(Idle.trees) /\ OneKey(Idle) /\ Idle.pc = "idle"
    BY <1>0, IdleIs
  <2>3. Grows
    BY <2>1, Stays
  <2>4. None \in InFlight /\ \A h \in ActionId : None[h] = 0
    BY <1>a DEF None, InFlight
  <2>5. DOMAIN storage' = Server /\ \A t \in Server : IsTrees(storage'[t]) /\ TreesOK(storage'[t])
    BY <1>a, <2>1, EmptyIs
  <2>8. pushing' \in [Server -> InFlight] /\ saving' \in [Server -> InFlight]
    BY <1>a, <2>1, <2>4
  <2>9. WritesFit'
    BY <1>0, <1>a, <2>1, <2>2, <2>4 DEF WritesFit
  <2> QED
    BY <2>1, <2>2, <2>3, <2>5, <2>8, <2>9, JobChanges
<1> QED
  BY <1>1, <1>2, <1>3, <1>4, <1>5

(* The steps of the roll-ups.                                              *)
LEMMA RollupTypes ==
  ASSUME Typed, NEW s \in Server, Rollup(s) \/ RollupThrows(s)
  PROVE  Typed'
<1> DEFINE l == job'[s]
<1>0. /\ IsLocal(job[s]) /\ LocalsOK(job[s]) /\ IsTrees(job[s].trees) /\ OneKey(job[s])
      /\ s \in DOMAIN job
      /\ mirrored \in 0 .. Len(log) /\ mirroredEvents \in 0 .. Len(events)
      /\ Len(log) \in Nat /\ Len(events) \in Nat /\ quiet \in BOOLEAN
      /\ known \subseteq Key /\ Key \subseteq Nat /\ IsTrees(storage[s]) /\ TreesOK(storage[s])
  BY LocalFacts
<1>1. ASSUME NEW num \in 0 .. Len(log), FindRolled(s, num) PROVE Typed'
  <2>1. job' = [job EXCEPT ![s] = [job[s] EXCEPT !.pc = "findStatus", !.numRollupedActions = num]]
    BY <1>1 DEF FindRolled
  <2>2. /\ IsLocal(l) /\ l.pc = "findStatus" /\ l.notActiveActions = job[s].notActiveActions
        /\ l.round = job[s].round /\ l.keys = job[s].keys /\ l.mapped = job[s].mapped
        /\ l.numRollupedActions = num /\ l.batch = job[s].batch
        /\ l.from = job[s].from /\ l.trees = job[s].trees
    BY <1>0, <1>1, <2>1 DEF IsLocal
  <2>3. LocalsOK(l) /\ OneKey(l) /\ ListFits(s, l)
    BY <1>0, <2>2 DEF LocalsOK, OneKey, PC, ListFits
  <2> QED
    BY <1>0, <1>1, <2>1, <2>2, <2>3, JobOnly DEF FindRolled, others
<1>2. ASSUME NEW keys \in SUBSET known, FindStatus(s, keys) PROVE Typed'
  <2>1. job' = [job EXCEPT ![s] = [job[s] EXCEPT !.pc = "findBatch", !.keys = keys]]
    BY <1>2 DEF FindStatus
  <2>2. /\ IsLocal(l) /\ l.pc = "findBatch" /\ l.notActiveActions = job[s].notActiveActions
        /\ l.round = job[s].round /\ l.keys = keys /\ l.mapped = job[s].mapped
        /\ l.numRollupedActions = job[s].numRollupedActions /\ l.batch = job[s].batch
        /\ l.from = job[s].from /\ l.trees = job[s].trees
    BY <1>0, <1>2, <2>1 DEF IsLocal
  <2>3. LocalsOK(l) /\ OneKey(l) /\ ListFits(s, l)
    BY <1>0, <2>2 DEF LocalsOK, OneKey, PC, ListFits
  <2> QED
    BY <1>0, <1>2, <2>1, <2>2, <2>3, JobOnly DEF FindStatus, others
<1>3. ASSUME FindBatch(s) PROVE Typed'
  <2> DEFINE k == First(job[s].keys)
             ids == Batch(k, job[s].numRollupedActions)
  <2>0. k \in known /\ k \in Key
    BY <1>0, <1>3, FirstIs DEF FindBatch, LocalsOK
  <2>a. ids \subseteq 1 .. mirrored
    BY DEF Batch, Latest, Pending, Of, NotActive
  <2>1. job' = [job EXCEPT ![s] = [job[s] EXCEPT !.pc = "fetchState", !.keys = {k}, !.batch = ids]]
    BY <1>3 DEF FindBatch
  <2> HIDE DEF k, ids
  <2>2. /\ IsLocal(l) /\ l.pc = "fetchState" /\ l.notActiveActions = job[s].notActiveActions
        /\ l.round = job[s].round /\ l.keys = {k} /\ l.mapped = job[s].mapped
        /\ l.numRollupedActions = job[s].numRollupedActions /\ l.batch = ids
        /\ l.from = job[s].from /\ l.trees = job[s].trees
    BY <1>0, <2>1 DEF IsLocal
  <2>3. LocalsOK(l) /\ OneKey(l) /\ ListFits(s, l)
    BY <1>0, <2>0, <2>a, <2>2 DEF LocalsOK, OneKey, PC, ListFits
  <2> QED
    BY <1>0, <1>3, <2>1, <2>2, <2>3, JobOnly DEF FindBatch, others
<1>4. ASSUME SkipKey(s) PROVE Typed'
  <2>1. job' = [job EXCEPT ![s] = [job[s] EXCEPT !.keys = NextKeys(job[s].keys)]]
    BY <1>4 DEF SkipKey
  <2>2. /\ IsLocal(l) /\ l.pc = job[s].pc /\ l.notActiveActions = job[s].notActiveActions
        /\ l.round = job[s].round /\ l.keys = NextKeys(job[s].keys) /\ l.mapped = job[s].mapped
        /\ l.numRollupedActions = job[s].numRollupedActions /\ l.batch = job[s].batch
        /\ l.from = job[s].from /\ l.trees = job[s].trees /\ l.pc = "findBatch"
    BY <1>0, <1>4, <2>1 DEF IsLocal, SkipKey
  <2>3. LocalsOK(l) /\ OneKey(l) /\ ListFits(s, l)
    BY <1>0, <2>2 DEF LocalsOK, OneKey, PC, ListFits, NextKeys
  <2> QED
    BY <1>0, <1>4, <2>1, <2>2, <2>3, JobOnly DEF SkipKey, others
<1>5. ASSUME NEW n \in 0 .. Len(events), FetchState(s, n) PROVE Typed'
  <2>1. job' = [job EXCEPT ![s] = [job[s] EXCEPT !.pc = "prove", !.from = n, !.trees = storage[s]]]
    BY <1>5 DEF FetchState
  <2>2. /\ IsLocal(l) /\ l.pc = "prove" /\ l.notActiveActions = job[s].notActiveActions
        /\ l.round = job[s].round /\ l.keys = job[s].keys /\ l.mapped = job[s].mapped
        /\ l.numRollupedActions = job[s].numRollupedActions /\ l.batch = job[s].batch
        /\ l.from = n /\ l.trees = storage[s]
    BY <1>0, <1>5, <2>1 DEF IsLocal
  <2>3. LocalsOK(l) /\ OneKey(l) /\ ListFits(s, l)
    BY <1>0, <1>5, <2>2 DEF LocalsOK, OneKey, PC, ListFits, FetchState
  <2> QED
    BY <1>0, <1>5, <2>1, <2>2, <2>3, JobOnly DEF FetchState, others
<1>6. ASSUME Prove(s) PROVE Typed'
  <2>1. job' = [job EXCEPT ![s] = [job[s] EXCEPT !.pc = "send", !.trees = EmptyTrees]]
    BY <1>6 DEF Prove
  <2>2. /\ IsLocal(l) /\ l.pc = "send" /\ l.notActiveActions = job[s].notActiveActions
        /\ l.round = job[s].round /\ l.keys = job[s].keys /\ l.mapped = job[s].mapped
        /\ l.numRollupedActions = job[s].numRollupedActions /\ l.batch = job[s].batch
        /\ l.from = job[s].from /\ l.trees = EmptyTrees
    BY <1>0, <1>6, <2>1 DEF IsLocal
  <2>3. LocalsOK(l) /\ OneKey(l) /\ ListFits(s, l) /\ IsTrees(l.trees)
    BY <1>0, <1>6, <2>2, EmptyIs DEF LocalsOK, OneKey, PC, ListFits, Prove
  <2> QED
    BY <1>0, <1>6, <2>1, <2>2, <2>3, JobOnly DEF Prove, others
<1>7. ASSUME Send(s) PROVE Typed'
  <2>1. /\ job' = [job EXCEPT ![s] = Idle]
        /\ UNCHANGED <<log, events, mirrored, mirroredEvents, known, pushed, active, pushing, saving,
                       storage, quiet>>
        /\ mempool' = mempool \/ mempool' = {[key |-> First(job[s].keys), actions |-> job[s].batch,
                                            from |-> job[s].from]}
    BY <1>7 DEF Send, chainVars, writeVars
  <2>2. PICK k \in Key : job[s].keys = {k}
    BY <1>0, <1>7 DEF OneKey, Send
  <2>3. First(job[s].keys) \in Key /\ job[s].batch \subseteq DOMAIN log /\ job[s].from \in 0 .. Len(events)
    <3>1. First(job[s].keys) = k
      BY <1>0, <2>2, FirstOfOne
    <3>2. DOMAIN log = 1 .. Len(log)
      BY DEF Typed, TypeOK
    <3> QED
      BY <1>0, <2>2, <3>1, <3>2 DEF LocalsOK
  <2>4. \A tx \in mempool' : /\ tx.key \in Key /\ tx.actions \subseteq DOMAIN log
                             /\ tx.from \in 0 .. Len(events)
    BY <2>1, <2>3 DEF Typed, TypeOK
  <2>5. IsLocal(Idle) /\ LocalsOK(Idle) /\ IsTrees(Idle.trees) /\ OneKey(Idle) /\ Idle.pc = "idle"
    BY <1>0, IdleIs
  <2>6. /\ DOMAIN job' = Server /\ job'[s] = Idle
        /\ \A t \in Server : t # s => job'[t] = job[t]
    BY <2>1 DEF Typed, TypeOK
  <2>7. ASSUME NEW t \in Server PROVE LocalsOK(job[t])' /\ TreesOK(storage[t])'
    <3>1. Grows
      BY <2>1, Stays
    <3>2. PICK u : u = job'[t] /\ LocalsOK(u)
      BY <2>5, <2>6 DEF Typed, TypeOK
    <3>3. LocalsOK(u)' /\ TreesOK(storage[t])'
      BY <2>1, <3>1, <3>2, LocalsKeep, TreesKeep DEF Typed, TypeOK
    <3> QED
      BY <3>2, <3>3
  <2>8. TypeOK'
    BY <2>1, <2>4, <2>6, <2>7 DEF Typed, TypeOK, Counts, InFlight, Key
  <2>9. JobsOK'
    BY <2>1, <2>5, <2>6 DEF Typed, JobsOK, OneKey, Key
  <2>10. WritesFit'
    BY <2>1, <2>5, <2>6 DEF Typed, WritesFit
  <2> QED
    BY <2>1, <2>8, <2>9, <2>10 DEF Typed
<1>8. ASSUME NoMoreKeys(s) \/ ProveFails(s) \/ RollupThrows(s) PROVE Typed'
  BY <1>8, JobEnds DEF NoMoreKeys, ProveFails, RollupThrows, others
<1> QED
  BY <1>1, <1>2, <1>3, <1>4, <1>5, <1>6, <1>7, <1>8 DEF Rollup

LEMMA TypeStep ==
  ASSUME Typed, [Next]_vars
  PROVE  Typed'
<1>1. CASE ChainStep
  BY <1>1, ChainTypes
<1>2. ASSUME NEW s \in Server, Update(s) \/ Rollup(s) \/ Skip(s) \/ Write(s) \/ Fail(s) PROVE Typed'
  <2>1. CASE Update(s)
    BY <2>1, PassTypes, StepTypes DEF Update
  <2>2. CASE Rollup(s)
    BY <2>2, RollupTypes
  <2>3. CASE Write(s)
    BY <2>3, WriteTypes DEF Write
  <2>4. CASE Fail(s)
    BY <2>4, PassTypes, StepTypes, RollupTypes DEF Fail
  <2> QED
    BY <1>2, <2>1, <2>2, <2>3, <2>4, PassTypes
<1>3. CASE UNCHANGED vars
  <2>1. UNCHANGED <<log, events, mempool, mirrored, mirroredEvents, known, pushed, active,
                    pushing, saving, storage, job, quiet>>
    BY <1>3 DEF vars, chainVars, writeVars
  <2>2. Grows
    BY <2>1, Stays
  <2>3. WritesFit'
    BY <2>1 DEF Typed, WritesFit
  <2> QED
    BY <2>1, <2>2, <2>3, JobsKeep DEF Typed, TypeOK
<1> QED
  BY <1>1, <1>2, <1>3 DEF Next

(* Every variable keeps its type, for any number of servers.               *)
THEOREM TypeCorrect == Spec => []TypeOK
<1>1. Typed => TypeOK
  BY DEF Typed
<1> QED
  BY InitTyped, TypeStep, <1>1, PTL DEF Spec

-----------------------------------------------------------------------------
\* What was dispatched and finalized stays so.
Extends ==
  /\ Grows
  /\ DOMAIN log \subseteq DOMAIN log' /\ \A i \in DOMAIN log : log'[i] = log[i]
  /\ \A e \in 1 .. Len(events) : events'[e] = events[e]

LEMMA StepExtends ==
  ASSUME Typed, [Next]_vars
  PROVE  Extends
<1>0. /\ log \in Seq([key : Key, member : Member])
      /\ events \in Seq([key : Key, actions : SUBSET DOMAIN log])
      /\ mirrored \in 0 .. Len(log) /\ mirroredEvents \in 0 .. Len(events)
      /\ active \subseteq 1 .. mirrored /\ known \subseteq Key
      /\ Len(log) \in Nat /\ Len(events) \in Nat /\ MaxActions \in Nat /\ Len(log) <= MaxActions
      /\ DOMAIN log = 1 .. Len(log)
  BY LocalFacts, RoundsAssumption DEF Typed, TypeOK
<1>1. ASSUME UNCHANGED <<log, events, mirrored, mirroredEvents, known, active>> PROVE Extends
  BY <1>1, Stays DEF Extends
<1>2. ASSUME NEW k \in Key, NEW m \in Member, Dispatch(k, m) PROVE Extends
  <2>1. /\ log' = Append(log, [key |-> k, member |-> m]) /\ Len(log) < MaxActions
        /\ UNCHANGED <<events, mirrored, mirroredEvents, known, active>>
    BY <1>2 DEF Dispatch, writeVars
  <2>2. /\ Len(log') = Len(log) + 1 /\ DOMAIN log' = 1 .. Len(log')
        /\ \A i \in DOMAIN log : log'[i] = log[i]
    BY <1>0, <2>1
  <2> QED
    BY <1>0, <2>1, <2>2 DEF Extends, Grows
<1>3. ASSUME NEW e, events' = Append(events, e),
             UNCHANGED <<log, mirrored, mirroredEvents, known, active>>
      PROVE Extends
  <2>1. Len(events') = Len(events) + 1 /\ \A f \in 1 .. Len(events) : events'[f] = events[f]
    BY <1>0, <1>3
  <2> QED
    BY <1>0, <1>3, <2>1 DEF Extends, Grows
<1>4. CASE ChainStep
  <2>1. ASSUME NEW tx \in mempool, Include(tx) PROVE Extends
    BY <1>1, <1>3, <2>1 DEF Include, writeVars
  <2>2. ASSUME NEW k \in Key, NEW ids \in SUBSET DOMAIN log, FinalizeElsewhere(k, ids) PROVE Extends
    BY <1>3, <2>2 DEF FinalizeElsewhere, writeVars
  <2>3. ASSUME Record PROVE Extends
    BY <1>0, <2>3 DEF Record, Extends, Grows, chainVars, writeVars
  <2>4. ASSUME NEW k \in Key, CreateKey(k) PROVE Extends
    BY <1>0, <2>4 DEF CreateKey, Extends, Grows, chainVars, writeVars
  <2> QED
    BY <1>2, <1>4, <2>1, <2>2, <2>3, <2>4 DEF ChainStep
<1>5. ASSUME NEW s \in Server, NEW n \in 0 .. Len(events), FetchEvents(s, n) PROVE Extends
  <2>1. mirroredEvents' = (IF n > mirroredEvents THEN n ELSE mirroredEvents) /\ UNCHANGED <<log, events, mirrored, known, active>>
    BY <1>5 DEF FetchEvents, chainVars, writeVars
  <2> QED
    BY <1>0, <2>1 DEF Extends, Grows
<1>6. ASSUME NEW s \in Server, NEW i \in ActionId, Save(s, i) PROVE Extends
  <2>1. active' = active \cup {i} /\ UNCHANGED <<log, events, mirrored, mirroredEvents, known>>
    BY <1>6 DEF Save, chainVars
  <2>2. active' \subseteq 1 .. mirrored'
    BY TypeStep DEF Typed, TypeOK
  <2> QED
    BY <1>0, <2>1, <2>2 DEF Extends, Grows
<1>7. ASSUME NEW s \in Server, Update(s) PROVE Extends
  BY <1>1, <1>5, <1>7 DEF Update, Find, Contribute, ContributeDone, KeyNotFound, Retry, FindKeys, Count,
     CountDone, FindEvents, FindActions, chainVars, writeVars
<1>8. ASSUME NEW s \in Server, Rollup(s) \/ Skip(s) PROVE Extends
  BY <1>1, <1>8 DEF Rollup, FindRolled, FindStatus, FindBatch, SkipKey, NoMoreKeys, FetchState, Prove,
     ProveFails, Send, Skip, chainVars, writeVars
<1>9. ASSUME NEW s \in Server, Fail(s) PROVE Extends
  BY <1>1, <1>9 DEF Fail, FetchThrows, Retry, UpdateThrows, RollupThrows, Crash, chainVars, writeVars
<1>10. ASSUME NEW s \in Server, Write(s) PROVE Extends
  BY <1>1, <1>6, <1>10 DEF Write, Push, chainVars
<1>11. ASSUME UNCHANGED vars PROVE Extends
  BY <1>1, <1>11 DEF vars, chainVars, writeVars
<1> QED
  BY <1>4, <1>7, <1>8, <1>9, <1>10, <1>11 DEF Next

(* What the first events finalize and name is not changed by later ones.   *)
LEMMA NamesKeep ==
  ASSUME Typed, Extends, NEW n \in 0 .. Len(events)
  PROVE  Named(n)' = Named(n) /\ Finalized(n)' = Finalized(n)
<1>1. 1 .. n \subseteq 1 .. Len(events)
  BY LocalFacts, RoundsAssumption DEF Typed, TypeOK
<1> QED
  BY <1>1 DEF Extends, Named, Finalized

LEMMA NamesGrow ==
  ASSUME Typed, Extends
  PROVE  /\ Named(Len(events)) \subseteq Named(Len(events))'
         /\ Finalized(Len(events)) \subseteq Finalized(Len(events))'
         /\ Named(mirroredEvents) \subseteq Named(mirroredEvents)'
<1>1. Len(events) \in Nat /\ mirroredEvents \in 0 .. Len(events)
  BY DEF Typed, TypeOK
<1>2. 1 .. Len(events) \subseteq 1 .. Len(events') /\ 1 .. mirroredEvents \subseteq 1 .. mirroredEvents'
  BY <1>1 DEF Extends, Grows
<1>3. \A e \in 1 .. mirroredEvents : events'[e] = events[e]
  BY <1>1 DEF Extends
<1> QED
  BY <1>1, <1>2, <1>3 DEF Extends, Named, Finalized

(* The recorded events name nothing that the contract's do not.            *)
LEMMA NamedRecorded ==
  ASSUME Typed
  PROVE  Named(mirroredEvents) \subseteq Named(Len(events))
<1>1. 1 .. mirroredEvents \subseteq 1 .. Len(events)
  BY LocalFacts DEF Typed, TypeOK
<1> QED
  BY <1>1 DEF Named

-----------------------------------------------------------------------------
\* An event names one contribution of each member to its key, which no other
\* event finalizes.
EventsRight ==
  /\ \A e \in 1 .. Len(events) : /\ events[e].actions \subseteq Of(events[e].key, DOMAIN log)
                                 /\ Complete(events[e].actions)
  /\ \A e, f \in 1 .. Len(events) : events[e].key = events[f].key => e = f

\* A proof that fits: what the contract has taken before it is active.
ProofRight(k, ids, n) ==
  /\ k \notin Finalized(n)
  /\ ids \subseteq Of(k, DOMAIN log) /\ Complete(ids)
  /\ Named(n) \subseteq active

ProofsRight == \A tx \in mempool : ProofRight(tx.key, tx.actions, tx.from)

\* What a pass still has to contribute follows only actions that have an event.
ListRight(l) ==
  l.pc = "contribute" =>
    \A i \in l.notActiveActions : \A h \in 1 .. i : h \in l.notActiveActions \/ EventExists(h)

JobRight(l) ==
  /\ l.pc = "send" => ProofRight(First(l.keys), l.batch, l.from)
  /\ l.pc \in {"fetchState", "prove"} => l.batch \subseteq Of(First(l.keys), DOMAIN log)
  /\ ListRight(l)
  /\ l.pc = "count" => \A i \in ActionId : l.round[i] > 0 => i \in Named(Len(events))

TreeRight(t) ==
  \A k \in DOMAIN t.contribution :
    k \in Finalized(Len(events)) /\ t.contribution[k] \subseteq Of(k, Named(Len(events)))

\* Nothing is written for an action unless it and all before it have an event.
WritesRight ==
  /\ \A s \in Server, i \in ActionId :
       /\ pushing[s][i] + saving[s][i] > 0 => 1 .. i \subseteq Named(mirroredEvents)
       /\ saving[s][i] > 0 => pushed[i] >= 1
  /\ \A i \in ActionId : pushed[i] > 0 => i \in Named(mirroredEvents)
  /\ NoneOvertakes /\ ActiveHasContribution

JobsRight == \A s \in Server : JobRight(job[s]) /\ TreeRight(storage[s])

Right == Typed /\ EventsRight /\ ProofsRight /\ JobsRight /\ WritesRight

(* All of these stay right when the chain, the feed and the keys grow.     *)
LEMMA OfKeeps ==
  ASSUME Typed, Extends, NEW k, NEW ids, ids \subseteq Of(k, DOMAIN log)
  PROVE  ids \subseteq Of(k, DOMAIN log)' /\ (Complete(ids) => Complete(ids)')
<1>1. \A i \in ids : i \in DOMAIN log /\ log'[i] = log[i] /\ i \in DOMAIN log'
  BY DEF Of, Extends
<1>2. ids \subseteq Of(k, DOMAIN log)'
  BY <1>1 DEF Of
<1>3. {log'[i].member : i \in ids} = {log[i].member : i \in ids}
  BY <1>1
<1> QED
  BY <1>2, <1>3 DEF Complete, numberOfMembers

LEMMA ProofKeeps ==
  ASSUME Typed, Extends, NEW k, NEW ids, NEW n \in 0 .. Len(events), ProofRight(k, ids, n)
  PROVE  ProofRight(k, ids, n)'
<1>1. ids \subseteq Of(k, DOMAIN log)' /\ Complete(ids)'
  BY OfKeeps DEF ProofRight
<1>2. Named(n)' = Named(n) /\ Finalized(n)' = Finalized(n)
  BY NamesKeep
<1>3. active \subseteq active'
  BY DEF Extends, Grows
<1> QED
  BY <1>1, <1>2, <1>3 DEF ProofRight

LEMMA JobKeeps ==
  ASSUME Typed, Extends, NEW l, l.from \in 0 .. Len(events), JobRight(l)
  PROVE  JobRight(l)'
<1>1. l.pc = "send" => ProofRight(First(l.keys), l.batch, l.from)'
  BY ProofKeeps DEF JobRight
<1>2. First(l.keys)' = First(l.keys)
  BY DEF First
<1>3. l.pc \in {"fetchState", "prove"} => l.batch \subseteq Of(First(l.keys), DOMAIN log)'
  BY OfKeeps DEF JobRight
<1>4. ListRight(l)'
  BY NamesGrow DEF JobRight, ListRight, EventExists
<1> QED
  BY <1>1, <1>2, <1>3, <1>4, NamesGrow DEF JobRight

LEMMA TreeKeeps ==
  ASSUME Typed, Extends, EventsRight, NEW t, TreeRight(t)
  PROVE  TreeRight(t)'
<1>1. Named(Len(events)) \subseteq DOMAIN log
  BY DEF EventsRight, Named, Of
<1>2. \A k : Of(k, Named(Len(events))) \subseteq Of(k, Named(Len(events)))'
  BY <1>1, NamesGrow DEF Of, Extends
<1> QED
  BY <1>2, NamesGrow DEF TreeRight

LEMMA EventsKeep ==
  ASSUME Typed, Extends, EventsRight, events' = events
  PROVE  EventsRight'
<1>1. ASSUME NEW e \in 1 .. Len(events)
      PROVE  /\ events[e].actions \subseteq Of(events[e].key, DOMAIN log)'
             /\ Complete(events[e].actions)'
  BY OfKeeps DEF EventsRight
<1> QED
  BY <1>1 DEF EventsRight, Of, Complete

LEMMA ProofsKeep ==
  ASSUME Typed, Extends, ProofsRight, mempool' \subseteq mempool
  PROVE  ProofsRight'
<1>1. ASSUME NEW tx \in mempool PROVE ProofRight(tx.key, tx.actions, tx.from)'
  BY ProofKeeps DEF Typed, TypeOK, ProofsRight
<1> QED
  BY <1>1 DEF ProofsRight

LEMMA WritesKeep ==
  ASSUME Typed, Extends, WritesRight, UNCHANGED writeVars
  PROVE  WritesRight'
BY NamesGrow DEF WritesRight, NoneOvertakes, ActiveHasContribution, writeVars

(* A step of one job leaves all the others right.                          *)
LEMMA JobsStayRight ==
  ASSUME Typed, Extends, EventsRight, JobsRight, NEW s \in Server, NEW l,
         job' = [job EXCEPT ![s] = l], l.from \in 0 .. Len(events), JobRight(l),
         \A t \in Server : TreeRight(storage'[t])
  PROVE  JobsRight'
<1> SUFFICES ASSUME NEW r \in Server PROVE JobRight(job[r])' /\ TreeRight(storage[r])'
  BY DEF JobsRight
<1>1. PICK m : m = job'[r] /\ m.from \in 0 .. Len(events) /\ JobRight(m)
  BY DEF JobsRight, Typed, TypeOK, LocalsOK
<1>2. PICK u : u = storage'[r] /\ TreeRight(u)
  BY DEF JobsRight, Typed, TypeOK
<1>3. JobRight(m)' /\ TreeRight(u)'
  BY <1>1, <1>2, JobKeeps, TreeKeeps
<1>4. JobRight(job[r])'
  BY <1>1, <1>3
<1>5. TreeRight(storage[r])'
  BY <1>2, <1>3
<1> QED
  BY <1>4, <1>5

-----------------------------------------------------------------------------
LEMMA InitRight == Init => Right
<1> SUFFICES ASSUME Init PROVE Right
  OBVIOUS
<1>0. /\ log = <<>> /\ events = <<>> /\ mempool = {} /\ pushed = None /\ active = {}
      /\ pushing = [s \in Server |-> None] /\ saving = [s \in Server |-> None]
      /\ storage = [s \in Server |-> EmptyTrees] /\ job = [s \in Server |-> Idle]
  BY DEF Init
<1>1. \A i \in ActionId : None[i] = 0
  BY DEF None
<1>2. Len(events) = 0 /\ 1 .. Len(events) = {}
  BY <1>0
<1>3. EventsRight
  BY <1>2 DEF EventsRight
<1>4. JobsRight
  BY <1>0, EmptyIs DEF JobsRight, JobRight, ListRight, TreeRight, Idle
<1>5. WritesRight
  BY <1>0, <1>1 DEF WritesRight, NoneOvertakes, ActiveHasContribution
<1> QED
  BY <1>0, <1>3, <1>4, <1>5, InitTyped DEF Right, ProofsRight

(* A step that touches none of the writes, and no event.                   *)
LEMMA StaysRight ==
  ASSUME Right, [Next]_vars, UNCHANGED <<events, writeVars>>, mempool' \subseteq mempool,
         NEW s \in Server, NEW l, job' = [job EXCEPT ![s] = l],
         JobRight(l), \A t \in Server : TreeRight(storage'[t])
  PROVE  Right'
<1>1. Typed /\ EventsRight /\ ProofsRight /\ JobsRight /\ WritesRight
  BY DEF Right
<1>2. Typed' /\ Extends
  BY <1>1, TypeStep, StepExtends
<1>3. l.from \in 0 .. Len(events)
  <2>1. LocalsOK(job[s])' /\ job'[s] = l
    BY <1>1, <1>2 DEF Typed, TypeOK
  <2> QED
    BY <2>1 DEF LocalsOK
<1> QED
  BY <1>1, <1>2, <1>3, EventsKeep, ProofsKeep, WritesKeep, JobsStayRight DEF Right

(* Steps that touch no job and no tree.                                    *)
LEMMA JobsAsTheyWere ==
  ASSUME Typed, Extends, EventsRight, JobsRight, UNCHANGED <<job, storage>>
  PROVE  JobsRight'
<1> SUFFICES ASSUME NEW r \in Server PROVE JobRight(job[r])' /\ TreeRight(storage[r])'
  BY DEF JobsRight
<1>1. PICK m : m = job[r] /\ m.from \in 0 .. Len(events) /\ JobRight(m)
  BY DEF JobsRight, Typed, TypeOK, LocalsOK
<1>2. PICK u : u = storage[r] /\ TreeRight(u)
  BY DEF JobsRight
<1>3. JobRight(m)' /\ TreeRight(u)'
  BY <1>1, <1>2, JobKeeps, TreeKeeps
<1>4. JobRight(job[r])'
  BY <1>1, <1>3
<1>5. TreeRight(storage[r])'
  BY <1>2, <1>3
<1> QED
  BY <1>4, <1>5

(* A finalization names one contribution of each member, to a new key.     *)
LEMMA EventRight ==
  ASSUME Typed, Extends, EventsRight, log' = log, NEW k, NEW ids,
         events' = Append(events, [key |-> k, actions |-> ids]),
         k \notin Finalized(Len(events)), ids \subseteq Of(k, DOMAIN log), Complete(ids)
  PROVE  EventsRight'
<1> DEFINE n == Len(events)
<1>1. n \in Nat /\ events \in Seq([key : Key, actions : SUBSET DOMAIN log])
  BY DEF Typed, TypeOK
<1>2. /\ Len(events') = n + 1 /\ events'[n + 1] = [key |-> k, actions |-> ids]
      /\ \A e \in 1 .. n : events'[e] = events[e]
  BY <1>1
<1>3. \A e \in 1 .. n : events[e].key # k
  BY DEF Finalized
<1>4. \A e \in 1 .. n + 1 : e \in 1 .. n \/ e = n + 1
  BY <1>1
<1>5. \A e \in 1 .. n + 1 : /\ events'[e].actions \subseteq Of(events'[e].key, DOMAIN log)
                            /\ Complete(events'[e].actions)
  BY <1>2, <1>4 DEF EventsRight
<1>6. \A e, f \in 1 .. n + 1 : events'[e].key = events'[f].key => e = f
  BY <1>2, <1>3, <1>4 DEF EventsRight
<1> HIDE DEF n
<1> QED
  BY <1>2, <1>5, <1>6 DEF EventsRight, Of, Complete

LEMMA ChainRight ==
  ASSUME Right, ChainStep
  PROVE  Right'
<1>0. Typed /\ EventsRight /\ ProofsRight /\ JobsRight /\ WritesRight
  BY DEF Right
<1>a. [Next]_vars
  BY DEF Next
<1>b. Typed' /\ Extends
  BY <1>0, <1>a, TypeStep, StepExtends
<1>1. UNCHANGED <<job, storage, writeVars>> /\ mempool' \subseteq mempool
  BY DEF ChainStep, Dispatch, Include, FinalizeElsewhere, Record, CreateKey
<1>2. JobsRight' /\ WritesRight' /\ ProofsRight'
  BY <1>0, <1>b, <1>1, JobsAsTheyWere, WritesKeep, ProofsKeep
<1>3. EventsRight'
  <2>1. ASSUME events' = events PROVE EventsRight'
    BY <1>0, <1>b, <2>1, EventsKeep
  <2>2. ASSUME NEW tx \in mempool, Include(tx) PROVE EventsRight'
    <3>1. CASE tx.from = Len(events)
      <4>1. /\ events' = Append(events, [key |-> tx.key, actions |-> tx.actions]) /\ log' = log
            /\ ProofRight(tx.key, tx.actions, Len(events))
        BY <1>0, <2>2, <3>1 DEF Include, ProofsRight
      <4> QED
        BY <1>0, <1>b, <4>1, EventRight DEF ProofRight
    <3>2. CASE tx.from # Len(events)
      BY <2>1, <2>2, <3>2 DEF Include
    <3> QED
      BY <3>1, <3>2
  <2>3. ASSUME NEW k \in Key, NEW ids \in SUBSET DOMAIN log, FinalizeElsewhere(k, ids)
        PROVE  EventsRight'
    BY <1>0, <1>b, <2>3, EventRight DEF FinalizeElsewhere
  <2> QED
    BY <2>1, <2>2, <2>3 DEF ChainStep, Dispatch, Record, CreateKey, chainVars
<1> QED
  BY <1>b, <1>2, <1>3 DEF Right

(* A write that is started or done.                                        *)
LEMMA WriteRight ==
  ASSUME Right, NEW s \in Server, NEW i \in ActionId, Push(s, i) \/ Save(s, i)
  PROVE  Right'
<1>0. /\ Typed /\ EventsRight /\ ProofsRight /\ JobsRight /\ WritesRight
      /\ pushing \in [Server -> InFlight] /\ saving \in [Server -> InFlight] /\ pushed \in Counts
      /\ MaxInFlight \in Nat
  BY RoundsAssumption DEF Right, Typed, TypeOK
<1>a. [Next]_vars
  BY DEF Next, Write
<1>b. Typed' /\ Extends
  BY <1>0, <1>a, TypeStep, StepExtends
<1>1. UNCHANGED <<events, mempool, mirroredEvents, job, storage>>
  BY DEF Push, Save, chainVars
<1>2. EventsRight' /\ ProofsRight' /\ JobsRight'
  BY <1>0, <1>b, <1>1, EventsKeep, ProofsKeep, JobsAsTheyWere
<1>3. Named(mirroredEvents)' = Named(mirroredEvents)
  BY <1>1 DEF Named
<1>4. \A t \in Server, h \in ActionId : pushing[t][h] \in Nat /\ saving[t][h] \in Nat
  BY <1>0 DEF InFlight
<1>5. \A h \in ActionId : pushed[h] \in Nat
  BY <1>0 DEF Counts, Many
<1>6. CASE Push(s, i)
  <2>1. /\ pushing' = [pushing EXCEPT ![s][i] = @ - 1] /\ saving' = [saving EXCEPT ![s][i] = @ + 1]
        /\ pushed' = [pushed EXCEPT ![i] = Increment(@)] /\ pushing[s][i] > 0 /\ active' = active
    BY <1>6 DEF Push
  <2>2. \A t \in Server, h \in ActionId :
          /\ pushing'[t][h] + saving'[t][h] = pushing[t][h] + saving[t][h]
          /\ h # i => saving'[t][h] = saving[t][h]
    BY <1>0, <1>4, <2>1 DEF InFlight
  <2>3. \A h \in ActionId : /\ pushed'[h] \in Nat /\ pushed'[h] >= pushed[h]
                            /\ IF h = i THEN pushed'[h] >= 1 ELSE pushed'[h] = pushed[h]
    BY <1>0, <1>5, <2>1 DEF Counts, Increment, Many
  <2>4. 1 .. i \subseteq Named(mirroredEvents) /\ i \in 1 .. i
    BY <1>0, <1>4, <2>1 DEF WritesRight, ActionId
  <2>5. \A t \in Server, h \in ActionId :
          /\ pushing'[t][h] + saving'[t][h] > 0 => 1 .. h \subseteq Named(mirroredEvents)
          /\ saving'[t][h] > 0 => pushed'[h] >= 1
    <3> SUFFICES ASSUME NEW t \in Server, NEW h \in ActionId
                 PROVE  /\ pushing'[t][h] + saving'[t][h] > 0 => 1 .. h \subseteq Named(mirroredEvents)
                        /\ saving'[t][h] > 0 => pushed'[h] >= 1
      OBVIOUS
    <3>1. pushing'[t][h] + saving'[t][h] > 0 => 1 .. h \subseteq Named(mirroredEvents)
      BY <1>0, <2>2 DEF WritesRight
    <3>2. saving'[t][h] > 0 => pushed'[h] >= 1
      BY <1>0, <2>2, <2>3 DEF WritesRight
    <3> QED
      BY <3>1, <3>2
  <2>6. \A h \in ActionId : pushed'[h] > 0 => h \in Named(mirroredEvents)
    BY <1>0, <2>3, <2>4 DEF WritesRight
  <2>7. \A h \in active : pushed'[h] >= 1
    <3>1. active \subseteq ActionId
      BY <1>0, LocalFacts DEF ActionId, Typed, TypeOK
    <3> QED
      BY <1>0, <1>5, <2>3, <3>1 DEF WritesRight, ActiveHasContribution
  <2>8. WritesRight'
    BY <1>0, <1>3, <2>1, <2>5, <2>6, <2>7 DEF WritesRight, NoneOvertakes, ActiveHasContribution
  <2> QED
    BY <1>b, <1>2, <2>8 DEF Right
<1>7. CASE Save(s, i)
  <2>1. /\ saving' = [saving EXCEPT ![s][i] = @ - 1] /\ saving[s][i] > 0
        /\ active' = active \cup {i} /\ UNCHANGED <<pushed, pushing>>
    BY <1>7 DEF Save
  <2>2. \A t \in Server, h \in ActionId : saving'[t][h] <= saving[t][h] /\ saving'[t][h] \in Nat
    BY <1>0, <1>4, <2>1 DEF InFlight
  <2>3. pushed[i] >= 1 /\ 1 .. i \subseteq Named(mirroredEvents)
    BY <1>0, <1>4, <2>1 DEF WritesRight
  <2>4. \A t \in Server, h \in ActionId :
          /\ pushing[t][h] + saving'[t][h] > 0 => 1 .. h \subseteq Named(mirroredEvents)
          /\ saving'[t][h] > 0 => pushed[h] >= 1
    <3> SUFFICES ASSUME NEW t \in Server, NEW h \in ActionId
                 PROVE  /\ pushing[t][h] + saving'[t][h] > 0 => 1 .. h \subseteq Named(mirroredEvents)
                        /\ saving'[t][h] > 0 => pushed[h] >= 1
      OBVIOUS
    <3>1. pushing[t][h] \in Nat /\ saving[t][h] \in Nat /\ saving'[t][h] \in Nat /\ saving'[t][h] <= saving[t][h]
      BY <1>4, <2>2
    <3> QED
      BY <1>0, <3>1 DEF WritesRight
  <2>8. WritesRight'
    BY <1>0, <1>3, <2>1, <2>3, <2>4 DEF WritesRight, NoneOvertakes, ActiveHasContribution
  <2> QED
    BY <1>b, <1>2, <2>8 DEF Right
<1> QED
  BY <1>6, <1>7

-----------------------------------------------------------------------------
LEMMA OneJobRight ==
  ASSUME Right, [Next]_vars, UNCHANGED <<events, writeVars, storage>>, mempool' \subseteq mempool,
         NEW s \in Server, NEW l, job' = [job EXCEPT ![s] = l], JobRight(l)
  PROVE  Right'
<1>1. \A t \in Server : TreeRight(storage'[t])
  BY DEF Right, JobsRight
<1> QED
  BY <1>1, StaysRight

LEMMA PlainJob ==
  ASSUME NEW l, l.pc \notin {"send", "fetchState", "prove", "contribute", "count"}
  PROVE  JobRight(l)
BY DEF JobRight, ListRight

(* The steps of a pass that write nothing.                                 *)
LEMMA PassRight ==
  ASSUME Right, NEW s \in Server,
         (\E n \in 0 .. Len(events) : FetchEvents(s, n)) \/ Find(s)
           \/ ContributeDone(s) \/ KeyNotFound(s) \/ FetchThrows(s) \/ CountDone(s)
           \/ FindKeys(s) \/ FindEvents(s) \/ UpdateThrows(s) \/ Skip(s)
  PROVE  Right'
<1>0. [Next]_vars
  BY DEF Next, Update, Fail
<1>a. /\ DOMAIN job = Server /\ Typed /\ WritesRight /\ IsLocal(job[s]) /\ mirrored \in Nat
      /\ active \subseteq 1 .. mirrored
  BY DEF Right, Typed, TypeOK, JobsOK
<1>1. ASSUME NEW n \in 0 .. Len(events), FetchEvents(s, n) PROVE Right'
  <2> DEFINE l == [job[s] EXCEPT !.pc = "find"]
  <2>1. job' = [job EXCEPT ![s] = l] /\ UNCHANGED <<events, writeVars, storage, mempool>>
    BY <1>1 DEF FetchEvents, Goto, chainVars
  <2>2. l.pc = "find"
    BY <1>a DEF IsLocal
  <2> HIDE DEF l
  <2> QED
    BY <1>0, <2>1, <2>2, OneJobRight, PlainJob
<1>2. ASSUME Find(s) PROVE Right'
  <2> DEFINE l == [job[s] EXCEPT !.pc = "contribute", !.notActiveActions = NotActive]
  <2>1. job' = [job EXCEPT ![s] = l] /\ UNCHANGED <<events, writeVars, storage, mempool>>
    BY <1>2 DEF Find, chainVars
  <2>2. l.pc = "contribute" /\ l.notActiveActions = NotActive
    BY <1>a DEF IsLocal
  <2>3. ASSUME NEW i \in NotActive, NEW h \in 1 .. i PROVE h \in NotActive \/ EventExists(h)
    <3>1. i \in Nat /\ i <= mirrored /\ h \in 1 .. mirrored
      BY <1>a DEF NotActive
    <3>2. CASE h \in active
      <4>1. 1 .. h \subseteq Named(mirroredEvents) /\ h \in 1 .. h
        BY <1>a, <3>1, <3>2 DEF WritesRight, NoneOvertakes
      <4> QED
        BY <4>1 DEF EventExists
    <3> QED
      BY <3>1, <3>2 DEF NotActive
  <2>4. JobRight(l)
    BY <2>2, <2>3 DEF JobRight, ListRight
  <2> HIDE DEF l
  <2> QED
    BY <1>0, <2>1, <2>4, OneJobRight
<1>3. ASSUME Retry(s) PROVE Right'
  <2>1. PICK label \in {"idle", "findKeys"} :
          job' = [job EXCEPT ![s] = [job[s] EXCEPT !.pc = label, !.notActiveActions = {}]]
    BY <1>3 DEF Retry
  <2> DEFINE l == [job[s] EXCEPT !.pc = label, !.notActiveActions = {}]
  <2>2. UNCHANGED <<events, writeVars, storage, mempool>> /\ l.pc \in {"idle", "findKeys"}
    BY <1>3, <1>a DEF Retry, chainVars, IsLocal
  <2> HIDE DEF l
  <2> QED
    BY <1>0, <2>1, <2>2, OneJobRight, PlainJob DEF l
<1>4. ASSUME FindKeys(s) PROVE Right'
  <2> DEFINE l == [job[s] EXCEPT !.pc = "count", !.round = pushed, !.keys = known]
  <2>1. job' = [job EXCEPT ![s] = l] /\ UNCHANGED <<events, writeVars, storage, mempool>>
    BY <1>4 DEF FindKeys, chainVars
  <2>2. l.pc = "count" /\ l.round = pushed
    BY <1>a DEF IsLocal
  <2>3. \A i \in ActionId : pushed[i] > 0 => i \in Named(Len(events))
    BY <1>a, NamedRecorded DEF WritesRight
  <2>4. JobRight(l)
    BY <2>2, <2>3 DEF JobRight, ListRight
  <2> HIDE DEF l
  <2> QED
    BY <1>0, <2>1, <2>4, OneJobRight
<1>5. ASSUME ContributeDone(s) PROVE Right'
  <2> DEFINE l == [job[s] EXCEPT !.pc = "findKeys", !.notActiveActions = {}]
  <2>1. job' = [job EXCEPT ![s] = l] /\ UNCHANGED <<events, writeVars, storage, mempool>>
    BY <1>5 DEF ContributeDone, chainVars
  <2>2. l.pc = "findKeys"
    BY <1>a DEF IsLocal
  <2> HIDE DEF l
  <2> QED
    BY <1>0, <2>1, <2>2, OneJobRight, PlainJob
<1>6. ASSUME CountDone(s) PROVE Right'
  <2> DEFINE l == [job[s] EXCEPT !.pc = "findEvents", !.round = None]
  <2>1. job' = [job EXCEPT ![s] = l] /\ UNCHANGED <<events, writeVars, storage, mempool>>
    BY <1>6 DEF CountDone, chainVars
  <2>2. l.pc = "findEvents"
    BY <1>a DEF IsLocal
  <2> HIDE DEF l
  <2> QED
    BY <1>0, <2>1, <2>2, OneJobRight, PlainJob
<1>7. ASSUME FindEvents(s) PROVE Right'
  <2> DEFINE l == [job[s] EXCEPT !.pc = "findActions", !.mapped = mirroredEvents]
  <2>1. job' = [job EXCEPT ![s] = l] /\ UNCHANGED <<events, writeVars, storage, mempool>>
    BY <1>7 DEF FindEvents, chainVars
  <2>2. l.pc = "findActions"
    BY <1>a DEF IsLocal
  <2> HIDE DEF l
  <2> QED
    BY <1>0, <2>1, <2>2, OneJobRight, PlainJob
<1>8. ASSUME UpdateThrows(s) PROVE Right'
  <2> DEFINE l == [job[s] EXCEPT !.pc = "updated", !.round = None, !.keys = {}, !.mapped = 0]
  <2>1. job' = [job EXCEPT ![s] = l] /\ UNCHANGED <<events, writeVars, storage, mempool>>
    BY <1>8 DEF UpdateThrows, chainVars
  <2>2. l.pc = "updated"
    BY <1>a DEF IsLocal
  <2> HIDE DEF l
  <2> QED
    BY <1>0, <2>1, <2>2, OneJobRight, PlainJob
<1>9. ASSUME Skip(s) PROVE Right'
  <2> DEFINE l == Idle
  <2>1. job' = [job EXCEPT ![s] = l] /\ UNCHANGED <<events, writeVars, storage, mempool>>
    BY <1>9 DEF Skip, chainVars
  <2>2. l.pc = "idle"
    BY <1>a DEF IsLocal, Idle
  <2> HIDE DEF l
  <2> QED
    BY <1>0, <2>1, <2>2, OneJobRight, PlainJob
<1> QED
  BY <1>1, <1>2, <1>3, <1>4, <1>5, <1>6, <1>7, <1>8, <1>9 DEF KeyNotFound, FetchThrows

(* The steps of a pass that write.                                         *)
LEMMA StepRight ==
  ASSUME Right, NEW s \in Server, Contribute(s) \/ Count(s) \/ FindActions(s) \/ Crash(s)
  PROVE  Right'
<1>0. /\ Typed /\ EventsRight /\ ProofsRight /\ JobsRight /\ WritesRight
      /\ pushing \in [Server -> InFlight] /\ saving \in [Server -> InFlight]
      /\ DOMAIN job = Server /\ DOMAIN storage = Server /\ IsLocal(job[s]) /\ IsTrees(storage[s])
      /\ JobRight(job[s]) /\ LocalsOK(job[s])
      /\ known \subseteq Key /\ Key \subseteq Nat /\ TreesOK(storage[s]) /\ DOMAIN log = 1 .. Len(log)
  BY LocalFacts DEF Right, Typed, TypeOK, JobsOK, JobsRight
<1>a. [Next]_vars
  BY DEF Next, Update, Fail
<1>b. Typed' /\ Extends
  BY <1>0, <1>a, TypeStep, StepExtends
<1>c. \A t \in Server, h \in ActionId : pushing[t][h] \in Nat /\ saving[t][h] \in Nat
  BY <1>0, RoundsAssumption DEF InFlight
<1>1. ASSUME Contribute(s) PROVE Right'
  <2>1. PICK i \in Reached(job[s].notActiveActions) :
          /\ EventExists(i) /\ pushing' = [pushing EXCEPT ![s][i] = @ + 1]
          /\ job' = [job EXCEPT ![s] = [job[s] EXCEPT !.notActiveActions = @ \ {i}]]
    BY <1>1 DEF Contribute
  <2>2. /\ UNCHANGED <<log, events, mempool, mirrored, mirroredEvents, known, pushed, active, saving, storage>>
        /\ job[s].pc = "contribute"
    BY <1>1 DEF Contribute, chainVars
  <2> DEFINE l == [job[s] EXCEPT !.notActiveActions = @ \ {i}]
  <2>3. l.pc = "contribute" /\ l.notActiveActions = job[s].notActiveActions \ {i} /\ l.from = job[s].from
    BY <1>0, <2>2 DEF IsLocal
  <2>4. /\ i \in job[s].notActiveActions /\ \A h \in job[s].notActiveActions : i <= h
        /\ i \in 1 .. mirrored /\ job[s].notActiveActions \subseteq Nat
    BY <1>0, <2>1 DEF Reached, LocalsOK, Typed, TypeOK
  <2>5. \A j \in job[s].notActiveActions : \A h \in 1 .. j : h \in job[s].notActiveActions \/ EventExists(h)
    BY <1>0, <2>2 DEF JobRight, ListRight
  <2>6. JobRight(l)
    BY <2>1, <2>3, <2>5 DEF JobRight, ListRight
  <2>7. 1 .. i \subseteq Named(mirroredEvents)
    <3> SUFFICES ASSUME NEW h \in 1 .. i PROVE EventExists(h)
      BY DEF EventExists
    <3>1. CASE h \in job[s].notActiveActions
      <4>1. h = i
        BY <1>0, <2>4, <3>1 DEF Typed, TypeOK
      <4> QED
        BY <2>1, <4>1
    <3> QED
      BY <2>4, <2>5, <3>1
  <2>8. \A t \in Server, h \in ActionId :
             pushing'[t][h] = IF t = s /\ h = i THEN pushing[t][h] + 1 ELSE pushing[t][h]
    BY <1>0, <1>c, <2>1 DEF InFlight
  <2>9. \A t \in Server, h \in ActionId :
          pushing'[t][h] + saving[t][h] > 0 => 1 .. h \subseteq Named(mirroredEvents)
    BY <1>0, <1>c, <2>7, <2>8 DEF WritesRight
  <2>10. WritesRight'
    <3>1. Named(mirroredEvents)' = Named(mirroredEvents)
      BY <2>2 DEF Named
    <3> QED
      BY <1>0, <2>2, <2>9, <3>1 DEF WritesRight, NoneOvertakes, ActiveHasContribution
  <2>11. EventsRight' /\ ProofsRight'
    BY <1>0, <1>b, <2>2, EventsKeep, ProofsKeep
  <2>12. JobsRight'
    <3>1. l.from \in 0 .. Len(events) /\ \A t \in Server : TreeRight(storage'[t])
      BY <1>0, <2>2, <2>3 DEF LocalsOK, JobsRight
    <3>2. job' = [job EXCEPT ![s] = l]
      BY <2>1
    <3> HIDE DEF l
    <3> QED
      BY <1>0, <1>b, <2>6, <3>1, <3>2, JobsStayRight
  <2> QED
    BY <1>b, <2>10, <2>11, <2>12 DEF Right
<1>2. ASSUME Count(s) PROVE Right'
  <2> DEFINE k == First(job[s].keys)
             l == [job[s] EXCEPT !.keys = @ \ {k}]
             t0 == WithKey(storage[s], k, job[s].round)
  <2>1. /\ job' = [job EXCEPT ![s] = l]
        /\ job[s].pc = "count" /\ job[s].keys # {}
        /\ storage' = IF AllContributed(k) THEN [storage EXCEPT ![s] = t0] ELSE storage
        /\ UNCHANGED <<events, mempool, writeVars>>
    BY <1>2 DEF Count, chainVars
  <2>2. k \in known
    BY <1>0, <2>1, FirstIs DEF LocalsOK
  <2>3. l.pc = "count" /\ l.round = job[s].round
    BY <1>0, <2>1 DEF IsLocal
  <2>4. JobRight(l)
    BY <1>0, <2>1, <2>3 DEF JobRight, ListRight
  <2>5. InDocument(k, job[s].round) \subseteq Of(k, Named(Len(events)))
    <3>1. \A i \in ActionId : job[s].round[i] > 0 => i \in Named(Len(events))
      BY <1>0, <2>1 DEF JobRight
    <3>2. DOMAIN log \subseteq ActionId
      BY <1>0, LocalFacts DEF ActionId
    <3> QED
      BY <3>1, <3>2 DEF InDocument, Of
  <2>6. ASSUME AllContributed(k) PROVE TreeRight(t0)
    <3>1. k \in Finalized(Len(events))
      <4>1. Of(k, active) # {}
        <5>1. IsFiniteSet(Member) /\ Member # {}
          BY RoundsAssumption
        <5>2. numberOfMembers # 0
          BY <5>1, FS_EmptySet DEF numberOfMembers
        <5> QED
          BY <2>6, <5>2, FS_EmptySet DEF AllContributed
      <4>2. PICK i \in active : log[i].key = k
        BY <4>1 DEF Of
      <4>3. i \in Named(Len(events))
        <5>1. i \in 1 .. i
          BY <1>0, LocalFacts, <4>2 DEF Typed, TypeOK
        <5> QED
          BY <1>0, <4>2, <5>1, NamedRecorded DEF WritesRight, NoneOvertakes
      <4>4. PICK e \in 1 .. Len(events) : i \in events[e].actions
        BY <4>3 DEF Named
      <4>5. events[e].key = k
        BY <1>0, <4>2, <4>4 DEF EventsRight, Of
      <4> QED
        BY <4>5 DEF Finalized
    <3> HIDE DEF k
    <3>2. /\ DOMAIN t0.contribution \subseteq DOMAIN storage[s].contribution \cup {k}
          /\ \A h \in DOMAIN t0.contribution :
               t0.contribution[h] \subseteq
                 (IF h \in DOMAIN storage[s].contribution THEN storage[s].contribution[h] ELSE {})
                   \cup (IF h = k THEN InDocument(k, job[s].round) ELSE {})
      BY <1>0, <2>2, WithKeyIs DEF LocalsOK
    <3>3. TreeRight(storage[s])
      BY <1>0 DEF JobsRight
    <3> HIDE DEF t0
    <3> QED
      BY <2>5, <3>1, <3>2, <3>3 DEF TreeRight
  <2>7. \A t \in Server : TreeRight(storage'[t])
    <3> HIDE DEF k, t0
    <3> QED
      BY <1>0, <2>1, <2>6 DEF JobsRight
  <2> HIDE DEF k, l, t0
  <2> QED
    BY <1>a, <2>1, <2>4, <2>7, StaysRight
<1>3. ASSUME FindActions(s) PROVE Right'
  <2> DEFINE l == [job[s] EXCEPT !.pc = "updated", !.mapped = 0]
             t0 == [storage[s] EXCEPT !.processed = @ \cup Processed(job[s].mapped)]
  <2>1. /\ job' = [job EXCEPT ![s] = l] /\ storage' = [storage EXCEPT ![s] = t0]
        /\ UNCHANGED <<events, mempool, writeVars>>
    BY <1>3 DEF FindActions, chainVars
  <2>2. JobRight(l)
    <3>1. l.pc = "updated"
      BY <1>0 DEF IsLocal
    <3> QED
      BY <3>1, PlainJob
  <2>3. t0.contribution = storage[s].contribution
    BY <1>0 DEF IsTrees
  <2>4. TreeRight(t0)
    BY <1>0, <2>3 DEF TreeRight, JobsRight
  <2> HIDE DEF l, t0
  <2>5. \A t \in Server : TreeRight(storage'[t])
    BY <1>0, <2>1, <2>4 DEF JobsRight
  <2> QED
    BY <1>a, <2>1, <2>2, <2>5, StaysRight
<1>4. ASSUME Crash(s) PROVE Right'
  <2>1. /\ pushing' = [pushing EXCEPT ![s] = None] /\ saving' = [saving EXCEPT ![s] = None]
        /\ storage' = [storage EXCEPT ![s] = EmptyTrees] /\ job' = [job EXCEPT ![s] = Idle]
        /\ UNCHANGED <<log, events, mempool, mirrored, mirroredEvents, known, pushed, active>>
    BY <1>4 DEF Crash, chainVars
  <2>2. \A h \in ActionId : None[h] = 0
    BY DEF None
  <2>3. JobRight(Idle) /\ Idle.from = 0
    BY PlainJob DEF Idle
  <2>4. TreeRight(EmptyTrees)
    BY EmptyIs DEF TreeRight
  <2>5. \A t \in Server : TreeRight(storage'[t])
    BY <1>0, <2>1, <2>4 DEF JobsRight
  <2>6. Idle.from \in 0 .. Len(events)
    BY <1>0, <2>3, LocalFacts
  <2>7. JobsRight'
    BY <1>0, <1>b, <2>1, <2>3, <2>5, <2>6, JobsStayRight
  <2>8. EventsRight' /\ ProofsRight'
    BY <1>0, <1>b, <2>1, EventsKeep, ProofsKeep
  <2>9. \A t \in Server, h \in ActionId :
          /\ pushing'[t][h] + saving'[t][h] > 0 => 1 .. h \subseteq Named(mirroredEvents)
          /\ saving'[t][h] > 0 => pushed[h] >= 1
    BY <1>0, <1>c, <2>1, <2>2 DEF WritesRight
  <2>10. WritesRight'
    <3>1. Named(mirroredEvents)' = Named(mirroredEvents)
      BY <2>1 DEF Named
    <3> QED
      BY <1>0, <2>1, <2>9, <3>1 DEF WritesRight, NoneOvertakes, ActiveHasContribution
  <2> QED
    BY <1>b, <2>7, <2>8, <2>10 DEF Right
<1> QED
  BY <1>1, <1>2, <1>3, <1>4

-----------------------------------------------------------------------------
(* The steps of a roll-up: what is sent fits.                              *)
LEMMA RollupRight ==
  ASSUME Right, NEW s \in Server, Rollup(s) \/ RollupThrows(s)
  PROVE  Right'
<1>0. /\ Typed /\ EventsRight /\ ProofsRight /\ JobsRight /\ WritesRight
      /\ DOMAIN job = Server /\ IsLocal(job[s]) /\ JobRight(job[s]) /\ LocalsOK(job[s])
      /\ known \subseteq Key /\ Key \subseteq Nat /\ DOMAIN log = 1 .. Len(log)
      /\ Len(log) \in Nat /\ mirrored \in 0 .. Len(log)
  BY LocalFacts DEF Right, Typed, TypeOK, JobsOK, JobsRight
<1>a. [Next]_vars
  BY DEF Next, Fail
<1>b. Typed' /\ Extends
  BY <1>0, <1>a, TypeStep, StepExtends
<1>1. ASSUME NEW num \in 0 .. Len(log), FindRolled(s, num) PROVE Right'
  <2> DEFINE l == [job[s] EXCEPT !.pc = "findStatus", !.numRollupedActions = num]
  <2>1. job' = [job EXCEPT ![s] = l] /\ UNCHANGED <<events, writeVars, storage, mempool>>
    BY <1>1 DEF FindRolled, chainVars
  <2>2. l.pc = "findStatus"
    BY <1>0 DEF IsLocal
  <2> HIDE DEF l
  <2> QED
    BY <1>a, <2>1, <2>2, OneJobRight, PlainJob
<1>2. ASSUME NEW keys \in SUBSET known, FindStatus(s, keys) PROVE Right'
  <2> DEFINE l == [job[s] EXCEPT !.pc = "findBatch", !.keys = keys]
  <2>1. job' = [job EXCEPT ![s] = l] /\ UNCHANGED <<events, writeVars, storage, mempool>>
    BY <1>2 DEF FindStatus, chainVars
  <2>2. l.pc = "findBatch"
    BY <1>0 DEF IsLocal
  <2> HIDE DEF l
  <2> QED
    BY <1>a, <2>1, <2>2, OneJobRight, PlainJob
<1>3. ASSUME FindBatch(s) PROVE Right'
  <2> DEFINE k == First(job[s].keys)
             ids == Batch(k, job[s].numRollupedActions)
             l == [job[s] EXCEPT !.pc = "fetchState", !.keys = {k}, !.batch = ids]
  <2>1. job' = [job EXCEPT ![s] = l] /\ UNCHANGED <<events, writeVars, storage, mempool>>
    BY <1>3 DEF FindBatch, chainVars
  <2>2. k \in Nat
    BY <1>0, <1>3, FirstIs DEF FindBatch, LocalsOK
  <2>3. ids \subseteq Of(k, DOMAIN log)
    BY <1>0 DEF Batch, Latest, Pending, Of, NotActive
  <2>4. l.pc = "fetchState" /\ l.keys = {k} /\ l.batch = ids
    BY <1>0 DEF IsLocal
  <2> HIDE DEF k, ids, l
  <2>5. JobRight(l)
    BY <2>2, <2>3, <2>4, FirstOfOne DEF JobRight, ListRight
  <2> QED
    BY <1>a, <2>1, <2>5, OneJobRight
<1>4. ASSUME SkipKey(s) PROVE Right'
  <2> DEFINE l == [job[s] EXCEPT !.keys = NextKeys(@)]
  <2>1. job' = [job EXCEPT ![s] = l] /\ UNCHANGED <<events, writeVars, storage, mempool>>
    BY <1>4 DEF SkipKey, chainVars
  <2>2. l.pc = "findBatch"
    BY <1>0, <1>4 DEF IsLocal, SkipKey
  <2> HIDE DEF l
  <2> QED
    BY <1>a, <2>1, <2>2, OneJobRight, PlainJob
<1>5. ASSUME NEW n \in 0 .. Len(events), FetchState(s, n) PROVE Right'
  <2> DEFINE l == [job[s] EXCEPT !.pc = "prove", !.from = n, !.trees = storage[s]]
  <2>1. job' = [job EXCEPT ![s] = l] /\ UNCHANGED <<events, writeVars, storage, mempool>>
    BY <1>5 DEF FetchState, chainVars
  <2>2. l.pc = "prove" /\ l.keys = job[s].keys /\ l.batch = job[s].batch
    BY <1>0 DEF IsLocal
  <2> HIDE DEF l
  <2>3. JobRight(l)
    BY <1>0, <1>5, <2>2 DEF JobRight, ListRight, FetchState
  <2> QED
    BY <1>a, <2>1, <2>3, OneJobRight
<1>6. ASSUME Prove(s) PROVE Right'
  <2> DEFINE l == [job[s] EXCEPT !.pc = "send", !.trees = EmptyTrees]
  <2>1. job' = [job EXCEPT ![s] = l] /\ UNCHANGED <<events, writeVars, storage, mempool>>
    BY <1>6 DEF Prove, chainVars
  <2>2. l.pc = "send" /\ l.keys = job[s].keys /\ l.batch = job[s].batch /\ l.from = job[s].from
    BY <1>0 DEF IsLocal
  <2>3. ProofRight(First(job[s].keys), job[s].batch, job[s].from)
    <3>1. /\ First(job[s].keys) \notin Finalized(job[s].from) /\ Complete(job[s].batch)
          /\ job[s].trees.processed = Named(job[s].from)
      BY <1>6 DEF Prove, WitnessesFit, Agree
    <3>2. job[s].batch \subseteq Of(First(job[s].keys), DOMAIN log)
      BY <1>0, <1>6 DEF JobRight, Prove
    <3>3. job[s].trees.processed \subseteq active
      BY <1>0 DEF LocalsOK, TreesOK
    <3> QED
      BY <3>1, <3>2, <3>3 DEF ProofRight
  <2> HIDE DEF l
  <2>4. JobRight(l)
    BY <2>2, <2>3 DEF JobRight, ListRight
  <2> QED
    BY <1>a, <2>1, <2>4, OneJobRight
<1>7. ASSUME Send(s) PROVE Right'
  <2> PICK k, ids, n : k = First(job[s].keys) /\ ids = job[s].batch /\ n = job[s].from
    OBVIOUS
  <2>1. /\ job' = [job EXCEPT ![s] = Idle]
        /\ mempool' \in {mempool, {[key |-> k, actions |-> ids, from |-> n]}}
        /\ UNCHANGED <<events, writeVars, storage>>
    BY <1>7 DEF Send, chainVars
  <2>2. ProofRight(k, ids, n) /\ n \in 0 .. Len(events)
    BY <1>0, <1>7 DEF Send, JobRight, LocalsOK
  <2>3. ProofRight(k, ids, n)'
    BY <1>0, <1>b, <2>2, ProofKeeps
  <2>4. ProofsRight'
    <3>1. CASE mempool' = mempool
      BY <1>0, <1>b, <3>1, ProofsKeep
    <3>2. CASE mempool' = {[key |-> k, actions |-> ids, from |-> n]}
      BY <2>3, <3>2 DEF ProofsRight
    <3> QED
      BY <2>1, <3>1, <3>2
  <2>5. JobRight(Idle) /\ Idle.from = 0
    BY PlainJob DEF Idle
  <2>6. Idle.from \in 0 .. Len(events) /\ \A t \in Server : TreeRight(storage'[t])
    BY <1>0, <2>1, <2>5, LocalFacts DEF JobsRight
  <2>7. JobsRight'
    BY <1>0, <1>b, <2>1, <2>5, <2>6, JobsStayRight
  <2>8. EventsRight' /\ WritesRight'
    BY <1>0, <1>b, <2>1, EventsKeep, WritesKeep
  <2> QED
    BY <1>b, <2>4, <2>7, <2>8 DEF Right
<1>8. ASSUME NoMoreKeys(s) \/ ProveFails(s) \/ RollupThrows(s) PROVE Right'
  <2>1. job' = [job EXCEPT ![s] = Idle] /\ UNCHANGED <<events, writeVars, storage, mempool>>
    BY <1>8 DEF NoMoreKeys, ProveFails, RollupThrows, chainVars
  <2>2. JobRight(Idle)
    BY PlainJob DEF Idle
  <2> QED
    BY <1>a, <2>1, <2>2, OneJobRight
<1> QED
  BY <1>1, <1>2, <1>3, <1>4, <1>5, <1>6, <1>7, <1>8 DEF Rollup

LEMMA RightStep ==
  ASSUME Right, [Next]_vars
  PROVE  Right'
<1>1. CASE ChainStep
  BY <1>1, ChainRight
<1>2. ASSUME NEW s \in Server, Update(s) \/ Rollup(s) \/ Skip(s) \/ Write(s) \/ Fail(s) PROVE Right'
  <2>1. CASE Update(s)
    BY <2>1, PassRight, StepRight DEF Update
  <2>2. CASE Rollup(s)
    BY <2>2, RollupRight
  <2>3. CASE Write(s)
    BY <2>3, WriteRight DEF Write
  <2>4. CASE Fail(s)
    BY <2>4, PassRight, StepRight, RollupRight DEF Fail
  <2> QED
    BY <1>2, <2>1, <2>2, <2>3, <2>4, PassRight
<1>3. CASE UNCHANGED vars
  <2>1. Typed /\ EventsRight /\ ProofsRight /\ JobsRight /\ WritesRight
    BY DEF Right
  <2>2. Typed' /\ Extends
    BY <2>1, TypeStep, StepExtends
  <2>3. UNCHANGED <<events, mempool, writeVars, job, storage>>
    BY <1>3 DEF vars, chainVars
  <2> QED
    BY <2>1, <2>2, <2>3, EventsKeep, ProofsKeep, WritesKeep, JobsAsTheyWere DEF Right
<1> QED
  BY <1>1, <1>2, <1>3 DEF Next

(* Events, proofs, jobs, trees and writes are right in every state: the    *)
(* inductive invariant from which the properties below follow.             *)
THEOREM AlwaysRight == Spec => []Right
BY InitRight, RightStep, PTL DEF Spec

(* The leaves in memory never differ from what the contract has, although  *)
(* the count of the active actions is read later than the documents.       *)
THEOREM LeavesCorrect == Spec => []LeavesAreRight
<1>1. Right => LeavesAreRight
  BY DEF Right, JobsRight, TreeRight, LeavesAreRight
<1> QED
  BY AlwaysRight, <1>1, PTL

-----------------------------------------------------------------------------
(* One of each member, as many as there are members: no member comes twice. *)
LEMMA NoneTwice ==
  ASSUME NEW ids, ids \subseteq DOMAIN log, Complete(ids), log \in Seq([key : Key, member : Member]),
         NEW i \in ids, NEW h \in ids, log[i].member = log[h].member
  PROVE  i = h
<1> DEFINE f == [j \in ids |-> log[j].member]
<1>1. DOMAIN log = 1 .. Len(log) /\ Len(log) \in Nat
  OBVIOUS
<1>2. IsFiniteSet(ids)
  <2>1. IsFiniteSet(1 .. Len(log))
    BY <1>1, FS_Interval
  <2> QED
    BY <1>1, <2>1, FS_Subset
<1>3. f \in Surjection(ids, Member)
  <2>1. {log[j].member : j \in ids} = Member
    BY DEF Complete
  <2>2. f \in [ids -> Member] /\ \A m \in Member : \E j \in ids : f[j] = m
    BY <2>1
  <2> HIDE DEF f
  <2> QED
    BY <2>2 DEF Surjection
<1>4. Cardinality(ids) = Cardinality(Member)
  BY DEF Complete, numberOfMembers
<1> HIDE DEF f
<1>5. f \in Injection(ids, Member)
  BY <1>2, <1>3, <1>4, FS_SurjSameCardinalityImpliesInj
<1>6. f[i] = f[h] => i = h
  BY <1>5 DEF Injection, IsInjective
<1>7. f[i] = log[i].member /\ f[h] = log[h].member
  BY DEF f
<1> QED
  BY <1>6, <1>7

LEMMA OneEach == Right => OneContributionEach
<1> SUFFICES ASSUME Right, NEW i \in DOMAIN log, NEW h \in DOMAIN log,
                    log[i] = log[h], pushed[i] > 0, pushed[h] > 0
             PROVE  i = h
  BY DEF OneContributionEach
<1>0. Typed /\ EventsRight /\ WritesRight /\ log \in Seq([key : Key, member : Member])
  BY DEF Right, Typed, TypeOK
<1>1. i \in ActionId /\ h \in ActionId
  BY <1>0, LocalFacts, RoundsAssumption DEF ActionId, Typed, TypeOK
<1>2. i \in Named(Len(events)) /\ h \in Named(Len(events))
  BY <1>0, <1>1, NamedRecorded DEF WritesRight
<1>3. PICK e, f \in 1 .. Len(events) : i \in events[e].actions /\ h \in events[f].actions
  BY <1>2 DEF Named
<1>4. log[i].key = events[e].key /\ log[h].key = events[f].key
  BY <1>0, <1>3 DEF EventsRight, Of
<1>5. e = f
  BY <1>0, <1>4 DEF EventsRight
<1>6. events[e].actions \subseteq DOMAIN log /\ Complete(events[e].actions)
  BY <1>0 DEF EventsRight, Of
<1> QED
  BY <1>0, <1>3, <1>5, <1>6, NoneTwice

(* A set of ids that holds all before each of its elements is an interval. *)
LEMMA DownIsInterval ==
  ASSUME NEW S, NEW n \in Nat, S \subseteq 1 .. n, \A i \in S : 1 .. i \subseteq S
  PROVE  S = 1 .. Cardinality(S)
<1>1. PICK m \in (1 .. n + 1) \ S : \A h \in (1 .. n + 1) \ S : m <= h
  <2>1. n + 1 \in (1 .. n + 1) \ S
    OBVIOUS
  <2>2. (1 .. n + 1) \ S \subseteq Nat
    OBVIOUS
  <2> QED
    BY <2>1, <2>2, Smallest
<1>2. S = 1 .. m - 1
  <2>1. ASSUME NEW i \in 1 .. m - 1 PROVE i \in S
    BY <1>1
  <2>2. ASSUME NEW i \in S PROVE i \in 1 .. m - 1
    <3>1. i \in Nat /\ i >= 1 /\ (m <= i => m \in 1 .. i)
      BY <1>1
    <3> QED
      BY <1>1, <3>1
  <2> QED
    BY <2>1, <2>2
<1>3. Cardinality(1 .. m - 1) = m - 1
  BY <1>1, FS_Interval
<1> QED
  BY <1>2, <1>3

LEMMA InItsOrder == Right => AcceptedOnlyInOrder
<1> SUFFICES ASSUME Right, NEW tx \in mempool, tx.from = Len(events) PROVE InOrder
  BY DEF AcceptedOnlyInOrder
<1>0. /\ Typed /\ EventsRight /\ ProofsRight /\ WritesRight
      /\ Len(log) \in Nat /\ DOMAIN log = 1 .. Len(log)
  BY DEF Right, Typed, TypeOK
<1>1. Named(Len(events)) \subseteq active
  BY <1>0 DEF ProofsRight, ProofRight
<1>2. Named(Len(events)) \subseteq 1 .. Len(log)
  BY <1>0 DEF EventsRight, Named, Of
<1>3. \A i \in Named(Len(events)) : 1 .. i \subseteq Named(Len(events))
  BY <1>0, <1>1, NamedRecorded DEF WritesRight, NoneOvertakes
<1> QED
  BY <1>0, <1>2, <1>3, DownIsInterval DEF InOrder

(* A document holds one contribution of each member, no action overtakes   *)
(* one without an event, and a transaction is accepted only while the keys *)
(* were finalized in the order of their contributions: for any number of   *)
(* servers and deployments.                                                *)
THEOREM OrderKept == Spec => []OrderIsKept
<1>1. Right => NoneOvertakes
  BY DEF Right, WritesRight
<1>2. Right => OrderIsKept
  BY <1>1, OneEach, InItsOrder DEF OrderIsKept
<1> QED
  BY AlwaysRight, <1>2, PTL

-----------------------------------------------------------------------------
\* A server that has contributions in its hands.
Busy(s) == \/ job[s].pc = "contribute"
           \/ \E i \in ActionId : pushing[s][i] + saving[s][i] > 0

\* While passes do not overlap and none is cut off between a push and its save,
\* one server writes, and each contribution once.
QuietRight ==
  quiet =>
    /\ \A s, t \in Server : Busy(s) /\ Busy(t) => s = t
    /\ \A s \in Server, i \in ActionId :
         /\ pushing[s][i] + saving[s][i] <= 1
         /\ pushing[s][i] > 0 => pushed[i] = 0
         /\ job[s].pc = "contribute" /\ i \in job[s].notActiveActions =>
              pushing[s][i] + saving[s][i] = 0 /\ pushed[i] = 0
    /\ \A i \in ActionId :
         /\ pushed[i] <= 1
         /\ pushed[i] > 0 => i \in active \/ \E s \in Server : saving[s][i] > 0

\* No pass begins to contribute, and nothing is added to the list of one.
NoneBegins ==
  \A s \in Server :
    job'[s].pc = "contribute" =>
      job[s].pc = "contribute" /\ job'[s].notActiveActions \subseteq job[s].notActiveActions

LEMMA QuietKeeps ==
  ASSUME Typed, QuietRight, NoneBegins, UNCHANGED <<writeVars, quiet>>
  PROVE  QuietRight'
<1>1. UNCHANGED <<pushing, saving, pushed, active, quiet>>
  BY DEF writeVars
<1>2. SUFFICES ASSUME quiet PROVE QuietRight'
  BY <1>1 DEF QuietRight
<1>3. \A s \in Server : Busy(s)' => Busy(s)
  BY <1>1 DEF Busy, NoneBegins
<1> QED
  BY <1>1, <1>2, <1>3 DEF QuietRight, NoneBegins

LEMMA JobBegins ==
  ASSUME NEW s \in Server, NEW l, job' = [job EXCEPT ![s] = l], DOMAIN job = Server,
         l.pc = "contribute" => job[s].pc = "contribute" /\ l.notActiveActions \subseteq job[s].notActiveActions
  PROVE  NoneBegins
BY DEF NoneBegins

(* Only Find begins, and only Contribute goes on.                          *)
LEMMA BeginsNone ==
  ASSUME Typed, NEW s \in Server,
         Update(s) \/ Rollup(s) \/ Skip(s) \/ Fail(s), ~ Find(s), ~ Crash(s), ~ Contribute(s)
  PROVE  NoneBegins
<1>0. DOMAIN job = Server /\ IsLocal(job[s])
  BY DEF Typed, TypeOK, JobsOK
<1>1. ASSUME NEW n \in 0 .. Len(events), FetchEvents(s, n) PROVE NoneBegins
  <2> DEFINE l == [job[s] EXCEPT !.pc = "find"]
  <2>1. job' = [job EXCEPT ![s] = l]
    BY <1>1 DEF FetchEvents, Goto
  <2>2. l.pc = "find"
    BY <1>0 DEF IsLocal
  <2> HIDE DEF l
  <2> QED
    BY <1>0, <2>1, <2>2, JobBegins
<1>2. ASSUME ContributeDone(s) PROVE NoneBegins
  <2> DEFINE l == [job[s] EXCEPT !.pc = "findKeys", !.notActiveActions = {}]
  <2>1. job' = [job EXCEPT ![s] = l]
    BY <1>2 DEF ContributeDone
  <2>2. l.pc = "findKeys"
    BY <1>0 DEF IsLocal
  <2> HIDE DEF l
  <2> QED
    BY <1>0, <2>1, <2>2, JobBegins
<1>3. ASSUME FindKeys(s) PROVE NoneBegins
  <2> DEFINE l == [job[s] EXCEPT !.pc = "count", !.round = pushed, !.keys = known]
  <2>1. job' = [job EXCEPT ![s] = l]
    BY <1>3 DEF FindKeys
  <2>2. l.pc = "count"
    BY <1>0 DEF IsLocal
  <2> HIDE DEF l
  <2> QED
    BY <1>0, <2>1, <2>2, JobBegins
<1>4. ASSUME CountDone(s) PROVE NoneBegins
  <2> DEFINE l == [job[s] EXCEPT !.pc = "findEvents", !.round = None]
  <2>1. job' = [job EXCEPT ![s] = l]
    BY <1>4 DEF CountDone
  <2>2. l.pc = "findEvents"
    BY <1>0 DEF IsLocal
  <2> HIDE DEF l
  <2> QED
    BY <1>0, <2>1, <2>2, JobBegins
<1>5. ASSUME FindEvents(s) PROVE NoneBegins
  <2> DEFINE l == [job[s] EXCEPT !.pc = "findActions", !.mapped = mirroredEvents]
  <2>1. job' = [job EXCEPT ![s] = l]
    BY <1>5 DEF FindEvents
  <2>2. l.pc = "findActions"
    BY <1>0 DEF IsLocal
  <2> HIDE DEF l
  <2> QED
    BY <1>0, <2>1, <2>2, JobBegins
<1>6. ASSUME FindActions(s) PROVE NoneBegins
  <2> DEFINE l == [job[s] EXCEPT !.pc = "updated", !.mapped = 0]
  <2>1. job' = [job EXCEPT ![s] = l]
    BY <1>6 DEF FindActions
  <2>2. l.pc = "updated"
    BY <1>0 DEF IsLocal
  <2> HIDE DEF l
  <2> QED
    BY <1>0, <2>1, <2>2, JobBegins
<1>7. ASSUME UpdateThrows(s) PROVE NoneBegins
  <2> DEFINE l == [job[s] EXCEPT !.pc = "updated", !.round = None, !.keys = {}, !.mapped = 0]
  <2>1. job' = [job EXCEPT ![s] = l]
    BY <1>7 DEF UpdateThrows
  <2>2. l.pc = "updated"
    BY <1>0 DEF IsLocal
  <2> HIDE DEF l
  <2> QED
    BY <1>0, <2>1, <2>2, JobBegins
<1>8. ASSUME NEW num \in 0 .. Len(log), FindRolled(s, num) PROVE NoneBegins
  <2> DEFINE l == [job[s] EXCEPT !.pc = "findStatus", !.numRollupedActions = num]
  <2>1. job' = [job EXCEPT ![s] = l]
    BY <1>8 DEF FindRolled
  <2>2. l.pc = "findStatus"
    BY <1>0 DEF IsLocal
  <2> HIDE DEF l
  <2> QED
    BY <1>0, <2>1, <2>2, JobBegins
<1>9. ASSUME NEW keys \in SUBSET known, FindStatus(s, keys) PROVE NoneBegins
  <2> DEFINE l == [job[s] EXCEPT !.pc = "findBatch", !.keys = keys]
  <2>1. job' = [job EXCEPT ![s] = l]
    BY <1>9 DEF FindStatus
  <2>2. l.pc = "findBatch"
    BY <1>0 DEF IsLocal
  <2> HIDE DEF l
  <2> QED
    BY <1>0, <2>1, <2>2, JobBegins
<1>10. ASSUME NEW n \in 0 .. Len(events), FetchState(s, n) PROVE NoneBegins
  <2> DEFINE l == [job[s] EXCEPT !.pc = "prove", !.from = n, !.trees = storage[s]]
  <2>1. job' = [job EXCEPT ![s] = l]
    BY <1>10 DEF FetchState
  <2>2. l.pc = "prove"
    BY <1>0 DEF IsLocal
  <2> HIDE DEF l
  <2> QED
    BY <1>0, <2>1, <2>2, JobBegins
<1>11. ASSUME Prove(s) PROVE NoneBegins
  <2> DEFINE l == [job[s] EXCEPT !.pc = "send", !.trees = EmptyTrees]
  <2>1. job' = [job EXCEPT ![s] = l]
    BY <1>11 DEF Prove
  <2>2. l.pc = "send"
    BY <1>0 DEF IsLocal
  <2> HIDE DEF l
  <2> QED
    BY <1>0, <2>1, <2>2, JobBegins
<1>12. ASSUME job' = [job EXCEPT ![s] = Idle] PROVE NoneBegins
  <2>1. Idle.pc = "idle"
    BY DEF Idle
  <2> QED
    BY <1>0, <1>12, <2>1, JobBegins
<1>13. ASSUME Retry(s) PROVE NoneBegins
  <2>1. PICK label \in {"idle", "findKeys"} :
          job' = [job EXCEPT ![s] = [job[s] EXCEPT !.pc = label, !.notActiveActions = {}]]
    BY <1>13 DEF Retry
  <2> DEFINE l == [job[s] EXCEPT !.pc = label, !.notActiveActions = {}]
  <2>2. l.pc \in {"idle", "findKeys"}
    BY <1>0 DEF IsLocal
  <2>3. job' = [job EXCEPT ![s] = l]
    BY <2>1
  <2> HIDE DEF l
  <2> QED
    BY <1>0, <2>2, <2>3, JobBegins
<1>14. ASSUME Count(s) PROVE NoneBegins
  <2> DEFINE k == First(job[s].keys)
             l == [job[s] EXCEPT !.keys = @ \ {k}]
  <2>1. job' = [job EXCEPT ![s] = l] /\ job[s].pc = "count"
    BY <1>14 DEF Count
  <2>2. l.pc = "count"
    BY <1>0, <2>1 DEF IsLocal
  <2> HIDE DEF k, l
  <2> QED
    BY <1>0, <2>1, <2>2, JobBegins
<1>15. ASSUME FindBatch(s) PROVE NoneBegins
  <2> DEFINE k == First(job[s].keys)
             ids == Batch(k, job[s].numRollupedActions)
             l == [job[s] EXCEPT !.pc = "fetchState", !.keys = {k}, !.batch = ids]
  <2>1. job' = [job EXCEPT ![s] = l]
    BY <1>15 DEF FindBatch
  <2>2. l.pc = "fetchState"
    BY <1>0 DEF IsLocal
  <2> HIDE DEF k, ids, l
  <2> QED
    BY <1>0, <2>1, <2>2, JobBegins
<1>16. ASSUME SkipKey(s) PROVE NoneBegins
  <2> DEFINE l == [job[s] EXCEPT !.keys = NextKeys(@)]
  <2>1. job' = [job EXCEPT ![s] = l] /\ job[s].pc = "findBatch"
    BY <1>16 DEF SkipKey
  <2>2. l.pc = "findBatch"
    BY <1>0, <2>1 DEF IsLocal
  <2> HIDE DEF l
  <2> QED
    BY <1>0, <2>1, <2>2, JobBegins
<1>a. CASE Update(s)
  BY <1>a, <1>1, <1>2, <1>3, <1>4, <1>5, <1>6, <1>13, <1>14 DEF Update, KeyNotFound
<1>b. CASE Rollup(s) \/ Skip(s)
  BY <1>b, <1>8, <1>9, <1>10, <1>11, <1>12, <1>15, <1>16 DEF Rollup, Skip, NoMoreKeys, ProveFails, Send
<1>c. CASE Fail(s)
  BY <1>c, <1>7, <1>12, <1>13 DEF Fail, FetchThrows, RollupThrows
<1> QED
  BY <1>a, <1>b, <1>c

LEMMA QuietStep ==
  ASSUME Typed, QuietRight, [Next]_vars
  PROVE  QuietRight'
<1>0. /\ pushing \in [Server -> InFlight] /\ saving \in [Server -> InFlight] /\ pushed \in Counts
      /\ DOMAIN job = Server /\ \A s \in Server : IsLocal(job[s])
  BY DEF Typed, TypeOK, JobsOK
<1>c. \A t \in Server, h \in ActionId : pushing[t][h] \in Nat /\ saving[t][h] \in Nat
  BY <1>0, RoundsAssumption DEF InFlight
<1>d. \A h \in ActionId : pushed[h] \in Nat /\ None[h] = 0
  BY <1>0 DEF Counts, Many, None
<1>1. ASSUME NEW s \in Server, Find(s) PROVE QuietRight'
  <2> SUFFICES ASSUME quiet' PROVE QuietRight'
    BY DEF QuietRight
  <2> DEFINE l == [job[s] EXCEPT !.pc = "contribute", !.notActiveActions = NotActive]
  <2>1. /\ job' = [job EXCEPT ![s] = l] /\ UNCHANGED <<pushing, saving, pushed, active>>
        /\ quiet /\ NothingInFlight
    BY <1>1 DEF Find, writeVars
  <2>2. l.notActiveActions = NotActive
    BY <1>0 DEF IsLocal
  <2> HIDE DEF l
  <2>3. \A t \in Server, h \in ActionId : pushing[t][h] = 0 /\ saving[t][h] = 0
    BY <1>d, <2>1 DEF NothingInFlight
  <2>4. \A t \in Server : Busy(t)' => t = s
    BY <1>0, <2>1, <2>3 DEF Busy, NothingInFlight
  <2>5. \A h \in ActionId : pushed[h] > 0 => h \in active
    BY <2>1, <2>3 DEF QuietRight
  <2>6. \A t \in Server, h \in ActionId :
          job'[t].pc = "contribute" /\ h \in job'[t].notActiveActions => pushed[h] = 0
    <3> SUFFICES ASSUME NEW t \in Server, NEW h \in ActionId,
                        job'[t].pc = "contribute", h \in job'[t].notActiveActions
                 PROVE  pushed[h] = 0
      OBVIOUS
    <3>1. t = s
      BY <1>0, <2>1 DEF NothingInFlight
    <3>2. h \notin active
      BY <1>0, <2>1, <2>2, <3>1 DEF NotActive
    <3> QED
      BY <1>d, <2>5, <3>2
  <2> QED
    BY <2>1, <2>3, <2>4, <2>5, <2>6 DEF QuietRight
<1>2. ASSUME NEW s \in Server, Contribute(s) PROVE QuietRight'
  <2>1. PICK i \in Reached(job[s].notActiveActions) :
          /\ pushing' = [pushing EXCEPT ![s][i] = @ + 1]
          /\ job' = [job EXCEPT ![s] = [job[s] EXCEPT !.notActiveActions = @ \ {i}]]
    BY <1>2 DEF Contribute
  <2>2. UNCHANGED <<pushed, active, saving, quiet>> /\ job[s].pc = "contribute"
    BY <1>2 DEF Contribute
  <2> SUFFICES ASSUME quiet PROVE QuietRight'
    BY <2>2 DEF QuietRight
  <2> DEFINE l == [job[s] EXCEPT !.notActiveActions = @ \ {i}]
  <2>3. l.pc = "contribute" /\ l.notActiveActions = job[s].notActiveActions \ {i} /\ job' = [job EXCEPT ![s] = l]
    BY <1>0, <2>1, <2>2 DEF IsLocal
  <2> HIDE DEF l
  <2>4. i \in job[s].notActiveActions /\ i \in ActionId
    BY <2>1, LocalFacts DEF Reached, LocalsOK, ActionId, Typed, TypeOK
  <2>5. pushing[s][i] = 0 /\ saving[s][i] = 0 /\ pushed[i] = 0
    BY <1>c, <2>2, <2>4 DEF QuietRight
  <2>6. \A t \in Server, h \in ActionId :
             pushing'[t][h] = IF t = s /\ h = i THEN 1 ELSE pushing[t][h]
    BY <1>0, <1>c, <2>1, <2>4, <2>5 DEF InFlight
  <2>7. Busy(s)
    BY <2>2 DEF Busy
  <2>8. \A t \in Server : Busy(t)' => Busy(t)
    BY <1>0, <2>2, <2>3, <2>6, <2>7 DEF Busy
  <2>9. \A t \in Server, h \in ActionId :
          /\ pushing'[t][h] + saving[t][h] <= 1
          /\ pushing'[t][h] > 0 => pushed[h] = 0
    BY <1>c, <2>5, <2>6 DEF QuietRight
  <2>10. \A t \in Server, h \in ActionId :
          job'[t].pc = "contribute" /\ h \in job'[t].notActiveActions =>
            pushing'[t][h] + saving[t][h] = 0 /\ pushed[h] = 0
    <3> SUFFICES ASSUME NEW t \in Server, NEW h \in ActionId,
                        job'[t].pc = "contribute", h \in job'[t].notActiveActions
                 PROVE  pushing'[t][h] + saving[t][h] = 0 /\ pushed[h] = 0
      OBVIOUS
    <3>1. job[t].pc = "contribute" /\ h \in job[t].notActiveActions /\ (t = s => h # i)
      BY <1>0, <2>2, <2>3
    <3> QED
      BY <2>6, <3>1 DEF QuietRight
  <2> QED
    BY <2>2, <2>8, <2>9, <2>10 DEF QuietRight
<1>3. ASSUME NEW s \in Server, NEW i \in ActionId, Push(s, i) PROVE QuietRight'
  <2>1. /\ pushing' = [pushing EXCEPT ![s][i] = @ - 1] /\ saving' = [saving EXCEPT ![s][i] = @ + 1]
        /\ pushed' = [pushed EXCEPT ![i] = Increment(@)] /\ pushing[s][i] > 0
        /\ UNCHANGED <<active, job, quiet>>
    BY <1>3 DEF Push
  <2> SUFFICES ASSUME quiet PROVE QuietRight'
    BY <2>1 DEF QuietRight
  <2>2. pushing[s][i] = 1 /\ saving[s][i] = 0 /\ pushed[i] = 0
    BY <1>c, <2>1 DEF QuietRight
  <2>3. \A t \in Server, h \in ActionId :
          /\ pushing'[t][h] = IF t = s /\ h = i THEN 0 ELSE pushing[t][h]
          /\ saving'[t][h] = IF t = s /\ h = i THEN 1 ELSE saving[t][h]
    BY <1>0, <1>c, <2>1, <2>2 DEF InFlight
  <2>4. \A h \in ActionId : pushed'[h] = IF h = i THEN 1 ELSE pushed[h]
    BY <1>0, <2>1, <2>2 DEF Counts, Increment, Many
  <2>5. Busy(s)
    BY <1>c, <2>1 DEF Busy
  <2>6. \A t \in Server : Busy(t)' => Busy(t)
    BY <1>c, <2>1, <2>3, <2>5 DEF Busy
  <2>7. \A t \in Server : t # s => ~ Busy(t)
    BY <2>5 DEF QuietRight
  <2>8. \A t \in Server, h \in ActionId :
          /\ pushing'[t][h] + saving'[t][h] <= 1
          /\ pushing'[t][h] > 0 => pushed'[h] = 0
    <3> SUFFICES ASSUME NEW t \in Server, NEW h \in ActionId
                 PROVE  /\ pushing'[t][h] + saving'[t][h] <= 1
                        /\ pushing'[t][h] > 0 => pushed'[h] = 0
      OBVIOUS
    <3>1. CASE t = s /\ h = i
      BY <2>3, <3>1
    <3>2. CASE h # i
      BY <1>c, <2>3, <2>4, <3>2 DEF QuietRight
    <3>3. CASE t # s /\ h = i
      BY <1>c, <2>3, <2>7, <3>3 DEF Busy
    <3> QED
      BY <3>1, <3>2, <3>3
  <2>9. \A t \in Server, h \in ActionId :
          job[t].pc = "contribute" /\ h \in job[t].notActiveActions =>
            pushing'[t][h] + saving'[t][h] = 0 /\ pushed'[h] = 0
    <3> SUFFICES ASSUME NEW t \in Server, NEW h \in ActionId,
                        job[t].pc = "contribute", h \in job[t].notActiveActions
                 PROVE  pushing'[t][h] + saving'[t][h] = 0 /\ pushed'[h] = 0
      OBVIOUS
    <3>1. t = s
      BY <2>7 DEF Busy
    <3>2. pushing[t][h] + saving[t][h] = 0 /\ pushed[h] = 0
      BY DEF QuietRight
    <3>3. h # i
      BY <2>2, <3>1, <3>2
    <3> QED
      BY <2>3, <2>4, <3>2, <3>3
  <2>10. \A h \in ActionId :
          /\ pushed'[h] <= 1
          /\ pushed'[h] > 0 => h \in active \/ \E t \in Server : saving'[t][h] > 0
    <3> SUFFICES ASSUME NEW h \in ActionId
                 PROVE  /\ pushed'[h] <= 1
                        /\ pushed'[h] > 0 => h \in active \/ \E t \in Server : saving'[t][h] > 0
      OBVIOUS
    <3>1. CASE h = i
      BY <2>3, <2>4, <3>1
    <3>2. CASE h # i
      BY <2>3, <2>4, <3>2 DEF QuietRight
    <3> QED
      BY <3>1, <3>2
  <2> QED
    BY <2>1, <2>6, <2>7, <2>8, <2>9, <2>10 DEF QuietRight
<1>4. ASSUME NEW s \in Server, NEW i \in ActionId, Save(s, i) PROVE QuietRight'
  <2>1. /\ saving' = [saving EXCEPT ![s][i] = @ - 1] /\ saving[s][i] > 0 /\ active' = active \cup {i}
        /\ UNCHANGED <<pushed, pushing, job, quiet>>
    BY <1>4 DEF Save
  <2> SUFFICES ASSUME quiet PROVE QuietRight'
    BY <2>1 DEF QuietRight
  <2>2. saving[s][i] = 1
    BY <1>c, <2>1 DEF QuietRight
  <2>3. \A t \in Server, h \in ActionId :
          saving'[t][h] = IF t = s /\ h = i THEN 0 ELSE saving[t][h]
    BY <1>0, <1>c, <2>1, <2>2 DEF InFlight
  <2>4. \A t \in Server : Busy(t)' => Busy(t)
    BY <1>c, <2>1, <2>3 DEF Busy
  <2>5. \A t \in Server, h \in ActionId :
          /\ pushing[t][h] + saving'[t][h] <= 1
          /\ job[t].pc = "contribute" /\ h \in job[t].notActiveActions =>
               pushing[t][h] + saving'[t][h] = 0 /\ pushed[h] = 0
    <3> SUFFICES ASSUME NEW t \in Server, NEW h \in ActionId
                 PROVE  /\ pushing[t][h] + saving'[t][h] <= 1
                        /\ job[t].pc = "contribute" /\ h \in job[t].notActiveActions =>
                             pushing[t][h] + saving'[t][h] = 0 /\ pushed[h] = 0
      OBVIOUS
    <3>1. saving'[t][h] \in Nat /\ saving'[t][h] <= saving[t][h]
      BY <1>c, <2>2, <2>3
    <3> QED
      BY <1>c, <3>1 DEF QuietRight
  <2>6. \A h \in ActionId :
          pushed[h] > 0 => h \in active' \/ \E t \in Server : saving'[t][h] > 0
    BY <2>1, <2>3 DEF QuietRight
  <2> QED
    BY <2>1, <2>4, <2>5, <2>6 DEF QuietRight
<1>5. ASSUME NEW s \in Server, Crash(s) PROVE QuietRight'
  <2>1. /\ pushing' = [pushing EXCEPT ![s] = None] /\ saving' = [saving EXCEPT ![s] = None]
        /\ job' = [job EXCEPT ![s] = Idle] /\ UNCHANGED <<pushed, active>>
        /\ quiet' = (quiet /\ saving[s] = None)
    BY <1>5 DEF Crash
  <2> SUFFICES ASSUME quiet, saving[s] = None PROVE QuietRight'
    BY <2>1 DEF QuietRight
  <2>2. Idle.pc = "idle"
    BY DEF Idle
  <2>3. \A t \in Server, h \in ActionId :
          /\ saving'[t][h] = saving[t][h]
          /\ pushing'[t][h] = IF t = s THEN 0 ELSE pushing[t][h]
    BY <1>0, <1>d, <2>1
  <2>4. \A t \in Server : t # s => job'[t] = job[t]
    BY <2>1
  <2>5. job'[s].pc = "idle"
    BY <1>0, <2>1, <2>2
  <2>6. \A t \in Server : Busy(t)' => Busy(t)
    BY <1>c, <2>3, <2>4, <2>5 DEF Busy
  <2>7. \A t \in Server, h \in ActionId :
          /\ pushing'[t][h] + saving'[t][h] <= 1
          /\ pushing'[t][h] > 0 => pushed[h] = 0
          /\ job'[t].pc = "contribute" /\ h \in job'[t].notActiveActions =>
               pushing'[t][h] + saving'[t][h] = 0 /\ pushed[h] = 0
    <3> SUFFICES ASSUME NEW t \in Server, NEW h \in ActionId
                 PROVE  /\ pushing'[t][h] + saving'[t][h] <= 1
                        /\ pushing'[t][h] > 0 => pushed[h] = 0
                        /\ job'[t].pc = "contribute" /\ h \in job'[t].notActiveActions =>
                             pushing'[t][h] + saving'[t][h] = 0 /\ pushed[h] = 0
      OBVIOUS
    <3>1. CASE t = s
      BY <1>c, <2>3, <2>5, <3>1 DEF QuietRight
    <3>2. CASE t # s
      BY <2>3, <2>4, <3>2 DEF QuietRight
    <3> QED
      BY <3>1, <3>2
  <2>8. \A h \in ActionId :
          /\ pushed[h] <= 1
          /\ pushed[h] > 0 => h \in active \/ \E t \in Server : saving'[t][h] > 0
    BY <2>3 DEF QuietRight
  <2> QED
    BY <2>1, <2>6, <2>7, <2>8 DEF QuietRight
<1>6. CASE ChainStep
  <2>1. UNCHANGED <<writeVars, quiet, job>>
    BY <1>6 DEF ChainStep, Dispatch, Include, FinalizeElsewhere, Record, CreateKey
  <2> QED
    BY <2>1, QuietKeeps DEF NoneBegins
<1>7. CASE UNCHANGED vars
  BY <1>7, QuietKeeps DEF NoneBegins, vars
<1>8. ASSUME NEW s \in Server, Update(s) \/ Rollup(s) \/ Skip(s) \/ Fail(s),
             ~ Find(s), ~ Crash(s), ~ Contribute(s)
      PROVE  QuietRight'
  <2>1. NoneBegins
    BY <1>8, BeginsNone
  <2>2. UNCHANGED <<writeVars, quiet>>
    BY <1>8 DEF Update, Rollup, Fail, FetchEvents, ContributeDone, KeyNotFound, Retry, FindKeys, Count,
       CountDone, FindEvents, FindActions, FetchThrows, UpdateThrows, RollupThrows, Skip, FindRolled,
       FindStatus, FindBatch, SkipKey, NoMoreKeys, FetchState, Prove, ProveFails, Send
  <2> QED
    BY <2>1, <2>2, QuietKeeps
<1> QED
  BY <1>1, <1>2, <1>3, <1>4, <1>5, <1>6, <1>7, <1>8 DEF Next, Write

LEMMA InitQuiet == Init => QuietRight
<1>1. \A h \in ActionId : None[h] = 0
  BY DEF None
<1>2. Idle.pc = "idle"
  BY DEF Idle
<1> QED
  BY <1>1, <1>2 DEF Init, QuietRight, Busy

(* The writes that nobody awaits lose no contribution of an active action, *)
(* and repeat none but where passes overlap or a process stops between a   *)
(* push and its save: for any number of servers.                           *)
THEOREM ContributionsCorrect == Spec => []ContributionsArrive
<1>1. Spec => []QuietRight
  <2>1. Init => Typed /\ QuietRight
    BY InitTyped, InitQuiet
  <2>2. Typed /\ QuietRight /\ [Next]_vars => (Typed /\ QuietRight)'
    BY TypeStep, QuietStep
  <2> QED
    BY <2>1, <2>2, PTL DEF Spec
<1>2. Right => ActiveHasContribution
  BY DEF Right, WritesRight
<1>3. QuietRight => OnceUnlessOverlapped
  BY DEF QuietRight, OnceUnlessOverlapped
<1>4. Right /\ QuietRight => ContributionsArrive
  BY <1>2, <1>3 DEF ContributionsArrive
<1> QED
  BY AlwaysRight, <1>1, <1>4, PTL

=============================================================================
