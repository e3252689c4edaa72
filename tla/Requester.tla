------------------------------- MODULE Requester -------------------------------
(***************************************************************************)
(* RequesterContractsService for one requester contract.  A task is        *)
(* created by an action and encrypted votes are added to it by others; a   *)
(* roll-up reduces all pending actions at once.  updateRequesterActions()  *)
(* repeats what was reduced on the task documents: the totals of a task    *)
(* are read, added to in memory and set, the encryption is pushed, and     *)
(* only then the action is saved as active.  updateMerkleTrees() rebuilds  *)
(* the trees of the process from the documents, rollup() clones them to    *)
(* prove the next reduction.  Jobs overlap (consumers do not await them);  *)
(* of those of other processes only what they do to the database is seen.  *)
(*                                                                         *)
(*   log        the actions dispatched: NewTask, or the task added to      *)
(*   reduced    how many the contract has reduced                          *)
(*   mempool    the pending transaction, if any                            *)
(*   mirrored   how many actions are recorded in the database              *)
(*   active     ids of the actions marked active                           *)
(*   tasks      the task documents, by taskId (which is unique)            *)
(*   storage    the trees in the memory of this process                    *)
(*   job        the local variables of each job                            *)
(*   steady     history: no pass over the actions began while another one  *)
(*              was not over, none stopped between a task and its action   *)
(***************************************************************************)
EXTENDS Integers, Sequences, FiniteSets

CONSTANTS Job,        \* overlapping jobs
          Here,       \* that of the process whose trees and roll-up are modelled
          Before,     \* the actions reduced before this system was set up
          MaxActions, \* bound: actions dispatched
          MaxTasks    \* bound: task documents

NewTask == -1

ASSUME RequesterAssumption ==
  /\ {MaxActions, MaxTasks} \subseteq Nat /\ IsFiniteSet(Job) /\ Here \in Job
  /\ Before \in Seq({NewTask} \cup Nat) /\ Len(Before) <= MaxActions
  /\ \A i \in DOMAIN Before : \* an encryption is submitted with a witness of its task
       Before[i] < Cardinality({h \in 1 .. i - 1 : Before[h] = NewTask})

VARIABLES log, reduced, mempool, mirrored, active, tasks, storage, job, steady

chainVars == <<log, reduced, mempool>>
vars == <<chainVars, mirrored, active, tasks, storage, job, steady>>

ActionId == 1 .. MaxActions

\* How many times each action was added; Many for all that is more than once.
Many == 2
None == [i \in ActionId |-> 0]
Plus(sum, i) == [sum EXCEPT ![i] = IF @ < Many THEN @ + 1 ELSE Many]
OnceEach(ids) == [i \in ActionId |-> IF i \in ids THEN 1 ELSE 0]

\* The elements of a set of ids in their order, from 0.
InOrder(ids) ==
  [n \in 0 .. Cardinality(ids) - 1 |->
     CHOOSE i \in ids : Cardinality({h \in ids : h < i}) = n]

Creates(ids) == {i \in ids : log[i] = NewTask}
Adds(ids) == {i \in ids : log[i] # NewTask}
AddsTo(t, ids) == {i \in ids : log[i] = t}

\* The leaves of a task: key index and timestamp come from the action that
\* created it.
TreesAfter(n) ==
  [task |-> [t \in DOMAIN InOrder(Creates(1 .. n)) |->
               [create |-> InOrder(Creates(1 .. n))[t],
                total |-> OnceEach(AddsTo(t, 1 .. n))]],
   commitment |-> InOrder(Adds(1 .. n))]

EmptyTrees == [task |-> <<>>, commitment |-> <<>>]

PC == {"idle", "findLastTask", "next", "saveTask", "saveAction", "findTasks",
       "findActive", "updated", "fetchState", "clone", "send"}

Idle == [pc |-> "idle", state |-> 0, actions |-> {}, nextTaskId |-> 0, total |-> None]

Init ==
  /\ log = Before /\ reduced = Len(Before) /\ mempool = {}
  /\ mirrored = 0 /\ active = {} /\ tasks = <<>>
  /\ storage = EmptyTrees
  /\ job = [j \in Job |-> Idle]
  /\ steady = TRUE

\* What follows the pass; another process updates trees of its own.
AfterPass(j) == IF j = Here THEN "findTasks" ELSE "idle"

Goto(j, label) == job' = [job EXCEPT ![j].pc = label]
Return(j) == job' = [job EXCEPT ![j] = Idle]

-----------------------------------------------------------------------------
(***************************************************************************)
(* The contract, and the recording of its actions.                         *)
(***************************************************************************)

\* An encryption is submitted with a witness of its task.
Dispatch(t) ==
  /\ Len(log) < MaxActions
  /\ t = NewTask \/ t \in 0 .. Cardinality(Creates(1 .. reduced)) - 1
  /\ log' = Append(log, t)
  /\ UNCHANGED <<reduced, mempool, mirrored, active, tasks, storage, job, steady>>

\* The contract accepts a proof that leads from its state along its actions.
Include(tx) ==
  /\ reduced' = IF tx.from = reduced /\ tx.actions = reduced + 1 .. reduced + Cardinality(tx.actions)
                THEN reduced + Cardinality(tx.actions) ELSE reduced
  /\ mempool' = {}
  /\ UNCHANGED <<log, mirrored, active, tasks, storage, job, steady>>

ReduceElsewhere(n) ==
  /\ n > reduced
  /\ reduced' = n
  /\ UNCHANGED <<log, mempool, mirrored, active, tasks, storage, job, steady>>

\* fetchRequesterActions() (ActionFeed).
Record ==
  /\ mirrored < Len(log)
  /\ mirrored' = mirrored + 1
  /\ UNCHANGED <<chainVars, active, tasks, storage, job, steady>>

-----------------------------------------------------------------------------
(***************************************************************************)
(* updateRequesterActions()                                                *)
(***************************************************************************)

InPass(j) == job[j].pc \in {"findLastTask", "next", "saveTask", "saveAction"}

\* Mutant: the filter on active is dropped.
AllReduced(n) == 1 .. n

NotActive(n) == 1 .. n \ active

\* A node that may lag behind answers with the state after n actions, and the
\* action with that state is recorded.
Find(j, n) ==
  /\ job[j].pc = "idle"
  /\ n \in 1 .. mirrored
  /\ job' = [job EXCEPT ![j].pc = "findLastTask", ![j].actions = NotActive(n)]
  /\ steady' = (steady /\ \A k \in Job \ {j} : ~ InPass(k))
  /\ UNCHANGED <<chainVars, mirrored, active, tasks, storage>>

FindNothing(j, n) ==
  /\ job[j].pc = "idle"
  /\ n \notin 1 .. mirrored
  /\ Goto(j, AfterPass(j))
  /\ UNCHANGED <<chainVars, mirrored, active, tasks, storage, steady>>

FindLastTask(j) ==
  /\ job[j].pc = "findLastTask"
  /\ job' = [job EXCEPT ![j].pc = "next", ![j].nextTaskId = Len(tasks)]
  /\ UNCHANGED <<chainVars, mirrored, active, tasks, storage, steady>>

\* Mutant: the actions are sorted the other way.
ReachedLast(ids) == {i \in ids : \A h \in ids : i >= h}

\* The first of the actions found, if any is left.
Reached(ids) == {i \in ids : \A h \in ids : i <= h}

\* The unique index on taskId admits the document.
Create(j) ==
  /\ job[j].pc = "next"
  /\ job[j].nextTaskId = Len(tasks) /\ Len(tasks) < MaxTasks
  /\ \E i \in Reached(job[j].actions) :
       /\ log[i] = NewTask
       /\ tasks' = Append(tasks, [create |-> i, encryptions |-> None, total |-> None])
  /\ job' = [job EXCEPT ![j].pc = "saveAction", ![j].nextTaskId = @ + 1]
  /\ UNCHANGED <<chainVars, mirrored, active, storage, steady>>

\* Mutant: the save of the task is not awaited, and lost.
FindTaskOnly(j) ==
  /\ job[j].pc = "next"
  /\ \E i \in Reached(job[j].actions) : log[i] \in 0 .. Len(tasks) - 1
  /\ Goto(j, "saveAction")
  /\ UNCHANGED <<chainVars, mirrored, active, tasks, storage, steady>>

FindTask(j) ==
  /\ job[j].pc = "next"
  /\ \E i \in Reached(job[j].actions) :
       /\ log[i] \in 0 .. Len(tasks) - 1
       /\ job' = [job EXCEPT ![j].pc = "saveTask", ![j].total = tasks[log[i] + 1].total]
  /\ UNCHANGED <<chainVars, mirrored, active, tasks, storage, steady>>

\* task.save(): the encryption is pushed; the totals are set to what was computed
\* from those loaded, and there is no version key.
SaveTask(j) ==
  /\ job[j].pc = "saveTask"
  /\ \E i \in Reached(job[j].actions) :
       tasks' = [tasks EXCEPT ![log[i] + 1].encryptions = Plus(@, i),
                              ![log[i] + 1].total = Plus(job[j].total, i)]
  /\ job' = [job EXCEPT ![j].pc = "saveAction", ![j].total = None]
  /\ UNCHANGED <<chainVars, mirrored, active, storage, steady>>

SaveAction(j) ==
  /\ job[j].pc = "saveAction"
  /\ active' = active \cup Reached(job[j].actions)
  /\ job' = [job EXCEPT ![j].pc = "next", ![j].actions = @ \ Reached(@)]
  /\ UNCHANGED <<chainVars, mirrored, tasks, storage, steady>>

PassDone(j) ==
  /\ job[j].pc = "next"
  /\ job[j].actions = {}
  /\ job' = [job EXCEPT ![j].pc = AfterPass(j), ![j].nextTaskId = 0]
  /\ UNCHANGED <<chainVars, mirrored, active, tasks, storage, steady>>

\* fetch() starts over, or gives up after MaxRetries attempts, and the trees
\* are updated.
Retry(j) ==
  /\ \E label \in {"idle", AfterPass(j)} : job' = [job EXCEPT ![j] = [Idle EXCEPT !.pc = label]]
  /\ UNCHANGED <<chainVars, mirrored, active, tasks, storage>>

\* Mutant: the error is ignored.
DuplicateIgnored(j) ==
  /\ job[j].pc = "next"
  /\ job[j].nextTaskId # Len(tasks)
  /\ \E i \in Reached(job[j].actions) : log[i] = NewTask
  /\ Goto(j, "saveAction")
  /\ UNCHANGED <<chainVars, mirrored, active, tasks, storage, steady>>

\* The id is taken, by a document of another pass.
DuplicateTask(j) ==
  /\ job[j].pc = "next"
  /\ job[j].nextTaskId # Len(tasks)
  /\ \E i \in Reached(job[j].actions) : log[i] = NewTask
  /\ Retry(j)
  /\ UNCHANGED steady

\* An awaited call throws.
FetchThrows(j) ==
  /\ InPass(j)
  /\ Retry(j)
  /\ steady' = (steady /\ job[j].pc # "saveAction")

-----------------------------------------------------------------------------
(***************************************************************************)
(* updateMerkleTrees()                                                     *)
(***************************************************************************)
Overwrite(leaves, new) ==
  [x \in DOMAIN leaves \cup DOMAIN new |-> IF x \in DOMAIN new THEN new[x] ELSE leaves[x]]

\* Mutant: the leaves are numbered from 1.
TaskLeavesFromOne == [t \in 1 .. Len(tasks) |-> [create |-> tasks[t].create,
                                                 total |-> tasks[t].total]]

TaskLeaves == [t \in 0 .. Len(tasks) - 1 |-> [create |-> tasks[t + 1].create,
                                              total |-> tasks[t + 1].total]]

\* The leaves are written when the documents arrive.
FindTasks(j) ==
  /\ job[j].pc = "findTasks"
  /\ storage' = [storage EXCEPT !.task = Overwrite(@, TaskLeaves)]
  /\ Goto(j, "findActive")
  /\ UNCHANGED <<chainVars, mirrored, active, tasks, steady>>

\* Mutant: the filter on active is dropped.
Recorded == 1 .. mirrored

Active == active

FindActive(j) ==
  /\ job[j].pc = "findActive"
  /\ storage' = [storage EXCEPT !.commitment = Overwrite(@, InOrder(Adds(Active)))]
  /\ Goto(j, "updated")
  /\ UNCHANGED <<chainVars, mirrored, active, tasks, steady>>

\* An awaited call throws, and the rest is not written.
UpdateThrows(j) ==
  /\ job[j].pc \in {"findTasks", "findActive"}
  /\ job' = [job EXCEPT ![j].pc = "updated"]
  /\ UNCHANGED <<chainVars, mirrored, active, tasks, storage, steady>>

\* A job that only updates.
Skip(j) ==
  /\ job[j].pc = "updated"
  /\ Return(j)
  /\ UNCHANGED <<chainVars, mirrored, active, tasks, storage, steady>>

-----------------------------------------------------------------------------
(***************************************************************************)
(* rollup()                                                                *)
(***************************************************************************)
FindBatch(j) ==
  /\ job[j].pc = "updated"
  /\ IF NotActive(mirrored) = {} THEN Return(j)
     ELSE job' = [job EXCEPT ![j].pc = "fetchState", ![j].actions = NotActive(mirrored)]
  /\ UNCHANGED <<chainVars, mirrored, active, tasks, storage, steady>>

\* fetchRequesterState() sets the counters in memory to those of the contract;
\* with them and the roots of the contract the first proof begins.  (The contract
\* may have moved on when the trees are cloned, as if the answer lagged behind.)
FetchState(j) ==
  /\ job[j].pc = "fetchState"
  /\ job' = [job EXCEPT ![j].pc = "clone", ![j].state = reduced]
  /\ UNCHANGED <<chainVars, mirrored, active, tasks, storage, steady>>

Totals(trees) == [t \in DOMAIN trees.task |-> trees.task[t].total]

\* The witnesses lead to the roots, and are those of the next ids: a creation has one
\* of each tree of tasks, an encryption of that of the totals and of the commitments.
WitnessesFit(j) ==
  LET trees == TreesAfter(job[j].state)
  IN  /\ Creates(job[j].actions) # {} => storage.task = trees.task
      /\ Adds(job[j].actions) # {} => /\ Totals(storage) = Totals(trees)
                                     /\ storage.commitment = trees.commitment

\* Once that proof is made, the trees and the counters are cloned (a job of the
\* same process that changes the counters meanwhile makes the proofs fail); the loop over
\* the actions, UpdateTask.create and UpdateTask.accumulate, works on the clones
\* only.
CloneAndProve(j) ==
  /\ job[j].pc = "clone"
  /\ WitnessesFit(j)
  /\ Goto(j, "send")
  /\ UNCHANGED <<chainVars, mirrored, active, tasks, storage, steady>>

\* A proof that does not fit throws.
ProveFails(j) ==
  /\ job[j].pc = "clone"
  /\ ~ WitnessesFit(j)
  /\ Return(j)
  /\ UNCHANGED <<chainVars, mirrored, active, tasks, storage, steady>>

\* The transaction is refused if another one has its nonce.
Send(j) ==
  /\ job[j].pc = "send"
  /\ mempool' = IF mempool = {} THEN {[from |-> job[j].state, actions |-> job[j].actions]}
                ELSE mempool
  /\ Return(j)
  /\ UNCHANGED <<log, reduced, mirrored, active, tasks, storage, steady>>

\* An awaited call throws.
RollupThrows(j) ==
  /\ job[j].pc \in {"fetchState", "clone", "send"}
  /\ Return(j)
  /\ UNCHANGED <<chainVars, mirrored, active, tasks, storage, steady>>

\* The process stops (for another one, this is as if a call threw).
Crash ==
  /\ storage' = EmptyTrees
  /\ job' = [job EXCEPT ![Here] = Idle]
  /\ steady' = (steady /\ job[Here].pc # "saveAction")
  /\ UNCHANGED <<chainVars, mirrored, active, tasks>>

-----------------------------------------------------------------------------
ChainStep ==
  \/ \E t \in {NewTask} \cup 0 .. MaxActions - 1 : Dispatch(t)
  \/ \E tx \in mempool : Include(tx)
  \/ \E n \in 1 .. Len(log) : ReduceElsewhere(n)
  \/ Record

Update(j) ==
  \/ (\E n \in 0 .. reduced : Find(j, n) \/ FindNothing(j, n))
  \/ FindLastTask(j) \/ Create(j) \/ FindTask(j) \/ SaveTask(j) \/ SaveAction(j)
  \/ PassDone(j) \/ DuplicateTask(j)
  \/ FindTasks(j) \/ FindActive(j)

Rollup(j) ==
  \/ FindBatch(j) \/ FetchState(j)
  \/ CloneAndProve(j) \/ ProveFails(j) \/ Send(j)

Fail == Crash \/ \E j \in Job : FetchThrows(j) \/ UpdateThrows(j) \/ RollupThrows(j)

Next == ChainStep \/ (\E j \in Job : Update(j) \/ Skip(j) \/ Rollup(j)) \/ Fail

Spec == Init /\ [][Next]_vars

-----------------------------------------------------------------------------
(***************************************************************************)
(* Properties.                                                             *)
(***************************************************************************)
Sums == [ActionId -> 0 .. Many]

TreesOK(trees) ==
  /\ DOMAIN trees.task \in {0 .. n - 1 : n \in 0 .. Len(tasks)}
  /\ \A t \in DOMAIN trees.task : trees.task[t].create \in ActionId /\ trees.task[t].total \in Sums
  /\ \A c \in DOMAIN trees.commitment : trees.commitment[c] \in active

TypeOK ==
  /\ log \in Seq({NewTask} \cup 0 .. MaxActions - 1) /\ Len(log) <= MaxActions
  /\ mirrored \in 0 .. Len(log) /\ reduced \in 0 .. Len(log)
  /\ active \subseteq 1 .. mirrored /\ active \subseteq 1 .. reduced
  /\ \A tx \in mempool : tx.from \in 0 .. reduced /\ tx.actions \subseteq 1 .. mirrored
  /\ \A d \in DOMAIN tasks : /\ tasks[d].create \in Creates(1 .. reduced)
                             /\ tasks[d].encryptions \in Sums /\ tasks[d].total \in Sums
  /\ TreesOK(storage)
  /\ \A j \in Job : /\ job[j].pc \in PC /\ job[j].state \in 0 .. reduced
                    /\ job[j].actions \subseteq 1 .. mirrored
                    /\ job[j].nextTaskId \in 0 .. Len(tasks) /\ job[j].total \in Sums
  /\ steady \in BOOLEAN

(* The actions become active in the order of the chain, however passes     *)
(* overlap and stop: the commitment tree, whose index counts the active    *)
(* actions, therefore never holds a commitment at a wrong place.           *)
CommitmentsInPlace ==
  /\ active = 1 .. Cardinality(active)
  /\ LET leaves == InOrder(Adds(1 .. reduced))
     IN  \A c \in DOMAIN storage.commitment :
           c \in DOMAIN leaves /\ storage.commitment[c] = leaves[c]

(* An active action, which no later pass repeats, has its encryption in    *)
(* the document of its task; whatever the passes overwrite, a total never  *)
(* counts an action more often than its encryptions do.                    *)
ActiveHasEncryption ==
  /\ \A i \in Adds(active) : log[i] < Len(tasks) /\ tasks[log[i] + 1].encryptions[i] >= 1
  /\ \A d \in DOMAIN tasks, i \in ActionId : tasks[d].total[i] <= tasks[d].encryptions[i]

\* The actions whose effect is in the task documents.
Applied == active \cup UNION {Reached(job[j].actions) : j \in {k \in Job : job[k].pc = "saveAction"}}

(* As long as no pass overlapped another one or stopped between a task and *)
(* its action, the documents are what the contract computes: the tasks in  *)
(* the order of their creation, each action in one total, once.            *)
ExactWhileSteady ==
  steady =>
    LET creates == InOrder(Creates(Applied))
    IN  /\ Len(tasks) = Cardinality(Creates(Applied))
        /\ \A t \in DOMAIN creates :
             tasks[t + 1] = [create |-> creates[t],
                             encryptions |-> OnceEach(AddsTo(t, Applied)),
                             total |-> OnceEach(AddsTo(t, Applied))]

(* ... and a leaf in memory is the one that the contract had at some time: *)
(* trees that are as many actions ahead as the contract are its trees.     *)
LeavesAreBehind ==
  steady =>
    LET creates == InOrder(Creates(1 .. reduced))
    IN  \A t \in DOMAIN storage.task :
          /\ t \in DOMAIN creates /\ storage.task[t].create = creates[t]
          /\ \E n \in 0 .. reduced : storage.task[t].total = OnceEach(AddsTo(t, 1 .. n))

(* The trees hold what the contract had at some time: the tasks as long as *)
(* the passes are steady, the commitments in any case.                     *)
TreesAreBehind == LeavesAreBehind /\ CommitmentsInPlace

(* The document of the task that an action adds to is always found (the     *)
(* code does not look): the creations among the active actions all have    *)
(* one, or another one in its place.                                       *)
TasksSuffice ==
  /\ Len(tasks) >= Cardinality(Creates(active))
  /\ \A j \in Job : job[j].pc = "next" =>
       \A i \in Reached(job[j].actions) : log[i] < Len(tasks)

(* Whatever the passes overwrite, no vote is without a task: those that    *)
(* are active are in a document, those that are next find theirs.          *)
VotesHaveTasks == ActiveHasEncryption /\ TasksSuffice
=============================================================================
