---------------------------- MODULE RequesterProofs ----------------------------
(***************************************************************************)
(* What a requester contract guarantees for any number of jobs, tasks and  *)
(* actions.  The argument: what a pass has left begins right after the     *)
(* active actions, or among them, so that all that a job marks is next or  *)
(* active already, and the active actions are those up to one number; a    *)
(* creation that is active has a document, so that a vote, which was       *)
(* admitted for one of the tasks before it, finds one.  As long as the     *)
(* history is steady, the documents are what the contract computed from    *)
(* the actions up to one number.                                           *)
(***************************************************************************)
EXTENDS Requester, FiniteSetTheorems, TLAPS

IsLocal(l) ==
  l = [pc |-> l.pc, state |-> l.state, actions |-> l.actions, nextTaskId |-> l.nextTaskId,
       total |-> l.total]

\* A vote is for a task that was created before it.
LogRight ==
  /\ log \in Seq({NewTask} \cup Nat) /\ Len(log) <= MaxActions
  /\ \A i \in DOMAIN log : log[i] < Cardinality(Creates(1 .. i - 1))
  /\ reduced \in 0 .. Len(log) /\ mirrored \in 0 .. Len(log)
  /\ \A tx \in mempool : tx.from \in 0 .. reduced /\ tx.actions \subseteq 1 .. mirrored

\* The active actions are those up to one number.
ActiveRight ==
  /\ active \subseteq 1 .. mirrored /\ active \subseteq 1 .. reduced
  /\ \A i \in active : 1 .. i \subseteq active

TasksRight ==
  /\ tasks \in Seq([create : ActionId, encryptions : Sums, total : Sums])
  /\ \A d \in DOMAIN tasks : /\ tasks[d].create \in Creates(1 .. reduced)
                             /\ \A i \in ActionId : tasks[d].total[i] <= tasks[d].encryptions[i]
  /\ Cardinality(Creates(active)) <= Len(tasks)

\* The vote i is in the document of its task.
HasEncryption(i) == log[i] < Len(tasks) /\ tasks[log[i] + 1].encryptions[i] >= 1

EncryptionsRight == \A i \in Adds(active) : HasEncryption(i)

IsStorage(s) == s = [task |-> s.task, commitment |-> s.commitment]

StorageRight ==
  /\ IsStorage(storage)
  /\ DOMAIN storage.task \in {0 .. n - 1 : n \in 0 .. Len(tasks)}
  /\ \A t \in DOMAIN storage.task :
       storage.task[t].create \in ActionId /\ storage.task[t].total \in Sums
  /\ LET leaves == InOrder(Adds(1 .. reduced))
     IN  \A c \in DOMAIN storage.commitment :
           /\ c \in DOMAIN leaves /\ storage.commitment[c] = leaves[c]
           /\ storage.commitment[c] \in active

\* No action is left out between the active ones and those that a pass has left.
Adjacent(ids) == \A i \in ids : \A h \in 1 .. i - 1 : h \in ids \/ h \in active

Passing == {"findLastTask", "next", "saveTask", "saveAction"}

LocalRight(l) ==
  /\ IsLocal(l) /\ l.pc \in PC
  /\ l.state \in 0 .. reduced /\ l.actions \subseteq 1 .. mirrored
  /\ l.nextTaskId \in 0 .. Len(tasks) /\ l.total \in Sums
  /\ l.pc \in Passing => l.actions \subseteq 1 .. reduced /\ Adjacent(l.actions)
  /\ l.pc \in {"saveTask", "saveAction"} => l.actions # {}
  /\ l.pc = "saveTask" =>
       \A i \in Reached(l.actions) :
         /\ log[i] \in 0 .. Len(tasks) - 1
         /\ \A h \in ActionId : l.total[h] <= tasks[log[i] + 1].encryptions[h]
  /\ l.pc = "saveAction" =>
       \A i \in Reached(l.actions) :
         /\ log[i] # NewTask => HasEncryption(i)
         /\ Cardinality(Creates(active \cup {i})) <= Len(tasks)

Right ==
  /\ LogRight /\ ActiveRight /\ TasksRight /\ StorageRight /\ EncryptionsRight
  /\ DOMAIN job = Job /\ \A j \in Job : LocalRight(job[j])
  /\ steady \in BOOLEAN

\* The documents are what the contract computes from the first m actions.
ExactUpTo(m) ==
  LET creates == InOrder(Creates(1 .. m))
  IN  /\ Len(tasks) = Cardinality(Creates(1 .. m))
      /\ \A t \in DOMAIN creates :
           tasks[t + 1] = [create |-> creates[t],
                           encryptions |-> OnceEach(AddsTo(t, 1 .. m)),
                           total |-> OnceEach(AddsTo(t, 1 .. m))]

SteadyLocal(l) ==
  /\ l.pc \in Passing => l.actions \cap active = {}
  /\ l.pc \in {"next", "saveTask", "saveAction"} => l.nextTaskId = Len(tasks)
  /\ l.pc = "saveTask" => \A i \in Reached(l.actions) : l.total = tasks[log[i] + 1].total

OnePass == \A j, k \in Job : InPass(j) /\ InPass(k) => j = k

SteadyNow ==
  /\ OnePass /\ \A j \in Job : SteadyLocal(job[j])
  /\ \E m \in 0 .. reduced : Applied = 1 .. m /\ ExactUpTo(m)

SteadyRight == steady => SteadyNow

\* What grows.
Grows ==
  /\ \A i \in DOMAIN log : i \in DOMAIN log' /\ log'[i] = log[i]
  /\ reduced <= reduced' /\ mirrored <= mirrored' /\ active \subseteq active'
  /\ Len(tasks) <= Len(tasks')
  /\ \A d \in DOMAIN tasks, i \in ActionId : tasks[d].encryptions[i] <= tasks'[d].encryptions[i]
  /\ \A i \in 1 .. reduced :
       1 .. i - 1 \subseteq active /\ Cardinality(Creates(active \cup {i})) <= Len(tasks) =>
         Cardinality(Creates(active \cup {i}))' <= Len(tasks')

-----------------------------------------------------------------------------
(***************************************************************************)
(* InOrder(ids): the n-th id is the one with n below it.                   *)
(***************************************************************************)
Below(S, i) == {h \in S : h < i}

LEMMA BoundedIs ==
  ASSUME NEW n \in Nat, NEW S, S \subseteq 1 .. n
  PROVE  /\ IsFiniteSet(S) /\ Cardinality(S) \in Nat /\ Cardinality(S) <= n /\ S \subseteq Nat
<1>1. IsFiniteSet(1 .. n) /\ Cardinality(1 .. n) = IF 1 > n THEN 0 ELSE n - 1 + 1
  BY FS_Interval
<1>2. Cardinality(1 .. n) = n
  BY <1>1
<1>3. IsFiniteSet(S) /\ Cardinality(S) <= n
  BY <1>1, <1>2, FS_Subset
<1> QED
  BY <1>3, FS_CardinalityType

(* The numbers below the elements of a finite set are distinct, and are    *)
(* all numbers below its cardinality.                                      *)
LEMMA RankIs ==
  ASSUME NEW S, S \subseteq Nat, IsFiniteSet(S)
  PROVE  /\ Cardinality(S) \in Nat
         /\ \A i \in S : Cardinality(Below(S, i)) \in 0 .. Cardinality(S) - 1
         /\ \A i, j \in S : Cardinality(Below(S, i)) = Cardinality(Below(S, j)) => i = j
         /\ \A n \in 0 .. Cardinality(S) - 1 : \E i \in S : Cardinality(Below(S, i)) = n
<1>1. Cardinality(S) \in Nat
  BY FS_CardinalityType
<1>2. \A i : IsFiniteSet(Below(S, i)) /\ Cardinality(Below(S, i)) \in Nat
  <2> SUFFICES ASSUME NEW i PROVE IsFiniteSet(Below(S, i)) /\ Cardinality(Below(S, i)) \in Nat
    OBVIOUS
  <2>1. Below(S, i) \in SUBSET S
    BY DEF Below
  <2> QED
    BY <2>1, FS_Subset, FS_CardinalityType
<1>3. ASSUME NEW i \in S PROVE Cardinality(Below(S, i)) \in 0 .. Cardinality(S) - 1
  <2>1. IsFiniteSet(S \ {i}) /\ Cardinality(S \ {i}) = IF i \in S THEN Cardinality(S) - 1 ELSE Cardinality(S)
    BY FS_RemoveElement
  <2>2. Below(S, i) \in SUBSET (S \ {i})
    BY DEF Below
  <2>3. Cardinality(Below(S, i)) <= Cardinality(S \ {i})
    BY <2>1, <2>2, FS_Subset
  <2> QED
    BY <1>1, <1>2, <2>1, <2>3
<1>4. ASSUME NEW i \in S, NEW j \in S, i < j
      PROVE  Cardinality(Below(S, i)) < Cardinality(Below(S, j))
  <2>0. i \in Nat /\ j \in Nat /\ ~ (i < i) /\ \A h \in S : h < i => h < j
    BY <1>4
  <2>1. i \notin Below(S, i) /\ Below(S, i) \cup {i} \in SUBSET Below(S, j)
    BY <1>4, <2>0 DEF Below
  <2>2. Cardinality(Below(S, i) \cup {i}) = IF i \in Below(S, i) THEN Cardinality(Below(S, i))
                                            ELSE Cardinality(Below(S, i)) + 1
    BY <1>2, FS_AddElement
  <2>3. Cardinality(Below(S, i) \cup {i}) <= Cardinality(Below(S, j))
    BY <1>2, <2>1, FS_Subset
  <2>4. Cardinality(Below(S, i)) \in Nat /\ Cardinality(Below(S, j)) \in Nat
    BY <1>2
  <2> QED
    BY <2>1, <2>2, <2>3, <2>4
<1>5. ASSUME NEW i \in S, NEW j \in S, Cardinality(Below(S, i)) = Cardinality(Below(S, j))
      PROVE  i = j
  <2>1. ~ (i < j) /\ ~ (j < i)
    BY <1>2, <1>4, <1>5
  <2>2. i \in Nat /\ j \in Nat
    OBVIOUS
  <2> QED
    BY <2>1, <2>2
<1>6. ASSUME NEW n \in 0 .. Cardinality(S) - 1 PROVE \E i \in S : Cardinality(Below(S, i)) = n
  <2> DEFINE T == 0 .. Cardinality(S) - 1
             f == [i \in S |-> Cardinality(Below(S, i))]
  <2>1. IsFiniteSet(T) /\ Cardinality(T) = IF 0 > Cardinality(S) - 1 THEN 0 ELSE Cardinality(S) - 1 - 0 + 1
    <3>1. 0 \in Int /\ Cardinality(S) - 1 \in Int
      BY <1>1
    <3> QED
      BY <3>1, FS_Interval
  <2>2. Cardinality(T) = Cardinality(S)
    BY <1>1, <2>1
  <2>3. f \in Injection(S, T)
    <3>1. f \in [S -> T]
      BY <1>3
    <3>2. \A i, j \in S : f[i] = f[j] => i = j
      BY <1>5
    <3> HIDE DEF f, T
    <3> QED
      BY <3>1, <3>2 DEF Injection, IsInjective
  <2>4. f \in Surjection(S, T)
    <3> HIDE DEF f, T
    <3> QED
      BY <2>1, <2>2, <2>3, FS_Injection
  <2>5. \E i \in S : f[i] = n
    <3>1. n \in T
      BY <1>6
    <3> HIDE DEF f, T
    <3> QED
      BY <2>4, <3>1 DEF Surjection
  <2> QED
    BY <2>5
<1> QED
  BY <1>1, <1>3, <1>5, <1>6

LEMMA InOrderIs ==
  ASSUME NEW S, S \subseteq Nat, IsFiniteSet(S)
  PROVE  /\ DOMAIN InOrder(S) = 0 .. Cardinality(S) - 1 /\ Cardinality(S) \in Nat
         /\ \A n \in DOMAIN InOrder(S) : /\ InOrder(S)[n] \in S
                                         /\ Cardinality(Below(S, InOrder(S)[n])) = n
         /\ \A i \in S : /\ Cardinality(Below(S, i)) \in DOMAIN InOrder(S)
                         /\ InOrder(S)[Cardinality(Below(S, i))] = i
<1>1. DOMAIN InOrder(S) = 0 .. Cardinality(S) - 1
  BY DEF InOrder
<1>2. \A n \in 0 .. Cardinality(S) - 1 : InOrder(S)[n] = CHOOSE i \in S : Cardinality(Below(S, i)) = n
  BY DEF InOrder, Below
<1>3. ASSUME NEW n \in 0 .. Cardinality(S) - 1
      PROVE  InOrder(S)[n] \in S /\ Cardinality(Below(S, InOrder(S)[n])) = n
  <2>1. \E i \in S : Cardinality(Below(S, i)) = n
    BY RankIs
  <2> QED
    BY <1>2, <2>1
<1>4. ASSUME NEW i \in S
      PROVE  /\ Cardinality(Below(S, i)) \in DOMAIN InOrder(S)
             /\ InOrder(S)[Cardinality(Below(S, i))] = i
  <2>1. Cardinality(Below(S, i)) \in 0 .. Cardinality(S) - 1
    BY RankIs
  <2>2. /\ InOrder(S)[Cardinality(Below(S, i))] \in S
        /\ Cardinality(Below(S, InOrder(S)[Cardinality(Below(S, i))])) = Cardinality(Below(S, i))
    BY <1>3, <2>1
  <2> QED
    BY <1>1, <2>1, <2>2, RankIs
<1> QED
  BY <1>1, <1>3, <1>4, RankIs

(* What is in order up to a number stays in its place.                     *)
LEMMA InOrderPrefix ==
  ASSUME NEW T, T \subseteq Nat, IsFiniteSet(T), NEW S, S \subseteq T,
         \A i \in S : \A h \in T : h < i => h \in S
  PROVE  \A n \in DOMAIN InOrder(S) : n \in DOMAIN InOrder(T) /\ InOrder(T)[n] = InOrder(S)[n]
<1>1. IsFiniteSet(S) /\ S \subseteq Nat
  BY FS_Subset
<1> SUFFICES ASSUME NEW n \in DOMAIN InOrder(S)
             PROVE  n \in DOMAIN InOrder(T) /\ InOrder(T)[n] = InOrder(S)[n]
  OBVIOUS
<1>2. PICK i : i = InOrder(S)[n]
  OBVIOUS
<1>3. i \in S /\ Cardinality(Below(S, i)) = n
  BY <1>1, <1>2, InOrderIs
<1>4. Below(S, i) = Below(T, i) /\ i \in T
  BY <1>3 DEF Below
<1>5. /\ Cardinality(Below(T, i)) \in DOMAIN InOrder(T)
      /\ InOrder(T)[Cardinality(Below(T, i))] = i
  BY <1>4, InOrderIs
<1> QED
  BY <1>2, <1>3, <1>4, <1>5

LEMMA InOrderNext ==
  ASSUME NEW S, S \subseteq Nat, IsFiniteSet(S), NEW x \in Nat, \A i \in S : i < x
  PROVE  /\ DOMAIN InOrder(S \cup {x}) = 0 .. Cardinality(S) /\ Cardinality(S) \in Nat
         /\ Cardinality(S \cup {x}) = Cardinality(S) + 1
         /\ InOrder(S \cup {x})[Cardinality(S)] = x
         /\ \A n \in DOMAIN InOrder(S) : InOrder(S \cup {x})[n] = InOrder(S)[n]
<1> DEFINE T == S \cup {x}
<1>1. x \notin S
  <2>1. ~ (x < x)
    OBVIOUS
  <2> QED
    BY <2>1
<1>2. IsFiniteSet(T) /\ T \subseteq Nat
  BY FS_AddElement
<1>3. Cardinality(T) = Cardinality(S) + 1 /\ Cardinality(S) \in Nat
  BY <1>1, FS_AddElement, FS_CardinalityType
<1>4. DOMAIN InOrder(T) = 0 .. Cardinality(S)
  <2>1. DOMAIN InOrder(T) = 0 .. Cardinality(T) - 1
    BY <1>2, InOrderIs
  <2> QED
    BY <1>3, <2>1
<1>5. Below(T, x) = S
  <2>1. ~ (x < x)
    OBVIOUS
  <2> QED
    BY <2>1 DEF Below
<1>6. InOrder(T)[Cardinality(S)] = x
  <2>1. x \in T
    OBVIOUS
  <2> HIDE DEF T
  <2>2. InOrder(T)[Cardinality(Below(T, x))] = x
    BY <1>2, <2>1, InOrderIs
  <2> QED
    BY <1>5, <2>2
<1>7. \A i \in S : \A h \in T : h < i => h \in S
  <2> SUFFICES ASSUME NEW i \in S, x < i PROVE FALSE
    OBVIOUS
  <2>1. i < x /\ i \in Nat
    OBVIOUS
  <2> QED
    BY <2>1
<1>8. \A n \in DOMAIN InOrder(S) : InOrder(T)[n] = InOrder(S)[n]
  <2> HIDE DEF T
  <2>1. S \subseteq T
    BY DEF T
  <2> QED
    BY <1>2, <1>7, <2>1, InOrderPrefix
<1> QED
  BY <1>3, <1>4, <1>6, <1>8

-----------------------------------------------------------------------------
(***************************************************************************)
(* The creations up to a number.                                           *)
(***************************************************************************)
LEMMA Bounds ==
  /\ MaxActions \in Nat /\ NewTask = -1 /\ Here \in Job
BY RequesterAssumption DEF NewTask

LEMMA LogIs ==
  ASSUME LogRight
  PROVE  /\ Len(log) \in Nat /\ DOMAIN log = 1 .. Len(log) /\ DOMAIN log \subseteq ActionId
         /\ reduced \in Nat /\ mirrored \in Nat /\ reduced <= Len(log) /\ mirrored <= Len(log)
         /\ \A i \in DOMAIN log : log[i] = NewTask \/ log[i] \in Nat
<1>1. Len(log) \in Nat /\ DOMAIN log = 1 .. Len(log)
  BY DEF LogRight
<1>2. DOMAIN log \subseteq ActionId
  BY <1>1, Bounds DEF LogRight, ActionId
<1>3. reduced \in Nat /\ mirrored \in Nat /\ reduced <= Len(log) /\ mirrored <= Len(log)
  BY <1>1 DEF LogRight
<1> QED
  BY <1>1, <1>2, <1>3 DEF LogRight

LEMMA CreatesAre ==
  ASSUME NEW m \in Nat, NEW ids, ids \subseteq 1 .. m
  PROVE  /\ Creates(ids) \subseteq ids /\ Adds(ids) \subseteq ids
         /\ IsFiniteSet(Creates(ids)) /\ Cardinality(Creates(ids)) \in Nat
         /\ Creates(ids) \subseteq Nat /\ Cardinality(Creates(ids)) <= m
         /\ IsFiniteSet(Adds(ids)) /\ Adds(ids) \subseteq Nat
<1>1. Creates(ids) \subseteq ids /\ Adds(ids) \subseteq ids
  BY DEF Creates, Adds
<1>2. Creates(ids) \subseteq 1 .. m /\ Adds(ids) \subseteq 1 .. m
  BY <1>1
<1> QED
  BY <1>1, <1>2, BoundedIs

LEMMA CreatesGrow ==
  ASSUME NEW m \in Nat, NEW T, T \subseteq 1 .. m, NEW S, S \subseteq T
  PROVE  /\ Creates(S) \subseteq Creates(T) /\ Cardinality(Creates(S)) <= Cardinality(Creates(T))
         /\ Cardinality(Creates(S)) \in Nat /\ Cardinality(Creates(T)) \in Nat
<1>1. Creates(S) \in SUBSET Creates(T)
  BY DEF Creates
<1>2. IsFiniteSet(Creates(T)) /\ Cardinality(Creates(T)) \in Nat
  BY CreatesAre
<1>3. Cardinality(Creates(S)) \in Nat
  BY CreatesAre
<1> QED
  BY <1>1, <1>2, <1>3, FS_Subset

LEMMA CreatesNext ==
  ASSUME NEW m \in Nat, NEW ids, ids \subseteq 1 .. m, NEW i
  PROVE  /\ log[i] # NewTask => Creates(ids \cup {i}) = Creates(ids)
         /\ log[i] = NewTask => Creates(ids \cup {i}) = Creates(ids) \cup {i}
         /\ Cardinality(Creates(ids \cup {i})) <= Cardinality(Creates(ids)) + 1
         /\ Cardinality(Creates(ids \cup {i})) \in Nat /\ Cardinality(Creates(ids)) \in Nat
<1>1. /\ log[i] # NewTask => Creates(ids \cup {i}) = Creates(ids)
      /\ log[i] = NewTask => Creates(ids \cup {i}) = Creates(ids) \cup {i}
  BY DEF Creates
<1>2. IsFiniteSet(Creates(ids)) /\ Cardinality(Creates(ids)) \in Nat
  BY CreatesAre
<1>3. Cardinality(Creates(ids) \cup {i}) =
        IF i \in Creates(ids) THEN Cardinality(Creates(ids)) ELSE Cardinality(Creates(ids)) + 1
  BY <1>2, FS_AddElement
<1>4. Cardinality(Creates(ids) \cup {i}) <= Cardinality(Creates(ids)) + 1
  BY <1>2, <1>3
<1>5. Cardinality(Creates(ids) \cup {i}) \in Nat
  BY <1>2, <1>3
<1>6. CASE log[i] # NewTask
  BY <1>1, <1>2, <1>6
<1>7. CASE log[i] = NewTask
  BY <1>1, <1>2, <1>4, <1>5, <1>7
<1> QED
  BY <1>6, <1>7

-----------------------------------------------------------------------------
(***************************************************************************)
(* The active actions, and what a pass has left.                           *)
(***************************************************************************)
LEMMA SmallestIs ==
  ASSUME NEW n \in Nat, NEW S, S \subseteq 1 .. n, S # {}
  PROVE  \E i \in S : \A h \in S : i <= h
<1>1. IsFiniteSet(S) /\ Cardinality(S) \in Nat /\ S \subseteq Nat
  BY BoundedIs
<1>2. Cardinality(S) # 0
  BY <1>1, FS_EmptySet
<1>3. 0 \in 0 .. Cardinality(S) - 1
  BY <1>1, <1>2
<1>4. PICK i \in S : Cardinality(Below(S, i)) = 0
  BY <1>1, <1>3, RankIs
<1>5. IsFiniteSet(Below(S, i))
  <2>1. Below(S, i) \in SUBSET S
    BY DEF Below
  <2> QED
    BY <1>1, <2>1, FS_Subset
<1>6. Below(S, i) = {}
  BY <1>4, <1>5, FS_EmptySet
<1>7. \A h \in S : h \in Nat /\ i \in Nat /\ ~ (h < i)
  BY <1>1, <1>6 DEF Below
<1> QED
  BY <1>7

LEMMA ReachedIs ==
  ASSUME NEW n \in Nat, NEW ids, ids \subseteq 1 .. n
  PROVE  /\ Reached(ids) \subseteq ids
         /\ \A i \in Reached(ids) : Reached(ids) = {i} /\ i \in 1 .. n
         /\ ids # {} => \E i : Reached(ids) = {i} /\ i \in ids
<1>1. Reached(ids) \subseteq ids
  BY DEF Reached
<1>2. ASSUME NEW i \in Reached(ids) PROVE Reached(ids) = {i} /\ i \in 1 .. n
  <2>1. \A h \in Reached(ids) : h \in Nat /\ i \in Nat /\ h <= i /\ i <= h
    BY <1>1 DEF Reached
  <2>2. \A h \in Reached(ids) : h = i
    BY <2>1
  <2> QED
    BY <1>1, <2>2
<1>3. ASSUME ids # {} PROVE \E i : Reached(ids) = {i} /\ i \in ids
  <2>1. PICK i \in ids : \A h \in ids : i <= h
    BY <1>3, SmallestIs
  <2>2. i \in Reached(ids)
    BY <2>1 DEF Reached
  <2> QED
    BY <1>2, <2>2
<1> QED
  BY <1>1, <1>2, <1>3

(* The active actions are those up to a number.                            *)
LEMMA ActiveIs ==
  ASSUME LogRight, ActiveRight
  PROVE  \E m \in 0 .. reduced : /\ active = 1 .. m /\ m <= mirrored /\ Cardinality(active) = m
<1>0. mirrored \in Nat /\ reduced \in Nat
  BY LogIs
<1> DEFINE S == (1 .. mirrored + 1) \ active
<1>1. mirrored + 1 \in S /\ S \subseteq 1 .. mirrored + 1
  BY <1>0 DEF ActiveRight
<1>2. PICK i \in S : \A h \in S : i <= h
  <2> HIDE DEF S
  <2>1. mirrored + 1 \in Nat /\ S # {}
    BY <1>0, <1>1
  <2> QED
    BY <1>1, <2>1, SmallestIs
<1>3. i \in 1 .. mirrored + 1 /\ i \notin active
  BY <1>1
<1>4. 1 .. i - 1 \subseteq active
  <2> SUFFICES ASSUME NEW h \in 1 .. i - 1, h \notin active PROVE FALSE
    OBVIOUS
  <2>1. h \in S
    BY <1>0, <1>3
  <2>2. i <= h
    BY <1>2, <2>1
  <2> QED
    BY <1>0, <1>3, <2>2
<1>5. active \subseteq 1 .. i - 1
  <2> SUFFICES ASSUME NEW h \in active, h \notin 1 .. i - 1 PROVE FALSE
    OBVIOUS
  <2>1. h \in 1 .. mirrored /\ 1 .. h \subseteq active
    BY DEF ActiveRight
  <2>2. i \in 1 .. h
    BY <1>0, <1>3, <2>1
  <2> QED
    BY <1>3, <2>1, <2>2
<1>6. active = 1 .. i - 1 /\ i - 1 \in Nat
  <2>1. active = 1 .. i - 1
    BY <1>4, <1>5
  <2> QED
    BY <1>0, <1>3, <2>1
<1>7. i - 1 <= reduced
  <2>1. i - 1 \in 1 .. i - 1 => i - 1 \in 1 .. reduced
    BY <1>6 DEF ActiveRight
  <2> QED
    BY <1>0, <1>6, <2>1
<1>8. Cardinality(active) = i - 1
  <2>1. Cardinality(1 .. i - 1) = IF 1 > i - 1 THEN 0 ELSE (i - 1) - 1 + 1
    BY <1>6, FS_Interval
  <2> QED
    BY <1>6, <2>1
<1> QED
  BY <1>0, <1>3, <1>6, <1>7, <1>8

(* All below what a pass has reached is active.                            *)
LEMMA NearbyIs ==
  ASSUME NEW n \in Nat, NEW ids, ids \subseteq 1 .. n, Adjacent(ids), NEW i \in Reached(ids)
  PROVE  1 .. i - 1 \subseteq active /\ i \in 1 .. n /\ i \in ids
<1>1. i \in ids /\ i \in 1 .. n /\ \A h \in ids : i <= h
  BY DEF Reached
<1>2. ASSUME NEW h \in 1 .. i - 1 PROVE h \in active
  <2>1. h \in ids \/ h \in active
    BY <1>1 DEF Adjacent
  <2>2. ~ (i <= h)
    BY <1>1
  <2> QED
    BY <1>1, <2>1, <2>2
<1> QED
  BY <1>1, <1>2

-----------------------------------------------------------------------------
(***************************************************************************)
(* The documents.                                                          *)
(***************************************************************************)
LEMMA PlusIs ==
  ASSUME NEW s \in Sums, NEW i \in ActionId
  PROVE  /\ Plus(s, i) \in Sums /\ Plus(s, i)[i] >= 1
         /\ \A h \in ActionId : s[h] \in 0 .. Many /\ Plus(s, i)[h] \in 0 .. Many /\ s[h] <= Plus(s, i)[h]
         /\ \A u \in Sums : (\A h \in ActionId : s[h] <= u[h]) =>
              \A h \in ActionId : Plus(s, i)[h] <= Plus(u, i)[h]
<1>1. \A u \in Sums : \A h \in ActionId :
        /\ u[h] \in 0 .. 2
        /\ Plus(u, i)[h] = IF h = i THEN (IF u[h] < 2 THEN u[h] + 1 ELSE 2) ELSE u[h]
  BY DEF Sums, Plus, Many
<1>2. Plus(s, i) \in Sums
  BY DEF Sums, Plus, Many
<1>3. \A u \in Sums : \A h \in ActionId : s[h] <= u[h] => Plus(s, i)[h] <= Plus(u, i)[h]
  BY <1>1
<1>4. \A h \in ActionId : s[h] \in 0 .. 2 /\ Plus(s, i)[h] \in 0 .. 2 /\ s[h] <= Plus(s, i)[h]
  BY <1>1
<1>5. Plus(s, i)[i] >= 1
  BY <1>1
<1> QED
  BY <1>2, <1>3, <1>4, <1>5 DEF Many

LEMMA NoneIs == None \in Sums /\ \A h \in ActionId : None[h] = 0
BY DEF None, Sums, Many

LEMMA DocumentsAre ==
  ASSUME NEW docs \in Seq([create : ActionId, encryptions : Sums, total : Sums])
  PROVE  /\ Len(docs) \in Nat /\ DOMAIN docs = 1 .. Len(docs)
         /\ \A d \in DOMAIN docs :
              /\ docs[d] = [create |-> docs[d].create, encryptions |-> docs[d].encryptions,
                            total |-> docs[d].total]
              /\ docs[d].create \in ActionId /\ docs[d].encryptions \in Sums /\ docs[d].total \in Sums
              /\ \A i \in ActionId : /\ docs[d].encryptions[i] \in 0 .. Many
                                     /\ docs[d].total[i] \in 0 .. Many
<1> DEFINE T == [create : ActionId, encryptions : Sums, total : Sums]
<1>1. docs \in Seq(T)
  OBVIOUS
<1> HIDE DEF T
<1>2. Len(docs) \in Nat /\ DOMAIN docs = 1 .. Len(docs) /\ \A d \in DOMAIN docs : docs[d] \in T
  BY <1>1
<1>3. \A d \in DOMAIN docs :
        /\ docs[d] = [create |-> docs[d].create, encryptions |-> docs[d].encryptions,
                       total |-> docs[d].total]
        /\ docs[d].create \in ActionId /\ docs[d].encryptions \in Sums /\ docs[d].total \in Sums
  BY <1>2 DEF T
<1>4. \A s \in Sums : \A i \in ActionId : s[i] \in 0 .. Many
  BY DEF Sums
<1> QED
  BY <1>2, <1>3, <1>4

LEMMA TasksAre ==
  ASSUME TasksRight
  PROVE  /\ Len(tasks) \in Nat /\ DOMAIN tasks = 1 .. Len(tasks)
         /\ \A d \in DOMAIN tasks :
              /\ tasks[d] = [create |-> tasks[d].create, encryptions |-> tasks[d].encryptions,
                             total |-> tasks[d].total]
              /\ tasks[d].create \in ActionId /\ tasks[d].encryptions \in Sums /\ tasks[d].total \in Sums
              /\ \A i \in ActionId : /\ tasks[d].encryptions[i] \in 0 .. Many
                                     /\ tasks[d].total[i] \in 0 .. Many
BY DocumentsAre DEF TasksRight

(* What is in a document stays there.                                      *)
LEMMA HasKeeps ==
  ASSUME LogRight, TasksRight, LogRight', TasksRight', Grows, NEW i \in 1 .. reduced,
         log[i] # NewTask, HasEncryption(i)
  PROVE  HasEncryption(i)'
<1>1. i \in DOMAIN log /\ i \in ActionId /\ log[i] \in Nat
  BY LogIs
<1>2. log'[i] = log[i]
  BY <1>1 DEF Grows
<1>3. /\ Len(tasks) \in Nat /\ DOMAIN tasks = 1 .. Len(tasks)
      /\ \A d \in DOMAIN tasks : tasks[d].encryptions[i] \in 0 .. Many
  BY <1>1, TasksAre
<1>4. /\ Len(tasks') \in Nat /\ DOMAIN tasks' = 1 .. Len(tasks')
      /\ \A d \in DOMAIN tasks' : tasks'[d].encryptions[i] \in 0 .. Many
  <2>1. tasks' \in Seq([create : ActionId, encryptions : Sums, total : Sums])
    BY DEF TasksRight
  <2> QED
    BY <1>1, <2>1, DocumentsAre
<1>5. log[i] < Len(tasks) /\ log[i] + 1 \in DOMAIN tasks /\ tasks[log[i] + 1].encryptions[i] >= 1
  BY <1>1, <1>3 DEF HasEncryption
<1>6. Len(tasks) <= Len(tasks') /\ tasks[log[i] + 1].encryptions[i] <= tasks'[log[i] + 1].encryptions[i]
  BY <1>1, <1>5 DEF Grows
<1>7. log[i] < Len(tasks') /\ log[i] + 1 \in DOMAIN tasks'
  BY <1>1, <1>3, <1>4, <1>5, <1>6
<1>8. tasks'[log[i] + 1].encryptions[i] >= 1
  BY <1>3, <1>4, <1>5, <1>6, <1>7 DEF Many
<1> QED
  BY <1>2, <1>7, <1>8 DEF HasEncryption

(* The local variables of a job stay right while everything grows.         *)
LEMMA LocalKeeps ==
  ASSUME LogRight, ActiveRight, TasksRight, LogRight', TasksRight', Grows, NEW l, LocalRight(l)
  PROVE  LocalRight(l)'
<1>0. /\ reduced \in Nat /\ mirrored \in Nat /\ Len(tasks) \in Nat /\ DOMAIN tasks = 1 .. Len(tasks)
      /\ reduced <= Len(log) /\ DOMAIN log = 1 .. Len(log) /\ DOMAIN log \subseteq ActionId
  BY LogIs, TasksAre
<1>1. /\ reduced' \in Nat /\ mirrored' \in Nat /\ Len(tasks') \in Nat /\ DOMAIN tasks' = 1 .. Len(tasks')
      /\ \A d \in DOMAIN tasks', g \in ActionId : tasks'[d].encryptions[g] \in 0 .. Many
  <2>1. tasks' \in Seq([create : ActionId, encryptions : Sums, total : Sums])
    BY DEF TasksRight
  <2>2. Len(log') \in Nat /\ reduced' \in 0 .. Len(log') /\ mirrored' \in 0 .. Len(log')
    BY DEF LogRight
  <2>3. reduced' \in Nat /\ mirrored' \in Nat
    BY <2>2
  <2>4. /\ Len(tasks') \in Nat /\ DOMAIN tasks' = 1 .. Len(tasks')
        /\ \A d \in DOMAIN tasks' : \A g \in ActionId : tasks'[d].encryptions[g] \in 0 .. Many
    BY <2>1, DocumentsAre
  <2> QED
    BY <2>3, <2>4
<1>2. reduced <= reduced' /\ mirrored <= mirrored' /\ active \subseteq active' /\ Len(tasks) <= Len(tasks')
  BY DEF Grows
<1>3. /\ IsLocal(l) /\ l.pc \in PC /\ l.state \in 0 .. reduced /\ l.actions \subseteq 1 .. mirrored
      /\ l.nextTaskId \in 0 .. Len(tasks) /\ l.total \in Sums
      /\ l.pc \in Passing => l.actions \subseteq 1 .. reduced /\ Adjacent(l.actions)
      /\ l.pc \in {"saveTask", "saveAction"} => l.actions # {}
  BY DEF LocalRight
<1>4. /\ l.state \in 0 .. reduced' /\ l.actions \subseteq 1 .. mirrored' /\ l.nextTaskId \in 0 .. Len(tasks')
      /\ l.pc \in Passing => l.actions \subseteq 1 .. reduced'
  BY <1>0, <1>1, <1>2, <1>3
<1>5. Adjacent(l.actions) => Adjacent(l.actions)'
  BY <1>2 DEF Adjacent
<1>6. ASSUME l.pc = "saveTask", NEW i \in Reached(l.actions)
      PROVE  /\ log'[i] \in 0 .. Len(tasks') - 1
             /\ \A h \in ActionId : l.total[h] <= tasks'[log'[i] + 1].encryptions[h]
  <2>1. /\ log[i] \in 0 .. Len(tasks) - 1
        /\ \A h \in ActionId : l.total[h] <= tasks[log[i] + 1].encryptions[h]
    BY <1>6 DEF LocalRight
  <2>2. i \in 1 .. reduced
    BY <1>3, <1>6 DEF Reached, Passing
  <2>3. log'[i] = log[i]
    BY <1>0, <2>2 DEF Grows
  <2>4. log[i] + 1 \in DOMAIN tasks /\ log[i] + 1 \in DOMAIN tasks' /\ log[i] \in 0 .. Len(tasks') - 1
    BY <1>0, <1>1, <1>2, <2>1
  <2>5. ASSUME NEW h \in ActionId PROVE l.total[h] <= tasks'[log[i] + 1].encryptions[h]
    <3>1. /\ l.total[h] \in 0 .. Many /\ tasks[log[i] + 1].encryptions[h] \in 0 .. Many
      BY <1>3, <2>4, TasksAre DEF Sums
    <3>2. tasks'[log[i] + 1].encryptions[h] \in 0 .. Many
      BY <1>1, <2>4
    <3>3. tasks[log[i] + 1].encryptions[h] <= tasks'[log[i] + 1].encryptions[h]
      BY <2>4 DEF Grows
    <3> QED
      BY <2>1, <3>1, <3>2, <3>3 DEF Many
  <2> QED
    BY <2>3, <2>4, <2>5
<1>7. ASSUME l.pc = "saveAction", NEW i \in Reached(l.actions)
      PROVE  /\ log'[i] # NewTask => HasEncryption(i)'
             /\ Cardinality(Creates(active \cup {i}))' <= Len(tasks')
  <2>1. /\ log[i] # NewTask => HasEncryption(i)
        /\ Cardinality(Creates(active \cup {i})) <= Len(tasks)
    BY <1>7 DEF LocalRight
  <2>2. i \in 1 .. reduced /\ 1 .. i - 1 \subseteq active
    BY <1>0, <1>3, <1>7, NearbyIs DEF Passing
  <2>3. log'[i] = log[i]
    BY <1>0, <2>2 DEF Grows
  <2>4. log'[i] # NewTask => HasEncryption(i)'
    BY <2>1, <2>2, <2>3, HasKeeps
  <2> QED
    BY <2>1, <2>2, <2>4 DEF Grows
<1>8. Reached(l.actions)' = Reached(l.actions)
  BY DEF Reached
<1> QED
  BY <1>3, <1>4, <1>5, <1>6, <1>7, <1>8 DEF LocalRight, IsLocal

-----------------------------------------------------------------------------
(***************************************************************************)
(* What a step leaves right by what it leaves alone.                       *)
(***************************************************************************)
LEMMA GrowsQuietly ==
  ASSUME LogRight, TasksRight, \A i \in DOMAIN log : i \in DOMAIN log' /\ log'[i] = log[i],
         reduced <= reduced', mirrored <= mirrored', active \subseteq 1 .. reduced, active' = active,
         tasks' = tasks
  PROVE  Grows
<1>1. \A d \in DOMAIN tasks : \A i \in ActionId :
        tasks[d].encryptions[i] <= tasks'[d].encryptions[i]
  <2> SUFFICES ASSUME NEW d \in DOMAIN tasks, NEW i \in ActionId
               PROVE  tasks[d].encryptions[i] <= tasks[d].encryptions[i]
    OBVIOUS
  <2>1. tasks[d].encryptions[i] \in 0 .. Many
    BY TasksAre
  <2> QED
    BY <2>1 DEF Many
<1>2. Len(tasks) <= Len(tasks')
  BY TasksAre
<1>3. ASSUME NEW i \in 1 .. reduced, Cardinality(Creates(active \cup {i})) <= Len(tasks)
      PROVE  Cardinality(Creates(active \cup {i}))' <= Len(tasks')
  <2>1. 1 .. reduced \subseteq DOMAIN log
    BY LogIs
  <2>2. \A h \in active \cup {i} : log'[h] = log[h]
    BY <2>1
  <2>3. Creates(active \cup {i})' = Creates(active \cup {i})
    BY <2>2 DEF Creates
  <2> QED
    BY <1>3, <2>3
<1> QED
  BY <1>1, <1>2, <1>3 DEF Grows

(* What is committed stays in its place while the contract reduces more.   *)
LEMMA LeavesKeep ==
  ASSUME LogRight, LogRight', Grows, NEW S, S = Adds(1 .. reduced), NEW T, T = Adds(1 .. reduced)',
         NEW c \in DOMAIN InOrder(S)
  PROVE  c \in DOMAIN InOrder(T) /\ InOrder(T)[c] = InOrder(S)[c]
<1>1. reduced \in Nat /\ reduced' \in Nat /\ reduced <= reduced' /\ 1 .. reduced \subseteq DOMAIN log
  <2>1. Len(log') \in Nat /\ reduced' \in 0 .. Len(log')
    BY DEF LogRight
  <2> QED
    BY <2>1, LogIs DEF Grows
<1>2. S = {i \in 1 .. reduced : log[i] # NewTask} /\ T = {i \in 1 .. reduced' : log'[i] # NewTask}
  BY DEF Adds
<1>3. S \subseteq T /\ T \subseteq 1 .. reduced'
  BY <1>1, <1>2 DEF Grows
<1>4. \A i \in S : \A h \in T : h < i => h \in S
  BY <1>1, <1>2 DEF Grows
<1>5. T \subseteq Nat /\ IsFiniteSet(T)
  BY <1>1, <1>3, BoundedIs
<1> QED
  BY <1>3, <1>4, <1>5, InOrderPrefix

LEMMA StorageKeeps ==
  ASSUME LogRight, LogRight', Grows, StorageRight, TasksRight, Len(tasks') \in Nat, storage' = storage
  PROVE  StorageRight'
<1>1. Len(tasks) \in Nat /\ Len(tasks) <= Len(tasks') /\ active \subseteq active'
  BY TasksAre DEF Grows
<1>2. DOMAIN storage.task \in {0 .. n - 1 : n \in 0 .. Len(tasks')}
  <2>1. 0 .. Len(tasks) \subseteq 0 .. Len(tasks')
    BY <1>1
  <2> QED
    BY <2>1 DEF StorageRight
<1>3. PICK S : S = Adds(1 .. reduced)
  OBVIOUS
<1>4. PICK T : T = Adds(1 .. reduced)'
  OBVIOUS
<1>5. \A c \in DOMAIN storage.commitment :
        /\ c \in DOMAIN InOrder(S) /\ storage.commitment[c] = InOrder(S)[c]
        /\ storage.commitment[c] \in active
  BY <1>3 DEF StorageRight
<1>6. \A c \in DOMAIN storage.commitment :
        /\ c \in DOMAIN InOrder(T) /\ storage.commitment[c] = InOrder(T)[c]
        /\ storage.commitment[c] \in active'
  BY <1>1, <1>3, <1>4, <1>5, LeavesKeep
<1>7. /\ IsStorage(storage)
      /\ \A t \in DOMAIN storage.task :
           storage.task[t].create \in ActionId /\ storage.task[t].total \in Sums
  BY DEF StorageRight
<1> QED
  BY <1>2, <1>4, <1>6, <1>7 DEF StorageRight, IsStorage, InOrder

LEMMA EncryptionsKeep ==
  ASSUME LogRight, LogRight', ActiveRight, TasksRight, TasksRight', Grows, EncryptionsRight,
         NEW i \in active, log'[i] # NewTask
  PROVE  HasEncryption(i)'
<1>1. i \in 1 .. reduced /\ i \in DOMAIN log
  BY LogIs DEF ActiveRight
<1>2. log'[i] = log[i]
  BY <1>1 DEF Grows
<1>3. HasEncryption(i)
  BY <1>2 DEF EncryptionsRight, Adds
<1> QED
  BY <1>1, <1>2, <1>3, HasKeeps

(* Of the jobs, only j has changed, and is right.                          *)
LEMMA JobChanged ==
  ASSUME Right, LogRight', TasksRight', Grows, NEW j \in Job,
         \A k \in Job : k # j => job'[k] = job[k], LocalRight(job[j])'
  PROVE  \A k \in Job : LocalRight(job[k])'
<1>1. \A k \in Job : k # j => LocalRight(job'[k])
  BY DEF Right
<1>2. \A k \in Job : k # j => LocalRight(job[k])'
  BY <1>1, LocalKeeps DEF Right
<1> QED
  BY <1>2

LEMMA Quiet ==
  ASSUME Right, LogRight', \A i \in DOMAIN log : i \in DOMAIN log' /\ log'[i] = log[i],
         reduced <= reduced', mirrored <= mirrored', active' = active, tasks' = tasks
  PROVE  /\ Grows /\ ActiveRight' /\ TasksRight' /\ EncryptionsRight'
         /\ (storage' = storage => StorageRight')
<1>1. Grows
  BY GrowsQuietly DEF Right, ActiveRight
<1>2. /\ reduced \in Nat /\ reduced' \in Nat /\ mirrored \in Nat /\ mirrored' \in Nat
      /\ 1 .. reduced \subseteq DOMAIN log /\ 1 .. reduced \subseteq 1 .. reduced'
      /\ 1 .. mirrored \subseteq 1 .. mirrored'
  <2>1. Len(log') \in Nat /\ reduced' \in 0 .. Len(log') /\ mirrored' \in 0 .. Len(log')
    BY DEF LogRight
  <2> QED
    BY <2>1, LogIs DEF Right
<1>3. ActiveRight'
  BY <1>2 DEF Right, ActiveRight
<1>4. TasksRight'
  <2>1. Creates(1 .. reduced) \subseteq Creates(1 .. reduced)'
    BY <1>2 DEF Creates
  <2>2. active \subseteq 1 .. reduced
    BY DEF Right, ActiveRight
  <2>3. Creates(active)' = Creates(active)
    BY <1>2, <2>2 DEF Creates
  <2> QED
    BY <2>1, <2>3 DEF Right, TasksRight
<1>5. EncryptionsRight'
  BY <1>1, <1>4, EncryptionsKeep DEF Right, EncryptionsRight, Adds
<1>6. Len(tasks') \in Nat
  BY TasksAre DEF Right
<1> QED
  BY <1>1, <1>3, <1>4, <1>5, <1>6, StorageKeeps DEF Right

(* A step of the contract.                                                 *)
LEMMA ChainOnly ==
  ASSUME Right, LogRight', \A i \in DOMAIN log : i \in DOMAIN log' /\ log'[i] = log[i],
         reduced <= reduced', mirrored <= mirrored', UNCHANGED <<active, tasks, storage, job, steady>>
  PROVE  Right'
<1>1. Grows /\ ActiveRight' /\ TasksRight' /\ EncryptionsRight' /\ StorageRight'
  BY Quiet
<1>2. \A k \in Job : LocalRight(job'[k])
  BY DEF Right
<1>3. \A k \in Job : LocalRight(job[k])'
  BY <1>1, <1>2, LocalKeeps DEF Right
<1> QED
  BY <1>1, <1>3 DEF Right

(* A step that changes the variables of one job, and the history.          *)
LEMMA JobOnly ==
  ASSUME Right, NEW j \in Job, UNCHANGED <<log, reduced, mirrored, active, tasks, storage>>, LogRight',
         NEW m, job' = [job EXCEPT ![j] = m], LocalRight(m), steady' \in BOOLEAN
  PROVE  Right'
<1>1. Grows /\ ActiveRight' /\ TasksRight' /\ EncryptionsRight' /\ StorageRight'
  BY Quiet, LogIs DEF Right
<1>2. DOMAIN job' = Job /\ \A k \in Job : LocalRight(job'[k])
  BY DEF Right
<1>3. \A k \in Job : LocalRight(job[k])'
  BY <1>1, <1>2, LocalKeeps DEF Right
<1> QED
  BY <1>1, <1>2, <1>3 DEF Right

-----------------------------------------------------------------------------
(***************************************************************************)
(* The steps of the contract, and the recording.                           *)
(***************************************************************************)
LEMMA DispatchIsRight ==
  ASSUME Right, NEW t \in {NewTask} \cup 0 .. MaxActions - 1, Dispatch(t)
  PROVE  Right'
<1>0. LogRight
  BY DEF Right
<1>1. /\ Len(log) \in Nat /\ DOMAIN log = 1 .. Len(log) /\ reduced \in Nat /\ mirrored \in Nat
      /\ reduced <= Len(log) /\ mirrored <= Len(log) /\ NewTask = -1 /\ MaxActions \in Nat
  BY <1>0, LogIs, Bounds
<1>2. /\ Len(log) < MaxActions /\ log' = Append(log, t)
      /\ t = NewTask \/ t \in 0 .. Cardinality(Creates(1 .. reduced)) - 1
      /\ UNCHANGED <<reduced, mempool, mirrored, active, tasks, storage, job, steady>>
  BY DEF Dispatch
<1>3. PICK V : V = {NewTask} \cup Nat
  OBVIOUS
<1>4. log \in Seq(V) /\ t \in V
  <2>1. t \in {NewTask} \cup Nat
    BY <1>1
  <2> QED
    BY <1>0, <1>3, <2>1 DEF LogRight
<1>5. /\ log' \in Seq(V) /\ Len(log') = Len(log) + 1 /\ DOMAIN log' = 1 .. Len(log) + 1
      /\ log'[Len(log) + 1] = t /\ \A i \in 1 .. Len(log) : log'[i] = log[i]
  BY <1>1, <1>2, <1>4
<1>6. ASSUME NEW i \in 1 .. Len(log) + 1
      PROVE  /\ Creates(1 .. i - 1)' = Creates(1 .. i - 1) /\ 1 .. i - 1 \subseteq 1 .. Len(log)
  <2>1. 1 .. i - 1 \subseteq 1 .. Len(log)
    BY <1>1
  <2> QED
    BY <1>5, <2>1 DEF Creates
<1>7. ASSUME NEW i \in DOMAIN log' PROVE log'[i] < Cardinality(Creates(1 .. i - 1))'
  <2>1. CASE i \in 1 .. Len(log)
    <3>1. log[i] < Cardinality(Creates(1 .. i - 1))
      BY <1>0, <1>1, <2>1 DEF LogRight
    <3> QED
      BY <1>5, <1>6, <1>7, <2>1, <3>1
  <2>2. CASE i = Len(log) + 1
    <3>1. 1 .. i - 1 = 1 .. Len(log) /\ 1 .. reduced \subseteq 1 .. Len(log)
      BY <1>1, <2>2
    <3>2. /\ Cardinality(Creates(1 .. reduced)) <= Cardinality(Creates(1 .. Len(log)))
          /\ Cardinality(Creates(1 .. reduced)) \in Nat /\ Cardinality(Creates(1 .. Len(log))) \in Nat
      BY <1>1, <3>1, CreatesGrow
    <3>3. t < Cardinality(Creates(1 .. Len(log)))
      BY <1>1, <1>2, <3>2
    <3> QED
      BY <1>5, <1>6, <1>7, <2>2, <3>1, <3>3
  <2> QED
    BY <1>1, <1>5, <1>7, <2>1, <2>2
<1>8. Len(log') <= MaxActions /\ reduced' \in 0 .. Len(log') /\ mirrored' \in 0 .. Len(log')
  BY <1>1, <1>2, <1>5
<1>9. LogRight'
  BY <1>0, <1>2, <1>3, <1>5, <1>7, <1>8 DEF LogRight
<1>10. \A i \in DOMAIN log : i \in DOMAIN log' /\ log'[i] = log[i]
  BY <1>1, <1>5
<1>11. reduced <= reduced' /\ mirrored <= mirrored'
  BY <1>1, <1>2
<1> QED
  BY <1>2, <1>9, <1>10, <1>11, ChainOnly

(* The contract or the recording goes on.                                  *)
LEMMA ChainGoesOn ==
  ASSUME Right, log' = log, reduced' \in 0 .. Len(log), reduced <= reduced',
         mirrored' \in 0 .. Len(log), mirrored <= mirrored', mempool' \subseteq mempool,
         UNCHANGED <<active, tasks, storage, job, steady>>
  PROVE  Right'
<1>1. LogRight
  BY DEF Right
<1>2. ASSUME NEW tx \in mempool' PROVE tx.from \in 0 .. reduced' /\ tx.actions \subseteq 1 .. mirrored'
  <2>1. tx.from \in 0 .. reduced /\ tx.actions \subseteq 1 .. mirrored
    BY <1>1 DEF LogRight
  <2>2. 0 .. reduced \subseteq 0 .. reduced' /\ 1 .. mirrored \subseteq 1 .. mirrored'
    BY <1>1, LogIs
  <2> QED
    BY <2>1, <2>2
<1>3. LogRight'
  BY <1>1, <1>2 DEF LogRight, Creates
<1> QED
  BY <1>3, ChainOnly

LEMMA IncludeIsRight ==
  ASSUME Right, NEW tx \in mempool, Include(tx)
  PROVE  Right'
<1>1. /\ Len(log) \in Nat /\ reduced \in Nat /\ mirrored \in Nat
      /\ reduced <= Len(log) /\ mirrored <= Len(log) /\ tx.actions \subseteq 1 .. mirrored
  BY LogIs DEF Right, LogRight
<1>2. Cardinality(tx.actions) \in Nat
  BY <1>1, BoundedIs
<1>3. PICK c : c = Cardinality(tx.actions)
  OBVIOUS
<1>4. reduced' = (IF tx.from = reduced /\ tx.actions = reduced + 1 .. reduced + c
                  THEN reduced + c ELSE reduced)
  BY <1>3 DEF Include
<1>5. reduced' \in 0 .. Len(log) /\ reduced <= reduced'
  <2>1. CASE tx.actions = reduced + 1 .. reduced + c
    <3>1. reduced + c <= Len(log)
      <4>1. CASE c # 0
        <5>1. reduced + c \in reduced + 1 .. reduced + c
          BY <1>1, <1>2, <1>3, <4>1
        <5>2. reduced + c \in 1 .. mirrored
          BY <1>1, <2>1, <5>1
        <5> QED
          BY <1>1, <5>2
      <4>2. CASE c = 0
        BY <1>1, <4>2
      <4> QED
        BY <4>1, <4>2
    <3> QED
      BY <1>1, <1>2, <1>3, <1>4, <3>1
  <2>2. CASE tx.actions # reduced + 1 .. reduced + c
    BY <1>1, <1>4, <2>2
  <2> QED
    BY <2>1, <2>2
<1>6. mirrored' = mirrored /\ mirrored \in 0 .. Len(log) /\ mirrored <= mirrored /\ mempool' = {} /\ log' = log
  BY <1>1 DEF Include
<1> QED
  BY <1>5, <1>6, ChainGoesOn DEF Include

LEMMA ReduceElsewhereIsRight ==
  ASSUME Right, NEW n \in 1 .. Len(log), ReduceElsewhere(n)
  PROVE  Right'
<1>1. /\ Len(log) \in Nat /\ reduced \in Nat /\ mirrored \in Nat /\ mirrored <= Len(log)
  BY LogIs DEF Right
<1>2. reduced' \in 0 .. Len(log) /\ reduced <= reduced' /\ mirrored' \in 0 .. Len(log) /\ mirrored <= mirrored'
  BY <1>1 DEF ReduceElsewhere
<1> QED
  BY <1>2, ChainGoesOn DEF ReduceElsewhere

LEMMA RecordIsRight ==
  ASSUME Right, Record
  PROVE  Right'
<1>1. /\ Len(log) \in Nat /\ reduced \in Nat /\ mirrored \in Nat /\ reduced <= Len(log)
  BY LogIs DEF Right
<1>2. reduced' \in 0 .. Len(log) /\ reduced <= reduced' /\ mirrored' \in 0 .. Len(log) /\ mirrored <= mirrored'
  BY <1>1 DEF Record, chainVars
<1> QED
  BY <1>2, ChainGoesOn DEF Record, chainVars

-----------------------------------------------------------------------------
(***************************************************************************)
(* The steps that only change the variables of a job.                      *)
(***************************************************************************)
LEMMA JobSteps ==
  ASSUME Right, NEW j \in Job, UNCHANGED <<chainVars, mirrored, active, tasks, storage>>,
         NEW m, job' = [job EXCEPT ![j] = m], LocalRight(m), steady' \in BOOLEAN
  PROVE  Right'
<1>1. /\ log' = log /\ reduced' = reduced /\ mempool' = mempool /\ mirrored' = mirrored
      /\ active' = active /\ tasks' = tasks /\ storage' = storage
  BY DEF chainVars
<1>2. LogRight'
  BY <1>1 DEF Right, LogRight, Creates
<1> QED
  BY <1>1, <1>2, JobOnly

LEMMA LocalGives ==
  ASSUME Right, NEW j \in Job, NEW l, l = job[j]
  PROVE  /\ LocalRight(l) /\ IsLocal(l) /\ l.pc \in PC
         /\ l.state \in 0 .. reduced /\ l.actions \subseteq 1 .. mirrored
         /\ l.nextTaskId \in 0 .. Len(tasks) /\ l.total \in Sums
         /\ l.pc \in Passing => l.actions \subseteq 1 .. reduced /\ Adjacent(l.actions)
BY DEF Right, LocalRight

LEMMA LocalShape ==
  ASSUME Right, NEW j \in Job, NEW l, l = job[j]
  PROVE  IsLocal(l)
BY DEF Right, LocalRight

(* Between the saves there is little to say.                               *)
LEMMA LocalIsRight ==
  ASSUME NEW m, IsLocal(m), m.pc \in PC \ {"saveTask", "saveAction"},
         m.state \in 0 .. reduced, m.actions \subseteq 1 .. mirrored,
         m.nextTaskId \in 0 .. Len(tasks), m.total \in Sums,
         m.pc \in Passing => m.actions \subseteq 1 .. reduced /\ Adjacent(m.actions)
  PROVE  LocalRight(m)
BY DEF LocalRight

LEMMA IdleIsRight ==
  ASSUME Right, NEW label \in PC \ {"saveTask", "saveAction"}
  PROVE  LocalRight([Idle EXCEPT !.pc = label])
<1> DEFINE m == [Idle EXCEPT !.pc = label]
<1>1. /\ IsLocal(m) /\ m.pc = label /\ m.state = 0 /\ m.actions = {} /\ m.nextTaskId = 0 /\ m.total = None
  BY DEF Idle, IsLocal
<1>2. reduced \in Nat /\ Len(tasks) \in Nat
  BY LogIs, TasksAre DEF Right
<1>3. Adjacent({})
  BY DEF Adjacent
<1> HIDE DEF m
<1>4. /\ m.state \in 0 .. reduced /\ m.actions \subseteq 1 .. mirrored /\ m.actions \subseteq 1 .. reduced
      /\ m.nextTaskId \in 0 .. Len(tasks) /\ m.total \in Sums /\ Adjacent(m.actions)
  BY <1>1, <1>2, <1>3, NoneIs
<1>5. m.pc \in PC \ {"saveTask", "saveAction"}
  BY <1>1
<1>6. LocalRight(m)
  BY <1>1, <1>4, <1>5, LocalIsRight
<1> QED
  BY <1>6 DEF m

LEMMA AfterPassIs ==
  ASSUME NEW j
  PROVE  AfterPass(j) \in {"findTasks", "idle"} /\ AfterPass(j) \in PC \ {"saveTask", "saveAction"}
         /\ AfterPass(j) \notin Passing
BY DEF AfterPass, PC, Passing

LEMMA FindIsRight ==
  ASSUME Right, NEW j \in Job, NEW n \in 0 .. reduced, Find(j, n)
  PROVE  Right'
<1>1. PICK l : l = job[j]
  OBVIOUS
<1>2. PICK m : m = [l EXCEPT !.pc = "findLastTask", !.actions = NotActive(n)]
  OBVIOUS
<1>3. job' = [job EXCEPT ![j] = m] /\ n \in 1 .. mirrored
  BY <1>1, <1>2 DEF Find
<1>4. /\ IsLocal(m) /\ m.pc = "findLastTask" /\ m.actions = NotActive(n) /\ m.state = l.state
      /\ m.nextTaskId = l.nextTaskId /\ m.total = l.total
  <2>1. IsLocal(l)
    BY <1>1, LocalShape
  <2> QED
    BY <1>2, <2>1 DEF IsLocal
<1>5. NotActive(n) \subseteq 1 .. reduced /\ NotActive(n) \subseteq 1 .. mirrored /\ Adjacent(NotActive(n))
  <2>1. reduced \in Nat /\ mirrored \in Nat
    BY LogIs DEF Right
  <2> QED
    BY <1>3, <2>1 DEF NotActive, Adjacent
<1>6. LocalRight(m)
  BY <1>1, <1>4, <1>5, LocalGives, LocalIsRight DEF PC
<1>7. steady' \in BOOLEAN
  BY DEF Find, Right
<1> QED
  BY <1>3, <1>6, <1>7, JobSteps DEF Find

LEMMA FindNothingIsRight ==
  ASSUME Right, NEW j \in Job, NEW n, FindNothing(j, n)
  PROVE  Right'
<1>1. PICK l : l = job[j]
  OBVIOUS
<1>2. PICK m : m = [l EXCEPT !.pc = AfterPass(j)]
  OBVIOUS
<1>3. job' = [job EXCEPT ![j] = m]
  BY <1>1, <1>2 DEF FindNothing, Goto
<1>4. /\ IsLocal(m) /\ m.pc = AfterPass(j) /\ m.actions = l.actions /\ m.state = l.state
      /\ m.nextTaskId = l.nextTaskId /\ m.total = l.total
  <2>1. IsLocal(l)
    BY <1>1, LocalShape
  <2> QED
    BY <1>2, <2>1 DEF IsLocal
<1>5. LocalRight(m)
  BY <1>1, <1>4, AfterPassIs, LocalGives, LocalIsRight
<1>6. steady' \in BOOLEAN
  BY DEF FindNothing, Right
<1> QED
  BY <1>3, <1>5, <1>6, JobSteps DEF FindNothing

LEMMA FindLastTaskIsRight ==
  ASSUME Right, NEW j \in Job, FindLastTask(j)
  PROVE  Right'
<1>1. PICK l : l = job[j]
  OBVIOUS
<1>2. PICK m : m = [l EXCEPT !.pc = "next", !.nextTaskId = Len(tasks)]
  OBVIOUS
<1>3. job' = [job EXCEPT ![j] = m] /\ l.pc = "findLastTask"
  BY <1>1, <1>2 DEF FindLastTask
<1>4. /\ IsLocal(m) /\ m.pc = "next" /\ m.actions = l.actions /\ m.state = l.state
      /\ m.nextTaskId = Len(tasks) /\ m.total = l.total
  <2>1. IsLocal(l)
    BY <1>1, LocalShape
  <2> QED
    BY <1>2, <2>1 DEF IsLocal
<1>5. l.actions \subseteq 1 .. reduced /\ Adjacent(l.actions)
  BY <1>1, <1>3, LocalGives DEF Passing
<1>6. m.nextTaskId \in 0 .. Len(tasks)
  BY <1>4, TasksAre DEF Right
<1>7. LocalRight(m)
  BY <1>1, <1>4, <1>5, <1>6, LocalGives, LocalIsRight DEF PC
<1>8. steady' \in BOOLEAN
  BY DEF FindLastTask, Right
<1> QED
  BY <1>3, <1>7, <1>8, JobSteps DEF FindLastTask

LEMMA FindTaskIsRight ==
  ASSUME Right, NEW j \in Job, FindTask(j)
  PROVE  Right'
<1>1. PICK l : l = job[j]
  OBVIOUS
<1>2. PICK i \in Reached(l.actions) :
        /\ log[i] \in 0 .. Len(tasks) - 1
        /\ job' = [job EXCEPT ![j].pc = "saveTask", ![j].total = tasks[log[i] + 1].total]
  BY <1>1 DEF FindTask
<1>3. PICK m : m = [l EXCEPT !.pc = "saveTask", !.total = tasks[log[i] + 1].total]
  OBVIOUS
<1>4. job' = [job EXCEPT ![j] = m] /\ l.pc = "next"
  BY <1>1, <1>2, <1>3 DEF FindTask
<1>5. /\ IsLocal(m) /\ m.pc = "saveTask" /\ m.actions = l.actions /\ m.state = l.state
      /\ m.nextTaskId = l.nextTaskId /\ m.total = tasks[log[i] + 1].total
  <2>1. IsLocal(l)
    BY <1>1, LocalShape
  <2> QED
    BY <1>3, <2>1 DEF IsLocal
<1>6. l.actions \subseteq 1 .. reduced /\ Adjacent(l.actions) /\ reduced \in Nat
  BY <1>1, <1>4, LocalGives, LogIs DEF Passing, Right
<1>7. log[i] + 1 \in DOMAIN tasks /\ m.total \in Sums
  BY <1>2, <1>5, TasksAre DEF Right
<1>8. Reached(l.actions) = {i} /\ l.actions # {}
  BY <1>6, ReachedIs
<1>9. \A h \in ActionId : m.total[h] <= tasks[log[i] + 1].encryptions[h]
  BY <1>5, <1>7 DEF Right, TasksRight
<1>10. LocalRight(m)
  BY <1>1, <1>2, <1>5, <1>6, <1>7, <1>8, <1>9, LocalGives DEF LocalRight, PC
<1>11. steady' \in BOOLEAN
  BY DEF FindTask, Right
<1> QED
  BY <1>4, <1>10, <1>11, JobSteps DEF FindTask

LEMMA PassDoneIsRight ==
  ASSUME Right, NEW j \in Job, PassDone(j)
  PROVE  Right'
<1>1. PICK l : l = job[j]
  OBVIOUS
<1>2. PICK m : m = [l EXCEPT !.pc = AfterPass(j), !.nextTaskId = 0]
  OBVIOUS
<1>3. job' = [job EXCEPT ![j] = m]
  BY <1>1, <1>2 DEF PassDone
<1>4. /\ IsLocal(m) /\ m.pc = AfterPass(j) /\ m.actions = l.actions /\ m.state = l.state
      /\ m.nextTaskId = 0 /\ m.total = l.total
  <2>1. IsLocal(l)
    BY <1>1, LocalShape
  <2> QED
    BY <1>2, <2>1 DEF IsLocal
<1>5. m.nextTaskId \in 0 .. Len(tasks)
  BY <1>4, TasksAre DEF Right
<1>6. LocalRight(m)
  BY <1>1, <1>4, <1>5, AfterPassIs, LocalGives, LocalIsRight
<1>7. steady' \in BOOLEAN
  BY DEF PassDone, Right
<1> QED
  BY <1>3, <1>6, <1>7, JobSteps DEF PassDone

(* A pass that stops, by itself or because a call throws.                  *)
LEMMA RetryIsRight ==
  ASSUME Right, NEW j \in Job, Retry(j), steady' \in BOOLEAN
  PROVE  Right'
<1>1. PICK label \in {"idle", AfterPass(j)} : job' = [job EXCEPT ![j] = [Idle EXCEPT !.pc = label]]
  BY DEF Retry
<1>2. label \in PC \ {"saveTask", "saveAction"}
  BY AfterPassIs DEF PC
<1>3. PICK m : m = [Idle EXCEPT !.pc = label]
  OBVIOUS
<1>4. LocalRight(m)
  BY <1>2, <1>3, IdleIsRight
<1> QED
  BY <1>1, <1>3, <1>4, JobSteps DEF Retry

LEMMA FetchThrowsIsRight ==
  ASSUME Right, NEW j \in Job, FetchThrows(j) \/ DuplicateTask(j)
  PROVE  Right'
BY RetryIsRight DEF FetchThrows, DuplicateTask, Right

(* A step that leaves the pass, or the roll-up, for a step of the roll-up. *)
LEMMA GotoIsRight ==
  ASSUME Right, NEW j \in Job, NEW m, IsLocal(m), m.pc \in PC \ Passing, NEW l, l = job[j],
         m.state \in 0 .. reduced, m.actions \subseteq 1 .. mirrored, m.nextTaskId = l.nextTaskId,
         m.total = l.total, job' = [job EXCEPT ![j] = m],
         UNCHANGED <<chainVars, mirrored, active, tasks, storage, steady>>
  PROVE  Right'
<1>1. LocalRight(m)
  BY LocalGives, LocalIsRight DEF Passing
<1>2. steady' \in BOOLEAN
  BY DEF Right
<1> QED
  BY <1>1, <1>2, JobSteps

LEMMA ReturnIsRight ==
  ASSUME Right, NEW j \in Job, Return(j),
         UNCHANGED <<chainVars, mirrored, active, tasks, storage, steady>>
  PROVE  Right'
<1>1. PICK m : m = [Idle EXCEPT !.pc = "idle"]
  OBVIOUS
<1>2. m = Idle
  BY <1>1 DEF Idle
<1>3. LocalRight(m)
  BY <1>1, IdleIsRight DEF PC
<1>4. job' = [job EXCEPT ![j] = m]
  BY <1>2 DEF Return
<1>5. steady' \in BOOLEAN
  BY DEF Right
<1> QED
  BY <1>3, <1>4, <1>5, JobSteps

LEMMA FindBatchIsRight ==
  ASSUME Right, NEW j \in Job, FindBatch(j)
  PROVE  Right'
<1>1. PICK l : l = job[j]
  OBVIOUS
<1>2. CASE NotActive(mirrored) = {}
  BY <1>2, ReturnIsRight DEF FindBatch
<1>3. CASE NotActive(mirrored) # {}
  <2>1. PICK m : m = [l EXCEPT !.pc = "fetchState", !.actions = NotActive(mirrored)]
    OBVIOUS
  <2>2. job' = [job EXCEPT ![j] = m]
    BY <1>1, <1>3, <2>1 DEF FindBatch
  <2>3. /\ IsLocal(m) /\ m.pc = "fetchState" /\ m.state = l.state /\ m.actions = NotActive(mirrored)
        /\ m.nextTaskId = l.nextTaskId /\ m.total = l.total
    <3>1. IsLocal(l)
      BY <1>1, LocalShape
    <3> QED
      BY <2>1, <3>1 DEF IsLocal
  <2>4. m.pc \in PC \ Passing /\ m.actions \subseteq 1 .. mirrored
    BY <2>3 DEF PC, Passing, NotActive
  <2>5. m.state \in 0 .. reduced
    BY <1>1, <2>3, LocalGives
  <2>6. UNCHANGED <<chainVars, mirrored, active, tasks, storage, steady>>
    BY DEF FindBatch
  <2> QED
    BY <1>1, <2>2, <2>3, <2>4, <2>5, <2>6, GotoIsRight
<1> QED
  BY <1>2, <1>3

LEMMA FetchStateIsRight ==
  ASSUME Right, NEW j \in Job, FetchState(j)
  PROVE  Right'
<1>1. PICK l : l = job[j]
  OBVIOUS
<1>2. PICK m : m = [l EXCEPT !.pc = "clone", !.state = reduced]
  OBVIOUS
<1>3. job' = [job EXCEPT ![j] = m]
  BY <1>1, <1>2 DEF FetchState
<1>4. /\ IsLocal(m) /\ m.pc = "clone" /\ m.state = reduced /\ m.actions = l.actions
      /\ m.nextTaskId = l.nextTaskId /\ m.total = l.total
  <2>1. IsLocal(l)
    BY <1>1, LocalShape
  <2> QED
    BY <1>2, <2>1 DEF IsLocal
<1>5. m.pc \in PC \ Passing /\ m.state \in 0 .. reduced
  BY <1>4, LogIs DEF PC, Passing, Right
<1>6. m.actions \subseteq 1 .. mirrored
  BY <1>1, <1>4, LocalGives
<1>7. UNCHANGED <<chainVars, mirrored, active, tasks, storage, steady>>
  BY DEF FetchState
<1> QED
  BY <1>1, <1>3, <1>4, <1>5, <1>6, <1>7, GotoIsRight

LEMMA GotoOnlyIsRight ==
  ASSUME Right, NEW j \in Job, NEW label \in {"send", "updated"}, job' = [job EXCEPT ![j].pc = label],
         UNCHANGED <<chainVars, mirrored, active, tasks, storage, steady>>
  PROVE  Right'
<1>1. PICK l : l = job[j]
  OBVIOUS
<1>2. PICK m : m = [l EXCEPT !.pc = label]
  OBVIOUS
<1>3. job' = [job EXCEPT ![j] = m]
  BY <1>1, <1>2
<1>4. /\ IsLocal(m) /\ m.pc = label /\ m.state = l.state /\ m.actions = l.actions
      /\ m.nextTaskId = l.nextTaskId /\ m.total = l.total
  <2>1. IsLocal(l)
    BY <1>1, LocalShape
  <2> QED
    BY <1>2, <2>1 DEF IsLocal
<1>5. m.pc \in PC \ Passing
  BY <1>4 DEF PC, Passing
<1>6. m.state \in 0 .. reduced /\ m.actions \subseteq 1 .. mirrored
  BY <1>1, <1>4, LocalGives
<1> QED
  BY <1>1, <1>3, <1>4, <1>5, <1>6, GotoIsRight

LEMMA RollupStepsAreRight ==
  ASSUME Right, NEW j \in Job,
         CloneAndProve(j) \/ ProveFails(j) \/ Skip(j) \/ RollupThrows(j) \/ UpdateThrows(j)
  PROVE  Right'
<1>1. CASE CloneAndProve(j)
  BY <1>1, GotoOnlyIsRight DEF CloneAndProve, Goto
<1>2. CASE UpdateThrows(j)
  BY <1>2, GotoOnlyIsRight DEF UpdateThrows
<1>3. CASE ProveFails(j)
  BY <1>3, ReturnIsRight DEF ProveFails
<1>4. CASE Skip(j)
  BY <1>4, ReturnIsRight DEF Skip
<1>5. CASE RollupThrows(j)
  BY <1>5, ReturnIsRight DEF RollupThrows
<1> QED
  BY <1>1, <1>2, <1>3, <1>4, <1>5

LEMMA SendIsRight ==
  ASSUME Right, NEW j \in Job, Send(j)
  PROVE  Right'
<1>1. PICK m : m = [Idle EXCEPT !.pc = "idle"]
  OBVIOUS
<1>2. m = Idle
  BY <1>1 DEF Idle
<1>3. LocalRight(m)
  BY <1>1, IdleIsRight DEF PC
<1>4. job' = [job EXCEPT ![j] = m]
  BY <1>2 DEF Return, Send
<1>5. steady' \in BOOLEAN
  BY DEF Right, Send
<1>6. LogRight'
  <2>1. PICK l : l = job[j]
    OBVIOUS
  <2>2. l.state \in 0 .. reduced /\ l.actions \subseteq 1 .. mirrored
    BY <2>1, LocalGives
  <2>3. PICK tx : tx = [from |-> l.state, actions |-> l.actions]
    OBVIOUS
  <2>4. mempool' \subseteq mempool \cup {tx}
    BY <2>1, <2>3 DEF Send
  <2>5. tx.from \in 0 .. reduced /\ tx.actions \subseteq 1 .. mirrored
    BY <2>2, <2>3
  <2>6. log' = log /\ reduced' = reduced /\ mirrored' = mirrored
    BY DEF Send
  <2> QED
    BY <2>4, <2>5, <2>6 DEF Right, LogRight, Creates
<1> QED
  BY <1>3, <1>4, <1>5, <1>6, JobOnly DEF Send

-----------------------------------------------------------------------------
(***************************************************************************)
(* The steps of a pass that change the documents.                          *)
(***************************************************************************)
LEMMA PassStep ==
  ASSUME Right, NEW j \in Job, LogRight', Grows, ActiveRight', TasksRight', EncryptionsRight',
         StorageRight', NEW m, job' = [job EXCEPT ![j] = m], LocalRight(m)', steady' \in BOOLEAN
  PROVE  Right'
<1>1. DOMAIN job' = Job /\ job'[j] = m /\ \A k \in Job : k # j => job'[k] = job[k]
  BY DEF Right
<1>2. LocalRight(job[j])'
  BY <1>1
<1>3. \A k \in Job : LocalRight(job[k])'
  BY <1>1, <1>2, JobChanged
<1> QED
  BY <1>1, <1>3 DEF Right

LEMMA SameLog ==
  ASSUME Right, UNCHANGED <<chainVars, mirrored>>
  PROVE  /\ LogRight' /\ reduced \in Nat /\ mirrored \in Nat
         /\ log' = log /\ reduced' = reduced /\ mirrored' = mirrored
         /\ \A i \in DOMAIN log : i \in DOMAIN log' /\ log'[i] = log[i]
         /\ reduced <= reduced' /\ mirrored <= mirrored'
<1>1. log' = log /\ reduced' = reduced /\ mempool' = mempool /\ mirrored' = mirrored
  BY DEF chainVars
<1>2. LogRight'
  BY <1>1 DEF Right, LogRight, Creates
<1>3. reduced \in Nat /\ mirrored \in Nat
  BY LogIs DEF Right
<1> QED
  BY <1>1, <1>2, <1>3

(* The action that a pass has reached.                                     *)
LEMMA ReachedGives ==
  ASSUME Right, NEW j \in Job, NEW l, l = job[j], l.pc \in Passing, NEW i \in Reached(l.actions)
  PROVE  /\ i \in 1 .. reduced /\ i \in 1 .. mirrored /\ i \in ActionId /\ i \in DOMAIN log
         /\ Reached(l.actions) = {i} /\ i \in l.actions /\ 1 .. i - 1 \subseteq active
<1>1. LocalRight(l) /\ LogRight
  BY DEF Right
<1>2. l.actions \subseteq 1 .. reduced /\ l.actions \subseteq 1 .. mirrored /\ Adjacent(l.actions)
  BY <1>1 DEF LocalRight
<1>3. reduced \in Nat
  BY <1>1, LogIs
<1>4. Reached(l.actions) = {i} /\ i \in l.actions /\ 1 .. i - 1 \subseteq active
  BY <1>2, <1>3, NearbyIs, ReachedIs
<1>5. 1 .. reduced \subseteq DOMAIN log /\ DOMAIN log \subseteq ActionId
  BY <1>1, LogIs
<1> QED
  BY <1>2, <1>4, <1>5

LEMMA CreateIsRight ==
  ASSUME Right, NEW j \in Job, Create(j)
  PROVE  Right'
<1>0. LogRight /\ ActiveRight /\ TasksRight /\ StorageRight /\ EncryptionsRight
  BY DEF Right
<1>1. PICK l : l = job[j]
  OBVIOUS
<1>2. PICK i \in Reached(l.actions) :
        log[i] = NewTask /\ tasks' = Append(tasks, [create |-> i, encryptions |-> None, total |-> None])
  BY <1>1 DEF Create
<1>3. /\ l.pc = "next" /\ l.nextTaskId = Len(tasks) /\ active' = active /\ storage' = storage
      /\ steady' = steady /\ UNCHANGED <<chainVars, mirrored>>
  BY <1>1 DEF Create
<1>4. PICK m : m = [l EXCEPT !.pc = "saveAction", !.nextTaskId = @ + 1]
  OBVIOUS
<1>5. job' = [job EXCEPT ![j] = m]
  BY <1>1, <1>4 DEF Create
<1>6. /\ IsLocal(m) /\ m.pc = "saveAction" /\ m.actions = l.actions /\ m.state = l.state
      /\ m.nextTaskId = Len(tasks) + 1 /\ m.total = l.total
  <2>1. IsLocal(l)
    BY <1>1, LocalShape
  <2> QED
    BY <1>3, <1>4, <2>1 DEF IsLocal
<1>7. /\ i \in 1 .. reduced /\ i \in ActionId /\ Reached(l.actions) = {i} /\ 1 .. i - 1 \subseteq active
      /\ i \in l.actions
  BY <1>1, <1>2, <1>3, ReachedGives DEF Passing
<1>8. /\ LogRight' /\ log' = log /\ reduced' = reduced /\ mirrored' = mirrored
      /\ reduced \in Nat /\ mirrored \in Nat
  BY <1>3, SameLog
<1>9. Len(tasks) \in Nat /\ DOMAIN tasks = 1 .. Len(tasks)
  BY <1>0, TasksAre
<1> DEFINE D == [create : ActionId, encryptions : Sums, total : Sums]
           doc == [create |-> i, encryptions |-> None, total |-> None]
<1>10. doc \in D /\ doc.create = i /\ doc.encryptions = None /\ doc.total = None
  BY <1>7, NoneIs
<1>11. tasks \in Seq(D) /\ tasks' = Append(tasks, doc)
  BY <1>0, <1>2 DEF TasksRight
<1>12. /\ tasks' \in Seq(D) /\ Len(tasks') = Len(tasks) + 1 /\ DOMAIN tasks' = 1 .. Len(tasks) + 1
       /\ tasks'[Len(tasks) + 1] = doc /\ \A d \in 1 .. Len(tasks) : tasks'[d] = tasks[d]
  <2> HIDE DEF D, doc
  <2> QED
    BY <1>9, <1>10, <1>11
<1> HIDE DEF D, doc
<1>13. \A ids : Creates(ids)' = Creates(ids)
  BY <1>8 DEF Creates
<1>14. active \subseteq 1 .. reduced
  BY <1>0 DEF ActiveRight
<1>15. Cardinality(Creates(active)) \in Nat /\ Cardinality(Creates(active)) <= Len(tasks)
  BY <1>0, <1>8, <1>14, CreatesAre DEF TasksRight
<1>16. TasksRight'
  <2>1. \A d \in DOMAIN tasks' : /\ tasks'[d].create \in Creates(1 .. reduced)
                                 /\ \A h \in ActionId : tasks'[d].total[h] <= tasks'[d].encryptions[h]
    <3> SUFFICES ASSUME NEW d \in DOMAIN tasks'
                 PROVE  /\ tasks'[d].create \in Creates(1 .. reduced)
                        /\ \A h \in ActionId : tasks'[d].total[h] <= tasks'[d].encryptions[h]
      OBVIOUS
    <3>1. CASE d \in 1 .. Len(tasks)
      BY <1>0, <1>9, <1>12, <3>1 DEF TasksRight
    <3>2. CASE d = Len(tasks) + 1
      <4>1. i \in Creates(1 .. reduced)
        BY <1>2, <1>7 DEF Creates
      <4>2. \A h \in ActionId : None[h] <= None[h]
        BY NoneIs
      <4> QED
        BY <1>10, <1>12, <3>2, <4>1, <4>2
    <3> QED
      BY <1>9, <1>12, <3>1, <3>2
  <2>2. Cardinality(Creates(active)) <= Len(tasks')
    BY <1>9, <1>12, <1>15
  <2>3. tasks' \in Seq([create : ActionId, encryptions : Sums, total : Sums])
    BY <1>12 DEF D
  <2>4. Creates(1 .. reduced)' = Creates(1 .. reduced) /\ Creates(active)' = Creates(active)
    BY <1>3, <1>8 DEF Creates
  <2> QED
    BY <2>1, <2>2, <2>3, <2>4 DEF TasksRight
<1>17. Grows
  <2>1. Len(tasks) <= Len(tasks')
    BY <1>9, <1>12
  <2>2. \A d \in DOMAIN tasks : \A h \in ActionId : tasks[d].encryptions[h] <= tasks'[d].encryptions[h]
    <3> SUFFICES ASSUME NEW d \in DOMAIN tasks, NEW h \in ActionId
                 PROVE  tasks[d].encryptions[h] <= tasks[d].encryptions[h]
      BY <1>9, <1>12
    <3>1. tasks[d].encryptions[h] \in 0 .. Many
      BY <1>0, TasksAre
    <3> QED
      BY <3>1 DEF Many
  <2>3. ASSUME NEW h \in 1 .. reduced, Cardinality(Creates(active \cup {h})) <= Len(tasks)
        PROVE  Cardinality(Creates(active \cup {h}))' <= Len(tasks')
    <3>1. active \cup {h} \subseteq 1 .. reduced
      BY <1>14
    <3>2. Cardinality(Creates(active \cup {h})) \in Nat
      BY <1>8, <3>1, CreatesAre
    <3>3. Creates(active \cup {h})' = Creates(active \cup {h})
      BY <1>3, <1>8 DEF Creates
    <3> QED
      BY <1>9, <1>12, <2>3, <3>2, <3>3
  <2>4. /\ \A h \in DOMAIN log : h \in DOMAIN log' /\ log'[h] = log[h]
        /\ reduced <= reduced' /\ mirrored <= mirrored' /\ active \subseteq active'
    BY <1>3, <1>8
  <2> QED
    BY <2>1, <2>2, <2>3, <2>4 DEF Grows
<1>18. ActiveRight'
  BY <1>0, <1>3, <1>8 DEF ActiveRight
<1>19. EncryptionsRight'
  BY <1>0, <1>3, <1>8, <1>16, <1>17, EncryptionsKeep DEF EncryptionsRight, Adds
<1>20. StorageRight'
  <2>1. Len(tasks') \in Nat
    BY <1>9, <1>12
  <2> QED
    BY <1>0, <1>3, <1>8, <1>17, <2>1, StorageKeeps
<1>21. LocalRight(m)'
  <2>1. LocalRight(l)
    BY <1>1 DEF Right
  <2>2. LocalRight(l)'
    BY <1>0, <1>8, <1>16, <1>17, <2>1, LocalKeeps
  <2>3. /\ l.state \in 0 .. reduced' /\ l.actions \subseteq 1 .. mirrored' /\ l.total \in Sums
        /\ l.actions \subseteq 1 .. reduced' /\ Adjacent(l.actions)'
    BY <1>3, <2>2 DEF LocalRight, Passing
  <2>4. Len(tasks) + 1 \in 0 .. Len(tasks')
    BY <1>9, <1>12
  <2>5. Cardinality(Creates(active \cup {i}))' <= Len(tasks')
    <3>1. Creates(active \cup {i})' = Creates(active \cup {i})
      BY <1>3, <1>8 DEF Creates
    <3>2. /\ Cardinality(Creates(active \cup {i})) <= Cardinality(Creates(active)) + 1
          /\ Cardinality(Creates(active \cup {i})) \in Nat
      BY <1>8, <1>14, CreatesNext
    <3> QED
      BY <1>9, <1>12, <1>15, <3>1, <3>2
  <2>6. Adjacent(m.actions)' /\ Reached(m.actions) = {i} /\ m.actions # {} /\ m.pc \in PC
    BY <1>6, <1>7, <2>3 DEF PC, Adjacent
  <2>7. log'[i] = NewTask
    BY <1>2, <1>8
  <2> QED
    BY <1>6, <2>3, <2>4, <2>5, <2>6, <2>7 DEF LocalRight, IsLocal, Reached
<1>22. steady' \in BOOLEAN
  BY <1>3 DEF Right
<1> QED
  BY <1>5, <1>8, <1>16, <1>17, <1>18, <1>19, <1>20, <1>21, <1>22, PassStep

(* The document of a task after the save.                                  *)
LEMMA SavedIs ==
  ASSUME TasksRight, NEW d \in DOMAIN tasks, NEW enc \in Sums, NEW total \in Sums,
         NEW u, u = [create |-> tasks[d].create, encryptions |-> enc, total |-> total],
         tasks' = [tasks EXCEPT ![d] = u]
  PROVE  /\ tasks' \in Seq([create : ActionId, encryptions : Sums, total : Sums])
         /\ Len(tasks') = Len(tasks) /\ DOMAIN tasks' = DOMAIN tasks
         /\ tasks'[d] = [create |-> tasks[d].create, encryptions |-> enc, total |-> total]
         /\ \A e \in DOMAIN tasks : e # d => tasks'[e] = tasks[e]
<1> DEFINE D == [create : ActionId, encryptions : Sums, total : Sums]
<1>5. u \in D
  BY TasksAre
<1>6. tasks' = [tasks EXCEPT ![d] = u]
  OBVIOUS
<1>7. tasks \in Seq(D)
  BY DEF TasksRight
<1> HIDE DEF D
<1>8. tasks' \in Seq(D) /\ Len(tasks') = Len(tasks) /\ DOMAIN tasks' = DOMAIN tasks
  <2>1. d \in 1 .. Len(tasks) /\ Len(tasks) \in Nat /\ DOMAIN tasks = 1 .. Len(tasks)
    BY <1>7
  <2>2. DOMAIN tasks' = 1 .. Len(tasks)
    BY <1>6, <2>1
  <2>3. \A e \in 1 .. Len(tasks) : tasks'[e] \in D
    <3>1. \A e \in 1 .. Len(tasks) : tasks[e] \in D
      BY <1>7, <2>1
    <3>2. \A e \in 1 .. Len(tasks) : tasks'[e] = IF e = d THEN u ELSE tasks[e]
      BY <1>6, <2>1
    <3> QED
      BY <1>5, <3>1, <3>2
  <2>4. tasks' = [e \in 1 .. Len(tasks) |-> tasks'[e]]
    BY <1>6, <2>1
  <2>5. tasks' \in Seq(D)
    <3>1. PICK f : f = tasks'
      OBVIOUS
    <3>2. PICK n : n = Len(tasks)
      OBVIOUS
    <3>3. n \in Nat /\ f \in [1 .. n -> D]
      BY <2>1, <2>2, <2>3, <2>4, <3>1, <3>2
    <3>4. f \in Seq(D)
      BY <3>3
    <3> QED
      BY <3>1, <3>4
  <2> QED
    BY <2>1, <2>2, <2>5
<1>9. tasks'[d] = u /\ \A e \in DOMAIN tasks : e # d => tasks'[e] = tasks[e]
  BY <1>6
<1> QED
  BY <1>8, <1>9 DEF D

LEMMA SaveTaskIsRight ==
  ASSUME Right, NEW j \in Job, SaveTask(j)
  PROVE  Right'
<1>0. LogRight /\ ActiveRight /\ TasksRight /\ StorageRight /\ EncryptionsRight
  BY DEF Right
<1>1. PICK l : l = job[j]
  OBVIOUS
<1>2. PICK i \in Reached(l.actions) :
        tasks' = [tasks EXCEPT ![log[i] + 1].encryptions = Plus(@, i),
                               ![log[i] + 1].total = Plus(l.total, i)]
  BY <1>1 DEF SaveTask
<1>3. /\ l.pc = "saveTask" /\ active' = active /\ storage' = storage /\ steady' = steady
      /\ UNCHANGED <<chainVars, mirrored>>
  BY <1>1 DEF SaveTask
<1>4. PICK m : m = [l EXCEPT !.pc = "saveAction", !.total = None]
  OBVIOUS
<1>5. job' = [job EXCEPT ![j] = m]
  BY <1>1, <1>4 DEF SaveTask
<1>6. /\ IsLocal(m) /\ m.pc = "saveAction" /\ m.actions = l.actions /\ m.state = l.state
      /\ m.nextTaskId = l.nextTaskId /\ m.total = None
  <2>1. IsLocal(l)
    BY <1>1, LocalShape
  <2> QED
    BY <1>4, <2>1 DEF IsLocal
<1>7. /\ i \in 1 .. reduced /\ i \in ActionId /\ i \in DOMAIN log
      /\ Reached(l.actions) = {i} /\ 1 .. i - 1 \subseteq active /\ i \in l.actions
  BY <1>1, <1>2, <1>3, ReachedGives DEF Passing
<1>8. /\ LogRight' /\ log' = log /\ reduced' = reduced /\ mirrored' = mirrored
      /\ reduced \in Nat /\ mirrored \in Nat /\ reduced <= reduced' /\ mirrored <= mirrored'
  BY <1>3, SameLog
<1>9. Len(tasks) \in Nat /\ DOMAIN tasks = 1 .. Len(tasks)
  BY <1>0, TasksAre
<1>10. LocalRight(l)
  BY <1>1 DEF Right
<1>11. PICK d : d = log[i] + 1
  OBVIOUS
<1>12. /\ log[i] \in 0 .. Len(tasks) - 1 /\ l.total \in Sums
       /\ \A h \in ActionId : l.total[h] <= tasks[d].encryptions[h]
  BY <1>3, <1>7, <1>10, <1>11 DEF LocalRight
<1>13. d \in DOMAIN tasks /\ log[i] # NewTask
  BY <1>9, <1>11, <1>12 DEF NewTask
<1>14. PICK enc : enc = tasks[d].encryptions
  OBVIOUS
<1>15. enc \in Sums /\ \A h \in ActionId : l.total[h] <= enc[h]
  BY <1>0, <1>12, <1>13, <1>14, TasksAre
<1>16. PICK newEnc : newEnc = Plus(enc, i)
  OBVIOUS
<1>17. PICK newTotal : newTotal = Plus(l.total, i)
  OBVIOUS
<1>18. /\ newEnc \in Sums /\ newTotal \in Sums /\ newEnc[i] >= 1
       /\ \A h \in ActionId : enc[h] <= newEnc[h] /\ newTotal[h] <= newEnc[h]
  BY <1>7, <1>12, <1>15, <1>16, <1>17, PlusIs
<1>19. tasks' = [tasks EXCEPT ![d].encryptions = newEnc, ![d].total = newTotal]
  BY <1>2, <1>11, <1>14, <1>16, <1>17
<1>19a. PICK u : u = [create |-> tasks[d].create, encryptions |-> newEnc, total |-> newTotal]
  OBVIOUS
<1>19b. tasks' = [tasks EXCEPT ![d] = u]
  <2>1. PICK t : t = tasks[d]
    OBVIOUS
  <2>2. t = [create |-> t.create, encryptions |-> t.encryptions, total |-> t.total]
    BY <1>0, <1>13, <2>1, TasksAre
  <2>3. PICK x : x = [t EXCEPT !.encryptions = newEnc, !.total = newTotal]
    OBVIOUS
  <2>4. x = [create |-> t.create, encryptions |-> newEnc, total |-> newTotal]
    BY <2>2, <2>3
  <2>5. x = u
    BY <1>19a, <2>1, <2>4
  <2> QED
    BY <1>19, <2>1, <2>3, <2>5
<1>20. /\ tasks' \in Seq([create : ActionId, encryptions : Sums, total : Sums])
       /\ Len(tasks') = Len(tasks) /\ DOMAIN tasks' = DOMAIN tasks
       /\ tasks'[d] = [create |-> tasks[d].create, encryptions |-> newEnc, total |-> newTotal]
       /\ \A e \in DOMAIN tasks : e # d => tasks'[e] = tasks[e]
  BY <1>0, <1>13, <1>18, <1>19a, <1>19b, SavedIs
<1>21. tasks'[d].create = tasks[d].create /\ tasks'[d].encryptions = newEnc /\ tasks'[d].total = newTotal
  BY <1>20
<1>22. active \subseteq 1 .. reduced
  BY <1>0 DEF ActiveRight
<1>23. TasksRight'
  <2>1. Creates(1 .. reduced)' = Creates(1 .. reduced) /\ Creates(active)' = Creates(active)
    BY <1>3, <1>8 DEF Creates
  <2>2. \A e \in DOMAIN tasks : /\ tasks'[e].create \in Creates(1 .. reduced)
                                /\ \A h \in ActionId : tasks'[e].total[h] <= tasks'[e].encryptions[h]
    BY <1>0, <1>18, <1>20, <1>21 DEF TasksRight
  <2>3. Cardinality(Creates(active)) <= Len(tasks')
    BY <1>0, <1>20 DEF TasksRight
  <2> QED
    BY <1>20, <2>1, <2>2, <2>3 DEF TasksRight
<1>24. Grows
  <2>1. \A e \in DOMAIN tasks : \A h \in ActionId : tasks[e].encryptions[h] <= tasks'[e].encryptions[h]
    <3> SUFFICES ASSUME NEW e \in DOMAIN tasks, NEW h \in ActionId
                 PROVE  tasks[e].encryptions[h] <= tasks'[e].encryptions[h]
      OBVIOUS
    <3>1. CASE e = d
      BY <1>14, <1>18, <1>21, <3>1
    <3>2. CASE e # d
      <4>1. tasks[e].encryptions[h] \in 0 .. Many
        BY <1>0, TasksAre
      <4> QED
        BY <1>20, <3>2, <4>1 DEF Many
    <3> QED
      BY <3>1, <3>2
  <2>2. \A h : Creates(active \cup {h})' = Creates(active \cup {h})
    BY <1>3, <1>8 DEF Creates
  <2>3. \A h \in DOMAIN log : h \in DOMAIN log' /\ log'[h] = log[h]
    BY <1>8
  <2>4. Len(tasks) <= Len(tasks') /\ active \subseteq active'
    BY <1>3, <1>9, <1>20
  <2>5. \A h \in 1 .. reduced : Cardinality(Creates(active \cup {h})) <= Len(tasks) =>
          Cardinality(Creates(active \cup {h}))' <= Len(tasks')
    BY <1>20, <2>2
  <2> QED
    BY <1>8, <2>1, <2>3, <2>4, <2>5 DEF Grows
<1>25. ActiveRight'
  BY <1>0, <1>3, <1>8 DEF ActiveRight
<1>26. EncryptionsRight'
  BY <1>0, <1>3, <1>8, <1>23, <1>24, EncryptionsKeep DEF EncryptionsRight, Adds
<1>27. StorageRight'
  <2>1. Len(tasks') \in Nat
    BY <1>9, <1>20
  <2> QED
    BY <1>0, <1>3, <1>8, <1>24, <2>1, StorageKeeps
<1>28. LocalRight(m)'
  <2>1. LocalRight(l)'
    BY <1>0, <1>8, <1>10, <1>23, <1>24, LocalKeeps
  <2>2. /\ l.state \in 0 .. reduced' /\ l.actions \subseteq 1 .. mirrored' /\ l.nextTaskId \in 0 .. Len(tasks')
        /\ l.actions \subseteq 1 .. reduced' /\ Adjacent(l.actions)'
    BY <1>3, <2>1 DEF LocalRight, Passing
  <2>3. Cardinality(Creates(active \cup {i}))' <= Len(tasks')
    <3>1. Creates(active \cup {i})' = Creates(active)
      BY <1>3, <1>8, <1>13 DEF Creates
    <3> QED
      BY <1>0, <1>20, <3>1 DEF TasksRight
  <2>4. Adjacent(m.actions)' /\ Reached(m.actions) = {i} /\ m.actions # {} /\ m.pc \in PC
    BY <1>6, <1>7, <2>2 DEF PC, Adjacent
  <2>5. HasEncryption(i)'
    <3>1. log'[i] < Len(tasks') /\ log'[i] + 1 = d
      BY <1>8, <1>9, <1>11, <1>12, <1>20
    <3>2. tasks'[d].encryptions[i] >= 1
      BY <1>18, <1>21
    <3> QED
      BY <3>1, <3>2 DEF HasEncryption
  <2>6. None \in Sums
    BY NoneIs
  <2>7. m.state \in 0 .. reduced' /\ m.actions \subseteq 1 .. mirrored' /\ m.actions \subseteq 1 .. reduced'
        /\ m.nextTaskId \in 0 .. Len(tasks') /\ m.total \in Sums /\ m.pc = "saveAction" /\ IsLocal(m)
    BY <1>6, <2>2, <2>6
  <2> QED
    BY <2>3, <2>4, <2>5, <2>7 DEF LocalRight, IsLocal, Reached
<1>29. steady' \in BOOLEAN
  BY <1>3 DEF Right
<1> QED
  BY <1>5, <1>8, <1>23, <1>24, <1>25, <1>26, <1>27, <1>28, <1>29, PassStep

LEMMA SaveActionIsRight ==
  ASSUME Right, NEW j \in Job, SaveAction(j)
  PROVE  Right'
<1>0. LogRight /\ ActiveRight /\ TasksRight /\ StorageRight /\ EncryptionsRight
  BY DEF Right
<1>1. PICK l : l = job[j]
  OBVIOUS
<1>2. LocalRight(l) /\ l.pc = "saveAction"
  BY <1>1 DEF Right, SaveAction
<1>3. PICK i : i \in Reached(l.actions)
  <2>1. l.actions # {} /\ l.actions \subseteq 1 .. mirrored /\ mirrored \in Nat
    BY <1>0, <1>2, LogIs DEF LocalRight
  <2> QED
    BY <2>1, ReachedIs
<1>4. /\ i \in 1 .. reduced /\ i \in 1 .. mirrored /\ i \in ActionId /\ i \in DOMAIN log
      /\ Reached(l.actions) = {i} /\ 1 .. i - 1 \subseteq active /\ i \in l.actions
  BY <1>1, <1>2, <1>3, ReachedGives DEF Passing
<1>5. /\ active' = active \cup {i} /\ storage' = storage /\ steady' = steady /\ tasks' = tasks
      /\ UNCHANGED <<chainVars, mirrored>>
  BY <1>1, <1>4 DEF SaveAction
<1>6. PICK m : m = [l EXCEPT !.pc = "next", !.actions = l.actions \ {i}]
  OBVIOUS
<1>7. job' = [job EXCEPT ![j] = m]
  BY <1>1, <1>4, <1>6 DEF SaveAction
<1>8. /\ IsLocal(m) /\ m.pc = "next" /\ m.actions = l.actions \ {i} /\ m.state = l.state
      /\ m.nextTaskId = l.nextTaskId /\ m.total = l.total
  <2>1. IsLocal(l)
    BY <1>1, LocalShape
  <2> QED
    BY <1>6, <2>1 DEF IsLocal
<1>9. /\ LogRight' /\ log' = log /\ reduced' = reduced /\ mirrored' = mirrored
      /\ reduced \in Nat /\ mirrored \in Nat /\ reduced <= reduced' /\ mirrored <= mirrored'
  BY <1>5, SameLog
<1>10. Len(tasks) \in Nat /\ Len(tasks') \in Nat
  BY <1>0, <1>5, TasksAre
<1>11. /\ log[i] # NewTask => HasEncryption(i)
       /\ Cardinality(Creates(active \cup {i})) <= Len(tasks)
  BY <1>2, <1>3 DEF LocalRight
<1>12. \A ids : Creates(ids)' = {h \in ids' : log[h] = NewTask}
  BY <1>9 DEF Creates
<1>13. TasksRight'
  <2>1. Creates(1 .. reduced)' = Creates(1 .. reduced) /\ Creates(active)' = Creates(active \cup {i})
    BY <1>5, <1>9 DEF Creates
  <2> QED
    BY <1>0, <1>5, <1>11, <2>1 DEF TasksRight
<1>14. Grows
  <2>1. \A d \in DOMAIN tasks : \A h \in ActionId : tasks[d].encryptions[h] <= tasks'[d].encryptions[h]
    <3> SUFFICES ASSUME NEW d \in DOMAIN tasks, NEW h \in ActionId
                 PROVE  tasks[d].encryptions[h] <= tasks[d].encryptions[h]
      BY <1>5
    <3>1. tasks[d].encryptions[h] \in 0 .. Many
      BY <1>0, TasksAre
    <3> QED
      BY <3>1 DEF Many
  <2>2. ASSUME NEW h \in 1 .. reduced, 1 .. h - 1 \subseteq active,
               Cardinality(Creates(active \cup {h})) <= Len(tasks)
        PROVE  Cardinality(Creates(active \cup {h}))' <= Len(tasks')
    <3>1. i \in active \/ h \in active \/ h = i
      <4>1. i \in Nat /\ h \in Nat /\ i >= 1 /\ h >= 1
        BY <1>4, <1>9
      <4>2. i < h => i \in 1 .. h - 1
        BY <4>1
      <4>3. h < i => h \in 1 .. i - 1
        BY <4>1
      <4> QED
        BY <1>4, <2>2, <4>1, <4>2, <4>3
    <3>2. active' \cup {h} = active \cup {h} \/ active' \cup {h} = active \cup {i}
      BY <1>5, <3>1
    <3>3. \/ Creates(active \cup {h})' = Creates(active \cup {h})
          \/ Creates(active \cup {h})' = Creates(active \cup {i})
      BY <1>9, <3>2 DEF Creates
    <3> QED
      BY <1>5, <1>11, <2>2, <3>3
  <2>3. \A h \in DOMAIN log : h \in DOMAIN log' /\ log'[h] = log[h]
    BY <1>9
  <2>4. Len(tasks) <= Len(tasks') /\ active \subseteq active'
    BY <1>5, <1>10
  <2> QED
    BY <1>9, <2>1, <2>2, <2>3, <2>4 DEF Grows
<1>15. ActiveRight'
  <2>1. active' \subseteq 1 .. mirrored' /\ active' \subseteq 1 .. reduced'
    BY <1>0, <1>4, <1>5, <1>9 DEF ActiveRight
  <2>2. \A h \in active' : 1 .. h \subseteq active'
    <3>1. \A h \in active : 1 .. h \subseteq active'
      BY <1>0, <1>5 DEF ActiveRight
    <3>2. 1 .. i \subseteq 1 .. i - 1 \cup {i}
      BY <1>4
    <3>3. 1 .. i \subseteq active'
      BY <1>4, <1>5, <3>2
    <3> QED
      BY <1>5, <3>1, <3>3
  <2> QED
    BY <2>1, <2>2 DEF ActiveRight
<1>16. EncryptionsRight'
  <2>1. \A h \in Adds(active \cup {i}) : HasEncryption(h)
    BY <1>0, <1>11 DEF EncryptionsRight, Adds
  <2> QED
    BY <1>5, <1>9, <2>1 DEF EncryptionsRight, Adds, HasEncryption
<1>17. StorageRight'
  BY <1>0, <1>5, <1>9, <1>10, <1>14, StorageKeeps
<1>18. LocalRight(m)'
  <2>1. LocalRight(l)'
    BY <1>0, <1>2, <1>9, <1>13, <1>14, LocalKeeps
  <2>2. /\ l.state \in 0 .. reduced' /\ l.actions \subseteq 1 .. mirrored' /\ l.nextTaskId \in 0 .. Len(tasks')
        /\ l.actions \subseteq 1 .. reduced' /\ l.total \in Sums
    BY <1>2, <2>1 DEF LocalRight, Passing
  <2>3. Adjacent(l.actions)
    BY <1>2 DEF LocalRight, Passing
  <2>4. Adjacent(m.actions)'
    BY <1>5, <1>8, <2>3 DEF Adjacent
  <2>5. m.pc \in PC
    BY <1>8 DEF PC
  <2>6. m.state \in 0 .. reduced' /\ m.actions \subseteq 1 .. mirrored' /\ m.actions \subseteq 1 .. reduced'
        /\ m.nextTaskId \in 0 .. Len(tasks') /\ m.total \in Sums /\ m.pc = "next" /\ IsLocal(m)
    BY <1>8, <2>2
  <2> QED
    BY <2>4, <2>5, <2>6 DEF LocalRight, IsLocal
<1>19. steady' \in BOOLEAN
  BY <1>5 DEF Right
<1> QED
  BY <1>7, <1>9, <1>13, <1>14, <1>15, <1>16, <1>17, <1>18, <1>19, PassStep

-----------------------------------------------------------------------------
(***************************************************************************)
(* The steps that change the trees.                                        *)
(***************************************************************************)
LEMMA StorageStep ==
  ASSUME Right, NEW j \in Job, UNCHANGED <<chainVars, mirrored, active, tasks>>, StorageRight',
         NEW m, job' = [job EXCEPT ![j] = m], LocalRight(m), steady' \in BOOLEAN
  PROVE  Right'
<1>1. /\ LogRight' /\ \A i \in DOMAIN log : i \in DOMAIN log' /\ log'[i] = log[i]
      /\ reduced <= reduced' /\ mirrored <= mirrored'
  BY SameLog
<1>2. Grows /\ ActiveRight' /\ TasksRight' /\ EncryptionsRight'
  BY <1>1, Quiet
<1>3. LocalRight(m)'
  BY <1>1, <1>2, LocalKeeps DEF Right
<1> QED
  BY <1>1, <1>2, <1>3, PassStep

LEMMA OverwriteIs ==
  ASSUME NEW f, NEW g
  PROVE  /\ DOMAIN Overwrite(f, g) = DOMAIN f \cup DOMAIN g
         /\ \A x \in DOMAIN g : Overwrite(f, g)[x] = g[x]
         /\ \A x \in DOMAIN f : x \notin DOMAIN g => Overwrite(f, g)[x] = f[x]
BY DEF Overwrite

LEMMA GotoIs ==
  ASSUME Right, NEW j \in Job, NEW label \in PC \ Passing, Goto(j, label)
  PROVE  \E m : job' = [job EXCEPT ![j] = m] /\ LocalRight(m)
<1>1. PICK l : l = job[j]
  OBVIOUS
<1>2. PICK m : m = [l EXCEPT !.pc = label]
  OBVIOUS
<1>3. job' = [job EXCEPT ![j] = m]
  BY <1>1, <1>2 DEF Goto
<1>4. /\ IsLocal(m) /\ m.pc = label /\ m.state = l.state /\ m.actions = l.actions
      /\ m.nextTaskId = l.nextTaskId /\ m.total = l.total
  <2>1. IsLocal(l)
    BY <1>1, LocalShape
  <2> QED
    BY <1>2, <2>1 DEF IsLocal
<1>5. LocalRight(m)
  BY <1>1, <1>4, LocalGives, LocalIsRight DEF Passing
<1> QED
  BY <1>3, <1>5

(* The leaves of the tasks in the database.                                *)
LEMMA TaskLeavesAre ==
  ASSUME TasksRight
  PROVE  /\ DOMAIN TaskLeaves = 0 .. Len(tasks) - 1
         /\ \A t \in DOMAIN TaskLeaves :
              /\ t + 1 \in DOMAIN tasks
              /\ TaskLeaves[t].create = tasks[t + 1].create /\ TaskLeaves[t].total = tasks[t + 1].total
              /\ TaskLeaves[t].create \in ActionId /\ TaskLeaves[t].total \in Sums
<1>1. DOMAIN TaskLeaves = 0 .. Len(tasks) - 1
  BY DEF TaskLeaves
<1>2. ASSUME NEW t \in 0 .. Len(tasks) - 1
      PROVE  /\ t + 1 \in DOMAIN tasks
             /\ TaskLeaves[t].create = tasks[t + 1].create /\ TaskLeaves[t].total = tasks[t + 1].total
  <2>1. TaskLeaves[t] = [create |-> tasks[t + 1].create, total |-> tasks[t + 1].total]
    BY DEF TaskLeaves
  <2>2. t + 1 \in DOMAIN tasks
    BY TasksAre
  <2> QED
    BY <2>1, <2>2
<1> QED
  BY <1>1, <1>2, TasksAre

LEMMA FindTasksIsRight ==
  ASSUME Right, NEW j \in Job, FindTasks(j)
  PROVE  Right'
<1>0. LogRight /\ ActiveRight /\ TasksRight /\ StorageRight
  BY DEF Right
<1>1. PICK m : job' = [job EXCEPT ![j] = m] /\ LocalRight(m)
  BY GotoIs DEF FindTasks, PC, Passing
<1>2. /\ storage' = [storage EXCEPT !.task = Overwrite(@, TaskLeaves)]
      /\ UNCHANGED <<chainVars, mirrored, active, tasks>> /\ steady' = steady
  BY DEF FindTasks
<1>3. PICK old : old = storage.task
  OBVIOUS
<1>4. PICK new : new = Overwrite(old, TaskLeaves)
  OBVIOUS
<1>5. storage' = [task |-> new, commitment |-> storage.commitment]
  BY <1>0, <1>2, <1>3, <1>4 DEF StorageRight, IsStorage
<1>6. IsStorage(storage') /\ storage'.task = new /\ storage'.commitment = storage.commitment
  BY <1>5 DEF IsStorage
<1>7. PICK n \in 0 .. Len(tasks) : DOMAIN old = 0 .. n - 1
  BY <1>0, <1>3 DEF StorageRight
<1>8. Len(tasks) \in Nat
  BY <1>0, TasksAre
<1>9. DOMAIN new = 0 .. Len(tasks) - 1
  <2>1. 0 .. n - 1 \subseteq 0 .. Len(tasks) - 1
    BY <1>7, <1>8
  <2>2. DOMAIN new = DOMAIN old \cup DOMAIN TaskLeaves
    BY <1>4, OverwriteIs
  <2> QED
    BY <1>0, <1>7, <2>1, <2>2, TaskLeavesAre
<1>10. \A t \in DOMAIN new : new[t] = TaskLeaves[t] /\ t \in DOMAIN TaskLeaves
  <2>1. \A t \in DOMAIN TaskLeaves : new[t] = TaskLeaves[t]
    BY <1>4 DEF Overwrite
  <2> QED
    BY <1>0, <1>9, <2>1, TaskLeavesAre
<1>11. \A t \in DOMAIN new : new[t].create \in ActionId /\ new[t].total \in Sums
  BY <1>0, <1>10, TaskLeavesAre
<1>12. log' = log /\ reduced' = reduced /\ active' = active /\ tasks' = tasks
  BY <1>2 DEF chainVars
<1>13. StorageRight'
  <2>1. DOMAIN new \in {0 .. k - 1 : k \in 0 .. Len(tasks)}
    BY <1>8, <1>9
  <2>2. LET leaves == InOrder(Adds(1 .. reduced))
        IN  \A c \in DOMAIN storage.commitment :
              /\ c \in DOMAIN leaves /\ storage.commitment[c] = leaves[c]
              /\ storage.commitment[c] \in active
    BY <1>0 DEF StorageRight
  <2>3. InOrder(Adds(1 .. reduced))' = InOrder(Adds(1 .. reduced))
    BY <1>12 DEF InOrder, Adds
  <2> QED
    BY <1>6, <1>11, <1>12, <2>1, <2>2, <2>3 DEF StorageRight, IsStorage
<1>14. steady' \in BOOLEAN
  BY <1>2 DEF Right
<1> QED
  BY <1>1, <1>2, <1>13, <1>14, StorageStep

(* The active votes are the first of those reduced.                        *)
LEMMA ActiveLeavesAre ==
  ASSUME LogRight, ActiveRight, NEW A, A = InOrder(Adds(active)), NEW L, L = InOrder(Adds(1 .. reduced))
  PROVE  \A c \in DOMAIN A : c \in DOMAIN L /\ A[c] = L[c] /\ A[c] \in active
<1>1. reduced \in Nat /\ active \subseteq 1 .. reduced
  BY LogIs DEF ActiveRight
<1>2. /\ Adds(1 .. reduced) \subseteq Nat /\ IsFiniteSet(Adds(1 .. reduced))
      /\ Adds(active) \subseteq Nat /\ IsFiniteSet(Adds(active)) /\ Adds(active) \subseteq active
  BY <1>1, CreatesAre
<1>3. Adds(active) \subseteq Adds(1 .. reduced)
  BY <1>1 DEF Adds
<1>4. \A i \in Adds(active) : \A h \in Adds(1 .. reduced) : h < i => h \in Adds(active)
  <2> SUFFICES ASSUME NEW i \in Adds(active), NEW h \in Adds(1 .. reduced), h < i
               PROVE  h \in active
    BY DEF Adds
  <2>1. i \in active /\ i \in 1 .. reduced /\ h \in 1 .. reduced
    BY <1>1 DEF Adds
  <2>2. h \in 1 .. i
    BY <1>1, <2>1
  <2> QED
    BY <2>1, <2>2 DEF ActiveRight
<1>5. \A c \in DOMAIN A : c \in DOMAIN L /\ L[c] = A[c]
  BY <1>2, <1>3, <1>4, InOrderPrefix
<1>6. \A c \in DOMAIN A : A[c] \in Adds(active)
  BY <1>2, InOrderIs
<1> QED
  BY <1>2, <1>5, <1>6

LEMMA FindActiveIsRight ==
  ASSUME Right, NEW j \in Job, FindActive(j)
  PROVE  Right'
<1>0. LogRight /\ ActiveRight /\ TasksRight /\ StorageRight
  BY DEF Right
<1>1. PICK m : job' = [job EXCEPT ![j] = m] /\ LocalRight(m)
  BY GotoIs DEF FindActive, PC, Passing
<1>2. /\ storage' = [storage EXCEPT !.commitment = Overwrite(@, InOrder(Adds(active)))]
      /\ UNCHANGED <<chainVars, mirrored, active, tasks>> /\ steady' = steady
  BY DEF FindActive, Active
<1>3. PICK old : old = storage.commitment
  OBVIOUS
<1>4. PICK A : A = InOrder(Adds(active))
  OBVIOUS
<1>5. PICK new : new = Overwrite(old, A)
  OBVIOUS
<1>6. storage' = [task |-> storage.task, commitment |-> new]
  BY <1>0, <1>2, <1>3, <1>4, <1>5 DEF StorageRight, IsStorage
<1>7. IsStorage(storage') /\ storage'.task = storage.task /\ storage'.commitment = new
  BY <1>6 DEF IsStorage
<1>8. PICK L : L = InOrder(Adds(1 .. reduced))
  OBVIOUS
<1>9. \A c \in DOMAIN A : c \in DOMAIN L /\ A[c] = L[c] /\ A[c] \in active
  BY <1>0, <1>4, <1>8, ActiveLeavesAre
<1>10. \A c \in DOMAIN old : c \in DOMAIN L /\ old[c] = L[c] /\ old[c] \in active
  BY <1>0, <1>3, <1>8 DEF StorageRight
<1>11. /\ DOMAIN new = DOMAIN old \cup DOMAIN A
       /\ \A x \in DOMAIN A : new[x] = A[x]
       /\ \A x \in DOMAIN old : x \notin DOMAIN A => new[x] = old[x]
  BY <1>5 DEF Overwrite
<1>12. \A c \in DOMAIN new : c \in DOMAIN L /\ new[c] = L[c] /\ new[c] \in active
  BY <1>9, <1>10, <1>11
<1>13. log' = log /\ reduced' = reduced /\ active' = active /\ tasks' = tasks
  BY <1>2 DEF chainVars
<1>14. StorageRight'
  <2>1. InOrder(Adds(1 .. reduced))' = L
    BY <1>8, <1>13 DEF InOrder, Adds
  <2>2. /\ DOMAIN storage.task \in {0 .. n - 1 : n \in 0 .. Len(tasks)}
        /\ \A t \in DOMAIN storage.task :
             storage.task[t].create \in ActionId /\ storage.task[t].total \in Sums
    BY <1>0 DEF StorageRight
  <2> QED
    BY <1>7, <1>12, <1>13, <2>1, <2>2 DEF StorageRight, IsStorage
<1>15. steady' \in BOOLEAN
  BY <1>2 DEF Right
<1> QED
  BY <1>1, <1>2, <1>14, <1>15, StorageStep

(* Empty trees are right.                                                  *)
LEMMA EmptyIs ==
  /\ IsStorage(EmptyTrees) /\ DOMAIN EmptyTrees.task = {} /\ DOMAIN EmptyTrees.commitment = {}
  /\ 0 .. 0 - 1 = {}
<1>1. EmptyTrees = [task |-> <<>>, commitment |-> <<>>]
  BY DEF EmptyTrees
<1>2. DOMAIN <<>> = {}
  OBVIOUS
<1>3. EmptyTrees.task = <<>> /\ EmptyTrees.commitment = <<>>
  BY <1>1
<1> QED
  BY <1>1, <1>2, <1>3 DEF IsStorage

LEMMA CrashIsRight ==
  ASSUME Right, Crash
  PROVE  Right'
<1>0. LogRight /\ ActiveRight /\ TasksRight /\ StorageRight
  BY DEF Right
<1>1. /\ storage' = EmptyTrees /\ UNCHANGED <<chainVars, mirrored, active, tasks>>
      /\ steady' \in BOOLEAN
  BY DEF Crash, Right
<1>2. PICK m : m = [Idle EXCEPT !.pc = "idle"]
  OBVIOUS
<1>3. LocalRight(m) /\ job' = [job EXCEPT ![Here] = m]
  <2>1. LocalRight(m)
    BY <1>2, IdleIsRight DEF PC
  <2>2. m = Idle
    BY <1>2 DEF Idle
  <2> QED
    BY <2>1, <2>2 DEF Crash
<1>4. StorageRight'
  <2>1. Len(tasks) \in Nat /\ tasks' = tasks
    BY <1>0, <1>1, TasksAre
  <2>2. DOMAIN EmptyTrees.task \in {0 .. n - 1 : n \in 0 .. Len(tasks')}
    BY <2>1, EmptyIs
  <2> QED
    BY <1>1, <2>2, EmptyIs DEF StorageRight, IsStorage
<1>5. Here \in Job
  BY Bounds
<1> QED
  BY <1>1, <1>3, <1>4, <1>5, StorageStep

LEMMA InitIsRight ==
  ASSUME Init
  PROVE  Right
<1>0. /\ log = Before /\ reduced = Len(Before) /\ mempool = {} /\ mirrored = 0 /\ active = {}
      /\ tasks = <<>> /\ storage = EmptyTrees /\ job = [j \in Job |-> Idle] /\ steady = TRUE
  BY DEF Init
<1>1. LogRight
  <2>1. Before \in Seq({NewTask} \cup Nat) /\ Len(Before) <= MaxActions
    BY RequesterAssumption
  <2>2. Len(Before) \in Nat
    BY <2>1
  <2>3. ASSUME NEW i \in DOMAIN log PROVE log[i] < Cardinality(Creates(1 .. i - 1))
    <3>1. Creates(1 .. i - 1) = {h \in 1 .. i - 1 : Before[h] = NewTask}
      BY <1>0 DEF Creates
    <3> QED
      BY <1>0, <2>3, <3>1, RequesterAssumption
  <2> QED
    BY <1>0, <2>1, <2>2, <2>3 DEF LogRight
<1>2. ActiveRight
  BY <1>0 DEF ActiveRight
<1>3. Len(tasks) = 0 /\ DOMAIN tasks = {}
  BY <1>0
<1>4. TasksRight
  <2>1. Creates(active) = {}
    BY <1>0 DEF Creates
  <2>2. Cardinality(Creates(active)) = 0
    BY <2>1, FS_EmptySet
  <2>3. tasks \in Seq([create : ActionId, encryptions : Sums, total : Sums])
    BY <1>0
  <2> QED
    BY <1>3, <2>2, <2>3 DEF TasksRight
<1>5. StorageRight
  <2>1. DOMAIN storage.task \in {0 .. n - 1 : n \in 0 .. Len(tasks)}
    BY <1>0, <1>3, EmptyIs
  <2> QED
    BY <1>0, <2>1, EmptyIs DEF StorageRight
<1>6. EncryptionsRight
  BY <1>0 DEF EncryptionsRight, Adds
<1>7. LocalRight(Idle)
  <2>1. /\ IsLocal(Idle) /\ Idle.pc = "idle" /\ Idle.state = 0 /\ Idle.actions = {} /\ Idle.nextTaskId = 0
        /\ Idle.total = None
    BY DEF Idle, IsLocal
  <2>2. reduced \in Nat
    BY <1>1, LogIs
  <2>3. Idle.state \in 0 .. reduced /\ Idle.nextTaskId \in 0 .. Len(tasks) /\ Idle.total \in Sums
    BY <1>3, <2>1, <2>2, NoneIs
  <2>4. Idle.pc \in PC \ {"saveTask", "saveAction"} /\ Idle.pc \notin Passing /\ Idle.actions \subseteq 1 .. mirrored
    BY <2>1 DEF PC, Passing
  <2> QED
    BY <2>1, <2>3, <2>4, LocalIsRight
<1> QED
  BY <1>0, <1>1, <1>2, <1>4, <1>5, <1>6, <1>7 DEF Right

-----------------------------------------------------------------------------
LEMMA RightStep ==
  ASSUME Right, [Next]_vars
  PROVE  Right'
<1>1. ASSUME NEW t \in {NewTask} \cup 0 .. MaxActions - 1, Dispatch(t) PROVE Right'
  BY <1>1, DispatchIsRight
<1>2. ASSUME NEW tx \in mempool, Include(tx) PROVE Right'
  BY <1>2, IncludeIsRight
<1>3. ASSUME NEW n \in 1 .. Len(log), ReduceElsewhere(n) PROVE Right'
  BY <1>3, ReduceElsewhereIsRight
<1>4. CASE Record
  BY <1>4, RecordIsRight
<1>5. ASSUME NEW j \in Job, NEW n \in 0 .. reduced, Find(j, n) \/ FindNothing(j, n) PROVE Right'
  BY <1>5, FindIsRight, FindNothingIsRight
<1>6. ASSUME NEW j \in Job,
             FindLastTask(j) \/ Create(j) \/ FindTask(j) \/ SaveTask(j) \/ SaveAction(j)
      PROVE  Right'
  BY <1>6, FindLastTaskIsRight, CreateIsRight, FindTaskIsRight, SaveTaskIsRight, SaveActionIsRight
<1>7. ASSUME NEW j \in Job, PassDone(j) \/ DuplicateTask(j) \/ FindTasks(j) \/ FindActive(j)
      PROVE  Right'
  BY <1>7, PassDoneIsRight, FetchThrowsIsRight, FindTasksIsRight, FindActiveIsRight
<1>8. ASSUME NEW j \in Job, Rollup(j) PROVE Right'
  BY <1>8, FindBatchIsRight, FetchStateIsRight, RollupStepsAreRight, SendIsRight DEF Rollup
<1>9. ASSUME NEW j \in Job, Skip(j) PROVE Right'
  BY <1>9, RollupStepsAreRight
<1>10. CASE Crash
  BY <1>10, CrashIsRight
<1>11. ASSUME NEW j \in Job, FetchThrows(j) \/ UpdateThrows(j) \/ RollupThrows(j) PROVE Right'
  BY <1>11, FetchThrowsIsRight, RollupStepsAreRight
<1>12. CASE UNCHANGED vars
  <2>1. UNCHANGED <<chainVars, mirrored>> /\ UNCHANGED <<active, tasks, storage, job, steady>>
    BY <1>12 DEF vars
  <2> QED
    BY <2>1, SameLog, ChainOnly
<1>13. CASE ChainStep
  BY <1>1, <1>2, <1>3, <1>4, <1>13 DEF ChainStep
<1>14. ASSUME NEW j \in Job, Update(j) PROVE Right'
  BY <1>5, <1>6, <1>7, <1>14 DEF Update
<1>15. CASE Fail
  BY <1>10, <1>11, <1>15 DEF Fail
<1> QED
  BY <1>8, <1>9, <1>12, <1>13, <1>14, <1>15 DEF Next

LEMMA RightIsInvariant == Spec => []Right
<1>1. Init => Right
  BY InitIsRight
<1>2. Right /\ [Next]_vars => Right'
  BY RightStep
<1> QED
  BY <1>1, <1>2, PTL DEF Spec

(* Whatever the chain dispatches, the variables of the process and the     *)
(* documents of the database have their types: the task of a vote, the     *)
(* action of a leaf and what a job has found exist.                        *)
THEOREM TypeCorrect == Spec => []TypeOK
<1>1. Right => TypeOK
  <2> SUFFICES ASSUME Right PROVE TypeOK
    OBVIOUS
  <2>1. LogRight /\ ActiveRight /\ TasksRight /\ StorageRight /\ steady \in BOOLEAN
    BY DEF Right
  <2>2. /\ Len(log) \in Nat /\ DOMAIN log = 1 .. Len(log) /\ Len(log) <= MaxActions
        /\ MaxActions \in Nat /\ NewTask = -1
    BY <2>1, LogIs, Bounds DEF LogRight
  <2>3. ASSUME NEW i \in DOMAIN log PROVE log[i] \in {NewTask} \cup 0 .. MaxActions - 1
    <3>1. i \in 1 .. Len(log) /\ i - 1 \in Nat /\ 1 .. i - 1 \subseteq 1 .. i - 1
      BY <2>2
    <3>2. Cardinality(Creates(1 .. i - 1)) <= i - 1 /\ Cardinality(Creates(1 .. i - 1)) \in Nat
      BY <3>1, CreatesAre
    <3>3. log[i] < Cardinality(Creates(1 .. i - 1)) /\ (log[i] = NewTask \/ log[i] \in Nat)
      BY <2>1, LogIs DEF LogRight
    <3> QED
      BY <2>2, <3>1, <3>2, <3>3
  <2>4. log \in Seq({NewTask} \cup 0 .. MaxActions - 1)
    <3> DEFINE V == {NewTask} \cup Nat
               W == {NewTask} \cup 0 .. MaxActions - 1
    <3>1. log \in Seq(V) /\ \A i \in DOMAIN log : log[i] \in W
      BY <2>1, <2>3 DEF LogRight
    <3> HIDE DEF V, W
    <3>2. log \in Seq(W)
      BY <2>2, <3>1
    <3> QED
      BY <3>2 DEF W
  <2>5. \A d \in DOMAIN tasks : /\ tasks[d].create \in Creates(1 .. reduced)
                                /\ tasks[d].encryptions \in Sums /\ tasks[d].total \in Sums
    BY <2>1, TasksAre DEF TasksRight
  <2>6. TreesOK(storage)
    BY <2>1 DEF TreesOK, StorageRight
  <2>7. \A j \in Job : /\ job[j].pc \in PC /\ job[j].state \in 0 .. reduced
                       /\ job[j].actions \subseteq 1 .. mirrored
                       /\ job[j].nextTaskId \in 0 .. Len(tasks) /\ job[j].total \in Sums
    BY DEF Right, LocalRight
  <2>8. /\ mirrored \in 0 .. Len(log) /\ reduced \in 0 .. Len(log)
        /\ active \subseteq 1 .. mirrored /\ active \subseteq 1 .. reduced
        /\ \A tx \in mempool : tx.from \in 0 .. reduced /\ tx.actions \subseteq 1 .. mirrored
    BY <2>1 DEF LogRight, ActiveRight
  <2> QED
    BY <2>1, <2>2, <2>4, <2>5, <2>6, <2>7, <2>8 DEF TypeOK
<1> QED
  BY <1>1, RightIsInvariant, PTL

(* Whatever the passes overwrite, an active vote is in the document of its *)
(* task, and a vote that comes next finds a document of its task: the code *)
(* writes to task.encryptions of what findOne returned without a look.     *)
THEOREM VotesAreKept == Spec => []VotesHaveTasks
<1>1. Right => VotesHaveTasks
  <2> SUFFICES ASSUME Right PROVE VotesHaveTasks
    OBVIOUS
  <2>1. LogRight /\ ActiveRight /\ TasksRight /\ EncryptionsRight
    BY DEF Right
  <2>2. ActiveHasEncryption
    <3>1. \A d \in DOMAIN tasks : \A i \in ActionId : tasks[d].total[i] <= tasks[d].encryptions[i]
      BY <2>1 DEF TasksRight
    <3> QED
      BY <2>1, <3>1 DEF ActiveHasEncryption, EncryptionsRight, HasEncryption
  <2>3. ASSUME NEW j \in Job, job[j].pc = "next", NEW i \in Reached(job[j].actions)
        PROVE  log[i] < Len(tasks)
    <3>1. PICK l : l = job[j]
      OBVIOUS
    <3>2. i \in 1 .. reduced /\ 1 .. i - 1 \subseteq active /\ i \in DOMAIN log
      BY <2>3, <3>1, ReachedGives DEF Passing
    <3>3. reduced \in Nat /\ active \subseteq 1 .. reduced /\ Len(tasks) \in Nat
      BY <2>1, LogIs, TasksAre DEF ActiveRight
    <3>4. /\ Cardinality(Creates(1 .. i - 1)) <= Cardinality(Creates(active))
          /\ Cardinality(Creates(1 .. i - 1)) \in Nat /\ Cardinality(Creates(active)) \in Nat
      BY <3>2, <3>3, CreatesGrow
    <3>5. /\ log[i] < Cardinality(Creates(1 .. i - 1)) /\ (log[i] = NewTask \/ log[i] \in Nat)
          /\ NewTask = -1
      BY <2>1, <3>2, LogIs, Bounds DEF LogRight
    <3>6. Cardinality(Creates(active)) <= Len(tasks)
      BY <2>1 DEF TasksRight
    <3> QED
      BY <3>3, <3>4, <3>5, <3>6
  <2>4. Len(tasks) >= Cardinality(Creates(active))
    <3>1. reduced \in Nat /\ active \subseteq 1 .. reduced /\ Len(tasks) \in Nat
      BY <2>1, LogIs, TasksAre DEF ActiveRight
    <3>2. Cardinality(Creates(active)) \in Nat
      BY <3>1, CreatesAre
    <3> QED
      BY <2>1, <3>1, <3>2 DEF TasksRight
  <2> QED
    BY <2>2, <2>3, <2>4 DEF VotesHaveTasks, TasksSuffice
<1> QED
  BY <1>1, RightIsInvariant, PTL

(* The actions become active one after the other, whatever the overlaps,   *)
(* and a leaf of the commitment tree is the commitment of its index.       *)
LEMMA RightPlaces ==
  ASSUME Right
  PROVE  CommitmentsInPlace
<1>1. LogRight /\ ActiveRight /\ StorageRight
  BY DEF Right
<1>2. active = 1 .. Cardinality(active)
  BY <1>1, ActiveIs
<1>3. LET leaves == InOrder(Adds(1 .. reduced))
      IN  \A c \in DOMAIN storage.commitment :
            c \in DOMAIN leaves /\ storage.commitment[c] = leaves[c]
  BY <1>1 DEF StorageRight
<1> QED
  BY <1>2, <1>3 DEF CommitmentsInPlace

-----------------------------------------------------------------------------
(***************************************************************************)
(* While the history is steady: there is one pass at most, and the         *)
(* documents are those of the actions up to a number.                      *)
(***************************************************************************)
LEMMA InPassIs ==
  /\ \A j : InPass(j) <=> job[j].pc \in Passing
  /\ \A j : InPass(j)' <=> job'[j].pc \in Passing
BY DEF InPass, Passing

LEMMA AppliedIs ==
  ASSUME OnePass, NEW j \in Job
  PROVE  /\ job[j].pc = "saveAction" => Applied = active \cup Reached(job[j].actions)
         /\ InPass(j) /\ job[j].pc # "saveAction" => Applied = active
         /\ (\A k \in Job : job[k].pc # "saveAction") => Applied = active
<1>1. \A k \in Job : job[k].pc = "saveAction" => InPass(k)
  BY DEF InPass
<1>2. CASE job[j].pc = "saveAction"
  <2>1. {k \in Job : job[k].pc = "saveAction"} = {j}
    BY <1>1, <1>2 DEF OnePass
  <2>2. UNION {Reached(job[k].actions) : k \in {j}} = Reached(job[j].actions)
    OBVIOUS
  <2> QED
    BY <1>2, <2>1, <2>2 DEF Applied
<1>3. CASE job[j].pc # "saveAction"
  <2>1. InPass(j) => \A k \in Job : job[k].pc # "saveAction"
    BY <1>1, <1>3 DEF OnePass
  <2>2. (\A k \in Job : job[k].pc # "saveAction") => Applied = active
    BY DEF Applied
  <2> QED
    BY <1>3, <2>1, <2>2
<1> QED
  BY <1>2, <1>3

LEMMA ExactKeeps ==
  ASSUME LogRight, NEW m \in 0 .. reduced, ExactUpTo(m), tasks' = tasks,
         \A i \in DOMAIN log : log'[i] = log[i]
  PROVE  ExactUpTo(m)'
<1>1. 1 .. m \subseteq DOMAIN log
  BY LogIs
<1>2. Creates(1 .. m)' = Creates(1 .. m) /\ \A t : AddsTo(t, 1 .. m)' = AddsTo(t, 1 .. m)
  BY <1>1 DEF Creates, AddsTo
<1>3. InOrder(Creates(1 .. m))' = InOrder(Creates(1 .. m))
  <2>1. PICK C : C = Creates(1 .. m)
    OBVIOUS
  <2>2. InOrder(Creates(1 .. m))' = InOrder(C)
    <3>1. Creates(1 .. m)' = C
      BY <1>2, <2>1
    <3> QED
      BY <3>1
  <2> QED
    BY <2>1, <2>2
<1>4. \A t : OnceEach(AddsTo(t, 1 .. m))' = OnceEach(AddsTo(t, 1 .. m))
  BY <1>2 DEF OnceEach
<1> QED
  BY <1>2, <1>3, <1>4 DEF ExactUpTo

LEMMA SteadyLocalKeeps ==
  ASSUME LogRight, active' = active, tasks' = tasks, \A i \in DOMAIN log : log'[i] = log[i],
         NEW l, SteadyLocal(l), l.pc = "saveTask" => l.actions \subseteq 1 .. reduced
  PROVE  SteadyLocal(l)'
<1>1. \A i \in Reached(l.actions) : l.pc = "saveTask" => log'[i] = log[i]
  BY LogIs DEF Reached
<1> QED
  BY <1>1 DEF SteadyLocal, Reached

LEMMA OutsideIsSteady ==
  ASSUME NEW l, l.pc \notin Passing
  PROVE  SteadyLocal(l) /\ SteadyLocal(l)'
BY DEF SteadyLocal, Passing

(* The contract goes on.                                                   *)
LEMMA ChainIsSteady ==
  ASSUME Right, SteadyNow, LogRight', \A i \in DOMAIN log : log'[i] = log[i],
         reduced <= reduced', UNCHANGED <<active, tasks, job>>
  PROVE  SteadyNow'
<1>1. PICK m \in 0 .. reduced : Applied = 1 .. m /\ ExactUpTo(m)
  BY DEF SteadyNow
<1>2. reduced \in Nat /\ reduced' \in Nat
  <2>1. Len(log') \in Nat /\ reduced' \in 0 .. Len(log')
    BY DEF LogRight
  <2> QED
    BY <2>1, LogIs DEF Right
<1>3. m \in 0 .. reduced'
  BY <1>2
<1>4. ExactUpTo(m)'
  BY <1>1, ExactKeeps DEF Right
<1>5. Applied' = Applied
  BY DEF Applied, Reached
<1>6. OnePass'
  BY DEF OnePass, InPass, SteadyNow
<1>7. \A j \in Job : /\ SteadyLocal(job'[j])
                     /\ job'[j].pc = "saveTask" => job'[j].actions \subseteq 1 .. reduced
  BY DEF SteadyNow, Right, LocalRight, Passing
<1>8. \A j \in Job : SteadyLocal(job[j])'
  BY <1>7, SteadyLocalKeeps DEF Right
<1> QED
  BY <1>1, <1>3, <1>4, <1>5, <1>6, <1>8 DEF SteadyNow

(* A step of a job that leaves the documents alone.                        *)
LEMMA JobIsSteady ==
  ASSUME Right, SteadyNow, NEW j \in Job, UNCHANGED <<log, reduced, active, tasks>>,
         \A k \in Job : k # j => job'[k] = job[k], NEW m, m = job'[j], SteadyLocal(m),
         m.pc = "saveTask" => m.actions \subseteq 1 .. reduced,
         job[j].pc # "saveAction", m.pc # "saveAction",
         m.pc \in Passing => InPass(j) \/ \A k \in Job \ {j} : ~ InPass(k)
  PROVE  SteadyNow'
<1>1. job'[j] = m /\ \A k \in Job : k # j => job'[k] = job[k]
  OBVIOUS
<1>2. OnePass'
  <2> SUFFICES ASSUME NEW h \in Job, NEW k \in Job, InPass(h)', InPass(k)', h # k PROVE FALSE
    BY DEF OnePass
  <2>1. CASE h # j /\ k # j
    <3>1. InPass(h) /\ InPass(k)
      BY <1>1, <2>1, InPassIs
    <3> QED
      BY <3>1 DEF SteadyNow, OnePass
  <2>2. CASE h = j
    <3>1. m.pc \in Passing /\ InPass(k) /\ k # j
      BY <1>1, <2>2, InPassIs
    <3> QED
      BY <3>1 DEF SteadyNow, OnePass
  <2>3. CASE k = j
    <3>1. m.pc \in Passing /\ InPass(h) /\ h # j
      BY <1>1, <2>3, InPassIs
    <3> QED
      BY <3>1 DEF SteadyNow, OnePass
  <2> QED
    BY <2>1, <2>2, <2>3
<1>3. Applied' = Applied
  <2>1. \A k \in Job : job'[k].pc = "saveAction" <=> job[k].pc = "saveAction"
    BY <1>1
  <2>2. \A k \in Job : job[k].pc = "saveAction" => job'[k] = job[k]
    BY <1>1
  <2>3. {k \in Job : job'[k].pc = "saveAction"} = {k \in Job : job[k].pc = "saveAction"}
    BY <2>1
  <2>4. {Reached(job'[h].actions) : h \in {k \in Job : job'[k].pc = "saveAction"}}
          = {Reached(job[h].actions) : h \in {k \in Job : job[k].pc = "saveAction"}}
    BY <2>2, <2>3
  <2> QED
    BY <2>4 DEF Applied, Reached
<1>4. \A k \in Job : /\ SteadyLocal(job'[k])
                     /\ job'[k].pc = "saveTask" => job'[k].actions \subseteq 1 .. reduced
  BY <1>1 DEF SteadyNow, Right, LocalRight, Passing
<1>5. \A k \in Job : SteadyLocal(job[k])'
  BY <1>4, SteadyLocalKeeps DEF Right
<1>6. \E n \in 0 .. reduced' : Applied' = 1 .. n /\ ExactUpTo(n)'
  <2>1. PICK n \in 0 .. reduced : Applied = 1 .. n /\ ExactUpTo(n)
    BY DEF SteadyNow
  <2>2. ExactUpTo(n)'
    BY <2>1, ExactKeeps DEF Right
  <2> QED
    BY <1>3, <2>1, <2>2
<1> QED
  BY <1>2, <1>5, <1>6 DEF SteadyNow

(* A step that leaves, or stays out of, the pass.                          *)
LEMMA LeaveIsSteady ==
  ASSUME Right, SteadyNow, NEW j \in Job, UNCHANGED <<log, reduced, active, tasks>>,
         \A k \in Job : k # j => job'[k] = job[k],
         job[j].pc # "saveAction", job'[j].pc \notin Passing
  PROVE  SteadyNow'
<1>1. PICK m : m = job'[j]
  OBVIOUS
<1>2. SteadyLocal(m) /\ m.pc # "saveAction" /\ m.pc # "saveTask"
  BY <1>1, OutsideIsSteady DEF Passing
<1> QED
  BY <1>1, <1>2, JobIsSteady

LEMMA JobFields ==
  ASSUME Right, NEW j \in Job
  PROVE  j \in DOMAIN job /\ IsLocal(job[j])
BY DEF Right, LocalRight

(* The steps that leave the pass, or stay out of it.                       *)
LEMMA Leaves ==
  ASSUME Right, NEW j \in Job,
         \/ (\E n : FindNothing(j, n)) \/ PassDone(j) \/ Retry(j) \/ FindTasks(j) \/ FindActive(j)
         \/ UpdateThrows(j) \/ Skip(j) \/ Rollup(j) \/ RollupThrows(j)
  PROVE  (\A k \in Job : k # j => job'[k] = job[k]) /\ job'[j].pc \notin Passing
<1>0. j \in DOMAIN job /\ IsLocal(job[j])
  BY JobFields
<1>1. ASSUME NEW label \in PC \ Passing, Goto(j, label)
      PROVE  (\A k \in Job : k # j => job'[k] = job[k]) /\ job'[j].pc \notin Passing
  <2>1. job' = [job EXCEPT ![j].pc = label]
    BY <1>1 DEF Goto
  <2>2. job'[j].pc = label
    BY <1>0, <2>1 DEF IsLocal
  <2> QED
    BY <2>1, <2>2
<1>2. ASSUME Return(j)
      PROVE  (\A k \in Job : k # j => job'[k] = job[k]) /\ job'[j].pc \notin Passing
  <2>1. job'[j] = Idle /\ \A k \in Job : k # j => job'[k] = job[k]
    BY <1>0, <1>2 DEF Return
  <2> QED
    BY <2>1 DEF Idle, Passing
<1>3. CASE \E n : FindNothing(j, n)
  <2>1. AfterPass(j) \in PC \ Passing /\ Goto(j, AfterPass(j))
    BY <1>3, AfterPassIs DEF FindNothing
  <2> QED
    BY <1>1, <2>1
<1>4. CASE PassDone(j)
  <2>1. job' = [job EXCEPT ![j].pc = AfterPass(j), ![j].nextTaskId = 0]
    BY <1>4 DEF PassDone
  <2>2. PICK m : m = [job[j] EXCEPT !.pc = AfterPass(j), !.nextTaskId = 0]
    OBVIOUS
  <2>3. job' = [job EXCEPT ![j] = m] /\ m.pc = AfterPass(j)
    BY <1>0, <2>1, <2>2 DEF IsLocal
  <2>4. job'[j] = m /\ \A k \in Job : k # j => job'[k] = job[k]
    BY <1>0, <2>3
  <2> QED
    BY <2>3, <2>4, AfterPassIs
<1>5. CASE Retry(j)
  <2>1. PICK label \in {"idle", AfterPass(j)} : job' = [job EXCEPT ![j] = [Idle EXCEPT !.pc = label]]
    BY <1>5 DEF Retry
  <2>2. job'[j].pc = label
    BY <1>0, <2>1 DEF Idle
  <2> QED
    BY <2>1, <2>2, AfterPassIs DEF Passing
<1>6. CASE FindTasks(j) \/ FindActive(j)
  <2>1. {"findActive", "updated"} \subseteq PC \ Passing
    BY DEF PC, Passing
  <2>2. Goto(j, "findActive") \/ Goto(j, "updated")
    BY <1>6 DEF FindTasks, FindActive
  <2> QED
    BY <1>1, <2>1, <2>2
<1>7. CASE UpdateThrows(j)
  <2>1. Goto(j, "updated")
    BY <1>7 DEF UpdateThrows, Goto
  <2>2. "updated" \in PC \ Passing
    BY DEF PC, Passing
  <2> QED
    BY <1>1, <2>1, <2>2
<1>8. CASE Skip(j) \/ RollupThrows(j) \/ ProveFails(j) \/ Send(j)
  BY <1>2, <1>8 DEF Skip, RollupThrows, ProveFails, Send
<1>9. CASE CloneAndProve(j)
  <2>1. Goto(j, "send")
    BY <1>9 DEF CloneAndProve
  <2>2. "send" \in PC \ Passing
    BY DEF PC, Passing
  <2> QED
    BY <1>1, <2>1, <2>2
<1>10. CASE FindBatch(j)
  <2>1. Return(j) \/ job' = [job EXCEPT ![j].pc = "fetchState", ![j].actions = NotActive(mirrored)]
    BY <1>10 DEF FindBatch
  <2>2. CASE job' = [job EXCEPT ![j].pc = "fetchState", ![j].actions = NotActive(mirrored)]
    <3>1. PICK m : m = [job[j] EXCEPT !.pc = "fetchState", !.actions = NotActive(mirrored)]
      OBVIOUS
    <3>2. job' = [job EXCEPT ![j] = m] /\ m.pc = "fetchState"
      BY <1>0, <2>2, <3>1 DEF IsLocal
    <3>3. job'[j] = m /\ \A k \in Job : k # j => job'[k] = job[k]
      BY <1>0, <3>2
    <3> QED
      BY <3>2, <3>3 DEF Passing
  <2> QED
    BY <1>2, <2>1, <2>2
<1>11. CASE FetchState(j)
  <2>1. job' = [job EXCEPT ![j].pc = "clone", ![j].state = reduced]
    BY <1>11 DEF FetchState
  <2>2. PICK m : m = [job[j] EXCEPT !.pc = "clone", !.state = reduced]
    OBVIOUS
  <2>3. job' = [job EXCEPT ![j] = m] /\ m.pc = "clone"
    BY <1>0, <2>1, <2>2 DEF IsLocal
  <2>4. job'[j] = m /\ \A k \in Job : k # j => job'[k] = job[k]
    BY <1>0, <2>3
  <2> QED
    BY <2>3, <2>4 DEF Passing
<1> QED
  BY <1>3, <1>4, <1>5, <1>6, <1>7, <1>8, <1>9, <1>10, <1>11 DEF Rollup

LEMMA LeavingIsSteady ==
  ASSUME Right, SteadyNow, NEW j \in Job, steady',
         \/ (\E n : FindNothing(j, n)) \/ PassDone(j) \/ DuplicateTask(j) \/ FetchThrows(j)
         \/ FindTasks(j) \/ FindActive(j)
         \/ UpdateThrows(j) \/ Skip(j) \/ Rollup(j) \/ RollupThrows(j)
  PROVE  SteadyNow'
<1>1. (\A k \in Job : k # j => job'[k] = job[k]) /\ job'[j].pc \notin Passing
  BY Leaves DEF DuplicateTask, FetchThrows
<1>2. job[j].pc # "saveAction"
  <2>1. FetchThrows(j) => job[j].pc # "saveAction"
    BY DEF FetchThrows
  <2> QED
    BY <2>1 DEF FindNothing, PassDone, DuplicateTask, FindTasks, FindActive, UpdateThrows, Skip, Rollup,
                RollupThrows, FindBatch, FetchState, CloneAndProve, ProveFails, Send
<1>3. UNCHANGED <<log, reduced, active, tasks>>
  BY DEF FindNothing, PassDone, DuplicateTask, FetchThrows, Retry, FindTasks, FindActive, UpdateThrows, Skip,
         Rollup, RollupThrows, FindBatch, FetchState, CloneAndProve, ProveFails, Send, chainVars
<1> QED
  BY <1>1, <1>2, <1>3, LeaveIsSteady

LEMMA CrashIsSteady ==
  ASSUME Right, SteadyNow, Crash, steady'
  PROVE  SteadyNow'
<1>1. Here \in Job /\ Here \in DOMAIN job
  BY Bounds DEF Right
<1>2. job'[Here] = Idle /\ \A k \in Job : k # Here => job'[k] = job[k]
  BY <1>1 DEF Crash
<1>3. job'[Here].pc \notin Passing
  BY <1>2 DEF Idle, Passing
<1>4. job[Here].pc # "saveAction"
  BY DEF Crash
<1>5. UNCHANGED <<log, reduced, active, tasks>>
  BY DEF Crash, chainVars
<1> QED
  BY <1>1, <1>2, <1>3, <1>4, <1>5, LeaveIsSteady

LEMMA FindIsSteady ==
  ASSUME Right, SteadyNow, NEW j \in Job, NEW n, Find(j, n), steady'
  PROVE  SteadyNow'
<1>1. PICK l : l = job[j]
  OBVIOUS
<1>2. PICK m : m = [l EXCEPT !.pc = "findLastTask", !.actions = NotActive(n)]
  OBVIOUS
<1>3. job' = [job EXCEPT ![j] = m]
  BY <1>1, <1>2 DEF Find
<1>4. IsLocal(m) /\ m.pc = "findLastTask" /\ m.actions = NotActive(n)
  <2>1. IsLocal(l)
    BY <1>1, LocalShape
  <2> QED
    BY <1>2, <2>1 DEF IsLocal
<1>5. m = job'[j] /\ \A k \in Job : k # j => job'[k] = job[k]
  BY <1>3, JobFields
<1>6. SteadyLocal(m)
  BY <1>4 DEF SteadyLocal, NotActive
<1>7. \A k \in Job \ {j} : ~ InPass(k)
  BY DEF Find
<1>8. UNCHANGED <<log, reduced, active, tasks>> /\ job[j].pc # "saveAction"
  BY DEF Find, chainVars
<1> QED
  BY <1>4, <1>5, <1>6, <1>7, <1>8, JobIsSteady

LEMMA FindLastTaskIsSteady ==
  ASSUME Right, SteadyNow, NEW j \in Job, FindLastTask(j)
  PROVE  SteadyNow'
<1>1. PICK l : l = job[j]
  OBVIOUS
<1>2. PICK m : m = [l EXCEPT !.pc = "next", !.nextTaskId = Len(tasks)]
  OBVIOUS
<1>3. job' = [job EXCEPT ![j] = m] /\ l.pc = "findLastTask"
  BY <1>1, <1>2 DEF FindLastTask
<1>4. IsLocal(m) /\ m.pc = "next" /\ m.actions = l.actions /\ m.nextTaskId = Len(tasks)
  <2>1. IsLocal(l)
    BY <1>1, LocalShape
  <2> QED
    BY <1>2, <2>1 DEF IsLocal
<1>5. m = job'[j] /\ \A k \in Job : k # j => job'[k] = job[k]
  BY <1>3, JobFields
<1>6. SteadyLocal(m)
  <2>1. l.actions \cap active = {}
    BY <1>1, <1>3 DEF SteadyNow, SteadyLocal, Passing
  <2> QED
    BY <1>4, <2>1 DEF SteadyLocal
<1>7. InPass(j) /\ UNCHANGED <<log, reduced, active, tasks>> /\ job[j].pc # "saveAction"
  BY DEF FindLastTask, chainVars, InPass
<1> QED
  BY <1>4, <1>5, <1>6, <1>7, JobIsSteady

LEMMA FindTaskIsSteady ==
  ASSUME Right, SteadyNow, NEW j \in Job, FindTask(j)
  PROVE  SteadyNow'
<1>1. PICK l : l = job[j]
  OBVIOUS
<1>2. PICK i \in Reached(l.actions) :
        /\ log[i] \in 0 .. Len(tasks) - 1
        /\ job' = [job EXCEPT ![j].pc = "saveTask", ![j].total = tasks[log[i] + 1].total]
  BY <1>1 DEF FindTask
<1>3. PICK m : m = [l EXCEPT !.pc = "saveTask", !.total = tasks[log[i] + 1].total]
  OBVIOUS
<1>4. job' = [job EXCEPT ![j] = m] /\ l.pc = "next"
  BY <1>1, <1>2, <1>3 DEF FindTask
<1>5. /\ IsLocal(m) /\ m.pc = "saveTask" /\ m.actions = l.actions
      /\ m.nextTaskId = l.nextTaskId /\ m.total = tasks[log[i] + 1].total
  <2>1. IsLocal(l)
    BY <1>1, LocalShape
  <2> QED
    BY <1>3, <2>1 DEF IsLocal
<1>6. m = job'[j] /\ \A k \in Job : k # j => job'[k] = job[k]
  BY <1>4, JobFields
<1>7. Reached(l.actions) = {i} /\ l.actions \subseteq 1 .. reduced
  BY <1>1, <1>2, <1>4, ReachedGives, LocalGives DEF Passing
<1>8. SteadyLocal(m)
  <2>1. l.actions \cap active = {} /\ l.nextTaskId = Len(tasks)
    BY <1>1, <1>4 DEF SteadyNow, SteadyLocal, Passing
  <2> QED
    BY <1>5, <1>7, <2>1 DEF SteadyLocal
<1>9. InPass(j) /\ UNCHANGED <<log, reduced, active, tasks>> /\ job[j].pc # "saveAction"
  BY DEF FindTask, chainVars, InPass
<1> QED
  BY <1>5, <1>6, <1>7, <1>8, <1>9, JobIsSteady

(* A step of the one pass that there is.                                   *)
LEMMA PassIsSteady ==
  ASSUME SteadyNow, NEW j \in Job, InPass(j), \A k \in Job : k # j => job'[k] = job[k],
         NEW m, m = job'[j], SteadyLocal(m)',
         NEW n \in 0 .. reduced', ExactUpTo(n)',
         m.pc = "saveAction" => active' \cup Reached(m.actions) = 1 .. n,
         m.pc # "saveAction" => active' = 1 .. n
  PROVE  SteadyNow'
<1>1. \A k \in Job : k # j => job[k].pc \notin Passing /\ job'[k].pc \notin Passing
  BY InPassIs DEF SteadyNow, OnePass
<1>2. OnePass'
  BY <1>1, InPassIs DEF OnePass
<1>3. \A k \in Job : k # j => SteadyLocal(job[k])'
  BY <1>1 DEF SteadyLocal, Passing
<1>4. \A k \in Job : SteadyLocal(job[k])'
  BY <1>3
<1>5. Applied' = 1 .. n
  <2>1. \A k \in Job : job'[k].pc = "saveAction" => k = j
    BY <1>1 DEF Passing
  <2>2. Applied' = active' \cup UNION {Reached(job'[h].actions) : h \in {k \in Job : job'[k].pc = "saveAction"}}
    BY DEF Applied, Reached
  <2>3. CASE m.pc = "saveAction"
    <3>1. {k \in Job : job'[k].pc = "saveAction"} = {j}
      BY <2>1, <2>3
    <3>2. UNION {Reached(job'[h].actions) : h \in {j}} = Reached(m.actions)
      OBVIOUS
    <3> QED
      BY <2>2, <2>3, <3>1, <3>2
  <2>4. CASE m.pc # "saveAction"
    <3>1. {k \in Job : job'[k].pc = "saveAction"} = {}
      BY <2>1, <2>4
    <3> QED
      BY <2>2, <2>4, <3>1
  <2> QED
    BY <2>3, <2>4
<1> QED
  BY <1>2, <1>4, <1>5 DEF SteadyNow

(* The action that the pass has reached is the next one.                   *)
LEMMA NextIs ==
  ASSUME Right, SteadyNow, NEW j \in Job, NEW l, l = job[j], l.pc \in {"next", "saveTask"},
         NEW i \in Reached(l.actions)
  PROVE  \E m \in Nat : /\ active = 1 .. m /\ i = m + 1 /\ i \in 0 .. reduced /\ m \in 0 .. reduced
                        /\ ExactUpTo(m)
<1>1. PICK m \in 0 .. reduced : Applied = 1 .. m /\ ExactUpTo(m)
  BY DEF SteadyNow
<1>2. reduced \in Nat
  BY LogIs DEF Right
<1>3. /\ i \in 1 .. reduced /\ i \in l.actions /\ 1 .. i - 1 \subseteq active
  BY ReachedGives DEF Passing
<1>4. Applied = active
  BY AppliedIs DEF SteadyNow, InPass
<1>5. i \notin active
  BY <1>3 DEF SteadyNow, SteadyLocal, Passing
<1>6. m \in Nat /\ ~ (i <= m)
  BY <1>1, <1>2, <1>3, <1>4, <1>5
<1>7. i - 1 <= m
  <2>1. CASE i - 1 >= 1
    <3>1. i - 1 \in 1 .. i - 1
      BY <1>3, <2>1
    <3>2. i - 1 \in 1 .. m
      BY <1>1, <1>3, <1>4, <3>1
    <3> QED
      BY <1>6, <3>2
  <2>2. CASE ~ (i - 1 >= 1)
    BY <1>3, <1>6, <2>2
  <2> QED
    BY <2>1, <2>2
<1>8. i = m + 1 /\ i \in 0 .. reduced
  BY <1>2, <1>3, <1>6, <1>7
<1> QED
  BY <1>1, <1>4, <1>6, <1>8

(* What the next action adds.                                              *)
LEMMA OneMore ==
  ASSUME NEW m \in Nat, NEW i, i = m + 1
  PROVE  /\ 1 .. i = 1 .. m \cup {i} /\ i \notin 1 .. m
         /\ log[i] = NewTask => Creates(1 .. i) = Creates(1 .. m) \cup {i}
         /\ log[i] # NewTask => Creates(1 .. i) = Creates(1 .. m)
         /\ \A t : log[i] = t => AddsTo(t, 1 .. i) = AddsTo(t, 1 .. m) \cup {i}
         /\ \A t : log[i] # t => AddsTo(t, 1 .. i) = AddsTo(t, 1 .. m)
<1>1. 1 .. i = 1 .. m \cup {i} /\ i \notin 1 .. m
  OBVIOUS
<1> QED
  BY <1>1 DEF Creates, AddsTo

LEMMA OnceMore ==
  ASSUME NEW S, NEW i \in ActionId, i \notin S
  PROVE  Plus(OnceEach(S), i) = OnceEach(S \cup {i})
<1>1. \A h \in ActionId : OnceEach(S)[h] = IF h \in S THEN 1 ELSE 0
  BY DEF OnceEach
<1>2. Plus(OnceEach(S), i) = [h \in ActionId |-> IF h = i THEN 1 ELSE OnceEach(S)[h]]
  <2>1. OnceEach(S)[i] = 0
    BY <1>1
  <2>2. DOMAIN OnceEach(S) = ActionId
    BY DEF OnceEach
  <2>3. Plus(OnceEach(S), i) = [OnceEach(S) EXCEPT ![i] = 1]
    BY <2>1 DEF Plus, Many
  <2> QED
    BY <2>2, <2>3
<1>3. OnceEach(S \cup {i}) = [h \in ActionId |-> IF h = i THEN 1 ELSE OnceEach(S)[h]]
  BY <1>1 DEF OnceEach
<1> QED
  BY <1>2, <1>3

(* No action up to the one that creates a task adds to it.                 *)
LEMMA NoVoteBefore ==
  ASSUME LogRight, NEW m \in Nat, m + 1 \in DOMAIN log, log[m + 1] = NewTask
  PROVE  AddsTo(Cardinality(Creates(1 .. m)), 1 .. m + 1) = {}
<1> DEFINE c == Cardinality(Creates(1 .. m))
<1>1. c \in Nat
  BY CreatesAre
<1> SUFFICES ASSUME NEW h \in 1 .. m + 1, log[h] = c PROVE FALSE
  BY DEF AddsTo
<1>2. h \in DOMAIN log
  BY LogIs
<1>3. log[h] < Cardinality(Creates(1 .. h - 1))
  BY <1>2 DEF LogRight
<1>4. 1 .. h - 1 \subseteq 1 .. m
  OBVIOUS
<1>5. Cardinality(Creates(1 .. h - 1)) <= c /\ Cardinality(Creates(1 .. h - 1)) \in Nat
  BY <1>4, CreatesGrow
<1> HIDE DEF c
<1> QED
  BY <1>1, <1>3, <1>5

(* A task is created: it has no votes yet.                                 *)
LEMMA CreateIsExact ==
  ASSUME Right, NEW m \in Nat, ExactUpTo(m), m + 1 \in DOMAIN log, log[m + 1] = NewTask, log' = log,
         tasks' = Append(tasks, [create |-> m + 1, encryptions |-> None, total |-> None])
  PROVE  ExactUpTo(m + 1)'
<1>0. LogRight /\ TasksRight
  BY DEF Right
<1>1. PICK i : i = m + 1
  OBVIOUS
<1>2. PICK S : S = Creates(1 .. m)
  OBVIOUS
<1>3. S \subseteq Nat /\ IsFiniteSet(S) /\ S \subseteq 1 .. m
  BY <1>2, CreatesAre
<1>4. i \in Nat /\ \A h \in S : h < i
  BY <1>1, <1>3
<1>5. PICK c : c = InOrder(S)
  OBVIOUS
<1>6. PICK d : d = InOrder(S \cup {i})
  OBVIOUS
<1>7. /\ DOMAIN d = 0 .. Cardinality(S) /\ Cardinality(S) \in Nat
      /\ Cardinality(S \cup {i}) = Cardinality(S) + 1
      /\ d[Cardinality(S)] = i /\ \A t \in DOMAIN c : d[t] = c[t]
  BY <1>3, <1>4, <1>5, <1>6, InOrderNext
<1>8. DOMAIN c = 0 .. Cardinality(S) - 1
  BY <1>3, <1>5, InOrderIs
<1>9. Creates(1 .. i)' = S \cup {i}
  <2>1. Creates(1 .. i) = S \cup {i}
    BY <1>1, <1>2, OneMore
  <2> QED
    BY <2>1 DEF Creates
<1>10. /\ Len(tasks) = Cardinality(S)
       /\ \A t \in DOMAIN c :
            tasks[t + 1] = [create |-> c[t],
                            encryptions |-> OnceEach(AddsTo(t, 1 .. m)),
                            total |-> OnceEach(AddsTo(t, 1 .. m))]
  BY <1>2, <1>5 DEF ExactUpTo
<1> DEFINE doc == [create |-> i, encryptions |-> None, total |-> None]
           D == [create : ActionId, encryptions : Sums, total : Sums]
<1>11. /\ Len(tasks') = Len(tasks) + 1 /\ tasks'[Len(tasks) + 1] = doc
       /\ \A e \in 1 .. Len(tasks) : tasks'[e] = tasks[e]
  <2>1. tasks \in Seq(D) /\ tasks' = Append(tasks, doc) /\ Len(tasks) \in Nat
    BY <1>0, <1>1, TasksAre DEF TasksRight
  <2> HIDE DEF doc, D
  <2> QED
    BY <2>1
<1>12. ASSUME NEW t \in DOMAIN d
       PROVE  tasks'[t + 1] = [create |-> d[t],
                               encryptions |-> OnceEach(AddsTo(t, 1 .. i)),
                               total |-> OnceEach(AddsTo(t, 1 .. i))]
  <2>1. CASE t = Cardinality(S)
    <3>1. AddsTo(t, 1 .. i) = {}
      BY <1>0, <1>1, <1>2, <2>1, NoVoteBefore
    <3>2. OnceEach({}) = None
      BY DEF OnceEach, None
    <3>3. tasks'[t + 1] = doc /\ d[t] = i
      BY <1>7, <1>10, <1>11, <2>1
    <3> QED
      BY <3>1, <3>2, <3>3
  <2>2. CASE t \in DOMAIN c
    <3>1. t \in Nat /\ t + 1 \in 1 .. Len(tasks) /\ t # NewTask
      BY <1>7, <1>8, <1>10, <2>2 DEF NewTask
    <3>2. AddsTo(t, 1 .. i) = AddsTo(t, 1 .. m)
      BY <1>1, <3>1, OneMore
    <3>3. tasks'[t + 1] = tasks[t + 1] /\ d[t] = c[t]
      BY <1>7, <1>11, <2>2, <3>1
    <3>4. tasks[t + 1] = [create |-> c[t],
                          encryptions |-> OnceEach(AddsTo(t, 1 .. m)),
                          total |-> OnceEach(AddsTo(t, 1 .. m))]
      BY <1>10, <2>2
    <3>5. OnceEach(AddsTo(t, 1 .. m)) = OnceEach(AddsTo(t, 1 .. i))
      BY <3>2
    <3> QED
      BY <3>3, <3>4, <3>5
  <2>3. t = Cardinality(S) \/ t \in DOMAIN c
    BY <1>7, <1>8
  <2> QED
    BY <2>1, <2>2, <2>3
<1>13. \A t : AddsTo(t, 1 .. i)' = AddsTo(t, 1 .. i)
  BY DEF AddsTo
<1>14. Len(tasks') = Cardinality(S \cup {i})
  BY <1>7, <1>10, <1>11
<1>15. ExactUpTo(i)'
  <2>1. \A t : OnceEach(AddsTo(t, 1 .. i))' = OnceEach(AddsTo(t, 1 .. i))
    BY <1>13 DEF OnceEach
  <2>2. InOrder(Creates(1 .. i))' = d
    BY <1>6, <1>9
  <2> QED
    BY <1>9, <1>12, <1>14, <2>1, <2>2 DEF ExactUpTo
<1> QED
  BY <1>1, <1>15

(* A vote is added to the document of its task.                            *)
LEMMA SaveTaskIsExact ==
  ASSUME Right, NEW m \in Nat, ExactUpTo(m), NEW i, i = m + 1, i \in DOMAIN log, log' = log,
         NEW d, d = log[i] + 1, log[i] \in 0 .. Len(tasks) - 1,
         tasks' = [tasks EXCEPT ![d].encryptions = Plus(@, i), ![d].total = Plus(tasks[d].total, i)]
  PROVE  ExactUpTo(i)' /\ Len(tasks') = Len(tasks)
<1>0. LogRight /\ TasksRight
  BY DEF Right
<1>1. PICK S : S = Creates(1 .. m)
  OBVIOUS
<1>2. S \subseteq Nat /\ IsFiniteSet(S)
  BY <1>1, CreatesAre
<1>3. PICK c : c = InOrder(S)
  OBVIOUS
<1>4. DOMAIN c = 0 .. Cardinality(S) - 1 /\ Cardinality(S) \in Nat
  BY <1>2, <1>3, InOrderIs
<1>5. /\ Len(tasks) = Cardinality(S)
      /\ \A t \in DOMAIN c :
           tasks[t + 1] = [create |-> c[t],
                           encryptions |-> OnceEach(AddsTo(t, 1 .. m)),
                           total |-> OnceEach(AddsTo(t, 1 .. m))]
  BY <1>1, <1>3 DEF ExactUpTo
<1>6. PICK t0 : t0 = log[i]
  OBVIOUS
<1>7. /\ t0 \in DOMAIN c /\ t0 \in Nat /\ t0 # NewTask /\ d = t0 + 1 /\ d \in DOMAIN tasks
      /\ i \in ActionId
  BY <1>0, <1>4, <1>5, <1>6, LogIs, TasksAre DEF NewTask
<1>8. PICK A : A = AddsTo(t0, 1 .. m)
  OBVIOUS
<1>9. tasks[d] = [create |-> c[t0], encryptions |-> OnceEach(A), total |-> OnceEach(A)]
  BY <1>5, <1>7, <1>8
<1>10. tasks[d].create = c[t0] /\ tasks[d].encryptions = OnceEach(A) /\ tasks[d].total = OnceEach(A)
  BY <1>9
<1>11. i \notin A /\ AddsTo(t0, 1 .. i) = A \cup {i}
  BY <1>6, <1>8, OneMore DEF AddsTo
<1>12. Plus(OnceEach(A), i) = OnceEach(A \cup {i})
  BY <1>7, <1>11, OnceMore
<1>13. PICK v : v = OnceEach(A \cup {i})
  OBVIOUS
<1>14. v \in Sums
  BY <1>13 DEF OnceEach, Sums, Many
<1>15. PICK w : w = v
  OBVIOUS
<1>16. /\ Len(tasks') = Len(tasks)
       /\ tasks'[d] = [create |-> c[t0], encryptions |-> v, total |-> v]
       /\ \A e \in DOMAIN tasks : e # d => tasks'[e] = tasks[e]
  <2>1. tasks' = [tasks EXCEPT ![d].encryptions = v, ![d].total = w]
    BY <1>10, <1>12, <1>13, <1>15
  <2>2. w \in Sums
    BY <1>14, <1>15
  <2>3. /\ Len(tasks') = Len(tasks)
        /\ tasks'[d] = [create |-> tasks[d].create, encryptions |-> v, total |-> w]
        /\ \A e \in DOMAIN tasks : e # d => tasks'[e] = tasks[e]
    <3>1. PICK t : t = tasks[d]
      OBVIOUS
    <3>2. t = [create |-> t.create, encryptions |-> t.encryptions, total |-> t.total]
      BY <1>0, <1>7, <3>1, TasksAre
    <3>3. PICK x : x = [t EXCEPT !.encryptions = v, !.total = w]
      OBVIOUS
    <3>4. x = [create |-> tasks[d].create, encryptions |-> v, total |-> w]
      BY <3>1, <3>2, <3>3
    <3>5. tasks' = [tasks EXCEPT ![d] = x]
      BY <2>1, <3>1, <3>3
    <3> QED
      BY <1>0, <1>7, <1>14, <2>2, <3>4, <3>5, SavedIs
  <2> QED
    BY <1>10, <1>15, <2>3
<1>17. ASSUME NEW t \in DOMAIN c
       PROVE  tasks'[t + 1] = [create |-> c[t],
                               encryptions |-> OnceEach(AddsTo(t, 1 .. i)),
                               total |-> OnceEach(AddsTo(t, 1 .. i))]
  <2>1. CASE t = t0
    BY <1>7, <1>11, <1>13, <1>16, <2>1
  <2>2. CASE t # t0
    <3>1. AddsTo(t, 1 .. i) = AddsTo(t, 1 .. m)
      BY <1>6, <2>2, OneMore
    <3>2. tasks'[t + 1] = tasks[t + 1]
      <4>1. t \in Nat /\ t + 1 \in DOMAIN tasks
        BY <1>0, <1>4, <1>5, TasksAre
      <4>2. t + 1 # d
        BY <1>7, <2>2, <4>1
      <4> QED
        BY <1>16, <4>1, <4>2
    <3>3. tasks[t + 1] = [create |-> c[t],
                          encryptions |-> OnceEach(AddsTo(t, 1 .. m)),
                          total |-> OnceEach(AddsTo(t, 1 .. m))]
      BY <1>5
    <3>4. OnceEach(AddsTo(t, 1 .. m)) = OnceEach(AddsTo(t, 1 .. i))
      BY <3>1
    <3> QED
      BY <3>2, <3>3, <3>4
  <2> QED
    BY <2>1, <2>2
<1>18. Creates(1 .. i)' = S
  <2>1. Creates(1 .. i) = S
    BY <1>1, <1>6, <1>7, OneMore
  <2> QED
    BY <2>1 DEF Creates
<1>19. \A t : OnceEach(AddsTo(t, 1 .. i))' = OnceEach(AddsTo(t, 1 .. i))
  BY DEF OnceEach, AddsTo
<1>20. InOrder(Creates(1 .. i))' = c
  BY <1>3, <1>18
<1>21. Len(tasks') = Cardinality(S)
  BY <1>5, <1>16
<1>22. ExactUpTo(i)'
  BY <1>17, <1>18, <1>19, <1>20, <1>21 DEF ExactUpTo
<1> QED
  BY <1>16, <1>22

LEMMA CreateIsSteady ==
  ASSUME Right, SteadyNow, NEW j \in Job, Create(j)
  PROVE  SteadyNow'
<1>1. PICK l : l = job[j]
  OBVIOUS
<1>2. PICK i \in Reached(l.actions) :
        log[i] = NewTask /\ tasks' = Append(tasks, [create |-> i, encryptions |-> None, total |-> None])
  BY <1>1 DEF Create
<1>3. /\ l.pc = "next" /\ l.nextTaskId = Len(tasks) /\ active' = active /\ log' = log /\ reduced' = reduced
  BY <1>1 DEF Create, chainVars
<1>4. PICK m : m = [l EXCEPT !.pc = "saveAction", !.nextTaskId = @ + 1]
  OBVIOUS
<1>5. job' = [job EXCEPT ![j] = m]
  BY <1>1, <1>4 DEF Create
<1>6. IsLocal(m) /\ m.pc = "saveAction" /\ m.actions = l.actions /\ m.nextTaskId = Len(tasks) + 1
  <2>1. IsLocal(l)
    BY <1>1, LocalShape
  <2> QED
    BY <1>3, <1>4, <2>1 DEF IsLocal
<1>7. m = job'[j] /\ \A k \in Job : k # j => job'[k] = job[k]
  BY <1>5, JobFields
<1>8. PICK n \in Nat : active = 1 .. n /\ i = n + 1 /\ i \in 0 .. reduced /\ ExactUpTo(n)
  BY <1>1, <1>3, NextIs
<1>9. i \in DOMAIN log /\ Reached(l.actions) = {i}
  BY <1>1, <1>2, <1>3, ReachedGives DEF Passing
<1>10. ExactUpTo(i)'
  BY <1>2, <1>3, <1>8, <1>9, CreateIsExact
<1>11. Len(tasks') = Len(tasks) + 1
  BY <1>2, TasksAre DEF Right, TasksRight
<1>12. SteadyLocal(m)'
  <2>1. l.actions \cap active = {}
    BY <1>1, <1>3 DEF SteadyNow, SteadyLocal, Passing
  <2> QED
    BY <1>3, <1>6, <1>11, <2>1 DEF SteadyLocal
<1>13. active' \cup Reached(m.actions) = 1 .. i
  <2>1. 1 .. i = 1 .. n \cup {i}
    BY <1>8, OneMore
  <2> QED
    BY <1>3, <1>6, <1>8, <1>9, <2>1
<1>14. InPass(j)
  BY <1>1, <1>3 DEF InPass
<1> QED
  BY <1>3, <1>6, <1>7, <1>8, <1>10, <1>12, <1>13, <1>14, PassIsSteady

LEMMA SaveTaskIsSteady ==
  ASSUME Right, SteadyNow, NEW j \in Job, SaveTask(j)
  PROVE  SteadyNow'
<1>1. PICK l : l = job[j]
  OBVIOUS
<1>2. PICK i \in Reached(l.actions) :
        tasks' = [tasks EXCEPT ![log[i] + 1].encryptions = Plus(@, i),
                               ![log[i] + 1].total = Plus(l.total, i)]
  BY <1>1 DEF SaveTask
<1>3. l.pc = "saveTask" /\ active' = active /\ log' = log /\ reduced' = reduced
  BY <1>1 DEF SaveTask, chainVars
<1>4. PICK m : m = [l EXCEPT !.pc = "saveAction", !.total = None]
  OBVIOUS
<1>5. job' = [job EXCEPT ![j] = m]
  BY <1>1, <1>4 DEF SaveTask
<1>6. IsLocal(m) /\ m.pc = "saveAction" /\ m.actions = l.actions /\ m.nextTaskId = l.nextTaskId
  <2>1. IsLocal(l)
    BY <1>1, LocalShape
  <2> QED
    BY <1>4, <2>1 DEF IsLocal
<1>7. m = job'[j] /\ \A k \in Job : k # j => job'[k] = job[k]
  BY <1>5, JobFields
<1>8. PICK n \in Nat : active = 1 .. n /\ i = n + 1 /\ i \in 0 .. reduced /\ ExactUpTo(n)
  BY <1>1, <1>3, NextIs
<1>9. i \in DOMAIN log /\ Reached(l.actions) = {i}
  BY <1>1, <1>2, <1>3, ReachedGives DEF Passing
<1>10. PICK d : d = log[i] + 1
  OBVIOUS
<1>11. SteadyLocal(l) /\ LocalRight(l)
  BY <1>1 DEF SteadyNow, Right
<1>12. /\ l.total = tasks[d].total /\ log[i] \in 0 .. Len(tasks) - 1
       /\ l.actions \cap active = {} /\ l.nextTaskId = Len(tasks)
  BY <1>3, <1>9, <1>10, <1>11 DEF SteadyLocal, LocalRight, Passing
<1>13. tasks' = [tasks EXCEPT ![d].encryptions = Plus(@, i), ![d].total = Plus(tasks[d].total, i)]
  BY <1>2, <1>10, <1>12
<1>14. ExactUpTo(i)' /\ Len(tasks') = Len(tasks)
  BY <1>3, <1>8, <1>9, <1>10, <1>12, <1>13, SaveTaskIsExact
<1>15. SteadyLocal(m)'
  BY <1>3, <1>6, <1>12, <1>14 DEF SteadyLocal
<1>16. active' \cup Reached(m.actions) = 1 .. i
  <2>1. 1 .. i = 1 .. n \cup {i}
    BY <1>8, OneMore
  <2> QED
    BY <1>3, <1>6, <1>8, <1>9, <2>1
<1>17. InPass(j)
  BY <1>1, <1>3 DEF InPass
<1> QED
  BY <1>3, <1>6, <1>7, <1>8, <1>14, <1>15, <1>16, <1>17, PassIsSteady

LEMMA SaveActionIsSteady ==
  ASSUME Right, SteadyNow, NEW j \in Job, SaveAction(j)
  PROVE  SteadyNow'
<1>1. PICK l : l = job[j]
  OBVIOUS
<1>2. /\ l.pc = "saveAction" /\ active' = active \cup Reached(l.actions)
      /\ log' = log /\ reduced' = reduced /\ tasks' = tasks
  BY <1>1 DEF SaveAction, chainVars
<1>3. PICK m : m = [l EXCEPT !.pc = "next", !.actions = l.actions \ Reached(l.actions)]
  OBVIOUS
<1>4. job' = [job EXCEPT ![j] = m]
  BY <1>1, <1>3 DEF SaveAction
<1>5. /\ IsLocal(m) /\ m.pc = "next" /\ m.actions = l.actions \ Reached(l.actions)
      /\ m.nextTaskId = l.nextTaskId
  <2>1. IsLocal(l)
    BY <1>1, LocalShape
  <2> QED
    BY <1>3, <2>1 DEF IsLocal
<1>6. m = job'[j] /\ \A k \in Job : k # j => job'[k] = job[k]
  BY <1>4, JobFields
<1>7. InPass(j)
  BY <1>1, <1>2 DEF InPass
<1>8. PICK n \in 0 .. reduced : Applied = 1 .. n /\ ExactUpTo(n)
  BY DEF SteadyNow
<1>9. Applied = active'
  BY <1>1, <1>2, AppliedIs DEF SteadyNow
<1>10. ExactUpTo(n)'
  BY <1>2, <1>8, ExactKeeps DEF Right
<1>11. SteadyLocal(m)'
  <2>1. l.actions \cap active = {} /\ l.nextTaskId = Len(tasks)
    BY <1>1, <1>2 DEF SteadyNow, SteadyLocal, Passing
  <2> QED
    BY <1>2, <1>5, <2>1 DEF SteadyLocal
<1>12. n \in 0 .. reduced' /\ active' = 1 .. n
  BY <1>2, <1>8, <1>9
<1> QED
  BY <1>5, <1>6, <1>7, <1>10, <1>11, <1>12, PassIsSteady

(* The chain: what it has stays, whatever the step.                        *)
LEMMA ChainStepGrows ==
  ASSUME Right, ChainStep
  PROVE  /\ \A i \in DOMAIN log : log'[i] = log[i]
         /\ reduced <= reduced' /\ UNCHANGED <<active, tasks, storage, job, steady>>
<1>1. /\ Len(log) \in Nat /\ DOMAIN log = 1 .. Len(log) /\ reduced \in Nat
      /\ \A tx \in mempool : tx.actions \subseteq 1 .. mirrored /\ mirrored \in Nat
  BY LogIs DEF Right, LogRight
<1>2. ASSUME NEW t \in {NewTask} \cup 0 .. MaxActions - 1, Dispatch(t)
      PROVE  /\ \A i \in DOMAIN log : log'[i] = log[i]
             /\ reduced <= reduced' /\ UNCHANGED <<active, tasks, storage, job, steady>>
  <2>1. log' = Append(log, t) /\ reduced' = reduced /\ UNCHANGED <<active, tasks, storage, job, steady>>
    BY <1>2 DEF Dispatch
  <2>2. \A i \in DOMAIN log : log'[i] = log[i]
    <3> DEFINE V == {NewTask} \cup Nat
    <3>1. log \in Seq(V)
      BY DEF Right, LogRight
    <3> HIDE DEF V
    <3> QED
      BY <1>1, <2>1, <3>1
  <2> QED
    BY <1>1, <2>1, <2>2
<1>3. ASSUME NEW tx \in mempool, Include(tx)
      PROVE  /\ \A i \in DOMAIN log : log'[i] = log[i]
             /\ reduced <= reduced' /\ UNCHANGED <<active, tasks, storage, job, steady>>
  <2>1. Cardinality(tx.actions) \in Nat
    BY <1>1, BoundedIs
  <2>2. reduced' = reduced + Cardinality(tx.actions) \/ reduced' = reduced
    BY <1>3 DEF Include
  <2>3. reduced <= reduced'
    BY <1>1, <2>1, <2>2
  <2> QED
    BY <1>3, <2>3 DEF Include
<1>4. ASSUME NEW n \in 1 .. Len(log), ReduceElsewhere(n)
      PROVE  /\ \A i \in DOMAIN log : log'[i] = log[i]
             /\ reduced <= reduced' /\ UNCHANGED <<active, tasks, storage, job, steady>>
  BY <1>1, <1>4 DEF ReduceElsewhere
<1>5. CASE Record
  BY <1>1, <1>5 DEF Record, chainVars
<1> QED
  BY <1>2, <1>3, <1>4, <1>5 DEF ChainStep

LEMMA SteadyGoesBack ==
  ASSUME [Next]_vars, Right, steady'
  PROVE  steady
<1>1. ChainStep => steady' = steady
  BY ChainStepGrows
<1>2. \A j \in Job : Update(j) => (steady' => steady)
  BY DEF Update, Find, FindNothing, FindLastTask, Create, FindTask, SaveTask, SaveAction, PassDone,
         DuplicateTask, FindTasks, FindActive
<1>3. \A j \in Job : Rollup(j) \/ Skip(j) => steady' = steady
  BY DEF Rollup, Skip, FindBatch, FetchState, CloneAndProve, ProveFails, Send
<1>4. Fail => (steady' => steady)
  BY DEF Fail, Crash, FetchThrows, UpdateThrows, RollupThrows
<1>5. UNCHANGED vars => steady' = steady
  BY DEF vars
<1> QED
  BY <1>1, <1>2, <1>3, <1>4, <1>5 DEF Next

LEMMA SteadyStep ==
  ASSUME Right, Right', SteadyRight, [Next]_vars
  PROVE  SteadyRight'
<1> SUFFICES ASSUME steady' PROVE SteadyNow'
  BY DEF SteadyRight
<1>1. ASSUME steady, SteadyNow, ChainStep PROVE SteadyNow'
  BY <1>1, ChainStepGrows, ChainIsSteady DEF Right
<1>2. ASSUME SteadyNow, NEW j \in Job, Update(j) PROVE SteadyNow'
  <2>1. CASE \E n \in 0 .. reduced : Find(j, n) \/ FindNothing(j, n)
    BY <1>2, <2>1, FindIsSteady, LeavingIsSteady
  <2>2. CASE FindLastTask(j) \/ Create(j) \/ FindTask(j) \/ SaveTask(j) \/ SaveAction(j)
    BY <1>2, <2>2, FindLastTaskIsSteady, CreateIsSteady, FindTaskIsSteady, SaveTaskIsSteady,
       SaveActionIsSteady
  <2>3. CASE PassDone(j) \/ DuplicateTask(j) \/ FindTasks(j) \/ FindActive(j)
    BY <1>2, <2>3, LeavingIsSteady
  <2> QED
    BY <1>2, <2>1, <2>2, <2>3 DEF Update
<1>3. ASSUME SteadyNow, NEW j \in Job,
             Skip(j) \/ Rollup(j) \/ FetchThrows(j) \/ UpdateThrows(j) \/ RollupThrows(j)
      PROVE  SteadyNow'
  BY <1>3, LeavingIsSteady
<1>4. ASSUME SteadyNow, Crash PROVE SteadyNow'
  BY <1>4, CrashIsSteady
<1>5. ASSUME SteadyNow, UNCHANGED vars PROVE SteadyNow'
  <2>1. UNCHANGED <<chainVars, mirrored>> /\ UNCHANGED <<active, tasks, storage, job, steady>>
    BY <1>5 DEF vars
  <2> QED
    BY <1>5, <2>1, SameLog, ChainIsSteady
<1>6. steady
  BY SteadyGoesBack
<1>7. SteadyNow
  BY <1>6 DEF SteadyRight
<1> QED
  BY <1>1, <1>2, <1>3, <1>4, <1>5, <1>6, <1>7 DEF Next, Fail

LEMMA InitIsSteady ==
  ASSUME Init
  PROVE  SteadyRight
<1>0. /\ active = {} /\ tasks = <<>> /\ job = [j \in Job |-> Idle]
  BY DEF Init
<1>1. \A j \in Job : job[j].pc = "idle"
  BY <1>0 DEF Idle
<1>2. OnePass
  BY <1>1 DEF OnePass, InPass
<1>3. \A j \in Job : SteadyLocal(job[j])
  BY <1>1 DEF SteadyLocal, Passing
<1>4. Applied = 1 .. 0
  <2>1. Applied = active
    BY <1>1 DEF Applied
  <2> QED
    BY <1>0, <2>1
<1>5. ExactUpTo(0)
  <2>1. Creates(1 .. 0) = {}
    BY DEF Creates
  <2>2. Cardinality({}) = 0
    BY FS_EmptySet
  <2>3. DOMAIN InOrder({}) = {}
    BY <2>2 DEF InOrder
  <2>4. Len(tasks) = 0
    BY <1>0
  <2> QED
    BY <2>1, <2>2, <2>3, <2>4 DEF ExactUpTo
<1>6. 0 \in 0 .. reduced
  BY InitIsRight, LogIs DEF Right
<1> QED
  BY <1>2, <1>3, <1>4, <1>5, <1>6 DEF SteadyRight, SteadyNow

LEMMA SteadyIsInvariant == Spec => []SteadyRight
<1>1. Init => SteadyRight
  BY InitIsSteady
<1>2. Right /\ Right' /\ SteadyRight /\ [Next]_vars => SteadyRight'
  BY SteadyStep
<1> QED
  BY <1>1, <1>2, RightIsInvariant, PTL DEF Spec

(* As long as no pass began while another one was not over, and none was   *)
(* stopped between the save of a task and that of its action, the task     *)
(* documents are exactly what the contract computes.                       *)
THEOREM DocumentsAreExact == Spec => []ExactWhileSteady
<1>1. SteadyRight => ExactWhileSteady
  <2> SUFFICES ASSUME SteadyNow PROVE ExactWhileSteady
    BY DEF SteadyRight, ExactWhileSteady
  <2>1. PICK m \in 0 .. reduced : Applied = 1 .. m /\ ExactUpTo(m)
    BY DEF SteadyNow
  <2> QED
    BY <2>1 DEF ExactWhileSteady, ExactUpTo
<1> QED
  BY <1>1, SteadyIsInvariant, PTL

-----------------------------------------------------------------------------
(***************************************************************************)
(* The trees in memory.                                                    *)
(***************************************************************************)
(* The tasks created keep their places.                                    *)
LEMMA CreatesKeepPlaces ==
  ASSUME NEW m \in Nat, NEW n \in Nat, m <= n,
         NEW c, c = InOrder(Creates(1 .. m)), NEW d, d = InOrder(Creates(1 .. n)), NEW t \in DOMAIN c
  PROVE  t \in DOMAIN d /\ d[t] = c[t]
<1>1. Creates(1 .. m) \subseteq Creates(1 .. n) /\ Creates(1 .. n) \subseteq 1 .. n
  BY DEF Creates
<1>2. \A i \in Creates(1 .. m) : \A h \in Creates(1 .. n) : h < i => h \in Creates(1 .. m)
  BY DEF Creates
<1>3. Creates(1 .. n) \subseteq Nat /\ IsFiniteSet(Creates(1 .. n))
  BY CreatesAre
<1> QED
  BY <1>1, <1>2, <1>3, InOrderPrefix

(* A step that leaves the leaves alone.                                    *)
LEMMA LeavesStay ==
  ASSUME Right, Right', LeavesAreBehind, steady, \A i \in DOMAIN log : log'[i] = log[i],
         reduced <= reduced', storage'.task = storage.task
  PROVE  LeavesAreBehind'
<1>1. reduced \in Nat /\ reduced' \in Nat /\ 1 .. reduced \subseteq DOMAIN log
  <2>1. Len(log') \in Nat /\ reduced' \in 0 .. Len(log')
    BY DEF Right, LogRight
  <2> QED
    BY <2>1, LogIs DEF Right
<1>2. PICK C : C = Creates(1 .. reduced)
  OBVIOUS
<1>3. PICK D : D = Creates(1 .. reduced)'
  OBVIOUS
<1>4. C = {i \in 1 .. reduced : log[i] = NewTask} /\ D = {i \in 1 .. reduced' : log'[i] = NewTask}
  BY <1>2, <1>3 DEF Creates
<1>5. C \subseteq D /\ D \subseteq 1 .. reduced' /\ \A i \in C : \A h \in D : h < i => h \in C
  BY <1>1, <1>4
<1>6. D \subseteq Nat /\ IsFiniteSet(D)
  BY <1>1, <1>5, BoundedIs
<1>7. \A t \in DOMAIN InOrder(C) : t \in DOMAIN InOrder(D) /\ InOrder(D)[t] = InOrder(C)[t]
  BY <1>5, <1>6, InOrderPrefix
<1>8. \A t \in DOMAIN storage.task :
        /\ t \in DOMAIN InOrder(C) /\ storage.task[t].create = InOrder(C)[t]
        /\ \E n \in 0 .. reduced : storage.task[t].total = OnceEach(AddsTo(t, 1 .. n))
  BY <1>2 DEF LeavesAreBehind
<1>9. ASSUME NEW t \in DOMAIN storage.task
      PROVE  \E n \in 0 .. reduced' : storage.task[t].total = OnceEach(AddsTo(t, 1 .. n)')
  <2>1. PICK n \in 0 .. reduced : storage.task[t].total = OnceEach(AddsTo(t, 1 .. n))
    BY <1>8
  <2>2. AddsTo(t, 1 .. n)' = AddsTo(t, 1 .. n)
    BY <1>1 DEF AddsTo
  <2>3. n \in 0 .. reduced'
    BY <1>1
  <2> QED
    BY <2>1, <2>2, <2>3
<1>10. \A t \in DOMAIN storage'.task :
         /\ t \in DOMAIN InOrder(D) /\ storage'.task[t].create = InOrder(D)[t]
         /\ \E n \in 0 .. reduced' : storage'.task[t].total = OnceEach(AddsTo(t, 1 .. n))'
  BY <1>7, <1>8, <1>9
<1>11. InOrder(Creates(1 .. reduced))' = InOrder(D)
  BY <1>3
<1> QED
  BY <1>10, <1>11 DEF LeavesAreBehind

(* The leaves are those of the documents.                                  *)
LEMMA FindTasksIsBehind ==
  ASSUME Right, SteadyNow, NEW j \in Job, FindTasks(j)
  PROVE  LeavesAreBehind'
<1>0. TasksRight /\ StorageRight /\ reduced \in Nat
  BY LogIs DEF Right
<1>1. PICK m \in 0 .. reduced : ExactUpTo(m)
  BY DEF SteadyNow
<1>2. m \in Nat /\ m <= reduced
  BY <1>0
<1>3. PICK c : c = InOrder(Creates(1 .. m))
  OBVIOUS
<1>4. PICK d : d = InOrder(Creates(1 .. reduced))
  OBVIOUS
<1>5. /\ storage' = [storage EXCEPT !.task = Overwrite(@, TaskLeaves)]
      /\ log' = log /\ reduced' = reduced
  BY DEF FindTasks, chainVars
<1>6. PICK new : new = Overwrite(storage.task, TaskLeaves)
  OBVIOUS
<1>7. storage'.task = new
  BY <1>0, <1>5, <1>6 DEF StorageRight, IsStorage
<1>8. DOMAIN c = 0 .. Cardinality(Creates(1 .. m)) - 1
  <2>1. Creates(1 .. m) \subseteq Nat /\ IsFiniteSet(Creates(1 .. m))
    BY <1>2, CreatesAre
  <2> QED
    BY <1>3, <2>1, InOrderIs
<1>9. /\ Len(tasks) = Cardinality(Creates(1 .. m))
      /\ \A t \in DOMAIN c :
           tasks[t + 1] = [create |-> c[t],
                           encryptions |-> OnceEach(AddsTo(t, 1 .. m)),
                           total |-> OnceEach(AddsTo(t, 1 .. m))]
  BY <1>1, <1>3 DEF ExactUpTo
<1>10. DOMAIN new = DOMAIN c /\ DOMAIN TaskLeaves = DOMAIN c
  <2>1. PICK n \in 0 .. Len(tasks) : DOMAIN storage.task = 0 .. n - 1
    BY <1>0 DEF StorageRight
  <2>2. 0 .. n - 1 \subseteq 0 .. Len(tasks) - 1
    BY <1>0, TasksAre
  <2>3. DOMAIN TaskLeaves = 0 .. Len(tasks) - 1
    BY <1>0, TaskLeavesAre
  <2>4. DOMAIN new = DOMAIN storage.task \cup DOMAIN TaskLeaves
    BY <1>6 DEF Overwrite
  <2> QED
    BY <1>8, <1>9, <2>1, <2>2, <2>3, <2>4
<1>11. \A t \in DOMAIN TaskLeaves : new[t] = TaskLeaves[t]
  BY <1>6 DEF Overwrite
<1>12. ASSUME NEW t \in DOMAIN new
       PROVE  /\ t \in DOMAIN d /\ new[t].create = d[t]
              /\ \E n \in 0 .. reduced : new[t].total = OnceEach(AddsTo(t, 1 .. n))
  <2>1. t \in DOMAIN c /\ t \in DOMAIN TaskLeaves /\ new[t] = TaskLeaves[t]
    BY <1>10, <1>11
  <2>2. TaskLeaves[t].create = tasks[t + 1].create /\ TaskLeaves[t].total = tasks[t + 1].total
    BY <1>0, <2>1, TaskLeavesAre
  <2>3. tasks[t + 1] = [create |-> c[t],
                        encryptions |-> OnceEach(AddsTo(t, 1 .. m)),
                        total |-> OnceEach(AddsTo(t, 1 .. m))]
    BY <1>9, <2>1
  <2>4. tasks[t + 1].create = c[t] /\ tasks[t + 1].total = OnceEach(AddsTo(t, 1 .. m))
    BY <2>3
  <2>5. t \in DOMAIN d /\ d[t] = c[t]
    BY <1>0, <1>2, <1>3, <1>4, <2>1, CreatesKeepPlaces
  <2> QED
    BY <2>1, <2>2, <2>4, <2>5
<1>13. InOrder(Creates(1 .. reduced))' = d
  <2>1. Creates(1 .. reduced)' = Creates(1 .. reduced)
    BY <1>5 DEF Creates
  <2> QED
    BY <1>4, <2>1
<1>14. \A t, n : OnceEach(AddsTo(t, 1 .. n))' = OnceEach(AddsTo(t, 1 .. n))
  BY <1>5 DEF OnceEach, AddsTo
<1> QED
  BY <1>5, <1>7, <1>12, <1>13, <1>14 DEF LeavesAreBehind

LEMMA CrashIsBehind ==
  ASSUME Crash
  PROVE  LeavesAreBehind'
<1>1. storage' = EmptyTrees
  BY DEF Crash
<1> QED
  BY <1>1, EmptyIs DEF LeavesAreBehind

(* Every other step leaves the leaves alone.                               *)
LEMMA LeavesChange ==
  ASSUME Right, [Next]_vars
  PROVE  \/ Crash
         \/ \E j \in Job : FindTasks(j)
         \/ /\ \A i \in DOMAIN log : log'[i] = log[i]
            /\ reduced <= reduced' /\ storage'.task = storage.task
<1>1. reduced \in Nat
  BY LogIs DEF Right
<1>2. CASE ChainStep
  BY <1>2, ChainStepGrows
<1>3. ASSUME NEW j \in Job, Update(j), ~ FindTasks(j)
      PROVE  log' = log /\ reduced' = reduced /\ storage'.task = storage.task
  <2>1. CASE FindActive(j)
    <3>1. storage' = [storage EXCEPT !.commitment = Overwrite(@, InOrder(Adds(Active)))]
      BY <2>1 DEF FindActive
    <3>2. IsStorage(storage)
      BY DEF Right, StorageRight
    <3>3. storage'.task = storage.task
      BY <3>1, <3>2 DEF IsStorage
    <3> QED
      BY <2>1, <3>3 DEF FindActive, chainVars
  <2>2. CASE ~ FindActive(j)
    BY <1>3, <2>2 DEF Update, Find, FindNothing, FindLastTask, Create, FindTask, SaveTask, SaveAction,
       PassDone, DuplicateTask, Retry, chainVars
  <2> QED
    BY <2>1, <2>2
<1>4. ASSUME NEW j \in Job,
             Skip(j) \/ Rollup(j) \/ FetchThrows(j) \/ UpdateThrows(j) \/ RollupThrows(j)
      PROVE  log' = log /\ reduced' = reduced /\ storage'.task = storage.task
  BY <1>4 DEF Skip, Rollup, FindBatch, FetchState, CloneAndProve, ProveFails, Send, FetchThrows, Retry,
     UpdateThrows, RollupThrows, chainVars
<1>5. CASE UNCHANGED vars
  BY <1>1, <1>5 DEF vars, chainVars
<1>6. ASSUME log' = log, reduced' = reduced, storage'.task = storage.task
      PROVE  /\ \A i \in DOMAIN log : log'[i] = log[i]
             /\ reduced <= reduced' /\ storage'.task = storage.task
  BY <1>1, <1>6
<1> QED
  BY <1>2, <1>3, <1>4, <1>5, <1>6 DEF Next, Fail

LEMMA BehindStep ==
  ASSUME Right, Right', SteadyRight, LeavesAreBehind, [Next]_vars
  PROVE  LeavesAreBehind'
<1>1. CASE ~ steady'
  BY <1>1 DEF LeavesAreBehind
<1>2. CASE steady'
  <2>1. steady /\ SteadyNow
    BY <1>2, SteadyGoesBack DEF SteadyRight
  <2>2. \/ Crash
        \/ \E j \in Job : FindTasks(j)
        \/ /\ \A i \in DOMAIN log : log'[i] = log[i]
           /\ reduced <= reduced' /\ storage'.task = storage.task
    BY LeavesChange
  <2> QED
    BY <2>1, <2>2, CrashIsBehind, FindTasksIsBehind, LeavesStay
<1> QED
  BY <1>1, <1>2

(* The leaves that a process has in memory are the ones of the contract at *)
(* some time: those of the tasks while the passes are steady, those of the *)
(* commitments whatever happens.                                           *)
THEOREM TreesStayBehind == Spec => []TreesAreBehind
<1>1. Init => LeavesAreBehind
  <2> SUFFICES ASSUME Init PROVE LeavesAreBehind
    OBVIOUS
  <2>1. storage = EmptyTrees
    BY DEF Init
  <2> QED
    BY <2>1, EmptyIs DEF LeavesAreBehind
<1>2. Right /\ Right' /\ SteadyRight /\ LeavesAreBehind /\ [Next]_vars => LeavesAreBehind'
  BY BehindStep
<1>3. LeavesAreBehind /\ Right => TreesAreBehind
  BY RightPlaces DEF TreesAreBehind
<1> QED
  BY <1>1, <1>2, <1>3, RightIsInvariant, SteadyIsInvariant, PTL DEF Spec
=============================================================================
