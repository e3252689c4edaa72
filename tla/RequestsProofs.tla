---------------------------- MODULE RequestsProofs ----------------------------
(***************************************************************************)
(* What the request contract's service guarantees for any number of        *)
(* processes, jobs, requests and actions.  The argument: what a pass has   *)
(* left begins right after the active actions, or among them, so that all  *)
(* creations before its first action have their documents; if the unique   *)
(* index of task admits one for this action, it has the next id.  As long  *)
(* as the history is steady, there is one pass, the events it was shown    *)
(* are those of all actions it works on, and the documents are what the    *)
(* contract had after the actions up to one number.                        *)
(***************************************************************************)
EXTENDS Requests, FiniteSetTheorems, TLAPS

IsLocal(l) ==
  l = [pc |-> l.pc, state |-> l.state, batch |-> l.batch, last |-> l.last,
       dimension |-> l.dimension, eventId |-> l.eventId, actions |-> l.actions,
       nextRequestId |-> l.nextRequestId, result |-> l.result]

ChainRight ==
  /\ log \in Seq({NewRequest} \cup 0 .. MaxActions - 1) /\ Len(log) <= MaxActions
  /\ reduced \in 0 .. Len(log)
  /\ actionState \in [Process -> 0 .. reduced]

ActiveRight == \E n \in 0 .. reduced : active = 1 .. n

\* Each batch has as many events as there are dimensions, at most.
EventsRight ==
  /\ events \in Seq(Event)
  /\ \A e \in DOMAIN events : e <= 2 * events[e].batch + events[e].dimension

\* The effect of an action is in the documents.
Saved(i) ==
  IF log[i] = NewRequest THEN Cardinality(Creates(1 .. i)) <= Len(requests)
  ELSE log[i] < Len(requests) /\ requests[log[i] + 1].resolve # 0

RequestsRight ==
  /\ requests \in Seq([create : 1 .. reduced, resolve : 0 .. reduced, result : SUBSET Event])
  /\ RequestsAreOnChain
  /\ Cardinality(Creates(active)) <= Len(requests)
  /\ \A i \in Resolves(active) : Saved(i)

StorageRight ==
  /\ \A r \in DOMAIN storage : storage[r] \in [create : 1 .. reduced, result : 0 .. reduced]
  /\ LeavesAreBehind

\* A pass over actions, and the first of them that are left.
OverActions == {"findLatest", "next", "saveRequest", "saveAction"}

LocalRight(l) ==
  /\ IsLocal(l) /\ l.pc \in PC /\ l.state \in 0 .. reduced
  /\ l.batch \in 0 .. MaxActions /\ l.last \in 0 .. MaxActions
  /\ l.dimension \in Dimension /\ l.eventId \in 0 .. 2 * MaxActions + 1
  /\ l.actions \subseteq 1 .. Len(log) /\ l.nextRequestId \in 0 .. Len(requests)
  /\ l.result \subseteq Event
  /\ (l.pc = "store" => /\ l.eventId >= 1 /\ l.eventId <= 2 * l.batch + l.dimension
                        /\ (l.dimension = 2 => l.batch < l.last))
  /\ (l.pc \in OverActions => /\ l.actions \subseteq 1 .. reduced
                              /\ \A i \in l.actions : 1 .. i - 1 \subseteq active \cup l.actions)
  /\ (l.pc = "saveRequest" => \A i \in Reached(l.actions) : log[i] \in 0 .. Len(requests) - 1)
  /\ (l.pc = "saveAction" => \A i \in Reached(l.actions) : Saved(i))

JobsRight == job = [j \in Job |-> job[j]] /\ \A j \in Job : LocalRight(job[j])

Right == ChainRight /\ ActiveRight /\ EventsRight /\ RequestsRight /\ StorageRight /\ JobsRight
         /\ steady \in BOOLEAN

-----------------------------------------------------------------------------
(***************************************************************************)
(* As long as the history is steady.                                       *)
(***************************************************************************)
OnePass == \A j, k \in Job : InPass(j) /\ InPass(k) => j = k

\* Every batch has its events, in their order, but for one that is being stored.
EventsSteady ==
  /\ \A e \in DOMAIN events : e = 2 * events[e].batch + events[e].dimension
  /\ (\A j \in Job : job[j].pc # "store") => \E b \in Nat : Len(events) = 2 * b

\* The number of batches of the actions up to one, and its own among them.
BatchesOf(i) == Cardinality(Resolves(1 .. i))

WholeResult(i, result) ==
  \E b \in Batches : /\ ActionOf(b) = i
                     /\ \A k \in Dimension : [batch |-> b, dimension |-> k] \in result

SteadyLocal(l, s) ==
  /\ (l.pc = "store" => /\ l.eventId = Len(events) + 1 /\ l.eventId = 2 * l.batch + l.dimension
                        /\ BatchesOf(s) <= l.last)
  /\ (l.pc = "find" => 2 * BatchesOf(s) <= Len(events))
  /\ (l.pc \in OverActions => /\ l.actions \cap active = {}
                              /\ \A i \in l.actions : 2 * BatchesOf(i) <= Len(events))
  /\ (l.pc = "saveRequest" => \A i \in Reached(l.actions) : WholeResult(i, l.result))

\* The actions whose effect is in the request documents.
Applied == active \cup UNION {Reached(job[j].actions) : j \in {k \in Job : job[k].pc = "saveAction"}}

DocumentsSteady == \E m \in 0 .. reduced : Applied = 1 .. m /\ Leaves = TreesAfter(m)

ResultsSteady == \A d \in DOMAIN requests : requests[d].resolve # 0 =>
                   WholeResult(requests[d].resolve, requests[d].result)

SteadyRight ==
  steady => /\ OnePass /\ EventsSteady /\ DocumentsSteady /\ ResultsSteady
            /\ (\E n \in 0 .. reduced : storage = TreesAfter(n))
            /\ \A j \in Job : SteadyLocal(job[j], actionState[Home[j]])

-----------------------------------------------------------------------------
(***************************************************************************)
(* InOrder(ids): the n-th id is the one with n below it.                   *)
(***************************************************************************)
Below(S, i) == {h \in S : h < i}

LEMMA BoundedIs ==
  ASSUME NEW n \in Nat, NEW S, S \subseteq 1 .. n
  PROVE  /\ IsFiniteSet(S) /\ Cardinality(S) \in Nat /\ Cardinality(S) <= n /\ S \subseteq Nat
<1>1. IsFiniteSet(1 .. n) /\ Cardinality(1 .. n) = IF 1 > n THEN 0 ELSE n - 1 + 1
  BY FS_Interval
<1>2. Cardinality(1 .. n) = n
  BY <1>1
<1>3. IsFiniteSet(S) /\ Cardinality(S) <= n
  BY <1>1, <1>2, FS_Subset
<1> QED
  BY <1>3, FS_CardinalityType

(* The numbers below the elements of a finite set are distinct, and are    *)
(* all numbers below its cardinality.                                      *)
LEMMA RankIs ==
  ASSUME NEW S, S \subseteq Nat, IsFiniteSet(S)
  PROVE  /\ Cardinality(S) \in Nat
         /\ \A i \in S : Cardinality(Below(S, i)) \in 0 .. Cardinality(S) - 1
         /\ \A i, j \in S : Cardinality(Below(S, i)) = Cardinality(Below(S, j)) => i = j
         /\ \A n \in 0 .. Cardinality(S) - 1 : \E i \in S : Cardinality(Below(S, i)) = n
<1>1. Cardinality(S) \in Nat
  BY FS_CardinalityType
<1>2. \A i : IsFiniteSet(Below(S, i)) /\ Cardinality(Below(S, i)) \in Nat
  <2> SUFFICES ASSUME NEW i PROVE IsFiniteSet(Below(S, i)) /\ Cardinality(Below(S, i)) \in Nat
    OBVIOUS
  <2>1. Below(S, i) \in SUBSET S
    BY DEF Below
  <2> QED
    BY <2>1, FS_Subset, FS_CardinalityType
<1>3. ASSUME NEW i \in S PROVE Cardinality(Below(S, i)) \in 0 .. Cardinality(S) - 1
  <2>1. IsFiniteSet(S \ {i}) /\ Cardinality(S \ {i}) = IF i \in S THEN Cardinality(S) - 1 ELSE Cardinality(S)
    BY FS_RemoveElement
  <2>2. Below(S, i) \in SUBSET (S \ {i})
    BY DEF Below
  <2>3. Cardinality(Below(S, i)) <= Cardinality(S \ {i})
    BY <2>1, <2>2, FS_Subset
  <2> QED
    BY <1>1, <1>2, <2>1, <2>3
<1>4. ASSUME NEW i \in S, NEW j \in S, i < j
      PROVE  Cardinality(Below(S, i)) < Cardinality(Below(S, j))
  <2>0. i \in Nat /\ j \in Nat /\ ~ (i < i) /\ \A h \in S : h < i => h < j
    BY <1>4
  <2>1. i \notin Below(S, i) /\ Below(S, i) \cup {i} \in SUBSET Below(S, j)
    BY <1>4, <2>0 DEF Below
  <2>2. Cardinality(Below(S, i) \cup {i}) = IF i \in Below(S, i) THEN Cardinality(Below(S, i))
                                            ELSE Cardinality(Below(S, i)) + 1
    BY <1>2, FS_AddElement
  <2>3. Cardinality(Below(S, i) \cup {i}) <= Cardinality(Below(S, j))
    BY <1>2, <2>1, FS_Subset
  <2>4. Cardinality(Below(S, i)) \in Nat /\ Cardinality(Below(S, j)) \in Nat
    BY <1>2
  <2> QED
    BY <2>1, <2>2, <2>3, <2>4
<1>5. ASSUME NEW i \in S, NEW j \in S, Cardinality(Below(S, i)) = Cardinality(Below(S, j))
      PROVE  i = j
  <2>1. ~ (i < j) /\ ~ (j < i)
    BY <1>2, <1>4, <1>5
  <2>2. i \in Nat /\ j \in Nat
    OBVIOUS
  <2> QED
    BY <2>1, <2>2
<1>6. ASSUME NEW n \in 0 .. Cardinality(S) - 1 PROVE \E i \in S : Cardinality(Below(S, i)) = n
  <2> DEFINE T == 0 .. Cardinality(S) - 1
             f == [i \in S |-> Cardinality(Below(S, i))]
  <2>1. IsFiniteSet(T) /\ Cardinality(T) = IF 0 > Cardinality(S) - 1 THEN 0 ELSE Cardinality(S) - 1 - 0 + 1
    <3>1. 0 \in Int /\ Cardinality(S) - 1 \in Int
      BY <1>1
    <3> QED
      BY <3>1, FS_Interval
  <2>2. Cardinality(T) = Cardinality(S)
    BY <1>1, <2>1
  <2>3. f \in Injection(S, T)
    <3>1. f \in [S -> T]
      BY <1>3
    <3>2. \A i, j \in S : f[i] = f[j] => i = j
      BY <1>5
    <3> HIDE DEF f, T
    <3> QED
      BY <3>1, <3>2 DEF Injection, IsInjective
  <2>4. f \in Surjection(S, T)
    <3> HIDE DEF f, T
    <3> QED
      BY <2>1, <2>2, <2>3, FS_Injection
  <2>5. \E i \in S : f[i] = n
    <3>1. n \in T
      BY <1>6
    <3> HIDE DEF f, T
    <3> QED
      BY <2>4, <3>1 DEF Surjection
  <2> QED
    BY <2>5
<1> QED
  BY <1>1, <1>3, <1>5, <1>6

LEMMA InOrderIs ==
  ASSUME NEW S, S \subseteq Nat, IsFiniteSet(S)
  PROVE  /\ DOMAIN InOrder(S) = 0 .. Cardinality(S) - 1 /\ Cardinality(S) \in Nat
         /\ \A n \in DOMAIN InOrder(S) : /\ InOrder(S)[n] \in S
                                         /\ Cardinality(Below(S, InOrder(S)[n])) = n
         /\ \A i \in S : /\ Cardinality(Below(S, i)) \in DOMAIN InOrder(S)
                         /\ InOrder(S)[Cardinality(Below(S, i))] = i
<1>1. DOMAIN InOrder(S) = 0 .. Cardinality(S) - 1
  BY DEF InOrder
<1>2. \A n \in 0 .. Cardinality(S) - 1 : InOrder(S)[n] = CHOOSE i \in S : Cardinality(Below(S, i)) = n
  BY DEF InOrder, Below
<1>3. ASSUME NEW n \in 0 .. Cardinality(S) - 1
      PROVE  InOrder(S)[n] \in S /\ Cardinality(Below(S, InOrder(S)[n])) = n
  <2>1. \E i \in S : Cardinality(Below(S, i)) = n
    BY RankIs
  <2> QED
    BY <1>2, <2>1
<1>4. ASSUME NEW i \in S
      PROVE  /\ Cardinality(Below(S, i)) \in DOMAIN InOrder(S)
             /\ InOrder(S)[Cardinality(Below(S, i))] = i
  <2>1. Cardinality(Below(S, i)) \in 0 .. Cardinality(S) - 1
    BY RankIs
  <2>2. /\ InOrder(S)[Cardinality(Below(S, i))] \in S
        /\ Cardinality(Below(S, InOrder(S)[Cardinality(Below(S, i))])) = Cardinality(Below(S, i))
    BY <1>3, <2>1
  <2> QED
    BY <1>1, <2>1, <2>2, RankIs
<1> QED
  BY <1>1, <1>3, <1>4, RankIs

(* What is in order up to a number stays in its place.                     *)
LEMMA InOrderPrefix ==
  ASSUME NEW T, T \subseteq Nat, IsFiniteSet(T), NEW S, S \subseteq T,
         \A i \in S : \A h \in T : h < i => h \in S
  PROVE  \A n \in DOMAIN InOrder(S) : n \in DOMAIN InOrder(T) /\ InOrder(T)[n] = InOrder(S)[n]
<1>1. IsFiniteSet(S) /\ S \subseteq Nat
  BY FS_Subset
<1> SUFFICES ASSUME NEW n \in DOMAIN InOrder(S)
             PROVE  n \in DOMAIN InOrder(T) /\ InOrder(T)[n] = InOrder(S)[n]
  OBVIOUS
<1>2. PICK i : i = InOrder(S)[n]
  OBVIOUS
<1>3. i \in S /\ Cardinality(Below(S, i)) = n
  BY <1>1, <1>2, InOrderIs
<1>4. Below(S, i) = Below(T, i) /\ i \in T
  BY <1>3 DEF Below
<1>5. /\ Cardinality(Below(T, i)) \in DOMAIN InOrder(T)
      /\ InOrder(T)[Cardinality(Below(T, i))] = i
  BY <1>4, InOrderIs
<1> QED
  BY <1>2, <1>3, <1>4, <1>5

LEMMA InOrderNext ==
  ASSUME NEW S, S \subseteq Nat, IsFiniteSet(S), NEW x \in Nat, \A i \in S : i < x
  PROVE  /\ DOMAIN InOrder(S \cup {x}) = 0 .. Cardinality(S) /\ Cardinality(S) \in Nat
         /\ Cardinality(S \cup {x}) = Cardinality(S) + 1
         /\ InOrder(S \cup {x})[Cardinality(S)] = x
         /\ \A n \in DOMAIN InOrder(S) : InOrder(S \cup {x})[n] = InOrder(S)[n]
<1> DEFINE T == S \cup {x}
<1>1. x \notin S
  <2>1. ~ (x < x)
    OBVIOUS
  <2> QED
    BY <2>1
<1>2. IsFiniteSet(T) /\ T \subseteq Nat
  BY FS_AddElement
<1>3. Cardinality(T) = Cardinality(S) + 1 /\ Cardinality(S) \in Nat
  BY <1>1, FS_AddElement, FS_CardinalityType
<1>4. DOMAIN InOrder(T) = 0 .. Cardinality(S)
  <2>1. DOMAIN InOrder(T) = 0 .. Cardinality(T) - 1
    BY <1>2, InOrderIs
  <2> QED
    BY <1>3, <2>1
<1>5. Below(T, x) = S
  <2>1. ~ (x < x)
    OBVIOUS
  <2> QED
    BY <2>1 DEF Below
<1>6. InOrder(T)[Cardinality(S)] = x
  <2>1. x \in T
    OBVIOUS
  <2> HIDE DEF T
  <2>2. InOrder(T)[Cardinality(Below(T, x))] = x
    BY <1>2, <2>1, InOrderIs
  <2> QED
    BY <1>5, <2>2
<1>7. \A i \in S : \A h \in T : h < i => h \in S
  <2> SUFFICES ASSUME NEW i \in S, x < i PROVE FALSE
    OBVIOUS
  <2>1. i < x /\ i \in Nat
    OBVIOUS
  <2> QED
    BY <2>1
<1>8. \A n \in DOMAIN InOrder(S) : InOrder(T)[n] = InOrder(S)[n]
  <2> HIDE DEF T
  <2>1. S \subseteq T
    BY DEF T
  <2> QED
    BY <1>2, <1>7, <2>1, InOrderPrefix
<1> QED
  BY <1>3, <1>4, <1>6, <1>8

LEMMA SmallestIs ==
  ASSUME NEW n \in Nat, NEW S, S \subseteq 1 .. n, S # {}
  PROVE  \E i \in S : \A h \in S : i <= h
<1>1. IsFiniteSet(S) /\ Cardinality(S) \in Nat /\ S \subseteq Nat
  BY BoundedIs
<1>2. Cardinality(S) # 0
  BY <1>1, FS_EmptySet
<1>3. 0 \in 0 .. Cardinality(S) - 1
  BY <1>1, <1>2
<1>4. PICK i \in S : Cardinality(Below(S, i)) = 0
  BY <1>1, <1>3, RankIs
<1>5. IsFiniteSet(Below(S, i))
  <2>1. Below(S, i) \in SUBSET S
    BY DEF Below
  <2> QED
    BY <1>1, <2>1, FS_Subset
<1>6. Below(S, i) = {}
  BY <1>4, <1>5, FS_EmptySet
<1>7. \A h \in S : h \in Nat /\ i \in Nat /\ ~ (h < i)
  BY <1>1, <1>6 DEF Below
<1> QED
  BY <1>7


LEMMA ReachedIs ==
  ASSUME NEW n \in Nat, NEW ids, ids \subseteq 1 .. n
  PROVE  /\ ids # {} => \E i \in ids : Reached(ids) = {i} /\ \A h \in ids : i <= h
         /\ ids = {} => Reached(ids) = {}
         /\ Reached(ids) \subseteq ids
<1>1. ASSUME ids # {} PROVE \E i \in ids : Reached(ids) = {i} /\ \A h \in ids : i <= h
  <2>1. PICK i \in ids : \A h \in ids : i <= h
    BY <1>1, SmallestIs
  <2>2. \A h \in ids : (\A g \in ids : h <= g) => h = i
    <3> SUFFICES ASSUME NEW h \in ids, h <= i PROVE h = i
      OBVIOUS
    <3>1. h \in Nat /\ i \in Nat /\ i <= h
      BY <2>1
    <3> QED
      BY <3>1
  <2> QED
    BY <2>1, <2>2 DEF Reached
<1> QED
  BY <1>1 DEF Reached

-----------------------------------------------------------------------------
(***************************************************************************)
(* The creations and resolutions up to a number.                           *)
(***************************************************************************)
LEMMA Bounds == MaxActions \in Nat /\ Here \in Process /\ Home \in [Job -> Process] /\ NewRequest = -1
BY RequestsAssumption DEF NewRequest

LEMMA LogIs ==
  ASSUME ChainRight
  PROVE  /\ Len(log) \in Nat /\ DOMAIN log = 1 .. Len(log) /\ Len(log) <= MaxActions
         /\ reduced \in Nat /\ reduced <= Len(log) /\ 1 .. reduced \subseteq DOMAIN log
         /\ \A i \in DOMAIN log : log[i] # NewRequest => log[i] \in Nat /\ log[i] < MaxActions
         /\ \A p \in Process : actionState[p] \in Nat /\ actionState[p] <= reduced
<1>1. Len(log) \in Nat /\ DOMAIN log = 1 .. Len(log) /\ Len(log) <= MaxActions
  BY DEF ChainRight
<1>2. reduced \in Nat /\ reduced <= Len(log)
  BY <1>1 DEF ChainRight
<1>3. 1 .. reduced \subseteq DOMAIN log
  BY <1>1, <1>2
<1>4. \A i \in DOMAIN log : log[i] \in {NewRequest} \cup 0 .. MaxActions - 1
  BY DEF ChainRight
<1>5. \A i \in DOMAIN log : log[i] # NewRequest => log[i] \in Nat /\ log[i] < MaxActions
  BY <1>4, Bounds
<1>6. \A p \in Process : actionState[p] \in Nat /\ actionState[p] <= reduced
  BY <1>2 DEF ChainRight
<1> QED
  BY <1>1, <1>2, <1>3, <1>5, <1>6

LEMMA KindsAre ==
  ASSUME NEW n \in Nat, NEW ids, ids \subseteq 1 .. n
  PROVE  /\ IsFiniteSet(Creates(ids)) /\ Cardinality(Creates(ids)) \in Nat
         /\ Cardinality(Creates(ids)) <= n /\ Creates(ids) \subseteq Nat
         /\ IsFiniteSet(Resolves(ids)) /\ Cardinality(Resolves(ids)) \in Nat
         /\ Cardinality(Resolves(ids)) <= n /\ Resolves(ids) \subseteq Nat
<1>1. Creates(ids) \subseteq 1 .. n /\ Resolves(ids) \subseteq 1 .. n
  BY DEF Creates, Resolves
<1> QED
  BY <1>1, BoundedIs

LEMMA KindsGrow ==
  ASSUME NEW n \in Nat, NEW ids, ids \subseteq 1 .. n, NEW few, few \subseteq ids
  PROVE  /\ Cardinality(Creates(few)) <= Cardinality(Creates(ids))
         /\ Cardinality(Resolves(few)) <= Cardinality(Resolves(ids))
<1>1. Creates(few) \subseteq Creates(ids) /\ Resolves(few) \subseteq Resolves(ids)
  BY DEF Creates, Resolves
<1> QED
  BY <1>1, KindsAre, FS_Subset

LEMMA KindsNext ==
  ASSUME NEW n \in Nat
  PROVE  /\ 1 .. n + 1 = (1 .. n) \cup {n + 1}
         /\ log[n + 1] = NewRequest =>
              /\ Creates(1 .. n + 1) = Creates(1 .. n) \cup {n + 1}
              /\ Cardinality(Creates(1 .. n + 1)) = Cardinality(Creates(1 .. n)) + 1
              /\ Resolves(1 .. n + 1) = Resolves(1 .. n)
         /\ log[n + 1] # NewRequest =>
              /\ Creates(1 .. n + 1) = Creates(1 .. n)
              /\ Resolves(1 .. n + 1) = Resolves(1 .. n) \cup {n + 1}
              /\ Cardinality(Resolves(1 .. n + 1)) = Cardinality(Resolves(1 .. n)) + 1
<1>1. 1 .. n + 1 = (1 .. n) \cup {n + 1} /\ n + 1 \notin 1 .. n
  OBVIOUS
<1>2. /\ IsFiniteSet(Creates(1 .. n)) /\ IsFiniteSet(Resolves(1 .. n))
      /\ n + 1 \notin Creates(1 .. n) /\ n + 1 \notin Resolves(1 .. n)
  BY <1>1, KindsAre DEF Creates, Resolves
<1>3. CASE log[n + 1] = NewRequest
  <2>1. Creates(1 .. n + 1) = Creates(1 .. n) \cup {n + 1} /\ Resolves(1 .. n + 1) = Resolves(1 .. n)
    BY <1>1, <1>3 DEF Creates, Resolves
  <2> QED
    BY <1>1, <1>2, <1>3, <2>1, FS_AddElement
<1>4. CASE log[n + 1] # NewRequest
  <2>1. Creates(1 .. n + 1) = Creates(1 .. n) /\ Resolves(1 .. n + 1) = Resolves(1 .. n) \cup {n + 1}
    BY <1>1, <1>4 DEF Creates, Resolves
  <2> QED
    BY <1>1, <1>2, <1>4, <2>1, FS_AddElement
<1> QED
  BY <1>3, <1>4

(* The log does not change what it has.                                    *)
LEMMA SameKinds ==
  ASSUME NEW ids, \A i \in ids : log'[i] = log[i]
  PROVE  /\ Creates(ids)' = Creates(ids) /\ Resolves(ids)' = Resolves(ids)
         /\ \A r : ResolvesOf(r, ids)' = ResolvesOf(r, ids)
BY DEF Creates, Resolves, ResolvesOf

(* The trees after some actions do not depend on what follows.             *)
LEMMA SameTrees ==
  ASSUME NEW n, \A i \in 1 .. n : log'[i] = log[i]
  PROVE  TreesAfter(n)' = TreesAfter(n)
<1>1. Creates(1 .. n)' = Creates(1 .. n) /\ \A r : ResolvesOf(r, 1 .. n)' = ResolvesOf(r, 1 .. n)
  BY SameKinds
<1> QED
  BY <1>1 DEF TreesAfter

(* The batch of an action that resolves, counted from 0.                   *)
LEMMA BatchIs ==
  ASSUME ChainRight, NEW i \in DOMAIN log, log[i] # NewRequest
  PROVE  /\ Cardinality(Resolves(1 .. i)) - 1 \in Batches
         /\ ActionOf(Cardinality(Resolves(1 .. i)) - 1) = i
         /\ Cardinality(Resolves(1 .. i)) \in Nat \ {0}
<1> DEFINE S == Resolves(1 .. Len(log))
<1>1. Len(log) \in Nat /\ i \in 1 .. Len(log) /\ i \in Nat /\ i - 1 \in Nat
  BY LogIs
<1>2. i \in S /\ S \subseteq Nat /\ IsFiniteSet(S)
  BY <1>1, KindsAre DEF Resolves
<1>3. Below(S, i) = Resolves(1 .. i - 1)
  BY <1>1 DEF Below, Resolves
<1>4. (i - 1) + 1 = i
  BY <1>1
<1>5. Cardinality(Resolves(1 .. i)) = Cardinality(Resolves(1 .. i - 1)) + 1
  BY <1>1, <1>4, KindsNext
<1>6. Cardinality(Resolves(1 .. i - 1)) \in Nat
  BY <1>1, KindsAre
<1>7. Cardinality(Resolves(1 .. i)) - 1 = Cardinality(Below(S, i))
  BY <1>3, <1>5, <1>6
<1>8. Cardinality(Below(S, i)) \in DOMAIN InOrder(S) /\ InOrder(S)[Cardinality(Below(S, i))] = i
  <2> HIDE DEF S
  <2> QED
    BY <1>2, InOrderIs
<1> QED
  BY <1>5, <1>6, <1>7, <1>8 DEF Batches, ActionOf

LEMMA BatchesAre ==
  ASSUME ChainRight
  PROVE  /\ Cardinality(Batches) = Cardinality(Resolves(1 .. Len(log)))
         /\ Cardinality(Batches) \in Nat /\ Cardinality(Batches) <= Len(log)
<1> DEFINE c == Cardinality(Resolves(1 .. Len(log)))
<1>1. Len(log) \in Nat
  BY LogIs
<1>2. c \in Nat /\ c <= Len(log)
  BY <1>1, KindsAre
<1>3. Batches = 0 .. c - 1
  BY DEF Batches, InOrder
<1>4. 0 \in Int /\ c - 1 \in Int
  BY <1>2
<1>5. Cardinality(0 .. c - 1) = IF 0 > c - 1 THEN 0 ELSE c - 1 - 0 + 1
  BY <1>4, FS_Interval
<1>6. Cardinality(Batches) = c
  BY <1>2, <1>3, <1>5
<1> QED
  BY <1>2, <1>6

-----------------------------------------------------------------------------
(***************************************************************************)
(* What a step leaves right by what it leaves alone.                       *)
(***************************************************************************)
\* What grows.
Grows ==
  /\ \A i \in DOMAIN log : i \in DOMAIN log' /\ log'[i] = log[i]
  /\ Len(log') \in Nat /\ Len(log) <= Len(log')
  /\ reduced' \in Nat /\ reduced <= reduced'
  /\ active \subseteq active'
  /\ Len(requests') \in Nat /\ Len(requests) <= Len(requests')
  /\ \A d \in DOMAIN requests : requests[d].resolve # 0 => requests'[d].resolve # 0

LEMMA RequestsAre ==
  ASSUME ChainRight, RequestsRight
  PROVE  /\ Len(requests) \in Nat /\ DOMAIN requests = 1 .. Len(requests)
         /\ \A d \in DOMAIN requests :
              /\ requests[d] = [create |-> requests[d].create, resolve |-> requests[d].resolve,
                                result |-> requests[d].result]
              /\ requests[d].create \in 1 .. reduced /\ requests[d].resolve \in 0 .. reduced
              /\ requests[d].result \subseteq Event
              /\ requests[d].create \in Creates(1 .. reduced)
<1>1. Len(requests) \in Nat /\ DOMAIN requests = 1 .. Len(requests)
  BY DEF RequestsRight
<1>2. ASSUME NEW d \in DOMAIN requests
      PROVE  /\ requests[d] = [create |-> requests[d].create, resolve |-> requests[d].resolve,
                                result |-> requests[d].result]
             /\ requests[d].create \in 1 .. reduced /\ requests[d].resolve \in 0 .. reduced
             /\ requests[d].result \subseteq Event
  <2> DEFINE D == [create : 1 .. reduced, resolve : 0 .. reduced, result : SUBSET Event]
  <2>1. requests \in Seq(D)
    BY DEF RequestsRight
  <2>2. requests[d] \in D
    <3> HIDE DEF D
    <3> QED
      BY <2>1
  <2> QED
    BY <2>2
<1>3. ASSUME NEW d \in DOMAIN requests PROVE requests[d].create \in Creates(1 .. reduced)
  <2>1. /\ d - 1 \in DOMAIN InOrder(Creates(1 .. reduced))
        /\ requests[d].create = InOrder(Creates(1 .. reduced))[d - 1]
    BY DEF RequestsRight, RequestsAreOnChain
  <2>2. IsFiniteSet(Creates(1 .. reduced)) /\ Creates(1 .. reduced) \subseteq Nat
    BY LogIs, KindsAre
  <2> QED
    BY <2>1, <2>2, InOrderIs
<1> QED
  BY <1>1, <1>2, <1>3

LEMMA ActiveIs ==
  ASSUME ChainRight, ActiveRight
  PROVE  active \subseteq 1 .. reduced /\ active \subseteq DOMAIN log
BY LogIs DEF ActiveRight

LEMMA SavedKeeps ==
  ASSUME ChainRight, RequestsRight, Grows, NEW i \in DOMAIN log, Saved(i)
  PROVE  Saved(i)'
<1>1. \A h \in 1 .. i : log'[h] = log[h]
  BY LogIs DEF Grows
<1>2. Creates(1 .. i)' = Creates(1 .. i) /\ log'[i] = log[i]
  BY <1>1, LogIs, SameKinds
<1>3. Cardinality(Creates(1 .. i)) \in Nat
  <2>1. i \in Nat
    BY LogIs
  <2> QED
    BY <2>1, KindsAre
<1>4. CASE log[i] = NewRequest
  <2>1. Cardinality(Creates(1 .. i)) <= Len(requests)
    BY <1>4 DEF Saved
  <2>2. Cardinality(Creates(1 .. i)) <= Len(requests')
    BY <1>3, <2>1, RequestsAre DEF Grows
  <2> QED
    BY <1>2, <1>4, <2>2 DEF Saved
<1>5. CASE log[i] # NewRequest
  <2>1. log[i] \in Nat /\ log[i] < Len(requests) /\ requests[log[i] + 1].resolve # 0
    BY <1>5, LogIs DEF Saved
  <2>2. log[i] + 1 \in DOMAIN requests
    BY <2>1, RequestsAre
  <2>3. log[i] < Len(requests') /\ requests'[log[i] + 1].resolve # 0
    BY <2>1, <2>2, RequestsAre DEF Grows
  <2> QED
    BY <1>2, <1>5, <2>3 DEF Saved
<1> QED
  BY <1>4, <1>5

LEMMA LocalKeeps ==
  ASSUME ChainRight, RequestsRight, Grows, NEW l, LocalRight(l)
  PROVE  LocalRight(l)'
<1>1. /\ IsLocal(l) /\ l.pc \in PC /\ l.state \in 0 .. reduced
      /\ l.batch \in 0 .. MaxActions /\ l.last \in 0 .. MaxActions
      /\ l.dimension \in Dimension /\ l.eventId \in 0 .. 2 * MaxActions + 1
      /\ l.actions \subseteq 1 .. Len(log) /\ l.nextRequestId \in 0 .. Len(requests)
      /\ l.result \subseteq Event
      /\ (l.pc = "store" => /\ l.eventId >= 1 /\ l.eventId <= 2 * l.batch + l.dimension
                            /\ (l.dimension = 2 => l.batch < l.last))
  BY DEF LocalRight
<1>2. /\ 0 .. reduced \subseteq 0 .. reduced' /\ 1 .. reduced \subseteq 1 .. reduced'
      /\ 1 .. Len(log) \subseteq 1 .. Len(log') /\ 0 .. Len(requests) \subseteq 0 .. Len(requests')
      /\ 0 .. Len(requests) - 1 \subseteq 0 .. Len(requests') - 1
      /\ Len(log) \in Nat /\ DOMAIN log = 1 .. Len(log)
  BY LogIs, RequestsAre DEF Grows
<1>3. l.state \in 0 .. reduced' /\ l.actions \subseteq 1 .. Len(log') /\ l.nextRequestId \in 0 .. Len(requests')
  BY <1>1, <1>2
<1>4. l.pc \in OverActions => /\ l.actions \subseteq 1 .. reduced'
                              /\ \A i \in l.actions : 1 .. i - 1 \subseteq active' \cup l.actions
  BY <1>2 DEF LocalRight, Grows
<1>5. \A i \in Reached(l.actions) : i \in DOMAIN log /\ log'[i] = log[i]
  BY <1>1, <1>2 DEF Reached, Grows
<1>6. l.pc = "saveRequest" => \A i \in Reached(l.actions) : log'[i] \in 0 .. Len(requests') - 1
  BY <1>2, <1>5 DEF LocalRight
<1>7. l.pc = "saveAction" => \A i \in Reached(l.actions) : Saved(i)'
  BY <1>5, SavedKeeps DEF LocalRight
<1> QED
  BY <1>1, <1>3, <1>4, <1>6, <1>7 DEF LocalRight, IsLocal, Reached

(* The creations keep their ids while the contract reduces more.           *)
LEMMA CreationsKeep ==
  ASSUME ChainRight, ChainRight', Grows, NEW S, S = Creates(1 .. reduced),
         NEW T, T = Creates(1 .. reduced)', NEW n \in DOMAIN InOrder(S)
  PROVE  n \in DOMAIN InOrder(T) /\ InOrder(T)[n] = InOrder(S)[n]
<1>1. /\ reduced \in Nat /\ reduced' \in Nat /\ reduced <= reduced'
      /\ 1 .. reduced \subseteq DOMAIN log /\ 1 .. reduced \subseteq 1 .. reduced'
  BY LogIs DEF Grows
<1>2. IsFiniteSet(T) /\ T \subseteq Nat
  <2>1. T \subseteq 1 .. reduced'
    BY DEF Creates
  <2> QED
    BY <1>1, <2>1, BoundedIs
<1>3. S \subseteq T
  BY <1>1 DEF Creates, Grows
<1>4. ASSUME NEW i \in S, NEW h \in T, h < i PROVE h \in S
  <2>1. i \in 1 .. reduced /\ h \in 1 .. reduced' /\ log'[h] = NewRequest
    BY DEF Creates
  <2>2. h \in 1 .. reduced
    BY <1>1, <1>4, <2>1
  <2>3. log[h] = NewRequest
    BY <1>1, <2>1, <2>2 DEF Grows
  <2> QED
    BY <2>2, <2>3 DEF Creates
<1> QED
  BY <1>2, <1>3, <1>4, InOrderPrefix

LEMMA RequestsKeep ==
  ASSUME ChainRight, ChainRight', ActiveRight, RequestsRight, Grows, UNCHANGED <<active, requests>>
  PROVE  RequestsRight'
<1>1. /\ reduced \in Nat /\ reduced' \in Nat /\ reduced <= reduced'
      /\ 1 .. reduced \subseteq DOMAIN log
      /\ 0 .. reduced \subseteq 0 .. reduced' /\ 1 .. reduced \subseteq 1 .. reduced'
  BY LogIs DEF Grows
<1>2. requests' \in Seq([create : 1 .. reduced', resolve : 0 .. reduced', result : SUBSET Event])
  <2> DEFINE D == [create : 1 .. reduced, resolve : 0 .. reduced, result : SUBSET Event]
             E == [create : 1 .. reduced', resolve : 0 .. reduced', result : SUBSET Event]
  <2>1. D \subseteq E
    BY <1>1
  <2>2. requests' \in Seq(D)
    BY DEF RequestsRight
  <2> HIDE DEF D, E
  <2>3. requests' \in Seq(E)
    BY <2>1, <2>2
  <2> QED
    BY <2>3 DEF E
<1>3. ASSUME NEW d \in DOMAIN requests
      PROVE  /\ d - 1 \in DOMAIN InOrder(Creates(1 .. reduced)')
             /\ requests[d].create = InOrder(Creates(1 .. reduced)')[d - 1]
             /\ (requests[d].resolve # 0 => log'[requests[d].resolve] = d - 1)
  <2>1. PICK S : S = Creates(1 .. reduced)
    OBVIOUS
  <2>2. PICK T : T = Creates(1 .. reduced)'
    OBVIOUS
  <2>3. /\ d - 1 \in DOMAIN InOrder(S) /\ requests[d].create = InOrder(S)[d - 1]
        /\ (requests[d].resolve # 0 => log[requests[d].resolve] = d - 1)
    BY <2>1 DEF RequestsRight, RequestsAreOnChain
  <2>4. d - 1 \in DOMAIN InOrder(T) /\ InOrder(T)[d - 1] = InOrder(S)[d - 1]
    BY <2>1, <2>2, <2>3, CreationsKeep
  <2>5. requests[d].resolve # 0 => log'[requests[d].resolve] = log[requests[d].resolve]
    <3>1. requests[d].resolve \in 0 .. reduced
      BY RequestsAre
    <3>2. requests[d].resolve # 0 => requests[d].resolve \in 1 .. reduced
      BY <1>1, <3>1
    <3> QED
      BY <1>1, <3>2 DEF Grows
  <2> QED
    BY <2>2, <2>3, <2>4, <2>5
<1>4. RequestsAreOnChain'
  <2>1. InOrder(Creates(1 .. reduced))' = InOrder(Creates(1 .. reduced)')
    OBVIOUS
  <2> QED
    BY <1>3, <2>1 DEF RequestsAreOnChain
<1>5. \A i \in active : log'[i] = log[i]
  BY ActiveIs DEF Grows
<1>6. Creates(active)' = Creates(active) /\ Resolves(active)' = Resolves(active)
  BY <1>5 DEF Creates, Resolves
<1>7. \A i \in Resolves(active) : Saved(i)'
  <2>1. \A i \in Resolves(active) : i \in DOMAIN log /\ Saved(i)
    BY ActiveIs DEF Resolves, RequestsRight
  <2> QED
    BY <2>1, SavedKeeps
<1> QED
  BY <1>2, <1>4, <1>6, <1>7 DEF RequestsRight

LEMMA StorageKeeps ==
  ASSUME ChainRight, ChainRight', StorageRight, Grows, storage' = storage
  PROVE  StorageRight'
<1>1. /\ reduced \in Nat /\ reduced' \in Nat /\ reduced <= reduced'
      /\ 1 .. reduced \subseteq DOMAIN log
      /\ 0 .. reduced \subseteq 0 .. reduced' /\ 1 .. reduced \subseteq 1 .. reduced'
  BY LogIs DEF Grows
<1>2. ASSUME NEW r \in DOMAIN storage
      PROVE  /\ storage[r] \in [create : 1 .. reduced', result : 0 .. reduced']
             /\ r \in DOMAIN InOrder(Creates(1 .. reduced)')
             /\ storage[r].create = InOrder(Creates(1 .. reduced)')[r]
             /\ storage[r].result \in {0} \cup ResolvesOf(r, 1 .. reduced)'
  <2>1. PICK S : S = Creates(1 .. reduced)
    OBVIOUS
  <2>2. PICK T : T = Creates(1 .. reduced)'
    OBVIOUS
  <2>3. /\ r \in DOMAIN InOrder(S) /\ storage[r].create = InOrder(S)[r]
        /\ storage[r].result \in {0} \cup ResolvesOf(r, 1 .. reduced)
        /\ storage[r] \in [create : 1 .. reduced, result : 0 .. reduced]
    BY <2>1 DEF StorageRight, LeavesAreBehind
  <2>4. r \in DOMAIN InOrder(T) /\ InOrder(T)[r] = InOrder(S)[r]
    BY <2>1, <2>2, <2>3, CreationsKeep
  <2>5. ResolvesOf(r, 1 .. reduced) \subseteq ResolvesOf(r, 1 .. reduced)'
    BY <1>1 DEF ResolvesOf, Grows
  <2> QED
    BY <1>1, <2>2, <2>3, <2>4, <2>5
<1>3. InOrder(Creates(1 .. reduced))' = InOrder(Creates(1 .. reduced)')
  OBVIOUS
<1> QED
  BY <1>2, <1>3 DEF StorageRight, LeavesAreBehind

(* A step that leaves the documents, and changes jobs.                     *)
LEMMA Quiet ==
  ASSUME Right, ChainRight', \A i \in DOMAIN log : i \in DOMAIN log' /\ log'[i] = log[i],
         reduced <= reduced', UNCHANGED <<active, requests>>
  PROVE  /\ Grows /\ ActiveRight' /\ RequestsRight'
         /\ (storage' = storage => StorageRight')
<1>0. ChainRight /\ ActiveRight /\ RequestsRight /\ StorageRight
  BY DEF Right
<1>1. /\ Len(log') \in Nat /\ reduced' \in 0 .. Len(log') /\ DOMAIN log' = 1 .. Len(log')
      /\ Len(log) \in Nat /\ DOMAIN log = 1 .. Len(log)
  BY <1>0, LogIs DEF ChainRight
<1>2. Len(log) <= Len(log')
  <2>1. Len(log) # 0 => Len(log) \in DOMAIN log'
    BY <1>1
  <2> QED
    BY <1>1, <2>1
<1>3. Grows
  BY <1>0, <1>1, <1>2, RequestsAre DEF Grows
<1>4. ActiveRight'
  <2>1. 0 .. reduced \subseteq 0 .. reduced'
    BY <1>0, <1>1, LogIs
  <2> QED
    BY <1>0, <2>1 DEF ActiveRight
<1> QED
  BY <1>0, <1>3, <1>4, RequestsKeep, StorageKeeps

LEMMA JobsKeep ==
  ASSUME ChainRight, RequestsRight, Grows, job' = [k \in Job |-> job'[k]],
         \A k \in Job : LocalRight(job'[k])
  PROVE  JobsRight'
<1>1. \A k \in Job : LocalRight(job[k])'
  BY LocalKeeps
<1> QED
  BY <1>1 DEF JobsRight

(* A step that leaves the documents and the trees.                         *)
LEMMA Aside ==
  ASSUME Right, ChainRight', \A i \in DOMAIN log : i \in DOMAIN log' /\ log'[i] = log[i],
         reduced <= reduced', UNCHANGED <<events, active, requests>>,
         storage' = storage \/ storage' = <<>>,
         job' = [k \in Job |-> job'[k]], \A k \in Job : LocalRight(job'[k]), steady' \in BOOLEAN
  PROVE  Right'
<1>1. /\ Grows /\ ActiveRight' /\ RequestsRight'
      /\ (storage' = storage => StorageRight')
  BY Quiet
<1>2. JobsRight'
  BY <1>1, JobsKeep DEF Right
<1>3. StorageRight'
  <2>1. CASE storage' = <<>>
    BY <2>1 DEF StorageRight, LeavesAreBehind
  <2> QED
    BY <1>1, <2>1
<1>4. EventsRight'
  BY DEF Right, EventsRight
<1> QED
  BY <1>1, <1>2, <1>3, <1>4 DEF Right

(* A step of one job.                                                      *)
LEMMA JobOnly ==
  ASSUME Right, NEW j \in Job, UNCHANGED <<chainVars, events, active, requests, actionState, storage>>,
         NEW m, job' = [job EXCEPT ![j] = m], LocalRight(m), steady' \in BOOLEAN
  PROVE  Right'
<1>1. ChainRight' /\ log' = log /\ reduced' = reduced
  BY DEF Right, ChainRight, chainVars
<1>2. job' = [k \in Job |-> job'[k]] /\ \A k \in Job : LocalRight(job'[k])
  BY DEF Right, JobsRight
<1>3. reduced <= reduced'
  BY <1>1, LogIs DEF Right
<1> QED
  BY <1>1, <1>2, <1>3, Aside


-----------------------------------------------------------------------------
(***************************************************************************)
(* Right: the contract, and fetchRequestEvents().                          *)
(***************************************************************************)
LEMMA IdleRight ==
  ASSUME Right, NEW label \in PC \ (OverActions \cup {"store"})
  PROVE  LocalRight([Idle EXCEPT !.pc = label]) /\ LocalRight(Idle)
<1>1. /\ 0 \in 0 .. reduced /\ 0 \in 0 .. Len(requests) /\ 0 \in 0 .. MaxActions
      /\ 0 \in 0 .. 2 * MaxActions + 1 /\ 1 \in Dimension
  BY LogIs, RequestsAre, Bounds DEF Right, Dimension
<1>2. "idle" \in PC \ (OverActions \cup {"store"})
  BY DEF PC, OverActions
<1>3. ASSUME NEW label2 \in PC \ (OverActions \cup {"store"}) PROVE LocalRight([Idle EXCEPT !.pc = label2])
  <2>1. PICK m : m = [Idle EXCEPT !.pc = label2]
    OBVIOUS
  <2>2. /\ m.pc = label2 /\ m.state = 0 /\ m.batch = 0 /\ m.last = 0 /\ m.dimension = 1
        /\ m.eventId = 0 /\ m.actions = {} /\ m.nextRequestId = 0 /\ m.result = {} /\ IsLocal(m)
    BY <2>1 DEF Idle, NoEvents, IsLocal
  <2>3. label2 # "store" /\ label2 \notin OverActions
    OBVIOUS
  <2>4. label2 # "saveRequest" /\ label2 # "saveAction"
    BY <2>3 DEF OverActions
  <2>5. LocalRight(m)
    BY <1>1, <2>2, <2>3, <2>4 DEF LocalRight
  <2> QED
    BY <2>1, <2>5
<1>4. Idle = [Idle EXCEPT !.pc = "idle"]
  BY DEF Idle
<1>5. LocalRight([Idle EXCEPT !.pc = "idle"])
  BY <1>2, <1>3
<1> QED
  BY <1>3, <1>4, <1>5

LEMMA Moved ==
  ASSUME NEW l, LocalRight(l), NEW label \in PC \ (OverActions \cup {"store"})
  PROVE  LocalRight([l EXCEPT !.pc = label])
<1>1. PICK m : m = [l EXCEPT !.pc = label]
  OBVIOUS
<1>2. /\ m.pc = label /\ m.state = l.state /\ m.batch = l.batch /\ m.last = l.last
      /\ m.dimension = l.dimension /\ m.eventId = l.eventId /\ m.actions = l.actions
      /\ m.nextRequestId = l.nextRequestId /\ m.result = l.result /\ IsLocal(m)
  BY <1>1 DEF LocalRight, IsLocal
<1>3. label # "store" /\ label \notin OverActions
  OBVIOUS
<1>4. label # "saveRequest" /\ label # "saveAction"
  BY <1>3 DEF OverActions
<1>5. LocalRight(m)
  BY <1>2, <1>3, <1>4 DEF LocalRight
<1> QED
  BY <1>1, <1>5

LEMMA Labels ==
  ASSUME NEW j
  PROVE  /\ AfterPass(j) \in PC \ (OverActions \cup {"store"})
         /\ {"idle", "fetchEvents", "find", "findRequests", "updated", "fetchState", "clone", "send"}
              \subseteq PC \ (OverActions \cup {"store"})
BY DEF AfterPass, PC, OverActions

LEMMA GotoRight ==
  ASSUME Right, NEW j \in Job, NEW label \in PC \ (OverActions \cup {"store"}), Goto(j, label),
         UNCHANGED <<chainVars, events, active, requests, actionState, storage>>, steady' \in BOOLEAN
  PROVE  Right'
<1>1. PICK l : l = job[j]
  OBVIOUS
<1>2. LocalRight(l)
  BY <1>1 DEF Right, JobsRight
<1>3. PICK m : m = [l EXCEPT !.pc = label]
  OBVIOUS
<1>4. LocalRight(m)
  BY <1>2, <1>3, Moved
<1>5. job' = [job EXCEPT ![j] = m]
  BY <1>1, <1>3 DEF Goto
<1> QED
  BY <1>4, <1>5, JobOnly

LEMMA BackRight ==
  ASSUME Right, NEW j \in Job, NEW label \in PC \ (OverActions \cup {"store"}),
         job' = [job EXCEPT ![j] = [Idle EXCEPT !.pc = label]],
         UNCHANGED <<chainVars, events, active, requests, actionState, storage>>, steady' \in BOOLEAN
  PROVE  Right'
<1>1. PICK m : m = [Idle EXCEPT !.pc = label]
  OBVIOUS
<1>2. LocalRight(m)
  BY <1>1, IdleRight
<1>3. job' = [job EXCEPT ![j] = m]
  BY <1>1
<1> QED
  BY <1>2, <1>3, JobOnly

LEMMA ReturnRight ==
  ASSUME Right, NEW j \in Job, Return(j),
         UNCHANGED <<chainVars, events, active, requests, actionState, storage>>, steady' \in BOOLEAN
  PROVE  Right'
<1>1. Idle = [Idle EXCEPT !.pc = "idle"]
  BY DEF Idle
<1>2. job' = [job EXCEPT ![j] = [Idle EXCEPT !.pc = "idle"]]
  BY <1>1 DEF Return
<1>3. "idle" \in PC \ (OverActions \cup {"store"})
  BY Labels
<1> QED
  BY <1>2, <1>3, BackRight

LEMMA RetryRight ==
  ASSUME Right, NEW j \in Job, Retry(j), steady' \in BOOLEAN
  PROVE  Right'
<1>1. UNCHANGED <<chainVars, events, active, requests, actionState, storage>>
  BY DEF Retry
<1>2. PICK label \in {"idle", AfterPass(j)} : job' = [job EXCEPT ![j] = [Idle EXCEPT !.pc = label]]
  BY DEF Retry
<1>3. label \in PC \ (OverActions \cup {"store"})
  BY <1>2, Labels
<1> QED
  BY <1>1, <1>2, <1>3, BackRight

LEMMA DispatchRight ==
  ASSUME Right, NEW r \in {NewRequest} \cup 0 .. MaxActions - 1, Dispatch(r)
  PROVE  Right'
<1>1. /\ Len(log) < MaxActions /\ log' = Append(log, r)
      /\ UNCHANGED <<reduced, events, active, requests, actionState, storage, job, steady>>
  BY DEF Dispatch
<1>2. ChainRight /\ Len(log) \in Nat /\ DOMAIN log = 1 .. Len(log)
  BY LogIs DEF Right
<1>3. /\ Len(log') = Len(log) + 1 /\ DOMAIN log' = 1 .. Len(log) + 1
      /\ log' \in Seq({NewRequest} \cup 0 .. MaxActions - 1)
      /\ \A i \in DOMAIN log : i \in DOMAIN log' /\ log'[i] = log[i]
  <2> DEFINE D == {NewRequest} \cup 0 .. MaxActions - 1
  <2>1. log \in Seq(D) /\ r \in D
    BY <1>2 DEF ChainRight
  <2> HIDE DEF D
  <2>2. /\ Len(log') = Len(log) + 1 /\ DOMAIN log' = 1 .. Len(log) + 1 /\ log' \in Seq(D)
        /\ \A i \in DOMAIN log : i \in DOMAIN log' /\ log'[i] = log[i]
    BY <1>1, <1>2, <2>1
  <2> QED
    BY <2>2 DEF D
<1>4. ChainRight'
  <2>1. Len(log') <= MaxActions
    BY <1>1, <1>2, <1>3, Bounds
  <2>2. reduced' \in 0 .. Len(log')
    BY <1>1, <1>2, <1>3, LogIs
  <2>3. actionState' \in [Process -> 0 .. reduced']
    BY <1>1, <1>2 DEF ChainRight
  <2> QED
    BY <1>3, <2>1, <2>2, <2>3 DEF ChainRight
<1>5. reduced <= reduced'
  BY <1>1, <1>2, LogIs
<1>6. job' = [k \in Job |-> job'[k]] /\ (\A k \in Job : LocalRight(job'[k])) /\ steady' \in BOOLEAN
  BY <1>1 DEF Right, JobsRight
<1> QED
  BY <1>1, <1>3, <1>4, <1>5, <1>6, Aside

LEMMA ReduceRight ==
  ASSUME Right, NEW n \in 1 .. Len(log), ReduceElsewhere(n)
  PROVE  Right'
<1>1. /\ n > reduced /\ reduced' = n
      /\ UNCHANGED <<log, events, active, requests, actionState, storage, job, steady>>
  BY DEF ReduceElsewhere
<1>2. /\ ChainRight /\ Len(log) \in Nat /\ reduced \in Nat /\ n \in Nat /\ n <= Len(log)
      /\ \A p \in Process : actionState[p] \in Nat /\ actionState[p] <= reduced
  BY LogIs DEF Right
<1>3. ChainRight'
  <2>1. reduced' \in 0 .. Len(log') /\ 0 .. reduced \subseteq 0 .. reduced'
    BY <1>1, <1>2
  <2> QED
    BY <1>1, <1>2, <2>1 DEF ChainRight
<1>4. job' = [k \in Job |-> job'[k]] /\ (\A k \in Job : LocalRight(job'[k])) /\ steady' \in BOOLEAN
  BY <1>1 DEF Right, JobsRight
<1>5. reduced <= reduced'
  BY <1>1, <1>2
<1> QED
  BY <1>1, <1>3, <1>4, <1>5, Aside

LEMMA FetchStateRight ==
  ASSUME Right, NEW j \in Job, NEW n \in 0 .. MaxActions, FetchState(j, n)
  PROVE  Right'
<1>1. /\ n \in 0 .. reduced /\ actionState' = [actionState EXCEPT ![Home[j]] = n]
      /\ Goto(j, "fetchEvents") /\ steady' \in BOOLEAN
      /\ UNCHANGED <<log, reduced, events, active, requests, storage>>
  BY DEF FetchState, chainVars, Right
<1>2. ChainRight /\ reduced \in Nat
  BY LogIs DEF Right
<1>3. ChainRight' /\ reduced <= reduced'
  BY <1>1, <1>2, Bounds DEF ChainRight
<1>4. PICK l : l = job[j]
  OBVIOUS
<1>5. LocalRight(l)
  BY <1>4 DEF Right, JobsRight
<1>6. PICK m : m = [l EXCEPT !.pc = "fetchEvents"]
  OBVIOUS
<1>7. LocalRight(m)
  BY <1>5, <1>6, Moved, Labels
<1>8. job' = [job EXCEPT ![j] = m]
  BY <1>1, <1>4, <1>6 DEF Goto
<1>9. job' = [k \in Job |-> job'[k]] /\ \A k \in Job : LocalRight(job'[k])
  BY <1>7, <1>8 DEF Right, JobsRight
<1> QED
  BY <1>1, <1>3, <1>9, Aside

LEMMA EventsAre ==
  ASSUME EventsRight
  PROVE  /\ Len(events) \in Nat /\ DOMAIN events = 1 .. Len(events)
         /\ \A e \in DOMAIN events :
              /\ events[e] \in Event /\ events[e].batch \in 0 .. MaxActions - 1
              /\ events[e].dimension \in Dimension
              /\ events[e] = [batch |-> events[e].batch, dimension |-> events[e].dimension]
              /\ e <= 2 * events[e].batch + events[e].dimension
<1>1. Len(events) \in Nat /\ DOMAIN events = 1 .. Len(events)
  BY DEF EventsRight
<1>2. \A e \in DOMAIN events : events[e] \in Event
  <2>1. events \in Seq(Event)
    BY DEF EventsRight
  <2> QED
    BY <2>1
<1>3. \A e \in DOMAIN events :
        /\ events[e].batch \in 0 .. MaxActions - 1 /\ events[e].dimension \in Dimension
        /\ events[e] = [batch |-> events[e].batch, dimension |-> events[e].dimension]
  BY <1>2 DEF Event
<1> QED
  BY <1>1, <1>2, <1>3 DEF EventsRight

(* The batch after the last event, and the number of the next event.       *)
LEMMA NextBatchIs ==
  ASSUME EventsRight
  PROVE  /\ NextBatch \in 0 .. MaxActions /\ Len(events) + 1 <= 2 * NextBatch + 1
         /\ Len(events) + 1 \in 1 .. 2 * MaxActions + 1
<1>1. CASE events = <<>>
  BY <1>1, Bounds DEF NextBatch
<1>2. CASE events # <<>>
  <2>1. Len(events) \in Nat /\ Len(events) # 0 /\ DOMAIN events = 1 .. Len(events)
    BY <1>2, EventsAre DEF EventsRight
  <2>2. Len(events) \in DOMAIN events
    BY <2>1
  <2>3. PICK b, k : b = events[Len(events)].batch /\ k = events[Len(events)].dimension
    OBVIOUS
  <2>4. b \in 0 .. MaxActions - 1 /\ k \in Dimension /\ Len(events) <= 2 * b + k
    BY <2>2, <2>3, EventsAre
  <2>5. NextBatch = b + 1
    BY <1>2, <2>3 DEF NextBatch
  <2>6. k = 1 \/ k = 2
    BY <2>4 DEF Dimension
  <2> QED
    BY <2>1, <2>4, <2>5, <2>6, Bounds
<1> QED
  BY <1>1, <1>2

LEMMA FetchEventsRight ==
  ASSUME Right, NEW j \in Job, NEW n \in 0 .. MaxActions, FetchEvents(j, n)
  PROVE  Right'
<1>1. PICK l : l = job[j]
  OBVIOUS
<1>2. PICK b, x : b = NextBatch /\ x = Len(events) + 1
  OBVIOUS
<1>3. PICK m : m = [l EXCEPT !.pc = "store", !.batch = b, !.last = n, !.dimension = 1, !.eventId = x]
  OBVIOUS
<1>4. job' = [job EXCEPT ![j] = m]
  BY <1>1, <1>2, <1>3 DEF FetchEvents
<1>5. LocalRight(l)
  BY <1>1 DEF Right, JobsRight
<1>6. /\ m.pc = "store" /\ m.state = l.state /\ m.batch = b /\ m.last = n
      /\ m.dimension = 1 /\ m.eventId = x /\ m.actions = l.actions
      /\ m.nextRequestId = l.nextRequestId /\ m.result = l.result /\ IsLocal(m)
  BY <1>3, <1>5 DEF LocalRight, IsLocal
<1>7. /\ b \in 0 .. MaxActions /\ x <= 2 * b + 1 /\ x \in 1 .. 2 * MaxActions + 1
  BY <1>2, NextBatchIs DEF Right
<1>8. x \in 0 .. 2 * MaxActions + 1 /\ x >= 1 /\ 1 \in Dimension /\ 1 # 2 /\ "store" \notin OverActions /\ "store" \in PC
  BY <1>7, Bounds DEF Dimension, OverActions, PC
<1>9. LocalRight(m)
  BY <1>5, <1>6, <1>7, <1>8 DEF LocalRight
<1>10. UNCHANGED <<chainVars, events, active, requests, actionState, storage>> /\ steady' \in BOOLEAN
  BY DEF FetchEvents, Right
<1> QED
  BY <1>4, <1>9, <1>10, JobOnly

LEMMA AsSeq ==
  ASSUME NEW n \in Nat, NEW S, NEW f \in [1 .. n -> S]
  PROVE  f \in Seq(S) /\ Len(f) = n /\ DOMAIN f = 1 .. n
<1>1. DOMAIN f = 1 .. n
  OBVIOUS
<1>2. f \in Seq(S)
  OBVIOUS
<1> QED
  BY <1>1, <1>2

(* The events after one is stored.                                         *)
LEMMA StoredEvents ==
  ASSUME EventsRight, NEW x, x \in 1 .. Len(events) + 1, NEW event, event \in Event,
         x <= 2 * event.batch + event.dimension,
         events' = [e \in 1 .. Len(events) \cup {x} |-> IF e = x THEN event ELSE events[e]]
  PROVE  /\ EventsRight' /\ Len(events') \in Nat /\ Len(events) <= Len(events') /\ x <= Len(events')
         /\ Len(events') = IF x = Len(events) + 1 THEN x ELSE Len(events)
         /\ events'[x] = event
         /\ \A e \in DOMAIN events : e # x => e \in DOMAIN events' /\ events'[e] = events[e]
         /\ \A e \in DOMAIN events' : e # x => e \in DOMAIN events
<1> DEFINE n == IF x = Len(events) + 1 THEN x ELSE Len(events)
<1>1. Len(events) \in Nat /\ DOMAIN events = 1 .. Len(events) /\ \A e \in DOMAIN events : events[e] \in Event
  BY EventsAre
<1>2. n \in Nat /\ x \in 1 .. n /\ 1 .. Len(events) \cup {x} = 1 .. n
  BY <1>1
<1>3. events' = [e \in 1 .. n |-> IF e = x THEN event ELSE events[e]]
  BY <1>2
<1>4. \A e \in 1 .. n : e # x => e \in 1 .. Len(events)
  BY <1>2
<1> HIDE DEF n
<1>5. events' \in Seq(Event) /\ Len(events') = n /\ DOMAIN events' = 1 .. n
  <2>1. \A e \in 1 .. n : (IF e = x THEN event ELSE events[e]) \in Event
    BY <1>1, <1>4
  <2>2. events' \in [1 .. n -> Event]
    BY <1>3, <2>1
  <2>3. PICK f : f = events'
    OBVIOUS
  <2> QED
    BY <1>2, <2>2, <2>3, AsSeq
<1>6. ASSUME NEW e \in 1 .. n PROVE e <= 2 * events'[e].batch + events'[e].dimension
  <2>1. CASE e = x
    BY <1>3, <2>1
  <2>2. CASE e # x
    <3>1. e \in DOMAIN events /\ events'[e] = events[e]
      BY <1>1, <1>3, <1>4, <2>2
    <3> QED
      BY <3>1, EventsAre
  <2> QED
    BY <2>1, <2>2
<1>7. EventsRight'
  BY <1>5, <1>6 DEF EventsRight
<1>8. Len(events) <= n /\ x <= n
  BY <1>1 DEF n
<1>9. \A e \in DOMAIN events : e # x => e \in DOMAIN events' /\ events'[e] = events[e]
  BY <1>1, <1>2, <1>3, <1>5
<1>10. \A e \in DOMAIN events' : e # x => e \in DOMAIN events
  BY <1>1, <1>4, <1>5
<1>11. events'[x] = event
  BY <1>2, <1>3
<1> QED
  BY <1>2, <1>5, <1>7, <1>8, <1>9, <1>10, <1>11 DEF n

(* A step of one job that changes events or documents.                     *)
LEMMA Forward ==
  ASSUME Right, Grows, UNCHANGED <<chainVars, actionState, storage>>,
         EventsRight', ActiveRight', RequestsRight',
         NEW j \in Job, NEW m, job' = [job EXCEPT ![j] = m], LocalRight(m)', steady' \in BOOLEAN
  PROVE  Right'
<1>1. ChainRight /\ RequestsRight /\ StorageRight /\ JobsRight
  BY DEF Right
<1>2. ChainRight'
  BY <1>1 DEF ChainRight, chainVars
<1>3. StorageRight'
  BY <1>1, <1>2, StorageKeeps
<1>4. ASSUME NEW k \in Job PROVE LocalRight(job[k])'
  <2>1. CASE k = j
    <3>1. job'[k] = m
      BY <1>1, <2>1 DEF JobsRight
    <3> QED
      BY <3>1
  <2>2. CASE k # j
    <3>1. job'[k] = job[k] /\ LocalRight(job[k])
      BY <1>1, <2>2 DEF JobsRight
    <3>2. PICK l : l = job[k]
      OBVIOUS
    <3>3. LocalRight(l)'
      BY <1>1, <3>1, <3>2, LocalKeeps
    <3> QED
      BY <3>1, <3>2, <3>3
  <2> QED
    BY <2>1, <2>2
<1>5. job' = [k \in Job |-> job'[k]]
  BY <1>1 DEF JobsRight
<1> QED
  BY <1>2, <1>3, <1>4, <1>5 DEF Right, JobsRight

LEMMA SameGrows ==
  ASSUME Right, UNCHANGED <<chainVars, active, requests, actionState>>
  PROVE  Grows /\ ActiveRight' /\ RequestsRight'
<1>1. ChainRight' /\ log' = log /\ reduced' = reduced
  BY DEF Right, ChainRight, chainVars
<1>2. reduced <= reduced'
  BY <1>1, LogIs DEF Right
<1> QED
  BY <1>1, <1>2, Quiet

LEMMA StoreEventRight ==
  ASSUME Right, NEW j \in Job, StoreEvent(j)
  PROVE  Right'
<1>1. PICK l : l = job[j]
  OBVIOUS
<1>2. LocalRight(l) /\ l.pc = "store" /\ l.batch < l.last
  BY <1>1 DEF Right, JobsRight, StoreEvent, EventsLeft
<1>3. PICK x, b, k : x = l.eventId /\ b = l.batch /\ k = l.dimension
  OBVIOUS
<1>4. /\ x \in 0 .. 2 * MaxActions + 1 /\ b \in 0 .. MaxActions /\ k \in Dimension
      /\ x >= 1 /\ x <= 2 * b + k /\ b \in 0 .. MaxActions - 1
  <2>1. l.last \in 0 .. MaxActions
    BY <1>2 DEF LocalRight
  <2>2. /\ x \in 0 .. 2 * MaxActions + 1 /\ b \in 0 .. MaxActions /\ k \in Dimension
        /\ x >= 1 /\ x <= 2 * b + k /\ b < l.last
    BY <1>2, <1>3 DEF LocalRight
  <2> QED
    BY <2>1, <2>2, Bounds
<1>5. PICK event : event = [batch |-> b, dimension |-> k]
  OBVIOUS
<1>6. event \in Event /\ event.batch = b /\ event.dimension = k
  BY <1>4, <1>5 DEF Event
<1>7. EventsRight /\ Len(events) \in Nat
  BY EventsAre DEF Right
<1>8. x \in 1 .. Len(events) + 1
  <2>1. x = Len(events) + 1 \/ x <= Len(events)
    BY <1>1, <1>3 DEF StoreEvent, Upserts
  <2> QED
    BY <1>4, <1>7, <2>1
<1>9. events' = [e \in 1 .. Len(events) \cup {x} |-> IF e = x THEN event ELSE events[e]]
  BY <1>1, <1>3, <1>5 DEF StoreEvent
<1>10. EventsRight'
  BY <1>4, <1>6, <1>7, <1>8, <1>9, StoredEvents
<1>11. PICK x2, b2, k2 : /\ x2 = x + 1 /\ k2 = (IF k = 1 THEN 2 ELSE 1)
                         /\ b2 = (IF k = 1 THEN b ELSE b + 1)
  OBVIOUS
<1>12. PICK m : m = [l EXCEPT !.eventId = x2, !.dimension = k2, !.batch = b2]
  OBVIOUS
<1>13. job' = [job EXCEPT ![j] = m]
  <2>1. job' = [job EXCEPT ![j] = [l EXCEPT !.eventId = @ + 1, !.dimension = IF @ = 1 THEN 2 ELSE 1,
                                            !.batch = IF l.dimension = 1 THEN @ ELSE @ + 1]]
    BY <1>1 DEF StoreEvent, AfterEvent
  <2>2. [l EXCEPT !.eventId = @ + 1, !.dimension = IF @ = 1 THEN 2 ELSE 1,
                  !.batch = IF l.dimension = 1 THEN @ ELSE @ + 1] = m
    BY <1>3, <1>11, <1>12
  <2> QED
    BY <2>1, <2>2
<1>14. /\ m.pc = "store" /\ m.state = l.state /\ m.batch = b2 /\ m.last = l.last
       /\ m.dimension = k2 /\ m.eventId = x2 /\ m.actions = l.actions
       /\ m.nextRequestId = l.nextRequestId /\ m.result = l.result /\ IsLocal(m)
  BY <1>2, <1>12 DEF LocalRight, IsLocal
<1>15. k = 1 \/ k = 2
  BY <1>4 DEF Dimension
<1>16. /\ x2 \in 0 .. 2 * MaxActions + 1 /\ x2 >= 1 /\ b2 \in 0 .. MaxActions
       /\ x2 <= 2 * b2 + k2 /\ (k2 = 2 => b2 = b)
  <2>1. CASE k = 1
    BY <1>4, <1>11, <2>1, Bounds
  <2>2. CASE k = 2
    BY <1>4, <1>11, <2>2, Bounds
  <2> QED
    BY <1>15, <2>1, <2>2
<1>17. k2 \in Dimension /\ "store" \notin OverActions
  BY <1>11, <1>15 DEF Dimension, OverActions
<1>18. m.dimension = 2 => m.batch < m.last
  BY <1>2, <1>3, <1>14, <1>16
<1>19. LocalRight(m)
  BY <1>2, <1>14, <1>16, <1>17, <1>18 DEF LocalRight
<1>20. /\ UNCHANGED <<chainVars, active, requests, actionState, storage, steady>>
       /\ steady \in BOOLEAN /\ ChainRight /\ RequestsRight
  BY DEF StoreEvent, Right
<1>21. Grows /\ ActiveRight' /\ RequestsRight'
  BY <1>20, SameGrows
<1>22. LocalRight(m)'
  BY <1>19, <1>20, <1>21, LocalKeeps
<1> QED
  BY <1>10, <1>13, <1>20, <1>21, <1>22, Forward

-----------------------------------------------------------------------------
(***************************************************************************)
(* Right: updateRequestActions().                                          *)
(***************************************************************************)
LEMMA FindRight ==
  ASSUME Right, NEW j \in Job, Find(j)
  PROVE  Right'
<1>1. PICK l : l = job[j]
  OBVIOUS
<1>2. PICK n : n = actionState[Home[j]]
  OBVIOUS
<1>3. PICK ids : ids = NotActive(n)
  OBVIOUS
<1>4. PICK m : m = [l EXCEPT !.pc = "findLatest", !.actions = ids]
  OBVIOUS
<1>5. job' = [job EXCEPT ![j] = m]
  BY <1>1, <1>2, <1>3, <1>4 DEF Find
<1>6. LocalRight(l)
  BY <1>1 DEF Right, JobsRight
<1>7. n \in Nat /\ n <= reduced /\ reduced \in Nat /\ reduced <= Len(log) /\ Len(log) \in Nat
  BY <1>2, LogIs, Bounds DEF Right
<1>8. ids \subseteq 1 .. n /\ ids \subseteq 1 .. reduced /\ ids \subseteq 1 .. Len(log)
  BY <1>3, <1>7 DEF NotActive
<1>9. \A i \in ids : 1 .. i - 1 \subseteq active \cup ids
  <2> SUFFICES ASSUME NEW i \in ids, NEW h \in 1 .. i - 1, h \notin active PROVE h \in ids
    OBVIOUS
  <2>1. h \in 1 .. n
    BY <1>7, <1>8
  <2> QED
    BY <1>3, <2>1 DEF NotActive
<1>10. /\ m.pc = "findLatest" /\ m.state = l.state /\ m.batch = l.batch /\ m.last = l.last
       /\ m.dimension = l.dimension /\ m.eventId = l.eventId /\ m.actions = ids
       /\ m.nextRequestId = l.nextRequestId /\ m.result = l.result /\ IsLocal(m)
  BY <1>4, <1>6 DEF LocalRight, IsLocal
<1>11. LocalRight(m)
  BY <1>6, <1>8, <1>9, <1>10 DEF LocalRight, PC
<1>12. UNCHANGED <<chainVars, events, active, requests, actionState, storage>> /\ steady' \in BOOLEAN
  BY DEF Find, Right
<1> QED
  BY <1>5, <1>11, <1>12, JobOnly

LEMMA FindLatestRight ==
  ASSUME Right, NEW j \in Job, FindLatest(j)
  PROVE  Right'
<1>1. PICK l : l = job[j]
  OBVIOUS
<1>2. PICK n : n = Len(requests)
  OBVIOUS
<1>3. PICK m : m = [l EXCEPT !.pc = "next", !.nextRequestId = n]
  OBVIOUS
<1>4. job' = [job EXCEPT ![j] = m]
  BY <1>1, <1>2, <1>3 DEF FindLatest
<1>5. LocalRight(l) /\ l.pc = "findLatest"
  BY <1>1 DEF Right, JobsRight, FindLatest
<1>6. /\ m.pc = "next" /\ m.state = l.state /\ m.batch = l.batch /\ m.last = l.last
      /\ m.dimension = l.dimension /\ m.eventId = l.eventId /\ m.actions = l.actions
      /\ m.nextRequestId = n /\ m.result = l.result /\ IsLocal(m)
  BY <1>3, <1>5 DEF LocalRight, IsLocal
<1>7. n \in 0 .. Len(requests)
  BY <1>2, RequestsAre DEF Right
<1>8. LocalRight(m)
  BY <1>5, <1>6, <1>7 DEF LocalRight, PC, OverActions
<1>9. UNCHANGED <<chainVars, events, active, requests, actionState, storage>> /\ steady' \in BOOLEAN
  BY DEF FindLatest, Right
<1> QED
  BY <1>4, <1>8, <1>9, JobOnly

(* The first action a pass has left: what is before it is active.          *)
LEMMA FirstIs ==
  ASSUME Right, NEW l, LocalRight(l), l.pc \in OverActions, NEW i \in Reached(l.actions)
  PROVE  /\ Reached(l.actions) = {i} /\ i \in l.actions /\ i \in 1 .. reduced /\ i \in DOMAIN log
         /\ i \in Nat /\ 1 .. i - 1 \subseteq active
         /\ \A h \in l.actions : i <= h
<1>1. /\ l.actions \subseteq 1 .. reduced /\ reduced \in Nat /\ 1 .. reduced \subseteq DOMAIN log
      /\ \A h \in l.actions : 1 .. h - 1 \subseteq active \cup l.actions
  BY LogIs DEF LocalRight, Right
<1>2. PICK first \in l.actions : Reached(l.actions) = {first} /\ \A h \in l.actions : first <= h
  BY <1>1, ReachedIs
<1>3. i = first
  BY <1>2
<1>4. 1 .. i - 1 \subseteq active
  <2> SUFFICES ASSUME NEW h \in 1 .. i - 1, h \in l.actions PROVE FALSE
    BY <1>1, <1>2, <1>3
  <2>1. i <= h
    BY <1>2, <1>3
  <2>2. i \in Nat
    BY <1>1, <1>2, <1>3
  <2> QED
    BY <2>1, <2>2
<1> QED
  BY <1>1, <1>2, <1>3, <1>4

(* A creation without a document comes next.                               *)
LEMMA NextDocument ==
  ASSUME ChainRight, ActiveRight, RequestsRight, NEW i \in 1 .. reduced, log[i] = NewRequest,
         1 .. i - 1 \subseteq active, \A d \in DOMAIN requests : requests[d].create # i
  PROVE  /\ Len(requests) \in DOMAIN InOrder(Creates(1 .. reduced))
         /\ InOrder(Creates(1 .. reduced))[Len(requests)] = i
         /\ Cardinality(Creates(1 .. i - 1)) = Len(requests)
         /\ Cardinality(Creates(1 .. i)) = Len(requests) + 1
<1> DEFINE k == Cardinality(Creates(1 .. i - 1))
<1>0. reduced \in Nat /\ i \in Nat /\ i - 1 \in Nat /\ (i - 1) + 1 = i
  BY LogIs
<1>1. PICK S : S = Creates(1 .. reduced)
  OBVIOUS
<1>2. IsFiniteSet(S) /\ S \subseteq Nat /\ i \in S
  <2>1. IsFiniteSet(Creates(1 .. reduced)) /\ Creates(1 .. reduced) \subseteq Nat
    BY <1>0, KindsAre
  <2> QED
    BY <1>1, <2>1 DEF Creates
<1>3. Below(S, i) = Creates(1 .. i - 1)
  BY <1>0, <1>1 DEF Below, Creates
<1>4. k \in DOMAIN InOrder(S) /\ InOrder(S)[k] = i
  BY <1>2, <1>3, InOrderIs
<1>5. k \in Nat
  BY <1>0, KindsAre
<1>6. k <= Len(requests)
  <2>1. PICK ids : ids = active
    OBVIOUS
  <2>2. ids \subseteq 1 .. reduced /\ Cardinality(Creates(ids)) <= Len(requests)
    BY <2>1, ActiveIs DEF RequestsRight
  <2>3. k <= Cardinality(Creates(ids))
    BY <1>0, <2>1, <2>2, KindsGrow
  <2>4. Cardinality(Creates(ids)) \in Nat
    BY <1>0, <2>2, KindsAre
  <2> HIDE DEF k
  <2> QED
    BY <1>5, <2>2, <2>3, <2>4, RequestsAre
<1>7. ~ (k < Len(requests))
  <2> SUFFICES ASSUME k < Len(requests) PROVE FALSE
    OBVIOUS
  <2>1. k + 1 \in DOMAIN requests /\ (k + 1) - 1 = k
    <3> HIDE DEF k
    <3> QED
      BY <1>5, RequestsAre
  <2>2. requests[k + 1].create = InOrder(S)[k]
    <3> HIDE DEF k
    <3> QED
      BY <1>1, <2>1 DEF RequestsRight, RequestsAreOnChain
  <2> QED
    BY <1>4, <2>1, <2>2
<1>8. k = Len(requests)
  <2> HIDE DEF k
  <2> QED
    BY <1>5, <1>6, <1>7, RequestsAre
<1>9. Cardinality(Creates(1 .. i)) = k + 1
  <2> HIDE DEF k
  <2>1. log[(i - 1) + 1] = NewRequest
    BY <1>0
  <2>2. Cardinality(Creates(1 .. (i - 1) + 1)) = Cardinality(Creates(1 .. i - 1)) + 1
    BY <1>0, <2>1, KindsNext
  <2> QED
    BY <1>0, <2>2 DEF k
<1> QED
  BY <1>1, <1>4, <1>8, <1>9

LEMMA CreateRight ==
  ASSUME Right, NEW j \in Job, Create(j)
  PROVE  Right' /\ Grows
<1>1. PICK l : l = job[j]
  OBVIOUS
<1>2. PICK i \in Reached(l.actions) :
        /\ log[i] = NewRequest /\ Admits(j, i)
        /\ requests' = Append(requests, [create |-> i, resolve |-> 0, result |-> NoEvents])
  BY <1>1 DEF Create
<1>3. LocalRight(l) /\ l.pc = "next"
  BY <1>1 DEF Right, JobsRight, Create
<1>4. /\ i \in l.actions /\ i \in 1 .. reduced /\ i \in DOMAIN log /\ 1 .. i - 1 \subseteq active
      /\ Reached(l.actions) = {i}
  BY <1>3, FirstIs DEF OverActions
<1>5. ChainRight /\ ActiveRight /\ RequestsRight /\ EventsRight
  BY DEF Right
<1>6. l.nextRequestId = Len(requests) /\ \A d \in DOMAIN requests : requests[d].create # i
  BY <1>1, <1>2 DEF Admits
<1>7. /\ Len(requests) \in DOMAIN InOrder(Creates(1 .. reduced))
      /\ InOrder(Creates(1 .. reduced))[Len(requests)] = i
      /\ Cardinality(Creates(1 .. i)) = Len(requests) + 1
  BY <1>2, <1>4, <1>5, <1>6, NextDocument
<1>8. /\ UNCHANGED <<log, reduced, events, active, actionState, storage, steady>>
      /\ UNCHANGED <<chainVars, actionState, storage>> /\ steady' \in BOOLEAN
  BY DEF Create, chainVars, Right
<1>9. PICK doc : doc = [create |-> i, resolve |-> 0, result |-> {}]
  OBVIOUS
<1>10. /\ doc \in [create : 1 .. reduced, resolve : 0 .. reduced, result : SUBSET Event]
       /\ doc.create = i /\ doc.resolve = 0
  <2>1. 0 \in 0 .. reduced
    BY <1>5, LogIs
  <2> QED
    BY <1>4, <1>9, <2>1
<1>11. PICK n : n = Len(requests)
  OBVIOUS
<1>12. n \in Nat /\ DOMAIN requests = 1 .. n
  BY <1>5, <1>11, RequestsAre
<1>13. /\ requests' \in Seq([create : 1 .. reduced, resolve : 0 .. reduced, result : SUBSET Event])
       /\ Len(requests') = n + 1 /\ DOMAIN requests' = 1 .. n + 1
       /\ requests'[n + 1] = doc /\ \A d \in DOMAIN requests : requests'[d] = requests[d]
  <2> DEFINE D == [create : 1 .. reduced, resolve : 0 .. reduced, result : SUBSET Event]
  <2>1. requests \in Seq(D) /\ doc \in D /\ requests' = Append(requests, doc)
    BY <1>2, <1>5, <1>9, <1>10 DEF RequestsRight, NoEvents
  <2> HIDE DEF D
  <2>2. /\ requests' \in Seq(D) /\ Len(requests') = n + 1 /\ DOMAIN requests' = 1 .. n + 1
        /\ requests'[n + 1] = doc /\ \A d \in DOMAIN requests : requests'[d] = requests[d]
    BY <1>11, <1>12, <2>1
  <2> QED
    BY <2>2 DEF D
<1>14. Grows
  <2>1. Len(log) \in Nat /\ reduced \in Nat
    BY <1>5, LogIs
  <2> QED
    BY <1>8, <1>11, <1>12, <1>13, <2>1 DEF Grows
<1>15. RequestsAreOnChain'
  <2>1. PICK S : S = Creates(1 .. reduced)
    OBVIOUS
  <2>2. InOrder(Creates(1 .. reduced))' = InOrder(S)
    BY <1>8, <2>1 DEF Creates, InOrder
  <2>3. ASSUME NEW d \in DOMAIN requests'
        PROVE  /\ d - 1 \in DOMAIN InOrder(S) /\ requests'[d].create = InOrder(S)[d - 1]
               /\ (requests'[d].resolve # 0 => log'[requests'[d].resolve] = d - 1)
    <3>1. CASE d \in DOMAIN requests
      BY <1>5, <1>8, <1>13, <2>1, <3>1 DEF RequestsRight, RequestsAreOnChain
    <3>2. CASE d \notin DOMAIN requests
      <4>1. d = n + 1 /\ d - 1 = n
        BY <1>12, <1>13, <3>2
      <4> QED
        BY <1>7, <1>10, <1>11, <1>13, <2>1, <4>1
    <3> QED
      BY <3>1, <3>2
  <2> QED
    BY <2>2, <2>3 DEF RequestsAreOnChain
<1>16. RequestsRight'
  <2>1. Creates(active)' = Creates(active) /\ Resolves(active)' = Resolves(active)
    BY <1>8 DEF Creates, Resolves
  <2>2. Cardinality(Creates(active)) <= Len(requests')
    <3>1. PICK ids : ids = active
      OBVIOUS
    <3>2. ids \subseteq 1 .. reduced /\ Cardinality(Creates(ids)) <= n /\ reduced \in Nat
      BY <1>5, <1>11, <3>1, ActiveIs, LogIs DEF RequestsRight
    <3>3. Cardinality(Creates(ids)) \in Nat
      BY <3>2, KindsAre
    <3> QED
      BY <1>12, <1>13, <3>1, <3>2, <3>3
  <2>3. \A h \in Resolves(active) : Saved(h)'
    <3>1. \A h \in Resolves(active) : h \in DOMAIN log /\ Saved(h)
      BY <1>5, ActiveIs DEF Resolves, RequestsRight
    <3> QED
      BY <1>5, <1>14, <3>1, SavedKeeps
  <2> QED
    BY <1>8, <1>13, <1>15, <2>1, <2>2, <2>3 DEF RequestsRight
<1>17. PICK m : m = [l EXCEPT !.pc = "saveAction", !.nextRequestId = n + 1]
  OBVIOUS
<1>18. job' = [job EXCEPT ![j] = m]
  <2>1. job' = [job EXCEPT ![j] = [l EXCEPT !.pc = "saveAction", !.nextRequestId = @ + 1]]
    BY <1>1 DEF Create
  <2>2. [l EXCEPT !.pc = "saveAction", !.nextRequestId = @ + 1] = m
    BY <1>6, <1>11, <1>17
  <2> QED
    BY <2>1, <2>2
<1>19. /\ m.pc = "saveAction" /\ m.state = l.state /\ m.batch = l.batch /\ m.last = l.last
       /\ m.dimension = l.dimension /\ m.eventId = l.eventId /\ m.actions = l.actions
       /\ m.nextRequestId = n + 1 /\ m.result = l.result /\ IsLocal(m)
  BY <1>3, <1>17 DEF LocalRight, IsLocal
<1>20. LocalRight(l)'
  BY <1>3, <1>5, <1>14, LocalKeeps
<1>21. n + 1 \in 0 .. Len(requests')
  BY <1>12, <1>13
<1>22. \A h \in Reached(l.actions) : Saved(h)'
  <2>1. Creates(1 .. i)' = Creates(1 .. i) /\ log'[i] = NewRequest
    BY <1>2, <1>8 DEF Creates
  <2>2. Saved(i)'
    BY <1>7, <1>11, <1>12, <1>13, <2>1 DEF Saved
  <2> QED
    BY <1>4, <2>2
<1>23. LocalRight(m)'
  <2>1. l.pc \in OverActions
    BY <1>3 DEF OverActions
  <2>2. l.actions \subseteq 1 .. reduced' /\ \A h \in l.actions : 1 .. h - 1 \subseteq active' \cup l.actions
    BY <1>20, <2>1 DEF LocalRight
  <2>3. (\A h \in Reached(l.actions) : Saved(h))'
    BY <1>22 DEF Reached
  <2> QED
    BY <1>19, <1>20, <1>21, <2>2, <2>3 DEF LocalRight, PC, IsLocal
<1>24. EventsRight' /\ ActiveRight'
  BY <1>5, <1>8 DEF EventsRight, ActiveRight
<1> QED
  BY <1>8, <1>14, <1>16, <1>18, <1>23, <1>24, Forward

LEMMA FindRequestRight ==
  ASSUME Right, NEW j \in Job, FindRequest(j)
  PROVE  Right'
<1>1. PICK l : l = job[j]
  OBVIOUS
<1>2. PICK i \in Reached(l.actions) :
        /\ log[i] \in 0 .. Len(requests) - 1
        /\ job' = [job EXCEPT ![j].pc = "saveRequest", ![j].result = EventsOf(log[i])]
  BY <1>1 DEF FindRequest
<1>3. PICK result : result = EventsOf(log[i])
  OBVIOUS
<1>4. result \subseteq Event
  <2>1. \A e \in DOMAIN events : [batch |-> events[e].batch, dimension |-> events[e].dimension] \in Event
    BY EventsAre DEF Right
  <2> QED
    BY <1>3, <2>1 DEF EventsOf
<1>5. PICK m : m = [l EXCEPT !.pc = "saveRequest", !.result = result]
  OBVIOUS
<1>6. job' = [job EXCEPT ![j] = m]
  BY <1>1, <1>2, <1>3, <1>5
<1>7. LocalRight(l) /\ l.pc = "next"
  BY <1>1 DEF Right, JobsRight, FindRequest
<1>8. Reached(l.actions) = {i}
  BY <1>7, FirstIs DEF OverActions
<1>9. /\ m.pc = "saveRequest" /\ m.state = l.state /\ m.batch = l.batch /\ m.last = l.last
      /\ m.dimension = l.dimension /\ m.eventId = l.eventId /\ m.actions = l.actions
      /\ m.nextRequestId = l.nextRequestId /\ m.result = result /\ IsLocal(m)
  BY <1>5, <1>7 DEF LocalRight, IsLocal
<1>10. LocalRight(m)
  BY <1>2, <1>4, <1>7, <1>8, <1>9 DEF LocalRight, PC, OverActions
<1>11. UNCHANGED <<chainVars, events, active, requests, actionState, storage>> /\ steady' \in BOOLEAN
  BY DEF FindRequest, Right
<1> QED
  BY <1>6, <1>10, <1>11, JobOnly

LEMMA SaveRequestRight ==
  ASSUME Right, NEW j \in Job, SaveRequest(j)
  PROVE  Right' /\ Grows
<1>1. PICK l : l = job[j]
  OBVIOUS
<1>2. LocalRight(l) /\ l.pc = "saveRequest"
  BY <1>1 DEF Right, JobsRight, SaveRequest
<1>3. PICK i \in Reached(l.actions) :
        requests' = [requests EXCEPT ![log[i] + 1].resolve = i, ![log[i] + 1].result = l.result]
  BY <1>1 DEF SaveRequest
<1>4. /\ i \in l.actions /\ i \in 1 .. reduced /\ i \in DOMAIN log /\ Reached(l.actions) = {i}
      /\ i \in Nat /\ i # 0
  <2>1. l.pc \in OverActions
    BY <1>2 DEF OverActions
  <2>2. i \in l.actions /\ i \in 1 .. reduced /\ i \in DOMAIN log /\ Reached(l.actions) = {i} /\ i \in Nat
    BY <1>2, <2>1, FirstIs
  <2> QED
    BY <2>2
<1>5. ChainRight /\ ActiveRight /\ RequestsRight /\ EventsRight
  BY DEF Right
<1>6. PICK x : x = log[i] + 1
  OBVIOUS
<1>7. log[i] \in 0 .. Len(requests) - 1 /\ x \in DOMAIN requests /\ x - 1 = log[i] /\ log[i] # NewRequest
  <2>1. log[i] \in 0 .. Len(requests) - 1
    BY <1>2 DEF LocalRight
  <2> QED
    BY <1>5, <1>6, <2>1, RequestsAre, Bounds
<1>8. /\ UNCHANGED <<log, reduced, events, active, actionState, storage, steady>>
      /\ UNCHANGED <<chainVars, actionState, storage>> /\ steady' \in BOOLEAN
  BY DEF SaveRequest, chainVars, Right
<1>9. PICK doc : doc = [requests[x] EXCEPT !.resolve = i, !.result = l.result]
  OBVIOUS
<1>10. /\ doc \in [create : 1 .. reduced, resolve : 0 .. reduced, result : SUBSET Event]
       /\ doc.create = requests[x].create /\ doc.resolve = i
  <2>1. i \in 0 .. reduced /\ l.result \subseteq Event
    BY <1>2, <1>4 DEF LocalRight
  <2>2. /\ requests[x] = [create |-> requests[x].create, resolve |-> requests[x].resolve,
                          result |-> requests[x].result]
        /\ requests[x].create \in 1 .. reduced
    BY <1>5, <1>7, RequestsAre
  <2>3. doc = [create |-> requests[x].create, resolve |-> i, result |-> l.result]
    BY <1>9, <2>2
  <2> QED
    BY <2>1, <2>2, <2>3
<1>11. PICK n : n = Len(requests)
  OBVIOUS
<1>12. n \in Nat /\ DOMAIN requests = 1 .. n
  BY <1>5, <1>11, RequestsAre
<1>13. /\ requests' \in Seq([create : 1 .. reduced, resolve : 0 .. reduced, result : SUBSET Event])
       /\ Len(requests') = n /\ DOMAIN requests' = 1 .. n
       /\ requests'[x] = doc /\ \A d \in DOMAIN requests : d # x => requests'[d] = requests[d]
  <2> DEFINE D == [create : 1 .. reduced, resolve : 0 .. reduced, result : SUBSET Event]
  <2>0. requests' = [requests EXCEPT ![x].resolve = i, ![x].result = l.result]
    BY <1>3, <1>6
  <2>1. requests \in Seq(D) /\ doc \in D /\ requests' = [requests EXCEPT ![x] = doc]
    BY <1>5, <1>9, <1>10, <2>0 DEF RequestsRight
  <2> HIDE DEF D
  <2>2. requests' \in Seq(D) /\ Len(requests') = n /\ DOMAIN requests' = 1 .. n
    BY <1>7, <1>11, <1>12, <2>1
  <2>3. requests'[x] = doc /\ \A d \in DOMAIN requests : d # x => requests'[d] = requests[d]
    BY <1>7, <2>1
  <2> QED
    BY <2>2, <2>3 DEF D
<1>14. Grows
  <2>1. Len(log) \in Nat /\ reduced \in Nat
    BY <1>5, LogIs
  <2>2. \A d \in DOMAIN requests : requests[d].resolve # 0 => requests'[d].resolve # 0
    BY <1>4, <1>10, <1>13
  <2> QED
    BY <1>8, <1>11, <1>12, <1>13, <2>1, <2>2 DEF Grows
<1>15. RequestsAreOnChain'
  <2>1. PICK S : S = Creates(1 .. reduced)
    OBVIOUS
  <2>2. InOrder(Creates(1 .. reduced))' = InOrder(S)
    BY <1>8, <2>1 DEF Creates, InOrder
  <2>3. ASSUME NEW d \in DOMAIN requests'
        PROVE  /\ d - 1 \in DOMAIN InOrder(S) /\ requests'[d].create = InOrder(S)[d - 1]
               /\ (requests'[d].resolve # 0 => log'[requests'[d].resolve] = d - 1)
    <3>1. /\ d \in DOMAIN requests /\ d - 1 \in DOMAIN InOrder(S)
          /\ requests[d].create = InOrder(S)[d - 1]
          /\ (requests[d].resolve # 0 => log[requests[d].resolve] = d - 1)
      BY <1>5, <1>12, <1>13, <2>1 DEF RequestsRight, RequestsAreOnChain
    <3>2. CASE d = x
      BY <1>7, <1>8, <1>10, <1>13, <3>1, <3>2
    <3>3. CASE d # x
      BY <1>8, <1>13, <3>1, <3>3
    <3> QED
      BY <3>2, <3>3
  <2> QED
    BY <2>2, <2>3 DEF RequestsAreOnChain
<1>16. RequestsRight'
  <2>1. Creates(active)' = Creates(active) /\ Resolves(active)' = Resolves(active)
    BY <1>8 DEF Creates, Resolves
  <2>2. Cardinality(Creates(active)) <= Len(requests')
    BY <1>5, <1>11, <1>13 DEF RequestsRight
  <2>3. \A h \in Resolves(active) : Saved(h)'
    <3>1. \A h \in Resolves(active) : h \in DOMAIN log /\ Saved(h)
      BY <1>5, ActiveIs DEF Resolves, RequestsRight
    <3> QED
      BY <1>5, <1>14, <3>1, SavedKeeps
  <2> QED
    BY <1>8, <1>13, <1>15, <2>1, <2>2, <2>3 DEF RequestsRight
<1>17. PICK m : m = [l EXCEPT !.pc = "saveAction", !.result = {}]
  OBVIOUS
<1>18. job' = [job EXCEPT ![j] = m]
  BY <1>1, <1>17 DEF SaveRequest, NoEvents
<1>19. /\ m.pc = "saveAction" /\ m.state = l.state /\ m.batch = l.batch /\ m.last = l.last
       /\ m.dimension = l.dimension /\ m.eventId = l.eventId /\ m.actions = l.actions
       /\ m.nextRequestId = l.nextRequestId /\ m.result = {} /\ IsLocal(m)
  BY <1>2, <1>17 DEF LocalRight, IsLocal
<1>20. LocalRight(l)'
  BY <1>2, <1>5, <1>14, LocalKeeps
<1>21. \A h \in Reached(l.actions) : Saved(h)'
  <2>1. log'[i] # NewRequest /\ log'[i] < Len(requests') /\ requests'[log'[i] + 1].resolve # 0
    BY <1>4, <1>6, <1>7, <1>8, <1>10, <1>11, <1>12, <1>13
  <2>2. Saved(i)'
    BY <2>1 DEF Saved
  <2> QED
    BY <1>4, <2>2
<1>22. LocalRight(m)'
  <2>1. l.pc \in OverActions
    BY <1>2 DEF OverActions
  <2>2. l.actions \subseteq 1 .. reduced' /\ \A h \in l.actions : 1 .. h - 1 \subseteq active' \cup l.actions
    BY <1>20, <2>1 DEF LocalRight
  <2>3. (\A h \in Reached(l.actions) : Saved(h))'
    BY <1>21 DEF Reached
  <2> QED
    BY <1>19, <1>20, <2>2, <2>3 DEF LocalRight, PC, IsLocal
<1>23. EventsRight' /\ ActiveRight'
  BY <1>5, <1>8 DEF EventsRight, ActiveRight
<1> QED
  BY <1>8, <1>14, <1>16, <1>18, <1>22, <1>23, Forward

LEMMA SaveActionRight ==
  ASSUME Right, NEW j \in Job, SaveAction(j)
  PROVE  Right' /\ Grows
<1>1. PICK l : l = job[j]
  OBVIOUS
<1>2. LocalRight(l) /\ l.pc = "saveAction" /\ l.pc \in OverActions
  BY <1>1 DEF Right, JobsRight, SaveAction, OverActions
<1>3. PICK few : few = Reached(l.actions)
  OBVIOUS
<1>4. active' = active \cup few
  BY <1>1, <1>3 DEF SaveAction
<1>5. ChainRight /\ ActiveRight /\ RequestsRight /\ EventsRight
  BY DEF Right
<1>6. /\ UNCHANGED <<log, reduced, events, requests, actionState, storage, steady>>
      /\ UNCHANGED <<chainVars, actionState, storage>> /\ steady' \in BOOLEAN
  BY DEF SaveAction, chainVars, Right
<1>7. Grows
  <2>1. Len(log) \in Nat /\ reduced \in Nat /\ Len(requests) \in Nat
    BY <1>5, LogIs, RequestsAre
  <2> QED
    BY <1>4, <1>6, <2>1 DEF Grows
<1>8. \A i \in few : Saved(i) /\ few = {i} /\ i \in 1 .. reduced /\ i \in Nat /\ 1 .. i - 1 \subseteq active
  BY <1>2, <1>3, FirstIs DEF LocalRight
<1>9. PICK n \in 0 .. reduced : active = 1 .. n
  BY <1>5 DEF ActiveRight
<1>10. n \in Nat /\ reduced \in Nat /\ n <= reduced
  BY <1>5, LogIs
<1>11. active' = active \/ \E i \in few : i = n + 1 /\ active' = 1 .. n + 1
  <2>1. CASE few = {}
    BY <1>4, <2>1
  <2>2. CASE few # {}
    <3>1. PICK i \in few : few = {i} /\ i \in 1 .. reduced /\ i \in Nat /\ 1 .. i - 1 \subseteq 1 .. n
      BY <1>8, <1>9, <2>2
    <3>2. i <= n + 1
      <4>1. i - 1 # 0 => i - 1 \in 1 .. i - 1
        BY <3>1
      <4>2. i - 1 # 0 => i - 1 \in 1 .. n
        BY <3>1, <4>1
      <4> QED
        BY <1>10, <3>1, <4>2
    <3>3. CASE i <= n
      <4>1. i \in active
        BY <1>9, <1>10, <3>1, <3>3
      <4> QED
        BY <1>4, <3>1, <4>1
    <3>4. CASE i = n + 1
      <4>1. 1 .. n + 1 = 1 .. n \cup {n + 1}
        BY <1>10
      <4> QED
        BY <1>4, <1>9, <3>1, <3>4, <4>1
    <3>5. i <= n \/ i = n + 1
      BY <1>10, <3>1, <3>2
    <3> QED
      BY <3>3, <3>4, <3>5
  <2> QED
    BY <2>1, <2>2
<1>12. ActiveRight'
  <2>1. CASE active' = active
    BY <1>6, <1>9, <2>1 DEF ActiveRight
  <2>2. CASE \E i \in few : i = n + 1 /\ active' = 1 .. n + 1
    <3>1. n + 1 \in 0 .. reduced'
      BY <1>6, <1>8, <1>10, <2>2
    <3> QED
      BY <2>2, <3>1 DEF ActiveRight
  <2> QED
    BY <1>11, <2>1, <2>2
<1>13. Cardinality(Creates(active)') <= Len(requests)
  <2>1. CASE active' = active
    <3>1. Creates(active)' = Creates(active)
      BY <1>6, <2>1 DEF Creates
    <3> QED
      BY <1>5, <3>1 DEF RequestsRight
  <2>2. CASE \E i \in few : i = n + 1 /\ active' = 1 .. n + 1
    <3>1. PICK i \in few : i = n + 1 /\ active' = 1 .. n + 1
      BY <2>2
    <3>2. Creates(active)' = Creates(1 .. n + 1)
      BY <1>6, <3>1 DEF Creates
    <3>3. CASE log[n + 1] = NewRequest
      BY <1>8, <3>1, <3>2, <3>3 DEF Saved
    <3>4. CASE log[n + 1] # NewRequest
      <4>1. Creates(1 .. n + 1) = Creates(1 .. n)
        BY <1>10, <3>4, KindsNext
      <4> QED
        BY <1>5, <1>9, <3>2, <4>1 DEF RequestsRight
    <3> QED
      BY <3>3, <3>4
  <2> QED
    BY <1>11, <2>1, <2>2
<1>14. \A i \in Resolves(active)' : Saved(i)'
  <2>1. \A i \in Resolves(active)' : (i \in Resolves(active) \/ i \in few) /\ i \in DOMAIN log
    <3>1. few \subseteq DOMAIN log
      BY <1>5, <1>8, LogIs
    <3> QED
      BY <1>4, <1>5, <1>6, <3>1, ActiveIs DEF Resolves
  <2>2. \A i \in Resolves(active)' : i \in DOMAIN log /\ Saved(i)
    BY <1>5, <1>8, <2>1 DEF RequestsRight
  <2> QED
    BY <1>5, <1>7, <2>2, SavedKeeps
<1>15. RequestsRight'
  <2>1. RequestsAreOnChain'
    <3>1. PICK S : S = Creates(1 .. reduced)
      OBVIOUS
    <3>2. InOrder(Creates(1 .. reduced))' = InOrder(S)
      BY <1>6, <3>1 DEF Creates, InOrder
    <3> QED
      BY <1>5, <1>6, <3>1, <3>2 DEF RequestsRight, RequestsAreOnChain
  <2> QED
    BY <1>5, <1>6, <1>13, <1>14, <2>1 DEF RequestsRight
<1>16. PICK ids : ids = l.actions \ few
  OBVIOUS
<1>17. PICK m : m = [l EXCEPT !.pc = "next", !.actions = ids]
  OBVIOUS
<1>18. job' = [job EXCEPT ![j] = m]
  <2>1. job' = [job EXCEPT ![j] = [l EXCEPT !.pc = "next", !.actions = @ \ Reached(@)]]
    BY <1>1 DEF SaveAction
  <2>2. [l EXCEPT !.pc = "next", !.actions = @ \ Reached(@)] = m
    BY <1>3, <1>16, <1>17
  <2> QED
    BY <2>1, <2>2
<1>19. /\ m.pc = "next" /\ m.state = l.state /\ m.batch = l.batch /\ m.last = l.last
       /\ m.dimension = l.dimension /\ m.eventId = l.eventId /\ m.actions = ids
       /\ m.nextRequestId = l.nextRequestId /\ m.result = l.result /\ IsLocal(m)
  BY <1>2, <1>17 DEF LocalRight, IsLocal
<1>20. LocalRight(l)'
  BY <1>2, <1>5, <1>7, LocalKeeps
<1>21. LocalRight(m)'
  <2>1. /\ l.actions \subseteq 1 .. reduced /\ l.actions \subseteq 1 .. Len(log)
        /\ \A h \in l.actions : 1 .. h - 1 \subseteq active \cup l.actions
    BY <1>2 DEF LocalRight
  <2>2. /\ ids \subseteq 1 .. reduced' /\ ids \subseteq 1 .. Len(log')
        /\ \A h \in ids : 1 .. h - 1 \subseteq active' \cup ids
    BY <1>4, <1>6, <1>16, <2>1
  <2> QED
    BY <1>19, <1>20, <2>2 DEF LocalRight, PC, IsLocal
<1>22. EventsRight'
  BY <1>5, <1>6 DEF EventsRight
<1> QED
  BY <1>6, <1>7, <1>12, <1>15, <1>18, <1>21, <1>22, Forward

-----------------------------------------------------------------------------
(***************************************************************************)
(* Right: trees, roll-up and crashes.                                      *)
(***************************************************************************)
LEMMA FindRequestsRight ==
  ASSUME Right, NEW j \in Job, FindRequests(j)
  PROVE  Right'
<1>1. /\ UNCHANGED <<chainVars, log, reduced, events, active, requests, actionState, steady>>
      /\ storage' = Leaves /\ Goto(j, "updated")
  BY DEF FindRequests, chainVars
<1>2. ChainRight /\ RequestsRight
  BY DEF Right
<1>3. ChainRight' /\ reduced <= reduced'
  BY <1>1, <1>2, LogIs DEF ChainRight
<1>4. Grows /\ ActiveRight' /\ RequestsRight'
  BY <1>1, <1>3, Quiet
<1>5. StorageRight'
  <2>1. PICK S : S = Creates(1 .. reduced)
    OBVIOUS
  <2>2. InOrder(Creates(1 .. reduced))' = InOrder(S)
    BY <1>1, <2>1 DEF Creates, InOrder
  <2>3. ASSUME NEW r \in DOMAIN storage'
        PROVE  /\ storage'[r] \in [create : 1 .. reduced, result : 0 .. reduced]
               /\ r \in DOMAIN InOrder(S) /\ storage'[r].create = InOrder(S)[r]
               /\ storage'[r].result \in {0} \cup ResolvesOf(r, 1 .. reduced)'
    <3>1. r \in 0 .. Len(requests) - 1
      BY <1>1 DEF Leaves
    <3>2. PICK d : d = r + 1
      OBVIOUS
    <3>3. d \in DOMAIN requests /\ d - 1 = r
      BY <1>2, <3>1, <3>2, RequestsAre
    <3>4. storage'[r] = [create |-> requests[d].create, result |-> requests[d].resolve]
      BY <1>1, <3>1, <3>2 DEF Leaves
    <3>5. /\ d - 1 \in DOMAIN InOrder(S) /\ requests[d].create = InOrder(S)[d - 1]
          /\ requests[d].resolve # 0 => log[requests[d].resolve] = d - 1
      BY <1>2, <2>1, <3>3 DEF RequestsRight, RequestsAreOnChain
    <3>6. requests[d].create \in 1 .. reduced /\ requests[d].resolve \in 0 .. reduced
      BY <1>2, <3>3, RequestsAre
    <3>7. requests[d].resolve # 0 => requests[d].resolve \in 1 .. reduced
      BY <1>2, <3>6, LogIs
    <3>8. requests[d].resolve \in {0} \cup ResolvesOf(r, 1 .. reduced)'
      BY <1>1, <3>3, <3>5, <3>7 DEF ResolvesOf
    <3> QED
      BY <3>3, <3>4, <3>5, <3>6, <3>8
  <2> QED
    BY <1>1, <2>2, <2>3 DEF StorageRight, LeavesAreBehind
<1>6. PICK l : l = job[j]
  OBVIOUS
<1>7. LocalRight(l)
  BY <1>6 DEF Right, JobsRight
<1>8. PICK m : m = [l EXCEPT !.pc = "updated"]
  OBVIOUS
<1>9. LocalRight(m)
  BY <1>7, <1>8, Moved, Labels
<1>10. job' = [job EXCEPT ![j] = m]
  BY <1>1, <1>6, <1>8 DEF Goto
<1>11. job' = [k \in Job |-> job'[k]] /\ \A k \in Job : LocalRight(job'[k])
  BY <1>9, <1>10 DEF Right, JobsRight
<1>12. JobsRight'
  BY <1>2, <1>4, <1>11, JobsKeep
<1>13. EventsRight' /\ steady' \in BOOLEAN
  BY <1>1 DEF Right, EventsRight
<1> QED
  BY <1>3, <1>4, <1>5, <1>12, <1>13 DEF Right

LEMMA FindBatchRight ==
  ASSUME Right, NEW j \in Job, NEW n \in 1 .. Len(log), FindBatch(j, n)
  PROVE  Right'
<1>1. PICK l : l = job[j]
  OBVIOUS
<1>2. PICK ids : ids = NotActive(n)
  OBVIOUS
<1>3. PICK m : m = [l EXCEPT !.pc = "fetchState", !.actions = ids]
  OBVIOUS
<1>4. job' = [job EXCEPT ![j] = m]
  BY <1>1, <1>2, <1>3 DEF FindBatch
<1>5. LocalRight(l)
  BY <1>1 DEF Right, JobsRight
<1>6. ids \subseteq 1 .. Len(log)
  BY <1>2, LogIs DEF NotActive, Right
<1>7. /\ m.pc = "fetchState" /\ m.state = l.state /\ m.batch = l.batch /\ m.last = l.last
      /\ m.dimension = l.dimension /\ m.eventId = l.eventId /\ m.actions = ids
      /\ m.nextRequestId = l.nextRequestId /\ m.result = l.result /\ IsLocal(m)
  BY <1>3, <1>5 DEF LocalRight, IsLocal
<1>8. LocalRight(m)
  BY <1>5, <1>6, <1>7 DEF LocalRight, PC, OverActions
<1>9. UNCHANGED <<chainVars, events, active, requests, actionState, storage>> /\ steady' \in BOOLEAN
  BY DEF FindBatch, Right
<1> QED
  BY <1>4, <1>8, <1>9, JobOnly

LEMMA FetchRollupStateRight ==
  ASSUME Right, NEW j \in Job, FetchRollupState(j)
  PROVE  Right'
<1>1. /\ UNCHANGED <<log, reduced, events, active, requests, storage>> /\ steady' \in BOOLEAN
  BY DEF FetchRollupState, chainVars, Right
<1>2. PICK l : l = job[j]
  OBVIOUS
<1>3. PICK n \in 0 .. reduced : /\ actionState' = [actionState EXCEPT ![Home[j]] = n]
                               /\ job' = [job EXCEPT ![j].pc = "clone", ![j].state = n]
  BY DEF FetchRollupState
<1>4. PICK m : m = [l EXCEPT !.pc = "clone", !.state = n]
  OBVIOUS
<1>5. job' = [job EXCEPT ![j] = m]
  BY <1>2, <1>3, <1>4
<1>6. LocalRight(l)
  BY <1>2 DEF Right, JobsRight
<1>7. n \in 0 .. reduced /\ ChainRight
  BY DEF Right
<1>8. ChainRight' /\ reduced <= reduced'
  BY <1>1, <1>3, <1>7, LogIs, Bounds DEF ChainRight
<1>9. /\ m.pc = "clone" /\ m.state = n /\ m.batch = l.batch /\ m.last = l.last
      /\ m.dimension = l.dimension /\ m.eventId = l.eventId /\ m.actions = l.actions
      /\ m.nextRequestId = l.nextRequestId /\ m.result = l.result /\ IsLocal(m)
  BY <1>4, <1>6 DEF LocalRight, IsLocal
<1>10. LocalRight(m)
  BY <1>6, <1>7, <1>9 DEF LocalRight, PC, OverActions
<1>11. job' = [k \in Job |-> job'[k]] /\ \A k \in Job : LocalRight(job'[k])
  BY <1>5, <1>10 DEF Right, JobsRight
<1> QED
  BY <1>1, <1>8, <1>11, Aside

LEMMA SendRight ==
  ASSUME Right, NEW j \in Job, Send(j)
  PROVE  Right'
<1>1. /\ UNCHANGED <<log, events, active, requests, actionState, storage, steady>> /\ Return(j)
      /\ reduced' = (IF Accepted(j) THEN reduced + Cardinality(job[j].actions) ELSE reduced)
  BY DEF Send
<1>2. ChainRight /\ Len(log) \in Nat /\ reduced \in Nat /\ reduced <= Len(log)
  BY LogIs DEF Right
<1>3. reduced' \in 0 .. Len(log) /\ reduced <= reduced'
  <2>1. CASE ~ Accepted(j)
    BY <1>1, <1>2, <2>1
  <2>2. CASE Accepted(j)
    <3>1. PICK ids, c : ids = job[j].actions /\ c = Cardinality(ids)
      OBVIOUS
    <3>2. ids \subseteq 1 .. Len(log)
      BY <3>1 DEF Right, JobsRight, LocalRight
    <3>3. c \in Nat
      BY <1>2, <3>1, <3>2, BoundedIs
    <3>4. ids = reduced + 1 .. reduced + c /\ reduced' = reduced + c
      BY <1>1, <2>2, <3>1 DEF Accepted
    <3>5. c # 0 => reduced + c \in ids
      BY <1>2, <3>3, <3>4
    <3>6. c # 0 => reduced + c <= Len(log)
      <4>1. PICK x : x = reduced + c
        OBVIOUS
      <4>2. c # 0 => x \in 1 .. Len(log)
        BY <3>2, <3>5, <4>1
      <4> QED
        BY <1>2, <4>1, <4>2
    <3> QED
      BY <1>2, <3>3, <3>4, <3>6
  <2> QED
    BY <2>1, <2>2
<1>4. ChainRight'
  <2>1. 0 .. reduced \subseteq 0 .. reduced'
    BY <1>2, <1>3
  <2> QED
    BY <1>1, <1>2, <1>3, <2>1 DEF ChainRight
<1>5. job' = [k \in Job |-> job'[k]] /\ \A k \in Job : LocalRight(job'[k])
  <2>1. LocalRight(Idle)
    BY IdleRight, Labels
  <2> QED
    BY <1>1, <2>1 DEF Return, Right, JobsRight
<1>6. steady' \in BOOLEAN
  BY <1>1 DEF Right
<1> QED
  BY <1>1, <1>3, <1>4, <1>5, <1>6, Aside

LEMMA CrashRight ==
  ASSUME Right, NEW p \in Process, Crash(p)
  PROVE  Right'
<1>1. /\ actionState' = [actionState EXCEPT ![p] = 0]
      /\ storage' = storage \/ storage' = <<>>
      /\ job' = [j \in Job |-> IF Home[j] = p THEN Idle ELSE job[j]]
      /\ UNCHANGED <<log, reduced, events, active, requests>>
  BY DEF Crash, chainVars
<1>2. ChainRight /\ reduced \in Nat
  BY LogIs DEF Right
<1>3. ChainRight' /\ reduced <= reduced'
  BY <1>1, <1>2 DEF ChainRight
<1>4. job' = [k \in Job |-> job'[k]] /\ \A k \in Job : LocalRight(job'[k])
  <2>1. LocalRight(Idle)
    BY IdleRight, Labels
  <2> QED
    BY <1>1, <2>1 DEF Right, JobsRight
<1>5. steady' \in BOOLEAN
  BY DEF Crash, Right
<1> QED
  BY <1>1, <1>3, <1>4, <1>5, Aside

-----------------------------------------------------------------------------
(***************************************************************************)
(* What holds of every behavior.                                           *)
(***************************************************************************)
LEMMA Started ==
  ASSUME Init
  PROVE  Right
<1>1. /\ log = Before /\ reduced = Len(Before) /\ events = <<>> /\ active = {} /\ requests = <<>>
      /\ actionState = [p \in Process |-> 0] /\ storage = <<>>
      /\ job = [j \in Job |-> Idle] /\ steady = TRUE
  BY DEF Init
<1>2. Before \in Seq({NewRequest} \cup Nat) /\ Len(Before) \in Nat /\ Len(Before) <= MaxActions
      /\ DOMAIN Before = 1 .. Len(Before)
  BY RequestsAssumption
<1>3. \A i \in DOMAIN Before : Before[i] \in {NewRequest} \cup 0 .. MaxActions - 1
  <2> SUFFICES ASSUME NEW i \in DOMAIN Before PROVE Before[i] \in {NewRequest} \cup 0 .. MaxActions - 1
    OBVIOUS
  <2>1. Before[i] \in {NewRequest} \cup Nat /\ i \in Nat /\ i - 1 \in Nat /\ i <= Len(Before)
    BY <1>2
  <2>2. PICK S : S = {h \in 1 .. i - 1 : Before[h] = NewRequest}
    OBVIOUS
  <2>3. Cardinality(S) \in Nat /\ Cardinality(S) <= i - 1
    BY <2>1, <2>2, BoundedIs
  <2>4. Before[i] < Cardinality(S)
    BY <2>2, RequestsAssumption
  <2>5. Before[i] # NewRequest => Before[i] \in Nat
    BY <2>1
  <2> QED
    BY <1>2, <2>1, <2>3, <2>4, <2>5, Bounds
<1>4. ChainRight
  <2> DEFINE D == {NewRequest} \cup 0 .. MaxActions - 1
  <2>1. Before \in Seq(D)
    <3>1. \A i \in 1 .. Len(Before) : Before[i] \in D
      BY <1>2, <1>3
    <3>2. Before = [i \in 1 .. Len(Before) |-> Before[i]]
      BY <1>2
    <3> HIDE DEF D
    <3>3. Before \in [1 .. Len(Before) -> D]
      BY <3>1, <3>2
    <3> QED
      BY <1>2, <3>3, AsSeq
  <2>2. reduced \in 0 .. Len(log) /\ 0 \in 0 .. reduced
    BY <1>1, <1>2
  <2> QED
    BY <1>1, <1>2, <2>1, <2>2 DEF ChainRight
<1>5. ActiveRight
  <2>1. 0 \in 0 .. reduced /\ active = 1 .. 0
    BY <1>1, <1>2
  <2> QED
    BY <2>1 DEF ActiveRight
<1>6. EventsRight
  <2>1. events \in Seq(Event) /\ DOMAIN events = {}
    BY <1>1
  <2> QED
    BY <2>1 DEF EventsRight
<1>7. RequestsRight
  <2> DEFINE D == [create : 1 .. reduced, resolve : 0 .. reduced, result : SUBSET Event]
  <2>1. requests \in Seq(D) /\ DOMAIN requests = {} /\ Len(requests) = 0
    <3> HIDE DEF D
    <3> QED
      BY <1>1
  <2>2. Creates(active) = {} /\ Resolves(active) = {}
    BY <1>1 DEF Creates, Resolves
  <2>3. Cardinality(Creates(active)) <= Len(requests)
    BY <2>1, <2>2, FS_EmptySet
  <2> QED
    BY <2>1, <2>2, <2>3 DEF RequestsRight, RequestsAreOnChain
<1>8. StorageRight
  BY <1>1 DEF StorageRight, LeavesAreBehind
<1>9. JobsRight
  <2>1. /\ 0 \in 0 .. reduced /\ 0 \in 0 .. Len(requests) /\ 0 \in 0 .. MaxActions
        /\ 0 \in 0 .. 2 * MaxActions + 1 /\ 1 \in Dimension
    BY <1>1, <1>2, Bounds DEF Dimension
  <2>2. PICK m : m = Idle
    OBVIOUS
  <2>3. /\ m.pc = "idle" /\ m.state = 0 /\ m.batch = 0 /\ m.last = 0 /\ m.dimension = 1
        /\ m.eventId = 0 /\ m.actions = {} /\ m.nextRequestId = 0 /\ m.result = {} /\ IsLocal(m)
    BY <2>2 DEF Idle, NoEvents, IsLocal
  <2>4. LocalRight(m)
    BY <2>1, <2>3 DEF LocalRight, PC, OverActions
  <2> QED
    BY <1>1, <2>2, <2>4 DEF JobsRight
<1> QED
  BY <1>1, <1>4, <1>5, <1>6, <1>7, <1>8, <1>9 DEF Right

LEMMA UpdateRight ==
  ASSUME Right, NEW j \in Job, Update(j)
  PROVE  Right'
<1>1. ASSUME NEW n \in 0 .. MaxActions, FetchState(j, n) \/ FetchEvents(j, n)
      PROVE  Right'
  BY <1>1, FetchStateRight, FetchEventsRight
<1>2. CASE StoreEvent(j)
  BY <1>2, StoreEventRight
<1>3. CASE EventsDone(j)
  <2>1. /\ job' = [job EXCEPT ![j] = [Idle EXCEPT !.pc = "find"]] /\ steady' \in BOOLEAN
        /\ UNCHANGED <<chainVars, events, active, requests, actionState, storage>>
    BY <1>3 DEF EventsDone, Right
  <2> QED
    BY <2>1, BackRight, Labels
<1>4. CASE DuplicateEvent(j) \/ DuplicateRequest(j)
  <2>1. Retry(j) /\ steady' \in BOOLEAN
    BY <1>4 DEF DuplicateEvent, DuplicateRequest, Right
  <2> QED
    BY <2>1, RetryRight
<1>5. CASE Find(j)
  BY <1>5, FindRight
<1>6. CASE FindNothing(j)
  <2>1. /\ Goto(j, AfterPass(j)) /\ steady' \in BOOLEAN
        /\ UNCHANGED <<chainVars, events, active, requests, actionState, storage>>
    BY <1>6 DEF FindNothing, Right
  <2> QED
    BY <2>1, GotoRight, Labels
<1>7. CASE FindLatest(j)
  BY <1>7, FindLatestRight
<1>8. CASE Create(j)
  BY <1>8, CreateRight
<1>9. CASE FindRequest(j)
  BY <1>9, FindRequestRight
<1>10. CASE SaveRequest(j)
  BY <1>10, SaveRequestRight
<1>11. CASE SaveAction(j)
  BY <1>11, SaveActionRight
<1>12. CASE PassDone(j)
  <2>1. /\ job' = [job EXCEPT ![j] = [Idle EXCEPT !.pc = AfterPass(j)]] /\ steady' \in BOOLEAN
        /\ UNCHANGED <<chainVars, events, active, requests, actionState, storage>>
    BY <1>12 DEF PassDone, Right
  <2> QED
    BY <2>1, BackRight, Labels
<1>13. CASE FindRequests(j)
  BY <1>13, FindRequestsRight
<1> QED
  BY <1>1, <1>2, <1>3, <1>4, <1>5, <1>6, <1>7, <1>8, <1>9, <1>10, <1>11, <1>12, <1>13 DEF Update

LEMMA RollupRight ==
  ASSUME Right, NEW j \in Job, Rollup(j) \/ Skip(j) \/ RollupThrows(j)
  PROVE  Right'
<1>1. ASSUME NEW n \in 1 .. Len(log), FindBatch(j, n) PROVE Right'
  BY <1>1, FindBatchRight
<1>2. CASE FetchRollupState(j)
  BY <1>2, FetchRollupStateRight
<1>3. CASE CloneAndProve(j)
  <2>1. /\ Goto(j, "send") /\ steady' \in BOOLEAN
        /\ UNCHANGED <<chainVars, events, active, requests, actionState, storage>>
    BY <1>3 DEF CloneAndProve, Right
  <2> QED
    BY <2>1, GotoRight, Labels
<1>4. CASE ProveFails(j) \/ Skip(j) \/ RollupThrows(j)
  <2>1. /\ Return(j) /\ steady' \in BOOLEAN
        /\ UNCHANGED <<chainVars, events, active, requests, actionState, storage>>
    BY <1>4 DEF ProveFails, Skip, RollupThrows, Right
  <2> QED
    BY <2>1, ReturnRight
<1>5. CASE Send(j)
  BY <1>5, SendRight
<1> QED
  BY <1>1, <1>2, <1>3, <1>4, <1>5 DEF Rollup

LEMMA NextRight ==
  ASSUME Right, [Next]_vars
  PROVE  Right'
<1>1. ASSUME NEW r \in {NewRequest} \cup 0 .. MaxActions - 1, Dispatch(r) PROVE Right'
  BY <1>1, DispatchRight
<1>2. ASSUME NEW n \in 1 .. Len(log), ReduceElsewhere(n) PROVE Right'
  BY <1>2, ReduceRight
<1>3. ASSUME NEW j \in Job, Update(j) PROVE Right'
  BY <1>3, UpdateRight
<1>4. ASSUME NEW j \in Job, Rollup(j) \/ Skip(j) \/ RollupThrows(j) PROVE Right'
  BY <1>4, RollupRight
<1>5. ASSUME NEW p \in Process, Crash(p) PROVE Right'
  BY <1>5, CrashRight
<1>6. ASSUME NEW j \in Job, FetchThrows(j) PROVE Right'
  <2>1. Retry(j) /\ steady' \in BOOLEAN
    BY <1>6 DEF FetchThrows, Right
  <2> QED
    BY <2>1, RetryRight
<1>7. CASE UNCHANGED vars
  <2>1. /\ UNCHANGED <<chainVars, log, reduced, events, active, requests, actionState, storage, job, steady>>
    BY <1>7 DEF vars, chainVars
  <2>2. ChainRight' /\ reduced <= reduced'
    BY <2>1, LogIs DEF Right, ChainRight
  <2>3. job' = [k \in Job |-> job'[k]] /\ (\A k \in Job : LocalRight(job'[k])) /\ steady' \in BOOLEAN
    BY <2>1 DEF Right, JobsRight
  <2> QED
    BY <2>1, <2>2, <2>3, Aside
<1> QED
  BY <1>1, <1>2, <1>3, <1>4, <1>5, <1>6, <1>7 DEF Next, ChainStep, Fail

LEMMA RightAlways == Spec => []Right
<1>1. Init => Right
  BY Started
<1>2. Right /\ [Next]_vars => Right'
  BY NextRight
<1> QED
  BY <1>1, <1>2, PTL DEF Spec

(* The type invariant: the state stays within what the code can represent  *)
(* it by.                                                                  *)
THEOREM TypeCorrect == Spec => []TypeOK
<1>1. ASSUME Right PROVE TypeOK
  <2>1. ChainRight /\ ActiveRight /\ EventsRight /\ RequestsRight /\ StorageRight /\ JobsRight
        /\ steady \in BOOLEAN
    BY <1>1 DEF Right
  <2>2. job \in [Job -> [pc : PC, state : 0 .. reduced, batch : 0 .. MaxActions,
                         last : 0 .. MaxActions, dimension : Dimension,
                         eventId : 0 .. 2 * MaxActions + 1, actions : SUBSET (1 .. Len(log)),
                         nextRequestId : 0 .. Len(requests), result : SUBSET Event]]
    <3> SUFFICES ASSUME NEW j \in Job
                 PROVE  job[j] \in [pc : PC, state : 0 .. reduced, batch : 0 .. MaxActions,
                         last : 0 .. MaxActions, dimension : Dimension,
                         eventId : 0 .. 2 * MaxActions + 1, actions : SUBSET (1 .. Len(log)),
                         nextRequestId : 0 .. Len(requests), result : SUBSET Event]
      BY <2>1 DEF JobsRight
    <3>1. PICK l : l = job[j]
      OBVIOUS
    <3>2. /\ IsLocal(l) /\ l.pc \in PC /\ l.state \in 0 .. reduced
          /\ l.batch \in 0 .. MaxActions /\ l.last \in 0 .. MaxActions
          /\ l.dimension \in Dimension /\ l.eventId \in 0 .. 2 * MaxActions + 1
          /\ l.actions \subseteq 1 .. Len(log) /\ l.nextRequestId \in 0 .. Len(requests)
          /\ l.result \subseteq Event
      BY <2>1, <3>1 DEF JobsRight, LocalRight
    <3> QED
      BY <3>1, <3>2 DEF IsLocal
  <2>3. active \subseteq 1 .. reduced
    BY <2>1, ActiveIs
  <2> QED
    BY <2>1, <2>2, <2>3 DEF TypeOK, ChainRight, EventsRight, RequestsRight, StorageRight
<1> QED
  BY <1>1, RightAlways, PTL

(* The documents that fetchRequestEvents() and updateRequestActions() keep *)
(* are the requests of the contract under their ids, actions become active *)
(* in order and with their effect, and the leaves in memory are those of   *)
(* the contract at some time, however passes overlap, stop and repeat.     *)
THEOREM RequestsStayRight == Spec => []RequestsAreRight
<1>1. ASSUME Right PROVE RequestsAreRight
  <2>1. ChainRight /\ ActiveRight /\ RequestsRight /\ StorageRight
    BY <1>1 DEF Right
  <2>2. active = 1 .. Cardinality(active)
    <3>1. PICK n \in 0 .. reduced : active = 1 .. n
      BY <2>1 DEF ActiveRight
    <3>2. n \in Nat /\ 1 \in Int
      BY <2>1, LogIs
    <3>3. Cardinality(1 .. n) = IF 1 > n THEN 0 ELSE n - 1 + 1
      BY <3>2, FS_Interval
    <3>4. Cardinality(1 .. n) = n
      BY <3>2, <3>3
    <3> QED
      BY <3>1, <3>4
  <2>3. Len(requests) >= Cardinality(Creates(active))
    <3>1. PICK ids : ids = active
      OBVIOUS
    <3>2. Cardinality(Creates(ids)) \in Nat
      BY <2>1, <3>1, ActiveIs, LogIs, KindsAre
    <3> QED
      BY <2>1, <3>1, <3>2, RequestsAre DEF RequestsRight
  <2>4. \A i \in Resolves(active) : requests[log[i] + 1].resolve # 0
    BY <2>1 DEF RequestsRight, Saved, Resolves
  <2>5. RequestsAreOnChain /\ LeavesAreBehind
    BY <2>1 DEF RequestsRight, StorageRight
  <2> QED
    BY <2>2, <2>3, <2>4, <2>5 DEF RequestsAreRight, ActiveInOrder
<1> QED
  BY <1>1, RightAlways, PTL

-----------------------------------------------------------------------------
(***************************************************************************)
(* What is stranded stays so.                                              *)
(***************************************************************************)
\* A step in which nobody comes to save an action.
Apart ==
  /\ \A i \in DOMAIN log : i \in DOMAIN log' /\ log'[i] = log[i]
  /\ reduced <= reduced' /\ UNCHANGED <<active, requests>>
  /\ \A k \in Job : job'[k].pc = "saveAction" => job'[k] = job[k]

LEMMA ApartJob ==
  ASSUME Right, NEW j \in Job, NEW m, m.pc # "saveAction", job' = [job EXCEPT ![j] = m]
  PROVE  \A k \in Job : job'[k].pc = "saveAction" => job'[k] = job[k]
BY DEF Right, JobsRight

LEMMA LabelApart ==
  ASSUME Right, NEW j \in Job, NEW label, label # "saveAction", Goto(j, label)
  PROVE  \A k \in Job : job'[k].pc = "saveAction" => job'[k] = job[k]
<1>1. PICK l : l = job[j]
  OBVIOUS
<1>2. IsLocal(l)
  BY <1>1 DEF Right, JobsRight, LocalRight
<1>3. PICK m : m = [l EXCEPT !.pc = label]
  OBVIOUS
<1>4. m.pc = label
  BY <1>2, <1>3 DEF IsLocal
<1>5. job' = [job EXCEPT ![j] = m]
  BY <1>1, <1>3 DEF Goto
<1> QED
  BY <1>4, <1>5, ApartJob

LEMMA IdleApart ==
  ASSUME Right, NEW j \in Job, NEW label, label # "saveAction",
         job' = [job EXCEPT ![j] = [Idle EXCEPT !.pc = label]]
  PROVE  \A k \in Job : job'[k].pc = "saveAction" => job'[k] = job[k]
<1>1. PICK m : m = [Idle EXCEPT !.pc = label]
  OBVIOUS
<1>2. m.pc = label
  BY <1>1 DEF Idle
<1> QED
  BY <1>1, <1>2, ApartJob

LEMMA ReturnApart ==
  ASSUME Right, NEW j \in Job, Return(j)
  PROVE  \A k \in Job : job'[k].pc = "saveAction" => job'[k] = job[k]
<1>1. Idle.pc # "saveAction"
  BY DEF Idle
<1> QED
  BY <1>1, ApartJob DEF Return

LEMMA RetryApart ==
  ASSUME Right, NEW j \in Job, Retry(j)
  PROVE  Apart
<1>1. /\ log' = log /\ reduced' = reduced /\ UNCHANGED <<active, requests>>
  BY DEF Retry, chainVars
<1>2. PICK label \in {"idle", AfterPass(j)} : job' = [job EXCEPT ![j] = [Idle EXCEPT !.pc = label]]
  BY DEF Retry
<1>3. label # "saveAction"
  BY <1>2 DEF AfterPass
<1>4. reduced <= reduced'
  BY <1>1, LogIs DEF Right
<1> QED
  BY <1>1, <1>2, <1>3, <1>4, IdleApart DEF Apart

LEMMA NextApart ==
  ASSUME Right, Right', [Next]_vars
  PROVE  Apart \/ \E j \in Job : Create(j) \/ SaveRequest(j) \/ SaveAction(j)
<1>0. reduced \in Nat /\ ChainRight /\ Len(log) \in Nat /\ DOMAIN log = 1 .. Len(log)
  BY LogIs DEF Right
<1>1. ASSUME NEW r, Dispatch(r) PROVE Apart
  <2>1. log' = Append(log, r) /\ UNCHANGED <<reduced, active, requests, job>>
    BY <1>1 DEF Dispatch
  <2>2. \A i \in DOMAIN log : i \in DOMAIN log' /\ log'[i] = log[i]
    BY <1>0, <2>1 DEF ChainRight
  <2> QED
    BY <1>0, <2>1, <2>2 DEF Apart
<1>2. ASSUME NEW n \in 1 .. Len(log), ReduceElsewhere(n) PROVE Apart
  <2>1. reduced' = n /\ n > reduced /\ UNCHANGED <<log, active, requests, job>>
    BY <1>2 DEF ReduceElsewhere
  <2> QED
    BY <1>0, <2>1 DEF Apart
<1>3. ASSUME NEW j \in Job, NEW label, label # "saveAction", Goto(j, label),
             UNCHANGED <<chainVars, active, requests>>
      PROVE  Apart
  <2>1. \A k \in Job : job'[k].pc = "saveAction" => job'[k] = job[k]
    BY <1>3, LabelApart
  <2> QED
    BY <1>0, <1>3, <2>1 DEF Apart, chainVars
<1>4. ASSUME NEW j \in Job, NEW label, label # "saveAction",
             job' = [job EXCEPT ![j] = [Idle EXCEPT !.pc = label]],
             UNCHANGED <<chainVars, active, requests>>
      PROVE  Apart
  <2>1. \A k \in Job : job'[k].pc = "saveAction" => job'[k] = job[k]
    BY <1>4, IdleApart
  <2> QED
    BY <1>0, <1>4, <2>1 DEF Apart, chainVars
<1>5. ASSUME NEW j \in Job, Return(j), UNCHANGED <<chainVars, active, requests>>
      PROVE  Apart
  <2>1. \A k \in Job : job'[k].pc = "saveAction" => job'[k] = job[k]
    BY <1>5, ReturnApart
  <2> QED
    BY <1>0, <1>5, <2>1 DEF Apart, chainVars
<1>6. ASSUME NEW j \in Job, NEW m, m.pc # "saveAction", job' = [job EXCEPT ![j] = m],
             UNCHANGED <<chainVars, active, requests>>
      PROVE  Apart
  <2>1. \A k \in Job : job'[k].pc = "saveAction" => job'[k] = job[k]
    BY <1>6, ApartJob
  <2> QED
    BY <1>0, <1>6, <2>1 DEF Apart, chainVars
<1>7. \A j \in Job : IsLocal(job[j])
  BY DEF Right, JobsRight, LocalRight
<1>8. ASSUME NEW j \in Job, Update(j)
      PROVE  Apart \/ Create(j) \/ SaveRequest(j) \/ SaveAction(j)
  <2>1. ASSUME NEW n, FetchState(j, n) PROVE Apart
    BY <1>3, <2>1 DEF FetchState
  <2>2. ASSUME NEW n, FetchEvents(j, n) PROVE Apart
    <3>1. PICK l : l = job[j]
      OBVIOUS
    <3>2. PICK m : m = [l EXCEPT !.pc = "store", !.batch = NextBatch, !.last = n,
                                      !.dimension = 1, !.eventId = Len(events) + 1]
      OBVIOUS
    <3>3. IsLocal(l)
      BY <1>7, <3>1
    <3>4. m.pc = "store"
      BY <3>2, <3>3 DEF IsLocal
    <3>5. job' = [job EXCEPT ![j] = m] /\ UNCHANGED <<chainVars, active, requests>>
      BY <2>2, <3>1, <3>2 DEF FetchEvents
    <3> QED
      BY <1>6, <3>4, <3>5
  <2>3. CASE StoreEvent(j)
    <3>1. PICK m : m = AfterEvent(j)
      OBVIOUS
    <3>2. m.pc = "store"
      BY <1>7, <2>3, <3>1 DEF AfterEvent, StoreEvent, IsLocal
    <3>3. job' = [job EXCEPT ![j] = m] /\ UNCHANGED <<chainVars, active, requests>>
      BY <2>3, <3>1 DEF StoreEvent
    <3> QED
      BY <1>6, <3>2, <3>3
  <2>4. CASE EventsDone(j)
    BY <1>4, <2>4 DEF EventsDone
  <2>5. CASE DuplicateEvent(j) \/ DuplicateRequest(j)
    BY <2>5, RetryApart DEF DuplicateEvent, DuplicateRequest
  <2>6. CASE Find(j)
    <3>1. PICK l : l = job[j]
      OBVIOUS
    <3>2. PICK m : m = [l EXCEPT !.pc = "findLatest", !.actions = NotActive(actionState[Home[j]])]
      OBVIOUS
    <3>3. IsLocal(l)
      BY <1>7, <3>1
    <3>4. m.pc = "findLatest"
      BY <3>2, <3>3 DEF IsLocal
    <3>5. job' = [job EXCEPT ![j] = m] /\ UNCHANGED <<chainVars, active, requests>>
      BY <2>6, <3>1, <3>2 DEF Find
    <3> QED
      BY <1>6, <3>4, <3>5
  <2>7. CASE FindNothing(j)
    <3>1. AfterPass(j) # "saveAction"
      BY DEF AfterPass
    <3> QED
      BY <1>3, <2>7, <3>1 DEF FindNothing
  <2>8. CASE FindLatest(j)
    <3>1. PICK l : l = job[j]
      OBVIOUS
    <3>2. PICK m : m = [l EXCEPT !.pc = "next", !.nextRequestId = Len(requests)]
      OBVIOUS
    <3>3. IsLocal(l)
      BY <1>7, <3>1
    <3>4. m.pc = "next"
      BY <3>2, <3>3 DEF IsLocal
    <3>5. job' = [job EXCEPT ![j] = m] /\ UNCHANGED <<chainVars, active, requests>>
      BY <2>8, <3>1, <3>2 DEF FindLatest
    <3> QED
      BY <1>6, <3>4, <3>5
  <2>9. CASE FindRequest(j)
    <3>1. PICK i : job' = [job EXCEPT ![j].pc = "saveRequest", ![j].result = EventsOf(log[i])]
      BY <2>9 DEF FindRequest
    <3>2. PICK l, result : l = job[j] /\ result = EventsOf(log[i])
      OBVIOUS
    <3>3. PICK m : m = [l EXCEPT !.pc = "saveRequest", !.result = result]
      OBVIOUS
    <3>4. IsLocal(l)
      BY <1>7, <3>2
    <3>5. m.pc = "saveRequest"
      BY <3>3, <3>4 DEF IsLocal
    <3>6. job' = [job EXCEPT ![j] = m]
      BY <3>1, <3>2, <3>3
    <3>7. UNCHANGED <<chainVars, active, requests>>
      BY <2>9 DEF FindRequest
    <3> QED
      BY <1>6, <3>5, <3>6, <3>7
  <2>10. CASE PassDone(j)
    <3>1. AfterPass(j) # "saveAction"
      BY DEF AfterPass
    <3> QED
      BY <1>4, <2>10, <3>1 DEF PassDone
  <2>11. CASE FindRequests(j)
    BY <1>3, <2>11 DEF FindRequests
  <2> QED
    BY <1>8, <2>1, <2>2, <2>3, <2>4, <2>5, <2>6, <2>7, <2>8, <2>9, <2>10, <2>11 DEF Update
<1>9. ASSUME NEW j \in Job, Rollup(j) \/ Skip(j) \/ RollupThrows(j)
      PROVE  Apart
  <2>1. ASSUME NEW n, FindBatch(j, n) PROVE Apart
    <3>1. PICK l : l = job[j]
      OBVIOUS
    <3>2. PICK m : m = [l EXCEPT !.pc = "fetchState", !.actions = NotActive(n)]
      OBVIOUS
    <3>3. IsLocal(l)
      BY <1>7, <3>1
    <3>4. m.pc = "fetchState"
      BY <3>2, <3>3 DEF IsLocal
    <3>5. job' = [job EXCEPT ![j] = m] /\ UNCHANGED <<chainVars, active, requests>>
      BY <2>1, <3>1, <3>2 DEF FindBatch
    <3> QED
      BY <1>6, <3>4, <3>5
  <2>2. CASE FetchRollupState(j)
    <3>1. PICK l : l = job[j]
      OBVIOUS
    <3>0. PICK n \in 0 .. reduced : job' = [job EXCEPT ![j].pc = "clone", ![j].state = n]
      BY <2>2 DEF FetchRollupState
    <3>2. PICK m : m = [l EXCEPT !.pc = "clone", !.state = n]
      OBVIOUS
    <3>3. IsLocal(l)
      BY <1>7, <3>1
    <3>4. m.pc = "clone"
      BY <3>2, <3>3 DEF IsLocal
    <3>5. job' = [job EXCEPT ![j] = m] /\ UNCHANGED <<chainVars, active, requests>>
      BY <2>2, <3>0, <3>1, <3>2 DEF FetchRollupState
    <3> QED
      BY <1>6, <3>4, <3>5
  <2>3. CASE CloneAndProve(j)
    BY <1>3, <2>3 DEF CloneAndProve
  <2>4. CASE ProveFails(j) \/ Skip(j) \/ RollupThrows(j)
    BY <1>5, <2>4 DEF ProveFails, Skip, RollupThrows
  <2>5. CASE Send(j)
    <3>1. log' = log /\ UNCHANGED <<active, requests>> /\ Return(j)
      BY <2>5 DEF Send
    <3>2. reduced <= reduced'
      <4>1. CASE ~ Accepted(j)
        BY <1>0, <2>5, <4>1 DEF Send
      <4>2. CASE Accepted(j)
        <5>1. PICK ids : ids = job[j].actions
          OBVIOUS
        <5>2. ids \subseteq 1 .. Len(log)
          BY <5>1 DEF Right, JobsRight, LocalRight
        <5>3. Cardinality(ids) \in Nat
          BY <1>0, <5>2, BoundedIs
        <5> QED
          BY <1>0, <2>5, <4>2, <5>1, <5>3 DEF Send
      <4> QED
        BY <4>1, <4>2
    <3> QED
      BY <3>1, <3>2, ReturnApart DEF Apart
  <2> QED
    BY <1>9, <2>1, <2>2, <2>3, <2>4, <2>5 DEF Rollup
<1>10. ASSUME NEW p \in Process, Crash(p) PROVE Apart
  <2>1. /\ log' = log /\ reduced' = reduced /\ UNCHANGED <<active, requests>>
        /\ job' = [j \in Job |-> IF Home[j] = p THEN Idle ELSE job[j]]
    BY <1>10 DEF Crash, chainVars
  <2>2. Idle.pc # "saveAction"
    BY DEF Idle
  <2> QED
    BY <1>0, <2>1, <2>2 DEF Apart
<1>11. ASSUME NEW j \in Job, FetchThrows(j) PROVE Apart
  BY <1>11, RetryApart DEF FetchThrows
<1>12. CASE UNCHANGED vars
  BY <1>0, <1>12 DEF vars, chainVars, Apart
<1> QED
  BY <1>1, <1>2, <1>8, <1>9, <1>10, <1>11, <1>12 DEF Next, ChainStep, Fail

(* A document keeps the action that created it.                            *)
LEMMA DocumentStays ==
  ASSUME Right, Right', Grows, NEW d \in DOMAIN requests
  PROVE  d \in DOMAIN requests' /\ requests'[d].create = requests[d].create
<1>1. d \in DOMAIN requests'
  BY RequestsAre DEF Right, RequestsRight, Grows
<1>2. PICK S : S = Creates(1 .. reduced)
  OBVIOUS
<1>3. PICK T : T = Creates(1 .. reduced)'
  OBVIOUS
<1>4. d - 1 \in DOMAIN InOrder(S) /\ requests[d].create = InOrder(S)[d - 1]
  BY <1>2 DEF Right, RequestsRight, RequestsAreOnChain
<1>5. requests'[d].create = InOrder(T)[d - 1]
  <2>1. RequestsAreOnChain'
    BY DEF Right, RequestsRight
  <2>2. InOrder(Creates(1 .. reduced))' = InOrder(Creates(1 .. reduced)')
    OBVIOUS
  <2> QED
    BY <1>1, <1>3, <2>1, <2>2 DEF RequestsAreOnChain
<1>6. InOrder(T)[d - 1] = InOrder(S)[d - 1]
  BY <1>2, <1>3, <1>4, CreationsKeep DEF Right
<1> QED
  BY <1>1, <1>4, <1>5, <1>6

(* A stop between a request and its action, in updateRequestActions(),     *)
(* strands both: a pass never gets past the action again.                  *)
THEOREM StrandedStays == Spec => StrandedForEver
<1>1. ASSUME Right, Right', [Next]_vars
      PROVE  \A i \in ActionId : Stranded(i) => Stranded(i)' /\ {h \in active' : h > i} = {}
  <2> SUFFICES ASSUME NEW i \in ActionId, Stranded(i)
               PROVE  Stranded(i)' /\ {h \in active' : h > i} = {}
    OBVIOUS
  <2>1. PICK d \in DOMAIN requests : requests[d].create = i
    BY DEF Stranded
  <2>2. i \in DOMAIN log /\ log[i] = NewRequest /\ i \in Nat /\ i # 0
    <3>1. i \in Creates(1 .. reduced) /\ 1 .. reduced \subseteq DOMAIN log
      BY <1>1, <2>1, RequestsAre, LogIs DEF Right
    <3> QED
      BY <3>1 DEF Creates, ActionId
  <2>3. Grows
    <3>1. CASE Apart
      BY <1>1, <3>1, Quiet DEF Apart, Right
    <3>2. ASSUME NEW j \in Job, Create(j) \/ SaveRequest(j) \/ SaveAction(j) PROVE Grows
      BY <1>1, <3>2, CreateRight, SaveRequestRight, SaveActionRight
    <3> QED
      BY <1>1, <3>1, <3>2, NextApart
  <2>4. d \in DOMAIN requests' /\ requests'[d].create = i
    BY <1>1, <2>1, <2>3, DocumentStays
  <2>5. i \notin active' /\ \A k \in Job : job'[k].pc = "saveAction" => i \notin Reached(job'[k].actions)
    <3>0. i \notin active /\ \A k \in Job : job[k].pc = "saveAction" => i \notin Reached(job[k].actions)
      BY DEF Stranded
    <3>1. CASE Apart
      BY <3>0, <3>1 DEF Apart
    <3>2. ASSUME NEW j \in Job, Create(j)
          PROVE  i \notin active' /\ \A k \in Job : job'[k].pc = "saveAction" => i \notin Reached(job'[k].actions)
      <4>1. PICK h \in Reached(job[j].actions) : Admits(j, h)
        BY <3>2 DEF Create
      <4>2. h # i
        BY <2>1, <4>1 DEF Admits
      <4>3. PICK l : l = job[j]
        OBVIOUS
      <4>4. LocalRight(l) /\ l.pc \in OverActions
        BY <1>1, <3>2, <4>3 DEF Right, JobsRight, Create, OverActions
      <4>5. Reached(job[j].actions) = {h}
        BY <1>1, <4>1, <4>3, <4>4, FirstIs
      <4>6. active' = active /\ job' = [job EXCEPT ![j].pc = "saveAction", ![j].nextRequestId = @ + 1]
        BY <3>2 DEF Create
      <4>7. IsLocal(job[j]) /\ job = [k \in Job |-> job[k]]
        BY <1>1, <4>3, <4>4 DEF LocalRight, Right, JobsRight
      <4>8. job'[j].actions = job[j].actions /\ \A k \in Job : k # j => job'[k] = job[k]
        BY <4>6, <4>7 DEF IsLocal
      <4> QED
        BY <3>0, <4>2, <4>5, <4>6, <4>8
    <3>3. ASSUME NEW j \in Job, SaveRequest(j)
          PROVE  i \notin active' /\ \A k \in Job : job'[k].pc = "saveAction" => i \notin Reached(job'[k].actions)
      <4>1. PICK l : l = job[j]
        OBVIOUS
      <4>2. LocalRight(l) /\ l.pc = "saveRequest"
        BY <1>1, <3>3, <4>1 DEF Right, JobsRight, SaveRequest
      <4>3. i \notin Reached(l.actions)
        <5>1. \A h \in Reached(l.actions) : log[h] \in 0 .. Len(requests) - 1
          BY <4>2 DEF LocalRight
        <5>2. log[i] \notin 0 .. Len(requests) - 1
          BY <2>2, Bounds
        <5> QED
          BY <5>1, <5>2
      <4>4. active' = active /\ job' = [job EXCEPT ![j].pc = "saveAction", ![j].result = NoEvents]
        BY <3>3 DEF SaveRequest
      <4>5. IsLocal(job[j]) /\ job = [k \in Job |-> job[k]]
        BY <1>1, <4>1, <4>2 DEF LocalRight, Right, JobsRight
      <4>6. job'[j].actions = job[j].actions /\ \A k \in Job : k # j => job'[k] = job[k]
        BY <4>4, <4>5 DEF IsLocal
      <4> QED
        BY <3>0, <4>1, <4>3, <4>4, <4>6
    <3>4. ASSUME NEW j \in Job, SaveAction(j)
          PROVE  i \notin active' /\ \A k \in Job : job'[k].pc = "saveAction" => i \notin Reached(job'[k].actions)
      <4>1. /\ job[j].pc = "saveAction" /\ active' = active \cup Reached(job[j].actions)
            /\ job' = [job EXCEPT ![j].pc = "next", ![j].actions = @ \ Reached(@)]
        BY <3>4 DEF SaveAction
      <4>2. IsLocal(job[j]) /\ job = [k \in Job |-> job[k]]
        BY <1>1 DEF LocalRight, Right, JobsRight
      <4>3. job'[j].pc = "next" /\ \A k \in Job : k # j => job'[k] = job[k]
        BY <4>1, <4>2 DEF IsLocal
      <4> QED
        BY <3>0, <4>1, <4>3
    <3> QED
      BY <1>1, <3>1, <3>2, <3>3, <3>4, NextApart
  <2>6. Stranded(i)'
    BY <2>4, <2>5 DEF Stranded, Reached
  <2>7. {h \in active' : h > i} = {}
    <3>1. ActiveRight' /\ ChainRight' /\ reduced' \in Nat
      BY <1>1, <2>3 DEF Right, Grows
    <3>2. PICK n \in 0 .. reduced' : active' = 1 .. n
      BY <3>1 DEF ActiveRight
    <3>3. n \in Nat /\ ~ (i <= n)
      BY <2>2, <2>5, <3>1, <3>2
    <3> QED
      BY <2>2, <3>2, <3>3
  <2> QED
    BY <2>6, <2>7
<1>2. Right /\ Right' /\ [Next]_vars =>
        [\A i \in ActionId : Stranded(i) => Stranded(i)' /\ {h \in active' : h > i} = {}]_vars
  BY <1>1
<1> QED
  BY <1>2, RightAlways, PTL DEF Spec, StrandedForEver

-----------------------------------------------------------------------------
(***************************************************************************)
(* Trees and batches while the log grows.                                  *)
(***************************************************************************)
\* Nothing is resolved before it is created.
LogSound == \A i \in DOMAIN log : log[i] < Cardinality(Creates(1 .. i - 1))

LEMMA NoTrees == TreesAfter(0) = <<>>
<1>1. Creates(1 .. 0) = {}
  BY DEF Creates
<1>2. Cardinality(Creates(1 .. 0)) = 0
  BY <1>1, FS_EmptySet
<1>3. DOMAIN InOrder(Creates(1 .. 0)) = {}
  BY <1>2 DEF InOrder
<1>4. DOMAIN TreesAfter(0) = {}
  BY <1>3 DEF TreesAfter
<1>5. TreesAfter(0) = [r \in {} |-> TreesAfter(0)[r]]
  BY <1>4 DEF TreesAfter
<1> QED
  BY <1>5

LEMMA TreesAre ==
  ASSUME NEW n \in Nat
  PROVE  /\ DOMAIN TreesAfter(n) = 0 .. Cardinality(Creates(1 .. n)) - 1
         /\ TreesAfter(n) = [r \in DOMAIN TreesAfter(n) |-> TreesAfter(n)[r]]
         /\ \A r \in DOMAIN TreesAfter(n) :
              TreesAfter(n)[r] = [create |-> InOrder(Creates(1 .. n))[r],
                                  result |-> Latest(ResolvesOf(r, 1 .. n))]
<1>1. DOMAIN InOrder(Creates(1 .. n)) = 0 .. Cardinality(Creates(1 .. n)) - 1
  BY DEF InOrder
<1> QED
  BY <1>1 DEF TreesAfter

LEMMA LatestIs ==
  ASSUME NEW m \in Nat, NEW ids, ids \subseteq 1 .. m
  PROVE  Latest(ids \cup {m + 1}) = m + 1 /\ Latest({}) = 0
<1>1. \A i \in ids \cup {m + 1} : (\A h \in ids \cup {m + 1} : h <= i) <=> i = m + 1
  <2> SUFFICES ASSUME NEW i \in ids \cup {m + 1}
               PROVE  (\A h \in ids \cup {m + 1} : h <= i) <=> i = m + 1
    OBVIOUS
  <2>1. \A h \in ids : h \in Nat /\ h <= m
    OBVIOUS
  <2>2. i \in Nat /\ (i <= m \/ i = m + 1)
    BY <2>1
  <2> QED
    BY <2>1, <2>2
<1>2. ids \cup {m + 1} # {}
  OBVIOUS
<1>3. Latest(ids \cup {m + 1}) = m + 1
  BY <1>1, <1>2 DEF Latest
<1> QED
  BY <1>3 DEF Latest

(* The trees after one more action that creates a request.                 *)
LEMMA TreesCreate ==
  ASSUME LogSound, NEW m \in Nat, NEW c, c = Cardinality(Creates(1 .. m)),
         1 .. m + 1 \subseteq DOMAIN log, log[m + 1] = NewRequest
  PROVE  TreesAfter(m + 1) = [r \in 0 .. c |-> IF r = c THEN [create |-> m + 1, result |-> 0]
                                               ELSE TreesAfter(m)[r]]
<1>1. c \in Nat /\ IsFiniteSet(Creates(1 .. m)) /\ Creates(1 .. m) \subseteq Nat
  BY KindsAre
<1>2. /\ Creates(1 .. m + 1) = Creates(1 .. m) \cup {m + 1}
      /\ Cardinality(Creates(1 .. m + 1)) = c + 1
  BY KindsNext
<1>3. \A i \in Creates(1 .. m) : i < m + 1
  BY DEF Creates
<1>4. /\ InOrder(Creates(1 .. m) \cup {m + 1})[c] = m + 1
      /\ \A r \in DOMAIN InOrder(Creates(1 .. m)) :
           InOrder(Creates(1 .. m) \cup {m + 1})[r] = InOrder(Creates(1 .. m))[r]
  <2>1. PICK S : S = Creates(1 .. m)
    OBVIOUS
  <2>2. m + 1 \in Nat /\ IsFiniteSet(S) /\ S \subseteq Nat /\ \A i \in S : i < m + 1
    BY <1>1, <1>3, <2>1
  <2> QED
    BY <2>1, <2>2, InOrderNext
<1>5. DOMAIN TreesAfter(m + 1) = 0 .. c
  <2>1. m + 1 \in Nat /\ (c + 1) - 1 = c
    BY <1>1
  <2> QED
    BY <1>2, <2>1, TreesAre
<1>6. ASSUME NEW r \in 0 .. c
      PROVE  TreesAfter(m + 1)[r] = IF r = c THEN [create |-> m + 1, result |-> 0] ELSE TreesAfter(m)[r]
  <2>1. TreesAfter(m + 1)[r] = [create |-> InOrder(Creates(1 .. m + 1))[r],
                                result |-> Latest(ResolvesOf(r, 1 .. m + 1))]
    <3>1. m + 1 \in Nat
      OBVIOUS
    <3> QED
      BY <1>5, <3>1, TreesAre
  <2>2. ResolvesOf(r, 1 .. m + 1) = ResolvesOf(r, 1 .. m)
    <3>1. 1 .. m + 1 = 1 .. m \cup {m + 1}
      OBVIOUS
    <3>2. r # NewRequest
      BY <1>1, Bounds
    <3> QED
      BY <3>1, <3>2 DEF ResolvesOf
  <2>3. CASE r = c
    <3>1. ResolvesOf(r, 1 .. m) = {}
      <4> SUFFICES ASSUME NEW i \in 1 .. m, log[i] = c PROVE FALSE
        BY <2>3 DEF ResolvesOf
      <4>1. i \in DOMAIN log /\ log[i] < Cardinality(Creates(1 .. i - 1))
        BY DEF LogSound
      <4>2. 1 .. i - 1 \subseteq 1 .. m /\ i - 1 \in Nat
        OBVIOUS
      <4>3. PICK few : few = 1 .. i - 1
        OBVIOUS
      <4>4. Cardinality(Creates(few)) <= c /\ Cardinality(Creates(few)) \in Nat
        BY <4>2, <4>3, KindsGrow, KindsAre
      <4> QED
        BY <1>1, <4>1, <4>3, <4>4
    <3>2. Latest({}) = 0
      BY DEF Latest
    <3> QED
      BY <1>2, <1>4, <2>1, <2>2, <2>3, <3>1, <3>2
  <2>4. CASE r # c
    <3>1. r \in 0 .. c - 1
      BY <1>1, <2>4
    <3>2. r \in DOMAIN TreesAfter(m) /\ r \in DOMAIN InOrder(Creates(1 .. m))
      BY <3>1, TreesAre DEF InOrder
    <3>3. TreesAfter(m)[r] = [create |-> InOrder(Creates(1 .. m))[r],
                              result |-> Latest(ResolvesOf(r, 1 .. m))]
      BY <3>2, TreesAre
    <3> QED
      BY <1>2, <1>4, <2>1, <2>2, <2>4, <3>2, <3>3
  <2> QED
    BY <2>3, <2>4
<1>7. TreesAfter(m + 1) = [r \in 0 .. c |-> TreesAfter(m + 1)[r]]
  <2>1. m + 1 \in Nat
    OBVIOUS
  <2>2. TreesAfter(m + 1) = [r \in DOMAIN TreesAfter(m + 1) |-> TreesAfter(m + 1)[r]]
    BY <2>1, TreesAre
  <2> QED
    BY <1>5, <2>2, Zenon
<1> QED
  BY <1>6, <1>7

(* The trees after one more action that resolves a request.                *)
LEMMA TreesResolve ==
  ASSUME NEW m \in Nat, NEW x, x = log[m + 1], x # NewRequest,
         x \in DOMAIN TreesAfter(m)
  PROVE  TreesAfter(m + 1) = [r \in DOMAIN TreesAfter(m) |->
                                IF r = x THEN [create |-> TreesAfter(m)[r].create, result |-> m + 1]
                                ELSE TreesAfter(m)[r]]
<1>0. m + 1 \in Nat
  OBVIOUS
<1>1. Creates(1 .. m + 1) = Creates(1 .. m)
  BY KindsNext
<1>2. DOMAIN TreesAfter(m + 1) = DOMAIN TreesAfter(m)
  BY <1>0, <1>1, TreesAre
<1>3. 1 .. m + 1 = 1 .. m \cup {m + 1}
  OBVIOUS
<1>4. ASSUME NEW r \in DOMAIN TreesAfter(m)
      PROVE  TreesAfter(m + 1)[r] =
               IF r = x THEN [create |-> TreesAfter(m)[r].create, result |-> m + 1]
               ELSE TreesAfter(m)[r]
  <2>1. /\ TreesAfter(m + 1)[r] = [create |-> InOrder(Creates(1 .. m))[r],
                                   result |-> Latest(ResolvesOf(r, 1 .. m + 1))]
        /\ TreesAfter(m)[r] = [create |-> InOrder(Creates(1 .. m))[r],
                               result |-> Latest(ResolvesOf(r, 1 .. m))]
    BY <1>0, <1>1, <1>2, TreesAre
  <2>2. CASE r = x
    <3>1. ResolvesOf(r, 1 .. m + 1) = ResolvesOf(r, 1 .. m) \cup {m + 1} /\ ResolvesOf(r, 1 .. m) \subseteq 1 .. m
      BY <1>3, <2>2 DEF ResolvesOf
    <3>2. Latest(ResolvesOf(r, 1 .. m) \cup {m + 1}) = m + 1
      BY <3>1, LatestIs
    <3>3. TreesAfter(m)[r].create = InOrder(Creates(1 .. m))[r]
      BY <2>1
    <3>4. TreesAfter(m + 1)[r] = [create |-> TreesAfter(m)[r].create, result |-> m + 1]
      BY <2>1, <3>1, <3>2, <3>3, Zenon
    <3> QED
      BY <2>2, <3>4
  <2>3. CASE r # x
    <3>1. ResolvesOf(r, 1 .. m + 1) = ResolvesOf(r, 1 .. m)
      BY <1>3, <2>3 DEF ResolvesOf
    <3> QED
      BY <2>1, <2>3, <3>1
  <2> QED
    BY <2>2, <2>3
<1>5. TreesAfter(m + 1) = [r \in DOMAIN TreesAfter(m) |-> TreesAfter(m + 1)[r]]
  BY <1>0, <1>2, TreesAre
<1> QED
  BY <1>4, <1>5

(* Batches keep their actions while the log grows.                         *)
LEMMA BatchesKeep ==
  ASSUME ChainRight, ChainRight', \A i \in DOMAIN log : i \in DOMAIN log' /\ log'[i] = log[i],
         NEW b \in Batches
  PROVE  b \in Batches' /\ ActionOf(b)' = ActionOf(b)
<1>1. PICK S : S = Resolves(1 .. Len(log))
  OBVIOUS
<1>2. PICK T : T = Resolves(1 .. Len(log))'
  OBVIOUS
<1>3. /\ Len(log) \in Nat /\ DOMAIN log = 1 .. Len(log)
      /\ Len(log') \in Nat /\ DOMAIN log' = 1 .. Len(log')
  BY LogIs DEF ChainRight
<1>4. IsFiniteSet(T) /\ T \subseteq Nat /\ T \subseteq 1 .. Len(log')
  <2>1. T \subseteq 1 .. Len(log')
    BY <1>2 DEF Resolves
  <2> QED
    BY <1>3, <2>1, BoundedIs
<1>5. S \subseteq T
  BY <1>1, <1>2, <1>3 DEF Resolves
<1>6. ASSUME NEW i \in S, NEW h \in T, h < i PROVE h \in S
  <2>1. i \in 1 .. Len(log) /\ h \in 1 .. Len(log') /\ log'[h] # NewRequest
    BY <1>1, <1>2 DEF Resolves
  <2>2. h \in 1 .. Len(log)
    BY <1>3, <1>6, <2>1
  <2>3. log[h] # NewRequest
    BY <1>3, <2>1, <2>2
  <2> QED
    BY <1>1, <2>2, <2>3 DEF Resolves
<1>7. b \in DOMAIN InOrder(S) /\ ActionOf(b) = InOrder(S)[b]
  BY <1>1 DEF Batches, ActionOf
<1>8. b \in DOMAIN InOrder(T) /\ InOrder(T)[b] = InOrder(S)[b]
  BY <1>4, <1>5, <1>6, <1>7, InOrderPrefix
<1>9. InOrder(Resolves(1 .. Len(log)))' = InOrder(T)
  BY <1>2 DEF InOrder
<1>10. b \in Batches' /\ ActionOf(b)' = InOrder(T)[b]
  BY <1>8, <1>9 DEF Batches, ActionOf
<1> QED
  BY <1>7, <1>8, <1>10

LEMMA WholeKeeps ==
  ASSUME ChainRight, ChainRight', \A i \in DOMAIN log : i \in DOMAIN log' /\ log'[i] = log[i],
         NEW i, NEW result, WholeResult(i, result)
  PROVE  WholeResult(i, result)'
<1>1. PICK b \in Batches : /\ ActionOf(b) = i
                           /\ \A k \in Dimension : [batch |-> b, dimension |-> k] \in result
  BY DEF WholeResult
<1>2. b \in Batches' /\ ActionOf(b)' = i
  BY <1>1, BatchesKeep
<1> QED
  BY <1>1, <1>2 DEF WholeResult

LEMMA BatchesOfKeep ==
  ASSUME ChainRight, \A i \in DOMAIN log : i \in DOMAIN log' /\ log'[i] = log[i], NEW i \in 0 .. Len(log)
  PROVE  BatchesOf(i)' = BatchesOf(i)
<1>1. \A h \in 1 .. i : log'[h] = log[h]
  <2>1. 1 .. i \subseteq DOMAIN log
    BY LogIs
  <2> QED
    BY <2>1
<1>2. Resolves(1 .. i)' = Resolves(1 .. i)
  BY <1>1 DEF Resolves
<1> QED
  BY <1>2 DEF BatchesOf

LEMMA BatchesOfAre ==
  ASSUME ChainRight, NEW s \in 0 .. Len(log), NEW i \in 0 .. s
  PROVE  /\ BatchesOf(i) \in Nat /\ BatchesOf(s) \in Nat /\ BatchesOf(i) <= BatchesOf(s)
         /\ BatchesOf(s) <= Cardinality(Batches)
<1>1. /\ Len(log) \in Nat /\ s \in Nat /\ i \in Nat
      /\ 1 .. i \subseteq 1 .. s /\ 1 .. s \subseteq 1 .. Len(log)
  BY LogIs
<1>2. PICK few, some : few = 1 .. i /\ some = 1 .. s
  OBVIOUS
<1>3. Cardinality(Resolves(few)) \in Nat /\ Cardinality(Resolves(some)) \in Nat
  BY <1>1, <1>2, KindsAre
<1>4. Cardinality(Resolves(few)) <= Cardinality(Resolves(some))
  BY <1>1, <1>2, KindsGrow
<1>5. Cardinality(Resolves(some)) <= Cardinality(Resolves(1 .. Len(log)))
  BY <1>1, <1>2, KindsGrow
<1>6. Cardinality(Batches) = Cardinality(Resolves(1 .. Len(log)))
  BY BatchesAre
<1> QED
  BY <1>2, <1>3, <1>4, <1>5, <1>6 DEF BatchesOf

-----------------------------------------------------------------------------
(***************************************************************************)
(* SteadyRight, by what a step leaves alone.                               *)
(***************************************************************************)
Passing == {"fetchEvents", "store", "find", "findLatest", "next", "saveRequest", "saveAction"}

LEMMA PassingIs ==
  /\ \A j \in Job : InPass(j) <=> job[j].pc \in Passing
  /\ \A j \in Job : InPass(j)' <=> job'[j].pc \in Passing
  /\ OverActions \subseteq Passing
  /\ {"store", "find", "saveRequest", "saveAction"} \subseteq Passing
  /\ {"idle", "findRequests", "updated", "fetchState", "clone", "send"} \cap Passing = {}
BY DEF InPass, Passing, OverActions

LEMMA AfterPassIs ==
  ASSUME NEW j
  PROVE  AfterPass(j) \notin Passing
BY DEF AfterPass, Passing

LEMMA QuietLocal ==
  ASSUME NEW m, m.pc \notin Passing, NEW s
  PROVE  SteadyLocal(m, s)
BY DEF SteadyLocal, Passing, OverActions

LEMMA OnlySaver ==
  ASSUME NEW a, NEW jobs, NEW j \in Job, jobs[j].pc = "saveAction",
         \A k \in Job : k # j => jobs[k].pc # "saveAction"
  PROVE  a \cup UNION {Reached(jobs[k].actions) : k \in {h \in Job : jobs[h].pc = "saveAction"}}
           = a \cup Reached(jobs[j].actions)
<1>1. {h \in Job : jobs[h].pc = "saveAction"} = {j}
  OBVIOUS
<1>2. {Reached(jobs[k].actions) : k \in {j}} = {Reached(jobs[j].actions)}
  OBVIOUS
<1>3. UNION {Reached(jobs[j].actions)} = Reached(jobs[j].actions)
  OBVIOUS
<1> QED
  BY <1>1, <1>2, <1>3

LEMMA NoSaver ==
  ASSUME NEW a, NEW jobs, \A k \in Job : jobs[k].pc # "saveAction"
  PROVE  a \cup UNION {Reached(jobs[k].actions) : k \in {h \in Job : jobs[h].pc = "saveAction"}} = a
<1>1. {h \in Job : jobs[h].pc = "saveAction"} = {}
  OBVIOUS
<1> QED
  BY <1>1

LEMMA SameSavers ==
  ASSUME active' = active,
         \A k \in Job : job[k].pc = "saveAction" \/ job'[k].pc = "saveAction" => job'[k] = job[k]
  PROVE  Applied' = Applied
<1>1. {h \in Job : job'[h].pc = "saveAction"} = {h \in Job : job[h].pc = "saveAction"}
  OBVIOUS
<1>2. \A k \in {h \in Job : job[h].pc = "saveAction"} : job'[k] = job[k]
  OBVIOUS
<1>3. {Reached(job'[k].actions) : k \in {h \in Job : job'[h].pc = "saveAction"}}
        = {Reached(job[k].actions) : k \in {h \in Job : job[h].pc = "saveAction"}}
  BY <1>1, <1>2
<1> QED
  BY <1>3 DEF Applied, Reached

LEMMA SteadyIs ==
  ASSUME SteadyRight, steady
  PROVE  /\ OnePass /\ EventsSteady /\ DocumentsSteady /\ ResultsSteady
         /\ (\E n \in 0 .. reduced : storage = TreesAfter(n))
         /\ \A j \in Job : SteadyLocal(job[j], actionState[Home[j]])
BY DEF SteadyRight

(* The documents of the actions up to one number remain so.                *)
LEMMA DocumentsKeep ==
  ASSUME Right, DocumentsSteady, \A i \in DOMAIN log : i \in DOMAIN log' /\ log'[i] = log[i],
         reduced' \in Nat, reduced <= reduced', requests' = requests, Applied' = Applied
  PROVE  DocumentsSteady'
<1>1. PICK m \in 0 .. reduced : Applied = 1 .. m /\ Leaves = TreesAfter(m)
  BY DEF DocumentsSteady
<1>2. m \in 0 .. reduced' /\ 1 .. m \subseteq DOMAIN log
  BY LogIs DEF Right
<1>3. TreesAfter(m)' = TreesAfter(m)
  BY <1>2, SameTrees
<1>4. Leaves' = Leaves
  BY DEF Leaves
<1> QED
  BY <1>1, <1>2, <1>3, <1>4 DEF DocumentsSteady

LEMMA ResultsKeep ==
  ASSUME ChainRight, ChainRight', ResultsSteady, requests' = requests,
         \A i \in DOMAIN log : i \in DOMAIN log' /\ log'[i] = log[i]
  PROVE  ResultsSteady'
<1> SUFFICES ASSUME NEW d \in DOMAIN requests, requests[d].resolve # 0
             PROVE  WholeResult(requests[d].resolve, requests[d].result)'
  BY DEF ResultsSteady
<1>1. PICK i, result : i = requests[d].resolve /\ result = requests[d].result
  OBVIOUS
<1>2. WholeResult(i, result)
  BY <1>1 DEF ResultsSteady
<1>3. WholeResult(i, result)'
  BY <1>2, WholeKeeps
<1>4. requests'[d].resolve = i /\ requests'[d].result = result
  BY <1>1
<1> QED
  BY <1>3, <1>4

LEMMA StorageSteady ==
  ASSUME Right, DocumentsSteady, \E n \in 0 .. reduced : storage = TreesAfter(n),
         storage' = storage \/ storage' = <<>> \/ storage' = Leaves,
         \A i \in DOMAIN log : i \in DOMAIN log' /\ log'[i] = log[i], reduced' \in Nat, reduced <= reduced'
  PROVE  (\E n \in 0 .. reduced : storage = TreesAfter(n))'
<1>1. \A n \in 0 .. reduced : n \in 0 .. reduced' /\ TreesAfter(n)' = TreesAfter(n)
  <2> SUFFICES ASSUME NEW n \in 0 .. reduced PROVE n \in 0 .. reduced' /\ TreesAfter(n)' = TreesAfter(n)
    OBVIOUS
  <2>1. n \in 0 .. reduced' /\ 1 .. n \subseteq DOMAIN log
    BY LogIs DEF Right
  <2> QED
    BY <2>1, SameTrees
<1>2. \E n \in 0 .. reduced : storage' = TreesAfter(n)
  <2>1. CASE storage' = <<>>
    <3>1. 0 \in 0 .. reduced
      BY LogIs DEF Right
    <3> QED
      BY <2>1, <3>1, NoTrees
  <2>2. CASE storage' = Leaves
    BY <2>2 DEF DocumentsSteady
  <2> QED
    BY <2>1, <2>2
<1> QED
  BY <1>1, <1>2

(* A step that leaves events, documents and what is being saved.           *)
LEMMA SteadyAside ==
  ASSUME Right, Right', SteadyRight, steady, log' = log, reduced' \in Nat, reduced <= reduced',
         UNCHANGED <<events, active, requests>>,
         storage' = storage \/ storage' = <<>> \/ storage' = Leaves,
         OnePass',
         \A k \in Job : job[k].pc = "saveAction" \/ job'[k].pc = "saveAction" => job'[k] = job[k],
         (\A k \in Job : job'[k].pc # "store") => \E b \in Nat : Len(events) = 2 * b,
         \A k \in Job : SteadyLocal(job'[k], actionState'[Home[k]])
  PROVE  SteadyRight'
<1>1. /\ EventsSteady /\ DocumentsSteady /\ ResultsSteady
      /\ (\E n \in 0 .. reduced : storage = TreesAfter(n))
  BY SteadyIs
<1>2. ChainRight /\ ChainRight' /\ \A i \in DOMAIN log : i \in DOMAIN log' /\ log'[i] = log[i]
  BY DEF Right
<1>3. EventsSteady'
  BY <1>1 DEF EventsSteady
<1>4. DocumentsSteady'
  BY <1>1, <1>2, SameSavers, DocumentsKeep
<1>5. ResultsSteady'
  BY <1>1, <1>2, ResultsKeep
<1>6. (\E n \in 0 .. reduced : storage = TreesAfter(n))'
  BY <1>1, <1>2, StorageSteady
<1>7. ASSUME NEW k \in Job PROVE SteadyLocal(job[k], actionState[Home[k]])'
  <2>1. PICK l, s : l = job'[k] /\ s = actionState'[Home[k]]
    OBVIOUS
  <2>2. SteadyLocal(l, s)
    BY <2>1
  <2>3. BatchesOf(s)' = BatchesOf(s) /\ \A i : BatchesOf(i)' = BatchesOf(i)
    BY DEF BatchesOf, Resolves
  <2>4. \A i, result : WholeResult(i, result)' = WholeResult(i, result)
    BY DEF WholeResult, Batches, ActionOf, Resolves, InOrder
  <2>5. SteadyLocal(l, s)'
    BY <2>2, <2>3, <2>4 DEF SteadyLocal, Reached
  <2> QED
    BY <2>1, <2>5
<1> QED
  BY <1>3, <1>4, <1>5, <1>6, <1>7 DEF SteadyRight

(* A step of one job that leaves what the others see.                      *)
LEMMA SteadyJob ==
  ASSUME Right, Right', SteadyRight, steady,
         UNCHANGED <<chainVars, events, active, requests, actionState>>,
         storage' = storage \/ storage' = Leaves,
         NEW j \in Job, NEW m, job' = [job EXCEPT ![j] = m],
         job[j].pc # "saveAction", m.pc # "saveAction",
         m.pc \in Passing => job[j].pc \in Passing,
         job[j].pc = "store" => \E b \in Nat : Len(events) = 2 * b,
         SteadyLocal(m, actionState[Home[j]])
  PROVE  SteadyRight'
<1>1. OnePass /\ EventsSteady /\ \A k \in Job : SteadyLocal(job[k], actionState[Home[k]])
  BY SteadyIs
<1>2. job'[j] = m /\ \A k \in Job : k # j => job'[k] = job[k]
  BY DEF Right, JobsRight
<1>3. OnePass'
  <2>1. \A k \in Job : job'[k].pc \in Passing => job[k].pc \in Passing
    BY <1>2
  <2> QED
    BY <1>1, <2>1, PassingIs DEF OnePass
<1>4. \A k \in Job : job[k].pc = "saveAction" \/ job'[k].pc = "saveAction" => job'[k] = job[k]
  BY <1>2
<1>5. (\A k \in Job : job'[k].pc # "store") => \E b \in Nat : Len(events) = 2 * b
  BY <1>1, <1>2 DEF EventsSteady
<1>6. \A k \in Job : SteadyLocal(job'[k], actionState'[Home[k]])
  BY <1>1, <1>2
<1>7. log' = log /\ reduced' = reduced /\ reduced' \in Nat /\ reduced <= reduced'
  BY LogIs DEF Right, chainVars
<1> QED
  BY <1>3, <1>4, <1>5, <1>6, <1>7, SteadyAside

(* A step of the pass that there is.                                       *)
LEMMA SteadyPass ==
  ASSUME Right, Right', SteadyRight, steady,
         UNCHANGED <<chainVars, actionState, storage>>,
         NEW j \in Job, NEW m, job' = [job EXCEPT ![j] = m],
         job[j].pc \in Passing,
         EventsSteady', DocumentsSteady', ResultsSteady', SteadyLocal(m, actionState[Home[j]])'
  PROVE  SteadyRight'
<1>1. OnePass /\ \E n \in 0 .. reduced : storage = TreesAfter(n)
  BY SteadyIs
<1>2. job'[j] = m /\ \A k \in Job : k # j => job'[k] = job[k]
  BY DEF Right, JobsRight
<1>3. \A k \in Job : k # j => job[k].pc \notin Passing
  BY <1>1, PassingIs DEF OnePass
<1>4. OnePass'
  BY <1>2, <1>3, PassingIs DEF OnePass
<1>5. log' = log /\ reduced' = reduced /\ reduced' \in Nat /\ reduced <= reduced'
  BY LogIs DEF Right, chainVars
<1>6. (\E n \in 0 .. reduced : storage = TreesAfter(n))'
  <2>1. \A n : TreesAfter(n)' = TreesAfter(n)
    BY <1>5 DEF TreesAfter, Creates, ResolvesOf
  <2> QED
    BY <1>1, <1>5, <2>1
<1>7. ASSUME NEW k \in Job PROVE SteadyLocal(job[k], actionState[Home[k]])'
  <2>1. CASE k = j
    BY <1>2, <2>1
  <2>2. CASE k # j
    <3>1. job'[k].pc \notin Passing
      BY <1>2, <1>3, <2>2
    <3> QED
      BY <3>1 DEF SteadyLocal, Passing, OverActions
  <2> QED
    BY <2>1, <2>2
<1> QED
  BY <1>4, <1>6, <1>7 DEF SteadyRight

(* No event is left out or written twice, and there is one pass.           *)
LEMMA StoreIs ==
  ASSUME Right, SteadyRight, steady, NEW j \in Job, job[j].pc = "store"
  PROVE  /\ job[j].eventId = Len(events) + 1
         /\ job[j].eventId = 2 * job[j].batch + job[j].dimension
         /\ (job[j].dimension # 2 => Len(events) = 2 * job[j].batch)
         /\ (job[j].dimension # 2 => \E b \in Nat : Len(events) = 2 * b)
         /\ BatchesOf(actionState[Home[j]]) <= job[j].last
<1>1. PICK l, s : l = job[j] /\ s = actionState[Home[j]]
  OBVIOUS
<1>2. LocalRight(l) /\ SteadyLocal(l, s)
  BY <1>1, SteadyIs DEF Right, JobsRight
<1>3. l.eventId = Len(events) + 1 /\ l.eventId = 2 * l.batch + l.dimension /\ BatchesOf(s) <= l.last
  BY <1>1, <1>2 DEF SteadyLocal
<1>4. l.batch \in Nat /\ l.dimension \in {1, 2} /\ Len(events) \in Nat
  BY <1>2, Bounds, EventsAre DEF LocalRight, Dimension, Right
<1>5. l.dimension # 2 => Len(events) = 2 * l.batch
  BY <1>3, <1>4
<1> QED
  BY <1>1, <1>3, <1>4, <1>5

-----------------------------------------------------------------------------
(***************************************************************************)
(* SteadyRight: the contract, and fetchRequestEvents().                    *)
(***************************************************************************)
LEMMA LocalsAre ==
  ASSUME Right
  PROVE  \A j \in Job : IsLocal(job[j]) /\ LocalRight(job[j])
BY DEF Right, JobsRight, LocalRight

LEMMA GotoSteady ==
  ASSUME Right, Right', SteadyRight, steady,
         UNCHANGED <<chainVars, events, active, requests, actionState>>,
         storage' = storage \/ storage' = Leaves,
         NEW j \in Job, NEW label, label \notin Passing, Goto(j, label),
         job[j].pc # "store", job[j].pc # "saveAction"
  PROVE  SteadyRight'
<1>1. PICK l : l = job[j]
  OBVIOUS
<1>2. IsLocal(l)
  BY <1>1, LocalsAre
<1>3. PICK m : m = [l EXCEPT !.pc = label]
  OBVIOUS
<1>4. m.pc = label
  BY <1>2, <1>3 DEF IsLocal
<1>5. job' = [job EXCEPT ![j] = m]
  BY <1>1, <1>3 DEF Goto
<1>6. m.pc \notin Passing /\ m.pc # "saveAction" /\ SteadyLocal(m, actionState[Home[j]])
  BY <1>4, QuietLocal, PassingIs
<1> QED
  BY <1>5, <1>6, SteadyJob

LEMMA BackSteady ==
  ASSUME Right, Right', SteadyRight, steady,
         UNCHANGED <<chainVars, events, active, requests, actionState, storage>>,
         NEW j \in Job, NEW label, label \notin Passing,
         job' = [job EXCEPT ![j] = [Idle EXCEPT !.pc = label]],
         job[j].pc = "store" => \E b \in Nat : Len(events) = 2 * b, job[j].pc # "saveAction"
  PROVE  SteadyRight'
<1>1. PICK m : m = [Idle EXCEPT !.pc = label]
  OBVIOUS
<1>2. m.pc = label
  BY <1>1 DEF Idle
<1>3. job' = [job EXCEPT ![j] = m]
  BY <1>1
<1>4. m.pc \notin Passing /\ m.pc # "saveAction" /\ SteadyLocal(m, actionState[Home[j]])
  BY <1>2, QuietLocal, PassingIs
<1> QED
  BY <1>3, <1>4, SteadyJob

LEMMA ReturnSteady ==
  ASSUME Right, Right', SteadyRight, steady,
         UNCHANGED <<chainVars, events, active, requests, actionState, storage>>,
         NEW j \in Job, Return(j), job[j].pc # "store", job[j].pc # "saveAction"
  PROVE  SteadyRight'
<1>1. Idle = [Idle EXCEPT !.pc = "idle"]
  BY DEF Idle
<1>2. job' = [job EXCEPT ![j] = [Idle EXCEPT !.pc = "idle"]]
  BY <1>1 DEF Return
<1>3. "idle" \notin Passing
  BY PassingIs
<1> QED
  BY <1>2, <1>3, BackSteady

LEMMA RetrySteady ==
  ASSUME Right, Right', SteadyRight, steady, NEW j \in Job, Retry(j),
         job[j].pc = "store" => \E b \in Nat : Len(events) = 2 * b, job[j].pc # "saveAction"
  PROVE  SteadyRight'
<1>1. UNCHANGED <<chainVars, events, active, requests, actionState, storage>>
  BY DEF Retry
<1>2. PICK label \in {"idle", AfterPass(j)} : job' = [job EXCEPT ![j] = [Idle EXCEPT !.pc = label]]
  BY DEF Retry
<1>3. label \notin Passing
  BY <1>2, PassingIs, AfterPassIs
<1> QED
  BY <1>1, <1>2, <1>3, BackSteady

LEMMA DispatchSteady ==
  ASSUME Right, Right', SteadyRight, steady, NEW r, Dispatch(r)
  PROVE  SteadyRight'
<1>1. /\ log' = Append(log, r)
      /\ UNCHANGED <<reduced, events, active, requests, actionState, storage, job, steady>>
  BY DEF Dispatch
<1>2. ChainRight /\ ChainRight' /\ Len(log) \in Nat /\ DOMAIN log = 1 .. Len(log) /\ reduced \in Nat
      /\ reduced <= Len(log)
  BY LogIs DEF Right
<1>3. \A i \in DOMAIN log : i \in DOMAIN log' /\ log'[i] = log[i]
  BY <1>1, <1>2 DEF ChainRight
<1>4. /\ OnePass /\ EventsSteady /\ DocumentsSteady /\ ResultsSteady
      /\ (\E n \in 0 .. reduced : storage = TreesAfter(n))
      /\ \A j \in Job : SteadyLocal(job[j], actionState[Home[j]])
  BY SteadyIs
<1>5. OnePass' /\ EventsSteady'
  BY <1>1, <1>4 DEF OnePass, InPass, EventsSteady
<1>6. DocumentsSteady'
  BY <1>1, <1>2, <1>3, <1>4, SameSavers, DocumentsKeep
<1>7. ResultsSteady'
  BY <1>1, <1>2, <1>3, <1>4, ResultsKeep
<1>8. (\E n \in 0 .. reduced : storage = TreesAfter(n))'
  BY <1>1, <1>2, <1>3, <1>4, StorageSteady
<1>9. ASSUME NEW j \in Job PROVE SteadyLocal(job[j], actionState[Home[j]])'
  <2>1. PICK l, s : l = job[j] /\ s = actionState[Home[j]]
    OBVIOUS
  <2>2. SteadyLocal(l, s) /\ LocalRight(l) /\ s \in 0 .. reduced
    BY <1>2, <1>4, <2>1, LocalsAre, LogIs, Bounds
  <2>3. s \in 0 .. Len(log) /\ \A i \in l.actions : i \in 0 .. Len(log)
    BY <1>2, <2>2 DEF LocalRight
  <2>4. BatchesOf(s)' = BatchesOf(s) /\ \A i \in l.actions : BatchesOf(i)' = BatchesOf(i)
    BY <1>2, <1>3, <2>3, BatchesOfKeep
  <2>5. \A i, result : WholeResult(i, result) => WholeResult(i, result)'
    BY <1>2, <1>3, WholeKeeps
  <2>6. SteadyLocal(l, s)'
    BY <1>1, <2>2, <2>4, <2>5 DEF SteadyLocal, Reached
  <2> QED
    BY <1>1, <2>1, <2>6
<1> QED
  BY <1>5, <1>6, <1>7, <1>8, <1>9 DEF SteadyRight

LEMMA ReduceSteady ==
  ASSUME Right, Right', SteadyRight, steady, NEW n \in 1 .. Len(log), ReduceElsewhere(n)
  PROVE  SteadyRight'
<1>1. /\ n > reduced /\ reduced' = n
      /\ UNCHANGED <<log, events, active, requests, actionState, storage, job, steady>>
  BY DEF ReduceElsewhere
<1>2. reduced' \in Nat /\ reduced <= reduced'
  BY <1>1, LogIs DEF Right
<1>3. /\ OnePass /\ EventsSteady /\ \A k \in Job : SteadyLocal(job[k], actionState[Home[k]])
  BY SteadyIs
<1>4. OnePass'
  BY <1>1, <1>3 DEF OnePass, InPass
<1>5. (\A k \in Job : job'[k].pc # "store") => \E b \in Nat : Len(events) = 2 * b
  BY <1>1, <1>3 DEF EventsSteady
<1> QED
  BY <1>1, <1>2, <1>3, <1>4, <1>5, SteadyAside

LEMMA FetchStateSteady ==
  ASSUME Right, Right', SteadyRight, steady, steady', NEW j \in Job, NEW n, FetchState(j, n)
  PROVE  SteadyRight'
<1>1. /\ job[j].pc = "idle" /\ Goto(j, "fetchEvents") /\ \A k \in Job \ {j} : job[k].pc \notin Passing
      /\ UNCHANGED <<log, reduced, events, active, requests, storage>>
  BY PassingIs DEF FetchState, chainVars
<1>2. PICK l : l = job[j]
  OBVIOUS
<1>3. IsLocal(l)
  BY <1>2, LocalsAre
<1>4. PICK m : m = [l EXCEPT !.pc = "fetchEvents"]
  OBVIOUS
<1>5. m.pc = "fetchEvents"
  BY <1>3, <1>4 DEF IsLocal
<1>6. job' = [job EXCEPT ![j] = m]
  BY <1>1, <1>2, <1>4 DEF Goto
<1>7. job'[j] = m /\ \A k \in Job : k # j => job'[k] = job[k] /\ job[k].pc \notin Passing
  BY <1>1, <1>6 DEF Right, JobsRight
<1>8. OnePass'
  BY <1>7, PassingIs DEF OnePass
<1>9. \A k \in Job : job[k].pc = "saveAction" \/ job'[k].pc = "saveAction" => job'[k] = job[k]
  BY <1>1, <1>5, <1>7
<1>10. (\A k \in Job : job'[k].pc # "store") => \E b \in Nat : Len(events) = 2 * b
  <2>1. \A k \in Job : job[k].pc # "store"
    BY <1>1, <1>7, PassingIs
  <2> QED
    BY <2>1, SteadyIs DEF EventsSteady
<1>11. \A k \in Job : SteadyLocal(job'[k], actionState'[Home[k]])
  <2>1. \A s : SteadyLocal(m, s)
    BY <1>5 DEF SteadyLocal, OverActions
  <2>2. \A k \in Job : k # j => \A s : SteadyLocal(job'[k], s)
    BY <1>7, QuietLocal
  <2> QED
    BY <1>7, <2>1, <2>2
<1>12. reduced' \in Nat /\ reduced <= reduced'
  BY <1>1, LogIs DEF Right
<1> QED
  BY <1>1, <1>8, <1>9, <1>10, <1>11, <1>12, SteadyAside

(* The events end with a batch, and the next one is fetched.               *)
LEMMA NextBatchSteady ==
  ASSUME Right, EventsSteady, NEW b \in Nat, Len(events) = 2 * b
  PROVE  NextBatch = b
<1>1. CASE events = <<>>
  <2>1. Len(events) = 0
    BY <1>1
  <2> QED
    BY <1>1, <2>1 DEF NextBatch
<1>2. CASE events # <<>>
  <2>1. Len(events) \in Nat /\ Len(events) # 0 /\ DOMAIN events = 1 .. Len(events)
    BY <1>2, EventsAre DEF Right, EventsRight
  <2>2. Len(events) \in DOMAIN events
    BY <2>1
  <2>3. PICK c, k : c = events[Len(events)].batch /\ k = events[Len(events)].dimension
    OBVIOUS
  <2>4. c \in Nat /\ k \in {1, 2} /\ 2 * b = 2 * c + k
    BY <2>2, <2>3, EventsAre, Bounds DEF Right, EventsSteady, Dimension
  <2>5. b = c + 1
    BY <2>4
  <2> QED
    BY <1>2, <2>3, <2>5 DEF NextBatch
<1> QED
  BY <1>1, <1>2

LEMMA FetchEventsSteady ==
  ASSUME Right, Right', SteadyRight, steady, steady', NEW j \in Job, NEW n, FetchEvents(j, n)
  PROVE  SteadyRight'
<1>1. PICK l : l = job[j]
  OBVIOUS
<1>2. PICK b, x : b = NextBatch /\ x = Len(events) + 1
  OBVIOUS
<1>3. PICK m : m = [l EXCEPT !.pc = "store", !.batch = b, !.last = n, !.dimension = 1, !.eventId = x]
  OBVIOUS
<1>4. job' = [job EXCEPT ![j] = m]
  BY <1>1, <1>2, <1>3 DEF FetchEvents
<1>5. IsLocal(l)
  BY <1>1, LocalsAre
<1>6. m.pc = "store" /\ m.batch = b /\ m.last = n /\ m.dimension = 1 /\ m.eventId = x
  BY <1>3, <1>5 DEF IsLocal
<1>7. /\ job[j].pc = "fetchEvents" /\ n = Cardinality(Batches)
      /\ UNCHANGED <<chainVars, events, active, requests, actionState, storage>>
  BY DEF FetchEvents
<1>8. OnePass /\ EventsSteady
  BY SteadyIs
<1>9. \A k \in Job : job[k].pc # "store"
  BY <1>7, <1>8, PassingIs DEF OnePass, Passing
<1>10. PICK c \in Nat : Len(events) = 2 * c
  BY <1>8, <1>9 DEF EventsSteady
<1>11. b = c
  BY <1>2, <1>8, <1>10, NextBatchSteady
<1>12. PICK s : s = actionState[Home[j]]
  OBVIOUS
<1>13. BatchesOf(s) <= n
  <2>1. s \in 0 .. Len(log) /\ ChainRight
    BY <1>12, LogIs, Bounds DEF Right
  <2>2. 0 \in 0 .. s
    BY <2>1, LogIs
  <2> QED
    BY <1>7, <2>1, <2>2, BatchesOfAre
<1>14. SteadyLocal(m, s)
  <2>1. m.eventId = Len(events) + 1 /\ m.eventId = 2 * m.batch + m.dimension
    BY <1>2, <1>6, <1>10, <1>11
  <2> QED
    BY <1>6, <1>13, <2>1 DEF SteadyLocal, OverActions
<1>15. job[j].pc \in Passing /\ job[j].pc # "saveAction" /\ m.pc # "saveAction" /\ job[j].pc # "store"
  BY <1>6, <1>7 DEF Passing
<1> QED
  BY <1>4, <1>7, <1>12, <1>14, <1>15, SteadyJob

LEMMA StoreEventSteady ==
  ASSUME Right, Right', SteadyRight, steady, NEW j \in Job, StoreEvent(j)
  PROVE  SteadyRight'
<1>1. PICK l : l = job[j]
  OBVIOUS
<1>2. /\ IsLocal(l) /\ LocalRight(l) /\ l.pc = "store" /\ l.batch < l.last
      /\ UNCHANGED <<chainVars, log, reduced, active, requests, actionState, storage, steady>>
  BY <1>1, LocalsAre DEF StoreEvent, EventsLeft, chainVars
<1>3. PICK x, b, k, s : x = l.eventId /\ b = l.batch /\ k = l.dimension /\ s = actionState[Home[j]]
  OBVIOUS
<1>4. x = Len(events) + 1 /\ x = 2 * b + k /\ BatchesOf(s) <= l.last
  BY <1>1, <1>2, <1>3, StoreIs
<1>5. b \in Nat /\ b \in 0 .. MaxActions - 1 /\ k \in Dimension /\ (k = 1 \/ k = 2) /\ Len(events) \in Nat
  <2>1. l.batch \in 0 .. MaxActions /\ l.last \in 0 .. MaxActions /\ l.dimension \in Dimension
    BY <1>2 DEF LocalRight
  <2> QED
    BY <1>2, <1>3, <2>1, Bounds, EventsAre DEF Dimension, Right
<1>6. PICK event : event = [batch |-> b, dimension |-> k]
  OBVIOUS
<1>7. event \in Event /\ event.batch = b /\ event.dimension = k
  BY <1>5, <1>6 DEF Event
<1>8. events' = [e \in 1 .. Len(events) \cup {x} |-> IF e = x THEN event ELSE events[e]]
  BY <1>1, <1>3, <1>6 DEF StoreEvent
<1>9. /\ Len(events') = x /\ events'[x] = event
      /\ \A e \in DOMAIN events : e # x => e \in DOMAIN events' /\ events'[e] = events[e]
      /\ \A e \in DOMAIN events' : e # x => e \in DOMAIN events
  <2>1. EventsRight /\ x \in 1 .. Len(events) + 1 /\ x <= 2 * event.batch + event.dimension
    BY <1>4, <1>5, <1>7 DEF Right
  <2> QED
    BY <1>4, <1>7, <1>8, <2>1, StoredEvents
<1>10. PICK x2, b2, k2 : /\ x2 = x + 1 /\ k2 = (IF k = 1 THEN 2 ELSE 1)
                         /\ b2 = (IF k = 1 THEN b ELSE b + 1)
  OBVIOUS
<1>11. PICK m : m = [l EXCEPT !.eventId = x2, !.dimension = k2, !.batch = b2]
  OBVIOUS
<1>12. job' = [job EXCEPT ![j] = m]
  <2>1. job' = [job EXCEPT ![j] = [l EXCEPT !.eventId = @ + 1, !.dimension = IF @ = 1 THEN 2 ELSE 1,
                                            !.batch = IF l.dimension = 1 THEN @ ELSE @ + 1]]
    BY <1>1 DEF StoreEvent, AfterEvent
  <2>2. [l EXCEPT !.eventId = @ + 1, !.dimension = IF @ = 1 THEN 2 ELSE 1,
                  !.batch = IF l.dimension = 1 THEN @ ELSE @ + 1] = m
    BY <1>3, <1>10, <1>11
  <2> QED
    BY <2>1, <2>2
<1>13. m.pc = "store" /\ m.batch = b2 /\ m.dimension = k2 /\ m.eventId = x2 /\ m.last = l.last
  BY <1>2, <1>11 DEF IsLocal
<1>14. x2 = 2 * b2 + k2
  <2>1. CASE k = 1
    BY <1>4, <1>5, <1>10, <2>1
  <2>2. CASE k = 2
    BY <1>4, <1>5, <1>10, <2>2
  <2> QED
    BY <1>5, <2>1, <2>2
<1>15. /\ EventsSteady /\ DocumentsSteady /\ ResultsSteady
  BY SteadyIs
<1>16. job'[j] = m /\ job[j].pc = "store" /\ \A h \in Job : h # j => job'[h] = job[h]
  BY <1>1, <1>2, <1>12 DEF Right, JobsRight
<1>17. EventsSteady'
  <2>1. ASSUME NEW e \in DOMAIN events' PROVE e = 2 * events'[e].batch + events'[e].dimension
    <3>1. CASE e = x
      BY <1>4, <1>7, <1>9, <3>1
    <3>2. CASE e # x
      BY <1>9, <1>15, <3>2 DEF EventsSteady
    <3> QED
      BY <3>1, <3>2
  <2>2. ~ \A h \in Job : job'[h].pc # "store"
    BY <1>13, <1>16
  <2> QED
    BY <2>1, <2>2 DEF EventsSteady
<1>18. DocumentsSteady'
  <2>1. \A h \in Job : job[h].pc = "saveAction" \/ job'[h].pc = "saveAction" => job'[h] = job[h]
    BY <1>13, <1>16
  <2>2. Applied' = Applied
    BY <1>2, <2>1, SameSavers
  <2>3. /\ reduced' \in Nat /\ reduced <= reduced' /\ requests' = requests
        /\ \A i \in DOMAIN log : i \in DOMAIN log' /\ log'[i] = log[i]
    BY <1>2, LogIs DEF Right
  <2> QED
    BY <1>15, <2>2, <2>3, DocumentsKeep
<1>19. ResultsSteady'
  <2>1. ChainRight /\ ChainRight' /\ requests' = requests
        /\ \A i \in DOMAIN log : i \in DOMAIN log' /\ log'[i] = log[i]
    BY <1>2 DEF Right
  <2> QED
    BY <1>15, <2>1, ResultsKeep
<1>20. SteadyLocal(m, actionState[Home[j]])'
  <2>1. actionState'[Home[j]] = s
    BY <1>2, <1>3
  <2>2. BatchesOf(s)' = BatchesOf(s)
    BY <1>2 DEF BatchesOf, Resolves
  <2>3. m.eventId = Len(events') + 1
    BY <1>4, <1>5, <1>9, <1>10, <1>13
  <2>4. SteadyLocal(m, s)'
    BY <1>4, <1>13, <1>14, <2>2, <2>3 DEF SteadyLocal, OverActions
  <2> QED
    BY <2>1, <2>4
<1>21. job[j].pc \in Passing
  BY <1>16 DEF Passing
<1> QED
  BY <1>2, <1>12, <1>17, <1>18, <1>19, <1>20, <1>21, SteadyPass

LEMMA EventsDoneSteady ==
  ASSUME Right, Right', SteadyRight, steady, NEW j \in Job, EventsDone(j)
  PROVE  SteadyRight'
<1>1. PICK l, s : l = job[j] /\ s = actionState[Home[j]]
  OBVIOUS
<1>2. /\ LocalRight(l) /\ l.pc = "store" /\ ~ (l.batch < l.last)
      /\ job' = [job EXCEPT ![j] = [Idle EXCEPT !.pc = "find"]]
      /\ UNCHANGED <<chainVars, events, active, requests, actionState, storage>>
  BY <1>1, LocalsAre DEF EventsDone, EventsLeft
<1>3. l.dimension # 2 /\ l.batch \in Nat /\ l.last \in Nat
  BY <1>2, Bounds DEF LocalRight
<1>4. Len(events) = 2 * l.batch /\ BatchesOf(s) <= l.last
  BY <1>1, <1>2, <1>3, StoreIs
<1>5. BatchesOf(s) \in Nat
  <2>1. s \in 0 .. Len(log) /\ s \in 0 .. s /\ ChainRight
    BY <1>1, LogIs, Bounds DEF Right
  <2> QED
    BY <2>1, BatchesOfAre
<1>6. PICK m : m = [Idle EXCEPT !.pc = "find"]
  OBVIOUS
<1>7. m.pc = "find"
  BY <1>6 DEF Idle
<1>8. SteadyLocal(m, s)
  <2>1. 2 * BatchesOf(s) <= Len(events)
    BY <1>2, <1>3, <1>4, <1>5
  <2> QED
    BY <1>7, <2>1 DEF SteadyLocal, OverActions
<1>9. \E b \in Nat : Len(events) = 2 * b
  BY <1>3, <1>4
<1>10. job' = [job EXCEPT ![j] = m] /\ job[j].pc = "store" /\ job[j].pc \in Passing
  BY <1>1, <1>2, <1>6 DEF Passing
<1> QED
  BY <1>1, <1>2, <1>7, <1>8, <1>9, <1>10, SteadyJob

-----------------------------------------------------------------------------
(***************************************************************************)
(* SteadyRight: updateRequestActions().                                    *)
(***************************************************************************)
LEMMA FindSteady ==
  ASSUME Right, Right', SteadyRight, steady, NEW j \in Job, Find(j)
  PROVE  SteadyRight'
<1>1. PICK l, s : l = job[j] /\ s = actionState[Home[j]]
  OBVIOUS
<1>2. PICK ids : ids = NotActive(s)
  OBVIOUS
<1>3. PICK m : m = [l EXCEPT !.pc = "findLatest", !.actions = ids]
  OBVIOUS
<1>4. job' = [job EXCEPT ![j] = m]
  BY <1>1, <1>2, <1>3 DEF Find
<1>5. /\ IsLocal(l) /\ l.pc = "find"
      /\ UNCHANGED <<chainVars, events, active, requests, actionState, storage>>
  BY <1>1, LocalsAre DEF Find
<1>6. m.pc = "findLatest" /\ m.actions = ids
  BY <1>3, <1>5 DEF IsLocal
<1>7. 2 * BatchesOf(s) <= Len(events)
  BY <1>1, <1>5, SteadyIs DEF SteadyLocal
<1>8. s \in 0 .. Len(log) /\ s \in Nat /\ ChainRight /\ Len(events) \in Nat
  BY <1>1, LogIs, Bounds, EventsAre DEF Right
<1>9. ids \cap active = {} /\ ids \subseteq 1 .. s
  BY <1>2 DEF NotActive
<1>10. ASSUME NEW i \in ids PROVE 2 * BatchesOf(i) <= Len(events)
  <2>1. i \in 0 .. s
    BY <1>8, <1>9
  <2>2. BatchesOf(i) <= BatchesOf(s) /\ BatchesOf(i) \in Nat /\ BatchesOf(s) \in Nat
    BY <1>8, <2>1, BatchesOfAre
  <2> QED
    BY <1>7, <1>8, <2>2
<1>11. SteadyLocal(m, s)
  BY <1>6, <1>9, <1>10 DEF SteadyLocal
<1>12. job[j].pc \in Passing /\ job[j].pc # "saveAction" /\ job[j].pc # "store" /\ m.pc # "saveAction"
  BY <1>1, <1>5, <1>6 DEF Passing
<1> QED
  BY <1>1, <1>4, <1>5, <1>11, <1>12, SteadyJob

LEMMA FindLatestSteady ==
  ASSUME Right, Right', SteadyRight, steady, NEW j \in Job, FindLatest(j)
  PROVE  SteadyRight'
<1>1. PICK l, s : l = job[j] /\ s = actionState[Home[j]]
  OBVIOUS
<1>2. PICK n : n = Len(requests)
  OBVIOUS
<1>3. PICK m : m = [l EXCEPT !.pc = "next", !.nextRequestId = n]
  OBVIOUS
<1>4. job' = [job EXCEPT ![j] = m]
  BY <1>1, <1>2, <1>3 DEF FindLatest
<1>5. /\ IsLocal(l) /\ l.pc = "findLatest"
      /\ UNCHANGED <<chainVars, events, active, requests, actionState, storage>>
  BY <1>1, LocalsAre DEF FindLatest
<1>6. m.pc = "next" /\ m.actions = l.actions
  BY <1>3, <1>5 DEF IsLocal
<1>7. SteadyLocal(l, s)
  BY <1>1, SteadyIs
<1>8. SteadyLocal(m, s)
  BY <1>5, <1>6, <1>7 DEF SteadyLocal, OverActions
<1>9. job[j].pc \in Passing /\ job[j].pc # "saveAction" /\ job[j].pc # "store" /\ m.pc # "saveAction"
  BY <1>1, <1>5, <1>6 DEF Passing
<1> QED
  BY <1>1, <1>4, <1>5, <1>8, <1>9, SteadyJob

(* The events of a batch that was stored are those of its request.         *)
LEMMA EventsAreWhole ==
  ASSUME Right, EventsSteady, NEW i \in DOMAIN log, log[i] # NewRequest,
         2 * BatchesOf(i) <= Len(events)
  PROVE  WholeResult(i, EventsOf(log[i]))
<1>1. PICK b : b = BatchesOf(i) - 1
  OBVIOUS
<1>2. b \in Batches /\ ActionOf(b) = i /\ BatchesOf(i) \in Nat \ {0}
  BY <1>1, BatchIs DEF BatchesOf, Right
<1>3. b \in Nat /\ 2 * b + 2 <= Len(events) /\ Len(events) \in Nat /\ DOMAIN events = 1 .. Len(events)
  BY <1>1, <1>2, EventsAre DEF Right
<1>4. ASSUME NEW k \in Dimension PROVE [batch |-> b, dimension |-> k] \in EventsOf(log[i])
  <2>1. PICK e : e = 2 * b + k
    OBVIOUS
  <2>2. k = 1 \/ k = 2
    BY DEF Dimension
  <2>3. e \in DOMAIN events
    BY <1>3, <2>1, <2>2
  <2>4. PICK c, d : c = events[e].batch /\ d = events[e].dimension
    OBVIOUS
  <2>5. c \in Nat /\ d \in {1, 2} /\ e = 2 * c + d
    <3>1. c \in 0 .. MaxActions - 1 /\ d \in Dimension
      BY <2>3, <2>4, EventsAre DEF Right
    <3>2. e = 2 * c + d
      BY <2>3, <2>4 DEF EventsSteady
    <3> QED
      BY <3>1, <3>2, Bounds DEF Dimension
  <2>6. c = b /\ d = k
    BY <1>3, <2>1, <2>2, <2>5
  <2>7. log[ActionOf(events[e].batch)] = log[i]
    BY <1>2, <2>4, <2>6
  <2>8. [batch |-> events[e].batch, dimension |-> events[e].dimension] = [batch |-> b, dimension |-> k]
    BY <2>4, <2>6
  <2> QED
    BY <2>3, <2>7, <2>8 DEF EventsOf
<1> QED
  BY <1>2, <1>4 DEF WholeResult

LEMMA FindRequestSteady ==
  ASSUME Right, Right', SteadyRight, steady, NEW j \in Job, FindRequest(j)
  PROVE  SteadyRight'
<1>1. PICK l, s : l = job[j] /\ s = actionState[Home[j]]
  OBVIOUS
<1>2. PICK i \in Reached(l.actions) :
        /\ log[i] \in 0 .. Len(requests) - 1
        /\ job' = [job EXCEPT ![j].pc = "saveRequest", ![j].result = EventsOf(log[i])]
  BY <1>1 DEF FindRequest
<1>3. PICK result : result = EventsOf(log[i])
  OBVIOUS
<1>4. PICK m : m = [l EXCEPT !.pc = "saveRequest", !.result = result]
  OBVIOUS
<1>5. job' = [job EXCEPT ![j] = m]
  BY <1>1, <1>2, <1>3, <1>4
<1>6. /\ IsLocal(l) /\ LocalRight(l) /\ l.pc = "next" /\ l.pc \in OverActions
      /\ UNCHANGED <<chainVars, events, active, requests, actionState, storage>>
  BY <1>1, LocalsAre DEF FindRequest, OverActions
<1>7. m.pc = "saveRequest" /\ m.actions = l.actions /\ m.result = result
  BY <1>4, <1>6 DEF IsLocal
<1>8. SteadyLocal(l, s) /\ EventsSteady
  BY <1>1, SteadyIs
<1>9. Reached(l.actions) = {i} /\ i \in l.actions /\ i \in DOMAIN log
  BY <1>2, <1>6, FirstIs
<1>10. 2 * BatchesOf(i) <= Len(events) /\ log[i] # NewRequest
  BY <1>2, <1>6, <1>8, <1>9, Bounds DEF SteadyLocal
<1>11. WholeResult(i, result)
  BY <1>3, <1>8, <1>9, <1>10, EventsAreWhole
<1>12. SteadyLocal(m, s)
  BY <1>6, <1>7, <1>8, <1>9, <1>11 DEF SteadyLocal, OverActions
<1>13. job[j].pc \in Passing /\ job[j].pc # "saveAction" /\ job[j].pc # "store" /\ m.pc # "saveAction"
  BY <1>1, <1>6, <1>7 DEF Passing
<1> QED
  BY <1>1, <1>5, <1>6, <1>12, <1>13, SteadyJob

(* The only pass is at the action after those that are applied.            *)
LEMMA NextApplied ==
  ASSUME Right, SteadyRight, steady, NEW j \in Job, NEW l, l = job[j],
         l.pc = "next" \/ l.pc = "saveRequest", NEW i \in Reached(l.actions)
  PROVE  /\ i - 1 \in Nat /\ i \in 1 .. reduced /\ (i - 1) + 1 = i
         /\ active = 1 .. i - 1 /\ Leaves = TreesAfter(i - 1)
         /\ \A k \in Job : k # j => job[k].pc \notin Passing
<1>1. LocalRight(l) /\ l.pc \in OverActions /\ job[j].pc \in Passing
  BY LocalsAre, PassingIs DEF OverActions
<1>2. i \in 1 .. reduced /\ i \in Nat /\ 1 .. i - 1 \subseteq active /\ i \in l.actions
  BY <1>1, FirstIs
<1>3. \A k \in Job : k # j => job[k].pc \notin Passing
  BY <1>1, SteadyIs, PassingIs DEF OnePass
<1>4. \A k \in Job : job[k].pc # "saveAction"
  BY <1>3, PassingIs
<1>5. Applied = active
  BY <1>4, NoSaver DEF Applied
<1>6. PICK m \in 0 .. reduced : active = 1 .. m /\ Leaves = TreesAfter(m)
  BY <1>5, SteadyIs DEF DocumentsSteady
<1>7. i \notin active
  <2>1. SteadyLocal(l, actionState[Home[j]])
    BY SteadyIs
  <2> QED
    BY <1>1, <1>2, <2>1 DEF SteadyLocal
<1>8. m = i - 1 /\ i - 1 \in Nat
  <2>1. m \in Nat /\ i - 1 \in Nat /\ i >= 1
    BY <1>2, <1>6, LogIs DEF Right
  <2>2. ~ (i <= m)
    BY <1>2, <1>6, <1>7, <2>1
  <2>3. i - 1 # 0 => i - 1 \in 1 .. i - 1
    BY <1>2, <2>1
  <2>4. i - 1 # 0 => i - 1 \in 1 .. m
    BY <1>2, <1>6, <2>3
  <2> QED
    BY <1>2, <2>1, <2>2, <2>4
<1> QED
  BY <1>2, <1>3, <1>6, <1>8

LEMMA CreateSteady ==
  ASSUME Right, Right', LogSound, SteadyRight, steady, NEW j \in Job, Create(j)
  PROVE  SteadyRight'
<1>1. PICK l, s : l = job[j] /\ s = actionState[Home[j]]
  OBVIOUS
<1>2. PICK i \in Reached(l.actions) :
        /\ log[i] = NewRequest /\ Admits(j, i)
        /\ requests' = Append(requests, [create |-> i, resolve |-> 0, result |-> NoEvents])
  BY <1>1 DEF Create
<1>3. /\ IsLocal(l) /\ LocalRight(l) /\ l.pc = "next" /\ l.pc \in OverActions
      /\ UNCHANGED <<chainVars, log, reduced, events, active, actionState, storage, steady>>
  BY <1>1, LocalsAre DEF Create, OverActions, chainVars
<1>4. PICK m : m = i - 1
  OBVIOUS
<1>5. /\ m \in Nat /\ i = m + 1 /\ i \in 1 .. reduced /\ active = 1 .. m /\ Leaves = TreesAfter(m)
      /\ \A k \in Job : k # j => job[k].pc \notin Passing
  BY <1>1, <1>3, <1>4, NextApplied
<1>6. Reached(l.actions) = {i}
  BY <1>3, FirstIs
<1>7. ChainRight /\ ActiveRight /\ RequestsRight /\ reduced \in Nat /\ 1 .. reduced \subseteq DOMAIN log
  BY LogIs DEF Right
<1>8. PICK n : n = Len(requests)
  OBVIOUS
<1>9. n \in Nat /\ DOMAIN requests = 1 .. n
  BY <1>7, <1>8, RequestsAre
<1>10. n = Cardinality(Creates(1 .. m))
  <2>1. \A d \in DOMAIN requests : requests[d].create # i
    BY <1>2 DEF Admits
  <2>2. 1 .. i - 1 \subseteq active
    BY <1>4, <1>5
  <2> QED
    BY <1>2, <1>4, <1>5, <1>7, <1>8, <2>1, <2>2, NextDocument
<1>11. PICK doc : doc = [create |-> i, resolve |-> 0, result |-> {}]
  OBVIOUS
<1>12. /\ Len(requests') = n + 1 /\ DOMAIN requests' = 1 .. n + 1
       /\ requests'[n + 1] = doc /\ \A d \in DOMAIN requests : requests'[d] = requests[d]
  <2> DEFINE D == [create : 1 .. reduced, resolve : 0 .. reduced, result : SUBSET Event]
  <2>1. requests \in Seq(D) /\ requests' = Append(requests, doc)
    BY <1>2, <1>7, <1>11 DEF RequestsRight, NoEvents
  <2> HIDE DEF D
  <2> QED
    BY <1>8, <1>9, <2>1
<1>13. Leaves' = TreesAfter(i)
  <2>1. TreesAfter(i) = [r \in 0 .. n |-> IF r = n THEN [create |-> i, result |-> 0] ELSE TreesAfter(m)[r]]
    <3>1. 1 .. m + 1 \subseteq DOMAIN log /\ log[m + 1] = NewRequest
      BY <1>2, <1>5, <1>7
    <3> QED
      BY <1>5, <1>10, <3>1, TreesCreate
  <2>2. Leaves' = [r \in 0 .. n |-> [create |-> requests'[r + 1].create, result |-> requests'[r + 1].resolve]]
    BY <1>9, <1>12 DEF Leaves
  <2>3. ASSUME NEW r \in 0 .. n
        PROVE  [create |-> requests'[r + 1].create, result |-> requests'[r + 1].resolve]
                 = IF r = n THEN [create |-> i, result |-> 0] ELSE TreesAfter(m)[r]
    <3>1. CASE r = n
      BY <1>11, <1>12, <3>1
    <3>2. CASE r # n
      <4>1. r \in 0 .. n - 1 /\ r + 1 \in DOMAIN requests
        BY <1>9, <3>2
      <4>2. Leaves[r] = [create |-> requests[r + 1].create, result |-> requests[r + 1].resolve]
        BY <1>8, <4>1 DEF Leaves
      <4> QED
        BY <1>5, <1>12, <3>2, <4>1, <4>2
    <3> QED
      BY <3>1, <3>2
  <2> QED
    BY <2>1, <2>2, <2>3
<1>14. PICK k : k = l.nextRequestId
  OBVIOUS
<1>15. PICK m2 : m2 = [l EXCEPT !.pc = "saveAction", !.nextRequestId = k + 1]
  OBVIOUS
<1>16. job' = [job EXCEPT ![j] = m2]
  <2>1. job' = [job EXCEPT ![j] = [l EXCEPT !.pc = "saveAction", !.nextRequestId = @ + 1]]
    BY <1>1 DEF Create
  <2>2. [l EXCEPT !.pc = "saveAction", !.nextRequestId = @ + 1] = m2
    BY <1>14, <1>15
  <2> QED
    BY <2>1, <2>2
<1>17. m2.pc = "saveAction" /\ m2.actions = l.actions
  BY <1>3, <1>15 DEF IsLocal
<1>18. job'[j] = m2 /\ \A h \in Job : h # j => job'[h] = job[h]
  BY <1>16 DEF Right, JobsRight
<1>19. Applied' = 1 .. i
  <2>1. \A h \in Job : h # j => job'[h].pc # "saveAction"
    BY <1>5, <1>18, PassingIs
  <2>2. PICK a, jobs : a = active' /\ jobs = job'
    OBVIOUS
  <2>3. a \cup UNION {Reached(jobs[h].actions) : h \in {g \in Job : jobs[g].pc = "saveAction"}}
          = a \cup Reached(jobs[j].actions)
    BY <1>17, <1>18, <2>1, <2>2, OnlySaver
  <2>4. Applied' = active' \cup Reached(l.actions)
    BY <1>17, <1>18, <2>2, <2>3 DEF Applied, Reached
  <2>5. 1 .. i = 1 .. m \cup {i}
    BY <1>5
  <2> QED
    BY <1>3, <1>5, <1>6, <2>4, <2>5
<1>20. DocumentsSteady'
  <2>1. TreesAfter(i)' = TreesAfter(i)
    BY <1>3 DEF TreesAfter, Creates, ResolvesOf
  <2>2. i \in 0 .. reduced'
    BY <1>3, <1>5, <1>7
  <2> QED
    BY <1>13, <1>19, <2>1, <2>2 DEF DocumentsSteady
<1>21. EventsSteady'
  <2>1. \A h \in Job : job[h].pc # "store"
    BY <1>1, <1>3, <1>5, PassingIs
  <2> QED
    BY <1>3, <2>1, SteadyIs DEF EventsSteady
<1>22. ResultsSteady'
  <2> SUFFICES ASSUME NEW d \in DOMAIN requests', requests'[d].resolve # 0
               PROVE  WholeResult(requests[d].resolve, requests[d].result)'
    BY DEF ResultsSteady
  <2>1. d \in DOMAIN requests /\ requests'[d] = requests[d]
    BY <1>9, <1>11, <1>12
  <2>2. PICK h, result : h = requests'[d].resolve /\ result = requests'[d].result
    OBVIOUS
  <2>3. WholeResult(h, result)
    BY <2>1, <2>2, SteadyIs DEF ResultsSteady
  <2>4. ChainRight' /\ \A g \in DOMAIN log : g \in DOMAIN log' /\ log'[g] = log[g]
    BY <1>3 DEF Right
  <2>5. WholeResult(h, result)'
    BY <1>7, <2>3, <2>4, WholeKeeps
  <2> QED
    BY <2>2, <2>5
<1>23. SteadyLocal(m2, actionState[Home[j]])'
  <2>1. SteadyLocal(l, s)
    BY <1>1, SteadyIs
  <2>2. \A h : BatchesOf(h)' = BatchesOf(h)
    BY <1>3 DEF BatchesOf, Resolves
  <2> QED
    BY <1>3, <1>17, <2>1, <2>2 DEF SteadyLocal, OverActions
<1>24. job[j].pc \in Passing
  BY <1>1, <1>3 DEF Passing
<1> QED
  BY <1>3, <1>16, <1>20, <1>21, <1>22, <1>23, <1>24, SteadyPass

LEMMA SaveRequestSteady ==
  ASSUME Right, Right', SteadyRight, steady, NEW j \in Job, SaveRequest(j)
  PROVE  SteadyRight'
<1>1. PICK l, s : l = job[j] /\ s = actionState[Home[j]]
  OBVIOUS
<1>2. PICK i \in Reached(l.actions) :
        requests' = [requests EXCEPT ![log[i] + 1].resolve = i, ![log[i] + 1].result = l.result]
  BY <1>1 DEF SaveRequest
<1>3. /\ IsLocal(l) /\ LocalRight(l) /\ l.pc = "saveRequest" /\ l.pc \in OverActions
      /\ UNCHANGED <<chainVars, log, reduced, events, active, actionState, storage, steady>>
  BY <1>1, LocalsAre DEF SaveRequest, OverActions, chainVars
<1>4. PICK m : m = i - 1
  OBVIOUS
<1>5. /\ m \in Nat /\ i = m + 1 /\ i \in 1 .. reduced /\ active = 1 .. m /\ Leaves = TreesAfter(m)
      /\ \A k \in Job : k # j => job[k].pc \notin Passing
  BY <1>1, <1>3, <1>4, NextApplied
<1>6. Reached(l.actions) = {i}
  BY <1>3, FirstIs
<1>7. ChainRight /\ ActiveRight /\ RequestsRight /\ reduced \in Nat /\ 1 .. reduced \subseteq DOMAIN log
  BY LogIs DEF Right
<1>8. PICK n, x : n = Len(requests) /\ x = log[i]
  OBVIOUS
<1>9. n \in Nat /\ DOMAIN requests = 1 .. n
  BY <1>7, <1>8, RequestsAre
<1>10. x \in 0 .. n - 1 /\ x + 1 \in DOMAIN requests /\ x # NewRequest
  <2>1. x \in 0 .. n - 1
    BY <1>3, <1>8 DEF LocalRight
  <2> QED
    BY <1>9, <2>1, Bounds
<1>11. PICK doc : doc = [requests[x + 1] EXCEPT !.resolve = i, !.result = l.result]
  OBVIOUS
<1>12. doc.create = requests[x + 1].create /\ doc.resolve = i /\ doc.result = l.result
  <2>1. requests[x + 1] = [create |-> requests[x + 1].create, resolve |-> requests[x + 1].resolve,
                           result |-> requests[x + 1].result]
    BY <1>7, <1>10, RequestsAre
  <2>2. doc = [create |-> requests[x + 1].create, resolve |-> i, result |-> l.result]
    BY <1>11, <2>1
  <2> QED
    BY <2>2
<1>13. /\ Len(requests') = n /\ DOMAIN requests' = 1 .. n
       /\ requests'[x + 1] = doc /\ \A d \in DOMAIN requests : d # x + 1 => requests'[d] = requests[d]
  <2> DEFINE D == [create : 1 .. reduced, resolve : 0 .. reduced, result : SUBSET Event]
  <2>1. requests \in Seq(D)
    BY <1>7 DEF RequestsRight
  <2>2. requests' = [requests EXCEPT ![x + 1] = doc]
    BY <1>2, <1>8, <1>11
  <2> HIDE DEF D
  <2>3. Len(requests') = n /\ DOMAIN requests' = 1 .. n
    BY <1>8, <1>9, <1>10, <2>1, <2>2
  <2> QED
    BY <1>10, <2>2, <2>3
<1>14. Leaves' = TreesAfter(i)
  <2>1. DOMAIN TreesAfter(m) = 0 .. n - 1
    BY <1>5, <1>8 DEF Leaves
  <2>2. TreesAfter(i) = [r \in 0 .. n - 1 |->
                           IF r = x THEN [create |-> TreesAfter(m)[r].create, result |-> i]
                           ELSE TreesAfter(m)[r]]
    <3>1. x = log[m + 1] /\ x \in DOMAIN TreesAfter(m)
      BY <1>5, <1>8, <1>10, <2>1
    <3>2. TreesAfter(m + 1) = [r \in DOMAIN TreesAfter(m) |->
                                 IF r = x THEN [create |-> TreesAfter(m)[r].create, result |-> m + 1]
                                 ELSE TreesAfter(m)[r]]
      BY <1>5, <1>10, <3>1, TreesResolve
    <3> QED
      BY <1>5, <2>1, <3>2
  <2>3. Leaves' = [r \in 0 .. n - 1 |-> [create |-> requests'[r + 1].create, result |-> requests'[r + 1].resolve]]
    BY <1>13 DEF Leaves
  <2>4. ASSUME NEW r \in 0 .. n - 1
        PROVE  [create |-> requests'[r + 1].create, result |-> requests'[r + 1].resolve]
                 = IF r = x THEN [create |-> TreesAfter(m)[r].create, result |-> i] ELSE TreesAfter(m)[r]
    <3>1. r + 1 \in DOMAIN requests
      BY <1>9
    <3>2. TreesAfter(m)[r] = [create |-> requests[r + 1].create, result |-> requests[r + 1].resolve]
      <4>1. Leaves[r] = [create |-> requests[r + 1].create, result |-> requests[r + 1].resolve]
        BY <1>8 DEF Leaves
      <4> QED
        BY <1>5, <4>1
    <3>3. CASE r = x
      <4>1. TreesAfter(m)[r].create = requests[r + 1].create
        BY <3>2
      <4>2. requests'[r + 1] = doc
        BY <1>13, <3>3
      <4> QED
        BY <1>12, <3>3, <4>1, <4>2
    <3>4. CASE r # x
      <4>1. r + 1 # x + 1
        BY <1>10, <3>4
      <4>2. requests'[r + 1] = requests[r + 1]
        BY <1>13, <3>1, <4>1
      <4> QED
        BY <3>2, <3>4, <4>2
    <3> QED
      BY <3>3, <3>4
  <2> QED
    BY <2>2, <2>3, <2>4
<1>15. PICK m2 : m2 = [l EXCEPT !.pc = "saveAction", !.result = {}]
  OBVIOUS
<1>16. job' = [job EXCEPT ![j] = m2]
  BY <1>1, <1>15 DEF SaveRequest, NoEvents
<1>17. m2.pc = "saveAction" /\ m2.actions = l.actions
  BY <1>3, <1>15 DEF IsLocal
<1>18. job'[j] = m2 /\ \A h \in Job : h # j => job'[h] = job[h]
  BY <1>16 DEF Right, JobsRight
<1>19. Applied' = 1 .. i
  <2>1. \A h \in Job : h # j => job'[h].pc # "saveAction"
    BY <1>5, <1>18, PassingIs
  <2>2. PICK a, jobs : a = active' /\ jobs = job'
    OBVIOUS
  <2>3. a \cup UNION {Reached(jobs[h].actions) : h \in {g \in Job : jobs[g].pc = "saveAction"}}
          = a \cup Reached(jobs[j].actions)
    BY <1>17, <1>18, <2>1, <2>2, OnlySaver
  <2>4. Applied' = active' \cup Reached(l.actions)
    BY <1>17, <1>18, <2>2, <2>3 DEF Applied, Reached
  <2>5. 1 .. i = 1 .. m \cup {i}
    BY <1>5
  <2> QED
    BY <1>3, <1>5, <1>6, <2>4, <2>5
<1>20. DocumentsSteady'
  <2>1. TreesAfter(i)' = TreesAfter(i)
    BY <1>3 DEF TreesAfter, Creates, ResolvesOf
  <2>2. i \in 0 .. reduced'
    BY <1>3, <1>5, <1>7
  <2> QED
    BY <1>14, <1>19, <2>1, <2>2 DEF DocumentsSteady
<1>21. EventsSteady'
  <2>1. \A h \in Job : job[h].pc # "store"
    BY <1>1, <1>3, <1>5, PassingIs
  <2> QED
    BY <1>3, <2>1, SteadyIs DEF EventsSteady
<1>22. SteadyLocal(l, s)
  BY <1>1, SteadyIs
<1>23. ResultsSteady'
  <2>1. ChainRight' /\ \A g \in DOMAIN log : g \in DOMAIN log' /\ log'[g] = log[g]
    BY <1>3 DEF Right
  <2>2. ASSUME NEW d \in DOMAIN requests', requests'[d].resolve # 0
        PROVE  WholeResult(requests[d].resolve, requests[d].result)'
    <3>1. PICK h, result : h = requests'[d].resolve /\ result = requests'[d].result
      OBVIOUS
    <3>2. WholeResult(h, result)
      <4>1. CASE d = x + 1
        <5>1. h = i /\ result = l.result
          BY <1>12, <1>13, <3>1, <4>1
        <5> QED
          BY <1>3, <1>6, <1>22, <5>1 DEF SteadyLocal
      <4>2. CASE d # x + 1
        <5>1. d \in DOMAIN requests /\ requests'[d] = requests[d]
          BY <1>9, <1>13, <4>2
        <5> QED
          BY <2>2, <3>1, <5>1, SteadyIs DEF ResultsSteady
      <4> QED
        BY <4>1, <4>2
    <3>3. WholeResult(h, result)'
      BY <1>7, <2>1, <3>2, WholeKeeps
    <3> QED
      BY <3>1, <3>3
  <2> QED
    BY <2>2 DEF ResultsSteady
<1>24. SteadyLocal(m2, actionState[Home[j]])'
  <2>1. \A h : BatchesOf(h)' = BatchesOf(h)
    BY <1>3 DEF BatchesOf, Resolves
  <2> QED
    BY <1>3, <1>17, <1>22, <2>1 DEF SteadyLocal, OverActions
<1>25. job[j].pc \in Passing
  BY <1>1, <1>3 DEF Passing
<1> QED
  BY <1>3, <1>16, <1>20, <1>21, <1>23, <1>24, <1>25, SteadyPass

LEMMA SaveActionSteady ==
  ASSUME Right, Right', SteadyRight, steady, NEW j \in Job, SaveAction(j)
  PROVE  SteadyRight'
<1>1. PICK l, s : l = job[j] /\ s = actionState[Home[j]]
  OBVIOUS
<1>2. /\ IsLocal(l) /\ LocalRight(l) /\ l.pc = "saveAction" /\ l.pc \in OverActions
      /\ UNCHANGED <<chainVars, log, reduced, events, requests, actionState, storage, steady>>
  BY <1>1, LocalsAre DEF SaveAction, OverActions, chainVars
<1>3. PICK few, ids : few = Reached(l.actions) /\ ids = l.actions \ few
  OBVIOUS
<1>4. active' = active \cup few
  BY <1>1, <1>3 DEF SaveAction
<1>5. PICK m : m = [l EXCEPT !.pc = "next", !.actions = ids]
  OBVIOUS
<1>6. job' = [job EXCEPT ![j] = m]
  <2>1. job' = [job EXCEPT ![j] = [l EXCEPT !.pc = "next", !.actions = @ \ Reached(@)]]
    BY <1>1 DEF SaveAction
  <2>2. [l EXCEPT !.pc = "next", !.actions = @ \ Reached(@)] = m
    BY <1>3, <1>5
  <2> QED
    BY <2>1, <2>2
<1>7. m.pc = "next" /\ m.actions = ids
  BY <1>2, <1>5 DEF IsLocal
<1>8. job'[j] = m /\ \A h \in Job : h # j => job'[h] = job[h]
  BY <1>6 DEF Right, JobsRight
<1>9. /\ job[j].pc \in Passing /\ job[j].pc = "saveAction"
      /\ \A k \in Job : k # j => job[k].pc \notin Passing
  <2>1. job[j].pc \in Passing /\ job[j].pc = "saveAction"
    BY <1>1, <1>2 DEF Passing
  <2> QED
    BY <2>1, SteadyIs, PassingIs DEF OnePass
<1>10. Applied' = Applied
  <2>1. \A h \in Job : h # j => job[h].pc # "saveAction" /\ job'[h].pc # "saveAction"
    BY <1>8, <1>9, PassingIs
  <2>2. PICK a, jobs : a = active /\ jobs = job
    OBVIOUS
  <2>3. a \cup UNION {Reached(jobs[h].actions) : h \in {g \in Job : jobs[g].pc = "saveAction"}}
          = a \cup Reached(jobs[j].actions)
    BY <1>9, <2>1, <2>2, OnlySaver
  <2>4. Applied = active \cup few
    BY <1>1, <1>3, <2>2, <2>3 DEF Applied
  <2>5. PICK a2, jobs2 : a2 = active' /\ jobs2 = job'
    OBVIOUS
  <2>6. \A h \in Job : jobs2[h].pc # "saveAction"
    BY <1>7, <1>8, <2>1, <2>5
  <2>7. a2 \cup UNION {Reached(jobs2[h].actions) : h \in {g \in Job : jobs2[g].pc = "saveAction"}} = a2
    BY <2>6, NoSaver
  <2>8. Applied' = active'
    BY <2>5, <2>7 DEF Applied, Reached
  <2> QED
    BY <1>4, <2>4, <2>8
<1>11. ChainRight /\ ChainRight' /\ \A i \in DOMAIN log : i \in DOMAIN log' /\ log'[i] = log[i]
  BY <1>2 DEF Right
<1>12. DocumentsSteady'
  <2>1. reduced' \in Nat /\ reduced <= reduced' /\ requests' = requests
    BY <1>2, LogIs DEF Right
  <2> QED
    BY <1>10, <1>11, <2>1, SteadyIs, DocumentsKeep
<1>13. ResultsSteady'
  <2>1. requests' = requests
    BY <1>2
  <2> QED
    BY <1>11, <2>1, SteadyIs, ResultsKeep
<1>14. EventsSteady'
  <2>1. \A h \in Job : job[h].pc # "store"
    BY <1>9, PassingIs
  <2> QED
    BY <1>2, <2>1, SteadyIs DEF EventsSteady
<1>15. SteadyLocal(m, actionState[Home[j]])'
  <2>1. SteadyLocal(l, s)
    BY <1>1, SteadyIs
  <2>2. l.actions \cap active = {} /\ \A i \in l.actions : 2 * BatchesOf(i) <= Len(events)
    BY <1>2, <2>1 DEF SteadyLocal
  <2>3. \A h : BatchesOf(h)' = BatchesOf(h)
    BY <1>2 DEF BatchesOf, Resolves
  <2>4. ids \cap active' = {} /\ \A i \in ids : 2 * BatchesOf(i)' <= Len(events')
    BY <1>2, <1>3, <1>4, <2>2, <2>3
  <2> QED
    BY <1>7, <2>4 DEF SteadyLocal
<1> QED
  BY <1>2, <1>6, <1>9, <1>12, <1>13, <1>14, <1>15, SteadyPass

-----------------------------------------------------------------------------
(***************************************************************************)
(* SteadyRight: trees, roll-up and crashes.                                *)
(***************************************************************************)
LEMMA UpdateSteady ==
  ASSUME Right, Right', LogSound, SteadyRight, steady, steady', NEW j \in Job, Update(j)
  PROVE  SteadyRight'
<1>1. ASSUME NEW n, FetchState(j, n) \/ FetchEvents(j, n) PROVE SteadyRight'
  BY <1>1, FetchStateSteady, FetchEventsSteady
<1>2. CASE StoreEvent(j)
  BY <1>2, StoreEventSteady
<1>3. CASE EventsDone(j)
  BY <1>3, EventsDoneSteady
<1>4. CASE DuplicateEvent(j)
  <2>1. job[j].pc = "store" /\ job[j].eventId # Len(events) + 1
    BY <1>4 DEF DuplicateEvent, Upserts
  <2> QED
    BY <2>1, StoreIs
<1>5. CASE Find(j)
  BY <1>5, FindSteady
<1>6. CASE FindNothing(j)
  <2>1. /\ Goto(j, AfterPass(j)) /\ job[j].pc = "find"
        /\ UNCHANGED <<chainVars, events, active, requests, actionState, storage>>
    BY <1>6 DEF FindNothing
  <2> QED
    BY <2>1, GotoSteady, AfterPassIs
<1>7. CASE FindLatest(j)
  BY <1>7, FindLatestSteady
<1>8. CASE Create(j)
  BY <1>8, CreateSteady
<1>9. CASE DuplicateRequest(j)
  <2>1. Retry(j) /\ job[j].pc = "next"
    BY <1>9 DEF DuplicateRequest
  <2> QED
    BY <2>1, RetrySteady
<1>10. CASE FindRequest(j)
  BY <1>10, FindRequestSteady
<1>11. CASE SaveRequest(j)
  BY <1>11, SaveRequestSteady
<1>12. CASE SaveAction(j)
  BY <1>12, SaveActionSteady
<1>13. CASE PassDone(j)
  <2>1. /\ job' = [job EXCEPT ![j] = [Idle EXCEPT !.pc = AfterPass(j)]] /\ job[j].pc = "next"
        /\ UNCHANGED <<chainVars, events, active, requests, actionState, storage>>
    BY <1>13 DEF PassDone
  <2> QED
    BY <2>1, BackSteady, AfterPassIs
<1>14. CASE FindRequests(j)
  <2>1. /\ Goto(j, "updated") /\ job[j].pc = "findRequests" /\ storage' = Leaves
        /\ UNCHANGED <<chainVars, events, active, requests, actionState>>
    BY <1>14 DEF FindRequests
  <2> QED
    BY <2>1, GotoSteady, PassingIs
<1> QED
  BY <1>1, <1>2, <1>3, <1>4, <1>5, <1>6, <1>7, <1>8, <1>9, <1>10, <1>11, <1>12, <1>13, <1>14 DEF Update

LEMMA FetchThrowsSteady ==
  ASSUME Right, Right', SteadyRight, steady, steady', NEW j \in Job, FetchThrows(j)
  PROVE  SteadyRight'
<1>1. Retry(j) /\ job[j].pc # "saveAction" /\ (job[j].pc = "store" => job[j].dimension # 2)
  BY DEF FetchThrows, InTheMiddle
<1> QED
  BY <1>1, StoreIs, RetrySteady

(* A job outside a pass changes itself, or the state of its process.       *)
LEMMA OutsideSteady ==
  ASSUME Right, Right', SteadyRight, steady, log' = log, reduced' \in Nat, reduced <= reduced',
         UNCHANGED <<events, active, requests, storage>>,
         NEW j \in Job, NEW m, job' = [job EXCEPT ![j] = m],
         job[j].pc \notin Passing, m.pc \notin Passing,
         \A k \in Job : k # j => actionState'[Home[k]] = actionState[Home[k]] \/ job[k].pc \notin Passing
  PROVE  SteadyRight'
<1>1. job'[j] = m /\ \A k \in Job : k # j => job'[k] = job[k]
  BY DEF Right, JobsRight
<1>2. OnePass /\ EventsSteady /\ \A k \in Job : SteadyLocal(job[k], actionState[Home[k]])
  BY SteadyIs
<1>3. OnePass'
  BY <1>1, <1>2, PassingIs DEF OnePass
<1>4. \A k \in Job : job[k].pc = "saveAction" \/ job'[k].pc = "saveAction" => job'[k] = job[k]
  BY <1>1, PassingIs
<1>5. (\A k \in Job : job'[k].pc # "store") => \E b \in Nat : Len(events) = 2 * b
  BY <1>1, <1>2, PassingIs DEF EventsSteady
<1>6. ASSUME NEW k \in Job PROVE SteadyLocal(job'[k], actionState'[Home[k]])
  <2>1. CASE job'[k].pc \notin Passing
    BY <2>1, QuietLocal
  <2>2. CASE job'[k].pc \in Passing
    BY <1>1, <1>2, <2>2
  <2> QED
    BY <2>1, <2>2
<1> QED
  BY <1>3, <1>4, <1>5, <1>6, SteadyAside

LEMMA RollupSteady ==
  ASSUME Right, Right', SteadyRight, steady, steady',
         NEW j \in Job, Rollup(j) \/ Skip(j) \/ RollupThrows(j)
  PROVE  SteadyRight'
<1>1. ASSUME NEW n, FindBatch(j, n) PROVE SteadyRight'
  <2>1. PICK l, ids : l = job[j] /\ ids = NotActive(n)
    OBVIOUS
  <2>2. PICK m : m = [l EXCEPT !.pc = "fetchState", !.actions = ids]
    OBVIOUS
  <2>3. /\ job' = [job EXCEPT ![j] = m] /\ job[j].pc = "updated"
        /\ UNCHANGED <<chainVars, events, active, requests, actionState, storage>>
    BY <1>1, <2>1, <2>2 DEF FindBatch
  <2>4. IsLocal(l)
    BY <2>1, LocalsAre
  <2>5. m.pc = "fetchState"
    BY <2>2, <2>4 DEF IsLocal
  <2>6. m.pc \notin Passing /\ m.pc # "saveAction" /\ SteadyLocal(m, actionState[Home[j]])
    BY <2>5, QuietLocal, PassingIs
  <2> QED
    BY <2>3, <2>6, SteadyJob
<1>2. CASE FetchRollupState(j)
  <2>0. PICK n \in 0 .. reduced : job' = [job EXCEPT ![j].pc = "clone", ![j].state = n]
    BY <1>2 DEF FetchRollupState
  <2>1. PICK l : l = job[j]
    OBVIOUS
  <2>2. PICK m : m = [l EXCEPT !.pc = "clone", !.state = n]
    OBVIOUS
  <2>3. /\ job' = [job EXCEPT ![j] = m] /\ job[j].pc = "fetchState"
        /\ log' = log /\ reduced' = reduced /\ UNCHANGED <<events, active, requests, storage>>
        /\ \A k \in Job \ {j} : job[k].pc \notin Passing
    <3>1. job' = [job EXCEPT ![j] = m]
      BY <2>0, <2>1, <2>2
    <3>2. /\ job[j].pc = "fetchState" /\ steady' = (steady /\ \A k \in Job \ {j} : ~ InPass(k))
          /\ UNCHANGED <<chainVars, events, active, requests, storage>>
      BY <1>2 DEF FetchRollupState
    <3> QED
      BY <3>1, <3>2, PassingIs DEF chainVars
  <2>4. IsLocal(l)
    BY <2>1, LocalsAre
  <2>5. m.pc = "clone"
    BY <2>2, <2>4 DEF IsLocal
  <2>6. reduced' \in Nat /\ reduced <= reduced' /\ m.pc \notin Passing /\ job[j].pc \notin Passing
    BY <2>3, <2>5, LogIs, PassingIs DEF Right
  <2>7. \A k \in Job : k # j => job[k].pc \notin Passing
    BY <2>3
  <2> QED
    BY <2>3, <2>6, <2>7, OutsideSteady
<1>3. CASE CloneAndProve(j)
  <2>1. /\ Goto(j, "send") /\ job[j].pc = "clone"
        /\ UNCHANGED <<chainVars, events, active, requests, actionState, storage>>
    BY <1>3 DEF CloneAndProve
  <2> QED
    BY <2>1, GotoSteady, PassingIs
<1>4. CASE ProveFails(j) \/ Skip(j) \/ RollupThrows(j)
  <2>1. /\ Return(j) /\ job[j].pc # "store" /\ job[j].pc # "saveAction"
        /\ UNCHANGED <<chainVars, events, active, requests, actionState, storage>>
    BY <1>4 DEF ProveFails, Skip, RollupThrows
  <2> QED
    BY <2>1, ReturnSteady
<1>5. CASE Send(j)
  <2>1. PICK m : m = Idle
    OBVIOUS
  <2>2. /\ job' = [job EXCEPT ![j] = m] /\ job[j].pc = "send" /\ m.pc = "idle"
        /\ UNCHANGED <<log, events, active, requests, actionState, storage>>
    BY <1>5, <2>1 DEF Send, Return, Idle
  <2>3. reduced' \in Nat /\ reduced <= reduced'
    <3>1. CASE ~ Accepted(j)
      BY <1>5, <3>1, LogIs DEF Send, Right
    <3>2. CASE Accepted(j)
      <4>1. PICK ids, c : ids = job[j].actions /\ c = Cardinality(ids)
        OBVIOUS
      <4>2. ids \subseteq 1 .. Len(log)
        BY <4>1, LocalsAre DEF LocalRight
      <4>3. c \in Nat
        BY <4>1, <4>2, LogIs, BoundedIs DEF Right
      <4>4. reduced' = reduced + c
        BY <1>5, <3>2, <4>1 DEF Send
      <4> QED
        BY <4>3, <4>4, LogIs DEF Right
    <3> QED
      BY <3>1, <3>2
  <2>4. job[j].pc \notin Passing /\ m.pc \notin Passing
    BY <2>2, PassingIs
  <2> QED
    BY <2>2, <2>3, <2>4, OutsideSteady
<1> QED
  BY <1>1, <1>2, <1>3, <1>4, <1>5 DEF Rollup

LEMMA CrashSteady ==
  ASSUME Right, Right', SteadyRight, steady, steady', NEW p \in Process, Crash(p)
  PROVE  SteadyRight'
<1>1. /\ actionState' = [actionState EXCEPT ![p] = 0] /\ (storage' = storage \/ storage' = <<>>)
      /\ job' = [j \in Job |-> IF Home[j] = p THEN Idle ELSE job[j]]
      /\ log' = log /\ reduced' = reduced /\ UNCHANGED <<events, active, requests>>
      /\ \A j \in Job : Home[j] = p => ~ InTheMiddle(j)
  BY DEF Crash, chainVars
<1>2. Idle.pc = "idle" /\ "idle" \notin Passing
  BY PassingIs DEF Idle
<1>3. \A k \in Job : job'[k].pc \in Passing => job'[k] = job[k] /\ Home[k] # p
  BY <1>1, <1>2
<1>4. OnePass /\ EventsSteady /\ \A k \in Job : SteadyLocal(job[k], actionState[Home[k]])
  BY SteadyIs
<1>5. OnePass'
  BY <1>3, <1>4, PassingIs DEF OnePass
<1>6. ASSUME NEW k \in Job, job[k].pc = "saveAction" \/ job'[k].pc = "saveAction" PROVE job'[k] = job[k]
  <2>1. CASE Home[k] = p
    <3>1. job[k].pc # "saveAction" /\ job'[k] = Idle
      BY <1>1, <2>1 DEF InTheMiddle
    <3> QED
      BY <1>2, <1>6, <3>1
  <2>2. CASE Home[k] # p
    BY <1>1, <2>2
  <2> QED
    BY <2>1, <2>2
<1>7. ASSUME \A k \in Job : job'[k].pc # "store" PROVE \E b \in Nat : Len(events) = 2 * b
  <2>1. CASE \A k \in Job : job[k].pc # "store"
    BY <1>4, <2>1 DEF EventsSteady
  <2>2. ASSUME NEW k \in Job, job[k].pc = "store" PROVE \E b \in Nat : Len(events) = 2 * b
    <3>1. Home[k] = p
      BY <1>1, <1>7, <2>2
    <3>2. job[k].dimension # 2
      BY <1>1, <2>2, <3>1 DEF InTheMiddle
    <3> QED
      BY <2>2, <3>2, StoreIs
  <2> QED
    BY <2>1, <2>2
<1>8. ASSUME NEW k \in Job PROVE SteadyLocal(job'[k], actionState'[Home[k]])
  <2>1. CASE job'[k].pc \notin Passing
    BY <2>1, QuietLocal
  <2>2. CASE job'[k].pc \in Passing
    <3>1. job'[k] = job[k] /\ Home[k] # p /\ Home[k] \in Process
      BY <1>3, <2>2, Bounds
    <3>2. actionState'[Home[k]] = actionState[Home[k]]
      BY <1>1, <3>1 DEF Right, ChainRight
    <3> QED
      BY <1>4, <3>1, <3>2
  <2> QED
    BY <2>1, <2>2
<1>9. reduced' \in Nat /\ reduced <= reduced'
  BY <1>1, LogIs DEF Right
<1> QED
  BY <1>1, <1>5, <1>6, <1>7, <1>8, <1>9, SteadyAside

-----------------------------------------------------------------------------
(***************************************************************************)
(* What holds of every behavior that is steady.                            *)
(***************************************************************************)
LEMMA LogNext ==
  ASSUME [Next]_vars
  PROVE  log' = log \/ \E r \in {NewRequest} \cup 0 .. MaxActions - 1 : Dispatch(r)
<1>1. ASSUME NEW n, ReduceElsewhere(n) PROVE log' = log
  BY <1>1 DEF ReduceElsewhere
<1>2. ASSUME NEW j \in Job, Update(j) PROVE log' = log
  BY <1>2 DEF Update, FetchState, FetchEvents, StoreEvent, EventsDone, DuplicateEvent, Find,
              FindNothing, FindLatest, Create, DuplicateRequest, FindRequest, SaveRequest, SaveAction,
              PassDone, FindRequests, Retry, chainVars
<1>3. ASSUME NEW j \in Job, Rollup(j) \/ Skip(j) \/ RollupThrows(j) \/ FetchThrows(j) PROVE log' = log
  BY <1>3 DEF Rollup, FindBatch, FetchRollupState, CloneAndProve, ProveFails, Send, Skip,
              RollupThrows, FetchThrows, Retry, chainVars
<1>4. ASSUME NEW p, Crash(p) PROVE log' = log
  BY <1>4 DEF Crash, chainVars
<1>5. CASE UNCHANGED vars
  BY <1>5 DEF vars, chainVars
<1> QED
  BY <1>1, <1>2, <1>3, <1>4, <1>5 DEF Next, ChainStep, Fail

LEMMA LogSoundInit ==
  ASSUME Init
  PROVE  LogSound
<1> SUFFICES ASSUME NEW i \in DOMAIN Before PROVE Before[i] < Cardinality(Creates(1 .. i - 1))
  BY DEF Init, LogSound
<1>1. Creates(1 .. i - 1) = {h \in 1 .. i - 1 : Before[h] = NewRequest}
  BY DEF Init, Creates
<1>2. Before[i] < Cardinality({h \in 1 .. i - 1 : Before[h] = NewRequest})
  BY RequestsAssumption
<1> QED
  BY <1>1, <1>2

LEMMA LogSoundStep ==
  ASSUME Right, LogSound, [Next]_vars
  PROVE  LogSound'
<1>1. CASE log' = log
  BY <1>1 DEF LogSound, Creates
<1>2. ASSUME NEW r \in {NewRequest} \cup 0 .. MaxActions - 1, Dispatch(r) PROVE LogSound'
  <2>1. log' = Append(log, r) /\ (r = NewRequest \/ r \in DOMAIN InOrder(Creates(1 .. reduced)))
    BY <1>2 DEF Dispatch
  <2>2. PICK n : n = Len(log)
    OBVIOUS
  <2>3. n \in Nat /\ DOMAIN log = 1 .. n /\ reduced \in Nat /\ reduced <= n
    BY <2>2, LogIs DEF Right
  <2>4. DOMAIN log' = 1 .. n + 1 /\ log'[n + 1] = r /\ \A i \in 1 .. n : log'[i] = log[i]
    BY <2>1, <2>2, <2>3 DEF Right, ChainRight
  <2>5. ASSUME NEW i \in 1 .. n + 1 PROVE Creates(1 .. i - 1)' = Creates(1 .. i - 1)
    <3>1. \A h \in 1 .. i - 1 : log'[h] = log[h]
      BY <2>3, <2>4
    <3> QED
      BY <3>1 DEF Creates
  <2>6. ASSUME NEW i \in 1 .. n + 1 PROVE log'[i] < Cardinality(Creates(1 .. i - 1))
    <3>1. CASE i # n + 1
      <4>1. i \in DOMAIN log /\ log'[i] = log[i]
        BY <2>3, <2>4, <3>1
      <4> QED
        BY <4>1 DEF LogSound
    <3>2. CASE i = n + 1
      <4>1. log'[i] = r /\ i - 1 = n
        BY <2>3, <2>4, <3>2
      <4>2. r < Cardinality(Creates(1 .. n))
        <5>1. PICK few : few = 1 .. reduced
          OBVIOUS
        <5>2. few \subseteq 1 .. n
          BY <2>3, <5>1
        <5>3. /\ Cardinality(Creates(few)) <= Cardinality(Creates(1 .. n))
              /\ Cardinality(Creates(few)) \in Nat /\ Cardinality(Creates(1 .. n)) \in Nat
          BY <2>3, <5>2, KindsGrow, KindsAre
        <5>4. CASE r = NewRequest
          BY <5>3, <5>4, Bounds
        <5>5. CASE r \in DOMAIN InOrder(Creates(few))
          <6>1. r \in 0 .. Cardinality(Creates(few)) - 1
            BY <5>5 DEF InOrder
          <6> QED
            BY <5>3, <6>1
        <5> QED
          BY <2>1, <5>1, <5>4, <5>5
      <4> QED
        BY <4>1, <4>2
    <3> QED
      BY <3>1, <3>2
  <2> QED
    BY <2>4, <2>5, <2>6 DEF LogSound
<1> QED
  BY <1>1, <1>2, LogNext

LEMMA SteadyInit ==
  ASSUME Init
  PROVE  SteadyRight
<1>1. /\ log = Before /\ reduced = Len(Before) /\ events = <<>> /\ active = {} /\ requests = <<>>
      /\ storage = <<>> /\ job = [j \in Job |-> Idle]
  BY DEF Init
<1>2. Idle.pc = "idle" /\ "idle" \notin Passing
  BY PassingIs DEF Idle
<1>3. 0 \in 0 .. reduced
  BY Started, LogIs DEF Right
<1>4. OnePass
  BY <1>1, <1>2, PassingIs DEF OnePass
<1>5. EventsSteady
  <2>1. DOMAIN events = {} /\ Len(events) = 2 * 0 /\ 0 \in Nat
    BY <1>1
  <2> QED
    BY <2>1 DEF EventsSteady
<1>6. DocumentsSteady
  <2>1. \A k \in Job : job[k].pc # "saveAction"
    BY <1>1, <1>2
  <2>2. Applied = active
    BY <2>1, NoSaver DEF Applied
  <2>3. Applied = 1 .. 0
    BY <1>1, <2>2
  <2>4. Len(requests) = 0 /\ 0 .. Len(requests) - 1 = {}
    BY <1>1
  <2>5. Leaves = <<>>
    BY <2>4 DEF Leaves
  <2> QED
    BY <1>3, <2>3, <2>5, NoTrees DEF DocumentsSteady
<1>7. ResultsSteady
  BY <1>1 DEF ResultsSteady
<1>8. \E n \in 0 .. reduced : storage = TreesAfter(n)
  BY <1>1, <1>3, NoTrees
<1>9. \A j \in Job : SteadyLocal(job[j], actionState[Home[j]])
  BY <1>1, <1>2, QuietLocal
<1> QED
  BY <1>4, <1>5, <1>6, <1>7, <1>8, <1>9 DEF SteadyRight

LEMMA SteadyWas ==
  ASSUME Right, [Next]_vars, steady'
  PROVE  steady
<1>1. ASSUME NEW r, Dispatch(r) \/ ReduceElsewhere(r) PROVE steady' = steady
  BY <1>1 DEF Dispatch, ReduceElsewhere
<1>2. ASSUME NEW j \in Job, Update(j) PROVE steady
  BY <1>2 DEF Update, FetchState, FetchEvents, StoreEvent, EventsDone, DuplicateEvent, Find,
              FindNothing, FindLatest, Create, DuplicateRequest, FindRequest, SaveRequest, SaveAction,
              PassDone, FindRequests
<1>3. ASSUME NEW j \in Job, Rollup(j) \/ Skip(j) \/ RollupThrows(j) \/ FetchThrows(j) PROVE steady
  BY <1>3 DEF Rollup, FindBatch, FetchRollupState, CloneAndProve, ProveFails, Send, Skip,
              RollupThrows, FetchThrows
<1>4. ASSUME NEW p, Crash(p) PROVE steady
  BY <1>4 DEF Crash
<1>5. CASE UNCHANGED vars
  BY <1>5 DEF vars
<1> QED
  BY <1>1, <1>2, <1>3, <1>4, <1>5 DEF Next, ChainStep, Fail

LEMMA SteadyStep ==
  ASSUME Right, Right', LogSound, SteadyRight, [Next]_vars
  PROVE  SteadyRight'
<1> SUFFICES ASSUME steady' PROVE SteadyRight'
  BY DEF SteadyRight
<1>0. steady
  BY SteadyWas
<1>1. ASSUME NEW r, Dispatch(r) PROVE SteadyRight'
  BY <1>0, <1>1, DispatchSteady
<1>2. ASSUME NEW n \in 1 .. Len(log), ReduceElsewhere(n) PROVE SteadyRight'
  BY <1>0, <1>2, ReduceSteady
<1>3. ASSUME NEW j \in Job, Update(j) PROVE SteadyRight'
  BY <1>0, <1>3, UpdateSteady
<1>4. ASSUME NEW j \in Job, Rollup(j) \/ Skip(j) \/ RollupThrows(j) PROVE SteadyRight'
  BY <1>0, <1>4, RollupSteady
<1>5. ASSUME NEW p \in Process, Crash(p) PROVE SteadyRight'
  BY <1>0, <1>5, CrashSteady
<1>6. ASSUME NEW j \in Job, FetchThrows(j) PROVE SteadyRight'
  BY <1>0, <1>6, FetchThrowsSteady
<1>7. CASE UNCHANGED vars
  <2>1. /\ UNCHANGED <<chainVars, log, reduced, events, active, requests, actionState, storage, job, steady>>
    BY <1>7 DEF vars, chainVars
  <2>2. OnePass'
    BY <1>0, <2>1, SteadyIs DEF OnePass, InPass
  <2>3. (\A k \in Job : job'[k].pc # "store") => \E b \in Nat : Len(events) = 2 * b
    BY <1>0, <2>1, SteadyIs DEF EventsSteady
  <2>4. \A k \in Job : SteadyLocal(job'[k], actionState'[Home[k]])
    BY <1>0, <2>1, SteadyIs
  <2>5. reduced' \in Nat /\ reduced <= reduced'
    BY <2>1, LogIs DEF Right
  <2> QED
    BY <1>0, <2>1, <2>2, <2>3, <2>4, <2>5, SteadyAside
<1> QED
  BY <1>1, <1>2, <1>3, <1>4, <1>5, <1>6, <1>7 DEF Next, ChainStep, Fail

(* As long as the passes over events and actions neither overlap nor stop  *)
(* in the middle, and are shown all events, a request RESOLVED by          *)
(* updateRequestActions() holds the events of every dimension, and the     *)
(* trees in memory are those of the contract at one time.                  *)
THEOREM SteadyRequestsAreRight == Spec => []RightWhileSteady
<1>1. ASSUME Right, SteadyRight PROVE RightWhileSteady
  <2>1. WholeWhileSteady
    BY <1>1, SteadyIs DEF WholeWhileSteady, ResultsSteady, WholeResult
  <2>2. TreesOfOneTime
    BY <1>1, SteadyIs DEF TreesOfOneTime
  <2> QED
    BY <2>1, <2>2 DEF RightWhileSteady
<1>2. Init => LogSound /\ SteadyRight
  BY LogSoundInit, SteadyInit
<1>3. Right /\ Right' /\ LogSound /\ SteadyRight /\ [Next]_vars => LogSound' /\ SteadyRight'
  BY LogSoundStep, SteadyStep
<1> QED
  BY <1>1, <1>2, <1>3, RightAlways, PTL DEF Spec
=============================================================================
