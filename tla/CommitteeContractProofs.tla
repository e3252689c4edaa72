---------------------- MODULE CommitteeContractProofs ----------------------
(***************************************************************************)
(* What the committee service guarantees for any number of servers and     *)
(* actions, although none of its writes is awaited.  The argument: a write *)
(* in flight is of a reduced action, it is saved only after its committee  *)
(* is in the collection, committees are never removed, and a tree is only  *)
(* ever written from the collection; a batch that starts from trees,       *)
(* collection and contract in agreement goes on through the trees of the   *)
(* contract with one committee more after each proof.                      *)
(***************************************************************************)
EXTENDS CommitteeContract, WellFoundedInduction, TLAPS

\* The local variables of a job are a record, whatever their values.
IsLocal(l) ==
  l = [pc |-> l.pc, state |-> l.state, notActiveActions |-> l.notActiveActions,
       storage |-> l.storage, proof |-> l.proof, nonce |-> l.nonce,
       undisturbed |-> l.undisturbed]

JobsOK ==
  /\ DOMAIN job = Server
  /\ \A s \in Server : IsLocal(job[s]) /\ LocalsOK(job[s])

Typed == TypeOK /\ JobsOK

\* A write in flight is of a reduced action, and its committee is there once
\* it is upserted.
WriteIsRight(w) ==
  /\ w.action \in 1 .. reduced
  /\ w.upserted => w.action \in DOMAIN committeeModel

\* The list of a job that writes committees holds only reduced actions.
ListIsReduced(l) == l.pc = "getData" => l.notActiveActions \subseteq 1 .. reduced

PendingIsRight ==
  \A s \in Server : /\ \A w \in writes[s] : WriteIsRight(w)
                    /\ ListIsReduced(job[s])

Safe == PendingIsRight /\ CommitteesAreOnChain /\ ActiveHasCommittee /\ TreesAreBehind

IInv == Typed /\ Safe

-----------------------------------------------------------------------------
(* An empty tree is a tree, and so are those of the contract.              *)
LEMMA Empty == IsTree(EmptyTree) /\ DOMAIN EmptyTree = {}
BY DEF IsTree, EmptyTree

LEMMA TreesOfContract ==
  ASSUME TypeOK, NEW n \in 0 .. reduced
  PROVE  IsTree(Trees(n))
BY DEF TypeOK, IsTree, Trees, Position

(* Overwriting a tree with another one keeps the leaves the other lacks.   *)
LEMMA OverwriteIs ==
  ASSUME NEW t, NEW u
  PROVE  /\ DOMAIN Overwrite(t, u) = DOMAIN t \cup DOMAIN u
         /\ \A c \in DOMAIN u : Overwrite(t, u)[c] = u[c]
         /\ \A c \in DOMAIN t : c \notin DOMAIN u => Overwrite(t, u)[c] = t[c]
BY DEF Overwrite

(* A job that has ended has nothing in its variables.                      *)
LEMMA IdleIsLocal ==
  ASSUME reduced \in Nat
  PROVE  IsLocal(Idle) /\ LocalsOK(Idle)
<1>1. IsLocal(Idle)
  BY DEF IsLocal, Idle
<1>2. Idle.proof.actions \in Seq(Position) /\ Idle.proof.from \in 0 .. reduced
  <2>1. Idle.proof.actions = <<>> /\ Idle.proof.from = 0
    BY DEF Idle, NoProof
  <2> QED
    BY <2>1
<1>3. IsTree(Idle.storage) /\ IsTree(Idle.proof.tree)
  BY Empty DEF Idle, NoProof
<1>4. /\ Idle.pc \in PC /\ Idle.state \in 0 .. reduced
      /\ Idle.notActiveActions \subseteq Position
      /\ {Idle.nonce, Idle.undisturbed} \subseteq BOOLEAN
  BY DEF Idle, PC
<1> QED
  BY <1>1, <1>2, <1>3, <1>4 DEF LocalsOK

LEMMA InitInv == Init => IInv
<1> SUFFICES ASSUME Init PROVE IInv
  OBVIOUS
<1>0. /\ log = <<>> /\ reduced = 0 /\ active = {} /\ mempool = {}
      /\ committeeModel = EmptyTree
      /\ storage = [s \in Server |-> EmptyTree] /\ writes = [s \in Server |-> {}]
      /\ job = [s \in Server |-> Idle] /\ DOMAIN mirror = {}
  BY DEF Init, Feed!Init
<1>a. \A s \in Server : LocalsOK(job[s])
  BY <1>0, IdleIsLocal
<1>1. TypeOK
  BY <1>0, <1>a, Empty DEF TypeOK
<1>2. JobsOK
  BY <1>0, IdleIsLocal DEF JobsOK
<1>3. PendingIsRight
  BY <1>0 DEF PendingIsRight, ListIsReduced, Idle
<1>4. CommitteesAreOnChain /\ ActiveHasCommittee /\ TreesAreBehind
  BY <1>0, Empty DEF CommitteesAreOnChain, ActiveHasCommittee, TreesAreBehind
<1> QED
  BY <1>1, <1>2, <1>3, <1>4 DEF IInv, Typed, Safe

-----------------------------------------------------------------------------
(* What a step of one server leaves behind is right if its job is, and the *)
(* trees, the collections and the chain only grow.                         *)
LEMMA OneJob ==
  ASSUME JobsOK, NEW s \in Server, NEW l,
         IsLocal(l), LocalsOK(l),
         job' = [job EXCEPT ![s] = l], UNCHANGED chainVars
  PROVE  JobsOK'
BY DEF JobsOK, LocalsOK, chainVars, Position, IsTree

(* Nothing a job holds goes stale when the chain moves on.                 *)
LEMMA LocalsKeep ==
  ASSUME TypeOK, reduced' \in reduced .. Len(log'), Len(log') >= Len(log), Len(log') \in Nat,
         NEW l, LocalsOK(l)
  PROVE  LocalsOK(l)'
<1>1. reduced \in Nat /\ Len(log) \in Nat
  BY DEF TypeOK
<1>2. l.proof.actions \in Seq(1 .. Len(log'))
  BY <1>1 DEF LocalsOK, Position
<1> QED
  BY <1>1, <1>2 DEF LocalsOK, Position, IsTree

(* The history and the nonce are the only things other steps change.       *)
LEMMA DisturbedIs ==
  ASSUME JobsOK
  PROVE  /\ DOMAIN Disturbed(job) = Server
         /\ \A s \in Server : IsLocal(Disturbed(job)[s]) /\ LocalsOK(Disturbed(job)[s])
         /\ \A s \in Server : /\ Disturbed(job)[s].pc = job[s].pc
                              /\ Disturbed(job)[s].notActiveActions =
                                   job[s].notActiveActions
<1>1. ASSUME NEW s \in Server
      PROVE  LET l == Disturbed(job)[s]
             IN  /\ IsLocal(l) /\ l.pc = job[s].pc /\ l.state = job[s].state
                 /\ l.notActiveActions = job[s].notActiveActions
                 /\ l.storage = job[s].storage /\ l.proof = job[s].proof
                 /\ l.nonce = job[s].nonce /\ l.undisturbed = FALSE
  <2>1. Disturbed(job)[s] = [job[s] EXCEPT !.undisturbed = FALSE]
    BY DEF Disturbed
  <2>2. IsLocal(job[s])
    BY DEF JobsOK
  <2> QED
    BY <2>1, <2>2 DEF IsLocal
<1>2. ASSUME NEW s \in Server PROVE LocalsOK(Disturbed(job)[s])
  <2>1. LocalsOK(job[s])
    BY DEF JobsOK
  <2> QED
    BY <1>1, <2>1 DEF LocalsOK
<1>3. DOMAIN Disturbed(job) = Server
  BY DEF Disturbed
<1> QED
  BY <1>1, <1>2, <1>3

LEMMA NonceUsedIs ==
  ASSUME NEW jobs, DOMAIN jobs = Server,
         \A s \in Server : IsLocal(jobs[s]) /\ LocalsOK(jobs[s])
  PROVE  /\ DOMAIN NonceUsed(jobs) = Server
         /\ \A s \in Server : IsLocal(NonceUsed(jobs)[s]) /\ LocalsOK(NonceUsed(jobs)[s])
         /\ \A s \in Server : /\ NonceUsed(jobs)[s].pc = jobs[s].pc
                              /\ NonceUsed(jobs)[s].notActiveActions =
                                   jobs[s].notActiveActions
<1>1. ASSUME NEW s \in Server
      PROVE  LET l == NonceUsed(jobs)[s]
             IN  /\ IsLocal(l) /\ l.pc = jobs[s].pc /\ l.state = jobs[s].state
                 /\ l.notActiveActions = jobs[s].notActiveActions
                 /\ l.storage = jobs[s].storage /\ l.proof = jobs[s].proof
                 /\ l.nonce = FALSE /\ l.undisturbed = jobs[s].undisturbed
  <2>1. NonceUsed(jobs)[s] = [jobs[s] EXCEPT !.nonce = FALSE]
    BY DEF NonceUsed
  <2>2. IsLocal(jobs[s])
    OBVIOUS
  <2> QED
    BY <2>1, <2>2 DEF IsLocal
<1>2. ASSUME NEW s \in Server PROVE LocalsOK(NonceUsed(jobs)[s])
  BY <1>1 DEF LocalsOK
<1>3. DOMAIN NonceUsed(jobs) = Server
  BY DEF NonceUsed
<1> QED
  BY <1>1, <1>2, <1>3

LEMMA SameChain ==
  ASSUME UNCHANGED chainVars, DOMAIN job' = Server,
         \A s \in Server : IsLocal(job'[s]) /\ LocalsOK(job'[s])
  PROVE  JobsOK'
BY DEF JobsOK, LocalsOK, chainVars, Position, IsTree

LEMMA LaterChain ==
  ASSUME TypeOK, UNCHANGED log, reduced' \in reduced .. Len(log), DOMAIN job' = Server,
         \A s \in Server : IsLocal(job'[s]) /\ LocalsOK(job'[s])
  PROVE  JobsOK'
BY LocalsKeep DEF JobsOK, TypeOK

\* The variables that only some steps of a job change.
others == <<chainVars, dbVars, mempool, storage, writes>>

LEMMA JobOnly ==
  ASSUME Typed, NEW s \in Server, NEW l, IsLocal(l), LocalsOK(l),
         job' = [job EXCEPT ![s] = l], UNCHANGED others
  PROVE  Typed'
<1>1. JobsOK'
  BY OneJob DEF Typed, others
<1> QED
  BY <1>1 DEF Typed, JobsOK, TypeOK, Position, IsTree, others, chainVars, dbVars

(* The steps of updateCommittees() that change only the job.               *)
LEMMA UpdateTypes ==
  ASSUME Typed, NEW s \in Server,
         \/ Start(s) \/ (\E r \in 0 .. reduced : FetchState(s, r)) \/ Find(s)
         \/ FindDone(s) \/ FetchThrows(s) \/ UpdateThrows(s) \/ Skip(s)
  PROVE  Typed'
<1> DEFINE l == job'[s]
<1>0. IsLocal(job[s]) /\ LocalsOK(job[s]) /\ s \in DOMAIN job /\ DOMAIN mirror \subseteq Position
      /\ reduced \in Nat
  BY DEF Typed, JobsOK, TypeOK
<1>1. ASSUME Start(s) PROVE Typed'
  <2>1. job' = [job EXCEPT ![s] = [job[s] EXCEPT !.pc = "fetchState"]]
    BY <1>1 DEF Start
  <2>2. IsLocal(l) /\ LocalsOK(l)
    BY <1>0, <2>1 DEF IsLocal, LocalsOK, PC
  <2> QED
    BY <1>0, <1>1, <2>1, <2>2, JobOnly DEF Start, others
<1>2. ASSUME NEW r \in 0 .. reduced, FetchState(s, r) PROVE Typed'
  <2>1. job' = [job EXCEPT ![s] = [job[s] EXCEPT !.pc = "find", !.state = r]]
    BY <1>2 DEF FetchState
  <2>2. IsLocal(l) /\ LocalsOK(l)
    BY <1>0, <2>1 DEF IsLocal, LocalsOK, PC
  <2> QED
    BY <1>0, <1>2, <2>1, <2>2, JobOnly DEF FetchState, others
<1>3. ASSUME Find(s) PROVE Typed'
  <2>1. job' = [job EXCEPT ![s] =
                  [job[s] EXCEPT !.pc = "getData", !.state = 0,
                     !.notActiveActions = ReducedNotActive(job[s].state)]]
    BY <1>3 DEF Find
  <2>2. ReducedNotActive(job[s].state) \subseteq Position
    BY <1>0 DEF ReducedNotActive
  <2>3. /\ IsLocal(l) /\ l.pc = "getData" /\ l.state = 0
        /\ l.notActiveActions \subseteq Position
        /\ l.storage = job[s].storage /\ l.proof = job[s].proof
        /\ l.nonce = job[s].nonce /\ l.undisturbed = job[s].undisturbed
    BY <1>0, <2>1, <2>2 DEF IsLocal
  <2>4. LocalsOK(l)
    BY <1>0, <2>3 DEF LocalsOK, PC
  <2> QED
    BY <1>0, <1>3, <2>1, <2>3, <2>4, JobOnly DEF Find, others
<1>4. ASSUME FindDone(s) PROVE Typed'
  <2>1. job' = [job EXCEPT ![s] = [job[s] EXCEPT !.pc = "findCommittees"]]
    BY <1>4 DEF FindDone
  <2>2. IsLocal(l) /\ LocalsOK(l)
    BY <1>0, <2>1 DEF IsLocal, LocalsOK, PC
  <2> QED
    BY <1>0, <1>4, <2>1, <2>2, JobOnly DEF FindDone, others
<1>5. ASSUME FetchThrows(s) PROVE Typed'
  <2>1. PICK label \in {"fetchState", "findCommittees"} :
          job' = [job EXCEPT ![s] = [job[s] EXCEPT !.pc = label, !.state = 0]]
    BY <1>5 DEF FetchThrows
  <2>2. /\ IsLocal(l) /\ l.pc \in PC /\ l.state = 0
        /\ l.notActiveActions = job[s].notActiveActions
        /\ l.storage = job[s].storage /\ l.proof = job[s].proof
        /\ l.nonce = job[s].nonce /\ l.undisturbed = job[s].undisturbed
    BY <1>0, <2>1 DEF IsLocal, PC
  <2>3. LocalsOK(l)
    BY <1>0, <2>2 DEF LocalsOK
  <2> QED
    BY <1>0, <1>5, <2>1, <2>2, <2>3, JobOnly DEF FetchThrows, others
<1>6. ASSUME UpdateThrows(s) PROVE Typed'
  <2>1. job' = [job EXCEPT ![s] = [job[s] EXCEPT !.pc = "updated"]]
    BY <1>6 DEF UpdateThrows
  <2>2. IsLocal(l) /\ LocalsOK(l)
    BY <1>0, <2>1 DEF IsLocal, LocalsOK, PC
  <2> QED
    BY <1>0, <1>6, <2>1, <2>2, JobOnly DEF UpdateThrows, others
<1>7. ASSUME Skip(s) PROVE Typed'
  BY <1>0, <1>7, IdleIsLocal, JobOnly DEF Skip, others
<1> QED
  BY <1>1, <1>2, <1>3, <1>4, <1>5, <1>6, <1>7

(* A set of natural numbers has a smallest element.                        *)
LEMMA Smallest ==
  ASSUME NEW S, S \subseteq Nat, S # {}
  PROVE  \E m \in S : \A h \in S : m <= h
<1> DEFINE less == OpToRel(<, Nat)
<1>1. IsWellFoundedOn(less, Nat)
  BY NatLessThanWellFounded
<1>2. \A h, m \in Nat : h < m => <<h, m>> \in less
  BY DEF OpToRel
<1> HIDE DEF less
<1>3. PICK m \in S : \A h \in S : ~ (<<h, m>> \in less)
  BY <1>1, WFMin
<1>4. \A h \in S : h \in Nat /\ m \in Nat /\ ~ (h < m)
  BY <1>2, <1>3
<1>5. \A h \in S : m <= h
  BY <1>4
<1> QED
  BY <1>5

(* The next action of a job's list is one of the list.                     *)
LEMMA NextIsListed ==
  ASSUME NEW list, list \subseteq Nat, list # {}
  PROVE  NextListed(list) \in list
BY Smallest DEF NextListed, First

(* The steps of rollup() that change only the job.                         *)
LEMMA RollupTypes ==
  ASSUME Typed, NEW s \in Server,
         \/ FindNotActive(s) \/ (\E r \in 0 .. reduced : FetchRollupState(s, r))
         \/ InitProof(s) \/ Prove(s) \/ ProveFails(s) \/ FetchNonce(s)
         \/ RollupThrows(s)
  PROVE  Typed'
<1> DEFINE l == job'[s]
<1>0. /\ IsLocal(job[s]) /\ LocalsOK(job[s]) /\ s \in DOMAIN job
      /\ DOMAIN mirror \subseteq Position /\ active \subseteq Position
      /\ reduced \in Nat /\ Len(log) \in Nat /\ IsTree(storage[s])
  BY DEF Typed, JobsOK, TypeOK
<1>1. ASSUME FindNotActive(s) PROVE Typed'
  <2>1. CASE NotActiveActions = {}
    BY <1>0, <1>1, <2>1, IdleIsLocal, JobOnly DEF FindNotActive, others
  <2>2. CASE NotActiveActions # {}
    <3>1. job' = [job EXCEPT ![s] =
                    [job[s] EXCEPT !.pc = "fetchRollupState",
                                   !.notActiveActions = NotActiveActions,
                                   !.undisturbed = Synced(s)]]
      BY <1>1, <2>2 DEF FindNotActive
    <3>2. Synced(s) \in BOOLEAN
      BY DEF Synced
    <3>3. NotActiveActions \subseteq Position
      BY <1>0 DEF NotActiveActions
    <3>4. /\ IsLocal(l) /\ l.pc = "fetchRollupState" /\ l.state = job[s].state
          /\ l.notActiveActions \subseteq Position
          /\ l.storage = job[s].storage /\ l.proof = job[s].proof
          /\ l.nonce = job[s].nonce /\ l.undisturbed = Synced(s)
      BY <1>0, <3>1, <3>3 DEF IsLocal
    <3>5. LocalsOK(l)
      BY <1>0, <3>2, <3>4 DEF LocalsOK, PC
    <3> QED
      BY <1>0, <1>1, <3>1, <3>4, <3>5, JobOnly DEF FindNotActive, others
  <2> QED
    BY <2>1, <2>2
<1>2. ASSUME NEW r \in 0 .. reduced, FetchRollupState(s, r) PROVE Typed'
  <2> DEFINE still == job[s].undisturbed /\ r = reduced
  <2>1. job' = [job EXCEPT ![s] = [job[s] EXCEPT !.pc = "init", !.state = r,
                                                 !.undisturbed = still]]
    BY <1>2 DEF FetchRollupState
  <2>2. still \in BOOLEAN
    OBVIOUS
  <2>3. /\ IsLocal(l) /\ l.pc = "init" /\ l.state = r
        /\ l.notActiveActions = job[s].notActiveActions
        /\ l.storage = job[s].storage /\ l.proof = job[s].proof
        /\ l.nonce = job[s].nonce /\ l.undisturbed = still
    <3> HIDE DEF still
    <3> QED
      BY <1>0, <2>1 DEF IsLocal
  <2>4. LocalsOK(l)
    <3> HIDE DEF still
    <3> QED
      BY <1>0, <2>2, <2>3 DEF LocalsOK, PC
  <2> QED
    BY <1>0, <1>2, <2>1, <2>3, <2>4, JobOnly DEF FetchRollupState, others
<1>3. ASSUME InitProof(s) PROVE Typed'
  <2> DEFINE proof == [from |-> job[s].state, actions |-> <<>>,
                       tree |-> Trees(job[s].state)]
  <2>1. job' = [job EXCEPT ![s] = [job[s] EXCEPT !.pc = "prove", !.state = 0,
                                     !.storage = storage[s], !.proof = proof]]
    BY <1>3 DEF InitProof
  <2>2. /\ proof.from = job[s].state /\ proof.actions = <<>>
        /\ proof.tree = Trees(job[s].state)
    OBVIOUS
  <2>3. IsTree(Trees(job[s].state))
    BY <1>0, TreesOfContract DEF Typed, LocalsOK
  <2> HIDE DEF proof
  <2>4. /\ IsLocal(l) /\ l.pc = "prove" /\ l.state = 0
        /\ l.notActiveActions = job[s].notActiveActions
        /\ l.storage = storage[s] /\ l.proof = proof
        /\ l.nonce = job[s].nonce /\ l.undisturbed = job[s].undisturbed
    BY <1>0, <2>1 DEF IsLocal
  <2>5. proof.actions \in Seq(Position) /\ proof.from \in 0 .. reduced /\ IsTree(proof.tree)
    BY <1>0, <2>2, <2>3 DEF LocalsOK
  <2>6. LocalsOK(l)
    BY <1>0, <2>4, <2>5 DEF LocalsOK, PC
  <2> QED
    BY <1>0, <1>3, <2>1, <2>4, <2>6, JobOnly DEF InitProof, others
<1>4. ASSUME Prove(s) PROVE Typed'
  <2> DEFINE i == NextListed(job[s].notActiveActions)
             Created(tree) == Put(tree, NextCommitteeId(s), i)
             rest == job[s].notActiveActions \ {i}
             proof == [from |-> job[s].proof.from,
                       actions |-> Append(job[s].proof.actions, i),
                       tree |-> Created(job[s].proof.tree)]
  <2>1. /\ job' = [job EXCEPT ![s] = [job[s] EXCEPT !.notActiveActions = rest,
                                          !.storage = Created(job[s].storage),
                                          !.proof = proof]]
        /\ job[s].notActiveActions # {} /\ UNCHANGED others
    BY <1>4 DEF Prove, others
  <2>2. i \in Position
    BY <1>0, <2>1, NextIsListed DEF LocalsOK, Position
  <2>3. NextCommitteeId(s) \in Nat
    BY <1>0 DEF LocalsOK, NextCommitteeId
  <2>4. /\ proof.from = job[s].proof.from
        /\ proof.actions = Append(job[s].proof.actions, i)
        /\ proof.tree = Created(job[s].proof.tree)
    OBVIOUS
  <2>5. IsTree(Created(job[s].storage)) /\ IsTree(Created(job[s].proof.tree))
    BY <1>0, <2>2, <2>3 DEF LocalsOK, IsTree, Put
  <2>6. Append(job[s].proof.actions, i) \in Seq(Position)
    BY <1>0, <2>2 DEF LocalsOK
  <2>7. rest \subseteq Position
    BY <1>0 DEF LocalsOK
  <2> HIDE DEF proof, Created, rest, i
  <2>8. /\ IsLocal(l) /\ l.pc = job[s].pc /\ l.state = job[s].state
        /\ l.notActiveActions = rest /\ l.storage = Created(job[s].storage)
        /\ l.proof = proof /\ l.nonce = job[s].nonce
        /\ l.undisturbed = job[s].undisturbed
    BY <1>0, <2>1 DEF IsLocal
  <2>9. LocalsOK(l)
    BY <1>0, <2>4, <2>5, <2>6, <2>7, <2>8 DEF LocalsOK
  <2> QED
    BY <1>0, <2>1, <2>8, <2>9, JobOnly
<1>5. ASSUME ProveFails(s) PROVE Typed'
  BY <1>0, <1>5, IdleIsLocal, JobOnly DEF ProveFails, others
<1>6. ASSUME FetchNonce(s) PROVE Typed'
  <2>1. job' = [job EXCEPT ![s] = [job[s] EXCEPT !.pc = "send", !.nonce = TRUE,
                                                 !.storage = EmptyTree]]
    BY <1>6 DEF FetchNonce
  <2>2. /\ IsLocal(l) /\ l.pc = "send" /\ l.state = job[s].state
        /\ l.notActiveActions = job[s].notActiveActions
        /\ l.storage = EmptyTree /\ l.proof = job[s].proof
        /\ l.nonce = TRUE /\ l.undisturbed = job[s].undisturbed
    BY <1>0, <2>1 DEF IsLocal
  <2>3. LocalsOK(l)
    BY <1>0, <2>2, Empty DEF LocalsOK, PC
  <2> QED
    BY <1>0, <1>6, <2>1, <2>2, <2>3, JobOnly DEF FetchNonce, others
<1>7. ASSUME RollupThrows(s) PROVE Typed'
  BY <1>0, <1>7, IdleIsLocal, JobOnly DEF RollupThrows, others
<1> QED
  BY <1>1, <1>2, <1>3, <1>4, <1>5, <1>6, <1>7

(* The upserts and saves in flight, and the trees.                         *)
LEMMA WriteTypes ==
  ASSUME Typed, NEW s \in Server,
         StartWrite(s) \/ Write(s) \/ UpdateMerkleTrees(s) \/ Send(s) \/ Crash(s)
  PROVE  Typed'
<1> DEFINE l == job'[s]
           Writes == [action : Position, upserted : BOOLEAN]
<1>0. /\ IsLocal(job[s]) /\ LocalsOK(job[s]) /\ s \in DOMAIN job
      /\ JobsOK /\ TypeOK
      /\ DOMAIN mirror \subseteq Position /\ active \subseteq Position
      /\ reduced \in Nat /\ Len(log) \in Nat /\ writes \in [Server -> SUBSET Writes]
      /\ IsTree(committeeModel) /\ DOMAIN storage = Server
      /\ \A t \in Server : IsTree(storage[t])
  BY DEF Typed, JobsOK, TypeOK
<1>1. ASSUME StartWrite(s) PROVE Typed'
  <2> DEFINE i == NextListed(job[s].notActiveActions)
             rest == job[s].notActiveActions \ {i}
             w == [action |-> i, upserted |-> FALSE]
  <2>1. /\ writes' = [writes EXCEPT ![s] = writes[s] \cup {w}]
        /\ job' = [job EXCEPT ![s] = [job[s] EXCEPT !.notActiveActions = rest]]
        /\ job[s].notActiveActions # {}
        /\ UNCHANGED <<chainVars, dbVars, mempool, storage>>
    BY <1>1 DEF StartWrite
  <2>2. i \in Position
    BY <1>0, <2>1, NextIsListed DEF LocalsOK, Position
  <2>3. w \in Writes /\ rest \subseteq Position
    BY <1>0, <2>2 DEF LocalsOK
  <2> HIDE DEF i, rest, w
  <2>4. IsLocal(l) /\ LocalsOK(l)
    BY <1>0, <2>1, <2>3 DEF IsLocal, LocalsOK
  <2>5. JobsOK'
    BY <1>0, <2>1, <2>4, OneJob
  <2>6. writes' \in [Server -> SUBSET Writes]
    BY <1>0, <2>1, <2>3
  <2> QED
    BY <1>0, <2>1, <2>5, <2>6 DEF Typed, TypeOK, JobsOK, Position, IsTree, chainVars, dbVars
<1>2. ASSUME NEW w \in writes[s], Upsert(s, w) PROVE Typed'
  <2>1. w \in Writes /\ w.action \in Position
    BY <1>0
  <2>2. IsTree(committeeModel')
    BY <1>0, <1>2, <2>1 DEF Upsert, IsTree, Put, CommitteeId, Position, chainVars
  <2>3. writes' \in [Server -> SUBSET Writes]
    BY <1>0, <1>2, <2>1 DEF Upsert
  <2>4. JobsOK'
    BY <1>0, <1>2 DEF Upsert, JobsOK, LocalsOK, IsTree, Position, chainVars
  <2> QED
    BY <1>0, <1>2, <2>2, <2>3, <2>4 DEF Upsert, Typed, TypeOK, JobsOK, Position, IsTree, chainVars
<1>3. ASSUME NEW w \in writes[s], Save(s, w) PROVE Typed'
  <2>1. w \in Writes /\ w.action \in Position
    BY <1>0
  <2>2. writes' \in [Server -> SUBSET Writes] /\ active' \subseteq Position
    BY <1>0, <1>3, <2>1 DEF Save
  <2>3. JobsOK'
    <3>1. CASE job' = job
      BY <1>0, <1>3, <3>1 DEF Save, JobsOK, LocalsOK, IsTree, Position, chainVars
    <3>2. CASE job' = Disturbed(job)
      BY <1>0, <1>3, <3>2, DisturbedIs, SameChain DEF Save
    <3> QED
      BY <1>3, <3>1, <3>2 DEF Save
  <2> QED
    BY <1>0, <1>3, <2>2, <2>3 DEF Save, Typed, TypeOK, JobsOK, Position, IsTree, chainVars
<1>4. ASSUME UpdateMerkleTrees(s) PROVE Typed'
  <2>1. /\ storage' = [storage EXCEPT ![s] = Overwrite(storage[s], committeeModel)]
        /\ job' = [job EXCEPT ![s] = [job[s] EXCEPT !.pc = "updated"]]
        /\ UNCHANGED <<chainVars, dbVars, mempool, writes>>
    BY <1>4 DEF UpdateMerkleTrees, Found
  <2>2. IsTree(Overwrite(storage[s], committeeModel))
    BY <1>0 DEF IsTree, Overwrite
  <2>3. IsLocal(l) /\ LocalsOK(l)
    BY <1>0, <2>1 DEF IsLocal, LocalsOK, PC
  <2>4. JobsOK'
    BY <1>0, <2>1, <2>3, OneJob
  <2> QED
    BY <1>0, <2>1, <2>2, <2>4 DEF Typed, TypeOK, JobsOK, Position, IsTree, chainVars, dbVars
<1>5. ASSUME Send(s) PROVE Typed'
  <2> DEFINE tx == [from |-> job[s].proof.from, actions |-> job[s].proof.actions]
  <2>1. /\ mempool' = mempool \/ mempool' = {tx}
        /\ job' = [job EXCEPT ![s] = Idle]
        /\ UNCHANGED <<chainVars, dbVars, storage, writes>>
    BY <1>5 DEF Send
  <2>2. tx.from \in 0 .. reduced /\ tx.actions \in Seq(Position)
    BY <1>0 DEF LocalsOK
  <2> HIDE DEF tx
  <2>3. JobsOK'
    BY <1>0, <2>1, IdleIsLocal, OneJob
  <2> QED
    BY <1>0, <2>1, <2>2, <2>3 DEF Typed, TypeOK, JobsOK, Position, IsTree, chainVars, dbVars
<1>6. ASSUME Crash(s) PROVE Typed'
  <2>1. JobsOK'
    BY <1>0, <1>6, IdleIsLocal, OneJob DEF Crash
  <2> QED
    BY <1>0, <1>6, <2>1, Empty
       DEF Crash, Typed, TypeOK, JobsOK, Position, IsTree, chainVars, dbVars
<1> QED
  BY <1>1, <1>2, <1>3, <1>4, <1>5, <1>6 DEF Write

(* The chain, the mirror, and the other transactions.                      *)
LEMMA ChainTypes ==
  ASSUME Typed, ChainStep \/ OtherTransaction
  PROVE  Typed'
<1>0. /\ JobsOK /\ TypeOK /\ log \in Seq(Action)
      /\ reduced \in 0 .. Len(log) /\ Len(log) \in Nat
      /\ DOMAIN mirror \subseteq Position
  BY DEF Typed, JobsOK, TypeOK
<1>1. ASSUME NEW a \in Action, Dispatch(a) PROVE Typed'
  <2>1. /\ log' = Append(log, a)
        /\ UNCHANGED <<reduced, mirror, active, committeeModel, mempool, storage, writes, job>>
    BY <1>1 DEF Dispatch, Feed!Dispatch
  <2>2. log' \in Seq(Action) /\ Len(log') = Len(log) + 1
    BY <1>0, <2>1
  <2>3. Position \subseteq Position' /\ Seq(Position) \subseteq Seq(Position')
    BY <1>0, <2>2 DEF Position
  <2>4. JobsOK'
    BY <1>0, <2>1, <2>2, LocalsKeep DEF JobsOK
  <2> QED
    BY <1>0, <2>1, <2>2, <2>3, <2>4 DEF Typed, TypeOK, JobsOK, IsTree
<1>2. ASSUME NEW h \in 1 .. Len(log), Record(h) PROVE Typed'
  <2>1. /\ DOMAIN mirror' = DOMAIN mirror \cup {h}
        /\ UNCHANGED <<log, reduced, active, committeeModel, mempool, storage, writes, job>>
    BY <1>2 DEF Record, Feed!Record
  <2>2. JobsOK'
    BY <1>0, <2>1 DEF JobsOK, LocalsOK, IsTree, Position
  <2> QED
    BY <1>0, <2>1, <2>2 DEF Typed, TypeOK, JobsOK, IsTree, Position
<1>3. ASSUME NEW n \in 1 .. Len(log), ReduceElsewhere(n) PROVE Typed'
  <2>1. /\ reduced' = n /\ n > reduced /\ job' = Disturbed(job)
        /\ UNCHANGED <<log, dbVars, mempool, storage, writes>>
    BY <1>3 DEF ReduceElsewhere, Feed!Reduce, dbVars
  <2>2. JobsOK'
    BY <1>0, <2>1, DisturbedIs, LaterChain
  <2> QED
    BY <1>0, <2>1, <2>2 DEF Typed, TypeOK, JobsOK, IsTree, Position, dbVars
<1>4. ASSUME NEW tx \in mempool, Include(tx) PROVE Typed'
  <2>1. reduced' \in reduced .. Len(log)
    <3>1. CASE Accepts(tx)
      <4>1. /\ tx.from = reduced /\ tx.actions \in Seq(Position)
            /\ reduced' = reduced + Len(tx.actions)
        BY <1>0, <1>4, <3>1 DEF TypeOK, Accepts, Include
      <4>2. CASE tx.actions = <<>>
        BY <1>0, <4>1, <4>2
      <4>3. CASE tx.actions # <<>>
        <5> DEFINE n == Len(tx.actions)
        <5>1. n \in DOMAIN tx.actions /\ n \in Nat /\ tx.actions[n] \in 1 .. Len(log)
          BY <4>1, <4>3 DEF Position
        <5>2. tx.actions[n] = reduced + n
          BY <3>1, <4>1, <5>1 DEF Accepts
        <5> QED
          BY <1>0, <4>1, <5>1, <5>2
      <4> QED
        BY <4>2, <4>3
    <3>2. CASE ~ Accepts(tx)
      BY <1>0, <1>4, <3>2 DEF Include
    <3> QED
      BY <3>1, <3>2
  <2> DEFINE jobs == IF reduced' = reduced THEN job ELSE Disturbed(job)
  <2>2. DOMAIN jobs = Server /\ \A s \in Server : IsLocal(jobs[s]) /\ LocalsOK(jobs[s])
    <3>1. DOMAIN job = Server /\ \A s \in Server : IsLocal(job[s]) /\ LocalsOK(job[s])
      BY <1>0 DEF JobsOK
    <3> QED
      BY <1>0, <3>1, DisturbedIs
  <2>3. /\ mempool' = {} /\ job' = NonceUsed(jobs)
        /\ UNCHANGED <<log, dbVars, storage, writes>>
    BY <1>4 DEF Include
  <2> HIDE DEF jobs
  <2>4. JobsOK'
    BY <1>0, <2>1, <2>2, <2>3, NonceUsedIs, LaterChain
  <2> QED
    BY <1>0, <2>1, <2>3, <2>4 DEF Typed, TypeOK, JobsOK, IsTree, Position, dbVars
<1>5. ASSUME OtherTransaction PROVE Typed'
  <2>1. /\ mempool' = {} /\ job' = NonceUsed(job)
        /\ UNCHANGED <<chainVars, dbVars, storage, writes>>
    BY <1>5 DEF OtherTransaction
  <2>2. JobsOK'
    BY <1>0, <2>1, NonceUsedIs, SameChain DEF JobsOK
  <2> QED
    BY <1>0, <2>1, <2>2 DEF Typed, TypeOK, JobsOK, IsTree, Position, chainVars, dbVars
<1> QED
  BY <1>1, <1>2, <1>3, <1>4, <1>5 DEF ChainStep

(* Every step keeps the types.                                             *)
LEMMA TypeStep ==
  ASSUME Typed, [Next]_vars
  PROVE  Typed'
<1>1. CASE UNCHANGED vars
  BY <1>1 DEF vars, chainVars, dbVars, Typed, TypeOK, JobsOK, LocalsOK, IsTree, Position
<1>2. CASE ChainStep \/ OtherTransaction
  BY <1>2, ChainTypes
<1>3. ASSUME NEW s \in Server,
             Update(s) \/ Rollup(s) \/ Skip(s) \/ Write(s) \/ Fail(s)
      PROVE  Typed'
  BY <1>3, UpdateTypes, RollupTypes, WriteTypes DEF Update, Rollup, Fail
<1> QED
  BY <1>1, <1>2, <1>3 DEF Next
-----------------------------------------------------------------------------
(* A step that starts no list of actions to write, and none of whose       *)
(* writes gets further, leaves everything right: the contract only grows.  *)
ListsKeep ==
  \A s \in Server : job'[s].pc = "getData" =>
    job[s].pc = "getData" /\ job'[s].notActiveActions \subseteq job[s].notActiveActions

LEMMA SafeKeeps ==
  ASSUME IInv, reduced' \in Nat, reduced' >= reduced, ListsKeep,
         UNCHANGED <<committeeModel, active, storage, writes>>
  PROVE  Safe'
<1>1. reduced \in Nat /\ 1 .. reduced \subseteq 1 .. reduced'
  BY DEF IInv, Typed, TypeOK
<1>2. PendingIsRight'
  BY <1>1 DEF IInv, Safe, PendingIsRight, WriteIsRight, ListIsReduced, ListsKeep
<1>3. CommitteesAreOnChain'
  <2>1. \A c \in DOMAIN committeeModel : c \in Nat /\ c <= reduced /\ committeeModel[c] = c
    BY DEF IInv, Safe, CommitteesAreOnChain, Typed, TypeOK, IsTree
  <2>2. \A c \in DOMAIN committeeModel : c <= reduced'
    BY <1>1, <2>1
  <2> QED
    BY <2>1, <2>2 DEF CommitteesAreOnChain
<1> QED
  BY <1>2, <1>3 DEF IInv, Safe, ActiveHasCommittee, TreesAreBehind

(* The steps of a server that write nothing: the job of the others stays.  *)
LEMMA JobSafe ==
  ASSUME IInv, NEW s \in Server, NEW l, job' = [job EXCEPT ![s] = l],
         l.pc # "getData",
         UNCHANGED <<chainVars, committeeModel, active, storage, writes>>
  PROVE  Safe'
<1>1. DOMAIN job = Server /\ reduced \in Nat
  BY DEF IInv, Typed, JobsOK, TypeOK
<1>2. ListsKeep
  BY <1>1 DEF ListsKeep
<1> QED
  BY <1>1, <1>2, SafeKeeps DEF chainVars

LEMMA UpdateSafe ==
  ASSUME IInv, NEW s \in Server, Update(s) \/ Skip(s)
  PROVE  Safe'
<1>0. /\ DOMAIN job = Server /\ IsLocal(job[s]) /\ LocalsOK(job[s])
      /\ reduced \in 0 .. Len(log) /\ Len(log) \in Nat
      /\ DOMAIN storage = Server /\ DOMAIN mirror \subseteq 1 .. Len(log)
      /\ writes \in [Server -> SUBSET [action : Position, upserted : BOOLEAN]]
  BY DEF IInv, Typed, JobsOK, TypeOK, Position
<1>1. ASSUME Start(s) PROVE Safe'
  <2>1. job' = [job EXCEPT ![s] = [job[s] EXCEPT !.pc = "fetchState"]]
    BY <1>1 DEF Start
  <2>2. [job[s] EXCEPT !.pc = "fetchState"].pc = "fetchState"
    BY <1>0 DEF IsLocal
  <2> QED
    BY <1>1, <2>1, <2>2, JobSafe DEF Start, dbVars
<1>2. ASSUME NEW r \in 0 .. reduced, FetchState(s, r) PROVE Safe'
  <2>1. job' = [job EXCEPT ![s] = [job[s] EXCEPT !.pc = "find", !.state = r]]
    BY <1>2 DEF FetchState
  <2>2. [job[s] EXCEPT !.pc = "find", !.state = r].pc = "find"
    BY <1>0 DEF IsLocal
  <2> QED
    BY <1>2, <2>1, <2>2, JobSafe DEF FetchState, dbVars
<1>3. ASSUME Find(s) PROVE Safe'
  <2> DEFINE list == ReducedNotActive(job[s].state)
  <2>1. /\ job' = [job EXCEPT ![s] = [job[s] EXCEPT !.pc = "getData", !.state = 0,
                                          !.notActiveActions = list]]
        /\ UNCHANGED <<chainVars, dbVars, mempool, storage, writes>>
    BY <1>3 DEF Find
  <2>2. list \subseteq 1 .. reduced
    BY <1>0 DEF ReducedNotActive, LocalsOK
  <2> HIDE DEF list
  <2>3. job'[s].notActiveActions = list
    BY <1>0, <2>1 DEF IsLocal
  <2>4. \A t \in Server : ListIsReduced(job[t])'
    <3>1. ListIsReduced(job[s])'
      BY <2>1, <2>2, <2>3 DEF ListIsReduced, chainVars
    <3>2. ASSUME NEW t \in Server, t # s PROVE ListIsReduced(job[t])'
      BY <1>0, <2>1, <3>2 DEF ListIsReduced, chainVars, IInv, Safe, PendingIsRight
    <3> QED
      BY <3>1, <3>2
  <2>5. PendingIsRight'
    BY <2>1, <2>4 DEF PendingIsRight, WriteIsRight, chainVars, dbVars, IInv, Safe
  <2> QED
    BY <2>1, <2>5 DEF IInv, Safe, CommitteesAreOnChain, ActiveHasCommittee, TreesAreBehind,
                      chainVars, dbVars
<1>4. ASSUME StartWrite(s) PROVE Safe'
  <2> DEFINE i == NextListed(job[s].notActiveActions)
             rest == job[s].notActiveActions \ {i}
  <2>0. PICK w : w = [action |-> i, upserted |-> FALSE]
    OBVIOUS
  <2>1. /\ writes' = [writes EXCEPT ![s] = writes[s] \cup {w}]
        /\ job' = [job EXCEPT ![s] = [job[s] EXCEPT !.notActiveActions = rest]]
        /\ job[s].notActiveActions # {} /\ job[s].pc = "getData"
        /\ UNCHANGED <<chainVars, dbVars, mempool, storage>>
    BY <1>4, <2>0 DEF StartWrite
  <2>2. job[s].notActiveActions \subseteq 1 .. reduced
    BY <2>1 DEF IInv, Safe, PendingIsRight, ListIsReduced
  <2>3. i \in 1 .. reduced /\ rest \subseteq 1 .. reduced
    BY <1>0, <2>1, <2>2, NextIsListed
  <2>4. w.action = i /\ w.upserted = FALSE
    BY <2>0
  <2> HIDE DEF i, rest
  <2>5. job'[s].notActiveActions = rest
    BY <1>0, <2>1 DEF IsLocal
  <2>6. \A t \in Server : ListIsReduced(job[t])'
    <3>1. ListIsReduced(job[s])'
      BY <2>1, <2>3, <2>5 DEF ListIsReduced, chainVars
    <3>2. ASSUME NEW t \in Server, t # s PROVE ListIsReduced(job[t])'
      BY <1>0, <2>1, <3>2 DEF ListIsReduced, chainVars, IInv, Safe, PendingIsRight
    <3> QED
      BY <3>1, <3>2
  <2>7. \A t \in Server : \A v \in writes'[t] : WriteIsRight(v)'
    <3>1. WriteIsRight(w)'
      BY <2>1, <2>3, <2>4 DEF WriteIsRight, chainVars
    <3>2. ASSUME NEW t \in Server, NEW v \in writes'[t], v # w PROVE WriteIsRight(v)'
      <4>1. v \in writes[t]
        BY <1>0, <2>1, <3>2
      <4> QED
        BY <2>1, <4>1 DEF WriteIsRight, chainVars, dbVars, IInv, Safe, PendingIsRight
    <3> QED
      BY <3>1, <3>2
  <2> QED
    BY <2>1, <2>6, <2>7 DEF PendingIsRight, IInv, Safe, CommitteesAreOnChain,
                            ActiveHasCommittee, TreesAreBehind, chainVars, dbVars
<1>5. ASSUME FindDone(s) PROVE Safe'
  <2>1. job' = [job EXCEPT ![s] = [job[s] EXCEPT !.pc = "findCommittees"]]
    BY <1>5 DEF FindDone
  <2>2. [job[s] EXCEPT !.pc = "findCommittees"].pc = "findCommittees"
    BY <1>0 DEF IsLocal
  <2> QED
    BY <1>5, <2>1, <2>2, JobSafe DEF FindDone, dbVars
<1>6. ASSUME UpdateMerkleTrees(s) PROVE Safe'
  <2>1. /\ storage' = [storage EXCEPT ![s] = Overwrite(storage[s], committeeModel)]
        /\ job' = [job EXCEPT ![s] = [job[s] EXCEPT !.pc = "updated"]]
        /\ UNCHANGED <<chainVars, dbVars, mempool, writes>>
    BY <1>6 DEF UpdateMerkleTrees, Found
  <2>2. \A c \in DOMAIN storage'[s] : c \in DOMAIN committeeModel /\ storage'[s][c] = c
    <3> DEFINE tree == Overwrite(storage[s], committeeModel)
    <3>1. storage'[s] = tree
      BY <1>0, <2>1
    <3>2. \A c \in DOMAIN storage[s] : c \in DOMAIN committeeModel
      BY DEF IInv, Safe, TreesAreBehind
    <3>3. \A c \in DOMAIN committeeModel : committeeModel[c] = c
      BY DEF IInv, Safe, CommitteesAreOnChain
    <3>4. DOMAIN tree = DOMAIN storage[s] \cup DOMAIN committeeModel
          /\ \A c \in DOMAIN committeeModel : tree[c] = committeeModel[c]
      BY OverwriteIs
    <3> QED
      BY <3>1, <3>2, <3>3, <3>4
  <2>3. TreesAreBehind'
    <3>1. ASSUME NEW t \in Server, t # s, NEW c \in DOMAIN storage'[t]
          PROVE  c \in DOMAIN committeeModel /\ storage'[t][c] = c
      BY <1>0, <2>1, <3>1 DEF IInv, Safe, TreesAreBehind
    <3> QED
      BY <2>1, <2>2, <3>1 DEF TreesAreBehind, dbVars
  <2>4. job'[s].pc = "updated"
    BY <1>0, <2>1 DEF IsLocal
  <2>5. \A t \in Server : ListIsReduced(job[t])'
    BY <1>0, <2>1, <2>4 DEF ListIsReduced, chainVars, IInv, Safe, PendingIsRight
  <2>6. PendingIsRight'
    BY <2>1, <2>5 DEF PendingIsRight, WriteIsRight, chainVars, dbVars, IInv, Safe
  <2> QED
    BY <2>1, <2>3, <2>6 DEF IInv, Safe, CommitteesAreOnChain, ActiveHasCommittee,
                            chainVars, dbVars
<1>7. ASSUME Skip(s) PROVE Safe'
  <2>1. Idle.pc # "getData"
    BY DEF Idle
  <2> QED
    BY <1>7, <2>1, JobSafe DEF Skip, dbVars
<1> QED
  BY <1>1, <1>2, <1>3, <1>4, <1>5, <1>6, <1>7 DEF Update

LEMMA RollupSafe ==
  ASSUME IInv, NEW s \in Server, Rollup(s)
  PROVE  Safe'
<1>0. DOMAIN job = Server /\ IsLocal(job[s]) /\ Idle.pc = "idle"
  BY DEF IInv, Typed, JobsOK, Idle
<1>1. ASSUME FindNotActive(s) PROVE Safe'
  <2>1. CASE NotActiveActions = {}
    BY <1>0, <1>1, <2>1, JobSafe DEF FindNotActive, dbVars
  <2>2. CASE NotActiveActions # {}
    <3> DEFINE l == [job[s] EXCEPT !.pc = "fetchRollupState",
                                   !.notActiveActions = NotActiveActions,
                                   !.undisturbed = Synced(s)]
    <3>1. job' = [job EXCEPT ![s] = l]
      BY <1>1, <2>2 DEF FindNotActive
    <3>2. l.pc = "fetchRollupState"
      BY <1>0 DEF IsLocal
    <3> HIDE DEF l
    <3> QED
      BY <1>1, <3>1, <3>2, JobSafe DEF FindNotActive, dbVars
  <2> QED
    BY <2>1, <2>2
<1>2. ASSUME NEW r \in 0 .. reduced, FetchRollupState(s, r) PROVE Safe'
  <2> DEFINE l == [job[s] EXCEPT !.pc = "init", !.state = r,
                                 !.undisturbed = job[s].undisturbed /\ r = reduced]
  <2>1. job' = [job EXCEPT ![s] = l]
    BY <1>2 DEF FetchRollupState
  <2>2. l.pc = "init"
    BY <1>0 DEF IsLocal
  <2> HIDE DEF l
  <2> QED
    BY <1>2, <2>1, <2>2, JobSafe DEF FetchRollupState, dbVars
<1>3. ASSUME InitProof(s) PROVE Safe'
  <2> DEFINE l == [job[s] EXCEPT !.pc = "prove", !.state = 0, !.storage = storage[s],
                     !.proof = [from |-> job[s].state, actions |-> <<>>,
                                tree |-> Trees(job[s].state)]]
  <2>1. job' = [job EXCEPT ![s] = l]
    BY <1>3 DEF InitProof
  <2>2. l.pc = "prove"
    BY <1>0 DEF IsLocal
  <2> HIDE DEF l
  <2> QED
    BY <1>3, <2>1, <2>2, JobSafe DEF InitProof, dbVars
<1>4. ASSUME Prove(s) PROVE Safe'
  <2>1. /\ job[s].pc = "prove"
        /\ UNCHANGED <<chainVars, dbVars, storage, writes>>
        /\ \A t \in Server : t # s => job'[t] = job[t]
        /\ job'[s].pc = job[s].pc
    <3> DEFINE l == job'[s]
    <3>1. \E L, T, P : job' = [job EXCEPT ![s] = [job[s] EXCEPT !.notActiveActions = L,
                                                    !.storage = T, !.proof = P]]
      BY <1>4 DEF Prove
    <3> QED
      BY <1>0, <1>4, <3>1 DEF Prove, IsLocal
  <2>2. ListsKeep
    BY <2>1 DEF ListsKeep
  <2> QED
    BY <2>1, <2>2, SafeKeeps DEF chainVars, dbVars, IInv, Typed, TypeOK
<1>5. ASSUME ProveFails(s) \/ Send(s) PROVE Safe'
  BY <1>0, <1>5, JobSafe DEF ProveFails, Send, dbVars
<1>6. ASSUME FetchNonce(s) PROVE Safe'
  <2> DEFINE l == [job[s] EXCEPT !.pc = "send", !.nonce = TRUE, !.storage = EmptyTree]
  <2>1. job' = [job EXCEPT ![s] = l]
    BY <1>6 DEF FetchNonce
  <2>2. l.pc = "send"
    BY <1>0 DEF IsLocal
  <2> HIDE DEF l
  <2> QED
    BY <1>6, <2>1, <2>2, JobSafe DEF FetchNonce, dbVars
<1> QED
  BY <1>1, <1>2, <1>3, <1>4, <1>5, <1>6 DEF Rollup

(* A write in flight: it is of a reduced action, and is not saved before   *)
(* its committee is in the collection.                                     *)
LEMMA WriteSafe ==
  ASSUME IInv, NEW s \in Server, Write(s)
  PROVE  Safe'
<1>0. /\ DOMAIN writes = Server /\ reduced \in Nat
      /\ JobsOK /\ DOMAIN job = Server
      /\ \A t \in Server : /\ \A w \in writes[t] : WriteIsRight(w)
                           /\ ListIsReduced(job[t])
      /\ \A c \in DOMAIN committeeModel : committeeModel[c] = c /\ c <= reduced
      /\ active \subseteq DOMAIN committeeModel
      /\ TreesAreBehind
  BY DEF IInv, Typed, TypeOK, JobsOK, Safe, PendingIsRight, CommitteesAreOnChain,
         ActiveHasCommittee
<1>1. ASSUME NEW w \in writes[s], Upsert(s, w) PROVE Safe'
  <2>0. PICK done : done = [w EXCEPT !.upserted = TRUE]
    OBVIOUS
  <2>1. w.action \in 1 .. reduced /\ done.action = w.action
    <3>1. w.action \in 1 .. reduced
      BY <1>0 DEF WriteIsRight
    <3>2. w \in [action : Position, upserted : BOOLEAN]
      BY DEF IInv, Typed, TypeOK
    <3> QED
      BY <2>0, <3>1, <3>2
  <2>2. /\ committeeModel' = Put(committeeModel, w.action, w.action)
        /\ writes' = [writes EXCEPT ![s] = (writes[s] \ {w}) \cup {done}]
        /\ UNCHANGED <<chainVars, active, storage, job>>
    BY <1>1, <2>0 DEF Upsert, CommitteeId
  <2>3. /\ DOMAIN committeeModel' = DOMAIN committeeModel \cup {w.action}
        /\ committeeModel'[w.action] = w.action
        /\ \A c \in DOMAIN committeeModel : c # w.action =>
              committeeModel'[c] = committeeModel[c]
    BY <2>2 DEF Put
  <2>4. \A t \in Server : \A v \in writes'[t] : WriteIsRight(v)'
    <3>1. WriteIsRight(done)'
      BY <2>1, <2>2, <2>3 DEF WriteIsRight, chainVars
    <3>2. ASSUME NEW t \in Server, NEW v \in writes'[t], v # done PROVE WriteIsRight(v)'
      <4>1. v \in writes[t]
        BY <1>0, <2>2, <3>2
      <4> QED
        BY <1>0, <2>2, <2>3, <4>1 DEF WriteIsRight, chainVars
    <3> QED
      BY <3>1, <3>2
  <2>5. PendingIsRight'
    BY <1>0, <2>2, <2>4 DEF PendingIsRight, ListIsReduced, chainVars
  <2>6. CommitteesAreOnChain'
    BY <1>0, <2>1, <2>2, <2>3 DEF CommitteesAreOnChain, chainVars
  <2>7. ActiveHasCommittee' /\ TreesAreBehind'
    BY <1>0, <2>2, <2>3 DEF ActiveHasCommittee, TreesAreBehind
  <2> QED
    BY <2>5, <2>6, <2>7 DEF Safe
<1>2. ASSUME NEW w \in writes[s], Save(s, w) PROVE Safe'
  <2>1. w.action \in DOMAIN committeeModel
    BY <1>0, <1>2 DEF Save, WriteIsRight
  <2>2. /\ active' = active \cup {w.action}
        /\ writes' = [writes EXCEPT ![s] = writes[s] \ {w}]
        /\ job' = job \/ job' = Disturbed(job)
        /\ UNCHANGED <<chainVars, committeeModel, storage>>
    BY <1>2 DEF Save
  <2>3. \A t \in Server : /\ job'[t].pc = job[t].pc
                          /\ job'[t].notActiveActions = job[t].notActiveActions
    BY <1>0, <2>2, DisturbedIs
  <2>4. \A t \in Server : writes'[t] \subseteq writes[t]
    BY <1>0, <2>2
  <2>5. PendingIsRight'
    BY <1>0, <2>2, <2>3, <2>4 DEF PendingIsRight, WriteIsRight, ListIsReduced, chainVars
  <2>6. CommitteesAreOnChain' /\ TreesAreBehind'
    BY <1>0, <2>2 DEF CommitteesAreOnChain, TreesAreBehind, chainVars
  <2>7. ActiveHasCommittee'
    BY <1>0, <2>1, <2>2 DEF ActiveHasCommittee
  <2> QED
    BY <2>5, <2>6, <2>7 DEF Safe
<1> QED
  BY <1>1, <1>2 DEF Write

(* A stop loses writes and trees, and nothing else.                        *)
LEMMA FailSafe ==
  ASSUME IInv, NEW s \in Server, Fail(s)
  PROVE  Safe'
<1>0. /\ DOMAIN job = Server /\ IsLocal(job[s]) /\ Idle.pc = "idle"
      /\ DOMAIN storage = Server /\ DOMAIN writes = Server
  BY DEF IInv, Typed, JobsOK, TypeOK, Idle
<1>1. ASSUME FetchThrows(s) PROVE Safe'
  <2>1. PICK label \in {"fetchState", "findCommittees"} :
          job' = [job EXCEPT ![s] = [job[s] EXCEPT !.pc = label, !.state = 0]]
    BY <1>1 DEF FetchThrows
  <2>2. [job[s] EXCEPT !.pc = label, !.state = 0].pc = label
    BY <1>0 DEF IsLocal
  <2> QED
    BY <1>1, <2>1, <2>2, JobSafe DEF FetchThrows, dbVars
<1>2. ASSUME UpdateThrows(s) PROVE Safe'
  <2>1. job' = [job EXCEPT ![s] = [job[s] EXCEPT !.pc = "updated"]]
    BY <1>2 DEF UpdateThrows
  <2>2. [job[s] EXCEPT !.pc = "updated"].pc = "updated"
    BY <1>0 DEF IsLocal
  <2> QED
    BY <1>2, <2>1, <2>2, JobSafe DEF UpdateThrows, dbVars
<1>3. ASSUME RollupThrows(s) PROVE Safe'
  BY <1>0, <1>3, JobSafe DEF RollupThrows, dbVars
<1>4. ASSUME Crash(s) PROVE Safe'
  <2>1. /\ storage' = [storage EXCEPT ![s] = EmptyTree]
        /\ writes' = [writes EXCEPT ![s] = {}]
        /\ job' = [job EXCEPT ![s] = Idle]
        /\ UNCHANGED <<chainVars, dbVars, mempool>>
    BY <1>4 DEF Crash
  <2>2. PendingIsRight'
    BY <1>0, <2>1 DEF IInv, Safe, PendingIsRight, WriteIsRight, ListIsReduced, chainVars, dbVars
  <2>3. TreesAreBehind'
    BY <1>0, <2>1, Empty DEF IInv, Safe, TreesAreBehind, dbVars
  <2> QED
    BY <2>1, <2>2, <2>3 DEF IInv, Safe, CommitteesAreOnChain, ActiveHasCommittee,
                            chainVars, dbVars
<1> QED
  BY <1>1, <1>2, <1>3, <1>4 DEF Fail

LEMMA ChainSafe ==
  ASSUME IInv, ChainStep \/ OtherTransaction
  PROVE  Safe'
<1>0. /\ JobsOK /\ DOMAIN job = Server /\ reduced \in Nat
      /\ \A s \in Server : IsLocal(job[s]) /\ LocalsOK(job[s])
      /\ \A tx \in mempool : tx.actions \in Seq(Position)
  BY DEF IInv, Typed, JobsOK, TypeOK
<1>1. ASSUME NEW a \in Action, Dispatch(a) PROVE Safe'
  BY <1>0, <1>1, SafeKeeps DEF Dispatch, Feed!Dispatch, ListsKeep
<1>2. ASSUME NEW h \in 1 .. Len(log), Record(h) PROVE Safe'
  BY <1>0, <1>2, SafeKeeps DEF Record, Feed!Record, ListsKeep
<1>3. ASSUME NEW n \in 1 .. Len(log), ReduceElsewhere(n) PROVE Safe'
  <2>1. /\ reduced' = n /\ n > reduced /\ job' = Disturbed(job)
        /\ UNCHANGED <<log, dbVars, mempool, storage, writes>>
    BY <1>3 DEF ReduceElsewhere, Feed!Reduce, dbVars
  <2>2. ListsKeep
    BY <1>0, <2>1, DisturbedIs DEF ListsKeep
  <2> QED
    BY <1>0, <2>1, <2>2, SafeKeeps DEF dbVars
<1>4. ASSUME NEW tx \in mempool, Include(tx) PROVE Safe'
  <2>1. reduced' \in Nat /\ reduced' >= reduced
    BY <1>0, <1>4 DEF Include
  <2> DEFINE jobs == IF reduced' = reduced THEN job ELSE Disturbed(job)
  <2>2. /\ DOMAIN jobs = Server
        /\ \A s \in Server : /\ IsLocal(jobs[s]) /\ LocalsOK(jobs[s])
                             /\ jobs[s].pc = job[s].pc
                             /\ jobs[s].notActiveActions = job[s].notActiveActions
    BY <1>0, DisturbedIs
  <2>3. job' = NonceUsed(jobs) /\ UNCHANGED <<dbVars, storage, writes>>
    BY <1>4 DEF Include
  <2> HIDE DEF jobs
  <2>4. ListsKeep
    BY <2>2, <2>3, NonceUsedIs DEF ListsKeep
  <2> QED
    BY <2>1, <2>3, <2>4, SafeKeeps DEF dbVars
<1>5. ASSUME OtherTransaction PROVE Safe'
  <2>1. job' = NonceUsed(job) /\ UNCHANGED <<chainVars, dbVars, storage, writes>>
    BY <1>5 DEF OtherTransaction
  <2>2. ListsKeep
    BY <1>0, <2>1, NonceUsedIs DEF ListsKeep
  <2> QED
    BY <1>0, <2>1, <2>2, SafeKeeps DEF chainVars, dbVars
<1> QED
  BY <1>1, <1>2, <1>3, <1>4, <1>5 DEF ChainStep

LEMMA StepInv == IInv /\ [Next]_vars => IInv'
<1> SUFFICES ASSUME IInv, [Next]_vars PROVE IInv'
  OBVIOUS
<1>1. Typed'
  BY TypeStep DEF IInv
<1>2. Safe'
  <2>1. CASE UNCHANGED vars
    BY <2>1 DEF IInv, Safe, PendingIsRight, WriteIsRight, ListIsReduced, CommitteesAreOnChain,
                ActiveHasCommittee, TreesAreBehind, vars, chainVars, dbVars
  <2>2. CASE ChainStep \/ OtherTransaction
    BY <2>2, ChainSafe
  <2>3. ASSUME NEW s \in Server,
               Update(s) \/ Rollup(s) \/ Skip(s) \/ Write(s) \/ Fail(s)
        PROVE  Safe'
    BY <2>3, UpdateSafe, RollupSafe, WriteSafe, FailSafe
  <2> QED
    BY <2>1, <2>2, <2>3 DEF Next
<1> QED
  BY <1>1, <1>2 DEF IInv

LEMMA AlwaysIInv == Spec => []IInv
BY InitInv, StepInv, PTL DEF Spec

-----------------------------------------------------------------------------
(* The documents, the trees and the local variables of every server have   *)
(* their types: in particular no proof starts ahead of the contract.       *)
THEOREM TypeCorrect == Spec => []TypeOK
<1>1. IInv => TypeOK
  BY DEF IInv, Typed
<1> QED
  BY <1>1, AlwaysIInv, PTL

(* A document always is a committee the contract has, under the id it has  *)
(* there, however many servers write the collection without waiting.       *)
THEOREM CommitteesAreRight == Spec => []CommitteesAreOnChain
<1>1. IInv => CommitteesAreOnChain
  BY DEF IInv, Safe
<1> QED
  BY <1>1, AlwaysIInv, PTL

(* An action is active only once its committee is in the collection, so a  *)
(* stop never loses a committee for good.                                  *)
THEOREM NoCommitteeIsLost == Spec => []ActiveHasCommittee
<1>1. IInv => ActiveHasCommittee
  BY DEF IInv, Safe
<1> QED
  BY <1>1, AlwaysIInv, PTL

(* No tree in memory has a leaf that differs from the contract's.          *)
THEOREM TreesOnlyLag == Spec => []TreesAreBehind
<1>1. IInv => TreesAreBehind
  BY DEF IInv, Safe
<1> QED
  BY <1>1, AlwaysIInv, PTL

-----------------------------------------------------------------------------
(***************************************************************************)
(* A job that nothing disturbs.  Its batch starts from trees, collection   *)
(* and contract in agreement, and recorded are the first actions, so that  *)
(* what it has left follows what the contract has reduced; clones and      *)
(* proof then are the trees of the contract with as many committees more   *)
(* as it has proved.  Writes in flight end without touching the trees, and *)
(* when one makes an action active the history says so.                    *)
(***************************************************************************)
MirrorIsPrefix == \E m \in Nat : DOMAIN mirror = 1 .. m

\* What is left to prove follows the first n actions.
Follow(ids, n) == \E m \in Nat : ids = n + 1 .. m

\* The proof starts at the contract's state and takes the actions after it.
Continues(p) == p.from = reduced /\ \A n \in DOMAIN p.actions : p.actions[n] = reduced + n

\* How many committees there are after the proof.
Proved(p) == reduced + Len(p.actions)

UndisturbedRight(l, tree) ==
  l.undisturbed =>
    /\ l.pc \in {"fetchRollupState", "init"} =>
         tree = Trees(reduced) /\ Follow(l.notActiveActions, reduced)
    /\ l.pc = "init" => l.state = reduced
    /\ l.pc = "prove" => /\ Continues(l.proof) /\ Follow(l.notActiveActions, Proved(l.proof))
                         /\ l.storage = Trees(Proved(l.proof))
                         /\ l.proof.tree = Trees(Proved(l.proof))
    /\ l.pc = "send" => Continues(l.proof)

BatchesRight ==
  MirrorIsPrefix /\ \A s \in Server : UndisturbedRight(job[s], storage[s])

BInv == IInv /\ BatchesRight

(* With the next committee the trees are those of the contract with one    *)
(* committee more, and it has no leaf before.                              *)
LEMMA NextTrees ==
  ASSUME NEW n \in Nat
  PROVE  Put(Trees(n), n + 1, n + 1) = Trees(n + 1)
<1>1. DOMAIN Trees(n) = 1 .. n /\ \A c \in 1 .. n : Trees(n)[c] = c
  BY DEF Trees
<1>2. (1 .. n) \cup {n + 1} = 1 .. n + 1
  OBVIOUS
<1>3. \A c \in 1 .. n + 1 : c = n + 1 \/ c \in 1 .. n
  OBVIOUS
<1>4. Put(Trees(n), n + 1, n + 1) =
        [c \in 1 .. n + 1 |-> IF c = n + 1 THEN n + 1 ELSE Trees(n)[c]]
  BY <1>1, <1>2 DEF Put
<1>5. \A c \in 1 .. n + 1 : (IF c = n + 1 THEN n + 1 ELSE Trees(n)[c]) = c
  BY <1>1, <1>3
<1> QED
  BY <1>4, <1>5 DEF Trees

LEMMA NoLeafYet ==
  ASSUME NEW n \in Nat
  PROVE  Trees(n) = [c \in DOMAIN Trees(n) \ {n + 1} |-> Trees(n)[c]]
<1>1. DOMAIN Trees(n) = 1 .. n /\ (1 .. n) \ {n + 1} = 1 .. n
  BY DEF Trees
<1>2. Trees(n) = [c \in 1 .. n |-> Trees(n)[c]]
  BY <1>1 DEF Trees
<1> QED
  BY <1>1, <1>2

(* The first of what is left is the next action, and the rest follows it.  *)
LEMMA NextFollows ==
  ASSUME NEW n \in Nat, NEW ids, Follow(ids, n), ids # {}
  PROVE  NextListed(ids) = n + 1 /\ Follow(ids \ {n + 1}, n + 1)
<1>1. PICK m \in Nat : ids = n + 1 .. m
  BY DEF Follow
<1>2. n + 1 \in ids /\ \A h \in ids : n + 1 <= h /\ h \in Nat
  BY <1>1
<1>3. \A i \in ids : (\A h \in ids : i <= h) => i = n + 1
  BY <1>2
<1>4. NextListed(ids) = n + 1
  BY <1>2, <1>3 DEF NextListed, First
<1>5. ids \ {n + 1} = n + 1 + 1 .. m
  BY <1>1
<1> QED
  BY <1>1, <1>4, <1>5 DEF Follow

(* A step of one server, which keeps the contract and the other trees.     *)
LEMMA OneBatch ==
  ASSUME BInv, NEW s \in Server, NEW l, job' = [job EXCEPT ![s] = l],
         UNCHANGED <<reduced, mirror>>,
         \A t \in Server : t # s => storage'[t] = storage[t],
         UndisturbedRight(l, storage'[s])
  PROVE  BatchesRight'
<1>1. DOMAIN job = Server /\ \A t \in Server : UndisturbedRight(job[t], storage[t])
  BY DEF BInv, BatchesRight, IInv, Typed, JobsOK
<1>2. ASSUME NEW t \in Server PROVE UndisturbedRight(job'[t], storage'[t])
  <2>1. CASE t = s
    BY <1>1, <2>1
  <2>2. CASE t # s
    BY <1>1, <2>2
  <2> QED
    BY <2>1, <2>2
<1>3. \A t \in Server : UndisturbedRight(job[t], storage[t])'
  BY <1>2 DEF UndisturbedRight, Continues, Proved
<1> QED
  BY <1>3 DEF BInv, BatchesRight, MirrorIsPrefix

(* Outside a batch nothing is said of a job.                               *)
LEMMA NoBatch ==
  ASSUME NEW l, NEW tree,
         ~ l.undisturbed \/ l.pc \notin {"fetchRollupState", "init", "prove", "send"}
  PROVE  UndisturbedRight(l, tree)
BY DEF UndisturbedRight

LEMMA IdleIsNoBatch == Idle.undisturbed = FALSE /\ \A tree : UndisturbedRight(Idle, tree)
BY DEF Idle, UndisturbedRight

(* What other steps do to a job: its history or its nonce, if anything,    *)
(* and its history whenever the contract changes.                          *)
SameBatch(l, m) ==
  /\ m.pc = l.pc /\ m.state = l.state /\ m.notActiveActions = l.notActiveActions
  /\ m.storage = l.storage /\ m.proof = l.proof
  /\ m.undisturbed => l.undisturbed /\ reduced' = reduced

LEMMA BatchesKeep ==
  ASSUME BInv, UNCHANGED storage, MirrorIsPrefix',
         \A s \in Server : SameBatch(job[s], job'[s])
  PROVE  BatchesRight'
<1>1. ASSUME NEW s \in Server PROVE UndisturbedRight(job[s], storage[s])'
  <2>1. UndisturbedRight(job[s], storage[s]) /\ SameBatch(job[s], job'[s])
    BY DEF BInv, BatchesRight
  <2> QED
    BY <2>1 DEF UndisturbedRight, SameBatch, Continues, Proved
<1> QED
  BY <1>1 DEF BatchesRight

LEMMA DisturbedFields ==
  ASSUME JobsOK, NEW s \in Server
  PROVE  SameBatch(job[s], Disturbed(job)[s]) /\ Disturbed(job)[s].undisturbed = FALSE
<1>1. Disturbed(job)[s] = [job[s] EXCEPT !.undisturbed = FALSE] /\ IsLocal(job[s])
  BY DEF Disturbed, JobsOK
<1> QED
  BY <1>1 DEF IsLocal, SameBatch

LEMMA NonceUsedFields ==
  ASSUME NEW jobs, NEW s \in Server, IsLocal(jobs[s])
  PROVE  LET m == NonceUsed(jobs)[s]
         IN  /\ m.pc = jobs[s].pc /\ m.state = jobs[s].state
             /\ m.notActiveActions = jobs[s].notActiveActions
             /\ m.storage = jobs[s].storage /\ m.proof = jobs[s].proof
             /\ m.undisturbed = jobs[s].undisturbed
<1>1. NonceUsed(jobs)[s] = [jobs[s] EXCEPT !.nonce = FALSE]
  BY DEF NonceUsed
<1> QED
  BY <1>1 DEF IsLocal

LEMMA ChainBatches ==
  ASSUME BInv, ChainStep \/ OtherTransaction
  PROVE  BatchesRight'
<1>0. JobsOK /\ \A s \in Server : IsLocal(job[s])
  BY DEF BInv, IInv, Typed, JobsOK
<1>1. ASSUME NEW a \in Action, Dispatch(a) PROVE BatchesRight'
  <2>1. UNCHANGED <<reduced, mirror, storage, job>>
    BY <1>1 DEF Dispatch, Feed!Dispatch
  <2>2. (\A s \in Server : SameBatch(job[s], job'[s])) /\ MirrorIsPrefix'
    BY <2>1 DEF SameBatch, MirrorIsPrefix, BInv, BatchesRight
  <2> QED
    BY <2>1, <2>2, BatchesKeep
<1>2. ASSUME NEW h \in 1 .. Len(log), Record(h) PROVE BatchesRight'
  <2>1. /\ DOMAIN mirror' = DOMAIN mirror \cup {h} /\ h \notin DOMAIN mirror
        /\ (h > 1 => h - 1 \in DOMAIN mirror)
        /\ UNCHANGED <<reduced, storage, job>>
    BY <1>2 DEF Record, Feed!Record
  <2>2. PICK m \in Nat : DOMAIN mirror = 1 .. m
    BY DEF BInv, BatchesRight, MirrorIsPrefix
  <2>3. h \in Nat /\ h >= 1
    BY DEF BInv, IInv, Typed, TypeOK
  <2>4. h = m + 1
    BY <2>1, <2>2, <2>3
  <2>5. DOMAIN mirror' = 1 .. m + 1
    BY <2>1, <2>2, <2>4
  <2>6. MirrorIsPrefix'
    BY <2>5 DEF MirrorIsPrefix
  <2>7. \A s \in Server : SameBatch(job[s], job'[s])
    BY <2>1 DEF SameBatch
  <2> QED
    BY <2>1, <2>6, <2>7, BatchesKeep
<1>3. ASSUME NEW n \in 1 .. Len(log), ReduceElsewhere(n) PROVE BatchesRight'
  <2>1. job' = Disturbed(job) /\ UNCHANGED <<mirror, storage>>
    BY <1>3 DEF ReduceElsewhere, Feed!Reduce
  <2>2. \A s \in Server : SameBatch(job[s], job'[s])
    BY <1>0, <2>1, DisturbedFields
  <2>3. MirrorIsPrefix'
    BY <2>1 DEF MirrorIsPrefix, BInv, BatchesRight
  <2> QED
    BY <2>1, <2>2, <2>3, BatchesKeep
<1>4. ASSUME NEW tx \in mempool, Include(tx) PROVE BatchesRight'
  <2> DEFINE jobs == IF reduced' = reduced THEN job ELSE Disturbed(job)
  <2>1. job' = NonceUsed(jobs) /\ UNCHANGED <<mirror, storage>>
    BY <1>4 DEF Include, dbVars
  <2>2. ASSUME NEW s \in Server PROVE IsLocal(jobs[s]) /\ SameBatch(job[s], jobs[s])
    <3>1. CASE reduced' = reduced
      BY <1>0, <3>1 DEF SameBatch
    <3>2. CASE reduced' # reduced
      BY <1>0, <3>2, DisturbedIs, DisturbedFields
    <3> QED
      BY <3>1, <3>2
  <2> HIDE DEF jobs
  <2>3. \A s \in Server : SameBatch(job[s], job'[s])
    BY <2>1, <2>2, NonceUsedFields DEF SameBatch
  <2>4. MirrorIsPrefix'
    BY <2>1 DEF MirrorIsPrefix, BInv, BatchesRight
  <2> QED
    BY <2>1, <2>3, <2>4, BatchesKeep
<1>5. ASSUME OtherTransaction PROVE BatchesRight'
  <2>1. job' = NonceUsed(job) /\ UNCHANGED <<reduced, mirror, storage>>
    BY <1>5 DEF OtherTransaction, chainVars, dbVars
  <2>2. \A s \in Server : SameBatch(job[s], job'[s])
    BY <1>0, <2>1, NonceUsedFields DEF SameBatch
  <2>3. MirrorIsPrefix'
    BY <2>1 DEF MirrorIsPrefix, BInv, BatchesRight
  <2> QED
    BY <2>1, <2>2, <2>3, BatchesKeep
<1> QED
  BY <1>1, <1>2, <1>3, <1>4, <1>5 DEF ChainStep

(* A pass over the committees is outside any batch, and so is the job that *)
(* a failure ends or starts over.                                          *)
LEMMA PassBatches ==
  ASSUME BInv, NEW s \in Server, Update(s) \/ Skip(s) \/ Fail(s)
  PROVE  BatchesRight'
<1>0. IsLocal(job[s]) /\ DOMAIN storage = Server
  BY DEF BInv, IInv, Typed, JobsOK, TypeOK
<1>1. PICK l : /\ job' = [job EXCEPT ![s] = l]
               /\ l = Idle \/ l.pc \notin {"fetchRollupState", "init", "prove", "send"}
  <2>1. CASE Skip(s) \/ RollupThrows(s) \/ Crash(s)
    BY <2>1 DEF Skip, RollupThrows, Crash
  <2>2. CASE Start(s)
    <3>1. [job[s] EXCEPT !.pc = "fetchState"].pc = "fetchState"
      BY <1>0 DEF IsLocal
    <3> QED
      BY <2>2, <3>1 DEF Start
  <2>3. ASSUME NEW r \in 0 .. reduced, FetchState(s, r)
        PROVE  \E l : /\ job' = [job EXCEPT ![s] = l]
                      /\ l.pc \notin {"fetchRollupState", "init", "prove", "send"}
    <3>1. [job[s] EXCEPT !.pc = "find", !.state = r].pc = "find"
      BY <1>0 DEF IsLocal
    <3> QED
      BY <2>3, <3>1 DEF FetchState
  <2>4. CASE Find(s)
    <3> DEFINE l == [job[s] EXCEPT !.pc = "getData", !.state = 0,
                       !.notActiveActions = ReducedNotActive(job[s].state)]
    <3>1. l.pc = "getData"
      BY <1>0 DEF IsLocal
    <3>2. job' = [job EXCEPT ![s] = l]
      BY <2>4 DEF Find
    <3> HIDE DEF l
    <3> QED
      BY <3>1, <3>2
  <2>5. CASE StartWrite(s)
    <3> DEFINE l == [job[s] EXCEPT !.notActiveActions =
                       job[s].notActiveActions \ {NextListed(job[s].notActiveActions)}]
    <3>1. l.pc = job[s].pc
      BY <1>0 DEF IsLocal
    <3>2. job' = [job EXCEPT ![s] = l] /\ job[s].pc = "getData"
      BY <2>5 DEF StartWrite
    <3> HIDE DEF l
    <3> QED
      BY <3>1, <3>2
  <2>6. CASE FindDone(s)
    <3>1. [job[s] EXCEPT !.pc = "findCommittees"].pc = "findCommittees"
      BY <1>0 DEF IsLocal
    <3> QED
      BY <2>6, <3>1 DEF FindDone
  <2>7. CASE UpdateMerkleTrees(s) \/ UpdateThrows(s)
    <3>1. [job[s] EXCEPT !.pc = "updated"].pc = "updated"
      BY <1>0 DEF IsLocal
    <3> QED
      BY <2>7, <3>1 DEF UpdateMerkleTrees, UpdateThrows
  <2>8. CASE FetchThrows(s)
    <3>1. PICK label \in {"fetchState", "findCommittees"} :
            job' = [job EXCEPT ![s] = [job[s] EXCEPT !.pc = label, !.state = 0]]
      BY <2>8 DEF FetchThrows
    <3>2. [job[s] EXCEPT !.pc = label, !.state = 0].pc = label
      BY <1>0 DEF IsLocal
    <3> QED
      BY <3>1, <3>2
  <2> QED
    BY <2>1, <2>2, <2>3, <2>4, <2>5, <2>6, <2>7, <2>8 DEF Update, Fail
<1>2. UNCHANGED <<reduced, mirror>> /\ \A t \in Server : t # s => storage'[t] = storage[t]
  BY <1>0 DEF Update, Fail, Skip, Start, FetchState, Find, StartWrite, FindDone, UpdateMerkleTrees,
              FetchThrows, UpdateThrows, RollupThrows, Crash, chainVars, dbVars
<1>3. UndisturbedRight(l, storage'[s])
  BY <1>1, NoBatch, IdleIsNoBatch
<1> QED
  BY <1>1, <1>2, <1>3, OneBatch

(* A write that ends touches neither the trees nor the contract.           *)
LEMMA WriteBatches ==
  ASSUME BInv, NEW s \in Server, Write(s)
  PROVE  BatchesRight'
<1>1. UNCHANGED <<reduced, mirror, storage>> /\ (job' = job \/ job' = Disturbed(job))
  BY DEF Write, Upsert, Save, chainVars
<1>2. JobsOK /\ MirrorIsPrefix'
  BY <1>1 DEF BInv, IInv, Typed, BatchesRight, MirrorIsPrefix
<1>3. \A t \in Server : SameBatch(job[t], job'[t])
  BY <1>1, <1>2, DisturbedFields DEF SameBatch
<1> QED
  BY <1>1, <1>2, <1>3, BatchesKeep

LEMMA RollupBatches ==
  ASSUME BInv, NEW s \in Server, Rollup(s)
  PROVE  BatchesRight'
<1> DEFINE l == job'[s]
<1>0. /\ IsLocal(job[s]) /\ LocalsOK(job[s]) /\ DOMAIN job = Server /\ reduced \in Nat
      /\ UndisturbedRight(job[s], storage[s])
  BY DEF BInv, BatchesRight, IInv, Typed, JobsOK, TypeOK
<1>1. /\ UNCHANGED <<reduced, mirror, storage>>
      /\ \A k : job' = [job EXCEPT ![s] = k] => l = k
  BY <1>0 DEF Rollup, FindNotActive, FetchRollupState, InitProof, Prove, ProveFails, FetchNonce,
              Send, chainVars, dbVars
<1>2. ASSUME NEW k, job' = [job EXCEPT ![s] = k], UndisturbedRight(k, storage[s])
      PROVE  BatchesRight'
  BY <1>1, <1>2, OneBatch
<1>3. CASE FindNotActive(s)
  <2>1. CASE NotActiveActions = {}
    BY <1>2, <1>3, <2>1, IdleIsNoBatch DEF FindNotActive
  <2>2. CASE NotActiveActions # {}
    <3>1. PICK k : k = [job[s] EXCEPT !.pc = "fetchRollupState",
                                      !.notActiveActions = NotActiveActions,
                                      !.undisturbed = Synced(s)]
      OBVIOUS
    <3>2. /\ k.pc = "fetchRollupState" /\ k.notActiveActions = NotActiveActions
          /\ k.undisturbed = Synced(s)
      BY <1>0, <3>1 DEF IsLocal
    <3>3. ASSUME Synced(s) PROVE Follow(NotActiveActions, reduced)
      <4>1. PICK m \in Nat : DOMAIN mirror = 1 .. m
        BY DEF BInv, BatchesRight, MirrorIsPrefix
      <4>2. NotActiveActions = reduced + 1 .. m
        BY <1>0, <3>3, <4>1 DEF NotActiveActions, Synced
      <4> QED
        BY <4>2 DEF Follow
    <3>4. UndisturbedRight(k, storage[s])
      BY <3>2, <3>3 DEF UndisturbedRight, Synced
    <3> QED
      BY <1>2, <1>3, <2>2, <3>1, <3>4 DEF FindNotActive
  <2> QED
    BY <2>1, <2>2
<1>4. ASSUME NEW r \in 0 .. reduced, FetchRollupState(s, r) PROVE BatchesRight'
  <2>0. PICK still : still = (job[s].undisturbed /\ r = reduced)
    OBVIOUS
  <2>1. PICK k : k = [job[s] EXCEPT !.pc = "init", !.state = r, !.undisturbed = still]
    OBVIOUS
  <2>2. /\ k.pc = "init" /\ k.state = r /\ k.notActiveActions = job[s].notActiveActions
        /\ k.undisturbed = still
    BY <1>0, <2>1 DEF IsLocal
  <2>3. job[s].pc = "fetchRollupState" /\ job' = [job EXCEPT ![s] = k]
    BY <1>4, <2>0, <2>1 DEF FetchRollupState
  <2>4. UndisturbedRight(k, storage[s])
    BY <1>0, <2>0, <2>2, <2>3 DEF UndisturbedRight
  <2> QED
    BY <1>2, <2>3, <2>4
<1>5. CASE InitProof(s)
  <2>0. PICK proof : proof = [from |-> job[s].state, actions |-> <<>>,
                              tree |-> Trees(job[s].state)]
    OBVIOUS
  <2>1. PICK k : k = [job[s] EXCEPT !.pc = "prove", !.state = 0,
                                    !.storage = storage[s], !.proof = proof]
    OBVIOUS
  <2>2. /\ k.pc = "prove" /\ k.notActiveActions = job[s].notActiveActions
        /\ k.storage = storage[s] /\ k.proof = proof /\ k.undisturbed = job[s].undisturbed
    BY <1>0, <2>1 DEF IsLocal
  <2>3. job[s].pc = "init" /\ job' = [job EXCEPT ![s] = k]
    BY <1>5, <2>0, <2>1 DEF InitProof
  <2>4. ASSUME k.undisturbed PROVE UndisturbedRight(k, storage[s])
    <3>1. /\ storage[s] = Trees(reduced) /\ Follow(job[s].notActiveActions, reduced)
          /\ job[s].state = reduced
      BY <1>0, <2>2, <2>3, <2>4 DEF UndisturbedRight
    <3>2. /\ proof.from = reduced /\ proof.actions = <<>> /\ proof.tree = Trees(reduced)
      BY <2>0, <3>1
    <3>3. Proved(proof) = reduced /\ Continues(proof)
      BY <1>0, <3>2 DEF Proved, Continues
    <3> QED
      BY <2>2, <3>1, <3>2, <3>3 DEF UndisturbedRight
  <2>5. UndisturbedRight(k, storage[s])
    BY <2>4, NoBatch
  <2> QED
    BY <1>2, <2>3, <2>5
<1>6. CASE Prove(s)
  <2> DEFINE p == job[s].proof
             ids == job[s].notActiveActions
             next == NextCommitteeId(s)
  <2>0. PICK i : i = NextListed(ids)
    OBVIOUS
  <2>1. PICK proof : proof = [from |-> p.from, actions |-> Append(p.actions, i),
                              tree |-> Put(p.tree, next, i)]
    OBVIOUS
  <2>2. PICK k : k = [job[s] EXCEPT !.notActiveActions = ids \ {i},
                                    !.storage = Put(job[s].storage, next, i), !.proof = proof]
    OBVIOUS
  <2>3. job[s].pc = "prove" /\ ids # {} /\ job' = [job EXCEPT ![s] = k]
    BY <1>6, <2>0, <2>1, <2>2 DEF Prove
  <2>4. /\ k.pc = "prove" /\ k.notActiveActions = ids \ {i} /\ k.undisturbed = job[s].undisturbed
        /\ k.storage = Put(job[s].storage, next, i) /\ k.proof = proof
    BY <1>0, <2>2, <2>3 DEF IsLocal
  <2>5. ASSUME k.undisturbed PROVE UndisturbedRight(k, storage[s])
    <3>1. /\ Continues(p) /\ Follow(ids, Proved(p))
          /\ job[s].storage = Trees(Proved(p)) /\ p.tree = Trees(Proved(p))
      BY <1>0, <2>3, <2>4, <2>5 DEF UndisturbedRight
    <3>2. p.actions \in Seq(Position) /\ Len(p.actions) \in Nat /\ Proved(p) \in Nat
      BY <1>0 DEF LocalsOK, Proved
    <3>3. next = Proved(p) + 1
      BY <3>1, <3>2 DEF NextCommitteeId, Continues, Proved
    <3>4. i = Proved(p) + 1 /\ Follow(ids \ {i}, Proved(p) + 1)
      BY <2>0, <2>3, <3>1, <3>2, NextFollows
    <3>5. proof.from = p.from /\ proof.actions = Append(p.actions, i) /\ proof.tree = Put(p.tree, next, i)
      BY <2>1
    <3>6. Proved(proof) = Proved(p) + 1
      BY <1>0, <3>2, <3>5 DEF Proved
    <3>7. Continues(proof)
      <4>1. \A n \in DOMAIN p.actions : p.actions[n] = reduced + n
        BY <3>1 DEF Continues
      <4>2. i = reduced + (Len(p.actions) + 1)
        BY <1>0, <3>2, <3>4 DEF Proved
      <4>3. /\ DOMAIN proof.actions = 1 .. Len(p.actions) + 1 /\ DOMAIN p.actions = 1 .. Len(p.actions)
            /\ \A n \in 1 .. Len(p.actions) : proof.actions[n] = p.actions[n]
            /\ proof.actions[Len(p.actions) + 1] = i
        <5> HIDE DEF p
        <5> QED
          BY <3>2, <3>5
      <4>4. \A n \in DOMAIN proof.actions : proof.actions[n] = reduced + n
        <5>1. \A n \in 1 .. Len(p.actions) + 1 : n \in 1 .. Len(p.actions) \/ n = Len(p.actions) + 1
          BY <3>2
        <5> QED
          BY <4>1, <4>2, <4>3, <5>1
      <4> QED
        BY <3>1, <3>5, <4>4 DEF Continues
    <3>8. Put(Trees(Proved(p)), next, i) = Trees(Proved(proof))
      <4>1. PICK m \in Nat : m = Proved(p)
        BY <3>2
      <4>2. next = m + 1 /\ i = m + 1 /\ Proved(proof) = m + 1
        BY <3>3, <3>4, <3>6, <4>1
      <4> QED
        BY <4>1, <4>2, NextTrees
    <3> QED
      BY <2>4, <3>1, <3>4, <3>5, <3>6, <3>7, <3>8 DEF UndisturbedRight
  <2>6. UndisturbedRight(k, storage[s])
    BY <2>5, NoBatch
  <2> QED
    BY <1>2, <2>3, <2>6
<1>7. CASE ProveFails(s) \/ Send(s)
  BY <1>2, <1>7, IdleIsNoBatch DEF ProveFails, Send
<1>8. CASE FetchNonce(s)
  <2>1. PICK k : k = [job[s] EXCEPT !.pc = "send", !.nonce = TRUE, !.storage = EmptyTree]
    OBVIOUS
  <2>2. k.pc = "send" /\ k.proof = job[s].proof /\ k.undisturbed = job[s].undisturbed
    BY <1>0, <2>1 DEF IsLocal
  <2>3. job[s].pc = "prove" /\ job' = [job EXCEPT ![s] = k]
    BY <1>8, <2>1 DEF FetchNonce
  <2>4. UndisturbedRight(k, storage[s])
    BY <1>0, <2>2, <2>3 DEF UndisturbedRight
  <2> QED
    BY <1>2, <2>3, <2>4
<1> QED
  BY <1>3, <1>4, <1>5, <1>6, <1>7, <1>8 DEF Rollup

LEMMA InitBatches == Init => BInv
<1> SUFFICES ASSUME Init PROVE BInv
  OBVIOUS
<1>1. DOMAIN mirror = {} /\ job = [s \in Server |-> Idle]
  BY DEF Init, Feed!Init
<1>2. MirrorIsPrefix
  <2>1. 0 \in Nat /\ 1 .. 0 = {}
    OBVIOUS
  <2> QED
    BY <1>1, <2>1 DEF MirrorIsPrefix
<1>3. \A s \in Server : UndisturbedRight(job[s], storage[s])
  BY <1>1, IdleIsNoBatch
<1> QED
  BY <1>2, <1>3, InitInv DEF BInv, BatchesRight

LEMMA StepBatches == BInv /\ [Next]_vars => BInv'
<1> SUFFICES ASSUME BInv, [Next]_vars PROVE BInv'
  OBVIOUS
<1>1. IInv'
  BY StepInv DEF BInv
<1>2. BatchesRight'
  <2>1. CASE UNCHANGED vars
    <3>1. UNCHANGED <<reduced, mirror, storage, job>>
      BY <2>1 DEF vars, chainVars, dbVars
    <3>2. MirrorIsPrefix' /\ \A s \in Server : SameBatch(job[s], job'[s])
      BY <3>1 DEF BInv, BatchesRight, MirrorIsPrefix, SameBatch
    <3> QED
      BY <3>1, <3>2, BatchesKeep
  <2>2. CASE ChainStep \/ OtherTransaction
    BY <2>2, ChainBatches
  <2>3. ASSUME NEW s \in Server,
               Update(s) \/ Rollup(s) \/ Skip(s) \/ Write(s) \/ Fail(s)
        PROVE  BatchesRight'
    BY <2>3, PassBatches, RollupBatches, WriteBatches
  <2> QED
    BY <2>1, <2>2, <2>3 DEF Next
<1> QED
  BY <1>1, <1>2 DEF BInv

(* A roll-up of the committee contract that nothing disturbs proves every  *)
(* pending action, and the contract accepts what it sends, although writes *)
(* nobody awaits may end at any moment of it.                              *)
THEOREM UndisturbedBatchesSucceed == Spec => []UndisturbedSucceeds
<1>1. BInv => UndisturbedSucceeds
  <2> SUFFICES ASSUME BInv, NEW s \in Server, job[s].undisturbed
               PROVE  /\ job[s].pc = "prove" => WitnessesFit(s)
                      /\ job[s].pc = "send" => Accepts(job[s].proof)
    BY DEF UndisturbedSucceeds
  <2>0. UndisturbedRight(job[s], storage[s]) /\ LocalsOK(job[s]) /\ reduced \in Nat
    BY DEF BInv, BatchesRight, IInv, Typed, JobsOK, TypeOK
  <2>1. ASSUME job[s].pc = "prove" PROVE WitnessesFit(s)
    <3> DEFINE n == Proved(job[s].proof)
    <3>1. /\ Continues(job[s].proof) /\ job[s].storage = Trees(n) /\ job[s].proof.tree = Trees(n)
      BY <2>0, <2>1 DEF UndisturbedRight
    <3>2. n \in Nat /\ NextCommitteeId(s) = n + 1
      BY <2>0, <3>1 DEF LocalsOK, Proved, Continues, NextCommitteeId
    <3> HIDE DEF n
    <3> QED
      BY <3>1, <3>2, NoLeafYet DEF WitnessesFit
  <2>2. ASSUME job[s].pc = "send" PROVE Accepts(job[s].proof)
    BY <2>0, <2>2 DEF UndisturbedRight, Continues, Accepts
  <2> QED
    BY <2>1, <2>2
<1>2. Spec => []BInv
  BY InitBatches, StepBatches, PTL DEF Spec
<1> QED
  BY <1>1, <1>2, PTL
=============================================================================
