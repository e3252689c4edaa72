---------------------------- MODULE PlatformProofs ----------------------------
(***************************************************************************)
(* What the platform services guarantee for any number of passes, actions  *)
(* and disturbances.  What is lost stays lost: no pass has an active       *)
(* action in its list, and no other action has the same effect, since the  *)
(* contracts admit it once.  As long as nothing disturbs the passes, one   *)
(* pass at a time is of a service, and what is under way is of its first   *)
(* action: so the participations are those up to one number, the counter   *)
(* of a campaign is how many of them are its, and the next index is the    *)
(* one that the contract gave.                                             *)
(***************************************************************************)
EXTENDS Platform, FiniteSetTheorems, TLAPS

-----------------------------------------------------------------------------
(***************************************************************************)
(* The inductive invariant: what each collection, pass and write under way *)
(* says of the actions of the contracts, whatever disturbs the passes.     *)
(***************************************************************************)
ActionOf(w) == log[w.service][w.action]

Writing == [pass : Pass \cup {NoPass}, service : Service, action : Nat,
            what : {"action", "campaign", "document"}, id : Nat, value : Nat]

Passing == [pc : PC, service : Service, actions : SUBSET Nat]

LogRight == log \in [Service -> Seq(Action)] /\ Cardinality(Actions) <= MaxActions /\ Legal(log)

ActiveRight == active \in [Service -> SUBSET Nat] /\ \A s \in Service : active[s] \subseteq DOMAIN log[s]

MemoryRight ==
  /\ nextId \in [Service -> Nat] /\ actionState \in [Service -> Nat]
  /\ \A s \in Service : actionState[s] \in 0 .. Len(log[s])

CampaignsRight ==
  /\ DOMAIN campaigns \subseteq Nat
  /\ \A id \in DOMAIN campaigns :
       campaigns[id] \in [action : {0} \cup Are("campaign", {"create"}),
                          counter : Nat, state : {"notEnded", "complete", "abort"}]

ProjectsRight ==
  /\ DOMAIN projects \subseteq Nat
  /\ \A id \in DOMAIN projects :
       projects[id] \in [create : {0} \cup Are("project", {"create"}),
                         update : {0} \cup Are("project", {"update"})]

ParticipationsRight ==
  /\ DOMAIN participations \subseteq Nat \X Number
  /\ \A k \in DOMAIN participations :
       participations[k] \in [index : Nat \ {0}, claim : {0} \cup Are("treasury", {"claim"})]

FundingsRight ==
  /\ DOMAIN fundings \subseteq Nat
  /\ \A id \in DOMAIN fundings :
       fundings[id] \in [action : {0} \cup Are("funding", {"create"}), refunded : BOOLEAN]

\* What is written is what the action says.
WriteRight(w) ==
  /\ w \in Writing /\ w.action \in DOMAIN log[w.service] /\ w.service # "campaign"
  /\ w.what = "campaign" => w.service = "participation" /\ w.id \in DOMAIN campaigns
  /\ w.what = "document" =>
       /\ w.service = "participation" => w.value # 0
       /\ w.service \in {"participation", "treasury"} \/ ActionOf(w).kind # "create" =>
            w.id = ActionOf(w).id
       /\ w.service = "treasury" /\ ActionOf(w).kind = "claim" =>
            <<w.id, w.value>> \in DOMAIN participations

PassRight(p) ==
  /\ pass[p].actions \subseteq DOMAIN log[pass[p].service]
  /\ pass[p].pc \in {"idle", "find"} => pass[p].actions = {}
  /\ pass[p].pc = "saveAction" => pass[p].service = "campaign"
  /\ pass[p].pc = "document" => pass[p].service \in {"project", "funding", "treasury"}
  /\ pass[p].pc = "await" => pass[p].service # "campaign"

WritesRight == \A w \in writes : WriteRight(w)

PassesRight == pass \in [Pass -> Passing] /\ \A p \in Pass : PassRight(p)

DocumentsRight == CampaignsRight /\ ProjectsRight /\ ParticipationsRight /\ FundingsRight

IInv ==
  /\ LogRight /\ ActiveRight /\ MemoryRight /\ DocumentsRight /\ WritesRight /\ PassesRight
  /\ disturbed \in 0 .. MaxDisturbed + 1

(* It contains the types.                                                  *)
LEMMA InvTypes == IInv => TypeOK
<1> SUFFICES ASSUME IInv PROVE TypeOK
  OBVIOUS
<1>1. \A w \in writes : /\ w.pass \in Pass \cup {NoPass} /\ w.action \in DOMAIN log[w.service]
                        /\ w.what \in {"action", "campaign", "document"}
                        /\ w.id \in Nat /\ w.value \in Nat
                        /\ w.what = "campaign" => w.id \in DOMAIN campaigns
  BY DEF IInv, WritesRight, WriteRight, Writing
<1>2. \A p \in Pass : /\ pass[p].pc \in PC /\ pass[p].service \in Service
                      /\ pass[p].actions \subseteq DOMAIN log[pass[p].service]
  BY DEF IInv, PassesRight, PassRight, Passing
<1>3. /\ log \in [Service -> Seq(Action)] /\ Cardinality(Actions) <= MaxActions
      /\ \A s \in Service : active[s] \subseteq DOMAIN log[s] /\ actionState[s] \in 0 .. Len(log[s])
      /\ nextId \in [Service -> Nat] /\ disturbed \in 0 .. MaxDisturbed + 1
  BY DEF IInv, LogRight, ActiveRight, MemoryRight
<1>4. CampaignsRight /\ ProjectsRight /\ ParticipationsRight /\ FundingsRight
  BY DEF IInv, DocumentsRight
<1> QED
  BY <1>1, <1>2, <1>3, <1>4, Zenon
  DEF TypeOK, CampaignsRight, ProjectsRight, ParticipationsRight, FundingsRight

(* Nothing is written, and what the contracts start with is legal.         *)
LEMMA InitInv == Init => IInv
<1> SUFFICES ASSUME Init PROVE IInv
  OBVIOUS
<1>1. LogRight
  BY PlatformAssumption DEF Init, LogRight, Actions
<1>2. ActiveRight /\ MemoryRight
  <2>1. \A s \in Service : Len(log[s]) \in Nat
    BY <1>1 DEF LogRight
  <2> QED
    BY <2>1 DEF Init, ActiveRight, MemoryRight
<1>3. DocumentsRight
  BY DEF Init, DocumentsRight, CampaignsRight, ProjectsRight, ParticipationsRight, FundingsRight
<1>4. WritesRight
  BY DEF Init, WritesRight
<1>5. PassesRight
  BY DEF Init, PassesRight, PassRight, Passing, Idle, PC, Service
<1>6. disturbed \in 0 .. MaxDisturbed + 1
  BY PlatformAssumption DEF Init
<1> QED
  BY <1>1, <1>2, <1>3, <1>4, <1>5, <1>6 DEF IInv

-----------------------------------------------------------------------------
(***************************************************************************)
(* How many actions there are.                                             *)
(***************************************************************************)
LEMMA IntervalIs ==
  ASSUME NEW n \in Nat
  PROVE  IsFiniteSet(1 .. n) /\ Cardinality(1 .. n) = n
<1>1. IsFiniteSet(1 .. n) /\ Cardinality(1 .. n) = IF 1 > n THEN 0 ELSE n - 1 + 1
  BY FS_Interval
<1> QED
  BY <1>1

LEMMA LogIs ==
  ASSUME LogRight, NEW s \in Service
  PROVE  /\ log[s] \in Seq(Action) /\ Len(log[s]) \in Nat /\ DOMAIN log[s] = 1 .. Len(log[s])
         /\ \A i \in DOMAIN log[s] : log[s][i] \in Action /\ i \in Nat
         /\ IsFiniteSet(DOMAIN log[s]) /\ Cardinality(DOMAIN log[s]) = Len(log[s])
<1>1. log[s] \in Seq(Action)
  BY DEF LogRight
<1>2. /\ Len(log[s]) \in Nat /\ DOMAIN log[s] = 1 .. Len(log[s])
      /\ \A i \in DOMAIN log[s] : log[s][i] \in Action /\ i \in Nat
  BY <1>1
<1>3. IsFiniteSet(1 .. Len(log[s])) /\ Cardinality(1 .. Len(log[s])) = Len(log[s])
  BY <1>2, IntervalIs
<1> QED
  BY <1>1, <1>2, <1>3

LEMMA ActionsAreFinite ==
  ASSUME LogRight
  PROVE  IsFiniteSet(Actions) /\ Cardinality(Actions) \in Nat
<1> DEFINE Of(s) == {s} \X DOMAIN log[s]
<1>1. \A s \in Service : IsFiniteSet(Of(s))
  BY LogIs, FS_Singleton, FS_Product
<1>2. IsFiniteSet(Of("campaign") \cup Of("project"))
  BY <1>1, FS_Union DEF Service
<1>3. IsFiniteSet(Of("participation") \cup Of("funding"))
  BY <1>1, FS_Union DEF Service
<1>4. IsFiniteSet((Of("campaign") \cup Of("project")) \cup (Of("participation") \cup Of("funding")))
  BY <1>2, <1>3, FS_Union
<1>5. IsFiniteSet(((Of("campaign") \cup Of("project")) \cup (Of("participation") \cup Of("funding")))
                    \cup Of("treasury"))
  BY <1>1, <1>4, FS_Union DEF Service
<1>6. Actions = ((Of("campaign") \cup Of("project")) \cup (Of("participation") \cup Of("funding")))
                  \cup Of("treasury")
  BY DEF Actions, ActionsOf, Service
<1> QED
  BY <1>5, <1>6, FS_CardinalityType

(* A service has at most as many actions as there are, and ids are bounded. *)
LEMMA FewActions ==
  ASSUME LogRight, NEW s \in Service
  PROVE  /\ Len(log[s]) <= MaxActions
         /\ \A S \in SUBSET DOMAIN log[s] : /\ IsFiniteSet(S) /\ Cardinality(S) \in Nat
                                            /\ Cardinality(S) <= MaxActions
<1>1. {s} \X DOMAIN log[s] \subseteq Actions
  BY DEF Actions, ActionsOf
<1>2. Cardinality({s} \X DOMAIN log[s]) <= Cardinality(Actions)
  BY <1>1, ActionsAreFinite, FS_Subset
<1>3. Cardinality({s} \X DOMAIN log[s]) = Cardinality({s}) * Cardinality(DOMAIN log[s])
  BY LogIs, FS_Singleton, FS_Product
<1>4. Cardinality({s}) = 1
  BY FS_Singleton
<1>5. Len(log[s]) \in Nat /\ Cardinality(DOMAIN log[s]) = Len(log[s]) /\ IsFiniteSet(DOMAIN log[s])
  BY LogIs
<1>6. Len(log[s]) <= MaxActions
  <2>1. Cardinality(Actions) \in Nat /\ Cardinality(Actions) <= MaxActions /\ MaxActions \in Nat
    BY ActionsAreFinite, PlatformAssumption DEF LogRight
  <2> QED
    BY <1>2, <1>3, <1>4, <1>5, <2>1
<1>7. ASSUME NEW S \in SUBSET DOMAIN log[s]
      PROVE  IsFiniteSet(S) /\ Cardinality(S) \in Nat /\ Cardinality(S) <= Len(log[s])
  BY <1>5, FS_Subset, FS_CardinalityType
<1> QED
  BY <1>5, <1>6, <1>7, PlatformAssumption

-----------------------------------------------------------------------------
(***************************************************************************)
(* The contracts: what is reduced next is legal.                           *)
(***************************************************************************)
LEMMA CreatedIs ==
  ASSUME LogRight, NEW s \in Service
  PROVE  Created(s) \subseteq Number
<1> DEFINE n == Cardinality(Are(s, {"create"}))
<1>1. Are(s, {"create"}) \in SUBSET DOMAIN log[s]
  BY DEF Are
<1>2. n \in Nat /\ n <= MaxActions
  BY <1>1, FewActions
<1> HIDE DEF n
<1>3. 0 .. n - 1 \subseteq 0 .. MaxActions
  BY <1>2, PlatformAssumption
<1> QED
  BY <1>3 DEF Created, Number, n

LEMMA ParticipantsAre ==
  ASSUME LogRight, NEW c
  PROVE  /\ Participants(c) \in SUBSET DOMAIN log["participation"]
         /\ IsFiniteSet(Participants(c)) /\ Cardinality(Participants(c)) \in Nat
         /\ 1 .. Cardinality(Participants(c)) \subseteq Number
<1> DEFINE n == Cardinality(Participants(c))
<1>1. Participants(c) \in SUBSET DOMAIN log["participation"]
  BY DEF Participants, Are
<1>2. IsFiniteSet(Participants(c)) /\ n \in Nat /\ n <= MaxActions
  BY <1>1, FewActions DEF Service
<1> HIDE DEF n
<1>3. 1 .. n \subseteq 0 .. MaxActions
  BY <1>2, PlatformAssumption
<1> QED
  BY <1>1, <1>2, <1>3 DEF Number, n

\* An action that a contract may reduce after its log.
Next1(s, a) ==
  /\ a \in Action /\ a.kind \in Kinds(s)
  /\ a.of # 0 => s = "participation" \/ a.kind = "claim"
  /\ \A h \in DOMAIN log[s] : \A kinds \in Once[s] :
       ~ (/\ {a.kind, log[s][h].kind} \subseteq kinds
          /\ a.id = log[s][h].id /\ a.of = log[s][h].of)

LEMMA SomeIs ==
  ASSUME NEW kind, NEW ids, NEW of, NEW a \in Some(kind, ids, of)
  PROVE  a = [kind |-> a.kind, id |-> a.id, of |-> a.of] /\ a.kind = kind /\ a.id \in ids /\ a.of \in of
BY DEF Some

LEMMA AdmittedIs ==
  ASSUME LogRight, NEW s \in Service, NEW a \in Admitted(s)
  PROVE  Next1(s, a)
<1>0. /\ {0} \in SUBSET Number /\ Created(s) \in SUBSET Number
      /\ Created("campaign") \in SUBSET Number /\ Created("project") \in SUBSET Number
  <2>1. 0 \in Number
    BY PlatformAssumption DEF Number
  <2> QED
    BY <2>1, CreatedIs DEF Service
<1>1. ASSUME NEW kind \in Kind, NEW ids \in SUBSET Number, NEW of \in SUBSET Number, a \in Some(kind, ids, of)
      PROVE  a \in Action /\ a.kind = kind /\ a.id \in ids /\ a.of \in of
  BY <1>1, SomeIs DEF Action
<1>2. ASSUME a \notin Recorded(s), a \in Action, NEW h \in DOMAIN log[s], log[s][h].kind = a.kind
      PROVE  ~ (a.id = log[s][h].id /\ a.of = log[s][h].of)
  <2>1. log[s][h] # a /\ log[s][h] \in Action
    BY <1>2, LogIs DEF Recorded
  <2> QED
    BY <1>2, <2>1 DEF Action
<1>3. CASE s = "campaign"
  <2>1. a \in Some("create", {0}, {0})
    BY <1>3 DEF Admitted
  <2>2. a \in Action /\ a.kind = "create" /\ a.of = 0
    BY <1>0, <1>1, <2>1 DEF Kind
  <2> QED
    BY <1>3, <2>2 DEF Next1, Kinds, Once
<1>4. CASE s = "project"
  <2>1. a \in Some("create", {0}, {0}) \/ a \in Some("update", Created(s), {0})
    BY <1>4 DEF Admitted
  <2>2. a \in Action /\ a.kind \in {"create", "update"} /\ a.of = 0
    <3>1. "create" \in Kind /\ "update" \in Kind
      BY DEF Kind
    <3> QED
      BY <1>0, <1>1, <2>1, <3>1
  <2> QED
    BY <1>4, <2>2 DEF Next1, Kinds, Once
<1>5. CASE s = "funding"
  <2>1. a \in Some("create", {0}, {0}) \/ a \in Some("update", Created(s), {0}) \ Recorded(s)
    BY <1>5 DEF Admitted
  <2>2. a \in Action /\ a.kind \in {"create", "update"} /\ a.of = 0 /\ (a.kind = "update" => a \notin Recorded(s))
    <3>1. "create" \in Kind /\ "update" \in Kind
      BY DEF Kind
    <3>2. CASE a \in Some("create", {0}, {0})
      BY <1>0, <1>1, <3>1, <3>2
    <3>3. CASE a \in Some("update", Created(s), {0}) \ Recorded(s)
      BY <1>0, <1>1, <3>1, <3>3
    <3> QED
      BY <2>1, <3>2, <3>3
  <2>3. ASSUME NEW h \in DOMAIN log[s], NEW kinds \in Once[s], {a.kind, log[s][h].kind} \subseteq kinds
        PROVE  ~ (a.id = log[s][h].id /\ a.of = log[s][h].of)
    <3>1. a.kind = "update" /\ log[s][h].kind = "update"
      BY <1>5, <2>3 DEF Once
    <3> QED
      BY <1>2, <2>2, <3>1
  <2> QED
    BY <1>5, <2>2, <2>3 DEF Next1, Kinds
<1>6. CASE s = "participation"
  <2>1. a \in Some("create", Created("campaign"), Created("project")) /\ a \notin Recorded(s)
    BY <1>6 DEF Admitted
  <2>2. a \in Action /\ a.kind = "create"
    BY <1>1, <2>1, CreatedIs DEF Kind, Service
  <2>3. ASSUME NEW h \in DOMAIN log[s], NEW kinds \in Once[s], {a.kind, log[s][h].kind} \subseteq kinds
        PROVE  ~ (a.id = log[s][h].id /\ a.of = log[s][h].of)
    <3>1. log[s][h].kind = "create"
      BY <1>6, <2>3 DEF Once
    <3> QED
      BY <1>2, <2>1, <2>2, <3>1
  <2> QED
    BY <1>6, <2>2, <2>3 DEF Next1, Kinds
<1>7. CASE s = "treasury"
  <2>1. \/ \E kind \in {"complete", "abort"} :
             a \in Some(kind, {c \in Created("campaign") : ~ Ended(c)}, {0})
        \/ /\ a \notin Recorded(s)
           /\ \E c \in Created("campaign") : a \in Some("claim", {c}, 1 .. Cardinality(Participants(c)))
    <3>1. Admitted(s) = Endings \cup (Claims \ Recorded(s))
      BY <1>7 DEF Admitted
    <3>2. a \in Endings => \E kind \in {"complete", "abort"} :
                              a \in Some(kind, {c \in Created("campaign") : ~ Ended(c)}, {0})
      BY Zenon DEF Endings
    <3>3. a \in Claims => \E c \in Created("campaign") :
                             a \in Some("claim", {c}, 1 .. Cardinality(Participants(c)))
      BY Zenon DEF Claims
    <3> QED
      BY <3>1, <3>2, <3>3
  <2>2. CASE \E kind \in {"complete", "abort"} :
               a \in Some(kind, {c \in Created("campaign") : ~ Ended(c)}, {0})
    <3>1. PICK kind \in {"complete", "abort"} : a \in Some(kind, {c \in Created("campaign") : ~ Ended(c)}, {0})
      BY <2>2
    <3>2. a \in Action /\ a.kind = kind /\ ~ Ended(a.id) /\ a.of = 0
      <4>1. kind \in Kind
        BY DEF Kind
      <4>2. {c \in Created("campaign") : ~ Ended(c)} \in SUBSET Number
        BY <1>0
      <4>3. a \in Action /\ a.kind = kind /\ a.id \in {c \in Created("campaign") : ~ Ended(c)} /\ a.of \in {0}
        BY <1>0, <1>1, <3>1, <4>1, <4>2
      <4> QED
        BY <4>3
    <3>3. ASSUME NEW h \in DOMAIN log[s], NEW kinds \in Once[s], {a.kind, log[s][h].kind} \subseteq kinds
          PROVE  ~ (a.id = log[s][h].id /\ a.of = log[s][h].of)
      <4>1. log[s][h].kind \in {"complete", "abort"}
        BY <1>7, <3>2, <3>3 DEF Once
      <4> QED
        BY <1>7, <3>2, <4>1 DEF Ended, Are
    <3> QED
      BY <1>7, <3>1, <3>2, <3>3 DEF Next1, Kinds
  <2>3. CASE /\ a \notin Recorded(s)
             /\ \E c \in Created("campaign") : a \in Some("claim", {c}, 1 .. Cardinality(Participants(c)))
    <3>1. PICK c \in Created("campaign") : a \in Some("claim", {c}, 1 .. Cardinality(Participants(c)))
      BY <2>3
    <3>2. a \in Action /\ a.kind = "claim"
      BY <1>1, <3>1, CreatedIs, ParticipantsAre DEF Kind, Service
    <3>3. ASSUME NEW h \in DOMAIN log[s], NEW kinds \in Once[s], {a.kind, log[s][h].kind} \subseteq kinds
          PROVE  ~ (a.id = log[s][h].id /\ a.of = log[s][h].of)
      <4>1. log[s][h].kind = "claim"
        BY <1>7, <3>2, <3>3 DEF Once
      <4> QED
        BY <1>2, <2>3, <3>2, <4>1
    <3> QED
      BY <1>7, <3>2, <3>3 DEF Next1, Kinds
  <2> QED
    BY <2>1, <2>2, <2>3
<1> QED
  BY <1>3, <1>4, <1>5, <1>6, <1>7 DEF Service

\* Nothing that was reduced changes.
LogGrows == \A s \in Service : /\ DOMAIN log[s] \subseteq DOMAIN log'[s]
                               /\ \A i \in DOMAIN log[s] : log'[s][i] = log[s][i]

LEMMA ReduceIs ==
  ASSUME LogRight, NEW s \in Service, NEW a \in Inputs(s), Reduce(s, a)
  PROVE  LogRight' /\ LogGrows /\ \A t \in Service : Len(log[t]) <= Len(log'[t])
<1> DEFINE n == Len(log[s]) + 1
<1>1. Cardinality(Actions) < MaxActions /\ a \in Admitted(s)
  BY DEF Inputs
<1>2. Next1(s, a) /\ a \in Action
  BY <1>1, AdmittedIs DEF Next1
<1>3. /\ log'[s] = Append(log[s], a) /\ \A t \in Service \ {s} : log'[t] = log[t]
      /\ DOMAIN log' = Service
  BY DEF Reduce, LogRight
<1>4. /\ \A t \in Service : log[t] \in Seq(Action) /\ Len(log[t]) \in Nat /\ DOMAIN log[t] = 1 .. Len(log[t])
  BY LogIs
<1>5. /\ log'[s] \in Seq(Action) /\ Len(log'[s]) = n /\ DOMAIN log'[s] = 1 .. n
      /\ \A i \in 1 .. Len(log[s]) : log'[s][i] = log[s][i]
      /\ log'[s][n] = a
  BY <1>2, <1>3, <1>4
<1>6. n \in Nat /\ 1 .. n = (1 .. Len(log[s])) \cup {n} /\ n \notin 1 .. Len(log[s])
  BY <1>4
<1>7. LogGrows
  BY <1>3, <1>4, <1>5, <1>6 DEF LogGrows
<1>8. log' \in [Service -> Seq(Action)]
  BY <1>2, <1>4 DEF Reduce, LogRight
<1>9. Cardinality(Actions') <= MaxActions
  <2>1. Actions' = Actions \cup {<<s, n>>}
    <3>1. \A t \in Service : {t} \X DOMAIN log'[t] =
                               IF t = s THEN ({t} \X DOMAIN log[t]) \cup {<<s, n>>} ELSE {t} \X DOMAIN log[t]
      <4>1. {s} \X ((1 .. Len(log[s])) \cup {n}) = ({s} \X (1 .. Len(log[s]))) \cup {<<s, n>>}
        OBVIOUS
      <4> QED
        BY <1>3, <1>4, <1>5, <1>6, <4>1
    <3> HIDE DEF n
    <3> QED
      BY <3>1 DEF Actions, ActionsOf
  <2>2. Cardinality(Actions \cup {<<s, n>>}) <= Cardinality(Actions) + 1 /\ Cardinality(Actions) \in Nat
    <3> HIDE DEF n
    <3>1. Cardinality(Actions \cup {<<s, n>>})
            = IF <<s, n>> \in Actions THEN Cardinality(Actions) ELSE Cardinality(Actions) + 1
      BY ActionsAreFinite, FS_AddElement
    <3> QED
      BY <3>1, ActionsAreFinite
  <2>3. Cardinality(Actions \cup {<<s, n>>}) \in Nat
    BY ActionsAreFinite, FS_AddElement, FS_CardinalityType
  <2> QED
    BY <1>1, <2>1, <2>2, <2>3, PlatformAssumption
<1>10. Legal(log')
  <2> SUFFICES ASSUME NEW t \in Service, NEW i \in DOMAIN log'[t]
               PROVE  /\ log'[t][i].kind \in Kinds(t)
                      /\ log'[t][i].of # 0 => t = "participation" \/ log'[t][i].kind = "claim"
                      /\ \A h \in DOMAIN log'[t] : \A kinds \in Once[t] :
                           /\ {log'[t][i].kind, log'[t][h].kind} \subseteq kinds
                           /\ log'[t][i].id = log'[t][h].id /\ log'[t][i].of = log'[t][h].of
                           => i = h
    BY DEF Legal
  <2>1. /\ \A j \in DOMAIN log[t] : /\ log[t][j].kind \in Kinds(t)
                                    /\ log[t][j].of # 0 => t = "participation" \/ log[t][j].kind = "claim"
                                    /\ \A h \in DOMAIN log[t] : \A kinds \in Once[t] :
                                          /\ {log[t][j].kind, log[t][h].kind} \subseteq kinds
                                          /\ log[t][j].id = log[t][h].id /\ log[t][j].of = log[t][h].of
                                          => j = h
    BY DEF LogRight, Legal
  <2>2. CASE t # s
    BY <1>3, <2>1, <2>2
  <2>3. CASE t = s
    <3>1. \A h \in DOMAIN log'[s] : \/ h \in DOMAIN log[s] /\ log'[s][h] = log[s][h]
                                    \/ h = n /\ log'[s][h] = a
      BY <1>4, <1>5, <1>6
    <3> HIDE DEF n
    <3> QED
      BY <1>2, <2>1, <2>3, <3>1 DEF Next1
  <2> QED
    BY <2>2, <2>3
<1>11. \A t \in Service : Len(log[t]) <= Len(log'[t])
  BY <1>3, <1>4, <1>5
<1> QED
  BY <1>7, <1>8, <1>9, <1>10, <1>11 DEF LogRight, Actions

-----------------------------------------------------------------------------
(***************************************************************************)
(* What the steps have in common.                                          *)
(***************************************************************************)
LEMMA UpsertIs ==
  ASSUME NEW docs, NEW key, NEW doc
  PROVE  /\ DOMAIN Upsert(docs, key, doc) = DOMAIN docs \cup {key}
         /\ Upsert(docs, key, doc)[key] = doc
         /\ \A k \in DOMAIN docs : k # key => Upsert(docs, key, doc)[k] = docs[k]
BY DEF Upsert

LEMMA AreGrow ==
  ASSUME LogGrows, NEW s \in Service, NEW kinds
  PROVE  Are(s, kinds) \subseteq Are(s, kinds)'
BY DEF LogGrows, Are

LEMMA SameLog ==
  ASSUME LogRight, log' = log
  PROVE  LogRight' /\ LogGrows
BY DEF LogRight, Actions, LogGrows

LEMMA SameMemory ==
  ASSUME IInv, LogRight', LogGrows, \A s \in Service : Len(log[s]) <= Len(log'[s])
  PROVE  /\ active' = active => ActiveRight'
         /\ UNCHANGED memory => MemoryRight'
<1>1. active' = active => ActiveRight'
  BY DEF IInv, ActiveRight, LogGrows
<1>2. \A s \in Service : Len(log[s]) \in Nat /\ Len(log'[s]) \in Nat
  BY DEF IInv, LogRight
<1>3. UNCHANGED memory => MemoryRight'
  BY <1>2 DEF IInv, MemoryRight, memory
<1> QED
  BY <1>1, <1>3

LEMMA SameDocuments ==
  ASSUME IInv, LogGrows
  PROVE  /\ campaigns' = campaigns => CampaignsRight'
         /\ projects' = projects => ProjectsRight'
         /\ participations' = participations => ParticipationsRight'
         /\ fundings' = fundings => FundingsRight'
<1>1. /\ Are("campaign", {"create"}) \subseteq Are("campaign", {"create"})'
      /\ Are("project", {"create"}) \subseteq Are("project", {"create"})'
      /\ Are("project", {"update"}) \subseteq Are("project", {"update"})'
      /\ Are("treasury", {"claim"}) \subseteq Are("treasury", {"claim"})'
      /\ Are("funding", {"create"}) \subseteq Are("funding", {"create"})'
  BY AreGrow DEF Service
<1>2. ASSUME campaigns' = campaigns PROVE CampaignsRight'
  <2>1. ASSUME NEW id \in DOMAIN campaigns
        PROVE  campaigns[id] \in [action : {0} \cup Are("campaign", {"create"})',
                                  counter : Nat, state : {"notEnded", "complete", "abort"}]
    <3>1. campaigns[id] \in [action : {0} \cup Are("campaign", {"create"}),
                             counter : Nat, state : {"notEnded", "complete", "abort"}]
      BY DEF IInv, DocumentsRight, CampaignsRight
    <3> QED
      BY <1>1, <3>1
  <2>2. DOMAIN campaigns \subseteq Nat
    BY DEF IInv, DocumentsRight, CampaignsRight
  <2> QED
    BY <1>2, <2>1, <2>2 DEF CampaignsRight
<1>3. projects' = projects => ProjectsRight'
  BY <1>1 DEF IInv, DocumentsRight, ProjectsRight
<1>4. participations' = participations => ParticipationsRight'
  BY <1>1 DEF IInv, DocumentsRight, ParticipationsRight
<1>5. fundings' = fundings => FundingsRight'
  BY <1>1 DEF IInv, DocumentsRight, FundingsRight
<1> QED
  BY <1>2, <1>3, <1>4, <1>5

\* No document is removed that a write may be about.
DocumentsStay ==
  DOMAIN campaigns \subseteq DOMAIN campaigns' /\ DOMAIN participations \subseteq DOMAIN participations'

\* A write, whoever waits for it.
SameWrite(v, w) ==
  /\ v.service = w.service /\ v.action = w.action /\ v.what = w.what
  /\ v.id = w.id /\ v.value = w.value /\ v.pass \in {w.pass, NoPass}

LEMMA WriteStays ==
  ASSUME WritesRight, LogGrows, DocumentsStay, NEW w \in writes, NEW v \in Writing, SameWrite(v, w)
  PROVE  WriteRight(v)'
<1>1. WriteRight(w)
  BY DEF WritesRight
<1>2. w.service \in Service /\ w.action \in DOMAIN log[w.service]
  BY <1>1 DEF WriteRight, Writing
<1>3. w.action \in DOMAIN log'[w.service] /\ log'[w.service][w.action] = log[w.service][w.action]
  BY <1>2 DEF LogGrows
<1>4. ActionOf(v)' = ActionOf(w)
  BY <1>3 DEF ActionOf, SameWrite
<1> QED
  BY <1>1, <1>3, <1>4 DEF WriteRight, SameWrite, DocumentsStay

LEMMA WritesStay ==
  ASSUME WritesRight, LogGrows, DocumentsStay,
         \A v \in writes' : \/ v \in Writing /\ \E w \in writes : SameWrite(v, w)
                            \/ WriteRight(v)'
  PROVE  WritesRight'
BY WriteStays DEF WritesRight

LEMMA SameWrites ==
  ASSUME WritesRight, LogGrows, DocumentsStay, writes' \subseteq writes
  PROVE  WritesRight'
<1>1. \A v \in writes : v \in Writing /\ SameWrite(v, v)
  BY DEF WritesRight, WriteRight, SameWrite
<1> QED
  BY <1>1, WritesStay

LEMMA PassesStay ==
  ASSUME PassesRight, LogGrows, pass' = pass
  PROVE  PassesRight'
<1>1. \A p \in Pass : pass[p].service \in Service
  BY DEF PassesRight, Passing
<1> QED
  BY <1>1 DEF PassesRight, PassRight, LogGrows

LEMMA OnePassMoves ==
  ASSUME PassesRight, log' = log, NEW p \in Pass, pass' \in [Pass -> Passing],
         \A q \in Pass \ {p} : pass'[q] = pass[q], PassRight(p)'
  PROVE  PassesRight'
BY DEF PassesRight, PassRight

LEMMA GotoIs ==
  ASSUME PassesRight, NEW p \in Pass, NEW label \in PC, Goto(p, label)
  PROVE  /\ pass' \in [Pass -> Passing] /\ \A q \in Pass \ {p} : pass'[q] = pass[q]
         /\ pass'[p].pc = label /\ pass'[p].service = pass[p].service
         /\ pass'[p].actions = pass[p].actions
<1>1. pass[p] \in Passing /\ pass \in [Pass -> Passing]
  BY DEF PassesRight
<1>2. [pass[p] EXCEPT !.pc = label] \in Passing
  BY <1>1 DEF Passing
<1> QED
  BY <1>1, <1>2 DEF Goto, Passing

LEMMA IdleIs == Idle \in Passing /\ Idle.pc = "idle" /\ Idle.service = "campaign" /\ Idle.actions = {}
BY DEF Idle, Passing, PC, Service

LEMMA ProceedIs ==
  ASSUME IInv, NEW p \in Pass, NEW ids \in SUBSET DOMAIN log[pass[p].service], NEW next \in Nat,
         Proceed(p, ids, next)
  PROVE  /\ pass' \in [Pass -> Passing] /\ \A q \in Pass \ {p} : pass'[q] = pass[q]
         /\ ids = {} => pass'[p] = Idle
         /\ ids # {} => /\ pass'[p].pc = "next" /\ pass'[p].service = pass[p].service
                        /\ pass'[p].actions = ids
         /\ log' = log => MemoryRight' /\ PassesRight'
<1>1. pass[p] \in Passing /\ pass \in [Pass -> Passing] /\ pass[p].service \in Service
  BY DEF IInv, PassesRight, Passing
<1>2. ids \in SUBSET Nat
  BY <1>1, LogIs DEF IInv
<1>3. [pass[p] EXCEPT !.pc = "next", !.actions = ids] \in Passing
  BY <1>1, <1>2 DEF Passing, PC
<1>4. /\ pass' \in [Pass -> Passing] /\ \A q \in Pass \ {p} : pass'[q] = pass[q]
      /\ ids = {} => pass'[p] = Idle
      /\ ids # {} => /\ pass'[p].pc = "next" /\ pass'[p].service = pass[p].service
                     /\ pass'[p].actions = ids
  BY <1>1, <1>3, IdleIs DEF Proceed, Passing
<1>5. ASSUME log' = log PROVE PassesRight'
  <2>1. PassRight(p)'
    BY <1>4, <1>5, IdleIs DEF PassRight
  <2> QED
    BY <1>4, <1>5, <2>1, OnePassMoves DEF IInv
<1>6. ASSUME log' = log PROVE MemoryRight'
  <2>1. \A s \in Service : Len(log[s]) \in Nat
    BY LogIs DEF IInv
  <2> QED
    BY <1>1, <1>6, <2>1 DEF Proceed, IInv, MemoryRight
<1> QED
  BY <1>4, <1>5, <1>6

LEMMA AbandonIs ==
  ASSUME IInv, NEW p \in Pass, NEW failed, Abandon(p, failed)
  PROVE  /\ pass'[p] = Idle /\ \A q \in Pass \ {p} : pass'[q] = pass[q]
         /\ \A v \in writes' : /\ v \in Writing
                               /\ \E w \in writes \ failed : SameWrite(v, w) /\ (v = w \/ w.pass = p)
         /\ LogRight' /\ ActiveRight' /\ MemoryRight' /\ DocumentsRight' /\ WritesRight' /\ PassesRight'
         /\ UNCHANGED <<log, active, documents>>
<1>1. UNCHANGED <<log, active, documents>> /\ Proceed(p, {}, nextId[pass[p].service])
  BY DEF Abandon, Return
<1>2. pass[p].service \in Service /\ nextId[pass[p].service] \in Nat
  BY DEF IInv, PassesRight, Passing, MemoryRight
<1>3. LogRight' /\ LogGrows
  BY <1>1, SameLog DEF IInv
<1>4. /\ pass'[p] = Idle /\ \A q \in Pass \ {p} : pass'[q] = pass[q]
      /\ MemoryRight' /\ PassesRight'
  <2>1. {} \in SUBSET DOMAIN log[pass[p].service]
    OBVIOUS
  <2> QED
    BY <1>1, <1>2, <2>1, ProceedIs
<1>5. ActiveRight'
  BY <1>1 DEF IInv, ActiveRight
<1>6. DocumentsRight'
  BY <1>1, <1>3, SameDocuments DEF documents, DocumentsRight
<1>7. ASSUME NEW v \in writes'
      PROVE  v \in Writing /\ \E w \in writes \ failed : SameWrite(v, w) /\ (v = w \/ w.pass = p)
  <2>1. PICK w \in writes \ failed : v = IF w.pass = p THEN [w EXCEPT !.pass = NoPass] ELSE w
    BY <1>7 DEF Abandon
  <2>2. w \in Writing
    BY DEF IInv, WritesRight, WriteRight
  <2> QED
    BY <2>1, <2>2 DEF Writing, SameWrite
<1>8. WritesRight'
  <2>1. DocumentsStay
    BY <1>1 DEF documents, DocumentsStay
  <2> QED
    BY <1>3, <1>7, <2>1, WritesStay DEF IInv
<1> QED
  BY <1>1, <1>3, <1>4, <1>5, <1>6, <1>7, <1>8

LEMMA CurrentIs ==
  ASSUME IInv, NEW p \in Pass, NEW i \in Current(p)
  PROVE  /\ pass[p].service \in Service /\ i \in DOMAIN log[pass[p].service] /\ i \in Nat /\ i # 0
         /\ log[pass[p].service][i] \in Action /\ i \in pass[p].actions
<1>1. pass[p].service \in Service /\ i \in DOMAIN log[pass[p].service] /\ i \in pass[p].actions
  BY DEF Current, IInv, PassesRight, Passing, PassRight
<1> QED
  BY <1>1, LogIs DEF IInv

-----------------------------------------------------------------------------
(***************************************************************************)
(* Every step keeps the types.                                             *)
(***************************************************************************)
LEMMA ReduceInv ==
  ASSUME IInv, NEW s \in Service, NEW a \in Inputs(s), Reduce(s, a)
  PROVE  IInv'
<1>1. LogRight' /\ LogGrows /\ \A t \in Service : Len(log[t]) <= Len(log'[t])
  BY ReduceIs DEF IInv
<1>2. UNCHANGED <<active, memory, documents, writes, pass, disturbed>>
  BY DEF Reduce
<1>3. ActiveRight' /\ MemoryRight'
  BY <1>1, <1>2, SameMemory
<1>4. DocumentsRight'
  BY <1>1, <1>2, SameDocuments DEF documents, DocumentsRight
<1>5. WritesRight' /\ PassesRight'
  BY <1>1, <1>2, SameWrites, PassesStay DEF documents, DocumentsStay, IInv
<1> QED
  BY <1>1, <1>2, <1>3, <1>4, <1>5 DEF IInv

LEMMA FetchStateInv ==
  ASSUME IInv, NEW p \in Pass, NEW s \in Service, NEW n \in 0 .. Len(log[s]), FetchState(p, s, n)
  PROVE  IInv'
<1>1. UNCHANGED <<log, active, documents, writes>>
  BY DEF FetchState
<1>2. LogRight' /\ LogGrows
  BY <1>1, SameLog DEF IInv
<1>3. MemoryRight'
  <2>1. NextId(s, n) \in Nat
    <3>1. {i \in Are(s, {"create"}) : i <= n} \in SUBSET DOMAIN log[s]
      BY DEF Are
    <3> QED
      BY <3>1, FewActions DEF IInv, NextId
  <2>2. \A t \in Service : Len(log[t]) \in Nat
    BY LogIs DEF IInv
  <2> QED
    BY <1>1, <2>1, <2>2 DEF FetchState, IInv, MemoryRight
<1>4. PassesRight'
  <2>1. pass[p] \in Passing /\ pass[p].actions = {} /\ pass \in [Pass -> Passing]
    BY DEF FetchState, IInv, PassesRight, PassRight
  <2>2. [pass[p] EXCEPT !.pc = "find", !.service = s] \in Passing
    BY <2>1 DEF Passing, PC
  <2>3. /\ pass' \in [Pass -> Passing] /\ \A q \in Pass \ {p} : pass'[q] = pass[q]
        /\ pass'[p].pc = "find" /\ pass'[p].actions = {}
    BY <2>1, <2>2 DEF FetchState, Passing
  <2>4. PassRight(p)'
    BY <2>3 DEF PassRight
  <2> QED
    BY <1>1, <2>3, <2>4, OnePassMoves DEF IInv
<1>5. ActiveRight' /\ DocumentsRight'
  BY <1>1, <1>2, SameDocuments DEF IInv, ActiveRight, documents, DocumentsRight
<1>6. WritesRight'
  BY <1>1, <1>2, SameWrites DEF documents, DocumentsStay, IInv
<1>7. disturbed' \in 0 .. MaxDisturbed + 1
  BY PlatformAssumption DEF FetchState, Disturbed, IInv
<1> QED
  BY <1>2, <1>3, <1>4, <1>5, <1>6, <1>7 DEF IInv

\* Steps of a pass that go on with some of its actions, and write nothing.
LEMMA ProceedInv ==
  ASSUME IInv, NEW p \in Pass, NEW ids \in SUBSET DOMAIN log[pass[p].service],
         NEW next \in Nat, Proceed(p, ids, next),
         UNCHANGED <<log, documents, writes, disturbed>>, ActiveRight'
  PROVE  IInv'
<1>1. LogRight' /\ LogGrows
  BY SameLog DEF IInv
<1>2. MemoryRight' /\ PassesRight'
  BY ProceedIs
<1>3. DocumentsRight'
  BY <1>1, SameDocuments DEF documents, DocumentsRight
<1>4. WritesRight'
  BY <1>1, SameWrites DEF documents, DocumentsStay, IInv
<1> QED
  BY <1>1, <1>2, <1>3, <1>4 DEF IInv

LEMMA FindInv ==
  ASSUME IInv, NEW p \in Pass, Find(p) \/ FindNothing(p) \/ SaveAction(p)
  PROVE  IInv'
<1>0. pass[p].service \in Service /\ pass[p].actions \in SUBSET DOMAIN log[pass[p].service]
  BY DEF IInv, PassesRight, PassRight, Passing
<1>1. CASE Find(p)
  <2>1. NotActive(pass[p].service) \in SUBSET DOMAIN log[pass[p].service]
    <3>1. /\ actionState[pass[p].service] \in 0 .. Len(log[pass[p].service])
          /\ DOMAIN log[pass[p].service] = 1 .. Len(log[pass[p].service])
          /\ Len(log[pass[p].service]) \in Nat
      BY <1>0, LogIs DEF IInv, MemoryRight
    <3> QED
      BY <3>1 DEF NotActive
  <2>2. nextId[pass[p].service] \in Nat
    BY <1>0 DEF IInv, MemoryRight
  <2>3. ActiveRight'
    BY <1>1 DEF Find, IInv, ActiveRight
  <2> QED
    BY <1>1, <2>1, <2>2, <2>3, ProceedInv DEF Find
<1>2. CASE FindNothing(p)
  <2>1. {} \in SUBSET DOMAIN log[pass[p].service] /\ nextId[pass[p].service] \in Nat
    BY <1>0 DEF IInv, MemoryRight
  <2>2. ActiveRight'
    BY <1>2 DEF FindNothing, IInv, ActiveRight
  <2> QED
    BY <1>2, <2>1, <2>2, ProceedInv DEF FindNothing, Return
<1>3. CASE SaveAction(p)
  <2>1. pass[p].actions \ Current(p) \in SUBSET DOMAIN log[pass[p].service] /\ nextId["campaign"] + 1 \in Nat
    <3>1. nextId["campaign"] \in Nat
      BY DEF IInv, MemoryRight, Service
    <3> QED
      BY <1>0, <3>1
  <2>2. pass[p].service = "campaign"
    BY <1>3 DEF SaveAction, In
  <2>3. Current(p) \subseteq DOMAIN log["campaign"] /\ \A i \in Current(p) : i \in Nat
    BY <2>2, CurrentIs
  <2>4. ActiveRight'
    <3>1. active' = [active EXCEPT !["campaign"] = @ \cup Current(p)] /\ log' = log
      BY <1>3 DEF SaveAction
    <3> QED
      BY <3>1, <2>3 DEF IInv, ActiveRight, Service
  <2> QED
    BY <1>3, <2>1, <2>4, ProceedInv DEF SaveAction
<1> QED
  BY <1>1, <1>2, <1>3

LEMMA UpsertCampaignInv ==
  ASSUME IInv, NEW p \in Pass, UpsertCampaign(p)
  PROVE  IInv'
<1>1. /\ UNCHANGED <<log, active, memory, projects, participations, fundings, writes, disturbed>>
      /\ pass[p].service = "campaign" /\ Goto(p, "saveAction")
  BY DEF UpsertCampaign, In
<1>2. LogRight' /\ LogGrows
  BY <1>1, SameLog DEF IInv
<1>3. PICK i \in Current(p) :
        campaigns' = Upsert(campaigns, nextId["campaign"],
                            [Document(campaigns, nextId["campaign"], NewCampaign) EXCEPT !.action = i])
  BY DEF UpsertCampaign
<1> DEFINE id == nextId["campaign"]
<1> DEFINE doc == Document(campaigns, id, NewCampaign)
<1> DEFINE new == [doc EXCEPT !.action = i]
<1>4. id \in Nat
  BY DEF IInv, MemoryRight, Service
<1>5. i \in Are("campaign", {"create"})
  <2>1. i \in DOMAIN log["campaign"]
    BY <1>1, CurrentIs
  <2>2. log["campaign"][i].kind \in Kinds("campaign")
    BY <2>1 DEF IInv, LogRight, Legal, Service
  <2> QED
    BY <2>1, <2>2 DEF Are, Kinds
<1>6. doc \in [action : {0} \cup Are("campaign", {"create"}), counter : Nat, state : {"notEnded", "complete", "abort"}]
  BY DEF Document, NewCampaign, IInv, DocumentsRight, CampaignsRight
<1>7. new \in [action : {0} \cup Are("campaign", {"create"}), counter : Nat, state : {"notEnded", "complete", "abort"}]
  BY <1>5, <1>6
<1>14. campaigns' = Upsert(campaigns, id, new)
  BY <1>3
<1> HIDE DEF id, doc, new
<1>8. /\ DOMAIN campaigns' = DOMAIN campaigns \cup {id}
      /\ campaigns'[id] = new
      /\ \A k \in DOMAIN campaigns : k # id => campaigns'[k] = campaigns[k]
  BY <1>14 DEF Upsert
<1>9. CampaignsRight'
  <2>1. Are("campaign", {"create"})' = Are("campaign", {"create"})
    BY <1>1 DEF Are
  <2> QED
    BY <1>4, <1>7, <1>8, <2>1 DEF IInv, DocumentsRight, CampaignsRight
<1>10. DocumentsRight'
  BY <1>1, <1>2, <1>9, SameDocuments DEF DocumentsRight
<1>11. ActiveRight' /\ MemoryRight'
  BY <1>1 DEF IInv, ActiveRight, MemoryRight, memory
<1>12. WritesRight'
  BY <1>1, <1>2, <1>8, SameWrites DEF DocumentsStay, IInv
<1>13. PassesRight'
  <2>1. /\ pass' \in [Pass -> Passing] /\ \A q \in Pass \ {p} : pass'[q] = pass[q]
        /\ pass'[p].pc = "saveAction" /\ pass'[p].service = pass[p].service
        /\ pass'[p].actions = pass[p].actions
    BY <1>1, GotoIs DEF IInv, PC
  <2>2. PassRight(p)'
    BY <1>1, <2>1 DEF PassRight, IInv, PassesRight
  <2> QED
    BY <1>1, <2>1, <2>2, OnePassMoves DEF IInv
<1> QED
  BY <1>1, <1>2, <1>10, <1>11, <1>12, <1>13 DEF IInv

\* Steps of a pass that start writes of one of its actions.
LEMMA StartInv ==
  ASSUME IInv, NEW p \in Pass, NEW label \in {"document", "await"}, Goto(p, label),
         UNCHANGED <<log, active, documents, disturbed>>, MemoryRight',
         \A v \in writes' : v \in writes \/ WriteRight(v)',
         pass[p].service # "campaign",
         label = "document" => pass[p].service \in {"project", "funding", "treasury"}
  PROVE  IInv'
<1>1. LogRight' /\ LogGrows
  BY SameLog DEF IInv
<1>2. ActiveRight' /\ DocumentsRight'
  BY <1>1, SameDocuments DEF IInv, ActiveRight, documents, DocumentsRight
<1>3. WritesRight'
  <2>1. \A w \in writes : w \in Writing /\ SameWrite(w, w)
    BY DEF IInv, WritesRight, WriteRight, SameWrite
  <2>2. DocumentsStay
    BY DEF documents, DocumentsStay
  <2> QED
    BY <1>1, <2>1, <2>2, WritesStay DEF IInv
<1>4. PassesRight'
  <2>1. label \in PC
    BY DEF PC
  <2>2. /\ pass' \in [Pass -> Passing] /\ \A q \in Pass \ {p} : pass'[q] = pass[q]
        /\ pass'[p].pc = label /\ pass'[p].service = pass[p].service
        /\ pass'[p].actions = pass[p].actions
    BY <2>1, GotoIs DEF IInv
  <2>3. PassRight(p)'
    BY <2>2 DEF PassRight, IInv, PassesRight
  <2> QED
    BY <2>2, <2>3, OnePassMoves DEF IInv
<1> QED
  BY <1>1, <1>2, <1>3, <1>4 DEF IInv

LEMMA StartedIs ==
  ASSUME IInv, NEW p \in Pass, NEW i \in Current(p), NEW what \in {"action", "campaign", "document"},
         NEW id \in Nat, NEW value \in Nat, NEW w, w = Started(p, i, what, id, value)
  PROVE  /\ w \in Writing /\ w.pass = p /\ w.service = pass[p].service /\ w.action = i
         /\ w.what = what /\ w.id = id /\ w.value = value
         /\ w.action \in DOMAIN log[w.service] /\ ActionOf(w) = log[pass[p].service][i]
<1>1. i \in Nat /\ pass[p].service \in Service /\ i \in DOMAIN log[pass[p].service]
  BY CurrentIs
<1> QED
  BY <1>1 DEF Started, Writing, ActionOf

LEMMA StartedRight ==
  ASSUME IInv, NEW w \in Writing, w.action \in DOMAIN log[w.service], w.service # "campaign",
         UNCHANGED <<log, documents>>,
         w.what = "campaign" => w.service = "participation" /\ w.id \in DOMAIN campaigns,
         w.what = "document" =>
           /\ w.service = "participation" => w.value # 0
           /\ w.service \in {"participation", "treasury"} \/ ActionOf(w).kind # "create" =>
                w.id = ActionOf(w).id
           /\ w.service = "treasury" /\ ActionOf(w).kind = "claim" =>
                <<w.id, w.value>> \in DOMAIN participations
  PROVE  WriteRight(w)'
<1>1. log' = log /\ campaigns' = campaigns /\ participations' = participations
  BY DEF documents
<1>2. ActionOf(w)' = ActionOf(w)
  BY <1>1 DEF ActionOf
<1> QED
  BY <1>1, <1>2 DEF WriteRight

LEMMA StartActionInv ==
  ASSUME IInv, NEW p \in Pass, StartAction(p)
  PROVE  IInv'
<1>1. /\ UNCHANGED <<log, active, memory, documents, disturbed>> /\ Goto(p, "document")
      /\ pass[p].service \in {"project", "funding", "treasury"}
  BY DEF StartAction
<1>2. PICK i \in Current(p) : writes' = writes \cup {Started(p, i, "action", 0, 0)}
  BY DEF StartAction
<1>3. ASSUME NEW w, w = Started(p, i, "action", 0, 0) PROVE WriteRight(w)'
  <2>1. /\ w \in Writing /\ w.service = pass[p].service /\ w.what = "action"
        /\ w.action \in DOMAIN log[w.service]
    BY <1>3, StartedIs
  <2> QED
    BY <1>1, <2>1, StartedRight
<1>4. MemoryRight'
  BY <1>1 DEF IInv, MemoryRight, memory
<1> QED
  BY <1>1, <1>2, <1>3, <1>4, StartInv

LEMMA StartCreateInv ==
  ASSUME IInv, NEW p \in Pass, StartCreate(p)
  PROVE  IInv'
<1> DEFINE s == pass[p].service
<1>1. /\ UNCHANGED <<log, active, actionState, documents, disturbed>> /\ Goto(p, "await")
      /\ s \in {"project", "funding", "treasury"} /\ s \in Service
  BY DEF StartCreate, IInv, PassesRight, PassRight, Passing
<1>2. PICK i \in Current(p) : /\ log[s][i].kind = "create"
                              /\ writes' = writes \cup {Started(p, i, "document", nextId[s], 0)}
  BY DEF StartCreate
<1>3. nextId[s] \in Nat
  BY <1>1 DEF IInv, MemoryRight
<1>4. s # "treasury"
  <2>1. i \in DOMAIN log[s]
    BY CurrentIs
  <2>2. log[s][i].kind \in Kinds(s)
    BY <1>1, <2>1 DEF IInv, LogRight, Legal
  <2> QED
    BY <1>2, <2>2 DEF Kinds
<1>5. ASSUME NEW w, w = Started(p, i, "document", nextId[s], 0) PROVE WriteRight(w)'
  <2>1. /\ w \in Writing /\ w.service = s /\ w.what = "document"
        /\ w.action \in DOMAIN log[w.service] /\ ActionOf(w) = log[s][i]
    BY <1>3, <1>5, StartedIs
  <2> QED
    BY <1>1, <1>2, <1>4, <2>1, StartedRight
<1>6. MemoryRight'
  BY <1>1, <1>3 DEF StartCreate, IInv, MemoryRight
<1> QED
  BY <1>1, <1>2, <1>5, <1>6, StartInv

LEMMA StartUpdateInv ==
  ASSUME IInv, NEW p \in Pass, StartUpdate(p)
  PROVE  IInv'
<1> DEFINE s == pass[p].service
<1>1. /\ UNCHANGED <<log, active, memory, documents, disturbed>> /\ Goto(p, "await")
      /\ s \in {"project", "funding", "treasury"} /\ s \in Service
  BY DEF StartUpdate, IInv, PassesRight, PassRight, Passing
<1>2. PICK i \in Current(p) : /\ log[s][i].kind \in {"update", "complete", "abort"}
                              /\ writes' = writes \cup {Started(p, i, "document", log[s][i].id, 0)}
  BY DEF StartUpdate
<1>3. log[s][i].id \in Nat
  BY CurrentIs DEF Action, Number
<1>4. ASSUME NEW w, w = Started(p, i, "document", log[s][i].id, 0) PROVE WriteRight(w)'
  <2>1. /\ w \in Writing /\ w.service = s /\ w.what = "document" /\ w.id = log[s][i].id
        /\ w.action \in DOMAIN log[w.service] /\ ActionOf(w) = log[s][i]
    BY <1>3, <1>4, StartedIs
  <2> QED
    BY <1>1, <1>2, <2>1, StartedRight
<1>5. MemoryRight'
  BY <1>1 DEF IInv, MemoryRight, memory
<1> QED
  BY <1>1, <1>2, <1>4, <1>5, StartInv

LEMMA StartClaimInv ==
  ASSUME IInv, NEW p \in Pass, StartClaim(p)
  PROVE  IInv'
<1> DEFINE s == pass[p].service
<1>1. /\ UNCHANGED <<log, active, memory, documents, disturbed>> /\ Goto(p, "await")
      /\ s \in {"project", "funding", "treasury"} /\ s \in Service
  BY DEF StartClaim, IInv, PassesRight, PassRight, Passing
<1>2. PICK i \in Current(p) : /\ log[s][i].kind = "claim"
                              /\ \E k \in ClaimedBy(log[s][i]) :
                                   writes' = writes \cup {Started(p, i, "document", log[s][i].id, k[2])}
  BY DEF StartClaim
<1>3. PICK k \in ClaimedBy(log[s][i]) : writes' = writes \cup {Started(p, i, "document", log[s][i].id, k[2])}
  BY <1>2
<1>4. k \in DOMAIN participations /\ k = <<log[s][i].id, k[2]>> /\ log[s][i].id \in Nat /\ k[2] \in Nat
  <2>1. k \in DOMAIN participations /\ k[1] = log[s][i].id /\ k \in Nat \X Number
    BY <1>3 DEF ClaimedBy, IInv, DocumentsRight, ParticipationsRight
  <2> QED
    BY <2>1 DEF Number
<1>5. s = "treasury"
  <2>1. i \in DOMAIN log[s]
    BY CurrentIs
  <2>2. log[s][i].kind \in Kinds(s)
    BY <1>1, <2>1 DEF IInv, LogRight, Legal
  <2> QED
    BY <1>1, <1>2, <2>2 DEF Kinds
<1>7. ASSUME NEW w, w = Started(p, i, "document", log[s][i].id, k[2]) PROVE WriteRight(w)'
  <2>1. /\ w \in Writing /\ w.service = "treasury" /\ w.what = "document"
        /\ w.id = log[s][i].id /\ w.value = k[2] /\ w.action \in DOMAIN log[w.service]
        /\ ActionOf(w) = log[s][i]
    BY <1>4, <1>5, <1>7, StartedIs
  <2> QED
    BY <1>1, <1>4, <2>1, StartedRight
<1>8. MemoryRight'
  BY <1>1 DEF IInv, MemoryRight, memory
<1> QED
  BY <1>1, <1>3, <1>7, <1>8, StartInv

LEMMA StartParticipationInv ==
  ASSUME IInv, NEW p \in Pass, StartParticipation(p)
  PROVE  IInv'
<1>1. /\ UNCHANGED <<log, active, memory, documents, disturbed>> /\ Goto(p, "await")
      /\ pass[p].service = "participation"
  BY DEF StartParticipation, In
<1>2. PICK i \in Current(p) :
        /\ log["participation"][i].id \in DOMAIN campaigns
        /\ writes' = writes \cup
             {Started(p, i, "action", 0, 0),
              Started(p, i, "campaign", log["participation"][i].id, NextIndex(log["participation"][i].id)),
              Started(p, i, "document", log["participation"][i].id, NextIndex(log["participation"][i].id))}
  BY DEF StartParticipation
<1> DEFINE id == log["participation"][i].id
<1> DEFINE value == NextIndex(id)
<1>3. id \in Nat
  BY <1>1, CurrentIs DEF Action, Number
<1>4. value \in Nat /\ value # 0
  <2>1. campaigns[id].counter \in Nat
    BY <1>2 DEF IInv, DocumentsRight, CampaignsRight
  <2> QED
    BY <2>1 DEF NextIndex
<1>6. id = log["participation"][i].id /\ id \in DOMAIN campaigns
  BY <1>2
<1> HIDE DEF id, value
<1>7. ASSUME NEW w, w = Started(p, i, "action", 0, 0) PROVE WriteRight(w)'
  <2>1. /\ w \in Writing /\ w.service = "participation" /\ w.what = "action"
        /\ w.action \in DOMAIN log[w.service]
    BY <1>1, <1>7, StartedIs
  <2> QED
    BY <1>1, <2>1, StartedRight
<1>8. ASSUME NEW w, w = Started(p, i, "campaign", id, value) PROVE WriteRight(w)'
  <2>1. /\ w \in Writing /\ w.service = "participation" /\ w.what = "campaign" /\ w.id = id
        /\ w.action \in DOMAIN log[w.service]
    BY <1>1, <1>3, <1>4, <1>8, StartedIs
  <2> QED
    BY <1>1, <1>6, <2>1, StartedRight
<1>9. ASSUME NEW w, w = Started(p, i, "document", id, value) PROVE WriteRight(w)'
  <2>1. /\ w \in Writing /\ w.service = "participation" /\ w.what = "document"
        /\ w.id = id /\ w.value = value
        /\ w.action \in DOMAIN log[w.service] /\ ActionOf(w) = log["participation"][i]
    BY <1>1, <1>3, <1>4, <1>9, StartedIs
  <2> QED
    BY <1>1, <1>4, <1>6, <2>1, StartedRight
<1>10. MemoryRight'
  BY <1>1 DEF IInv, MemoryRight, memory
<1>11. \A v \in writes' : v \in writes \/ WriteRight(v)'
  BY <1>2, <1>7, <1>8, <1>9 DEF id, value
<1> QED
  BY <1>1, <1>10, <1>11, StartInv

LEMMA FailsInv ==
  ASSUME IInv, NEW p \in Pass, ClaimFails(p) \/ ParticipationFails(p) \/ Throw(p)
  PROVE  IInv'
<1>1. PICK failed : Abandon(p, failed)
  BY DEF ClaimFails, ParticipationFails, Throw
<1>2. disturbed' \in 0 .. MaxDisturbed + 1
  BY PlatformAssumption DEF ClaimFails, ParticipationFails, Throw, Disturbed, IInv
<1> QED
  BY <1>1, <1>2, AbandonIs DEF IInv

LEMMA CrashInv ==
  ASSUME IInv, Crash
  PROVE  IInv'
<1>1. UNCHANGED <<log, active, documents>> /\ writes' = {}
  BY DEF Crash
<1>2. LogRight' /\ LogGrows
  BY <1>1, SameLog DEF IInv
<1>3. ActiveRight' /\ DocumentsRight' /\ WritesRight'
  BY <1>1, <1>2, SameDocuments DEF IInv, ActiveRight, documents, DocumentsRight, WritesRight
<1>4. MemoryRight'
  <2>1. \A s \in Service : Len(log[s]) \in Nat
    BY LogIs DEF IInv
  <2> QED
    BY <1>1, <2>1 DEF Crash, MemoryRight
<1>5. PassesRight'
  BY IdleIs DEF Crash, PassesRight, PassRight
<1>6. disturbed' \in 0 .. MaxDisturbed + 1
  BY PlatformAssumption DEF Crash, Disturbed, IInv
<1> QED
  BY <1>2, <1>3, <1>4, <1>5, <1>6 DEF IInv

\* A write takes effect: what it changes is a document or a mark.
LEMMA AwaitedIs ==
  ASSUME IInv, NEW w \in writes, Awaited(w)
  PROVE  /\ log' = log /\ disturbed' = disturbed /\ writes' = writes \ {w}
         /\ LogRight' /\ LogGrows /\ MemoryRight' /\ PassesRight'
         /\ DocumentsStay => WritesRight'
<1>1. log' = log /\ disturbed' = disturbed /\ writes' = writes \ {w}
  BY DEF Awaited
<1>2. LogRight' /\ LogGrows
  BY <1>1, SameLog DEF IInv
<1>3. MemoryRight' /\ PassesRight'
  <2>1. CASE UNCHANGED <<pass, memory>>
    BY <1>1, <1>2, <2>1, PassesStay DEF IInv, MemoryRight, memory
  <2>2. CASE /\ w.pass \in Pass
             /\ Proceed(w.pass, pass[w.pass].actions \ {w.action}, nextId[w.service])
    <3>1. nextId[w.service] \in Nat
      BY DEF IInv, MemoryRight, WritesRight, WriteRight, Writing
    <3>2. pass[w.pass].actions \ {w.action} \in SUBSET DOMAIN log[pass[w.pass].service]
      BY <2>2 DEF IInv, PassesRight, PassRight
    <3> QED
      BY <1>1, <2>2, <3>1, <3>2, ProceedIs
  <2> QED
    BY <2>1, <2>2 DEF Awaited
<1>4. ASSUME DocumentsStay PROVE WritesRight'
  BY <1>1, <1>2, <1>4, SameWrites DEF IInv
<1> QED
  BY <1>1, <1>2, <1>3, <1>4

LEMMA AwaitedInv ==
  ASSUME IInv, NEW w \in writes, Awaited(w), DocumentsStay, DocumentsRight', ActiveRight'
  PROVE  IInv'
BY AwaitedIs DEF IInv

LEMMA WriteIs ==
  ASSUME IInv, NEW w \in writes
  PROVE  /\ WriteRight(w) /\ w.service \in Service /\ w.action \in DOMAIN log[w.service]
         /\ w.action \in Nat /\ w.action # 0 /\ w.id \in Nat /\ w.value \in Nat
         /\ ActionOf(w) \in Action /\ ActionOf(w).kind \in Kinds(w.service)
<1>1. /\ WriteRight(w) /\ w.service \in Service /\ w.action \in DOMAIN log[w.service]
      /\ w.id \in Nat /\ w.value \in Nat
  BY DEF IInv, WritesRight, WriteRight, Writing
<1>2. ActionOf(w).kind \in Kinds(w.service)
  BY <1>1 DEF IInv, LogRight, Legal, ActionOf
<1> QED
  BY <1>1, <1>2, LogIs DEF IInv, ActionOf

LEMMA WriteActionInv ==
  ASSUME IInv, NEW w \in writes, WriteAction(w)
  PROVE  IInv'
<1>1. Awaited(w) /\ UNCHANGED documents /\ active' = [active EXCEPT ![w.service] = @ \cup {w.action}]
  BY DEF WriteAction
<1>2. log' = log /\ LogGrows
  BY <1>1, AwaitedIs
<1>3. ActiveRight'
  BY <1>1, <1>2, WriteIs DEF IInv, ActiveRight
<1>4. DocumentsRight' /\ DocumentsStay
  BY <1>1, <1>2, SameDocuments DEF documents, DocumentsRight, DocumentsStay
<1> QED
  BY <1>1, <1>3, <1>4, AwaitedInv

LEMMA WriteCounterInv ==
  ASSUME IInv, NEW w \in writes, WriteCounter(w)
  PROVE  IInv'
<1>1. /\ Awaited(w) /\ UNCHANGED <<active, projects, participations, fundings>>
      /\ campaigns' = [campaigns EXCEPT ![w.id].counter = w.value]
  BY DEF WriteCounter
<1>2. log' = log /\ LogGrows
  BY <1>1, AwaitedIs
<1>3. ActiveRight'
  BY <1>1, <1>2 DEF IInv, ActiveRight
<1>4. /\ w.value \in Nat /\ DOMAIN campaigns \subseteq Nat
      /\ \A id \in DOMAIN campaigns :
           campaigns[id] \in [action : {0} \cup Are("campaign", {"create"}),
                              counter : Nat, state : {"notEnded", "complete", "abort"}]
  BY WriteIs DEF IInv, DocumentsRight, CampaignsRight
<1>5. CampaignsRight'
  <2>1. Are("campaign", {"create"})' = Are("campaign", {"create"})
    BY <1>2 DEF Are
  <2>2. DOMAIN campaigns' = DOMAIN campaigns
    BY <1>1
  <2>3. ASSUME NEW id \in DOMAIN campaigns
        PROVE  campaigns'[id] \in [action : {0} \cup Are("campaign", {"create"}),
                                   counter : Nat, state : {"notEnded", "complete", "abort"}]
    BY <1>1, <1>4
  <2> QED
    BY <1>4, <2>1, <2>2, <2>3 DEF CampaignsRight
<1>6. DocumentsRight' /\ DocumentsStay
  BY <1>1, <1>2, <1>5, SameDocuments DEF DocumentsRight, DocumentsStay
<1> QED
  BY <1>1, <1>3, <1>6, AwaitedInv

LEMMA WriteProjectInv ==
  ASSUME IInv, NEW w \in writes, WriteProject(w)
  PROVE  IInv'
<1> DEFINE doc == Document(projects, w.id, NewProject)
<1> DEFINE new == IF log["project"][w.action].kind = "create"
                  THEN [doc EXCEPT !.create = w.action]
                  ELSE [doc EXCEPT !.update = w.action]
<1>1. /\ Awaited(w) /\ UNCHANGED <<active, campaigns, participations, fundings>>
      /\ projects' = Upsert(projects, w.id, new) /\ w.service = "project"
  BY DEF WriteProject
<1>2. log' = log /\ LogGrows
  BY <1>1, AwaitedIs
<1>3. ActiveRight'
  BY <1>1, <1>2 DEF IInv, ActiveRight
<1>4. /\ w.id \in Nat /\ w.action \in DOMAIN log["project"]
      /\ log["project"][w.action].kind \in {"create", "update"}
  BY <1>1, WriteIs DEF ActionOf, Kinds
<1>5. doc \in [create : {0} \cup Are("project", {"create"}), update : {0} \cup Are("project", {"update"})]
  BY DEF Document, NewProject, IInv, DocumentsRight, ProjectsRight
<1>6. new \in [create : {0} \cup Are("project", {"create"}), update : {0} \cup Are("project", {"update"})]
  BY <1>4, <1>5 DEF Are
<1> HIDE DEF doc, new
<1>7. ProjectsRight'
  <2>1. /\ Are("project", {"create"})' = Are("project", {"create"})
        /\ Are("project", {"update"})' = Are("project", {"update"})
    BY <1>2 DEF Are
  <2>2. /\ DOMAIN projects' = DOMAIN projects \cup {w.id} /\ projects'[w.id] = new
        /\ \A k \in DOMAIN projects : k # w.id => projects'[k] = projects[k]
    BY <1>1 DEF Upsert
  <2> QED
    BY <1>4, <1>6, <2>1, <2>2 DEF IInv, DocumentsRight, ProjectsRight
<1>8. DocumentsRight' /\ DocumentsStay
  BY <1>1, <1>2, <1>7, SameDocuments DEF DocumentsRight, DocumentsStay
<1> QED
  BY <1>1, <1>3, <1>8, AwaitedInv

LEMMA WriteFundingInv ==
  ASSUME IInv, NEW w \in writes, WriteFunding(w)
  PROVE  IInv'
<1> DEFINE doc == Document(fundings, w.id, NewFunding)
<1> DEFINE new == IF log["funding"][w.action].kind = "create"
                  THEN [doc EXCEPT !.action = w.action]
                  ELSE [doc EXCEPT !.refunded = TRUE]
<1>1. /\ Awaited(w) /\ UNCHANGED <<active, campaigns, projects, participations>>
      /\ fundings' = Upsert(fundings, w.id, new) /\ w.service = "funding"
  BY DEF WriteFunding
<1>2. log' = log /\ LogGrows
  BY <1>1, AwaitedIs
<1>3. ActiveRight'
  BY <1>1, <1>2 DEF IInv, ActiveRight
<1>4. w.id \in Nat /\ w.action \in DOMAIN log["funding"]
  BY <1>1, WriteIs
<1>5. doc \in [action : {0} \cup Are("funding", {"create"}), refunded : BOOLEAN]
  BY DEF Document, NewFunding, IInv, DocumentsRight, FundingsRight
<1>6. new \in [action : {0} \cup Are("funding", {"create"}), refunded : BOOLEAN]
  BY <1>4, <1>5 DEF Are
<1> HIDE DEF doc, new
<1>7. FundingsRight'
  <2>1. Are("funding", {"create"})' = Are("funding", {"create"})
    BY <1>2 DEF Are
  <2>2. /\ DOMAIN fundings' = DOMAIN fundings \cup {w.id} /\ fundings'[w.id] = new
        /\ \A k \in DOMAIN fundings : k # w.id => fundings'[k] = fundings[k]
    BY <1>1 DEF Upsert
  <2> QED
    BY <1>4, <1>6, <2>1, <2>2 DEF IInv, DocumentsRight, FundingsRight
<1>8. DocumentsRight' /\ DocumentsStay
  BY <1>1, <1>2, <1>7, SameDocuments DEF DocumentsRight, DocumentsStay
<1> QED
  BY <1>1, <1>3, <1>8, AwaitedInv

LEMMA WriteParticipationInv ==
  ASSUME IInv, NEW w \in writes, WriteParticipation(w)
  PROVE  IInv'
<1> DEFINE key == <<w.id, log["participation"][w.action].of>>
<1> DEFINE doc == Document(participations, key, NewParticipation)
<1> DEFINE new == [doc EXCEPT !.index = w.value]
<1>1. /\ Awaited(w) /\ UNCHANGED <<active, campaigns, projects, fundings>>
      /\ participations' = Upsert(participations, key, new)
      /\ w.service = "participation" /\ w.what = "document"
  BY DEF WriteParticipation
<1>2. log' = log /\ LogGrows
  BY <1>1, AwaitedIs
<1>3. ActiveRight'
  BY <1>1, <1>2 DEF IInv, ActiveRight
<1>4. w.value \in Nat /\ w.value # 0
  BY <1>1, WriteIs DEF WriteRight
<1>5. key \in Nat \X Number
  BY <1>1, WriteIs DEF ActionOf, Action
<1>6. new \in [index : Nat \ {0}, claim : {0} \cup Are("treasury", {"claim"})]
  <2>1. CASE key \in DOMAIN participations
    <3>1. doc \in [index : Nat \ {0}, claim : {0} \cup Are("treasury", {"claim"})]
      BY <2>1 DEF Document, IInv, DocumentsRight, ParticipationsRight
    <3> QED
      BY <1>4, <3>1
  <2>2. CASE key \notin DOMAIN participations
    BY <1>4, <2>2 DEF Document, NewParticipation
  <2> QED
    BY <2>1, <2>2
<1> HIDE DEF key, doc, new
<1>9. /\ DOMAIN participations' = DOMAIN participations \cup {key} /\ participations'[key] = new
      /\ \A k \in DOMAIN participations : k # key => participations'[k] = participations[k]
  BY <1>1 DEF Upsert
<1>7. ParticipationsRight'
  <2>1. Are("treasury", {"claim"})' = Are("treasury", {"claim"})
    BY <1>2 DEF Are
  <2> QED
    BY <1>5, <1>6, <1>9, <2>1 DEF IInv, DocumentsRight, ParticipationsRight
<1>8. DocumentsRight' /\ DocumentsStay
  BY <1>1, <1>2, <1>7, <1>9, SameDocuments DEF DocumentsRight, DocumentsStay
<1> QED
  BY <1>1, <1>3, <1>8, AwaitedInv

LEMMA WriteEndInv ==
  ASSUME IInv, NEW w \in writes, WriteEnd(w)
  PROVE  IInv'
<1> DEFINE doc == Document(campaigns, w.id, NewCampaign)
<1> DEFINE new == [doc EXCEPT !.state = log["treasury"][w.action].kind]
<1>1. /\ Awaited(w) /\ UNCHANGED <<active, projects, participations, fundings>>
      /\ campaigns' = Upsert(campaigns, w.id, new)
      /\ w.service = "treasury" /\ log["treasury"][w.action].kind # "claim"
  BY DEF WriteEnd
<1>2. log' = log /\ LogGrows
  BY <1>1, AwaitedIs
<1>3. ActiveRight'
  BY <1>1, <1>2 DEF IInv, ActiveRight
<1>4. w.id \in Nat /\ log["treasury"][w.action].kind \in {"complete", "abort"}
  BY <1>1, WriteIs DEF ActionOf, Kinds
<1>5. doc \in [action : {0} \cup Are("campaign", {"create"}),
               counter : Nat, state : {"notEnded", "complete", "abort"}]
  BY DEF Document, NewCampaign, IInv, DocumentsRight, CampaignsRight
<1>6. new \in [action : {0} \cup Are("campaign", {"create"}),
               counter : Nat, state : {"notEnded", "complete", "abort"}]
  BY <1>4, <1>5
<1> HIDE DEF doc, new
<1>9. /\ DOMAIN campaigns' = DOMAIN campaigns \cup {w.id} /\ campaigns'[w.id] = new
      /\ \A k \in DOMAIN campaigns : k # w.id => campaigns'[k] = campaigns[k]
  BY <1>1 DEF Upsert
<1>7. CampaignsRight'
  <2>1. Are("campaign", {"create"})' = Are("campaign", {"create"})
    BY <1>2 DEF Are
  <2> QED
    BY <1>4, <1>6, <1>9, <2>1 DEF IInv, DocumentsRight, CampaignsRight
<1>8. DocumentsRight' /\ DocumentsStay
  BY <1>1, <1>2, <1>7, <1>9, SameDocuments DEF DocumentsRight, DocumentsStay
<1> QED
  BY <1>1, <1>3, <1>8, AwaitedInv

LEMMA WriteClaimInv ==
  ASSUME IInv, NEW w \in writes, WriteClaim(w)
  PROVE  IInv'
<1> DEFINE key == <<w.id, w.value>>
<1>1. /\ Awaited(w) /\ UNCHANGED <<active, campaigns, projects, fundings>>
      /\ participations' = [participations EXCEPT ![key].claim = w.action]
      /\ w.service = "treasury" /\ log["treasury"][w.action].kind = "claim"
  BY DEF WriteClaim
<1>2. log' = log /\ LogGrows
  BY <1>1, AwaitedIs
<1>3. ActiveRight'
  BY <1>1, <1>2 DEF IInv, ActiveRight
<1>4. w.action \in Are("treasury", {"claim"})
  BY <1>1, WriteIs DEF Are
<1> HIDE DEF key
<1>7. ParticipationsRight'
  <2>1. Are("treasury", {"claim"})' = Are("treasury", {"claim"})
    BY <1>2 DEF Are
  <2>2. ASSUME NEW k \in DOMAIN participations
        PROVE  participations'[k] \in [index : Nat \ {0}, claim : {0} \cup Are("treasury", {"claim"})]
    <3>1. participations[k] \in [index : Nat \ {0}, claim : {0} \cup Are("treasury", {"claim"})]
      BY DEF IInv, DocumentsRight, ParticipationsRight
    <3> QED
      BY <1>1, <1>4, <3>1
  <2> QED
    BY <1>1, <2>1, <2>2 DEF IInv, DocumentsRight, ParticipationsRight
<1>8. DocumentsRight' /\ DocumentsStay
  BY <1>1, <1>2, <1>7, SameDocuments DEF DocumentsRight, DocumentsStay
<1> QED
  BY <1>1, <1>3, <1>8, AwaitedInv

LEMMA StepInv == IInv /\ [Next]_vars => IInv'
<1> SUFFICES ASSUME IInv, [Next]_vars PROVE IInv'
  OBVIOUS
<1>1. ASSUME NEW s \in Service, NEW a \in Inputs(s), Reduce(s, a) PROVE IInv'
  BY <1>1, ReduceInv
<1>2. ASSUME NEW p \in Pass, Update(p) \/ Throw(p) PROVE IInv'
  <2>1. ASSUME NEW s \in Serves[p], NEW n \in 0 .. Len(log[s]), FetchState(p, s, n) PROVE IInv'
    <3>1. s \in Service
      BY PlatformAssumption
    <3> QED
      BY <2>1, <3>1, FetchStateInv
  <2> QED
    BY <1>2, <2>1, FindInv, UpsertCampaignInv, StartActionInv, StartCreateInv, StartUpdateInv,
       StartClaimInv, StartParticipationInv, FailsInv
    DEF Update
<1>3. ASSUME NEW w \in writes, Write(w) PROVE IInv'
  BY <1>3, WriteActionInv, WriteCounterInv, WriteProjectInv, WriteFundingInv,
     WriteParticipationInv, WriteEndInv, WriteClaimInv
  DEF Write
<1>4. CASE Crash
  BY <1>4, CrashInv
<1>5. CASE UNCHANGED vars
  <2>1. /\ UNCHANGED <<log, active, memory, documents, writes, pass, disturbed>>
    BY <1>5 DEF vars
  <2>2. LogRight' /\ LogGrows
    BY <2>1, SameLog DEF IInv
  <2>3. ActiveRight' /\ MemoryRight'
    BY <2>1 DEF IInv, ActiveRight, MemoryRight, memory
  <2>4. DocumentsRight' /\ WritesRight' /\ PassesRight'
    BY <2>1, <2>2, SameDocuments, SameWrites, PassesStay
    DEF documents, DocumentsRight, DocumentsStay, IInv
  <2> QED
    BY <2>1, <2>2, <2>3, <2>4 DEF IInv
<1> QED
  BY <1>1, <1>2, <1>3, <1>4, <1>5 DEF Next

(* The types are those of the documents and of what is under way: whatever *)
(* the order of the saves, a document is marked with actions of its own    *)
(* contract and kind only, a claim is written to a participation that is   *)
(* there, and the state of a campaign is one that an action gave.          *)
THEOREM TypeCorrect == Spec => []TypeOK
<1>1. Init => IInv
  BY InitInv
<1>2. IInv /\ [Next]_vars => IInv'
  BY StepInv
<1> QED
  BY <1>1, <1>2, InvTypes, PTL DEF Spec

-----------------------------------------------------------------------------
(***************************************************************************)
(* What is lost stays lost.                                                *)
(***************************************************************************)

\* Of what one step puts under way.
StepIs ==
  /\ LogGrows /\ \A s \in Service : active[s] \subseteq active'[s]
  /\ \A v \in writes' : \/ \E w \in writes : SameWrite(v, w)
                        \/ \E p \in Pass : /\ v.service = pass[p].service
                                           /\ v.action \in pass[p].actions
  /\ \A p \in Pass : \A i \in pass'[p].actions :
       /\ pass'[p].service = pass[p].service
       /\ i \in pass[p].actions \/ i \notin active[pass[p].service]

\* A pass proceeds with some of what it had, or with what is not active.
LEMMA ProceedStep ==
  ASSUME IInv, NEW p \in Pass, NEW ids \in SUBSET DOMAIN log[pass[p].service], NEW next \in Nat,
         Proceed(p, ids, next), log' = log, \A s \in Service : active[s] \subseteq active'[s],
         \A i \in ids : i \in pass[p].actions \/ i \notin active[pass[p].service],
         writes' \subseteq writes
  PROVE  StepIs
<1>1. \A q \in Pass : \A i \in pass'[q].actions :
        /\ pass'[q].service = pass[q].service
        /\ i \in pass[q].actions \/ i \notin active[pass[q].service]
  BY ProceedIs, IdleIs
<1>2. \A v \in writes' : \E w \in writes : SameWrite(v, w)
  BY DEF SameWrite
<1>3. LogGrows
  BY SameLog DEF IInv
<1> QED
  BY <1>1, <1>2, <1>3 DEF StepIs

\* A pass starts writes of its actions.
LEMMA StartStep ==
  ASSUME IInv, NEW p \in Pass, NEW label \in PC, Goto(p, label), UNCHANGED <<log, active>>,
         \A v \in writes' : \/ v \in writes
                            \/ v.service = pass[p].service /\ v.action \in Current(p)
  PROVE  StepIs
<1>1. \A q \in Pass : pass'[q].service = pass[q].service /\ pass'[q].actions = pass[q].actions
  BY GotoIs DEF IInv
<1>2. \A v \in writes' : \/ \E w \in writes : SameWrite(v, w)
                         \/ v.service = pass[p].service /\ v.action \in pass[p].actions
  BY DEF SameWrite, Current
<1>3. LogGrows
  BY SameLog DEF IInv
<1> QED
  BY <1>1, <1>2, <1>3 DEF StepIs

LEMMA AbandonStep ==
  ASSUME IInv, NEW p \in Pass, NEW failed, Abandon(p, failed)
  PROVE  StepIs
<1>1. /\ pass'[p] = Idle /\ \A q \in Pass \ {p} : pass'[q] = pass[q]
      /\ \A v \in writes' : \E w \in writes : SameWrite(v, w)
      /\ UNCHANGED <<log, active>>
  BY AbandonIs
<1>2. LogGrows
  BY <1>1, SameLog DEF IInv
<1> QED
  BY <1>1, <1>2, IdleIs DEF StepIs

LEMMA AwaitedStep ==
  ASSUME IInv, NEW w \in writes, Awaited(w), \A s \in Service : active[s] \subseteq active'[s]
  PROVE  StepIs
<1>1. log' = log /\ writes' \subseteq writes
  BY DEF Awaited
<1>2. CASE UNCHANGED <<pass, memory>>
  <2>1. LogGrows
    BY <1>1, SameLog DEF IInv
  <2>2. \A v \in writes' : \E x \in writes : SameWrite(v, x)
    BY <1>1 DEF SameWrite
  <2> QED
    BY <1>2, <2>1, <2>2 DEF StepIs
<1>3. CASE /\ w.pass \in Pass
           /\ Proceed(w.pass, pass[w.pass].actions \ {w.action}, nextId[w.service])
  <2>1. nextId[w.service] \in Nat
    BY DEF IInv, MemoryRight, WritesRight, WriteRight, Writing
  <2>2. pass[w.pass].actions \ {w.action} \in SUBSET DOMAIN log[pass[w.pass].service]
    BY <1>3 DEF IInv, PassesRight, PassRight
  <2> QED
    BY <1>1, <1>3, <2>1, <2>2, ProceedStep
<1> QED
  BY <1>2, <1>3 DEF Awaited

LEMMA FindStep ==
  ASSUME IInv, NEW p \in Pass, Find(p) \/ FindNothing(p) \/ SaveAction(p)
  PROVE  StepIs
<1>0. /\ pass[p].service \in Service /\ pass[p].actions \in SUBSET DOMAIN log[pass[p].service]
      /\ nextId[pass[p].service] \in Nat
  BY DEF IInv, PassesRight, PassRight, Passing, MemoryRight
<1>1. CASE Find(p)
  <2>1. NotActive(pass[p].service) \in SUBSET DOMAIN log[pass[p].service]
    <3>1. /\ actionState[pass[p].service] \in 0 .. Len(log[pass[p].service])
          /\ DOMAIN log[pass[p].service] = 1 .. Len(log[pass[p].service])
          /\ Len(log[pass[p].service]) \in Nat
      BY <1>0, LogIs DEF IInv, MemoryRight
    <3> QED
      BY <3>1 DEF NotActive
  <2>2. \A i \in NotActive(pass[p].service) : i \notin active[pass[p].service]
    BY DEF NotActive
  <2> QED
    BY <1>0, <1>1, <2>1, <2>2, ProceedStep DEF Find
<1>2. CASE FindNothing(p)
  BY <1>0, <1>2, ProceedStep DEF FindNothing, Return
<1>3. CASE SaveAction(p)
  <2>1. pass[p].service = "campaign" /\ nextId["campaign"] + 1 \in Nat
    BY <1>0, <1>3 DEF SaveAction, In
  <2>2. \A s \in Service : active[s] \subseteq active'[s]
    BY <1>3 DEF SaveAction, IInv, ActiveRight
  <2>3. /\ pass[p].actions \ Current(p) \in SUBSET DOMAIN log[pass[p].service]
        /\ \A i \in pass[p].actions \ Current(p) : i \in pass[p].actions
    BY <1>0
  <2> QED
    BY <1>3, <2>1, <2>2, <2>3, ProceedStep DEF SaveAction, documents
<1> QED
  BY <1>1, <1>2, <1>3

LEMMA ServeStep ==
  ASSUME IInv, NEW p \in Pass,
         \/ UpsertCampaign(p) \/ StartAction(p) \/ StartCreate(p) \/ StartUpdate(p)
         \/ StartClaim(p) \/ StartParticipation(p)
  PROVE  StepIs
<1>0. {"saveAction", "document", "await"} \subseteq PC
  BY DEF PC
<1>1. CASE UpsertCampaign(p)
  BY <1>0, <1>1, StartStep DEF UpsertCampaign
<1>2. CASE StartAction(p)
  <2>1. PICK i \in Current(p) : writes' = writes \cup {Started(p, i, "action", 0, 0)}
    BY <1>2 DEF StartAction
  <2>2. \A v \in writes' : v \in writes \/ (v.service = pass[p].service /\ v.action \in Current(p))
    BY <2>1 DEF Started
  <2> QED
    BY <1>0, <1>2, <2>2, StartStep DEF StartAction
<1>3. CASE StartCreate(p)
  <2>1. PICK i \in Current(p) :
          writes' = writes \cup {Started(p, i, "document", nextId[pass[p].service], 0)}
    BY <1>3 DEF StartCreate
  <2>2. \A v \in writes' : v \in writes \/ (v.service = pass[p].service /\ v.action \in Current(p))
    BY <2>1 DEF Started
  <2> QED
    BY <1>0, <1>3, <2>2, StartStep DEF StartCreate
<1>4. CASE StartUpdate(p)
  <2>1. PICK i \in Current(p) :
          writes' = writes \cup {Started(p, i, "document", log[pass[p].service][i].id, 0)}
    BY <1>4 DEF StartUpdate
  <2>2. \A v \in writes' : v \in writes \/ (v.service = pass[p].service /\ v.action \in Current(p))
    BY <2>1 DEF Started
  <2> QED
    BY <1>0, <1>4, <2>2, StartStep DEF StartUpdate
<1>5. CASE StartClaim(p)
  <2>1. PICK i \in Current(p) : \E k \in ClaimedBy(log[pass[p].service][i]) :
          writes' = writes \cup {Started(p, i, "document", log[pass[p].service][i].id, k[2])}
    BY <1>5 DEF StartClaim
  <2>2. \A v \in writes' : v \in writes \/ (v.service = pass[p].service /\ v.action \in Current(p))
    BY <2>1 DEF Started
  <2> QED
    BY <1>0, <1>5, <2>2, StartStep DEF StartClaim
<1>6. CASE StartParticipation(p)
  <2>1. PICK i \in Current(p) :
          writes' = writes \cup
            {Started(p, i, "action", 0, 0),
             Started(p, i, "campaign", log["participation"][i].id, NextIndex(log["participation"][i].id)),
             Started(p, i, "document", log["participation"][i].id, NextIndex(log["participation"][i].id))}
    BY <1>6 DEF StartParticipation
  <2>2. \A v \in writes' : v \in writes \/ (v.service = pass[p].service /\ v.action \in Current(p))
    BY <2>1 DEF Started
  <2> QED
    BY <1>0, <1>6, <2>2, StartStep DEF StartParticipation
<1> QED
  BY <1>1, <1>2, <1>3, <1>4, <1>5, <1>6

LEMMA WriteStep ==
  ASSUME IInv, NEW w \in writes, Write(w)
  PROVE  StepIs
<1>1. Awaited(w)
  BY DEF Write, WriteAction, WriteCounter, WriteProject, WriteFunding, WriteParticipation,
         WriteEnd, WriteClaim
<1>2. active' = active \/ active' = [active EXCEPT ![w.service] = @ \cup {w.action}]
  BY DEF Write, WriteAction, WriteCounter, WriteProject, WriteFunding, WriteParticipation,
         WriteEnd, WriteClaim
<1>3. \A s \in Service : active[s] \subseteq active'[s]
  BY <1>2 DEF IInv, ActiveRight
<1> QED
  BY <1>1, <1>3, AwaitedStep

LEMMA OtherStep ==
  ASSUME IInv, \/ \E s \in Service : \E a \in Inputs(s) : Reduce(s, a)
               \/ \E p \in Pass : \E s \in Service : \E n \in 0 .. Len(log[s]) : FetchState(p, s, n)
               \/ Crash \/ UNCHANGED vars
  PROVE  StepIs
<1>0. \A w \in writes : SameWrite(w, w)
  BY DEF SameWrite
<1>1. CASE \E s \in Service : \E a \in Inputs(s) : Reduce(s, a)
  <2>1. LogGrows
    BY <1>1, ReduceIs DEF IInv
  <2> QED
    BY <1>0, <1>1, <2>1 DEF Reduce, StepIs
<1>2. CASE \E p \in Pass : \E s \in Service : \E n \in 0 .. Len(log[s]) : FetchState(p, s, n)
  <2>1. PICK p \in Pass, s \in Service : \E n \in 0 .. Len(log[s]) : FetchState(p, s, n)
    BY <1>2
  <2>2. /\ UNCHANGED <<log, active, documents, writes>> /\ pass[p].pc = "idle"
        /\ pass' = [pass EXCEPT ![p].pc = "find", ![p].service = s]
    BY <2>1 DEF FetchState
  <2>3. pass \in [Pass -> Passing] /\ pass[p].actions = {}
    BY <2>2 DEF IInv, PassesRight, PassRight
  <2>4. pass'[p].actions = {} /\ \A q \in Pass \ {p} : pass'[q] = pass[q]
    BY <2>2, <2>3 DEF Passing
  <2>5. LogGrows
    BY <2>2, SameLog DEF IInv
  <2> QED
    BY <1>0, <2>2, <2>4, <2>5 DEF StepIs
<1>3. CASE Crash
  <2>1. UNCHANGED <<log, active>> /\ writes' = {} /\ \A p \in Pass : pass'[p].actions = {}
    BY <1>3, IdleIs DEF Crash
  <2>2. LogGrows
    BY <2>1, SameLog DEF IInv
  <2> QED
    BY <2>1, <2>2 DEF StepIs
<1>4. CASE UNCHANGED vars
  <2>1. UNCHANGED <<log, active, writes, pass>>
    BY <1>4 DEF vars
  <2>2. LogGrows
    BY <2>1, SameLog DEF IInv
  <2> QED
    BY <1>0, <2>1, <2>2 DEF StepIs
<1> QED
  BY <1>1, <1>2, <1>3, <1>4

LEMMA NextIsStep ==
  ASSUME IInv, [Next]_vars
  PROVE  StepIs
<1>1. ASSUME NEW p \in Pass, Update(p) \/ Throw(p) PROVE StepIs
  <2>1. CASE \E s \in Serves[p] : \E n \in 0 .. Len(log[s]) : FetchState(p, s, n)
    <3>1. Serves[p] \subseteq Service
      BY PlatformAssumption
    <3> QED
      BY <2>1, <3>1, OtherStep
  <2>2. CASE ClaimFails(p) \/ ParticipationFails(p) \/ Throw(p)
    BY <2>2, AbandonStep DEF ClaimFails, ParticipationFails, Throw
  <2>3. CASE Find(p) \/ FindNothing(p) \/ SaveAction(p)
    BY <2>3, FindStep
  <2>4. CASE \/ UpsertCampaign(p) \/ StartAction(p) \/ StartCreate(p) \/ StartUpdate(p)
             \/ StartClaim(p) \/ StartParticipation(p)
    BY <2>4, ServeStep
  <2> QED
    BY <1>1, <2>1, <2>2, <2>3, <2>4 DEF Update
<1> QED
  BY <1>1, WriteStep, OtherStep DEF Next

(* An active action that is settled stays so: no pass takes it up again. *)
LEMMA SettledStays ==
  ASSUME IInv, StepIs, NEW s \in Service, NEW i \in active[s], Settled(s, i)
  PROVE  Settled(s, i)' /\ i \in active'[s]
<1>1. \A v \in writes' : v.service = s => v.action # i
  BY DEF StepIs, Settled, SameWrite
<1>2. \A p \in Pass : pass'[p].service = s => i \notin pass'[p].actions
  BY DEF StepIs, Settled
<1> QED
  BY <1>1, <1>2 DEF Settled, StepIs

\* A contract admits one action of such kinds for each id.
LEMMA OnceIs ==
  ASSUME LogRight, NEW s \in Service, NEW i \in DOMAIN log[s], NEW h \in DOMAIN log[s],
         NEW kinds \in Once[s], {log[s][i].kind, log[s][h].kind} \subseteq kinds,
         log[s][i].id = log[s][h].id, log[s][i].of = log[s][h].of
  PROVE  i = h
BY DEF LogRight, Legal

LEMMA KindIs ==
  ASSUME LogRight, NEW s \in Service, NEW i \in DOMAIN log[s]
  PROVE  /\ log[s][i].kind \in Kinds(s)
         /\ log[s][i].of # 0 => s = "participation" \/ log[s][i].kind = "claim"
BY DEF LogRight, Legal

LEMMA SameEffect ==
  ASSUME IInv, LogGrows, UNCHANGED documents, NEW s \in Service, NEW i \in active[s]
  PROVE  Effective(s, i)' <=> Effective(s, i)
<1>1. log'[s][i] = log[s][i]
  BY DEF LogGrows, IInv, ActiveRight
<1> QED
  BY <1>1 DEF Effective, documents

LEMMA CampaignEffect ==
  ASSUME IInv, NEW p \in Pass, UpsertCampaign(p), NEW s \in Service, NEW i \in active[s],
         Settled(s, i), Effective(s, i)'
  PROVE  Effective(s, i)
<1>1. /\ UNCHANGED <<log, projects, participations, fundings>> /\ pass[p].service = "campaign"
  BY DEF UpsertCampaign, In
<1>2. PICK j \in Current(p) :
        campaigns' = Upsert(campaigns, nextId["campaign"],
                            [Document(campaigns, nextId["campaign"], NewCampaign) EXCEPT !.action = j])
  BY DEF UpsertCampaign
<1> DEFINE id == nextId["campaign"]
<1> DEFINE doc == Document(campaigns, id, NewCampaign)
<1> DEFINE new == [doc EXCEPT !.action = j]
<1>3. campaigns' = Upsert(campaigns, id, new)
  BY <1>2
<1>4. /\ id \in DOMAIN campaigns => campaigns[id].state = doc.state
      /\ id \notin DOMAIN campaigns => doc.state = "notEnded"
      /\ new.action = j /\ new.state = doc.state
  <2>1. doc \in [action : {0} \cup Are("campaign", {"create"}),
                 counter : Nat, state : {"notEnded", "complete", "abort"}]
    BY DEF Document, NewCampaign, IInv, DocumentsRight, CampaignsRight
  <2> QED
    BY <2>1 DEF Document, NewCampaign
<1> HIDE DEF id, doc, new
<1>5. /\ DOMAIN campaigns' = DOMAIN campaigns \cup {id} /\ campaigns'[id] = new
      /\ \A k \in DOMAIN campaigns : k # id => campaigns'[k] = campaigns[k]
  BY <1>3 DEF Upsert
<1>6. s = "campaign" => i # j
  BY <1>1 DEF Settled, Current
<1>7. CASE s = "campaign"
  BY <1>1, <1>4, <1>5, <1>6, <1>7 DEF Effective
<1>8. CASE s = "treasury"
  <2>1. CASE log["treasury"][i].kind = "claim"
    BY <1>1, <1>8, <2>1 DEF Effective
  <2>2. CASE log["treasury"][i].kind # "claim"
    <3>1. log["treasury"][i].kind \in {"complete", "abort"}
      BY <1>8, <2>2, KindIs DEF IInv, ActiveRight, Kinds
    <3> QED
      BY <1>1, <1>4, <1>5, <1>8, <3>1 DEF Effective
  <2> QED
    BY <2>1, <2>2
<1>9. CASE s \notin {"campaign", "treasury"}
  BY <1>1, <1>9 DEF Effective, Service
<1> QED
  BY <1>7, <1>8, <1>9

LEMMA CounterEffect ==
  ASSUME IInv, NEW w \in writes, WriteCounter(w), NEW s \in Service, NEW i \in active[s],
         Effective(s, i)'
  PROVE  Effective(s, i)
<1>1. /\ UNCHANGED <<log, projects, participations, fundings>>
      /\ campaigns' = [campaigns EXCEPT ![w.id].counter = w.value]
  BY DEF WriteCounter, Awaited
<1>2. DOMAIN campaigns' = DOMAIN campaigns
  BY <1>1
<1>3. ASSUME NEW id \in DOMAIN campaigns
      PROVE  campaigns'[id].action = campaigns[id].action /\ campaigns'[id].state = campaigns[id].state
  BY <1>1 DEF IInv, DocumentsRight, CampaignsRight
<1>7. CASE s = "campaign"
  BY <1>2, <1>3, <1>7 DEF Effective
<1>8. CASE s = "treasury"
  BY <1>1, <1>2, <1>3, <1>8 DEF Effective
<1>9. CASE s \notin {"campaign", "treasury"}
  BY <1>1, <1>9 DEF Effective, Service
<1> QED
  BY <1>7, <1>8, <1>9

LEMMA ProjectEffect ==
  ASSUME IInv, NEW w \in writes, WriteProject(w), NEW s \in Service, NEW i \in active[s],
         Settled(s, i), Effective(s, i)'
  PROVE  Effective(s, i)
<1> DEFINE doc == Document(projects, w.id, NewProject)
<1> DEFINE new == IF log["project"][w.action].kind = "create"
                  THEN [doc EXCEPT !.create = w.action]
                  ELSE [doc EXCEPT !.update = w.action]
<1>1. /\ UNCHANGED <<log, campaigns, participations, fundings>>
      /\ projects' = Upsert(projects, w.id, new) /\ w.service = "project"
  BY DEF WriteProject, Awaited
<1>2. doc \in [create : {0} \cup Are("project", {"create"}), update : {0} \cup Are("project", {"update"})]
  BY DEF Document, NewProject, IInv, DocumentsRight, ProjectsRight
<1>3. /\ new.create \in {w.action, doc.create}
      /\ doc.create # 0 => w.id \in DOMAIN projects /\ projects[w.id].create = doc.create
  BY <1>2 DEF Document, NewProject
<1> HIDE DEF doc, new
<1>4. /\ DOMAIN projects' = DOMAIN projects \cup {w.id} /\ projects'[w.id] = new
      /\ \A k \in DOMAIN projects : k # w.id => projects'[k] = projects[k]
  BY <1>1 DEF Upsert
<1>5. CASE s = "project"
  <2>1. i # w.action
    BY <1>1, <1>5 DEF Settled
  <2>2. i # 0
    BY <1>5, LogIs DEF IInv, ActiveRight
  <2> QED
    BY <1>1, <1>3, <1>4, <1>5, <2>1, <2>2 DEF Effective
<1>6. CASE s # "project"
  BY <1>1, <1>6 DEF Effective, Service
<1> QED
  BY <1>5, <1>6

LEMMA FundingEffect ==
  ASSUME IInv, NEW w \in writes, WriteFunding(w), NEW s \in Service, NEW i \in active[s],
         Settled(s, i), Effective(s, i)'
  PROVE  Effective(s, i)
<1> DEFINE doc == Document(fundings, w.id, NewFunding)
<1> DEFINE create == log["funding"][w.action].kind = "create"
<1> DEFINE new == IF create THEN [doc EXCEPT !.action = w.action] ELSE [doc EXCEPT !.refunded = TRUE]
<1>1. /\ UNCHANGED <<log, campaigns, participations, projects>>
      /\ fundings' = Upsert(fundings, w.id, new) /\ w.service = "funding" /\ w.what = "document"
  BY DEF WriteFunding, Awaited
<1>2. doc \in [action : {0} \cup Are("funding", {"create"}), refunded : BOOLEAN]
  BY DEF Document, NewFunding, IInv, DocumentsRight, FundingsRight
<1>3. /\ new.action \in {w.action, doc.action}
      /\ create => new.refunded = doc.refunded
      /\ doc.action # 0 => w.id \in DOMAIN fundings /\ fundings[w.id].action = doc.action
      /\ doc.refunded => w.id \in DOMAIN fundings /\ fundings[w.id].refunded
  BY <1>2 DEF Document, NewFunding
<1> HIDE DEF doc, new
<1>4. /\ DOMAIN fundings' = DOMAIN fundings \cup {w.id} /\ fundings'[w.id] = new
      /\ \A k \in DOMAIN fundings : k # w.id => fundings'[k] = fundings[k]
  BY <1>1 DEF Upsert
<1>5. CASE s = "funding"
  <2>1. i # w.action
    BY <1>1, <1>5 DEF Settled
  <2>2. i # 0 /\ i \in DOMAIN log["funding"]
    BY <1>5, LogIs DEF IInv, ActiveRight
  <2>3. CASE log["funding"][i].kind = "create"
    BY <1>1, <1>3, <1>4, <1>5, <2>1, <2>2, <2>3 DEF Effective
  <2>4. CASE log["funding"][i].kind # "create"
    <3>1. CASE log["funding"][i].id = w.id /\ ~ create
      <4>1. w.action \in DOMAIN log["funding"] /\ w.id = log["funding"][w.action].id
        BY <1>1, <3>1, WriteIs DEF WriteRight, ActionOf
      <4>2. /\ log["funding"][i].kind = "update" /\ log["funding"][w.action].kind = "update"
            /\ log["funding"][i].of = 0 /\ log["funding"][w.action].of = 0
        BY <2>2, <2>4, <3>1, <4>1, KindIs DEF IInv, Kinds, Service
      <4>3. {"update"} \in Once["funding"]
        BY DEF Once
      <4> QED
        BY <2>1, <2>2, <3>1, <4>1, <4>2, <4>3, OnceIs DEF IInv, Service
    <3>2. CASE log["funding"][i].id = w.id /\ create
      BY <1>1, <1>3, <1>4, <1>5, <2>4, <3>2 DEF Effective
    <3>3. CASE log["funding"][i].id # w.id
      BY <1>1, <1>4, <1>5, <2>4, <3>3 DEF Effective
    <3> QED
      BY <3>1, <3>2, <3>3
  <2> QED
    BY <2>3, <2>4
<1>6. CASE s # "funding"
  BY <1>1, <1>6 DEF Effective, Service
<1> QED
  BY <1>5, <1>6

LEMMA ParticipationEffect ==
  ASSUME IInv, NEW w \in writes, WriteParticipation(w), NEW s \in Service, NEW i \in active[s],
         Settled(s, i), Effective(s, i)'
  PROVE  Effective(s, i)
<1> DEFINE key == <<w.id, log["participation"][w.action].of>>
<1> DEFINE doc == Document(participations, key, NewParticipation)
<1> DEFINE new == [doc EXCEPT !.index = w.value]
<1>1. /\ UNCHANGED <<log, campaigns, projects, fundings>>
      /\ participations' = Upsert(participations, key, new)
      /\ w.service = "participation" /\ w.what = "document"
  BY DEF WriteParticipation, Awaited
<1>2. w.action \in DOMAIN log["participation"] /\ w.id = log["participation"][w.action].id
  BY <1>1, WriteIs DEF WriteRight, ActionOf
<1>3. /\ new.claim = doc.claim
      /\ doc.claim # 0 => key \in DOMAIN participations /\ participations[key].claim = doc.claim
  <2>1. CASE key \in DOMAIN participations
    BY <2>1 DEF Document, IInv, DocumentsRight, ParticipationsRight
  <2>2. CASE key \notin DOMAIN participations
    BY <2>2 DEF Document, NewParticipation
  <2> QED
    BY <2>1, <2>2
<1>7. key = <<w.id, log["participation"][w.action].of>>
  OBVIOUS
<1> HIDE DEF key, doc, new
<1>4. /\ DOMAIN participations' = DOMAIN participations \cup {key} /\ participations'[key] = new
      /\ \A k \in DOMAIN participations : k # key => participations'[k] = participations[k]
  BY <1>1 DEF Upsert
<1>5. CASE s = "participation"
  <2>1. i # w.action
    BY <1>1, <1>5 DEF Settled
  <2>2. i \in DOMAIN log["participation"]
    BY <1>5 DEF IInv, ActiveRight
  <2>3. log["participation"][i].kind = "create" /\ log["participation"][w.action].kind = "create"
    BY <1>2, <2>2, KindIs DEF IInv, Kinds, Service
  <2>4. {"create"} \in Once["participation"]
    BY DEF Once
  <2>5. ~ (/\ log["participation"][i].id = log["participation"][w.action].id
           /\ log["participation"][i].of = log["participation"][w.action].of)
    BY <1>2, <2>1, <2>2, <2>3, <2>4, OnceIs DEF IInv, Service
  <2>6. <<log["participation"][i].id, log["participation"][i].of>> # key
    BY <1>2, <1>7, <2>5
  <2> QED
    BY <1>1, <1>4, <1>5, <2>6 DEF Effective
<1>6. CASE s = "treasury"
  <2>1. i # 0
    BY <1>6, LogIs DEF IInv, ActiveRight
  <2> QED
    BY <1>1, <1>3, <1>4, <1>6, <2>1 DEF Effective
<1>8. CASE s \notin {"participation", "treasury"}
  BY <1>1, <1>8 DEF Effective, Service
<1> QED
  BY <1>5, <1>6, <1>8

LEMMA EndEffect ==
  ASSUME IInv, NEW w \in writes, WriteEnd(w), NEW s \in Service, NEW i \in active[s],
         Settled(s, i), Effective(s, i)'
  PROVE  Effective(s, i)
<1> DEFINE doc == Document(campaigns, w.id, NewCampaign)
<1> DEFINE new == [doc EXCEPT !.state = log["treasury"][w.action].kind]
<1>1. /\ UNCHANGED <<log, projects, participations, fundings>>
      /\ campaigns' = Upsert(campaigns, w.id, new)
      /\ w.what = "document" /\ w.service = "treasury" /\ log["treasury"][w.action].kind # "claim"
  BY DEF WriteEnd, Awaited
<1>2. w.action \in DOMAIN log["treasury"] /\ w.id = log["treasury"][w.action].id
  BY <1>1, WriteIs DEF WriteRight, ActionOf
<1>3. /\ new.action = doc.action
      /\ doc.action # 0 => w.id \in DOMAIN campaigns /\ campaigns[w.id].action = doc.action
  <2>1. CASE w.id \in DOMAIN campaigns
    BY <2>1 DEF Document, IInv, DocumentsRight, CampaignsRight
  <2>2. CASE w.id \notin DOMAIN campaigns
    BY <2>2 DEF Document, NewCampaign
  <2> QED
    BY <2>1, <2>2
<1> HIDE DEF doc, new
<1>4. /\ DOMAIN campaigns' = DOMAIN campaigns \cup {w.id} /\ campaigns'[w.id] = new
      /\ \A k \in DOMAIN campaigns : k # w.id => campaigns'[k] = campaigns[k]
  BY <1>1 DEF Upsert
<1>5. CASE s = "treasury"
  <2>1. i # w.action
    BY <1>1, <1>5 DEF Settled
  <2>2. i \in DOMAIN log["treasury"]
    BY <1>5 DEF IInv, ActiveRight
  <2>3. CASE log["treasury"][i].kind = "claim"
    BY <1>1, <1>5, <2>3 DEF Effective
  <2>4. CASE log["treasury"][i].kind # "claim"
    <3>1. /\ log["treasury"][i].kind \in {"complete", "abort"} /\ log["treasury"][i].of = 0
          /\ log["treasury"][w.action].kind \in {"complete", "abort"}
          /\ log["treasury"][w.action].of = 0
      BY <1>1, <1>2, <2>2, <2>4, KindIs DEF IInv, Kinds, Service
    <3>2. {"complete", "abort"} \in Once["treasury"]
      BY DEF Once
    <3>3. log["treasury"][i].id # w.id
      BY <1>2, <2>1, <2>2, <3>1, <3>2, OnceIs DEF IInv, Service
    <3> QED
      BY <1>1, <1>4, <1>5, <2>4, <3>3 DEF Effective
  <2> QED
    BY <2>3, <2>4
<1>6. CASE s = "campaign"
  <2>1. i # 0
    BY <1>6, LogIs DEF IInv, ActiveRight
  <2> QED
    BY <1>1, <1>3, <1>4, <1>6, <2>1 DEF Effective
<1>8. CASE s \notin {"campaign", "treasury"}
  BY <1>1, <1>8 DEF Effective, Service
<1> QED
  BY <1>5, <1>6, <1>8

LEMMA ClaimEffect ==
  ASSUME IInv, NEW w \in writes, WriteClaim(w), NEW s \in Service, NEW i \in active[s],
         Settled(s, i), Effective(s, i)'
  PROVE  Effective(s, i)
<1> DEFINE key == <<w.id, w.value>>
<1>1. /\ UNCHANGED <<log, campaigns, projects, fundings>>
      /\ participations' = [participations EXCEPT ![key].claim = w.action]
      /\ w.service = "treasury"
  BY DEF WriteClaim, Awaited
<1> HIDE DEF key
<1>2. DOMAIN participations' = DOMAIN participations
  BY <1>1
<1>3. ASSUME NEW k \in DOMAIN participations, participations'[k].claim # w.action
      PROVE  participations'[k].claim = participations[k].claim
  BY <1>1, <1>3 DEF IInv, DocumentsRight, ParticipationsRight
<1>4. s = "treasury" => i # w.action
  BY <1>1 DEF Settled
<1>5. CASE s = "treasury"
  BY <1>1, <1>2, <1>3, <1>4, <1>5 DEF Effective
<1>6. CASE s = "participation"
  <2>1. <<log["participation"][i].id, log["participation"][i].of>> \in DOMAIN participations'
    BY <1>1, <1>6 DEF Effective
  <2> QED
    BY <1>2, <1>6, <2>1 DEF Effective
<1>7. CASE s \notin {"participation", "treasury"}
  BY <1>1, <1>7 DEF Effective, Service
<1> QED
  BY <1>5, <1>6, <1>7

LEMMA OtherEffect ==
  ASSUME IInv, [Next]_vars,
         ~ \E p \in Pass : UpsertCampaign(p),
         ~ \E w \in writes : \/ WriteCounter(w) \/ WriteProject(w) \/ WriteFunding(w)
                             \/ WriteParticipation(w) \/ WriteEnd(w) \/ WriteClaim(w)
  PROVE  UNCHANGED documents
<1>1. ASSUME NEW p \in Pass, Update(p) \/ Throw(p) PROVE UNCHANGED documents
  <2>1. CASE Update(p)
    BY <2>1 DEF Update, FetchState, Find, FindNothing, SaveAction, StartAction, StartCreate,
       StartUpdate, StartClaim, ClaimFails, StartParticipation, ParticipationFails, Abandon
  <2>2. CASE Throw(p)
    BY <2>2 DEF Throw, Abandon
  <2> QED
    BY <1>1, <2>1, <2>2
<1>2. ASSUME NEW w \in writes, Write(w) PROVE UNCHANGED documents
  BY <1>2 DEF Write, WriteAction
<1>3. ASSUME NEW s \in Service, NEW a \in Inputs(s), Reduce(s, a) PROVE UNCHANGED documents
  BY <1>3 DEF Reduce
<1>4. CASE Crash \/ UNCHANGED vars
  BY <1>4 DEF Crash, vars
<1> QED
  BY <1>1, <1>2, <1>3, <1>4 DEF Next

(* What is lost is lost for ever: no later pass takes up an action that is *)
(* active, and none of another action writes the same.                     *)
THEOREM LostStaysLost == Spec => LostIsForEver
<1>1. ASSUME IInv, [Next]_vars, NEW s \in Service, NEW i \in active[s], Lost(s, i)
      PROVE  Lost(s, i)'
  <2>1. StepIs
    BY <1>1, NextIsStep
  <2>2. Settled(s, i) /\ ~ Effective(s, i)
    BY <1>1 DEF Lost
  <2>3. Settled(s, i)' /\ i \in active'[s]
    BY <1>1, <2>1, <2>2, SettledStays
  <2>4. ASSUME Effective(s, i)' PROVE FALSE
    <3>1. CASE \E p \in Pass : UpsertCampaign(p)
      BY <1>1, <2>2, <2>4, <3>1, CampaignEffect
    <3>2. CASE \E w \in writes : \/ WriteCounter(w) \/ WriteProject(w) \/ WriteFunding(w)
                                 \/ WriteParticipation(w) \/ WriteEnd(w) \/ WriteClaim(w)
      BY <1>1, <2>2, <2>4, <3>2, CounterEffect, ProjectEffect, FundingEffect, ParticipationEffect,
         EndEffect, ClaimEffect
    <3>3. CASE UNCHANGED documents
      <4>1. LogGrows
        BY <2>1 DEF StepIs
      <4> QED
        BY <1>1, <2>2, <2>4, <3>3, <4>1, SameEffect
    <3> QED
      BY <1>1, <3>1, <3>2, <3>3, OtherEffect
  <2> QED
    BY <2>2, <2>3, <2>4 DEF Lost
<1>2. IInv /\ [Next]_vars => [\A s \in Service : \A i \in active[s] : Lost(s, i) => Lost(s, i)']_vars
  BY <1>1
<1> QED
  BY <1>2, InitInv, StepInv, PTL DEF Spec, LostIsForEver

-----------------------------------------------------------------------------
(***************************************************************************)
(* As long as nothing disturbs the passes: one pass at a time is of a      *)
(* service, and all that is under way is of its first action.              *)
(***************************************************************************)
Alone ==
  \A p, q \in Pass :
    pass[p].pc # "idle" /\ pass[q].pc # "idle" /\ pass[p].service = pass[q].service => p = q

Held(w) ==
  /\ w.pass \in Pass /\ pass[w.pass].pc \in {"document", "await"}
  /\ pass[w.pass].service = w.service /\ w.action \in Current(w.pass)

Hands ==
  /\ \A w \in writes : Held(w)
  /\ \A p \in Pass : pass[p].pc = "await" => Writes(p) # {}

Control == Alone /\ Hands

\* A step that disturbs nothing.
Calm == disturbed = 0 /\ disturbed' = 0

LEMMA OnlyOne ==
  ASSUME IInv, NEW p \in Pass, NEW i \in Current(p), NEW j \in Current(p)
  PROVE  i = j
<1>1. i \in Nat /\ j \in Nat
  BY CurrentIs
<1>2. i <= j /\ j <= i
  BY DEF Current
<1> QED
  BY <1>1, <1>2

\* What is under way for a service is that of its one pass.
LEMMA OneHand ==
  ASSUME Control, NEW p \in Pass, pass[p].pc # "idle", NEW w \in writes, w.service = pass[p].service
  PROVE  w.pass = p /\ w \in Writes(p) /\ pass[p].pc \in {"document", "await"} /\ w.action \in Current(p)
<1>1. /\ w.pass \in Pass /\ pass[w.pass].pc \in {"document", "await"}
      /\ pass[w.pass].service = pass[p].service /\ w.action \in Current(w.pass)
  BY DEF Control, Hands, Held
<1>2. w.pass = p
  BY <1>1 DEF Control, Alone
<1> QED
  BY <1>1, <1>2 DEF Writes

\* A pass that has nothing under way moves, stops or begins.
LEMMA ControlMove ==
  ASSUME Control, NEW p \in Pass, pass[p].pc \notin {"document", "await"},
         \A q \in Pass \ {p} : pass'[q] = pass[q], writes' = writes,
         pass'[p].pc # "await",
         \/ pass'[p].pc = "idle"
         \/ pass[p].pc # "idle" /\ pass'[p].service = pass[p].service
         \/ \A q \in Pass \ {p} : pass[q].pc = "idle" \/ pass[q].service # pass'[p].service
  PROVE  Control'
<1>1. \A w \in writes : w.pass \in Pass \ {p}
  BY DEF Control, Hands, Held
<1>2. Alone'
  BY DEF Control, Alone
<1>3. \A w \in writes : Held(w)'
  BY <1>1 DEF Control, Hands, Held, Current
<1>4. \A q \in Pass : pass'[q].pc = "await" => Writes(q)' # {}
  BY DEF Control, Hands, Writes
<1> QED
  BY <1>2, <1>3, <1>4 DEF Control, Hands

\* A pass starts writes of its first action.
LEMMA ControlStart ==
  ASSUME Control, NEW p \in Pass, pass[p].pc # "idle",
         \A q \in Pass \ {p} : pass'[q] = pass[q],
         pass'[p].pc \in {"document", "await"}, pass'[p].service = pass[p].service,
         pass'[p].actions = pass[p].actions, writes \subseteq writes',
         \A v \in writes' : \/ v \in writes
                            \/ v.pass = p /\ v.service = pass[p].service /\ v.action \in Current(p),
         \E v \in writes' : v.pass = p
  PROVE  Control'
<1>1. Alone'
  BY DEF Control, Alone
<1>2. \A q \in Pass : Current(q)' = Current(q) /\ pass'[q].service = pass[q].service
  BY DEF Current
<1>3. \A w \in writes' : Held(w)'
  <2>1. ASSUME NEW w \in writes PROVE Held(w)'
    BY <1>2 DEF Control, Hands, Held
  <2>2. ASSUME NEW w \in writes', w \notin writes PROVE Held(w)'
    BY <1>2, <2>2 DEF Held
  <2> QED
    BY <2>1, <2>2
<1>4. \A q \in Pass : pass'[q].pc = "await" => Writes(q)' # {}
  BY DEF Control, Hands, Writes
<1> QED
  BY <1>1, <1>3, <1>4 DEF Control, Hands

\* A write takes effect, and its pass goes on if it is the last.
LEMMA ControlAwaited ==
  ASSUME IInv, Control, NEW w \in writes, Awaited(w)
  PROVE  /\ Control'
         /\ \/ pass' = pass /\ memory' = memory
            \/ /\ pass[w.pass].pc = "await" /\ Writes(w.pass) = {w}
               /\ Proceed(w.pass, pass[w.pass].actions \ {w.action}, nextId[w.service])
<1>1. /\ w.pass \in Pass /\ pass[w.pass].pc \in {"document", "await"}
      /\ pass[w.pass].service = w.service /\ w.action \in Current(w.pass)
  BY DEF Control, Hands, Held
<1>2. writes' = writes \ {w}
  BY DEF Awaited
<1>3. CASE pass[w.pass].pc = "await" /\ Writes(w.pass) = {w}
  <2>1. Proceed(w.pass, pass[w.pass].actions \ {w.action}, nextId[w.service])
    BY <1>1, <1>3 DEF Awaited
  <2>2. nextId[w.service] \in Nat /\ pass[w.pass].actions \ {w.action} \in SUBSET DOMAIN log[pass[w.pass].service]
    BY <1>1 DEF IInv, MemoryRight, PassesRight, PassRight, Passing
  <2>3. /\ \A q \in Pass \ {w.pass} : pass'[q] = pass[q]
        /\ \/ pass'[w.pass].pc = "idle"
           \/ pass'[w.pass].pc = "next" /\ pass'[w.pass].service = pass[w.pass].service
    BY <1>1, <2>1, <2>2, ProceedIs, IdleIs
  <2>4. Alone'
    BY <1>1, <2>3 DEF Control, Alone
  <2>5. \A v \in writes' : v \in writes /\ v.pass # w.pass
    BY <1>2, <1>3 DEF Writes
  <2>6. \A v \in writes' : Held(v)'
    BY <2>3, <2>5 DEF Control, Hands, Held, Current
  <2>7. ASSUME NEW q \in Pass, pass'[q].pc = "await" PROVE Writes(q)' # {}
    <3>1. q # w.pass /\ Writes(q) # {}
      BY <2>3, <2>7 DEF Control, Hands
    <3>2. PICK v \in writes : v.pass = q
      BY <3>1 DEF Writes
    <3> QED
      BY <1>2, <3>1, <3>2 DEF Writes
  <2> QED
    BY <1>3, <2>1, <2>4, <2>6, <2>7 DEF Control, Hands
<1>4. CASE ~ (pass[w.pass].pc = "await" /\ Writes(w.pass) = {w})
  <2>1. pass' = pass /\ memory' = memory
    BY <1>4 DEF Awaited
  <2>2. Alone'
    BY <2>1 DEF Control, Alone
  <2>3. \A v \in writes' : Held(v)'
    BY <1>2, <2>1 DEF Control, Hands, Held, Current
  <2>4. ASSUME NEW q \in Pass, pass'[q].pc = "await" PROVE Writes(q)' # {}
    <3>1. Writes(q) # {}
      BY <2>1, <2>4 DEF Control, Hands
    <3>2. Writes(q) # {w}
      BY <1>4, <2>1, <2>4 DEF Writes
    <3>3. PICK v \in Writes(q) : v # w
      BY <3>1, <3>2
    <3> QED
      BY <1>2, <3>3 DEF Writes
  <2> QED
    BY <2>1, <2>2, <2>3, <2>4 DEF Control, Hands
<1> QED
  BY <1>3, <1>4

\* Without a disturbance, a pass is only given up before it has put something under way.
LEMMA CalmAbandon ==
  ASSUME IInv, Control, Calm, NEW p \in Pass, ClaimFails(p) \/ ParticipationFails(p) \/ Throw(p)
  PROVE  /\ pass[p].pc \notin {"idle", "document", "await"} /\ writes' = writes /\ pass'[p] = Idle
         /\ \A q \in Pass \ {p} : pass'[q] = pass[q]
         /\ UNCHANGED <<log, active, documents>>
         /\ Proceed(p, {}, nextId[pass[p].service])
<1>1. ~ ClaimFails(p)
  BY DEF ClaimFails, Calm
<1>2. /\ pass[p].pc \notin {"idle", "document"} /\ Writes(p) = {}
      /\ \E failed \in {{}} \cup {{w} : w \in Writes(p)} : Abandon(p, failed)
  <2>1. CASE ParticipationFails(p)
    <3>1. pass[p].pc = "next" /\ Abandon(p, {})
      BY <2>1 DEF ParticipationFails, In
    <3>2. Writes(p) = {}
      BY <3>1 DEF Control, Hands, Held, Writes
    <3> QED
      BY <3>1, <3>2
  <2>2. CASE Throw(p)
    <3>1. ~ InTheMiddle(p)
      BY <2>2 DEF Throw, Disturbed, Calm
    <3> QED
      BY <2>2, <3>1 DEF Throw, InTheMiddle
  <2> QED
    BY <1>1, <2>1, <2>2
<1>3. pass[p].pc # "await"
  BY <1>2 DEF Control, Hands
<1>4. Abandon(p, {})
  BY <1>2
<1>5. writes' = writes
  <2>1. writes' = {IF w.pass = p THEN [w EXCEPT !.pass = NoPass] ELSE w : w \in writes \ {}}
    BY <1>4 DEF Abandon
  <2>2. \A w \in writes : w.pass # p
    BY <1>2 DEF Writes
  <2> QED
    BY <2>1, <2>2
<1>6. Proceed(p, {}, nextId[pass[p].service])
  BY <1>4 DEF Abandon, Return
<1> QED
  BY <1>2, <1>3, <1>4, <1>5, <1>6, AbandonIs

LEMMA CalmCrash ==
  ASSUME Calm, Crash
  PROVE  writes = {} /\ writes' = {} /\ \A p \in Pass : pass'[p] = Idle
BY DEF Calm, Crash, Disturbed

LEMMA CalmFetch ==
  ASSUME IInv, Calm, NEW p \in Pass, NEW s \in Service, NEW n \in 0 .. Len(log[s]), FetchState(p, s, n)
  PROVE  /\ pass[p].pc = "idle" /\ pass'[p].pc = "find" /\ pass'[p].service = s /\ pass'[p].actions = {}
         /\ \A q \in Pass \ {p} : pass'[q] = pass[q]
         /\ \A q \in Pass : pass[q].pc = "idle" \/ pass[q].service # s
<1>1. /\ pass[p].pc = "idle" /\ pass' = [pass EXCEPT ![p].pc = "find", ![p].service = s]
      /\ Under(s) = {}
  BY DEF FetchState, Calm, Disturbed
<1>2. pass[p] \in Passing /\ pass \in [Pass -> Passing] /\ pass[p].actions = {}
  BY <1>1 DEF IInv, PassesRight, PassRight
<1>3. /\ pass'[p].pc = "find" /\ pass'[p].service = s /\ pass'[p].actions = {}
      /\ \A q \in Pass \ {p} : pass'[q] = pass[q]
  BY <1>1, <1>2 DEF Passing
<1>4. \A q \in Pass : pass[q].pc = "idle" \/ pass[q].service # s
  BY <1>1 DEF Under
<1> QED
  BY <1>1, <1>3, <1>4

\* What a pass does that looks for actions, or goes on after the save of one.
LEMMA FindIs ==
  ASSUME IInv, NEW p \in Pass, Find(p) \/ FindNothing(p) \/ SaveAction(p)
  PROVE  /\ pass[p].pc \in {"find", "saveAction"} /\ UNCHANGED <<log, documents, writes>>
         /\ SaveAction(p) <=> pass[p].pc = "saveAction"
         /\ SaveAction(p) => pass[p].service = "campaign"
         /\ \A s \in Service : s # "campaign" => active'[s] = active[s]
         /\ \A q \in Pass \ {p} : pass'[q] = pass[q]
         /\ \/ pass'[p].pc = "idle"
            \/ /\ pass'[p].pc = "next" /\ pass'[p].service = pass[p].service
               /\ \/ SaveAction(p) /\ pass'[p].actions = pass[p].actions \ Current(p)
                  \/ Find(p) /\ pass'[p].actions = NotActive(pass[p].service)
         /\ \/ Proceed(p, pass'[p].actions, nextId[pass[p].service])
            \/ Proceed(p, pass'[p].actions, nextId[pass[p].service] + 1)
<1>0. /\ pass[p].service \in Service /\ pass[p].actions \in SUBSET DOMAIN log[pass[p].service]
      /\ nextId[pass[p].service] \in Nat /\ nextId[pass[p].service] + 1 \in Nat
  BY DEF IInv, PassesRight, PassRight, Passing, MemoryRight
<1>1. CASE Find(p)
  <2>1. NotActive(pass[p].service) \in SUBSET DOMAIN log[pass[p].service]
    <3>1. /\ actionState[pass[p].service] \in 0 .. Len(log[pass[p].service])
          /\ DOMAIN log[pass[p].service] = 1 .. Len(log[pass[p].service])
          /\ Len(log[pass[p].service]) \in Nat
      BY <1>0, LogIs DEF IInv, MemoryRight
    <3> QED
      BY <3>1 DEF NotActive
  <2>2. Proceed(p, NotActive(pass[p].service), nextId[pass[p].service]) /\ pass[p].pc = "find"
    BY <1>1 DEF Find
  <2>3. /\ \A q \in Pass \ {p} : pass'[q] = pass[q]
        /\ NotActive(pass[p].service) = {} => pass'[p] = Idle
        /\ NotActive(pass[p].service) # {} => /\ pass'[p].pc = "next" /\ pass'[p].service = pass[p].service
                                              /\ pass'[p].actions = NotActive(pass[p].service)
    BY <1>0, <2>1, <2>2, ProceedIs
  <2> QED
    BY <1>1, <2>2, <2>3, IdleIs DEF Find, SaveAction, In
<1>2. CASE FindNothing(p)
  <2>1. Proceed(p, {}, nextId[pass[p].service]) /\ pass[p].pc = "find"
    BY <1>2 DEF FindNothing, Return
  <2>2. (\A q \in Pass \ {p} : pass'[q] = pass[q]) /\ pass'[p] = Idle
    BY <1>0, <2>1, ProceedIs
  <2> QED
    BY <1>2, <2>1, <2>2, IdleIs DEF FindNothing, SaveAction, In
<1>3. CASE SaveAction(p)
  <2>1. pass[p].service = "campaign" /\ pass[p].pc = "saveAction"
    BY <1>3 DEF SaveAction, In
  <2>2. Proceed(p, pass[p].actions \ Current(p), nextId[pass[p].service] + 1)
    BY <1>3, <2>1 DEF SaveAction
  <2>3. pass[p].actions \ Current(p) \in SUBSET DOMAIN log[pass[p].service]
    BY <1>0
  <2>4. /\ \A q \in Pass \ {p} : pass'[q] = pass[q]
        /\ pass[p].actions \ Current(p) = {} => pass'[p] = Idle
        /\ pass[p].actions \ Current(p) # {} => /\ pass'[p].pc = "next" /\ pass'[p].service = pass[p].service
                                                /\ pass'[p].actions = pass[p].actions \ Current(p)
    BY <1>0, <2>2, <2>3, ProceedIs
  <2>5. \A s \in Service : s # "campaign" => active'[s] = active[s]
    BY <1>3 DEF SaveAction, IInv, ActiveRight
  <2> QED
    BY <1>3, <2>1, <2>2, <2>4, <2>5, IdleIs DEF SaveAction
<1> QED
  BY <1>1, <1>2, <1>3

\* What a pass does that puts writes under way.
Starts(p) ==
  StartAction(p) \/ StartCreate(p) \/ StartUpdate(p) \/ StartClaim(p) \/ StartParticipation(p)

LEMMA StartedHas ==
  ASSUME NEW p, NEW i, NEW what, NEW id, NEW value
  PROVE  /\ Started(p, i, what, id, value).pass = p
         /\ Started(p, i, what, id, value).service = pass[p].service
         /\ Started(p, i, what, id, value).action = i
BY DEF Started

LEMMA StartsAre ==
  ASSUME IInv, NEW p \in Pass, Starts(p)
  PROVE  /\ UNCHANGED <<log, active, actionState, documents, disturbed>>
         /\ pass[p].pc \in {"next", "document"}
         /\ pass'[p].pc = IF StartAction(p) THEN "document" ELSE "await"
         /\ StartAction(p) \/ StartParticipation(p) <=> pass[p].pc = "next"
         /\ StartParticipation(p) <=> pass[p].service = "participation"
         /\ pass[p].service # "campaign"
         /\ \A q \in Pass \ {p} : pass'[q] = pass[q]
         /\ pass'[p].service = pass[p].service /\ pass'[p].actions = pass[p].actions
         /\ writes \subseteq writes'
         /\ \A v \in writes' : \/ v \in writes
                               \/ v.pass = p /\ v.service = pass[p].service /\ v.action \in Current(p)
         /\ \E v \in writes' : v.pass = p
<1> DEFINE New(v) == v.pass = p /\ v.service = pass[p].service /\ v.action \in Current(p)
<1>0. {"document", "await"} \subseteq PC /\ PassesRight
  BY DEF PC, IInv
<1>1. CASE StartAction(p)
  <2>1. PICK i \in Current(p) : writes' = writes \cup {Started(p, i, "action", 0, 0)}
    BY <1>1 DEF StartAction
  <2>2. (\A v \in writes' : v \in writes \/ New(v)) /\ \E v \in writes' : v.pass = p
    BY <2>1, StartedHas
  <2>3. Goto(p, "document") /\ ~ StartParticipation(p)
    BY <1>1 DEF StartAction, StartParticipation, In
  <2> QED
    BY <1>0, <1>1, <2>1, <2>2, <2>3, GotoIs DEF StartAction, memory
<1>2. CASE StartCreate(p) \/ StartUpdate(p) \/ StartClaim(p)
  <2>1. PICK i \in Current(p) : \E id, value : writes' = writes \cup {Started(p, i, "document", id, value)}
    BY <1>2 DEF StartCreate, StartUpdate, StartClaim
  <2>5. PICK id, value : writes' = writes \cup {Started(p, i, "document", id, value)}
    BY <2>1
  <2>2. (\A v \in writes' : v \in writes \/ New(v)) /\ \E v \in writes' : v.pass = p
    BY <2>5, StartedHas
  <2>3. /\ Goto(p, "await") /\ pass[p].pc = "document" /\ ~ StartAction(p) /\ ~ StartParticipation(p)
        /\ UNCHANGED <<log, active, actionState, documents, disturbed>>
    BY <1>2 DEF StartCreate, StartUpdate, StartClaim, StartAction, StartParticipation, In, memory
  <2>4. pass[p].service \in {"project", "funding", "treasury"}
    BY <2>3 DEF IInv, PassesRight, PassRight
  <2> QED
    BY <1>0, <2>1, <2>2, <2>3, <2>4, GotoIs
<1>3. CASE StartParticipation(p)
  <2>1. PICK i \in Current(p) : \E id, value :
          writes' = writes \cup {Started(p, i, "action", 0, 0), Started(p, i, "campaign", id, value),
                                 Started(p, i, "document", id, value)}
    BY <1>3 DEF StartParticipation
  <2>5. PICK id, value :
          writes' = writes \cup {Started(p, i, "action", 0, 0), Started(p, i, "campaign", id, value),
                                 Started(p, i, "document", id, value)}
    BY <2>1
  <2>2. (\A v \in writes' : v \in writes \/ New(v)) /\ \E v \in writes' : v.pass = p
    BY <2>5, StartedHas
  <2>3. Goto(p, "await") /\ ~ StartAction(p)
    BY <1>3 DEF StartAction, StartParticipation, In
  <2> QED
    BY <1>0, <1>3, <2>1, <2>2, <2>3, GotoIs DEF StartParticipation, In, memory
<1> QED
  BY <1>1, <1>2, <1>3 DEF Starts

LEMMA CampaignIs ==
  ASSUME IInv, NEW p \in Pass, UpsertCampaign(p)
  PROVE  /\ UNCHANGED <<log, active, memory, projects, participations, fundings, writes, disturbed>>
         /\ pass[p].pc = "next" /\ pass[p].service = "campaign"
         /\ \A q \in Pass \ {p} : pass'[q] = pass[q]
         /\ pass'[p].pc = "saveAction" /\ pass'[p].service = pass[p].service
         /\ pass'[p].actions = pass[p].actions
<1>1. Goto(p, "saveAction") /\ PassesRight /\ "saveAction" \in PC
  BY DEF UpsertCampaign, IInv, PC
<1> QED
  BY <1>1, GotoIs DEF UpsertCampaign, In

\* The steps that there are without a disturbance.
CalmSteps ==
  \/ \E s \in Service : \E a \in Inputs(s) : Reduce(s, a)
  \/ \E p \in Pass : \E s \in Service : \E n \in 0 .. Len(log[s]) : FetchState(p, s, n)
  \/ \E p \in Pass : Find(p) \/ FindNothing(p) \/ SaveAction(p)
  \/ \E p \in Pass : UpsertCampaign(p)
  \/ \E p \in Pass : Starts(p)
  \/ \E p \in Pass : ClaimFails(p) \/ ParticipationFails(p) \/ Throw(p)
  \/ \E w \in writes : Write(w)
  \/ Crash
  \/ UNCHANGED vars

LEMMA StepsAre ==
  ASSUME [Next]_vars
  PROVE  CalmSteps
<1>1. ASSUME NEW p \in Pass, Update(p) \/ Throw(p) PROVE CalmSteps
  <2>1. ASSUME NEW s \in Serves[p], NEW n \in 0 .. Len(log[s]), FetchState(p, s, n) PROVE CalmSteps
    <3>1. s \in Service
      BY PlatformAssumption
    <3> QED
      BY <2>1, <3>1 DEF CalmSteps
  <2> QED
    BY <1>1, <2>1 DEF Update, CalmSteps, Starts
<1> QED
  BY <1>1 DEF Next, CalmSteps

LEMMA WriteAwaits ==
  ASSUME NEW w, Write(w)
  PROVE  Awaited(w)
BY DEF Write, WriteAction, WriteCounter, WriteProject, WriteFunding, WriteParticipation, WriteEnd, WriteClaim

LEMMA ControlInv ==
  ASSUME IInv, Control, Calm, [Next]_vars
  PROVE  Control'
<1>1. CASE \E s \in Service : \E a \in Inputs(s) : Reduce(s, a)
  <2>1. pass' = pass /\ writes' = writes
    BY <1>1 DEF Reduce
  <2> QED
    BY <2>1 DEF Control, Alone, Hands, Held, Current, Writes
<1>2. ASSUME NEW p \in Pass, NEW s \in Service, NEW n \in 0 .. Len(log[s]), FetchState(p, s, n) PROVE Control'
  <2>1. writes' = writes
    BY <1>2 DEF FetchState
  <2> QED
    BY <1>2, <2>1, CalmFetch, ControlMove
<1>3. ASSUME NEW p \in Pass, Find(p) \/ FindNothing(p) \/ SaveAction(p) PROVE Control'
  BY <1>3, FindIs, ControlMove
<1>4. ASSUME NEW p \in Pass, UpsertCampaign(p) PROVE Control'
  BY <1>4, CampaignIs, ControlMove
<1>5. ASSUME NEW p \in Pass, Starts(p) PROVE Control'
  BY <1>5, StartsAre, ControlStart
<1>6. ASSUME NEW p \in Pass, ClaimFails(p) \/ ParticipationFails(p) \/ Throw(p) PROVE Control'
  BY <1>6, CalmAbandon, ControlMove, IdleIs
<1>7. ASSUME NEW w \in writes, Write(w) PROVE Control'
  BY <1>7, WriteAwaits, ControlAwaited
<1>8. CASE Crash
  BY <1>8, CalmCrash, IdleIs DEF Control, Alone, Hands
<1>9. CASE UNCHANGED vars
  <2>1. pass' = pass /\ writes' = writes
    BY <1>9 DEF vars
  <2> QED
    BY <2>1 DEF Control, Alone, Hands, Held, Current, Writes
<1> QED
  BY <1>1, <1>2, <1>3, <1>4, <1>5, <1>6, <1>7, <1>8, <1>9, StepsAre DEF CalmSteps

-----------------------------------------------------------------------------
(***************************************************************************)
(* Ids are ahead: the next id is at least that which the contract had      *)
(* given when it was asked, and it had reduced all that is taken up.       *)
(***************************************************************************)
Counting == {"campaign", "project", "funding"}

Numbered ==
  \A p \in Pass : pass[p].pc # "idle" =>
    /\ pass[p].service \in Counting =>
         nextId[pass[p].service] >= NextId(pass[p].service, actionState[pass[p].service])
    /\ pass[p].actions \subseteq 1 .. actionState[pass[p].service]

AheadWrite(w) ==
  w.what = "document" /\ w.service \in Counting /\ ActionOf(w).kind = "create" =>
    w.id > OwnId(w.service, w.action)

Ahead == IdsAreAhead /\ \A w \in writes : AheadWrite(w)

LEMMA CountsStay ==
  ASSUME LogRight, LogRight', LogGrows, NEW s \in Service, NEW n \in 0 .. Len(log[s])
  PROVE  OwnId(s, n)' = OwnId(s, n) /\ NextId(s, n)' = NextId(s, n)
<1>1. /\ Len(log[s]) \in Nat /\ DOMAIN log[s] = 1 .. Len(log[s]) /\ Len(log'[s]) \in Nat
      /\ DOMAIN log'[s] = 1 .. Len(log'[s])
  <2>1. log[s] \in Seq(Action) /\ log'[s] \in Seq(Action)
    BY DEF LogRight
  <2> QED
    BY <2>1
<1>2. \A h : h \in Are(s, {"create"}) => h \in Nat /\ h \in Are(s, {"create"})'
  BY <1>1 DEF Are, LogGrows
<1>3. \A h : h \in Are(s, {"create"})' /\ h <= n => h \in Are(s, {"create"})
  BY <1>1 DEF Are, LogGrows
<1>4. \A h : h \in Are(s, {"create"})' => h \in Nat
  BY <1>1 DEF Are
<1>5. {h \in Are(s, {"create"})' : h < n} = {h \in Are(s, {"create"}) : h < n}
  BY <1>2, <1>3, <1>4
<1>6. {h \in Are(s, {"create"})' : h <= n} = {h \in Are(s, {"create"}) : h <= n}
  BY <1>2, <1>3
<1> QED
  BY <1>5, <1>6 DEF OwnId, NextId

LEMMA OwnIdBelow ==
  ASSUME LogRight, NEW s \in Service, NEW i \in Are(s, {"create"}), NEW n \in Nat, i <= n
  PROVE  OwnId(s, i) \in Nat /\ NextId(s, n) \in Nat /\ OwnId(s, i) < NextId(s, n)
<1> DEFINE A == {h \in Are(s, {"create"}) : h < i}
<1> DEFINE B == {h \in Are(s, {"create"}) : h <= n}
<1>1. \A h \in Are(s, {"create"}) : h \in Nat
  BY LogIs DEF Are
<1>2. i \notin A /\ A \cup {i} \subseteq B
  BY <1>1
<1>3. IsFiniteSet(A) /\ IsFiniteSet(B) /\ Cardinality(A) \in Nat /\ Cardinality(B) \in Nat
  <2>1. A \in SUBSET DOMAIN log[s] /\ B \in SUBSET DOMAIN log[s]
    BY DEF Are
  <2> HIDE DEF A, B
  <2> QED
    BY <2>1, FewActions
<1>4. Cardinality(A) = OwnId(s, i) /\ Cardinality(B) = NextId(s, n)
  BY DEF OwnId, NextId
<1> HIDE DEF A, B
<1>5. Cardinality(A \cup {i}) = Cardinality(A) + 1
  BY <1>2, <1>3, FS_AddElement
<1>6. Cardinality(A \cup {i}) <= Cardinality(B)
  BY <1>2, <1>3, FS_Subset
<1> QED
  BY <1>3, <1>4, <1>5, <1>6

\* The passes go on with what they have.
LEMMA NumberedStays ==
  ASSUME IInv, IInv', LogGrows, Numbered, actionState' = actionState,
         \A s \in Service : nextId'[s] >= nextId[s],
         \A q \in Pass : pass'[q].pc # "idle" =>
           /\ pass[q].pc # "idle" /\ pass'[q].service = pass[q].service
           /\ pass'[q].actions = pass[q].actions
  PROVE  Numbered'
<1> SUFFICES ASSUME NEW p \in Pass, pass'[p].pc # "idle"
             PROVE  /\ pass'[p].service \in Counting =>
                         nextId'[pass'[p].service] >= NextId(pass[p].service, actionState[pass[p].service])'
                    /\ pass'[p].actions \subseteq 1 .. actionState'[pass'[p].service]
  BY DEF Numbered
<1> DEFINE s == pass[p].service
<1> DEFINE n == actionState[s]
<1>1. /\ pass[p].pc # "idle" /\ pass'[p].service = s /\ pass'[p].actions = pass[p].actions
      /\ s \in Service /\ actionState'[s] = n
  BY DEF IInv, PassesRight, Passing
<1>2. n \in 0 .. Len(log[s]) /\ n \in Nat
  BY <1>1 DEF IInv, MemoryRight
<1>3. NextId(s, n)' = NextId(s, n) /\ nextId[s] \in Nat /\ nextId'[s] \in Nat /\ NextId(s, n) \in Nat
  <2>1. {i \in Are(s, {"create"}) : i <= n} \in SUBSET DOMAIN log[s]
    BY DEF Are
  <2>2. NextId(s, n) \in Nat
    BY <1>1, <2>1, FewActions DEF IInv, NextId
  <2>3. \A m \in 0 .. Len(log[s]) : NextId(s, m)' = NextId(s, m)
    BY <1>1, CountsStay DEF IInv
  <2> QED
    BY <1>1, <1>2, <2>2, <2>3 DEF IInv, MemoryRight
<1>4. /\ s \in Counting => nextId[s] >= NextId(s, n)
      /\ pass[p].actions \subseteq 1 .. n
  BY <1>1 DEF Numbered
<1> QED
  BY <1>1, <1>3, <1>4

LEMMA NumberedProceed ==
  ASSUME IInv, Control, Numbered, NEW p \in Pass, pass[p].pc # "idle", log' = log,
         NEW ids \in SUBSET DOMAIN log[pass[p].service], NEW next \in Nat, Proceed(p, ids, next),
         next >= nextId[pass[p].service], ids \subseteq 1 .. actionState[pass[p].service]
  PROVE  Numbered'
<1> DEFINE s == pass[p].service
<1>1. /\ s \in Service /\ \A q \in Pass \ {p} : pass'[q] = pass[q]
      /\ ids = {} => pass'[p] = Idle
      /\ ids # {} => /\ pass'[p].pc = "next" /\ pass'[p].service = s /\ pass'[p].actions = ids
  BY ProceedIs DEF IInv, PassesRight, Passing
<1>2. nextId \in [Service -> Nat] /\ actionState \in [Service -> Nat]
  BY DEF IInv, MemoryRight
<1>3. \A t \in Service : t # s => nextId'[t] = nextId[t] /\ actionState'[t] = actionState[t]
  BY <1>2 DEF Proceed
<1>4. ids # {} => nextId'[s] = next /\ actionState'[s] = actionState[s]
  BY <1>1, <1>2 DEF Proceed
<1>5. \A t \in Service : \A n : NextId(t, n)' = NextId(t, n)
  BY DEF NextId, Are
<1>6. NextId(s, actionState[s]) \in Nat
  <2>1. {i \in Are(s, {"create"}) : i <= actionState[s]} \in SUBSET DOMAIN log[s]
    BY DEF Are
  <2> QED
    BY <1>1, <2>1, FewActions DEF IInv, NextId
<1>7. ASSUME NEW q \in Pass, pass'[q].pc # "idle"
      PROVE  /\ pass'[q].service \in Counting =>
                  nextId'[pass'[q].service] >= NextId(pass[q].service, actionState[pass[q].service])'
             /\ pass'[q].actions \subseteq 1 .. actionState'[pass'[q].service]
  <2>1. CASE q = p
    <3>1. ids # {}
      BY <1>1, <1>7, <2>1, IdleIs
    <3>2. s \in Counting => next >= NextId(s, actionState[s])
      <4>1. s \in Counting => nextId[s] >= NextId(s, actionState[s])
        BY DEF Numbered
      <4>2. nextId[s] \in Nat
        BY <1>1, <1>2
      <4> QED
        BY <1>6, <4>1, <4>2
    <3> QED
      BY <1>1, <1>4, <1>5, <2>1, <3>1, <3>2
  <2>2. CASE q # p
    <3>1. /\ pass'[q] = pass[q] /\ pass[q].pc # "idle" /\ pass[q].service # s
          /\ pass[q].service \in Service
      BY <1>1, <1>7, <2>2 DEF Control, Alone, IInv, PassesRight, Passing
    <3> QED
      BY <1>3, <1>5, <3>1 DEF Numbered
  <2> QED
    BY <2>1, <2>2
<1> QED
  BY <1>7 DEF Numbered

LEMMA NumberedFetch ==
  ASSUME IInv, Calm, Numbered, NEW p \in Pass, NEW s \in Service, NEW n \in 0 .. Len(log[s]), FetchState(p, s, n)
  PROVE  Numbered'
<1>1. log' = log /\ nextId \in [Service -> Nat] /\ actionState \in [Service -> Nat]
  BY DEF FetchState, IInv, MemoryRight
<1>2. \A t \in Service : t # s => nextId'[t] = nextId[t] /\ actionState'[t] = actionState[t]
  BY <1>1 DEF FetchState
<1>3. actionState'[s] = n /\ (s \in Counting => nextId'[s] = NextId(s, n)) /\ NextId(s, n) \in Nat
  <2>1. {i \in Are(s, {"create"}) : i <= n} \in SUBSET DOMAIN log[s]
    BY DEF Are
  <2>2. NextId(s, n) \in Nat
    BY <2>1, FewActions DEF IInv, NextId
  <2> QED
    BY <1>1, <2>2 DEF FetchState, Counting
<1>5. \A t \in Service : \A m : NextId(t, m)' = NextId(t, m)
  BY <1>1 DEF NextId, Are
<1>6. ASSUME NEW q \in Pass, pass'[q].pc # "idle"
      PROVE  /\ pass'[q].service \in Counting =>
                  nextId'[pass'[q].service] >= NextId(pass[q].service, actionState[pass[q].service])'
             /\ pass'[q].actions \subseteq 1 .. actionState'[pass'[q].service]
  <2>1. CASE q = p
    <3>1. pass'[p].service = s /\ pass'[p].actions = {}
      BY CalmFetch
    <3> QED
      BY <1>3, <1>5, <2>1, <3>1
  <2>2. CASE q # p
    <3>1. /\ pass'[q] = pass[q] /\ pass[q].pc # "idle" /\ pass[q].service # s
          /\ pass[q].service \in Service
      BY <1>6, <2>2, CalmFetch DEF IInv, PassesRight, Passing
    <3> QED
      BY <1>2, <1>5, <3>1 DEF Numbered
  <2> QED
    BY <2>1, <2>2
<1> QED
  BY <1>6 DEF Numbered

LEMMA NumberedInv ==
  ASSUME IInv, IInv', Control, Numbered, Calm, [Next]_vars
  PROVE  Numbered'
<1>0. LogGrows
  BY NextIsStep DEF StepIs
<1>00. nextId \in [Service -> Nat] /\ \A s \in Service : nextId[s] >= nextId[s] /\ nextId[s] + 1 >= nextId[s]
  <2>1. nextId \in [Service -> Nat]
    BY DEF IInv, MemoryRight
  <2>2. \A s \in Service : nextId[s] \in Nat
    BY <2>1
  <2> QED
    BY <2>1, <2>2
<1>1. CASE \E s \in Service : \E a \in Inputs(s) : Reduce(s, a)
  <2>1. UNCHANGED <<memory, pass>>
    BY <1>1 DEF Reduce
  <2> QED
    BY <1>0, <1>00, <2>1, NumberedStays DEF memory
<1>2. ASSUME NEW p \in Pass, NEW s \in Service, NEW n \in 0 .. Len(log[s]), FetchState(p, s, n) PROVE Numbered'
  BY <1>2, NumberedFetch
<1>3. ASSUME NEW p \in Pass, Find(p) \/ FindNothing(p) \/ SaveAction(p) PROVE Numbered'
  <2>1. /\ pass[p].pc # "idle" /\ log' = log /\ pass[p].service \in Service
        /\ pass'[p].actions \in SUBSET DOMAIN log[pass[p].service]
        /\ pass'[p].actions \subseteq 1 .. actionState[pass[p].service]
    <3>1. pass[p].pc # "idle" /\ log' = log /\ pass[p].service \in Service
      BY <1>3, FindIs DEF IInv, PassesRight, Passing
    <3>2. \/ pass'[p].actions = {} \/ pass'[p].actions \subseteq pass[p].actions
          \/ pass'[p].actions = NotActive(pass[p].service)
      <4>1. pass'[p].pc = "idle" => pass'[p].actions = {}
        BY DEF IInv, PassesRight, PassRight
      <4> QED
        BY <1>3, <4>1, FindIs
    <3>3. pass[p].actions \subseteq 1 .. actionState[pass[p].service]
      BY <3>1 DEF Numbered
    <3>4. pass'[p].actions \subseteq 1 .. actionState[pass[p].service]
      BY <3>2, <3>3 DEF NotActive
    <3>5. 1 .. actionState[pass[p].service] \subseteq DOMAIN log[pass[p].service]
      <4>1. /\ actionState[pass[p].service] \in 0 .. Len(log[pass[p].service])
            /\ DOMAIN log[pass[p].service] = 1 .. Len(log[pass[p].service])
            /\ Len(log[pass[p].service]) \in Nat
        BY <3>1, LogIs DEF IInv, MemoryRight
      <4> QED
        BY <4>1
    <3> QED
      BY <3>1, <3>4, <3>5
  <2>2. \/ Proceed(p, pass'[p].actions, nextId[pass[p].service])
        \/ Proceed(p, pass'[p].actions, nextId[pass[p].service] + 1)
    BY <1>3, FindIs
  <2>3. nextId[pass[p].service] \in Nat /\ nextId[pass[p].service] + 1 \in Nat
    BY <1>00, <2>1
  <2>4. PICK ids : ids = pass'[p].actions
    OBVIOUS
  <2>5. \/ Proceed(p, ids, nextId[pass[p].service])
        \/ Proceed(p, ids, nextId[pass[p].service] + 1)
    BY <2>2, <2>4 DEF Proceed
  <2> QED
    BY <1>00, <2>1, <2>3, <2>4, <2>5, NumberedProceed
<1>4. ASSUME NEW p \in Pass, UpsertCampaign(p) PROVE Numbered'
  <2>1. UNCHANGED memory
    BY <1>4, CampaignIs
  <2> QED
    BY <1>0, <1>00, <1>4, <2>1, CampaignIs, NumberedStays DEF memory
<1>5. ASSUME NEW p \in Pass, Starts(p) PROVE Numbered'
  <2>1. actionState' = actionState /\ \A s \in Service : nextId'[s] >= nextId[s]
    BY <1>00, <1>5 DEF Starts, StartAction, StartCreate, StartUpdate, StartClaim, StartParticipation, memory
  <2>2. \A q \in Pass : pass'[q].pc # "idle" =>
           /\ pass[q].pc # "idle" /\ pass'[q].service = pass[q].service
           /\ pass'[q].actions = pass[q].actions
    BY <1>5, StartsAre
  <2> QED
    BY <1>0, <2>1, <2>2, NumberedStays
<1>6. ASSUME NEW p \in Pass, ClaimFails(p) \/ ParticipationFails(p) \/ Throw(p) PROVE Numbered'
  <2>1. /\ pass[p].pc # "idle" /\ log' = log /\ Proceed(p, {}, nextId[pass[p].service])
        /\ pass[p].service \in Service /\ {} \in SUBSET DOMAIN log[pass[p].service]
    BY <1>6, CalmAbandon DEF IInv, PassesRight, Passing
  <2> QED
    BY <1>00, <2>1, NumberedProceed
<1>7. ASSUME NEW w \in writes, Write(w) PROVE Numbered'
  <2>1. Awaited(w) /\ log' = log
    BY <1>7, WriteAwaits DEF Awaited
  <2>2. \/ pass' = pass /\ memory' = memory
        \/ Proceed(w.pass, pass[w.pass].actions \ {w.action}, nextId[w.service])
    BY <2>1, ControlAwaited
  <2>3. CASE pass' = pass /\ memory' = memory
    BY <1>0, <1>00, <2>3, NumberedStays DEF memory
  <2>4. CASE Proceed(w.pass, pass[w.pass].actions \ {w.action}, nextId[w.service])
    <3>1. w.pass \in Pass /\ pass[w.pass].pc # "idle" /\ pass[w.pass].service = w.service /\ w.service \in Service
      BY WriteIs DEF Control, Hands, Held
    <3>2. pass[w.pass].actions \ {w.action} \in SUBSET DOMAIN log[pass[w.pass].service]
      BY <3>1 DEF IInv, PassesRight, PassRight
    <3>3. pass[w.pass].actions \ {w.action} \subseteq 1 .. actionState[pass[w.pass].service]
      BY <3>1 DEF Numbered
    <3> QED
      BY <1>00, <2>1, <2>4, <3>1, <3>2, <3>3, NumberedProceed
  <2> QED
    BY <2>2, <2>3, <2>4
<1>8. CASE Crash
  BY <1>8, CalmCrash, IdleIs DEF Numbered
<1>9. CASE UNCHANGED vars
  BY <1>0, <1>00, <1>9, NumberedStays DEF vars, memory
<1> QED
  BY <1>1, <1>2, <1>3, <1>4, <1>5, <1>6, <1>7, <1>8, <1>9, StepsAre DEF CalmSteps

\* The id of a document that a step marks with an action it was not marked with.
LEMMA AheadStays ==
  ASSUME IInv, IInv', LogGrows, Ahead,
         \A id \in DOMAIN campaigns' : LET i == campaigns'[id].action IN
           \/ i = 0
           \/ id \in DOMAIN campaigns /\ campaigns[id].action = i
           \/ i \in DOMAIN log["campaign"] /\ id > OwnId("campaign", i),
         \A id \in DOMAIN projects' : LET i == projects'[id].create IN
           \/ i = 0
           \/ id \in DOMAIN projects /\ projects[id].create = i
           \/ i \in DOMAIN log["project"] /\ id > OwnId("project", i),
         \A id \in DOMAIN fundings' : LET i == fundings'[id].action IN
           \/ i = 0
           \/ id \in DOMAIN fundings /\ fundings[id].action = i
           \/ i \in DOMAIN log["funding"] /\ id > OwnId("funding", i),
         \A v \in writes' : \/ v \in writes
                            \/ v.action \in DOMAIN log[v.service] /\ v.service \in Service /\ AheadWrite(v)
  PROVE  Ahead'
<1>1. ASSUME NEW s \in Service, NEW i \in DOMAIN log[s] PROVE OwnId(s, i)' = OwnId(s, i)
  <2>1. i \in 0 .. Len(log[s])
    <3>1. Len(log[s]) \in Nat /\ DOMAIN log[s] = 1 .. Len(log[s])
      BY LogIs DEF IInv
    <3> QED
      BY <3>1
  <2> QED
    BY <2>1, CountsStay DEF IInv
<1>2. \A id \in DOMAIN campaigns' :
        campaigns'[id].action # 0 => id > OwnId("campaign", campaigns[id].action)'
  <2>1. \A id \in DOMAIN campaigns : campaigns[id].action \in {0} \cup DOMAIN log["campaign"]
    BY DEF IInv, DocumentsRight, CampaignsRight, Are
  <2>2. \A id \in DOMAIN campaigns : campaigns[id].action # 0 => id > OwnId("campaign", campaigns[id].action)
    BY DEF Ahead, IdsAreAhead
  <2> QED
    BY <1>1, <2>1, <2>2 DEF Service
<1>3. \A id \in DOMAIN projects' :
        projects'[id].create # 0 => id > OwnId("project", projects[id].create)'
  <2>1. \A id \in DOMAIN projects : projects[id].create \in {0} \cup DOMAIN log["project"]
    BY DEF IInv, DocumentsRight, ProjectsRight, Are
  <2>2. \A id \in DOMAIN projects : projects[id].create # 0 => id > OwnId("project", projects[id].create)
    BY DEF Ahead, IdsAreAhead
  <2> QED
    BY <1>1, <2>1, <2>2 DEF Service
<1>4. \A id \in DOMAIN fundings' :
        fundings'[id].action # 0 => id > OwnId("funding", fundings[id].action)'
  <2>1. \A id \in DOMAIN fundings : fundings[id].action \in {0} \cup DOMAIN log["funding"]
    BY DEF IInv, DocumentsRight, FundingsRight, Are
  <2>2. \A id \in DOMAIN fundings : fundings[id].action # 0 => id > OwnId("funding", fundings[id].action)
    BY DEF Ahead, IdsAreAhead
  <2> QED
    BY <1>1, <2>1, <2>2 DEF Service
<1>5. ASSUME NEW v \in writes' PROVE AheadWrite(v)'
  <2>1. v.service \in Service /\ v.action \in DOMAIN log[v.service] /\ AheadWrite(v)
    BY WriteIs DEF Ahead
  <2>2. ActionOf(v)' = ActionOf(v) /\ OwnId(v.service, v.action)' = OwnId(v.service, v.action)
    BY <1>1, <2>1 DEF ActionOf, LogGrows
  <2> QED
    BY <2>1, <2>2 DEF AheadWrite
<1> QED
  BY <1>2, <1>3, <1>4, <1>5 DEF Ahead, IdsAreAhead

\* The first action of a pass comes after what the next id counts.
LEMMA CurrentIsBelow ==
  ASSUME IInv, Numbered, NEW p \in Pass, pass[p].pc # "idle", pass[p].service \in Counting,
         NEW i \in Current(p), log[pass[p].service][i].kind = "create"
  PROVE  nextId[pass[p].service] > OwnId(pass[p].service, i)
<1> DEFINE s == pass[p].service
<1> DEFINE n == actionState[s]
<1>1. s \in Service /\ i \in Are(s, {"create"}) /\ i \in pass[p].actions
  BY CurrentIs DEF Are
<1>2. i \in 1 .. n /\ nextId[s] >= NextId(s, n)
  BY <1>1 DEF Numbered
<1>3. n \in Nat /\ nextId[s] \in Nat
  BY <1>1 DEF IInv, MemoryRight
<1>4. OwnId(s, i) \in Nat /\ NextId(s, n) \in Nat /\ OwnId(s, i) < NextId(s, n)
  <2>1. i <= n
    BY <1>2
  <2> QED
    BY <1>1, <1>3, <2>1, OwnIdBelow DEF IInv
<1> QED
  BY <1>2, <1>3, <1>4

LEMMA AheadDocuments ==
  ASSUME IInv, IInv', LogGrows, Ahead, UNCHANGED documents,
         \A v \in writes' : \/ v \in writes
                            \/ v.action \in DOMAIN log[v.service] /\ v.service \in Service /\ AheadWrite(v)
  PROVE  Ahead'
<1>1. UNCHANGED <<campaigns, projects, fundings>>
  BY DEF documents
<1> QED
  BY <1>1, AheadStays

LEMMA AheadStarts ==
  ASSUME IInv, IInv', LogGrows, Ahead, Numbered, NEW p \in Pass, Starts(p)
  PROVE  Ahead'
<1> DEFINE s == pass[p].service
<1>0. UNCHANGED documents /\ s \in Service /\ pass[p].pc # "idle"
  BY StartsAre DEF IInv, PassesRight, Passing
<1>1. ASSUME NEW v \in writes', v \notin writes PROVE v.action \in DOMAIN log[v.service] /\ v.service \in Service
  BY <1>0, <1>1, StartsAre, CurrentIs
<1>2. ASSUME NEW v \in writes', v \notin writes PROVE AheadWrite(v)
  <2>1. CASE StartAction(p)
    BY <1>2, <2>1 DEF StartAction, Started, AheadWrite
  <2>2. CASE StartCreate(p)
    <3>1. PICK i \in Current(p) : /\ log[s][i].kind = "create"
                                  /\ writes' = writes \cup {Started(p, i, "document", nextId[s], 0)}
      BY <2>2 DEF StartCreate
    <3>2. v.service = s /\ v.action = i /\ v.id = nextId[s]
      BY <1>2, <3>1 DEF Started
    <3>3. s \in Counting => nextId[s] > OwnId(s, i)
      BY <1>0, <3>1, CurrentIsBelow
    <3> QED
      BY <3>2, <3>3 DEF AheadWrite
  <2>3. CASE StartUpdate(p)
    <3>1. PICK i \in Current(p) : /\ log[s][i].kind \in {"update", "complete", "abort"}
                                  /\ writes' = writes \cup {Started(p, i, "document", log[s][i].id, 0)}
      BY <2>3 DEF StartUpdate
    <3>2. v.service = s /\ v.action = i
      BY <1>2, <3>1 DEF Started
    <3> QED
      BY <3>1, <3>2 DEF AheadWrite, ActionOf
  <2>4. CASE StartClaim(p)
    <3>1. PICK i \in Current(p) : /\ log[s][i].kind = "claim"
                                  /\ \E k \in ClaimedBy(log[s][i]) :
                                       writes' = writes \cup {Started(p, i, "document", log[s][i].id, k[2])}
      BY <2>4 DEF StartClaim
    <3>2. v.service = s /\ v.action = i
      BY <1>2, <3>1 DEF Started
    <3> QED
      BY <3>1, <3>2 DEF AheadWrite, ActionOf
  <2>5. CASE StartParticipation(p)
    <3>1. v.service = "participation"
      BY <1>2, <2>5, StartsAre
    <3> QED
      BY <3>1 DEF AheadWrite, Counting
  <2> QED
    BY <2>1, <2>2, <2>3, <2>4, <2>5 DEF Starts
<1> QED
  BY <1>0, <1>1, <1>2, AheadDocuments

LEMMA AheadCampaign ==
  ASSUME IInv, IInv', LogGrows, Ahead, Numbered, NEW p \in Pass, UpsertCampaign(p)
  PROVE  Ahead'
<1> DEFINE id == nextId["campaign"]
<1> DEFINE doc == Document(campaigns, id, NewCampaign)
<1>1. PICK i \in Current(p) : campaigns' = Upsert(campaigns, id, [doc EXCEPT !.action = i])
  BY DEF UpsertCampaign
<1>2. UNCHANGED <<projects, fundings, writes>> /\ pass[p].pc # "idle" /\ pass[p].service = "campaign"
  BY CampaignIs
<1>3. i \in DOMAIN log["campaign"] /\ log["campaign"][i].kind = "create"
  <2>1. i \in DOMAIN log["campaign"]
    BY <1>2, CurrentIs
  <2> QED
    BY <2>1, KindIs DEF IInv, Kinds, Service
<1>4. id > OwnId("campaign", i)
  BY <1>2, <1>3, CurrentIsBelow DEF Counting
<1>5. [doc EXCEPT !.action = i].action = i
  <2>1. doc \in [action : {0} \cup Are("campaign", {"create"}),
                 counter : Nat, state : {"notEnded", "complete", "abort"}]
    BY DEF Document, NewCampaign, IInv, DocumentsRight, CampaignsRight
  <2> QED
    BY <2>1
<1> HIDE DEF id, doc
<1>6. \A k \in DOMAIN campaigns' : \/ k = id /\ campaigns'[k].action = i
                                   \/ k \in DOMAIN campaigns /\ campaigns'[k] = campaigns[k]
  BY <1>1, <1>5 DEF Upsert
<1> QED
  BY <1>2, <1>3, <1>4, <1>6, AheadStays

\* What a write puts in place of the mark of a document.
LEMMA AheadWrites ==
  ASSUME IInv, IInv', LogGrows, Ahead, NEW w \in writes, Write(w)
  PROVE  Ahead'
<1>0. /\ \A v \in writes' : v \in writes
      /\ w.service \in Service /\ w.action \in DOMAIN log[w.service] /\ AheadWrite(w)
  BY WriteAwaits, WriteIs DEF Awaited, Ahead
<1>1. CASE WriteAction(w)
  BY <1>0, <1>1, AheadDocuments DEF WriteAction
<1>2. CASE WriteCounter(w)
  <2>1. \A id \in DOMAIN campaigns' : id \in DOMAIN campaigns /\ campaigns'[id].action = campaigns[id].action
    <3>1. campaigns' = [campaigns EXCEPT ![w.id].counter = w.value]
      BY <1>2 DEF WriteCounter
    <3> QED
      BY <3>1 DEF IInv, DocumentsRight, CampaignsRight
  <2>2. UNCHANGED <<projects, fundings>>
    BY <1>2 DEF WriteCounter
  <2> QED
    BY <1>0, <2>1, <2>2, AheadStays
<1>3. CASE WriteProject(w)
  <2> DEFINE doc == Document(projects, w.id, NewProject)
  <2> DEFINE create == log["project"][w.action].kind = "create"
  <2> DEFINE new == IF create THEN [doc EXCEPT !.create = w.action] ELSE [doc EXCEPT !.update = w.action]
  <2>1. /\ UNCHANGED <<campaigns, fundings>> /\ w.service = "project" /\ w.what = "document"
        /\ projects' = Upsert(projects, w.id, new)
    BY <1>3 DEF WriteProject
  <2>2. /\ create => new.create = w.action
        /\ ~ create => new.create = doc.create
        /\ doc.create # 0 => w.id \in DOMAIN projects /\ projects[w.id].create = doc.create
    <3>1. doc \in [create : {0} \cup Are("project", {"create"}), update : {0} \cup Are("project", {"update"})]
      BY DEF Document, NewProject, IInv, DocumentsRight, ProjectsRight
    <3> QED
      BY <3>1 DEF Document, NewProject
  <2> HIDE DEF doc, new
  <2>3. \A k \in DOMAIN projects' : \/ k = w.id /\ projects'[k] = new
                                    \/ k \in DOMAIN projects /\ projects'[k] = projects[k]
    BY <2>1 DEF Upsert
  <2>4. create => w.id > OwnId("project", w.action)
    BY <1>0, <2>1 DEF AheadWrite, ActionOf, Counting
  <2> HIDE DEF create
  <2>5. \A id \in DOMAIN projects' : LET i == projects'[id].create IN
           \/ i = 0
           \/ id \in DOMAIN projects /\ projects[id].create = i
           \/ i \in DOMAIN log["project"] /\ id > OwnId("project", i)
    BY <1>0, <2>1, <2>2, <2>3, <2>4
  <2> QED
    BY <1>0, <2>1, <2>5, AheadStays
<1>4. CASE WriteFunding(w)
  <2> DEFINE doc == Document(fundings, w.id, NewFunding)
  <2> DEFINE create == log["funding"][w.action].kind = "create"
  <2> DEFINE new == IF create THEN [doc EXCEPT !.action = w.action] ELSE [doc EXCEPT !.refunded = TRUE]
  <2>1. /\ UNCHANGED <<campaigns, projects>> /\ w.service = "funding" /\ w.what = "document"
        /\ fundings' = Upsert(fundings, w.id, new)
    BY <1>4 DEF WriteFunding
  <2>2. /\ create => new.action = w.action
        /\ ~ create => new.action = doc.action
        /\ doc.action # 0 => w.id \in DOMAIN fundings /\ fundings[w.id].action = doc.action
    <3>1. doc \in [action : {0} \cup Are("funding", {"create"}), refunded : BOOLEAN]
      BY DEF Document, NewFunding, IInv, DocumentsRight, FundingsRight
    <3> QED
      BY <3>1 DEF Document, NewFunding
  <2> HIDE DEF doc, new
  <2>3. \A k \in DOMAIN fundings' : \/ k = w.id /\ fundings'[k] = new
                                    \/ k \in DOMAIN fundings /\ fundings'[k] = fundings[k]
    BY <2>1 DEF Upsert
  <2>4. create => w.id > OwnId("funding", w.action)
    BY <1>0, <2>1 DEF AheadWrite, ActionOf, Counting
  <2> HIDE DEF create
  <2>5. \A id \in DOMAIN fundings' : LET i == fundings'[id].action IN
           \/ i = 0
           \/ id \in DOMAIN fundings /\ fundings[id].action = i
           \/ i \in DOMAIN log["funding"] /\ id > OwnId("funding", i)
    BY <1>0, <2>1, <2>2, <2>3, <2>4
  <2> QED
    BY <1>0, <2>1, <2>5, AheadStays
<1>5. CASE WriteParticipation(w) \/ WriteClaim(w)
  <2>1. UNCHANGED <<campaigns, projects, fundings>>
    BY <1>5 DEF WriteParticipation, WriteClaim
  <2> QED
    BY <1>0, <2>1, AheadStays
<1>6. CASE WriteEnd(w)
  <2> DEFINE doc == Document(campaigns, w.id, NewCampaign)
  <2> DEFINE new == [doc EXCEPT !.state = log["treasury"][w.action].kind]
  <2>1. UNCHANGED <<projects, fundings>> /\ campaigns' = Upsert(campaigns, w.id, new)
    BY <1>6 DEF WriteEnd
  <2>2. /\ new.action = doc.action
        /\ doc.action # 0 => w.id \in DOMAIN campaigns /\ campaigns[w.id].action = doc.action
    <3>1. doc \in [action : {0} \cup Are("campaign", {"create"}),
                   counter : Nat, state : {"notEnded", "complete", "abort"}]
      BY DEF Document, NewCampaign, IInv, DocumentsRight, CampaignsRight
    <3> QED
      BY <3>1 DEF Document, NewCampaign
  <2> HIDE DEF doc, new
  <2>3. \A k \in DOMAIN campaigns' : \/ k = w.id /\ campaigns'[k] = new
                                     \/ k \in DOMAIN campaigns /\ campaigns'[k] = campaigns[k]
    BY <2>1 DEF Upsert
  <2>5. \A id \in DOMAIN campaigns' : LET i == campaigns'[id].action IN
           \/ i = 0
           \/ id \in DOMAIN campaigns /\ campaigns[id].action = i
           \/ i \in DOMAIN log["campaign"] /\ id > OwnId("campaign", i)
    BY <2>2, <2>3
  <2> QED
    BY <1>0, <2>1, <2>5, AheadStays
<1> QED
  BY <1>1, <1>2, <1>3, <1>4, <1>5, <1>6 DEF Write

LEMMA AheadInv ==
  ASSUME IInv, IInv', Control, Numbered, Ahead, Calm, [Next]_vars
  PROVE  Ahead'
<1>0. LogGrows
  BY NextIsStep DEF StepIs
<1>1. CASE /\ ~ \E p \in Pass : UpsertCampaign(p) \/ Starts(p)
           /\ ~ \E w \in writes : Write(w)
  <2>1. UNCHANGED documents
    BY <1>1, OtherEffect DEF Write
  <2>2. \A v \in writes' : v \in writes
    <3>1. ASSUME NEW p \in Pass, Find(p) \/ FindNothing(p) \/ SaveAction(p) PROVE writes' = writes
      BY <3>1, FindIs
    <3>2. ASSUME NEW p \in Pass, ClaimFails(p) \/ ParticipationFails(p) \/ Throw(p) PROVE writes' = writes
      BY <3>2, CalmAbandon
    <3>3. CASE Crash
      BY <3>3, CalmCrash
    <3>4. CASE \/ \E s \in Service : \E a \in Inputs(s) : Reduce(s, a)
               \/ \E p \in Pass : \E s \in Service : \E n \in 0 .. Len(log[s]) : FetchState(p, s, n)
               \/ UNCHANGED vars
      BY <3>4 DEF Reduce, FetchState, vars
    <3> QED
      BY <1>1, <3>1, <3>2, <3>3, <3>4, StepsAre DEF CalmSteps
  <2> QED
    BY <1>0, <2>1, <2>2, AheadDocuments
<1> QED
  BY <1>0, <1>1, AheadStarts, AheadCampaign, AheadWrites

-----------------------------------------------------------------------------
(***************************************************************************)
(* Participations come in turn: those begun are all up to one, which alone *)
(* may be under way; the counter of a campaign and the indexes are those   *)
(* of the ones whose write has taken effect.                               *)
(***************************************************************************)
Joining == {w \in writes : w.service = "participation"}
Pending(what) == {w.action : w \in {x \in Joining : x.what = what}}
Begun == active["participation"] \cup Pending("action")
Filed == Begun \ Pending("document")
Joined(c) == Participants(c) \cap (Begun \ Pending("campaign"))
Key(h) == <<log["participation"][h].id, log["participation"][h].of>>

Ordered ==
  /\ \A h \in Begun : \A g \in 1 .. h - 1 : g \in Begun
  /\ \A w \in Joining : w.action \in Begun /\ \A h \in Begun : h <= w.action

Taken(p) ==
  pass[p].service = "participation" /\ pass[p].pc \in {"next", "await"} =>
    /\ \A h \in pass[p].actions : \A g \in 1 .. h - 1 : g \in Begun \cup pass[p].actions
    /\ pass[p].actions \cap Begun \subseteq IF pass[p].pc = "next" THEN {} ELSE Current(p)

Counted ==
  /\ \A c \in DOMAIN campaigns : campaigns[c].counter = Cardinality(Joined(c))
  /\ \A h \in Begun : log["participation"][h].id \in DOMAIN campaigns

Indexed ==
  /\ \A h \in Filed : Key(h) \in DOMAIN participations /\ participations[Key(h)].index = OwnIndex(h)
  /\ \A k \in DOMAIN participations : \E h \in Filed : k = Key(h)
  /\ \A w \in Joining : w.what # "action" => w.id = ActionOf(w).id /\ w.value = OwnIndex(w.action)

InTurn == Ordered /\ Counted /\ Indexed /\ \A p \in Pass : Taken(p)

LEMMA PendingIs ==
  ASSUME NEW what, NEW i
  PROVE  i \in Pending(what) <=> \E w \in writes : w.service = "participation" /\ w.what = what /\ w.action = i
BY DEF Pending, Joining

LEMMA BegunIs ==
  ASSUME IInv
  PROVE  Begun \subseteq DOMAIN log["participation"] /\ Begun \subseteq Nat
<1>1. active["participation"] \subseteq DOMAIN log["participation"]
  BY DEF IInv, ActiveRight, Service
<1>2. Pending("action") \subseteq DOMAIN log["participation"]
  BY PendingIs, WriteIs
<1>3. \A i \in DOMAIN log["participation"] : i \in Nat
  BY LogIs DEF IInv, Service
<1> QED
  BY <1>1, <1>2, <1>3 DEF Begun

LEMMA KeyOnce ==
  ASSUME LogRight, NEW h \in DOMAIN log["participation"], NEW g \in DOMAIN log["participation"],
         Key(h) = Key(g)
  PROVE  h = g
<1>1. {log["participation"][h].kind, log["participation"][g].kind} \subseteq {"create"}
  BY KindIs DEF Kinds, Service
<1>2. {"create"} \in Once["participation"] /\ "participation" \in Service
  BY DEF Once, Service
<1>3. /\ log["participation"][h].id = log["participation"][g].id
      /\ log["participation"][h].of = log["participation"][g].of
  BY DEF Key
<1> QED
  BY <1>1, <1>2, <1>3, OnceIs

LEMMA ParticipantsGrow ==
  ASSUME LogRight, LogRight', LogGrows
  PROVE  /\ \A c : \A h \in DOMAIN log["participation"] : h \in Participants(c)' <=> h \in Participants(c)
         /\ \A h \in DOMAIN log["participation"] : Key(h)' = Key(h) /\ OwnIndex(h)' = OwnIndex(h)
<1>0. "participation" \in Service
  BY DEF Service
<1>1. ASSUME NEW c, NEW h \in DOMAIN log["participation"]
      PROVE  h \in Participants(c)' <=> h \in Participants(c)
  BY <1>0 DEF Participants, Are, LogGrows
<1>2. ASSUME NEW h \in DOMAIN log["participation"]
      PROVE  Key(h)' = Key(h) /\ OwnIndex(h)' = OwnIndex(h)
  <2>1. log'["participation"][h] = log["participation"][h]
    BY <1>0 DEF LogGrows
  <2>2. ASSUME NEW c PROVE {g \in Participants(c)' : g <= h} = {g \in Participants(c) : g <= h}
    <3>1. /\ DOMAIN log["participation"] = 1 .. Len(log["participation"])
          /\ Len(log["participation"]) \in Nat
      BY <1>0, LogIs
    <3>2. DOMAIN log'["participation"] = 1 .. Len(log'["participation"]) /\ Len(log'["participation"]) \in Nat
      <4>1. log'["participation"] \in Seq(Action)
        BY <1>0 DEF LogRight
      <4> QED
        BY <4>1
    <3>3. \A g \in Participants(c)' : g <= h => g \in DOMAIN log["participation"]
      BY <3>1, <3>2 DEF Participants, Are
    <3>4. Participants(c) \subseteq DOMAIN log["participation"]
      BY DEF Participants, Are
    <3> QED
      BY <1>1, <3>3, <3>4
  <2> QED
    BY <2>1, <2>2 DEF Key, OwnIndex
<1> QED
  BY <1>1, <1>2

LEMMA NoneJoined ==
  ASSUME Counted, NEW c, c \notin DOMAIN campaigns
  PROVE  Cardinality(Joined(c)) = 0
<1>1. Joined(c) = {}
  BY DEF Joined, Participants, Counted
<1> QED
  BY <1>1, FS_EmptySet

\* Steps that are about other things than participations.
JoinsStay ==
  /\ active'["participation"] = active["participation"] /\ Joining' = Joining
  /\ DOMAIN campaigns \subseteq DOMAIN campaigns'
  /\ \A c \in DOMAIN campaigns' :
       campaigns'[c].counter = IF c \in DOMAIN campaigns THEN campaigns[c].counter ELSE 0
  /\ DOMAIN participations' = DOMAIN participations
  /\ \A k \in DOMAIN participations : participations'[k].index = participations[k].index

LEMMA JoinsSame ==
  ASSUME IInv, IInv', LogGrows, InTurn, JoinsStay
  PROVE  /\ Ordered' /\ Counted' /\ Indexed' /\ Begun' = Begun
         /\ \A p \in Pass : pass'[p] = pass[p] => Taken(p)'
<1>1. Begun' = Begun /\ Filed' = Filed /\ \A what : Pending(what)' = Pending(what)
  BY DEF JoinsStay, Begun, Pending, Filed
<1>2. Begun \subseteq DOMAIN log["participation"] /\ Filed \subseteq Begun
  BY BegunIs DEF Filed
<1>3. /\ \A c : \A h \in DOMAIN log["participation"] : h \in Participants(c)' <=> h \in Participants(c)
      /\ \A h \in DOMAIN log["participation"] : Key(h)' = Key(h) /\ OwnIndex(h)' = OwnIndex(h)
      /\ \A h \in DOMAIN log["participation"] : log'["participation"][h] = log["participation"][h]
  BY ParticipantsGrow DEF IInv, LogGrows, Service
<1>4. Ordered'
  BY <1>1 DEF InTurn, Ordered, JoinsStay
<1>5. \A c : Joined(c)' = Joined(c)
  BY <1>1, <1>2, <1>3 DEF Joined
<1>6. Counted'
  <2>1. \A c \in DOMAIN campaigns' : campaigns'[c].counter = Cardinality(Joined(c))
    BY NoneJoined DEF InTurn, Counted, JoinsStay
  <2>2. \A h \in Begun : log'["participation"][h].id \in DOMAIN campaigns'
    BY <1>2, <1>3 DEF InTurn, Counted, JoinsStay
  <2> QED
    BY <1>1, <1>5, <2>1, <2>2 DEF Counted
<1>7. Indexed'
  <2>1. \A h \in Filed : Key(h)' = Key(h) /\ OwnIndex(h)' = OwnIndex(h)
    BY <1>2, <1>3
  <2>2. \A w \in Joining : w.what # "action" => ActionOf(w)' = ActionOf(w) /\ OwnIndex(w.action)' = OwnIndex(w.action)
    <3>1. \A w \in Joining : w.service = "participation" /\ w.action \in DOMAIN log["participation"]
      BY WriteIs DEF Joining
    <3> QED
      BY <1>3, <3>1 DEF ActionOf
  <2> QED
    BY <1>1, <2>1, <2>2 DEF InTurn, Indexed, JoinsStay
<1>8. \A p \in Pass : pass'[p] = pass[p] => Taken(p)'
  BY <1>1 DEF InTurn, Taken, Current
<1> QED
  BY <1>1, <1>4, <1>6, <1>7, <1>8

LEMMA InTurnStays ==
  ASSUME IInv, IInv', LogGrows, InTurn, JoinsStay,
         \A p \in Pass : \/ pass'[p] = pass[p]
                         \/ pass'[p].service # "participation"
                         \/ pass'[p].pc \notin {"next", "await"}
  PROVE  InTurn'
<1>1. \A p \in Pass : Taken(p)'
  BY JoinsSame DEF Taken
<1> QED
  BY <1>1, JoinsSame DEF InTurn

\* A pass of participations finds those that are not active: none is under way.
LEMMA InTurnFind ==
  ASSUME IInv, IInv', Control, InTurn, NEW p \in Pass, Find(p), pass[p].service = "participation"
  PROVE  InTurn'
<1>1. pass[p].pc = "find" /\ UNCHANGED <<log, active, documents, writes>>
  BY DEF Find
<1>2. LogGrows
  BY <1>1, SameLog DEF IInv
<1>3. JoinsStay
  <2>1. DOMAIN campaigns' = DOMAIN campaigns /\ campaigns' = campaigns
    BY <1>1 DEF documents
  <2>2. participations' = participations
    BY <1>1 DEF documents
  <2> QED
    BY <1>1, <2>1, <2>2 DEF JoinsStay, Joining
<1>4. Joining = {}
  BY <1>1, OneHand DEF Joining
<1>5. Begun = active["participation"]
  BY <1>4 DEF Begun, Pending
<1>6. /\ Ordered' /\ Counted' /\ Indexed' /\ Begun' = Begun
      /\ \A q \in Pass : pass'[q] = pass[q] => Taken(q)'
  BY <1>2, <1>3, JoinsSame
<1>7. /\ \A q \in Pass \ {p} : pass'[q] = pass[q]
      /\ \/ pass'[p].pc = "idle"
         \/ pass'[p].pc = "next" /\ pass'[p].actions = NotActive("participation")
  <2>1. ~ SaveAction(p)
    BY DEF SaveAction, In
  <2> QED
    BY <2>1, FindIs
<1>8. Taken(p)'
  <2> DEFINE n == actionState["participation"]
  <2>1. n \in Nat
    BY DEF IInv, MemoryRight, Service
  <2>2. NotActive("participation") = 1 .. n \ active["participation"]
    BY DEF NotActive
  <2> HIDE DEF n
  <2>3. \A h \in NotActive("participation") : \A g \in 1 .. h - 1 : g \in Begun \cup NotActive("participation")
    BY <1>5, <2>1, <2>2
  <2>4. NotActive("participation") \cap Begun = {}
    BY <1>5, <2>2
  <2> QED
    BY <1>6, <1>7, <2>3, <2>4 DEF Taken
<1> QED
  BY <1>6, <1>7, <1>8 DEF InTurn

\* A pass of participations puts the next one under way.
LEMMA InTurnStart ==
  ASSUME IInv, IInv', Control, InTurn, NEW p \in Pass, StartParticipation(p)
  PROVE  InTurn'
<1>0. /\ UNCHANGED <<log, active, documents>> /\ pass[p].pc = "next" /\ pass[p].service = "participation"
      /\ pass'[p].pc = "await" /\ pass'[p].service = "participation" /\ pass'[p].actions = pass[p].actions
      /\ \A q \in Pass \ {p} : pass'[q] = pass[q]
  <2>1. Starts(p) /\ ~ StartAction(p)
    BY DEF Starts, StartAction, StartParticipation, In
  <2> QED
    BY <2>1, StartsAre DEF StartParticipation, In
<1>1. PICK i \in Current(p) :
        /\ log["participation"][i].id \in DOMAIN campaigns
        /\ writes' = writes \cup
             {Started(p, i, "action", 0, 0),
              Started(p, i, "campaign", log["participation"][i].id, NextIndex(log["participation"][i].id)),
              Started(p, i, "document", log["participation"][i].id, NextIndex(log["participation"][i].id))}
  BY DEF StartParticipation
<1> DEFINE id == log["participation"][i].id
<1>2. i \in DOMAIN log["participation"] /\ i \in Nat /\ i \in pass[p].actions /\ id \in DOMAIN campaigns
  BY <1>0, <1>1, CurrentIs
<1>3. Joining = {}
  BY <1>0, OneHand DEF Joining
<1>4. Begun = active["participation"] /\ Filed = Begun /\ \A c : Joined(c) = Participants(c) \cap Begun
  BY <1>3 DEF Begun, Pending, Filed, Joined
<1>5. /\ \A h \in pass[p].actions : \A g \in 1 .. h - 1 : g \in Begun \cup pass[p].actions
      /\ pass[p].actions \cap Begun = {}
  BY <1>0 DEF InTurn, Taken
<1>6. Begun \subseteq DOMAIN log["participation"] /\ Begun \subseteq Nat /\ 0 \notin Begun
  <2>1. 0 \notin DOMAIN log["participation"]
    BY LogIs DEF IInv, Service
  <2> QED
    BY <2>1, BegunIs
<1>7. i \notin Begun /\ \A g \in 1 .. i - 1 : g \in Begun
  <2>1. \A g \in pass[p].actions : i <= g /\ g \in Nat
    <3>1. \A g \in pass[p].actions : g \in Nat
      BY DEF IInv, PassesRight, Passing
    <3> QED
      BY <3>1 DEF Current
  <2> QED
    BY <1>2, <1>5, <2>1
<1>8. \A h \in Begun : h < i
  <2>1. \A h \in Begun : \A g \in 1 .. h - 1 : g \in Begun
    BY DEF InTurn, Ordered
  <2>2. i # 0
    BY CurrentIs
  <2> QED
    BY <1>2, <1>6, <1>7, <2>1, <2>2
<1> DEFINE value == NextIndex(id)
<1>9. value = OwnIndex(i)
  <2>1. campaigns[id].counter = Cardinality(Joined(id))
    BY <1>2 DEF InTurn, Counted
  <2>2. {h \in Participants(id) : h <= i} = Joined(id) \cup {i} /\ i \notin Joined(id)
    <3>1. i \in Participants(id)
      <4>1. log["participation"][i].kind = "create"
        BY <1>2, KindIs DEF IInv, Kinds, Service
      <4> QED
        BY <1>2, <4>1 DEF Participants, Are
    <3>2. \A h \in Participants(id) : h \in Nat /\ h # 0
      BY LogIs DEF IInv, Service, Participants, Are
    <3>3. \A h \in Participants(id) : h < i <=> h \in Begun
      BY <1>2, <1>7, <1>8, <3>2
    <3>4. \A h \in Participants(id) : h <= i <=> h \in Begun \/ h = i
      BY <1>2, <3>2, <3>3
    <3>5. Joined(id) = Participants(id) \cap Begun
      BY <1>4
    <3> HIDE DEF id
    <3> QED
      BY <1>7, <3>1, <3>4, <3>5
  <2>3. IsFiniteSet(Joined(id))
    <3>1. Joined(id) \subseteq Participants(id) /\ IsFiniteSet(Participants(id))
      BY ParticipantsAre DEF IInv, Joined
    <3> QED
      BY <3>1, FS_Subset
  <2>4. Cardinality(Joined(id) \cup {i}) = Cardinality(Joined(id)) + 1
    BY <2>2, <2>3, FS_AddElement
  <2> QED
    BY <2>1, <2>2, <2>4 DEF NextIndex, OwnIndex
<1> HIDE DEF value
<1>10. \A v : v \in writes' /\ v.service = "participation" <=>
              \/ v = Started(p, i, "action", 0, 0)
              \/ v = Started(p, i, "campaign", id, value)
              \/ v = Started(p, i, "document", id, value)
  BY <1>0, <1>1, <1>3, StartedHas DEF Joining, value
<1>11. \A v \in Joining' : /\ v.action = i /\ v.service = "participation"
                           /\ v.what # "action" => v.id = id /\ v.value = value
  <2>1. Started(p, i, "action", 0, 0).what = "action"
    BY DEF Started
  <2>2. /\ Started(p, i, "campaign", id, value).id = id /\ Started(p, i, "campaign", id, value).value = value
        /\ Started(p, i, "document", id, value).id = id /\ Started(p, i, "document", id, value).value = value
    BY DEF Started
  <2> QED
    BY <1>10, <2>1, <2>2, StartedHas DEF Joining
<1>12. Pending("action")' = {i} /\ Pending("campaign")' = {i} /\ Pending("document")' = {i}
  <2>1. /\ Started(p, i, "action", 0, 0) \in Joining' /\ Started(p, i, "campaign", id, value) \in Joining'
        /\ Started(p, i, "document", id, value) \in Joining'
    BY <1>10 DEF Joining
  <2>2. /\ Started(p, i, "action", 0, 0).what = "action" /\ Started(p, i, "action", 0, 0).action = i
        /\ Started(p, i, "campaign", id, value).what = "campaign"
        /\ Started(p, i, "campaign", id, value).action = i
        /\ Started(p, i, "document", id, value).what = "document"
        /\ Started(p, i, "document", id, value).action = i
    BY DEF Started
  <2> HIDE DEF id
  <2> QED
    BY <1>11, <2>1, <2>2 DEF Pending
<1>13. /\ Begun' = Begun \cup {i} /\ Filed' = Begun
       /\ \A c : Joined(c)' = Joined(c)
       /\ \A h : Key(h)' = Key(h) /\ OwnIndex(h)' = OwnIndex(h)
  <2>1. \A c : Participants(c)' = Participants(c)
    BY <1>0 DEF Participants, Are
  <2>2. Begun' = Begun \cup {i}
    BY <1>0, <1>4, <1>12 DEF Begun
  <2>3. Filed' = Begun
    BY <1>7, <1>12, <2>2 DEF Filed
  <2>4. \A c : Joined(c)' = Joined(c)
    BY <1>4, <1>7, <1>12, <2>1, <2>2 DEF Joined
  <2> QED
    BY <1>0, <2>1, <2>2, <2>3, <2>4 DEF Key, OwnIndex
<1> HIDE DEF id
<1>14. Ordered'
  <2>1. \A h \in Begun : \A g \in 1 .. h - 1 : g \in Begun
    BY DEF InTurn, Ordered
  <2>2. \A h \in Begun \cup {i} : h <= i /\ \A g \in 1 .. h - 1 : g \in Begun \cup {i}
    BY <1>2, <1>6, <1>7, <1>8, <2>1
  <2> QED
    BY <1>11, <1>13, <2>2 DEF Ordered
<1>15. Counted'
  <2>1. campaigns' = campaigns
    BY <1>0 DEF documents
  <2> QED
    BY <1>0, <1>2, <1>13, <2>1 DEF InTurn, Counted, id
<1>16. Indexed'
  <2>1. participations' = participations
    BY <1>0 DEF documents
  <2>2. \A v \in Joining' : v.what # "action" => v.id = ActionOf(v).id' /\ v.value = OwnIndex(v.action)'
    BY <1>0, <1>9, <1>11, <1>13 DEF ActionOf, id
  <2> QED
    BY <1>4, <1>13, <2>1, <2>2 DEF InTurn, Indexed
<1>17. Taken(p)'
  <2>1. \A h \in pass[p].actions : \A g \in 1 .. h - 1 : g \in (Begun \cup {i}) \cup pass[p].actions
    BY <1>5
  <2>2. pass[p].actions \cap (Begun \cup {i}) \subseteq Current(p)
    BY <1>5
  <2>3. Current(p)' = Current(p)
    BY <1>0 DEF Current
  <2> QED
    BY <1>0, <1>13, <2>1, <2>2, <2>3 DEF Taken
<1>18. \A q \in Pass \ {p} : Taken(q)'
  <2>1. \A q \in Pass \ {p} : pass[q].service = "participation" => pass[q].pc = "idle"
    BY <1>0 DEF Control, Alone
  <2> QED
    BY <1>0, <2>1 DEF Taken
<1> QED
  BY <1>14, <1>15, <1>16, <1>17, <1>18 DEF InTurn

\* What the write of a participation leaves, when as many are begun as before.
LEMMA InTurnAwaited ==
  ASSUME IInv, IInv', Control, InTurn, NEW w \in Joining, Awaited(w), Begun' = Begun
  PROVE  Ordered' /\ \A p \in Pass : Taken(p)'
<1>1. w \in writes /\ w.service = "participation" /\ Held(w)
  BY DEF Joining, Control, Hands
<1>2. \A v \in Joining' : v \in Joining
  BY DEF Awaited, Joining
<1>3. Ordered'
  BY <1>2 DEF InTurn, Ordered
<1>4. \/ pass' = pass /\ memory' = memory
      \/ /\ pass[w.pass].pc = "await"
         /\ Proceed(w.pass, pass[w.pass].actions \ {w.action}, nextId[w.service])
  BY <1>1, ControlAwaited
<1>5. CASE pass' = pass
  BY <1>3, <1>5 DEF InTurn, Taken, Current
<1>6. CASE /\ pass[w.pass].pc = "await"
           /\ Proceed(w.pass, pass[w.pass].actions \ {w.action}, nextId[w.service])
  <2> DEFINE p == w.pass
  <2> DEFINE ids == pass[p].actions \ {w.action}
  <2>1. /\ p \in Pass /\ pass[p].service = "participation" /\ w.action \in Current(p)
        /\ nextId[w.service] \in Nat /\ ids \in SUBSET DOMAIN log[pass[p].service]
    BY <1>1, WriteIs DEF Held, IInv, MemoryRight, PassesRight, PassRight
  <2>2. /\ \A q \in Pass \ {p} : pass'[q] = pass[q]
        /\ ids = {} => pass'[p] = Idle
        /\ ids # {} => /\ pass'[p].pc = "next" /\ pass'[p].service = pass[p].service
                       /\ pass'[p].actions = ids
    BY <1>6, <2>1, ProceedIs
  <2>3. /\ \A h \in pass[p].actions : \A g \in 1 .. h - 1 : g \in Begun \cup pass[p].actions
        /\ pass[p].actions \cap Begun \subseteq Current(p)
    BY <1>6, <2>1 DEF InTurn, Taken
  <2>4. w.action \in Begun /\ \A j \in Current(p) : j = w.action
    BY <2>1, OnlyOne DEF InTurn, Ordered
  <2>5. /\ \A h \in ids : \A g \in 1 .. h - 1 : g \in Begun \cup ids
        /\ ids \cap Begun = {}
    BY <2>3, <2>4
  <2>6. Taken(p)'
    BY <2>1, <2>2, <2>5, IdleIs DEF Taken
  <2>7. \A q \in Pass \ {p} : Taken(q)'
    <3>1. \A q \in Pass \ {p} : pass[q].service = "participation" => pass[q].pc = "idle"
      BY <1>6, <2>1 DEF Control, Alone
    <3> QED
      BY <2>2, <3>1 DEF Taken
  <2> QED
    BY <1>3, <2>6, <2>7
<1> QED
  BY <1>3, <1>4, <1>5, <1>6

\* All that is under way of participations is of one of them, and each write of it is one.
LEMMA OneJoins ==
  ASSUME IInv, Control, InTurn, NEW v \in Joining, NEW w \in Joining
  PROVE  v.action = w.action /\ (v.what = w.what /\ w.what # "action" => v = w)
<1>1. /\ v \in writes /\ w \in writes /\ v.service = "participation" /\ w.service = "participation"
  BY DEF Joining
<1>2. v \in Writing /\ w \in Writing
  BY <1>1 DEF IInv, WritesRight, WriteRight
<1>3. v.action = w.action
  <2>1. v.action <= w.action /\ w.action <= v.action
    BY DEF InTurn, Ordered
  <2> QED
    BY <1>2, <2>1 DEF Writing
<1>4. v.pass = w.pass
  BY <1>1 DEF Control, Alone, Hands, Held
<1>5. ASSUME v.what = w.what, w.what # "action" PROVE v = w
  <2>1. v.id = ActionOf(v).id /\ v.value = OwnIndex(v.action) /\ w.id = ActionOf(w).id /\ w.value = OwnIndex(w.action)
    BY <1>5 DEF InTurn, Indexed
  <2>2. v.id = w.id /\ v.value = w.value
    BY <1>1, <1>3, <2>1 DEF ActionOf
  <2> QED
    BY <1>1, <1>2, <1>3, <1>4, <1>5, <2>2 DEF Writing
<1> QED
  BY <1>3, <1>5

LEMMA PendingStays ==
  ASSUME IInv, Control, InTurn, NEW w \in Joining, Awaited(w)
  PROVE  /\ \A what : what # w.what => Pending(what)' = Pending(what)
         /\ Pending(w.what) = {w.action}
         /\ w.what # "action" => Pending(w.what)' = {}
         /\ Pending("action")' \subseteq Pending("action")
         /\ Pending("action") \subseteq Pending("action")' \cup {w.action}
<1>1. Joining' = Joining \ {w}
  BY DEF Awaited, Joining
<1>2. \A what : what # w.what => Pending(what)' = Pending(what)
  <2>1. ASSUME NEW what, what # w.what PROVE Pending(what)' = Pending(what)
    <3>1. {x \in Joining' : x.what = what} = {x \in Joining : x.what = what}
      BY <1>1, <2>1
    <3> QED
      BY <3>1 DEF Pending
  <2> QED
    BY <2>1
<1>3. Pending(w.what) = {w.action}
  BY OneJoins DEF Pending
<1>4. w.what # "action" => Pending(w.what)' = {}
  BY <1>1, OneJoins DEF Pending
<1>5. /\ Pending("action")' \subseteq Pending("action")
      /\ Pending("action") \subseteq Pending("action")' \cup {w.action}
  BY <1>1 DEF Pending
<1> QED
  BY <1>2, <1>3, <1>4, <1>5

LEMMA InTurnAction ==
  ASSUME IInv, IInv', Control, InTurn, NEW w \in Joining, WriteAction(w)
  PROVE  InTurn'
<1>1. /\ Awaited(w) /\ UNCHANGED documents /\ log' = log /\ w.service = "participation"
      /\ w.what = "action" /\ active'["participation"] = active["participation"] \cup {w.action}
  BY DEF WriteAction, Awaited, Joining, IInv, ActiveRight, Service
<1>2. /\ Begun' = Begun /\ Pending("document")' = Pending("document")
      /\ Pending("campaign")' = Pending("campaign")
  BY <1>1, PendingStays DEF Begun
<1>3. Filed' = Filed /\ (\A c : Joined(c)' = Joined(c)) /\ \A h : Key(h)' = Key(h) /\ OwnIndex(h)' = OwnIndex(h)
  <2>1. \A c : Participants(c)' = Participants(c)
    BY <1>1 DEF Participants, Are
  <2> QED
    BY <1>1, <1>2, <2>1 DEF Filed, Joined, Key, OwnIndex
<1>4. campaigns' = campaigns /\ participations' = participations
  BY <1>1 DEF documents
<1>5. Counted'
  BY <1>1, <1>2, <1>3, <1>4 DEF InTurn, Counted
<1>6. Indexed'
  <2>1. \A v \in Joining' : v \in Joining /\ ActionOf(v)' = ActionOf(v)
    BY <1>1 DEF Awaited, Joining, ActionOf
  <2> QED
    BY <1>3, <1>4, <2>1 DEF InTurn, Indexed
<1> QED
  BY <1>1, <1>2, <1>5, <1>6, InTurnAwaited DEF InTurn

LEMMA InTurnCounter ==
  ASSUME IInv, IInv', Control, InTurn, NEW w \in writes, WriteCounter(w)
  PROVE  InTurn'
<1>1. /\ Awaited(w) /\ UNCHANGED <<active, projects, participations, fundings>> /\ log' = log
      /\ campaigns' = [campaigns EXCEPT ![w.id].counter = w.value] /\ w.what = "campaign"
      /\ w.service = "participation" /\ w \in Joining /\ w.id \in DOMAIN campaigns
  <2>1. w.what = "campaign" /\ Awaited(w)
    BY DEF WriteCounter
  <2>2. w.service = "participation" /\ w.id \in DOMAIN campaigns
    BY <2>1, WriteIs DEF WriteRight
  <2> QED
    BY <2>1, <2>2 DEF WriteCounter, Awaited, Joining
<1>2. /\ Begun' = Begun /\ Pending("document")' = Pending("document") /\ Pending("campaign")' = {}
      /\ Pending("campaign") = {w.action}
  BY <1>1, PendingStays DEF Begun
<1>3. /\ Filed' = Filed /\ (\A c : Participants(c)' = Participants(c))
      /\ \A h : Key(h)' = Key(h) /\ OwnIndex(h)' = OwnIndex(h)
  <2>1. \A c : Participants(c)' = Participants(c)
    BY <1>1 DEF Participants, Are
  <2> QED
    BY <1>1, <1>2, <2>1 DEF Filed, Key, OwnIndex
<1>4. /\ w.action \in Begun /\ w.action \in DOMAIN log["participation"] /\ w.action \in Nat
      /\ w.id = log["participation"][w.action].id /\ w.value = OwnIndex(w.action)
  BY <1>1, WriteIs DEF InTurn, Ordered, Indexed, ActionOf
<1>5. \A h \in DOMAIN log["participation"] : h \in Begun <=> h <= w.action
  <2>1. \A h \in DOMAIN log["participation"] : h \in Nat /\ h # 0
    BY LogIs DEF IInv, Service
  <2>2. /\ \A h \in Begun : h <= w.action
        /\ \A g \in 1 .. w.action - 1 : g \in Begun
    BY <1>1, <1>4 DEF InTurn, Ordered
  <2> QED
    BY <1>4, <2>1, <2>2
<1>6. ASSUME NEW c \in DOMAIN campaigns PROVE campaigns'[c].counter = Cardinality(Joined(c)')
  <2>1. Participants(c) \subseteq DOMAIN log["participation"] /\ Joined(c)' = Participants(c) \cap Begun
    BY <1>2, <1>3 DEF Participants, Are, Joined
  <2>2. CASE c = w.id
    <3>1. campaigns'[c].counter = OwnIndex(w.action)
      BY <1>1, <1>4, <2>2 DEF IInv, DocumentsRight, CampaignsRight
    <3>2. {h \in Participants(c) : h <= w.action} = Participants(c) \cap Begun
      BY <1>5, <2>1
    <3> QED
      BY <1>4, <2>1, <2>2, <3>1, <3>2 DEF OwnIndex
  <2>3. CASE c # w.id
    <3>1. campaigns'[c].counter = Cardinality(Joined(c))
      BY <1>1, <2>3 DEF InTurn, Counted
    <3>2. w.action \notin Participants(c)
      BY <1>4, <2>3 DEF Participants
    <3>3. Joined(c) = Participants(c) \cap Begun
      BY <1>2, <3>2 DEF Joined
    <3> QED
      BY <2>1, <3>1, <3>3
  <2> QED
    BY <2>2, <2>3
<1>7. Counted'
  <2>1. DOMAIN campaigns' = DOMAIN campaigns
    BY <1>1
  <2> QED
    BY <1>1, <1>2, <1>6, <2>1 DEF InTurn, Counted
<1>8. Indexed'
  <2>1. \A v \in Joining' : v \in Joining /\ ActionOf(v)' = ActionOf(v)
    BY <1>1 DEF Awaited, Joining, ActionOf
  <2> QED
    BY <1>1, <1>3, <2>1 DEF InTurn, Indexed
<1> QED
  BY <1>1, <1>2, <1>7, <1>8, InTurnAwaited DEF InTurn

LEMMA ParticipationIs ==
  ASSUME IInv, NEW w \in writes, WriteParticipation(w)
  PROVE  /\ DOMAIN participations' = DOMAIN participations \cup {Key(w.action)}
         /\ participations'[Key(w.action)].index = w.value
         /\ \A k \in DOMAIN participations : k # Key(w.action) => participations'[k] = participations[k]
<1> DEFINE key == <<w.id, log["participation"][w.action].of>>
<1> DEFINE doc == Document(participations, key, NewParticipation)
<1> DEFINE new == [doc EXCEPT !.index = w.value]
<1>1. /\ participations' = Upsert(participations, key, new)
      /\ w.service = "participation" /\ w.what = "document"
  BY DEF WriteParticipation
<1>2. w.id = log["participation"][w.action].id
  BY <1>1, WriteIs DEF WriteRight, ActionOf
<1>3. new.index = w.value
  <2>1. CASE key \in DOMAIN participations
    BY <2>1 DEF Document, IInv, DocumentsRight, ParticipationsRight
  <2>2. CASE key \notin DOMAIN participations
    BY <2>2 DEF Document, NewParticipation
  <2> QED
    BY <2>1, <2>2
<1>4. key = Key(w.action)
  BY <1>2 DEF Key
<1> HIDE DEF key, doc, new
<1>5. /\ DOMAIN participations' = DOMAIN participations \cup {key} /\ participations'[key] = new
      /\ \A k \in DOMAIN participations : k # key => participations'[k] = participations[k]
  BY <1>1 DEF Upsert
<1> QED
  BY <1>3, <1>4, <1>5

LEMMA InTurnParticipation ==
  ASSUME IInv, IInv', Control, InTurn, NEW w \in writes, WriteParticipation(w)
  PROVE  InTurn'
<1>1. /\ Awaited(w) /\ UNCHANGED <<active, campaigns, projects, fundings>> /\ log' = log
      /\ w.what = "document" /\ w.service = "participation" /\ w \in Joining
  BY DEF WriteParticipation, Awaited, Joining
<1>2. /\ Begun' = Begun /\ Pending("campaign")' = Pending("campaign") /\ Pending("document")' = {}
      /\ Pending("document") = {w.action}
  BY <1>1, PendingStays DEF Begun
<1>3. /\ Filed' = Begun /\ Filed = Begun \ {w.action} /\ (\A c : Joined(c)' = Joined(c))
      /\ \A h : Key(h)' = Key(h) /\ OwnIndex(h)' = OwnIndex(h)
  <2>1. \A c : Participants(c)' = Participants(c)
    BY <1>1 DEF Participants, Are
  <2> QED
    BY <1>1, <1>2, <2>1 DEF Filed, Joined, Key, OwnIndex
<1>4. w.action \in Begun /\ w.value = OwnIndex(w.action)
  BY <1>1 DEF InTurn, Ordered, Indexed
<1>5. Counted'
  BY <1>1, <1>2, <1>3 DEF InTurn, Counted
<1>6. Indexed'
  <2>1. \A v \in Joining' : v \in Joining /\ ActionOf(v)' = ActionOf(v)
    BY <1>1 DEF Awaited, Joining, ActionOf
  <2>2. ASSUME NEW h \in Begun
        PROVE  Key(h) \in DOMAIN participations' /\ participations'[Key(h)].index = OwnIndex(h)
    <3>1. CASE h = w.action
      BY <1>4, <3>1, ParticipationIs
    <3>2. CASE h # w.action
      <4>1. Key(h) \in DOMAIN participations /\ participations[Key(h)].index = OwnIndex(h)
        BY <1>3, <3>2 DEF InTurn, Indexed
      <4>2. Key(h) # Key(w.action)
        BY <1>4, <3>2, BegunIs, KeyOnce DEF IInv
      <4> QED
        BY <4>1, <4>2, ParticipationIs
    <3> QED
      BY <3>1, <3>2
  <2>3. \A k \in DOMAIN participations' : \E h \in Begun : k = Key(h)
    <3>1. \A k \in DOMAIN participations : \E h \in Begun : k = Key(h)
      BY <1>3 DEF InTurn, Indexed
    <3> QED
      BY <1>4, <3>1, ParticipationIs
  <2> QED
    BY <1>3, <2>1, <2>2, <2>3 DEF InTurn, Indexed
<1> QED
  BY <1>1, <1>2, <1>5, <1>6, InTurnAwaited DEF InTurn

\* A write of another service.
LEMMA OtherAwaited ==
  ASSUME IInv, Control, NEW w \in writes, w.service # "participation", Awaited(w)
  PROVE  /\ Joining' = Joining /\ log' = log
         /\ \A p \in Pass : \/ pass'[p] = pass[p]
                            \/ pass'[p].service # "participation"
                            \/ pass'[p].pc \notin {"next", "await"}
<1>1. Joining' = Joining /\ log' = log
  BY DEF Awaited, Joining
<1>2. \/ pass' = pass
      \/ Proceed(w.pass, pass[w.pass].actions \ {w.action}, nextId[w.service])
  BY ControlAwaited
<1>3. CASE Proceed(w.pass, pass[w.pass].actions \ {w.action}, nextId[w.service])
  <2>1. /\ w.pass \in Pass /\ pass[w.pass].service = w.service
        /\ nextId[w.service] \in Nat
        /\ pass[w.pass].actions \ {w.action} \in SUBSET DOMAIN log[pass[w.pass].service]
    BY WriteIs DEF Control, Hands, Held, IInv, MemoryRight, PassesRight, PassRight
  <2>2. /\ \A q \in Pass \ {w.pass} : pass'[q] = pass[q]
        /\ pass'[w.pass] = Idle \/ pass'[w.pass].service = pass[w.pass].service
    BY <1>3, <2>1, ProceedIs
  <2> QED
    BY <1>1, <2>1, <2>2, IdleIs
<1> QED
  BY <1>1, <1>2, <1>3

LEMMA InTurnCampaign ==
  ASSUME IInv, IInv', LogGrows, InTurn, NEW p \in Pass, UpsertCampaign(p)
  PROVE  InTurn'
<1> DEFINE id == nextId["campaign"]
<1> DEFINE doc == Document(campaigns, id, NewCampaign)
<1>1. PICK i \in Current(p) : campaigns' = Upsert(campaigns, id, [doc EXCEPT !.action = i])
  BY DEF UpsertCampaign
<1>2. [doc EXCEPT !.action = i].counter = IF id \in DOMAIN campaigns THEN campaigns[id].counter ELSE 0
  BY DEF Document, NewCampaign, IInv, DocumentsRight, CampaignsRight
<1> HIDE DEF id, doc
<1>3. /\ DOMAIN campaigns' = DOMAIN campaigns \cup {id}
      /\ campaigns'[id].counter = IF id \in DOMAIN campaigns THEN campaigns[id].counter ELSE 0
      /\ \A k \in DOMAIN campaigns : k # id => campaigns'[k] = campaigns[k]
  BY <1>1, <1>2 DEF Upsert
<1>4. /\ UNCHANGED <<active, participations, writes>> /\ pass'[p].service = "campaign"
      /\ \A q \in Pass \ {p} : pass'[q] = pass[q]
  BY CampaignIs
<1>5. JoinsStay
  BY <1>3, <1>4 DEF JoinsStay, Joining
<1> QED
  BY <1>4, <1>5, InTurnStays

LEMMA InTurnEnd ==
  ASSUME IInv, IInv', Control, InTurn, NEW w \in writes, WriteEnd(w)
  PROVE  InTurn'
<1> DEFINE doc == Document(campaigns, w.id, NewCampaign)
<1> DEFINE new == [doc EXCEPT !.state = log["treasury"][w.action].kind]
<1>1. /\ UNCHANGED <<active, participations>> /\ campaigns' = Upsert(campaigns, w.id, new)
      /\ Awaited(w) /\ w.service # "participation"
  BY DEF WriteEnd
<1>2. new.counter = IF w.id \in DOMAIN campaigns THEN campaigns[w.id].counter ELSE 0
  BY DEF Document, NewCampaign, IInv, DocumentsRight, CampaignsRight
<1> HIDE DEF doc, new
<1>3. /\ DOMAIN campaigns' = DOMAIN campaigns \cup {w.id}
      /\ campaigns'[w.id].counter = IF w.id \in DOMAIN campaigns THEN campaigns[w.id].counter ELSE 0
      /\ \A k \in DOMAIN campaigns : k # w.id => campaigns'[k] = campaigns[k]
  BY <1>1, <1>2 DEF Upsert
<1>4. JoinsStay
  BY <1>1, <1>3, OtherAwaited DEF JoinsStay
<1>5. LogGrows
  BY <1>1, OtherAwaited, SameLog DEF IInv
<1> QED
  BY <1>1, <1>4, <1>5, OtherAwaited, InTurnStays

LEMMA InTurnClaim ==
  ASSUME IInv, IInv', Control, InTurn, NEW w \in writes, WriteClaim(w)
  PROVE  InTurn'
<1> DEFINE key == <<w.id, w.value>>
<1>1. /\ UNCHANGED <<active, campaigns>> /\ Awaited(w) /\ w.service # "participation"
      /\ participations' = [participations EXCEPT ![key].claim = w.action]
  BY DEF WriteClaim
<1> HIDE DEF key
<1>3. /\ DOMAIN participations' = DOMAIN participations
      /\ \A k \in DOMAIN participations : participations'[k].index = participations[k].index
  BY <1>1 DEF IInv, DocumentsRight, ParticipationsRight
<1>4. JoinsStay
  BY <1>1, <1>3, OtherAwaited DEF JoinsStay
<1>5. LogGrows
  BY <1>1, OtherAwaited, SameLog DEF IInv
<1> QED
  BY <1>1, <1>4, <1>5, OtherAwaited, InTurnStays

LEMMA InTurnWrite ==
  ASSUME IInv, IInv', Control, InTurn, NEW w \in writes, Write(w)
  PROVE  InTurn'
<1>1. CASE WriteAction(w) /\ w.service = "participation"
  BY <1>1, InTurnAction DEF Joining
<1>2. CASE \/ WriteAction(w) /\ w.service # "participation"
           \/ WriteProject(w) \/ WriteFunding(w)
  <2>1. /\ w.service # "participation" /\ Awaited(w)
        /\ active'["participation"] = active["participation"] /\ UNCHANGED <<campaigns, participations>>
    BY <1>2 DEF WriteAction, WriteProject, WriteFunding, documents, IInv, ActiveRight, Service
  <2>2. JoinsStay /\ LogGrows
    BY <2>1, OtherAwaited, SameLog DEF JoinsStay, IInv
  <2> QED
    BY <2>1, <2>2, OtherAwaited, InTurnStays
<1>3. CASE WriteCounter(w) \/ WriteParticipation(w) \/ WriteEnd(w) \/ WriteClaim(w)
  BY <1>3, InTurnCounter, InTurnParticipation, InTurnEnd, InTurnClaim
<1> QED
  BY <1>1, <1>2, <1>3 DEF Write

\* Steps that change no document, and no participation.
LEMMA InTurnRest ==
  ASSUME IInv, IInv', LogGrows, InTurn, UNCHANGED documents, Joining' = Joining,
         active'["participation"] = active["participation"],
         \A p \in Pass : \/ pass'[p] = pass[p]
                         \/ pass'[p].service # "participation"
                         \/ pass'[p].pc \notin {"next", "await"}
  PROVE  InTurn'
<1>1. JoinsStay
  BY DEF JoinsStay, documents
<1> QED
  BY <1>1, InTurnStays

LEMMA InTurnInv ==
  ASSUME IInv, IInv', Control, InTurn, Calm, [Next]_vars
  PROVE  InTurn'
<1>0. LogGrows
  BY NextIsStep DEF StepIs
<1>1. CASE \E s \in Service : \E a \in Inputs(s) : Reduce(s, a)
  <2>1. UNCHANGED <<active, documents, writes, pass>>
    BY <1>1 DEF Reduce
  <2> QED
    BY <1>0, <2>1, InTurnRest DEF Joining
<1>2. ASSUME NEW p \in Pass, NEW s \in Service, NEW n \in 0 .. Len(log[s]), FetchState(p, s, n) PROVE InTurn'
  <2>1. UNCHANGED <<active, documents, writes>>
    BY <1>2 DEF FetchState
  <2> QED
    BY <1>0, <1>2, <2>1, CalmFetch, InTurnRest DEF Joining
<1>3. ASSUME NEW p \in Pass, Find(p) \/ FindNothing(p) \/ SaveAction(p) PROVE InTurn'
  <2>1. /\ UNCHANGED <<documents, writes>> /\ active'["participation"] = active["participation"]
        /\ \A q \in Pass \ {p} : pass'[q] = pass[q]
        /\ pass'[p].pc = "idle" \/ pass'[p].service = pass[p].service
    BY <1>3, FindIs DEF Service
  <2>2. CASE pass[p].service # "participation" \/ pass'[p].pc = "idle"
    BY <1>0, <2>1, <2>2, InTurnRest DEF Joining
  <2>3. CASE pass[p].service = "participation" /\ pass'[p].pc # "idle"
    <3>1. Find(p)
      BY <1>3, <2>3, FindIs
    <3> QED
      BY <2>3, <3>1, InTurnFind
  <2> QED
    BY <2>2, <2>3
<1>4. ASSUME NEW p \in Pass, UpsertCampaign(p) PROVE InTurn'
  BY <1>0, <1>4, InTurnCampaign
<1>5. ASSUME NEW p \in Pass, Starts(p) PROVE InTurn'
  <2>1. CASE pass[p].service = "participation"
    BY <1>5, <2>1, StartsAre, InTurnStart
  <2>2. CASE pass[p].service # "participation"
    <3>1. Joining' = Joining
      BY <1>5, <2>2, StartsAre DEF Joining
    <3> QED
      BY <1>0, <1>5, <2>2, <3>1, StartsAre, InTurnRest
  <2> QED
    BY <2>1, <2>2
<1>6. ASSUME NEW p \in Pass, ClaimFails(p) \/ ParticipationFails(p) \/ Throw(p) PROVE InTurn'
  BY <1>0, <1>6, CalmAbandon, IdleIs, InTurnRest DEF Joining
<1>7. ASSUME NEW w \in writes, Write(w) PROVE InTurn'
  BY <1>7, InTurnWrite
<1>8. CASE Crash
  <2>1. UNCHANGED <<active, documents>> /\ Joining' = Joining
    BY <1>8, CalmCrash DEF Crash, Joining
  <2> QED
    BY <1>0, <1>8, <2>1, CalmCrash, IdleIs, InTurnRest
<1>9. CASE UNCHANGED vars
  BY <1>0, <1>9, InTurnRest DEF vars, Joining
<1> QED
  BY <1>1, <1>2, <1>3, <1>4, <1>5, <1>6, <1>7, <1>8, <1>9, StepsAre DEF CalmSteps

\* What the documents say then of the participations.
LEMMA TurnsAreRanks ==
  ASSUME IInv, InTurn
  PROVE  IndexesAreRanks
<1> SUFFICES ASSUME NEW i \in active["participation"], Settled("participation", i)
             PROVE  LET a == log["participation"][i]
                    IN  /\ <<a.id, a.of>> \in DOMAIN participations
                        /\ participations[<<a.id, a.of>>].index = OwnIndex(i)
                        /\ (\A h \in Participants(a.id) : Settled("participation", h)) =>
                             campaigns[a.id].counter = Cardinality(Participants(a.id) \cap active["participation"])
  BY DEF IndexesAreRanks
<1>1. i \in Begun /\ i \in Filed
  BY PendingIs DEF Begun, Filed, Settled
<1>2. Key(i) \in DOMAIN participations /\ participations[Key(i)].index = OwnIndex(i)
  BY <1>1 DEF InTurn, Indexed
<1> DEFINE c == log["participation"][i].id
<1>3. c \in DOMAIN campaigns /\ campaigns[c].counter = Cardinality(Joined(c))
  BY <1>1 DEF InTurn, Counted
<1>4. ASSUME \A h \in Participants(c) : Settled("participation", h)
      PROVE  Joined(c) = Participants(c) \cap active["participation"]
  <2>1. \A h \in Participants(c) : \A what : h \notin Pending(what)
    BY <1>4, PendingIs DEF Settled
  <2> QED
    BY <2>1 DEF Joined, Begun
<1> QED
  BY <1>2, <1>3, <1>4 DEF Key

-----------------------------------------------------------------------------
(***************************************************************************)
(* Ends and claims: what is active is written, or its pass is about to.    *)
(***************************************************************************)
Written(i) ==
  LET a == log["treasury"][i]
  IN  IF a.kind = "claim"
      THEN \E k \in DOMAIN participations : /\ k[1] = a.id /\ participations[k].claim = i
                                            /\ participations[k].index = a.of
      ELSE a.id \in DOMAIN campaigns /\ campaigns[a.id].state = a.kind

Handled(i) ==
  \E p \in Pass : /\ pass[p].service = "treasury" /\ pass[p].pc \in {"document", "await"}
                  /\ i \in Current(p)

Ending == {w \in writes : w.service = "treasury" /\ w.what = "document"}

ClaimOf(w) == ActionOf(w).kind = "claim" => participations[<<w.id, w.value>>].index = ActionOf(w).of

Ends ==
  /\ \A i \in active["treasury"] : Written(i) \/ Handled(i)
  /\ \A p \in Pass : pass[p].service = "treasury" /\ pass[p].pc = "await" =>
       \A i \in Current(p) : Written(i) \/ \E w \in Ending : w.action = i
  /\ \A w \in Ending : ClaimOf(w)

\* What a step may change of the participations and of the states of campaigns.
LEMMA ParticipationsStay ==
  ASSUME IInv, InTurn, [Next]_vars, NEW k \in DOMAIN participations
  PROVE  /\ k \in DOMAIN participations' /\ participations'[k].index = participations[k].index
         /\ \/ participations'[k].claim = participations[k].claim
            \/ \E w \in writes : /\ WriteClaim(w) /\ k = <<w.id, w.value>>
                                 /\ participations'[k].claim = w.action
<1>1. CASE participations' = participations
  BY <1>1
<1>2. CASE \E w \in writes : WriteParticipation(w)
  <2>1. PICK w \in writes : WriteParticipation(w)
    BY <1>2
  <2>2. w.action \in Begun /\ w.action \notin Filed
    <3>1. w.service = "participation" /\ w.what = "document"
      BY <2>1 DEF WriteParticipation
    <3> QED
      BY <3>1, PendingIs DEF InTurn, Ordered, Joining, Filed
  <2>3. k # Key(w.action)
    <3>1. PICK h \in Filed : k = Key(h)
      BY DEF InTurn, Indexed
    <3>2. h \in Begun /\ h # w.action
      BY <2>2, <3>1 DEF Filed
    <3> QED
      BY <2>2, <3>1, <3>2, BegunIs, KeyOnce DEF IInv
  <2> QED
    BY <2>1, <2>3, ParticipationIs
<1>3. CASE \E w \in writes : WriteClaim(w)
  <2>1. PICK w \in writes : WriteClaim(w)
    BY <1>3
  <2> DEFINE key == <<w.id, w.value>>
  <2>2. participations' = [participations EXCEPT ![key].claim = w.action]
    BY <2>1 DEF WriteClaim
  <2> HIDE DEF key
  <2>3. /\ k \in DOMAIN participations' /\ participations'[k].index = participations[k].index
        /\ k # key => participations'[k].claim = participations[k].claim
        /\ k = key => participations'[k].claim = w.action
    BY <2>2 DEF IInv, DocumentsRight, ParticipationsRight
  <2> QED
    BY <2>1, <2>3 DEF key
<1>4. CASE /\ ~ \E w \in writes : WriteParticipation(w)
           /\ ~ \E w \in writes : WriteClaim(w)
  <2>1. CASE \E p \in Pass : UpsertCampaign(p)
    BY <1>1, <2>1 DEF UpsertCampaign
  <2>2. CASE \E w \in writes : WriteCounter(w) \/ WriteProject(w) \/ WriteFunding(w) \/ WriteEnd(w)
    BY <1>1, <2>2 DEF WriteCounter, WriteProject, WriteFunding, WriteEnd
  <2>3. CASE UNCHANGED documents
    BY <1>1, <2>3 DEF documents
  <2> QED
    BY <1>4, <2>1, <2>2, <2>3, OtherEffect
<1> QED
  BY <1>2, <1>3, <1>4

LEMMA StatesStay ==
  ASSUME IInv, [Next]_vars, NEW id \in DOMAIN campaigns
  PROVE  /\ id \in DOMAIN campaigns'
         /\ \/ campaigns'[id].state = campaigns[id].state
            \/ \E w \in writes : /\ WriteEnd(w) /\ id = w.id
                                 /\ campaigns'[id].state = log["treasury"][w.action].kind
<1>0. \A c \in DOMAIN campaigns : campaigns[c] \in [action : {0} \cup Are("campaign", {"create"}),
                                                    counter : Nat, state : {"notEnded", "complete", "abort"}]
  BY DEF IInv, DocumentsRight, CampaignsRight
<1>1. CASE campaigns' = campaigns
  BY <1>1
<1>2. CASE \E p \in Pass : UpsertCampaign(p)
  <2>1. PICK p \in Pass : UpsertCampaign(p)
    BY <1>2
  <2>2. PICK i \in Current(p) :
          campaigns' = Upsert(campaigns, nextId["campaign"],
                              [Document(campaigns, nextId["campaign"], NewCampaign) EXCEPT !.action = i])
    BY <2>1 DEF UpsertCampaign
  <2> QED
    BY <1>0, <2>2 DEF Upsert, Document
<1>3. CASE \E w \in writes : WriteCounter(w)
  <2>1. PICK w \in writes : campaigns' = [campaigns EXCEPT ![w.id].counter = w.value]
    BY <1>3 DEF WriteCounter
  <2> QED
    BY <1>0, <2>1
<1>4. CASE \E w \in writes : WriteEnd(w)
  <2>1. PICK w \in writes : WriteEnd(w)
    BY <1>4
  <2>2. campaigns' = Upsert(campaigns, w.id, [Document(campaigns, w.id, NewCampaign)
                                                EXCEPT !.state = log["treasury"][w.action].kind])
    BY <2>1 DEF WriteEnd
  <2>3. /\ id \in DOMAIN campaigns' /\ id # w.id => campaigns'[id] = campaigns[id]
        /\ id = w.id => campaigns'[id].state = log["treasury"][w.action].kind
    BY <1>0, <2>2 DEF Upsert, Document
  <2> QED
    BY <2>1, <2>2, <2>3 DEF Upsert
<1>5. CASE \E w \in writes : WriteProject(w) \/ WriteFunding(w) \/ WriteParticipation(w) \/ WriteClaim(w)
  BY <1>1, <1>5 DEF WriteProject, WriteFunding, WriteParticipation, WriteClaim
<1>6. CASE UNCHANGED documents
  BY <1>1, <1>6 DEF documents
<1> QED
  BY <1>2, <1>3, <1>4, <1>5, <1>6, OtherEffect

\* What is written of an end or a claim stays.
LEMMA WrittenStays ==
  ASSUME IInv, InTurn, Ends, LogGrows, [Next]_vars, NEW i \in DOMAIN log["treasury"], Written(i)
  PROVE  Written(i)'
<1> DEFINE a == log["treasury"][i]
<1>1. log'["treasury"][i] = a /\ a.kind \in Kinds("treasury") /\ (a.kind # "claim" => a.of = 0)
  BY KindIs DEF LogGrows, IInv, Service
<1>2. CASE a.kind = "claim"
  <2>1. PICK k \in DOMAIN participations : k[1] = a.id /\ participations[k].claim = i
                                             /\ participations[k].index = a.of
    BY <1>2 DEF Written
  <2>2. ASSUME NEW w \in writes, WriteClaim(w), k = <<w.id, w.value>> PROVE w.action = i
    <3>1. /\ w \in Ending /\ w.action \in DOMAIN log["treasury"] /\ w.id = log["treasury"][w.action].id
          /\ log["treasury"][w.action].kind = "claim"
      BY <2>2, WriteIs DEF WriteClaim, Ending, WriteRight, ActionOf
    <3>2. participations[k].index = log["treasury"][w.action].of
      BY <2>2, <3>1 DEF Ends, ClaimOf, ActionOf, Ending
    <3>3. a.id = log["treasury"][w.action].id /\ a.of = log["treasury"][w.action].of
      BY <2>1, <2>2, <3>1, <3>2
    <3>4. {"claim"} \in Once["treasury"] /\ "treasury" \in Service
      BY DEF Once, Service
    <3> QED
      BY <1>2, <3>1, <3>3, <3>4, OnceIs DEF IInv
  <2>3. /\ k \in DOMAIN participations' /\ participations'[k].claim = i
        /\ participations'[k].index = a.of
    BY <2>1, <2>2, ParticipationsStay
  <2> QED
    BY <1>1, <1>2, <2>1, <2>3 DEF Written
<1>3. CASE a.kind # "claim"
  <2>1. a.id \in DOMAIN campaigns /\ campaigns[a.id].state = a.kind
    BY <1>3 DEF Written
  <2>2. ASSUME NEW w \in writes, WriteEnd(w), a.id = w.id PROVE w.action = i
    <3>1. /\ w.action \in DOMAIN log["treasury"] /\ w.id = log["treasury"][w.action].id
          /\ log["treasury"][w.action].kind # "claim"
      BY <2>2, WriteIs DEF WriteEnd, WriteRight, ActionOf
    <3>2. log["treasury"][w.action].kind \in {"complete", "abort"} /\ log["treasury"][w.action].of = 0
      BY <3>1, KindIs DEF IInv, Kinds, Service
    <3>3. a.kind \in {"complete", "abort"} /\ a.of = 0
      BY <1>1, <1>3 DEF Kinds
    <3>4. {"complete", "abort"} \in Once["treasury"] /\ "treasury" \in Service
      BY DEF Once, Service
    <3> QED
      BY <2>2, <3>1, <3>2, <3>3, <3>4, OnceIs DEF IInv
  <2>3. a.id \in DOMAIN campaigns' /\ campaigns'[a.id].state = a.kind
    BY <2>1, <2>2, StatesStay
  <2> QED
    BY <1>1, <1>3, <2>3 DEF Written
<1> QED
  BY <1>2, <1>3

\* The write of an end or a claim writes it.
LEMMA WrittenNow ==
  ASSUME IInv, InTurn, Ends, [Next]_vars, NEW w \in Ending, Write(w)
  PROVE  Written(w.action)'
<1>1. /\ w \in writes /\ w.service = "treasury" /\ w.what = "document"
      /\ w.action \in DOMAIN log["treasury"] /\ ClaimOf(w) /\ log' = log
  BY WriteIs, WriteAwaits DEF Ending, Ends, Awaited
<1>2. w.id = log["treasury"][w.action].id
  BY <1>1, WriteIs DEF WriteRight, ActionOf
<1>3. CASE WriteEnd(w)
  <2>1. campaigns' = Upsert(campaigns, w.id, [Document(campaigns, w.id, NewCampaign)
                                                EXCEPT !.state = log["treasury"][w.action].kind])
    BY <1>3 DEF WriteEnd
  <2>2. Document(campaigns, w.id, NewCampaign)
          \in [action : {0} \cup Are("campaign", {"create"}), counter : Nat, state : {"notEnded", "complete", "abort"}]
    BY DEF Document, NewCampaign, IInv, DocumentsRight, CampaignsRight
  <2>3. w.id \in DOMAIN campaigns' /\ campaigns'[w.id].state = log["treasury"][w.action].kind
    BY <2>1, <2>2 DEF Upsert
  <2>4. log["treasury"][w.action].kind # "claim"
    BY <1>3 DEF WriteEnd
  <2> QED
    BY <1>1, <1>2, <2>3, <2>4 DEF Written
<1>4. CASE WriteClaim(w)
  <2> DEFINE key == <<w.id, w.value>>
  <2>1. participations' = [participations EXCEPT ![key].claim = w.action] /\ log["treasury"][w.action].kind = "claim"
    BY <1>4 DEF WriteClaim
  <2>2. key \in DOMAIN participations /\ participations[key].index = log["treasury"][w.action].of /\ key[1] = w.id
    BY <1>1, <2>1, WriteIs DEF WriteRight, ClaimOf, ActionOf
  <2> HIDE DEF key
  <2>3. key \in DOMAIN participations' /\ participations'[key].claim = w.action
    BY <2>1, <2>2 DEF IInv, DocumentsRight, ParticipationsRight
  <2>4. participations'[key].index = log["treasury"][w.action].of
    BY <2>2, ParticipationsStay
  <2> QED
    BY <1>1, <1>2, <2>1, <2>2, <2>3, <2>4 DEF Written
<1> QED
  BY <1>1, <1>3, <1>4 DEF Write, WriteAction, WriteCounter, WriteProject, WriteFunding, WriteParticipation

LEMMA ClaimsStay ==
  ASSUME IInv, InTurn, Ends, LogGrows, [Next]_vars, NEW w \in Ending
  PROVE  ClaimOf(w)'
<1>1. /\ w \in writes /\ w.service = "treasury" /\ w.what = "document" /\ ClaimOf(w)
      /\ w.action \in DOMAIN log["treasury"]
  BY WriteIs DEF Ending, Ends
<1>2. ActionOf(w)' = ActionOf(w)
  BY <1>1 DEF ActionOf, LogGrows, Service
<1>3. ActionOf(w).kind = "claim" => <<w.id, w.value>> \in DOMAIN participations
  BY <1>1, WriteIs DEF WriteRight
<1> QED
  BY <1>1, <1>2, <1>3, ParticipationsStay DEF ClaimOf

\* Steps that are about other things than ends and claims.
LEMMA EndsStay ==
  ASSUME IInv, InTurn, Ends, LogGrows, [Next]_vars,
         active'["treasury"] = active["treasury"], Ending' = Ending,
         \A p \in Pass : pass[p].service = "treasury" /\ pass[p].pc \in {"document", "await"} =>
           pass'[p] = pass[p],
         \A p \in Pass : pass'[p].service = "treasury" /\ pass'[p].pc = "await" => pass'[p] = pass[p]
  PROVE  Ends'
<1>1. \A i \in active["treasury"] : Written(i)' \/ Handled(i)'
  <2>1. \A i \in active["treasury"] : i \in DOMAIN log["treasury"]
    BY DEF IInv, ActiveRight, Service
  <2>2. \A i : Handled(i) => Handled(i)'
    BY DEF Handled, Current
  <2> QED
    BY <2>1, <2>2, WrittenStays DEF Ends
<1>2. ASSUME NEW p \in Pass, pass'[p].service = "treasury", pass'[p].pc = "await", NEW i \in Current(p)'
      PROVE  Written(i)' \/ \E w \in Ending : w.action = i
  <2>1. pass'[p] = pass[p]
    BY <1>2
  <2>2. i \in Current(p)
    BY <1>2, <2>1 DEF Current
  <2>3. i \in DOMAIN log["treasury"]
    BY <1>2, <2>1, <2>2, CurrentIs
  <2>4. Written(i) \/ \E w \in Ending : w.action = i
    BY <1>2, <2>1, <2>2 DEF Ends
  <2> QED
    BY <2>3, <2>4, WrittenStays
<1> QED
  BY <1>1, <1>2, ClaimsStay DEF Ends

\* A pass of treasuries starts the save of an action.
LEMMA EndsAction ==
  ASSUME IInv, Control, InTurn, Ends, LogGrows, [Next]_vars, NEW p \in Pass, StartAction(p),
         pass[p].service = "treasury"
  PROVE  Ends'
<1>1. Starts(p) /\ pass[p].pc = "next" /\ pass'[p].pc = "document"
  <2>1. Starts(p)
    BY DEF Starts
  <2> QED
    BY <2>1, StartsAre
<1>2. PICK i \in Current(p) : writes' = writes \cup {Started(p, i, "action", 0, 0)}
  BY DEF StartAction
<1>3. Ending' = Ending
  <2>1. Started(p, i, "action", 0, 0).what = "action"
    BY DEF Started
  <2> QED
    BY <1>2, <2>1 DEF Ending
<1>4. \A q \in Pass \ {p} : pass'[q] = pass[q]
  BY <1>1, StartsAre
<1> QED
  BY <1>1, <1>3, <1>4, StartsAre, EndsStay

\* A pass of treasuries starts the write of an end or a claim.
LEMMA EndsDocument ==
  ASSUME IInv, Control, InTurn, Ends, LogGrows, [Next]_vars, NEW p \in Pass,
         StartUpdate(p) \/ StartClaim(p), pass[p].service = "treasury"
  PROVE  Ends'
<1>0. /\ Starts(p) /\ pass[p].pc = "document" /\ UNCHANGED <<log, active, documents>>
      /\ pass'[p].pc = "await" /\ pass'[p].service = "treasury" /\ pass'[p].actions = pass[p].actions
      /\ \A q \in Pass \ {p} : pass'[q] = pass[q]
      /\ \A q \in Pass \ {p} : pass[q].service = "treasury" => pass[q].pc = "idle"
  <2>1. Starts(p) /\ pass[p].pc = "document" /\ ~ StartAction(p)
    BY DEF Starts, StartUpdate, StartClaim, StartAction
  <2> QED
    BY <2>1, StartsAre DEF Control, Alone
<1>1. PICK i \in Current(p) : \E id, value :
        /\ writes' = writes \cup {Started(p, i, "document", id, value)}
        /\ log["treasury"][i].kind = "claim" =>
             <<id, value>> \in DOMAIN participations /\ participations[<<id, value>>].index = log["treasury"][i].of
  <2>1. CASE StartUpdate(p)
    BY <2>1 DEF StartUpdate
  <2>2. CASE StartClaim(p)
    <3>1. PICK i \in Current(p) : \E k \in ClaimedBy(log["treasury"][i]) :
            writes' = writes \cup {Started(p, i, "document", log["treasury"][i].id, k[2])}
      BY <2>2 DEF StartClaim
    <3>2. PICK k \in ClaimedBy(log["treasury"][i]) :
            writes' = writes \cup {Started(p, i, "document", log["treasury"][i].id, k[2])}
      BY <3>1
    <3>3. /\ k \in DOMAIN participations /\ k[1] = log["treasury"][i].id /\ k \in Nat \X Number
          /\ participations[k].index = log["treasury"][i].of
      BY <3>2 DEF ClaimedBy, IInv, DocumentsRight, ParticipationsRight
    <3>4. k = <<log["treasury"][i].id, k[2]>>
      BY <3>3
    <3> QED
      BY <3>2, <3>3, <3>4
  <2> QED
    BY <2>1, <2>2
<1>2. PICK id, value :
        /\ writes' = writes \cup {Started(p, i, "document", id, value)}
        /\ log["treasury"][i].kind = "claim" =>
             <<id, value>> \in DOMAIN participations /\ participations[<<id, value>>].index = log["treasury"][i].of
  BY <1>1
<1>3. PICK v : v = Started(p, i, "document", id, value)
  OBVIOUS
<1>4. /\ v.service = "treasury" /\ v.what = "document" /\ v.action = i /\ v.id = id /\ v.value = value
      /\ v \in Ending' /\ \A w \in Ending' : w \in Ending \/ w = v
  BY <1>0, <1>2, <1>3 DEF Ending, Started
<1>5. \A j \in active["treasury"] : Written(j)' \/ Handled(j)'
  <2>1. \A j \in active["treasury"] : j \in DOMAIN log["treasury"]
    BY DEF IInv, ActiveRight, Service
  <2>2. \A j : Handled(j) => Handled(j)'
    BY <1>0 DEF Handled, Current
  <2> QED
    BY <2>1, <2>2, WrittenStays DEF Ends
<1>6. ASSUME NEW q \in Pass, pass'[q].service = "treasury", pass'[q].pc = "await", NEW j \in Current(q)'
      PROVE  \E w \in Ending' : w.action = j
  <2>1. q = p
    BY <1>0, <1>6
  <2>2. j = i
    <3>1. Current(p)' = Current(p)
      BY <1>0 DEF Current
    <3> QED
      BY <1>6, <2>1, <3>1, OnlyOne
  <2> QED
    BY <1>4, <2>2
<1>7. ClaimOf(v)'
  BY <1>0, <1>2, <1>4 DEF ClaimOf, ActionOf, documents
<1>8. \A w \in Ending' : ClaimOf(w)'
  BY <1>4, <1>7, ClaimsStay
<1> QED
  BY <1>0, <1>5, <1>6, <1>8 DEF Ends

\* A write of the treasury takes effect.
LEMMA EndsWrite ==
  ASSUME IInv, Control, InTurn, Ends, LogGrows, [Next]_vars, NEW w \in writes, Write(w),
         w.service = "treasury"
  PROVE  Ends'
<1> DEFINE p == w.pass
<1> DEFINE i == w.action
<1>0. /\ Awaited(w) /\ writes' = writes \ {w} /\ log' = log
      /\ p \in Pass /\ pass[p].pc \in {"document", "await"} /\ pass[p].service = "treasury"
      /\ i \in Current(p) /\ i \in DOMAIN log["treasury"]
      /\ \A j \in Current(p) : j = i
      /\ \A q \in Pass : pass[q].service = "treasury" /\ pass[q].pc # "idle" => q = p
  <2>1. Awaited(w) /\ Held(w) /\ i \in DOMAIN log["treasury"]
    BY WriteAwaits, WriteIs DEF Control, Hands
  <2>2. p \in Pass /\ pass[p].pc \in {"document", "await"} /\ pass[p].service = "treasury" /\ i \in Current(p)
    BY <2>1 DEF Held
  <2>3. \A j \in Current(p) : j = i
    BY <2>2, OnlyOne
  <2>4. \A q \in Pass : pass[q].service = "treasury" /\ pass[q].pc # "idle" => q = p
    BY <2>2 DEF Control, Alone
  <2> QED
    BY <2>1, <2>2, <2>3, <2>4 DEF Awaited
<1>1. active'["treasury"] \subseteq active["treasury"] \cup {i}
  <2>1. active' = active \/ active' = [active EXCEPT ![w.service] = @ \cup {w.action}]
    BY DEF Write, WriteAction, WriteCounter, WriteProject, WriteFunding, WriteParticipation,
           WriteEnd, WriteClaim
  <2> QED
    BY <2>1 DEF IInv, ActiveRight, Service
<1>2. \/ pass' = pass
      \/ /\ pass[p].pc = "await" /\ Writes(p) = {w}
         /\ Proceed(p, pass[p].actions \ {i}, nextId[w.service])
  BY <1>0, ControlAwaited
<1>3. w \in Ending => Written(i)'
  BY WrittenNow
<1>4. \A j \in active["treasury"] : j \in DOMAIN log["treasury"]
  BY DEF IInv, ActiveRight, Service
<1>5. Ending' = Ending \ {w}
  BY <1>0 DEF Ending
<1>6. \A v \in Ending' : ClaimOf(v)'
  BY <1>5, ClaimsStay
<1>7. pass[p].pc = "await" => Written(i) \/ \E v \in Ending : v.action = i
  BY <1>0 DEF Ends
<1>8. CASE pass' = pass
  <2>1. ASSUME NEW j \in active'["treasury"] PROVE Written(j)' \/ Handled(j)'
    <3>1. CASE j = i
      BY <1>0, <1>8, <3>1 DEF Handled, Current
    <3>2. CASE j \in active["treasury"]
      <4>1. Written(j) \/ Handled(j)
        BY <3>2 DEF Ends
      <4> QED
        BY <1>4, <1>8, <3>2, <4>1, WrittenStays DEF Handled, Current
    <3> QED
      BY <1>1, <3>1, <3>2
  <2>2. ASSUME NEW q \in Pass, pass'[q].service = "treasury", pass'[q].pc = "await", NEW j \in Current(q)'
        PROVE  Written(j)' \/ \E v \in Ending' : v.action = j
    <3>1. q = p /\ j = i
      BY <1>0, <1>8, <2>2 DEF Current
    <3> QED
      BY <1>0, <1>3, <1>5, <1>7, <1>8, <2>2, <3>1, WrittenStays
  <2> QED
    BY <1>6, <2>1, <2>2 DEF Ends
<1>9. CASE /\ pass[p].pc = "await" /\ Writes(p) = {w}
           /\ Proceed(p, pass[p].actions \ {i}, nextId[w.service])
  <2>1. Written(i)'
    <3>1. CASE \E v \in Ending : v.action = i
      <4>1. PICK v \in Ending : v.action = i
        BY <3>1
      <4>2. v \in Writes(p)
        BY <1>0, <4>1, OneHand DEF Ending
      <4> QED
        BY <1>3, <1>9, <4>1, <4>2
    <3> QED
      BY <1>0, <1>7, <1>9, <3>1, WrittenStays
  <2>2. ASSUME NEW j \in active'["treasury"] PROVE Written(j)' \/ Handled(j)'
    <3>1. CASE j \in active["treasury"] /\ j # i
      <4>1. ~ Handled(j)
        BY <1>0, <3>1 DEF Handled
      <4>2. Written(j)
        BY <3>1, <4>1 DEF Ends
      <4> QED
        BY <1>4, <3>1, <4>2, WrittenStays
    <3> QED
      BY <1>1, <2>1, <3>1
  <2>3. ASSUME NEW q \in Pass, pass'[q].service = "treasury", pass'[q].pc = "await" PROVE FALSE
    <3>1. nextId[w.service] \in Nat /\ pass[p].actions \ {i} \in SUBSET DOMAIN log[pass[p].service]
      BY <1>0 DEF IInv, MemoryRight, PassesRight, PassRight, Service
    <3>2. /\ \A r \in Pass \ {p} : pass'[r] = pass[r]
          /\ pass'[p].pc \in {"idle", "next"}
      BY <1>0, <1>9, <3>1, ProceedIs, IdleIs
    <3> QED
      BY <1>0, <2>3, <3>2
  <2> QED
    BY <1>6, <2>2, <2>3 DEF Ends
<1> QED
  BY <1>2, <1>8, <1>9

LEMMA EndsInv ==
  ASSUME IInv, Control, InTurn, Ends, Calm, [Next]_vars
  PROVE  Ends'
<1>0. LogGrows
  BY NextIsStep DEF StepIs
<1>1. CASE \E s \in Service : \E a \in Inputs(s) : Reduce(s, a)
  <2>1. UNCHANGED <<active, writes, pass>>
    BY <1>1 DEF Reduce
  <2> QED
    BY <1>0, <2>1, EndsStay DEF Ending
<1>2. ASSUME NEW p \in Pass, NEW s \in Service, NEW n \in 0 .. Len(log[s]), FetchState(p, s, n) PROVE Ends'
  <2>1. UNCHANGED <<active, writes>>
    BY <1>2 DEF FetchState
  <2> QED
    BY <1>0, <1>2, <2>1, CalmFetch, EndsStay DEF Ending
<1>3. ASSUME NEW p \in Pass, Find(p) \/ FindNothing(p) \/ SaveAction(p) PROVE Ends'
  <2>1. /\ UNCHANGED writes /\ active'["treasury"] = active["treasury"]
        /\ \A q \in Pass \ {p} : pass'[q] = pass[q]
        /\ pass[p].pc \notin {"document", "await"} /\ pass'[p].pc # "await"
    BY <1>3, FindIs DEF Service
  <2> QED
    BY <1>0, <2>1, EndsStay DEF Ending
<1>4. ASSUME NEW p \in Pass, UpsertCampaign(p) PROVE Ends'
  BY <1>0, <1>4, CampaignIs, EndsStay DEF Ending
<1>5. ASSUME NEW p \in Pass, Starts(p) PROVE Ends'
  <2>1. CASE pass[p].service # "treasury"
    <3>1. Ending' = Ending
      BY <1>5, <2>1, StartsAre DEF Ending
    <3> QED
      BY <1>0, <1>5, <2>1, <3>1, StartsAre, EndsStay
  <2>2. CASE pass[p].service = "treasury"
    <3>1. ~ StartCreate(p)
      <4>1. ASSUME StartCreate(p) PROVE FALSE
        <5>1. PICK i \in Current(p) : log["treasury"][i].kind = "create"
          BY <2>2, <4>1 DEF StartCreate
        <5>2. i \in DOMAIN log["treasury"]
          BY <2>2, CurrentIs
        <5> QED
          BY <5>1, <5>2, KindIs DEF IInv, Kinds, Service
      <4> QED
        BY <4>1
    <3>2. ~ StartParticipation(p)
      BY <2>2 DEF StartParticipation, In
    <3> QED
      BY <1>0, <1>5, <2>2, <3>1, <3>2, EndsAction, EndsDocument DEF Starts
  <2> QED
    BY <2>1, <2>2
<1>6. ASSUME NEW p \in Pass, ClaimFails(p) \/ ParticipationFails(p) \/ Throw(p) PROVE Ends'
  BY <1>0, <1>6, CalmAbandon, IdleIs, EndsStay DEF Ending
<1>7. ASSUME NEW w \in writes, Write(w) PROVE Ends'
  <2>1. CASE w.service = "treasury"
    BY <1>0, <1>7, <2>1, EndsWrite
  <2>2. CASE w.service # "treasury"
    <3>1. Awaited(w) /\ Ending' = Ending
      BY <1>7, <2>2, WriteAwaits DEF Awaited, Ending
    <3>2. active'["treasury"] = active["treasury"]
      <4>1. active' = active \/ active' = [active EXCEPT ![w.service] = @ \cup {w.action}]
        BY <1>7 DEF Write, WriteAction, WriteCounter, WriteProject, WriteFunding, WriteParticipation,
           WriteEnd, WriteClaim
      <4> QED
        BY <2>2, <4>1 DEF IInv, ActiveRight, Service
    <3>3. \/ pass' = pass
          \/ Proceed(w.pass, pass[w.pass].actions \ {w.action}, nextId[w.service])
      BY <3>1, ControlAwaited
    <3>4. CASE Proceed(w.pass, pass[w.pass].actions \ {w.action}, nextId[w.service])
      <4>1. /\ w.pass \in Pass /\ pass[w.pass].service = w.service
            /\ nextId[w.service] \in Nat
            /\ pass[w.pass].actions \ {w.action} \in SUBSET DOMAIN log[pass[w.pass].service]
        BY WriteIs DEF Control, Hands, Held, IInv, MemoryRight, PassesRight, PassRight
      <4>2. /\ \A q \in Pass \ {w.pass} : pass'[q] = pass[q]
            /\ pass'[w.pass].pc # "await"
        BY <3>4, <4>1, ProceedIs, IdleIs
      <4> QED
        BY <1>0, <2>2, <3>1, <3>2, <4>1, <4>2, EndsStay
    <3> QED
      BY <1>0, <3>1, <3>2, <3>3, <3>4, EndsStay
  <2> QED
    BY <2>1, <2>2
<1>8. CASE Crash
  <2>1. /\ writes = {} /\ writes' = {} /\ active' = active
        /\ \A p \in Pass : pass[p].pc \notin {"document", "await"} /\ pass'[p].pc # "await"
    <3>1. /\ writes = {} /\ \A p \in Pass : ~ InTheMiddle(p)
      BY <1>8 DEF Crash, Calm, Disturbed
    <3>2. \A p \in Pass : pass[p].pc \notin {"document", "await"}
      BY <3>1 DEF InTheMiddle, Control, Hands, Writes
    <3> QED
      BY <1>8, <3>1, <3>2, CalmCrash, IdleIs DEF Crash
  <2> QED
    BY <1>0, <2>1, EndsStay DEF Ending
<1>9. CASE UNCHANGED vars
  BY <1>0, <1>9, EndsStay DEF vars, Ending
<1> QED
  BY <1>1, <1>2, <1>3, <1>4, <1>5, <1>6, <1>7, <1>8, <1>9, StepsAre DEF CalmSteps

LEMMA EndsAreWritten ==
  ASSUME Ends
  PROVE  TreasuryIsWritten
<1>1. \A i : Settled("treasury", i) => ~ Handled(i)
  BY DEF Settled, Handled, Current
<1> QED
  BY <1>1 DEF Ends, TreasuryIsWritten, Written

-----------------------------------------------------------------------------
(* What the steady invariant says holds until the first disturbance. *)
Steady == disturbed = 0 => Control /\ Numbered /\ Ahead /\ InTurn /\ Ends

LEMMA InitSteady == Init => Steady
<1> SUFFICES ASSUME Init PROVE Control /\ Numbered /\ Ahead /\ InTurn /\ Ends
  BY DEF Steady
<1>0. /\ writes = {} /\ \A p \in Pass : pass[p].pc = "idle"
      /\ campaigns = <<>> /\ projects = <<>> /\ participations = <<>> /\ fundings = <<>>
      /\ active["participation"] = {} /\ active["treasury"] = {}
  BY IdleIs DEF Init, Service
<1>1. Control
  BY <1>0 DEF Control, Alone, Hands
<1>2. Numbered
  BY <1>0 DEF Numbered
<1>3. Ahead
  BY <1>0 DEF Ahead, IdsAreAhead
<1>4. InTurn
  <2>1. Begun = {} /\ Filed = {} /\ Joining = {}
    BY <1>0 DEF Begun, Filed, Pending, Joining
  <2> QED
    BY <1>0, <2>1 DEF InTurn, Ordered, Counted, Indexed, Taken
<1>5. Ends
  BY <1>0 DEF Ends, Ending
<1> QED
  BY <1>1, <1>2, <1>3, <1>4, <1>5

LEMMA DisturbedGrows ==
  ASSUME IInv, [Next]_vars, disturbed' = 0
  PROVE  disturbed = 0
<1>0. disturbed \in Nat
  BY PlatformAssumption DEF IInv
<1>1. ASSUME NEW p \in Pass, Update(p) \/ Throw(p) PROVE disturbed = 0
  <2>1. \/ UNCHANGED disturbed \/ Disturbed
        \/ disturbed' = IF disturbed = 0 THEN 1 ELSE disturbed
    <3>1. CASE Update(p)
      BY <3>1 DEF Update, FetchState, Find, FindNothing, UpsertCampaign, SaveAction, StartAction, StartCreate,
         StartUpdate, StartClaim, ClaimFails, StartParticipation, ParticipationFails
    <3>2. CASE Throw(p)
      BY <3>2 DEF Throw
    <3> QED
      BY <1>1, <3>1, <3>2
  <2> QED
    BY <1>0, <2>1 DEF Disturbed
<1>2. ASSUME NEW w \in writes, Write(w) PROVE disturbed = 0
  BY <1>2, WriteAwaits DEF Awaited
<1>3. CASE \E s \in Service : \E a \in Inputs(s) : Reduce(s, a)
  BY <1>3 DEF Reduce
<1>4. CASE Crash \/ UNCHANGED vars
  BY <1>0, <1>4 DEF Crash, Disturbed, vars
<1> QED
  BY <1>1, <1>2, <1>3, <1>4 DEF Next

LEMMA StepSteady == IInv /\ IInv' /\ Steady /\ [Next]_vars => Steady'
<1> SUFFICES ASSUME IInv, IInv', Steady, [Next]_vars, disturbed' = 0
             PROVE  Control' /\ Numbered' /\ Ahead' /\ InTurn' /\ Ends'
  BY DEF Steady
<1>1. Calm /\ Control /\ Numbered /\ Ahead /\ InTurn /\ Ends
  BY DisturbedGrows DEF Calm, Steady
<1> QED
  BY <1>1, ControlInv, NumberedInv, AheadInv, InTurnInv, EndsInv

(* As long as passes neither overlap nor stop in the middle, ids are ahead *)
(* of those of the contracts, while indexes and counters are those of the  *)
(* contract, and ends and claims are written where they belong.            *)
THEOREM DocumentsAreSteady == Spec => []DocumentsWhileSteady
<1>1. Init => IInv /\ Steady
  BY InitInv, InitSteady
<1>2. (IInv /\ Steady) /\ [Next]_vars => (IInv /\ Steady)'
  BY StepInv, StepSteady
<1>3. IInv /\ Steady => DocumentsWhileSteady
  BY TurnsAreRanks, EndsAreWritten DEF Steady, Ahead, DocumentsWhileSteady
<1> QED
  BY <1>1, <1>2, <1>3, PTL DEF Spec
=============================================================================
