------------------------------- MODULE Platform -------------------------------
(***************************************************************************)
(* The services of the platform: CampaignContractService,                  *)
(* ProjectContractService, ParticipationContractService,                   *)
(* FundingContractService and TreasuryManagerContractService, whose        *)
(* update() is all that the worker of the platform ever calls.  Each walks *)
(* the actions that its contract has reduced and writes documents, some of *)
(* them those of another service.                                          *)
(*                                                                         *)
(* Jobs overlap, so that a service may have several passes at a time; they *)
(* share its next id and its action state.  A pass starts the saves of an  *)
(* action together: after an error those left go on while it starts over.  *)
(*                                                                         *)
(*   log             per service, the actions its contract has reduced     *)
(*   active          per service, the actions marked active                *)
(*   nextId          per service, _nextCampaignId and the like             *)
(*   actionState     per service, _actionState, as a number of actions     *)
(*   campaigns       documents by campaignId: the action that described it *)
(*                   (0 for none), its counter of projects, its state      *)
(*   projects        documents by projectId: the actions that created and  *)
(*                   updated it last                                       *)
(*   participations  documents by campaign and project: index, and the     *)
(*                   action that claimed for it                            *)
(*   fundings        documents by fundingId: its action, and its state     *)
(*   writes          the saves and upserts that are under way              *)
(*   pass            the local variables of each pass                      *)
(*   disturbed       history: how often a pass began while another one of  *)
(*                   its service was not over, or stopped between a        *)
(*                   document and its action                               *)
(***************************************************************************)
EXTENDS Integers, Sequences, FiniteSets

CONSTANTS Pass,          \* passes that overlap
          Serves,        \* bound: the services that each is a pass of
          NoPass,        \* no pass
          First,         \* per service, the actions reduced at the start
          MaxActions,    \* bound: actions of all services
          MaxDisturbed   \* bound: disturbances

Service == {"campaign", "project", "participation", "funding", "treasury"}

Number == 0 .. MaxActions
Kind == {"create", "update", "complete", "abort", "claim"}

\* What an action is about: a campaign, project or funding, and the project or
\* index in the campaign.
Action == [kind : Kind, id : Number, of : Number]

\* The kinds of actions of a contract, and those of which it admits one for each id.
Kinds(s) ==
  CASE s \in {"campaign", "participation"} -> {"create"}
    [] s \in {"project", "funding"} -> {"create", "update"}
    [] s = "treasury" -> {"complete", "abort", "claim"}

Once == [participation |-> {{"create"}}, funding |-> {{"update"}},
         treasury |-> {{"complete", "abort"}, {"claim"}}, campaign |-> {}, project |-> {}]

\* What the contracts can have reduced.
Legal(actions) ==
  \A s \in Service : \A i \in DOMAIN actions[s] :
    LET a == actions[s][i]
    IN  /\ a.kind \in Kinds(s)
        /\ a.of # 0 => s = "participation" \/ a.kind = "claim"
        /\ \A h \in DOMAIN actions[s] : \A kinds \in Once[s] :
             /\ {a.kind, actions[s][h].kind} \subseteq kinds
             /\ a.id = actions[s][h].id /\ a.of = actions[s][h].of
             => i = h

ActionsOf(actions) == UNION {{s} \X DOMAIN actions[s] : s \in Service}

ASSUME PlatformAssumption ==
  /\ IsFiniteSet(Pass) /\ NoPass \notin Pass /\ MaxActions \in Nat /\ MaxDisturbed \in Nat
  /\ First \in [Service -> Seq(Action)] /\ Legal(First)
  /\ Cardinality(ActionsOf(First)) <= MaxActions
  /\ Serves \in [Pass -> SUBSET Service]

VARIABLES log, active, nextId, actionState, campaigns, projects, participations,
          fundings, writes, pass, disturbed

memory == <<nextId, actionState>>
documents == <<campaigns, projects, participations, fundings>>
vars == <<log, active, memory, documents, writes, pass, disturbed>>

\* The actions of a service that create (participate, fund), or that end or claim.
Are(s, kinds) == {i \in DOMAIN log[s] : log[s][i].kind \in kinds}

\* The id that the contract gives to what action i of a service creates.
OwnId(s, i) == Cardinality({h \in Are(s, {"create"}) : h < i})

Created(s) == 0 .. Cardinality(Are(s, {"create"})) - 1

Participants(c) == {i \in Are("participation", {"create"}) : log["participation"][i].id = c}

\* The index of a project in its campaign, on the contract.
OwnIndex(i) == Cardinality({h \in Participants(log["participation"][i].id) : h <= i})

Idle == [pc |-> "idle", service |-> "campaign", actions |-> {}]

Init ==
  /\ log = First
  /\ active = [s \in Service |-> {}]
  /\ nextId = [s \in Service |-> 0]
  /\ actionState = [s \in Service |-> 0]
  /\ campaigns = <<>> /\ projects = <<>> /\ participations = <<>> /\ fundings = <<>>
  /\ writes = {}
  /\ pass = [p \in Pass |-> Idle]
  /\ disturbed = 0

-----------------------------------------------------------------------------
(***************************************************************************)
(* The contracts.                                                          *)
(***************************************************************************)
Ended(c) == \E i \in Are("treasury", {"complete", "abort"}) : log["treasury"][i].id = c
Completed(c) == \E i \in Are("treasury", {"complete"}) : log["treasury"][i].id = c

Some(kind, ids, of) == [kind : {kind}, id : ids, of : of]
Recorded(s) == {log[s][i] : i \in DOMAIN log[s]}

Endings ==
  UNION {Some(kind, {c \in Created("campaign") : ~ Ended(c)}, {0}) : kind \in {"complete", "abort"}}

Claims ==
  UNION {Some("claim", {c}, 1 .. Cardinality(Participants(c))) :
           c \in {x \in Created("campaign") : Completed(x)}}

\* The actions that a contract admits: creations, updates of what exists and one
\* refund of each funding, one participation of a project in a campaign, one end of
\* a campaign, and one claim for each index of a completed one.
Admitted(s) ==
  CASE s = "campaign" -> Some("create", {0}, {0})
    [] s = "project" -> Some("create", {0}, {0}) \cup Some("update", Created(s), {0})
    [] s = "funding" -> {a \in Some("create", {0}, {0}) : Created("campaign") # {}}
                          \cup (Some("update", Created(s), {0}) \ Recorded(s))
    [] s = "participation" -> Some("create", Created("campaign"), Created("project")) \ Recorded(s)
    [] s = "treasury" -> Endings \cup (Claims \ Recorded(s))

Actions == ActionsOf(log)

\* Bound: actions of all services.
Inputs(s) == IF Cardinality(Actions) < MaxActions THEN Admitted(s) ELSE {}

\* An action is dispatched and reduced, and fetch...Actions() records it (ActionFeed).
Reduce(s, a) ==
  /\ log' = [log EXCEPT ![s] = Append(@, a)]
  /\ UNCHANGED <<active, memory, documents, writes, pass, disturbed>>

-----------------------------------------------------------------------------
(***************************************************************************)
(* What the passes have in common: fetch(), the state of the contract, and *)
(* the actions that are not active.                                        *)
(***************************************************************************)
Goto(p, label) == pass' = [pass EXCEPT ![p].pc = label]
In(p, s, label) == pass[p].pc = label /\ pass[p].service = s

Disturbed == disturbed < MaxDisturbed /\ disturbed' = disturbed + 1

Under(s) == {p \in Pass : pass[p].pc # "idle" /\ pass[p].service = s}

\* The actions that are left; the pass is over when none is.  What it has put into
\* the memory of its service is set anew by the next one: it is forgotten, unless
\* another pass is under way.
Proceed(p, ids, next) ==
  LET s == pass[p].service
      forgotten == ids = {} /\ Under(s) = {p}
  IN  /\ pass' = [pass EXCEPT ![p] = IF ids = {} THEN Idle
                                     ELSE [@ EXCEPT !.pc = "next", !.actions = ids]]
      /\ nextId' = [nextId EXCEPT ![s] = IF forgotten THEN 0 ELSE next]
      /\ actionState' = [actionState EXCEPT ![s] = IF forgotten THEN 0 ELSE @]

Return(p) == Proceed(p, {}, nextId[pass[p].service])

\* Mutant: the next id is that of the first action which is not active.
NextIdActive(s, n) == Cardinality(Are(s, {"create"}) \cap active[s])

\* The next id after n actions.
NextId(s, n) == Cardinality({i \in Are(s, {"create"}) : i <= n})

\* fetch...State(), answered by a node that may lag behind.
FetchState(p, s, n) ==
  /\ pass[p].pc = "idle"
  /\ actionState' = [actionState EXCEPT ![s] = n]
  /\ nextId' = [nextId EXCEPT ![s] = IF s \in {"campaign", "project", "funding"}
                                     THEN NextId(s, n) ELSE @]
  /\ pass' = [pass EXCEPT ![p].pc = "find", ![p].service = s]
  /\ IF Under(s) = {} THEN UNCHANGED disturbed ELSE Disturbed
  /\ UNCHANGED <<log, active, documents, writes>>

\* Mutant: the filter on active is dropped.
AllReduced(s) == 1 .. actionState[s]

NotActive(s) == 1 .. actionState[s] \ active[s]

\* The action with the state is recorded (ActionFeed); another pass may have put
\* a newer or an older state.
Find(p) ==
  /\ pass[p].pc = "find"
  /\ actionState[pass[p].service] > 0
  /\ Proceed(p, NotActive(pass[p].service), nextId[pass[p].service])
  /\ UNCHANGED <<log, active, documents, writes, disturbed>>

\* It is not, or nothing was reduced.
FindNothing(p) ==
  /\ pass[p].pc = "find"
  /\ Return(p)
  /\ UNCHANGED <<log, active, documents, writes, disturbed>>

\* The first of the actions found.
Current(p) == {i \in pass[p].actions : \A h \in pass[p].actions : i <= h}

\* The document with a key, with its defaults if there is none yet, and with the
\* new value put in its place.
Document(docs, key, default) == IF key \in DOMAIN docs THEN docs[key] ELSE default
Upsert(docs, key, doc) == [k \in DOMAIN docs \cup {key} |-> IF k = key THEN doc ELSE docs[k]]

NewCampaign == [action |-> 0, counter |-> 0, state |-> "notEnded"]
NewProject == [create |-> 0, update |-> 0]
NewParticipation == [index |-> 0, claim |-> 0]
NewFunding == [action |-> 0, refunded |-> FALSE]

Writes(p) == {w \in writes : w.pass = p}

\* A write of an action, to the document with an id; value is what is written.
Started(p, i, what, id, value) ==
  [pass |-> p, service |-> pass[p].service, action |-> i, what |-> what, id |-> id, value |-> value]

-----------------------------------------------------------------------------
(***************************************************************************)
(* updateCampaignActions()                                                 *)
(***************************************************************************)

\* The content of the campaign is fetched; its id is counted on from that of the
\* contract, which has counted these campaigns already.
UpsertCampaign(p) ==
  /\ In(p, "campaign", "next")
  /\ \E i \in Current(p) :
       LET id == nextId["campaign"]
       IN  campaigns' = Upsert(campaigns, id,
                               [Document(campaigns, id, NewCampaign) EXCEPT !.action = i])
  /\ Goto(p, "saveAction")
  /\ UNCHANGED <<log, active, memory, projects, participations, fundings, writes, disturbed>>

SaveAction(p) ==
  /\ In(p, "campaign", "saveAction")
  /\ active' = [active EXCEPT !["campaign"] = @ \cup Current(p)]
  /\ Proceed(p, pass[p].actions \ Current(p), nextId["campaign"] + 1)
  /\ UNCHANGED <<log, documents, writes, disturbed>>

-----------------------------------------------------------------------------
(***************************************************************************)
(* updateProjectActions(), updateFundings(), updateTreasuryManagers(): the *)
(* save of the action is started first.                                    *)
(***************************************************************************)
StartAction(p) ==
  /\ pass[p].pc = "next" /\ pass[p].service \in {"project", "funding", "treasury"}
  /\ \E i \in Current(p) : writes' = writes \cup {Started(p, i, "action", 0, 0)}
  /\ Goto(p, "document")
  /\ UNCHANGED <<log, active, memory, documents, disturbed>>

\* A project (its content is fetched before) or a funding is created.
StartCreate(p) ==
  /\ pass[p].pc = "document"
  /\ LET s == pass[p].service
     IN  /\ \E i \in Current(p) :
              /\ log[s][i].kind = "create"
              /\ writes' = writes \cup {Started(p, i, "document", nextId[s], 0)}
         /\ nextId' = [nextId EXCEPT ![s] = @ + 1]
  /\ Goto(p, "await")
  /\ UNCHANGED <<log, active, actionState, documents, disturbed>>

\* A project is updated, a funding refunded, a campaign ended.
StartUpdate(p) ==
  /\ pass[p].pc = "document"
  /\ \E i \in Current(p) :
       LET a == log[pass[p].service][i]
       IN  /\ a.kind \in {"update", "complete", "abort"}
           /\ writes' = writes \cup {Started(p, i, "document", a.id, 0)}
  /\ Goto(p, "await")
  /\ UNCHANGED <<log, active, memory, documents, disturbed>>

\* The participations that a claim is for: by campaign and index.
ClaimedBy(a) ==
  {k \in DOMAIN participations : k[1] = a.id /\ participations[k].index = a.of}

StartClaim(p) ==
  /\ pass[p].pc = "document"
  /\ \E i \in Current(p) :
       LET a == log[pass[p].service][i]
       IN  /\ a.kind = "claim"
           /\ \E k \in ClaimedBy(a) :
                writes' = writes \cup {Started(p, i, "document", a.id, k[2])}
  /\ Goto(p, "await")
  /\ UNCHANGED <<log, active, memory, documents, disturbed>>

\* fetch() starts over, or gives up after MaxRetries attempts.  What is under way
\* goes on, but for the write that fails, if it is one that does.
Abandon(p, failed) ==
  /\ Return(p)
  /\ writes' = {IF w.pass = p THEN [w EXCEPT !.pass = NoPass] ELSE w : w \in writes \ failed}
  /\ UNCHANGED <<log, active, documents>>

\* There is no such participation: findOne returns null.
ClaimFails(p) ==
  /\ pass[p].pc = "document"
  /\ \E i \in Current(p) :
       /\ log[pass[p].service][i].kind = "claim"
       /\ ClaimedBy(log[pass[p].service][i]) = {}
  /\ Abandon(p, {})
  /\ disturbed' = IF disturbed = 0 THEN 1 ELSE disturbed

-----------------------------------------------------------------------------
(***************************************************************************)
(* updateParticipations()                                                  *)
(***************************************************************************)

\* Mutant: the index is the counter.
IndexFromZero(c) == campaigns[c].counter

NextIndex(c) == campaigns[c].counter + 1

\* The campaign is loaded; action, campaign and participation are written together.
StartParticipation(p) ==
  /\ In(p, "participation", "next")
  /\ \E i \in Current(p) :
       LET a == log["participation"][i]
       IN  /\ a.id \in DOMAIN campaigns
           /\ writes' = writes \cup {Started(p, i, "action", 0, 0),
                                     Started(p, i, "campaign", a.id, NextIndex(a.id)),
                                     Started(p, i, "document", a.id, NextIndex(a.id))}
  /\ Goto(p, "await")
  /\ UNCHANGED <<log, active, memory, documents, disturbed>>

\* There is no such campaign.
ParticipationFails(p) ==
  /\ In(p, "participation", "next")
  /\ \E i \in Current(p) : log["participation"][i].id \notin DOMAIN campaigns
  /\ Abandon(p, {})
  /\ UNCHANGED disturbed

-----------------------------------------------------------------------------
(***************************************************************************)
(* Writes take effect.                                                     *)
(***************************************************************************)

\* Promise.all() goes on after the last write.
Awaited(w) ==
  /\ writes' = writes \ {w}
  /\ IF w.pass \in Pass /\ pass[w.pass].pc = "await" /\ Writes(w.pass) = {w}
     THEN Proceed(w.pass, pass[w.pass].actions \ {w.action}, nextId[w.service])
     ELSE UNCHANGED <<pass, memory>>
  /\ UNCHANGED <<log, disturbed>>

WriteAction(w) ==
  /\ w.what = "action"
  /\ active' = [active EXCEPT ![w.service] = @ \cup {w.action}]
  /\ Awaited(w)
  /\ UNCHANGED documents

WriteCounter(w) ==
  /\ w.what = "campaign"
  /\ campaigns' = [campaigns EXCEPT ![w.id].counter = w.value]
  /\ Awaited(w)
  /\ UNCHANGED <<active, projects, participations, fundings>>

WriteProject(w) ==
  /\ w.what = "document" /\ w.service = "project"
  /\ LET doc == Document(projects, w.id, NewProject)
     IN  projects' = Upsert(projects, w.id,
                            IF log["project"][w.action].kind = "create"
                            THEN [doc EXCEPT !.create = w.action]
                            ELSE [doc EXCEPT !.update = w.action])
  /\ Awaited(w)
  /\ UNCHANGED <<active, campaigns, participations, fundings>>

WriteFunding(w) ==
  /\ w.what = "document" /\ w.service = "funding"
  /\ LET doc == Document(fundings, w.id, NewFunding)
     IN  fundings' = Upsert(fundings, w.id,
                            IF log["funding"][w.action].kind = "create"
                            THEN [doc EXCEPT !.action = w.action]
                            ELSE [doc EXCEPT !.refunded = TRUE])
  /\ Awaited(w)
  /\ UNCHANGED <<active, campaigns, projects, participations>>

WriteParticipation(w) ==
  /\ w.what = "document" /\ w.service = "participation"
  /\ LET key == <<w.id, log["participation"][w.action].of>>
         doc == Document(participations, key, NewParticipation)
     IN  participations' = Upsert(participations, key, [doc EXCEPT !.index = w.value])
  /\ Awaited(w)
  /\ UNCHANGED <<active, campaigns, projects, fundings>>

\* A campaign without a document gets one, with nothing but its id and state.
WriteEnd(w) ==
  /\ w.what = "document" /\ w.service = "treasury" /\ log["treasury"][w.action].kind # "claim"
  /\ campaigns' = Upsert(campaigns, w.id, [Document(campaigns, w.id, NewCampaign)
                                             EXCEPT !.state = log["treasury"][w.action].kind])
  /\ Awaited(w)
  /\ UNCHANGED <<active, projects, participations, fundings>>

WriteClaim(w) ==
  /\ w.what = "document" /\ w.service = "treasury" /\ log["treasury"][w.action].kind = "claim"
  /\ participations' = [participations EXCEPT ![<<w.id, w.value>>].claim = w.action]
  /\ Awaited(w)
  /\ UNCHANGED <<active, campaigns, projects, fundings>>

\* Of action and document, one may be written without the other.
InTheMiddle(p) == pass[p].pc \in {"saveAction", "document"} \/ Writes(p) # {}

\* An awaited call throws: a query, or a write.
Throw(p) ==
  /\ pass[p].pc # "idle"
  /\ \E failed \in {{}} \cup {{w} : w \in Writes(p)} : Abandon(p, failed)
  /\ IF InTheMiddle(p) THEN Disturbed ELSE UNCHANGED disturbed

\* The process stops.
Crash ==
  /\ nextId' = [s \in Service |-> 0] /\ actionState' = [s \in Service |-> 0]
  /\ writes' = {} /\ pass' = [p \in Pass |-> Idle]
  /\ IF writes # {} \/ \E p \in Pass : InTheMiddle(p) THEN Disturbed ELSE UNCHANGED disturbed
  /\ UNCHANGED <<log, active, documents>>

-----------------------------------------------------------------------------
Update(p) ==
  \/ \E s \in Serves[p] : \E n \in 0 .. Len(log[s]) : FetchState(p, s, n)
  \/ Find(p) \/ FindNothing(p)
  \/ UpsertCampaign(p) \/ SaveAction(p)
  \/ StartAction(p) \/ StartCreate(p) \/ StartUpdate(p) \/ StartClaim(p) \/ ClaimFails(p)
  \/ StartParticipation(p) \/ ParticipationFails(p)

Write(w) ==
  \/ WriteAction(w) \/ WriteCounter(w) \/ WriteProject(w) \/ WriteFunding(w)
  \/ WriteParticipation(w) \/ WriteEnd(w) \/ WriteClaim(w)

Next ==
  \/ \E s \in Service : \E a \in Inputs(s) : Reduce(s, a)
  \/ \E p \in Pass : Update(p) \/ Throw(p)
  \/ \E w \in writes : Write(w)
  \/ Crash

Spec == Init /\ [][Next]_vars

-----------------------------------------------------------------------------
(***************************************************************************)
(* Properties.                                                             *)
(***************************************************************************)
PC == {"idle", "find", "next", "saveAction", "document", "await"}

TypeOK ==
  /\ log \in [Service -> Seq(Action)] /\ Cardinality(Actions) <= MaxActions
  /\ \A s \in Service : active[s] \subseteq DOMAIN log[s] /\ actionState[s] \in 0 .. Len(log[s])
  /\ nextId \in [Service -> Nat]
  /\ \A id \in DOMAIN campaigns :
       campaigns[id] \in [action : {0} \cup Are("campaign", {"create"}),
                          counter : Nat, state : {"notEnded", "complete", "abort"}]
  /\ \A id \in DOMAIN projects :
       projects[id] \in [create : {0} \cup Are("project", {"create"}),
                         update : {0} \cup Are("project", {"update"})]
  /\ \A k \in DOMAIN participations :
       participations[k] \in [index : Nat \ {0}, claim : {0} \cup Are("treasury", {"claim"})]
  /\ \A id \in DOMAIN fundings :
       fundings[id] \in [action : {0} \cup Are("funding", {"create"}), refunded : BOOLEAN]
  /\ \A w \in writes : /\ w.pass \in Pass \cup {NoPass} /\ w.action \in DOMAIN log[w.service]
                       /\ w.what \in {"action", "campaign", "document"}
                       /\ w.id \in Nat /\ w.value \in Nat
                       /\ w.what = "campaign" => w.id \in DOMAIN campaigns
  /\ \A p \in Pass : /\ pass[p].pc \in PC /\ pass[p].service \in Service
                     /\ pass[p].actions \subseteq DOMAIN log[pass[p].service]
  /\ disturbed \in 0 .. MaxDisturbed + 1

\* No write of an action is under way, and no pass is about to start one.
Settled(s, i) ==
  /\ \A w \in writes : w.service = s => w.action # i
  /\ \A p \in Pass : pass[p].service = s => i \notin pass[p].actions

\* What is created is never filed under the id that its contract gave it, but under
\* one that belongs, or will belong, to a later one.
IdsAreAhead ==
  /\ \A id \in DOMAIN campaigns :
       campaigns[id].action # 0 => id > OwnId("campaign", campaigns[id].action)
  /\ \A id \in DOMAIN projects :
       projects[id].create # 0 => id > OwnId("project", projects[id].create)
  /\ \A id \in DOMAIN fundings :
       fundings[id].action # 0 => id > OwnId("funding", fundings[id].action)

\* Participations have the index that they have on the contract, and the counter is
\* the number of those that are active.
IndexesAreRanks ==
  \A i \in active["participation"] :
    LET a == log["participation"][i]
    IN  Settled("participation", i) =>
          /\ <<a.id, a.of>> \in DOMAIN participations
          /\ participations[<<a.id, a.of>>].index = OwnIndex(i)
          /\ (\A h \in Participants(a.id) : Settled("participation", h)) =>
               campaigns[a.id].counter = Cardinality(Participants(a.id) \cap active["participation"])

\* A campaign has the state that an active action gave it, and what is claimed is
\* written to the participation that it is for.
TreasuryIsWritten ==
  \A i \in active["treasury"] :
    LET a == log["treasury"][i]
    IN  Settled("treasury", i) =>
          IF a.kind = "claim"
          THEN \E k \in DOMAIN participations : /\ k[1] = a.id /\ participations[k].claim = i
                                               /\ participations[k].index = a.of
          ELSE a.id \in DOMAIN campaigns /\ campaigns[a.id].state = a.kind

(* What the documents say of the contracts as long as passes neither       *)
(* overlap nor stop in the middle, whatever the order in which the         *)
(* services run: ids are wrong by what was found in one pass, while the    *)
(* indexes in a campaign, and what is written by them, are right.          *)
DocumentsWhileSteady == disturbed = 0 => IdsAreAhead /\ IndexesAreRanks /\ TreasuryIsWritten

\* The document that an action writes bears its mark.
Effective(s, i) ==
  LET a == log[s][i]
  IN  CASE s = "campaign" -> \E id \in DOMAIN campaigns : campaigns[id].action = i
        [] s = "project" -> a.kind = "create" => \E id \in DOMAIN projects : projects[id].create = i
        [] s = "funding" -> IF a.kind = "create"
                            THEN \E id \in DOMAIN fundings : fundings[id].action = i
                            ELSE a.id \in DOMAIN fundings /\ fundings[a.id].refunded
        [] s = "participation" -> <<a.id, a.of>> \in DOMAIN participations
        [] s = "treasury" -> IF a.kind = "claim"
                             THEN \E k \in DOMAIN participations : participations[k].claim = i
                             ELSE a.id \in DOMAIN campaigns /\ campaigns[a.id].state = a.kind

\* The action is active, its effect is not there, and nothing will bring it.
Lost(s, i) == i \in active[s] /\ ~ Effective(s, i) /\ Settled(s, i)

(* What is lost is lost for ever: a project whose action was saved before  *)
(* a stop, a claim that came before the participation, a campaign under    *)
(* whose id another one was written.  No later pass finds its action.      *)
LostIsForEver ==
  [][\A s \in Service : \A i \in active[s] : Lost(s, i) => Lost(s, i)']_vars
=============================================================================
