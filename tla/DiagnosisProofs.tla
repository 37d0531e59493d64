----------------------------- MODULE DiagnosisProofs -----------------------------
(***************************************************************************)
(* Theorems about Diagnosis: what a report of the doctor says was so, what *)
(* lasts is in it, and its rules agree.                                    *)
(***************************************************************************)
EXTENDS Diagnosis, FiniteSetTheorems, SequenceTheorems, TLAPS

-----------------------------------------------------------------------------
(* Findings. *)

\* A finding is what it was made of.
LEMMA FindingIs ==
    ASSUME NEW rule, NEW id, NEW severity, NEW evidence
    PROVE  LET f == Finding(rule, id, severity, evidence) IN
           /\ f.rule = rule /\ f.id = id /\ f.severity = severity
           /\ f.kind = "fact" /\ f.evidence = evidence
  BY DEF Finding

LEMMA CandidateIs ==
    ASSUME NEW rule, NEW id, NEW severity, NEW evidence
    PROVE  LET f == Candidate(rule, id, severity, evidence) IN
           /\ f.rule = rule /\ f.id = id /\ f.severity = severity
           /\ f.kind = "candidate" /\ f.evidence = evidence
  BY DEF Candidate, Finding

-----------------------------------------------------------------------------
(* The machine. *)

Answers == {"ok", "fails", "late"}

MachineInv ==
    /\ file \in Files
    /\ tools \in [DOMAIN tools -> Answers]
    /\ \A c \in Contracts : RequiredTools(c) \subseteq DOMAIN tools
    /\ docker \subseteq {"client", "daemon", "compose", "list"}
    /\ containers \in [DOMAIN containers -> Range(containers)]
    /\ DOMAIN containers \subseteq DOMAIN Includes
    /\ \A n \in DOMAIN containers : IsContainer(containers[n])
    /\ sessions \in [DOMAIN sessions -> Range(sessions)]
    /\ IsFiniteSet(DOMAIN sessions)
    /\ \A s \in DOMAIN sessions : IsSession(sessions[s])
    /\ IsHistory(runs)
    /\ changes \in 0..MaxChanges

LEMMA MachineBegins == Init => MachineInv
  <1> SUFFICES ASSUME Init PROVE MachineInv
    OBVIOUS
  <1>1. PICK w \in Worlds :
          /\ file = w.file /\ tree = w.tree /\ tools = w.tools /\ docker = w.docker
          /\ containers = w.containers /\ sessions = w.sessions /\ runs = w.runs
    BY DEF Init
  <1>2. changes \in 0..MaxChanges
    BY ChangesAssumption DEF Init
  <1>3. file \in Files
    BY <1>1 DEF Files
  <1>4. \A c \in Contracts : RequiredTools(c) \subseteq DOMAIN tools
    BY <1>1, FilesAssumption
  <1> QED
    BY <1>1, <1>2, <1>3, <1>4, WorldsAssumption DEF MachineInv, Answers

\* Adding a run to the history.
LEMMA HistoryGrows ==
    ASSUME NEW history, IsHistory(history), NEW run, IsRun(run),
           \A i \in DOMAIN history : history[i].name # run.name
    PROVE  /\ IsHistory(<<run>> \o history)
           /\ Len(<<run>> \o history) = Len(history) + 1
           /\ (<<run>> \o history)[1] = run
           /\ \A i \in DOMAIN history :
                i + 1 \in DOMAIN (<<run>> \o history) /\ (<<run>> \o history)[i + 1] = history[i]
           /\ \A i \in DOMAIN (<<run>> \o history) :
                i = 1 \/ (i - 1 \in DOMAIN history /\ (<<run>> \o history)[i] = history[i - 1])
  <1> DEFINE longer == <<run>> \o history
             S == Range(history) \cup {run}
  <1>1. history \in Seq(S) /\ <<run>> \in Seq(S)
    BY SeqDef DEF IsHistory
  <1>2. longer \in Seq(S) /\ Len(longer) = Len(history) + 1 /\ Len(history) \in Nat
    BY <1>1, ConcatProperties, LenProperties
  <1>3. longer[1] = run
    BY <1>1, ConcatProperties
  <1>4. \A i \in DOMAIN history : i + 1 \in DOMAIN longer /\ longer[i + 1] = history[i]
    BY <1>1, <1>2, ConcatProperties, LenProperties
  <1>5. \A i \in DOMAIN longer : i = 1 \/ (i - 1 \in DOMAIN history /\ longer[i] = history[i - 1])
    BY <1>1, <1>2, ConcatProperties, LenProperties
  <1> HIDE DEF longer
  <1>6. longer \in Seq(Range(longer))
    BY <1>2, SeqDef, LenProperties DEF Range
  <1>7. \A i \in DOMAIN longer : IsRun(longer[i])
    BY <1>3, <1>5 DEF IsHistory
  <1>8. ASSUME NEW i \in DOMAIN longer, NEW j \in DOMAIN longer, longer[i].name = longer[j].name
        PROVE  i = j
    <2>1. i \in Nat /\ j \in Nat
      BY <1>2, LenProperties
    <2> QED
      BY <1>3, <1>5, <1>8, <2>1 DEF IsHistory
  <1>9. IsHistory(longer)
    BY <1>6, <1>7, <1>8 DEF IsHistory
  <1> QED
    BY <1>2, <1>3, <1>4, <1>5, <1>9 DEF longer

LEMMA MachineStep == MachineInv /\ [Next]_vars => MachineInv'
  <1> SUFFICES ASSUME MachineInv, [Next]_vars PROVE MachineInv'
    OBVIOUS
  <1>1. CASE UNCHANGED <<machineVars, changes>>
    BY <1>1 DEF MachineInv, machineVars
  <1>2. CASE Machine
    <2>1. changes' \in 0..MaxChanges
      BY <1>2, ChangesAssumption DEF Machine, Changing, MachineInv
    <2>2. CASE EditContract
      BY <2>1, <2>2 DEF EditContract, MachineInv, Files
    <2>3. CASE EditTree
      BY <2>1, <2>3 DEF EditTree, MachineInv
    <2>4. CASE ChangeTool
      BY <2>1, <2>4 DEF ChangeTool, MachineInv, Answers
    <2>5. CASE ChangeDocker
      BY <2>1, <2>5 DEF ChangeDocker, MachineInv
    <2>6. CASE ChangeContainer
      <3>1. PICK n \in DOMAIN containers, state \in {"up", "unhealthy", "exited", "gone"} :
              containers' = IF state = "gone" THEN Restrict(containers, DOMAIN containers \ {n})
                            ELSE [containers EXCEPT ![n].state = state]
        BY <2>6 DEF ChangeContainer
      <3>2. containers' \in [DOMAIN containers' -> Range(containers')]
        BY <3>1 DEF Restrict, Range
      <3>3. \A m \in DOMAIN containers' : IsContainer(containers'[m])
        <4>1. CASE state = "gone"
          BY <3>1, <4>1 DEF Restrict, MachineInv
        <4>2. CASE state # "gone"
          <5>1. IsContainer(containers[n])
            BY DEF MachineInv
          <5>2. IsContainer([containers[n] EXCEPT !.state = state])
            BY <4>2, <5>1 DEF IsContainer
          <5> QED
            BY <3>1, <4>2, <5>2 DEF MachineInv
        <4> QED
          BY <4>1, <4>2
      <3>4. DOMAIN containers' \subseteq DOMAIN containers
        BY <3>1 DEF Restrict
      <3> QED
        BY <2>1, <2>6, <3>2, <3>3, <3>4 DEF ChangeContainer, MachineInv
    <2>7. CASE StartSession
      <3>1. PICK s \in SessionNames \ DOMAIN sessions :
              sessions' = [t \in DOMAIN sessions \cup {s} |->
                             IF t = s THEN Fresh(Cardinality(DOMAIN sessions) + 1) ELSE sessions[t]]
        BY <2>7 DEF StartSession
      <3>2. Cardinality(DOMAIN sessions) \in Nat
        BY FS_CardinalityType DEF MachineInv
      <3>3. IsSession(Fresh(Cardinality(DOMAIN sessions) + 1))
        BY <3>2, FS_EmptySet DEF IsSession, Fresh
      <3>4. IsFiniteSet(DOMAIN sessions')
        BY <3>1, FS_AddElement DEF MachineInv
      <3>5. sessions' \in [DOMAIN sessions' -> Range(sessions')]
        BY <3>1 DEF Range
      <3> QED
        BY <2>1, <2>7, <3>1, <3>3, <3>4, <3>5 DEF StartSession, MachineInv
    <2>8. CASE ChangeSession
      <3>1. PICK s \in {s \in DOMAIN sessions : sessions[s].status = "running"} :
         \/ \E p \in Ports \ sessions[s].ports :
              sessions' = [sessions EXCEPT ![s].ports = @ \cup {p}]
         \/ \E f \in Failures \ sessions[s].failures :
              sessions' = [sessions EXCEPT ![s].failures = @ \cup {f}, ![s].status = "failed"]
         \/ sessions' = [sessions EXCEPT ![s].status = "stopped"]
         \/ ~sessions[s].old /\ sessions' = [sessions EXCEPT ![s].old = TRUE]
        BY <2>8 DEF ChangeSession
      <3>2. DOMAIN sessions' = DOMAIN sessions /\ sessions' \in [DOMAIN sessions' -> Range(sessions')]
        BY <3>1 DEF Range, MachineInv
      <3>3. IsSession(sessions[s])
        BY DEF MachineInv
      <3>4. IsSession(sessions'[s])
        <4>1. CASE \E p \in Ports : sessions' = [sessions EXCEPT ![s].ports = @ \cup {p}]
          BY <3>3, <4>1 DEF IsSession, MachineInv
        <4>2. CASE \E f \in Failures :
                     sessions' = [sessions EXCEPT ![s].failures = @ \cup {f}, ![s].status = "failed"]
          <5>1. PICK f \in Failures :
                  sessions' = [sessions EXCEPT ![s].failures = @ \cup {f}, ![s].status = "failed"]
            BY <4>2
          <5>2. sessions'[s] = [sessions[s] EXCEPT !.failures = @ \cup {f}, !.status = "failed"]
            BY <5>1 DEF MachineInv
          <5>3. IsFiniteSet(sessions[s].failures \cup {f})
            BY <3>3, FS_AddElement DEF IsSession
          <5> QED
            BY <3>3, <5>2, <5>3 DEF IsSession
        <4>3. CASE sessions' = [sessions EXCEPT ![s].status = "stopped"]
          BY <3>3, <4>3 DEF IsSession, MachineInv
        <4>4. CASE sessions' = [sessions EXCEPT ![s].old = TRUE]
          BY <3>3, <4>4 DEF IsSession, MachineInv
        <4> QED
          BY <3>1, <4>1, <4>2, <4>3, <4>4
      <3>5. \A t \in DOMAIN sessions' : IsSession(sessions'[t])
        BY <3>1, <3>2, <3>4 DEF MachineInv
      <3> QED
        BY <2>1, <2>8, <3>2, <3>5 DEF ChangeSession, MachineInv
    <2>9. CASE RecordRun
      <3>1. PICK r \in DOMAIN NewRuns \ {runs[i].name : i \in DOMAIN runs} :
              runs' = <<[name |-> r, outcomes |-> NewRuns[r]]>> \o runs
        BY <2>9 DEF RecordRun
      <3>2. IsRun([name |-> r, outcomes |-> NewRuns[r]])
        BY ChangesAssumption DEF IsRun
      <3>3. IsHistory(runs')
        BY <3>1, <3>2, HistoryGrows DEF MachineInv
      <3> QED
        BY <2>1, <2>9, <3>3 DEF RecordRun, MachineInv
    <2>10. CASE Track
      BY <2>1, <2>10 DEF Track, MachineInv
    <2> QED
      BY <1>2, <2>2, <2>3, <2>4, <2>5, <2>6, <2>7, <2>8, <2>9, <2>10 DEF Machine
  <1>3. CASE Doctor
    BY <1>1, <1>3 DEF Doctor, ContractMissing, ContractThere, ParseContract, Scan, SkipInspector,
       InspectInventory, ProbeTool, InspectEnvironment, InspectRuntime, AskVersion, AskInfo,
       AskCompose, AskContainers, InspectPorts, ReadHistory, ReadRuns, RunRules, FailRules, Extend, Answered
  <1> QED
    BY <1>1, <1>2, <1>3 DEF Next, vars

-----------------------------------------------------------------------------
(* What is the case. *)

\* A fact is of one of these kinds.
FactIs(e) ==
    \/ e = <<"contract", file.state>>
    \/ /\ file.state = "valid"
       /\ \/ \E x \in ExpectedPorts(file.contract) : e = <<"declared", x.owner, x.port>>
          \/ \E k \in file.contract.checks :
               \E m \in k.components \ (DOMAIN file.contract.applications
                                        \cup DOMAIN file.contract.services) :
                 e = <<"unknown component", m>>
          \/ \E p \in PatternsIn(file.contract) : e = <<"pattern", p>>
    \/ \E p \in DOMAIN Covers : Covers[p] \cap Inventory = {} /\ e = <<"uncovered", p>>
    \/ \E f \in Metadata \ tree : e = <<"file", f>>
    \/ \E n \in Variables \ present : e = <<"variable", n>>
    \/ \E t \in DOMAIN tools \ Documented : e = <<"no command", t>>
    \/ \E t \in DOMAIN tools : tools[t] = "fails" /\ e = <<"tool", t>>
    \/ \E s \in DOMAIN sessions : \E f \in sessions[s].failures : e = <<"failure", s, f>>
    \/ \E s \in StaleSessions(sessions) :
         e = <<"stale", s>> \/ \E p \in sessions[s].ports : e = <<"claimed", p>>
    \/ \E part \in {"client", "daemon", "compose", "list"} \ docker : e = <<"without", part>>
    \/ \E n \in DOMAIN containers : e = <<"container", n, containers[n].state>>
    \/ \E v \in ComposeNames :
         v \notin {containers[n].service : n \in DOMAIN containers} /\ e = <<"no container", v>>
    \/ \E i \in DOMAIN runs : \E k \in DOMAIN runs[i].outcomes :
         e = <<"outcome", runs[i].name, k, runs[i].outcomes[k]>>
    \/ \E u \in unreadable : e = <<"unreadable", u>>

LEMMA FactsAre == ASSUME NEW e PROVE e \in Facts <=> FactIs(e)
  <1>1. e \in (IF file.state # "valid" THEN {}
               ELSE {<<"declared", x.owner, x.port>> : x \in ExpectedPorts(file.contract)}
                    \cup {<<"unknown component", m>> :
                            m \in (UNION {k.components : k \in file.contract.checks})
                                  \ (DOMAIN file.contract.applications
                                     \cup DOMAIN file.contract.services)}
                    \cup {<<"pattern", p>> : p \in PatternsIn(file.contract)})
        <=> /\ file.state = "valid"
            /\ \/ \E x \in ExpectedPorts(file.contract) : e = <<"declared", x.owner, x.port>>
               \/ \E k \in file.contract.checks :
                    \E m \in k.components \ (DOMAIN file.contract.applications
                                             \cup DOMAIN file.contract.services) :
                      e = <<"unknown component", m>>
               \/ \E p \in PatternsIn(file.contract) : e = <<"pattern", p>>
    OBVIOUS
  <1>2. e \in UNION {{<<"failure", s, f>> : f \in sessions[s].failures} : s \in DOMAIN sessions}
        <=> \E s \in DOMAIN sessions : \E f \in sessions[s].failures : e = <<"failure", s, f>>
    OBVIOUS
  <1>3. e \in {<<"claimed", p>> : p \in UNION {sessions[s].ports : s \in StaleSessions(sessions)}}
        <=> \E s \in StaleSessions(sessions) : \E p \in sessions[s].ports : e = <<"claimed", p>>
    OBVIOUS
  <1>4. e \in UNION {{<<"outcome", runs[i].name, k, runs[i].outcomes[k]>> :
                        k \in DOMAIN runs[i].outcomes} : i \in DOMAIN runs}
        <=> \E i \in DOMAIN runs : \E k \in DOMAIN runs[i].outcomes :
              e = <<"outcome", runs[i].name, k, runs[i].outcomes[k]>>
    OBVIOUS
  <1>5. e \in {<<"no container", v>> :
                 v \in ComposeNames \ {containers[n].service : n \in DOMAIN containers}}
        <=> \E v \in ComposeNames :
              v \notin {containers[n].service : n \in DOMAIN containers} /\ e = <<"no container", v>>
    OBVIOUS
  <1>6. e \in {<<"uncovered", p>> : p \in {p \in DOMAIN Covers : Covers[p] \cap Inventory = {}}}
        <=> \E p \in DOMAIN Covers : Covers[p] \cap Inventory = {} /\ e = <<"uncovered", p>>
    OBVIOUS
  <1> QED
    BY <1>1, <1>2, <1>3, <1>4, <1>5, <1>6, ZenonT(60) DEF Facts, FactIs

\* What the kinds of facts say of the machine.
LEMMA FactsSay ==
    /\ \A x : <<"contract", x>> \in Facts <=> x = file.state
    /\ \A p : <<"uncovered", p>> \in Facts <=> p \in DOMAIN Covers /\ Covers[p] \cap Inventory = {}
    /\ \A f : <<"file", f>> \in Facts <=> f \in Metadata \ tree
    /\ \A n : <<"variable", n>> \in Facts <=> n \in Variables \ present
    /\ \A t : <<"no command", t>> \in Facts <=> t \in DOMAIN tools \ Documented
    /\ \A t : <<"tool", t>> \in Facts <=> t \in DOMAIN tools /\ tools[t] = "fails"
    /\ \A s, f : <<"failure", s, f>> \in Facts <=> s \in DOMAIN sessions /\ f \in sessions[s].failures
    /\ \A s : <<"stale", s>> \in Facts <=> s \in StaleSessions(sessions)
    /\ \A p : <<"claimed", p>> \in Facts <=> \E s \in StaleSessions(sessions) : p \in sessions[s].ports
    /\ \A part : <<"without", part>> \in Facts <=> part \in {"client", "daemon", "compose", "list"} \ docker
    /\ \A n, state : <<"container", n, state>> \in Facts
                       <=> n \in DOMAIN containers /\ containers[n].state = state
    /\ \A v : <<"no container", v>> \in Facts
                <=> v \in ComposeNames /\ \A n \in DOMAIN containers : containers[n].service # v
    /\ \A r, k, status :
         <<"outcome", r, k, status>> \in Facts
           <=> \E i \in DOMAIN runs : /\ runs[i].name = r /\ k \in DOMAIN runs[i].outcomes
                                      /\ runs[i].outcomes[k] = status
    /\ \A u : <<"unreadable", u>> \in Facts <=> u \in unreadable
  <1>1. \A x : <<"contract", x>> \in Facts <=> x = file.state
    <2> TAKE x
    <2>1. <<"contract", x>> \in Facts <=> FactIs(<<"contract", x>>)
      BY FactsAre
    <2> QED
      BY <2>1 DEF FactIs
  <1>2. \A p : <<"uncovered", p>> \in Facts <=> p \in DOMAIN Covers /\ Covers[p] \cap Inventory = {}
    <2> TAKE p
    <2>1. <<"uncovered", p>> \in Facts <=> FactIs(<<"uncovered", p>>)
      BY FactsAre
    <2> QED
      BY <2>1 DEF FactIs
  <1>3. \A f : <<"file", f>> \in Facts <=> f \in Metadata \ tree
    <2> TAKE f
    <2>1. <<"file", f>> \in Facts <=> FactIs(<<"file", f>>)
      BY FactsAre
    <2> QED
      BY <2>1 DEF FactIs
  <1>4. \A n : <<"variable", n>> \in Facts <=> n \in Variables \ present
    <2> TAKE n
    <2>1. <<"variable", n>> \in Facts <=> FactIs(<<"variable", n>>)
      BY FactsAre
    <2> QED
      BY <2>1 DEF FactIs
  <1>5. \A t : <<"no command", t>> \in Facts <=> t \in DOMAIN tools \ Documented
    <2> TAKE t
    <2>1. <<"no command", t>> \in Facts <=> FactIs(<<"no command", t>>)
      BY FactsAre
    <2> QED
      BY <2>1 DEF FactIs
  <1>6. \A t : <<"tool", t>> \in Facts <=> t \in DOMAIN tools /\ tools[t] = "fails"
    <2> TAKE t
    <2>1. <<"tool", t>> \in Facts <=> FactIs(<<"tool", t>>)
      BY FactsAre
    <2> QED
      BY <2>1 DEF FactIs
  <1>7. \A s, f : <<"failure", s, f>> \in Facts <=> s \in DOMAIN sessions /\ f \in sessions[s].failures
    <2> TAKE s, f
    <2>1. <<"failure", s, f>> \in Facts <=> FactIs(<<"failure", s, f>>)
      BY FactsAre
    <2> QED
      BY <2>1 DEF FactIs
  <1>8. \A s : <<"stale", s>> \in Facts <=> s \in StaleSessions(sessions)
    <2> TAKE s
    <2>1. <<"stale", s>> \in Facts <=> FactIs(<<"stale", s>>)
      BY FactsAre
    <2> QED
      BY <2>1 DEF FactIs
  <1>9. \A p : <<"claimed", p>> \in Facts <=> \E s \in StaleSessions(sessions) : p \in sessions[s].ports
    <2> TAKE p
    <2>1. <<"claimed", p>> \in Facts <=> FactIs(<<"claimed", p>>)
      BY FactsAre
    <2> QED
      BY <2>1 DEF FactIs
  <1>10. \A part : <<"without", part>> \in Facts <=> part \in {"client", "daemon", "compose", "list"} \ docker
    <2> TAKE part
    <2>1. <<"without", part>> \in Facts <=> FactIs(<<"without", part>>)
      BY FactsAre
    <2> QED
      BY <2>1 DEF FactIs
  <1>11. \A n, state : <<"container", n, state>> \in Facts
                       <=> n \in DOMAIN containers /\ containers[n].state = state
    <2> TAKE n, state
    <2>1. <<"container", n, state>> \in Facts <=> FactIs(<<"container", n, state>>)
      BY FactsAre
    <2> QED
      BY <2>1 DEF FactIs
  <1>12. \A v : <<"no container", v>> \in Facts
                <=> v \in ComposeNames /\ \A n \in DOMAIN containers : containers[n].service # v
    <2> TAKE v
    <2>1. <<"no container", v>> \in Facts <=> FactIs(<<"no container", v>>)
      BY FactsAre
    <2> QED
      BY <2>1 DEF FactIs
  <1>13. \A r, k, status :
         <<"outcome", r, k, status>> \in Facts
           <=> \E i \in DOMAIN runs : /\ runs[i].name = r /\ k \in DOMAIN runs[i].outcomes
                                      /\ runs[i].outcomes[k] = status
    <2> TAKE r, k, status
    <2>1. <<"outcome", r, k, status>> \in Facts <=> FactIs(<<"outcome", r, k, status>>)
      BY FactsAre
    <2> QED
      BY <2>1 DEF FactIs
  <1>14. \A u : <<"unreadable", u>> \in Facts <=> u \in unreadable
    <2> TAKE u
    <2>1. <<"unreadable", u>> \in Facts <=> FactIs(<<"unreadable", u>>)
      BY FactsAre
    <2> QED
      BY <2>1 DEF FactIs
  <1> QED
    BY <1>1, <1>2, <1>3, <1>4, <1>5, <1>6, <1>7, <1>8, <1>9, <1>10, <1>11, <1>12, <1>13, <1>14, Zenon

LEMMA OutcomeOnFile ==
    ASSUME NEW i \in DOMAIN runs, NEW k \in DOMAIN runs[i].outcomes
    PROVE  <<"outcome", runs[i].name, k, runs[i].outcomes[k]>> \in Facts
  BY FactsAre DEF FactIs

\* And of a contract on file.
LEMMA ContractSays ==
    ASSUME file.state = "valid"
    PROVE  /\ \A x \in ExpectedPorts(file.contract) : <<"declared", x.owner, x.port>> \in Facts
           /\ \A k \in file.contract.checks :
                \A m \in k.components \ (DOMAIN file.contract.applications
                                         \cup DOMAIN file.contract.services) :
                  <<"unknown component", m>> \in Facts
           /\ \A p \in PatternsIn(file.contract) : <<"pattern", p>> \in Facts
  BY FactsAre DEF FactIs

-----------------------------------------------------------------------------
(* What the doctor has read was so. *)

WasSo(S, e) ==
    \/ e \in S
    \/ e[1] = "no container" /\ \E p \in {"client", "daemon", "list"} : <<"without", p>> \in S
    \/ e[1] = "without" /\ <<"without", "client">> \in S

\* Which rules speak of failures, of outcomes and of stale sessions.
Tagged(rule, id, e) ==
    /\ id[1] = "stale_session" => rule = "runtime.failures"
    /\ e[1] = "failure" => rule \in {"runtime.failures", "runtime.repeated-failures"}
    /\ e[1] = "outcome" => rule = "verification.observations"

\* A finding such as the report may have.
Sound(S, f) ==
    /\ f.rule \in Rules \cup {"contract.missing", "contract.invalid", "contract.read_error"}
    /\ f.severity \in {"warning", "error", "blocking"}
    /\ f.kind \in {"fact", "candidate"}
    /\ f.evidence # {}
    /\ \A e \in f.evidence : WasSo(S, e) /\ Tagged(f.rule, f.id, e)

ContractRead(S, c) ==
    /\ c \in Contracts
    /\ \A x \in ExpectedPorts(c) : <<"declared", x.owner, x.port>> \in S
    /\ \A k \in c.checks : \A m \in k.components \ (DOMAIN c.applications \cup DOMAIN c.services) :
         <<"unknown component", m>> \in S
    /\ \A p \in PatternsIn(c) : <<"pattern", p>> \in S

InventoryRead(S, inventory) ==
    /\ \A p \in DOMAIN Covers : Covers[p] \cap inventory.paths = {} => <<"uncovered", p>> \in S
    /\ inventory.commands = Documented

ToolsRead(S, answers) == \A t \in DOMAIN answers : answers[t] = "missing" => <<"tool", t>> \in S

EnvironmentRead(S, env) ==
    /\ ToolsRead(S, env.tools)
    /\ \A n \in env.required \ env.present : <<"variable", n>> \in S
    /\ \A f \in env.missingFiles : <<"file", f>> \in S

SessionsRead(S, list) ==
    /\ \A s \in DOMAIN list : \A f \in list[s].failures : <<"failure", s, f>> \in S
    /\ \A s \in StaleSessions(list) : <<"stale", s>> \in S
    /\ \A s \in StaleSessions(list) : \A p \in list[s].ports : <<"claimed", p>> \in S

ContainersRead(S, list) ==
    /\ \A n \in DOMAIN list : <<"container", n, list[n].state>> \in S
    /\ \A v \in ComposeNames : ContainersOf(v, list) = {} => WasSo(S, <<"no container", v>>)

DockerRead(S, answers) ==
    /\ ~answers.client => <<"without", "client">> \in S
    /\ ~answers.daemon => WasSo(S, <<"without", "daemon">>)
    /\ ~answers.compose => WasSo(S, <<"without", "compose">>)
    /\ \A s \in DOMAIN answers.services : answers.services[s] \in ComposeNames
    /\ answers.client /\ answers.daemon => ContainersRead(S, answers.containers)

PortsRead(S, ports) ==
    /\ \A x \in ports.expected : <<"declared", x.owner, x.port>> \in S
    /\ \A k \in ports.checks : k.status = "unknown"

HistoryRead(S, outcomes) ==
    \A r \in DOMAIN outcomes : \A k \in DOMAIN outcomes[r] :
        <<"outcome", r, k, outcomes[r][k]>> \in S

ContextInv ==
    /\ "loaderFindings" \in DOMAIN ctx /\ \A f \in ctx.loaderFindings : Sound(seen, f)
    /\ Has("contract") => ContractRead(seen, ctx.contract)
    /\ Has("inventory") => InventoryRead(seen, ctx.inventory)
    /\ Has("localEnvironment") => EnvironmentRead(seen, ctx.localEnvironment)
    /\ Has("runtime") => SessionsRead(seen, ctx.runtime)
    /\ Has("docker") => DockerRead(seen, ctx.docker)
    /\ Has("ports") => PortsRead(seen, ctx.ports)
    /\ Has("verification") => HistoryRead(seen, ctx.verification)

-----------------------------------------------------------------------------
(* So is what the rules make of it. *)

LEMMA RequiredAreUsed ==
    ASSUME NEW c PROVE RequiredVariables(c) \subseteq {u.name : u \in Usages(c)}
  BY DEF RequiredVariables

LEMMA ExpectedAreMetadata == ASSUME NEW S PROVE ExpectedFiles(S) \subseteq Metadata
  BY DEF ExpectedFiles, Metadata

\* A finding with one piece of evidence.
LEMMA SoundFinding ==
    ASSUME NEW S,
           NEW rule \in Rules \cup {"contract.missing", "contract.invalid", "contract.read_error"},
           NEW id, NEW severity \in {"warning", "error", "blocking"},
           NEW e, WasSo(S, e), Tagged(rule, id, e)
    PROVE  Sound(S, Finding(rule, id, severity, {e}))
  BY FindingIs DEF Sound

LEMMA SoundCandidate ==
    ASSUME NEW S, NEW rule \in Rules, NEW id, NEW severity \in {"warning", "error", "blocking"},
           NEW evidence, evidence # {}, \A e \in evidence : WasSo(S, e) /\ Tagged(rule, id, e)
    PROVE  Sound(S, Candidate(rule, id, severity, evidence))
  BY CandidateIs DEF Sound

LEMMA EnvironmentSound ==
    ASSUME NEW S, NEW env, EnvironmentRead(S, env),
           NEW f \in ToolFindings(env) \cup VariableFindings(env) \cup FileFindings(env)
    PROVE  Sound(S, f)
  <1>1. CASE f \in ToolFindings(env)
    <2>1. PICK t \in DOMAIN env.tools :
            /\ env.tools[t] = "missing"
            /\ f = Finding("environment.tools", <<"tool", t>>, "blocking", {<<"tool", t>>})
      BY <1>1 DEF ToolFindings
    <2>2. WasSo(S, <<"tool", t>>)
      BY <2>1 DEF EnvironmentRead, ToolsRead, WasSo
    <2> QED
      BY <2>1, <2>2, SoundFinding DEF Tagged, Rules
  <1>2. CASE f \in VariableFindings(env)
    <2>1. PICK n \in env.required \ env.present :
            f = Finding("environment.variables", <<"variable", n>>, "blocking", {<<"variable", n>>})
      BY <1>2 DEF VariableFindings
    <2>2. WasSo(S, <<"variable", n>>)
      BY DEF EnvironmentRead, WasSo
    <2> QED
      BY <2>1, <2>2, SoundFinding DEF Tagged, Rules
  <1>3. CASE f \in FileFindings(env)
    <2>1. PICK x \in env.missingFiles :
            f = Finding("environment.expected-files", <<"file", x>>, "warning", {<<"file", x>>})
      BY <1>3 DEF FileFindings
    <2>2. WasSo(S, <<"file", x>>)
      BY DEF EnvironmentRead, WasSo
    <2> QED
      BY <2>1, <2>2, SoundFinding DEF Tagged, Rules
  <1> QED
    BY <1>1, <1>2, <1>3

LEMMA ObservationsAre ==
    ASSUME NEW list, NEW o \in FailureObservations(list)
    PROVE  o.session \in DOMAIN list /\ o.failure \in list[o.session].failures
  BY DEF FailureObservations

LEMMA SessionsSound ==
    ASSUME NEW S, NEW list, SessionsRead(S, list),
           NEW f \in SessionFindings(list) \cup RepeatedFindings(list)
    PROVE  Sound(S, f)
  <1>1. \A o \in FailureObservations(list) : WasSo(S, FailureEvidence(o))
    BY ObservationsAre DEF FailureEvidence, SessionsRead, WasSo
  <1>2. CASE f \in SessionFindings(list)
    <2>1. CASE \E o \in FailureObservations(list) :
                 f = Finding("runtime.failures", Subject(o), "error", {FailureEvidence(o)})
      <3>1. PICK o \in FailureObservations(list) :
              f = Finding("runtime.failures", Subject(o), "error", {FailureEvidence(o)})
        BY <2>1
      <3>2. Tagged("runtime.failures", Subject(o), FailureEvidence(o))
        BY DEF Tagged, FailureEvidence
      <3> QED
        BY <1>1, <3>1, <3>2, SoundFinding DEF Rules
    <2>2. CASE \E s \in StaleSessions(list) :
                 f = Finding("runtime.failures", <<"stale_session", s>>, "warning", {<<"stale", s>>})
      <3>1. PICK s \in StaleSessions(list) :
              f = Finding("runtime.failures", <<"stale_session", s>>, "warning", {<<"stale", s>>})
        BY <2>2
      <3>2. WasSo(S, <<"stale", s>>)
        BY DEF SessionsRead, WasSo
      <3> QED
        BY <3>1, <3>2, SoundFinding DEF Tagged, Rules
    <2> QED
      BY <1>2, <2>1, <2>2 DEF SessionFindings
  <1>3. CASE f \in RepeatedFindings(list)
    <2> DEFINE of(subject) == {o \in FailureObservations(list) : Subject(o) = subject}
    <2>1. PICK o \in FailureObservations(list) :
            f = Candidate("runtime.repeated-failures", Subject(o), "warning",
                          {FailureEvidence(p) : p \in of(Subject(o))})
      BY <1>3 DEF RepeatedFindings
    <2>2. FailureEvidence(o) \in {FailureEvidence(p) : p \in of(Subject(o))}
      OBVIOUS
    <2>3. \A p : Tagged("runtime.repeated-failures", Subject(o), FailureEvidence(p))
      <3>1. Subject(o)[1] # "stale_session"
        BY DEF Subject, FailureKind
      <3> QED
        BY <3>1 DEF Tagged, FailureEvidence
    <2>4. \A e \in {FailureEvidence(p) : p \in of(Subject(o))} :
            WasSo(S, e) /\ Tagged("runtime.repeated-failures", Subject(o), e)
      BY <1>1, <2>3
    <2> HIDE DEF of
    <2> QED
      BY <2>1, <2>2, <2>4, SoundCandidate DEF Rules
  <1> QED
    BY <1>2, <1>3

LEMMA ContainersSound ==
    ASSUME NEW S, NEW services, NEW list, ContainersRead(S, list),
           \A s \in DOMAIN services : services[s] \in ComposeNames,
           NEW f \in ContainerFindings(services, list)
    PROVE  Sound(S, f)
  <1>1. \/ \E s \in DOMAIN services :
             /\ ContainersOf(services[s], list) = {}
             /\ f = Finding("docker.observations", <<"compose_service_missing", s>>, "warning",
                            {<<"no container", services[s]>>})
        \/ \E s \in DOMAIN services, kind \in {"container_unhealthy", "container_failed"},
              state \in {"unhealthy", "exited"} : \E n \in ContainersOf(services[s], list) :
             /\ list[n].state = state
             /\ f = Finding("docker.observations", <<kind, s>>, "error", {<<"container", n, state>>})
    BY DEF ContainerFindings
  <1>2. \A v : ContainersOf(v, list) \subseteq DOMAIN list
    BY DEF ContainersOf
  <1>3. \A s \in DOMAIN services :
          ContainersOf(services[s], list) = {} => WasSo(S, <<"no container", services[s]>>)
    BY DEF ContainersRead
  <1>4. \A n \in DOMAIN list : WasSo(S, <<"container", n, list[n].state>>)
    BY DEF ContainersRead, WasSo
  <1>5. CASE \E s \in DOMAIN services :
                /\ ContainersOf(services[s], list) = {}
                /\ f = Finding("docker.observations", <<"compose_service_missing", s>>, "warning",
                               {<<"no container", services[s]>>})
    <2>1. PICK s \in DOMAIN services :
                /\ ContainersOf(services[s], list) = {}
                /\ f = Finding("docker.observations", <<"compose_service_missing", s>>, "warning",
                               {<<"no container", services[s]>>})
      BY <1>5
    <2>2. WasSo(S, <<"no container", services[s]>>)
      BY <1>3, <2>1
    <2> QED
      BY <2>1, <2>2, SoundFinding DEF Tagged, Rules
  <1>6. CASE \E s \in DOMAIN services, kind \in {"container_unhealthy", "container_failed"},
                state \in {"unhealthy", "exited"} : \E n \in ContainersOf(services[s], list) :
               /\ list[n].state = state
               /\ f = Finding("docker.observations", <<kind, s>>, "error", {<<"container", n, state>>})
    <2>1. PICK s \in DOMAIN services, kind \in {"container_unhealthy", "container_failed"},
               state \in {"unhealthy", "exited"} : \E n \in ContainersOf(services[s], list) :
               /\ list[n].state = state
               /\ f = Finding("docker.observations", <<kind, s>>, "error", {<<"container", n, state>>})
      BY <1>6
    <2> PICK n \in ContainersOf(services[s], list) :
          /\ list[n].state = state
          /\ f = Finding("docker.observations", <<kind, s>>, "error", {<<"container", n, state>>})
      BY <2>1
    <2>2. WasSo(S, <<"container", n, state>>)
      BY <1>2, <1>4
    <2> QED
      BY <2>2, SoundFinding DEF Tagged, Rules
  <1> QED
    BY <1>1, <1>5, <1>6

LEMMA DockerSound ==
    ASSUME NEW S, NEW answers, DockerRead(S, answers), NEW f \in DockerFindings(answers)
    PROVE  Sound(S, f)
  <1>1. CASE f \in ContainerFindings(answers.services, answers.containers)
              /\ answers.client /\ answers.daemon
    BY <1>1, ContainersSound DEF DockerRead
  <1>2. CASE ~(f \in ContainerFindings(answers.services, answers.containers)
              /\ answers.client /\ answers.daemon)
    <2>1. \/ /\ ~answers.client
             /\ f = Finding("docker.observations", <<"docker_cli_missing">>, "blocking",
                            {<<"without", "client">>})
          \/ /\ ~answers.daemon
             /\ f = Finding("docker.observations", <<"docker_daemon_unavailable">>, "blocking",
                            {<<"without", "daemon">>})
          \/ /\ ~answers.compose
             /\ f = Finding("docker.observations", <<"compose_unavailable">>, "error",
                            {<<"without", "compose">>})
      BY <1>2 DEF DockerFindings
    <2>2. ~answers.client => WasSo(S, <<"without", "client">>)
      BY DEF DockerRead, WasSo
    <2> QED
      BY <2>1, <2>2, SoundFinding DEF Tagged, DockerRead, Rules
  <1> QED
    BY <1>1, <1>2

LEMMA PortsSound ==
    ASSUME NEW S, NEW ports, PortsRead(S, ports),
           NEW f \in PortFindings(ports) \cup DuplicateFindings(ports)
    PROVE  Sound(S, f)
  <1>1. CASE f \in PortFindings(ports)
    BY <1>1 DEF PortFindings, PortsRead
  <1>2. CASE f \in DuplicateFindings(ports)
    <2> DEFINE owners(p) == {e.owner : e \in {e \in ports.expected : e.port = p}}
               evidence(p) == {<<"declared", o, p>> : o \in owners(p)}
    <2>1. PICK x \in ports.expected :
            f = Finding("ports.contract-duplicates", <<"duplicate", x.port>>, "warning", evidence(x.port))
      BY <1>2 DEF DuplicateFindings
    <2>2. <<"declared", x.owner, x.port>> \in evidence(x.port)
      OBVIOUS
    <2>3. \A e \in evidence(x.port) :
            WasSo(S, e) /\ Tagged("ports.contract-duplicates", <<"duplicate", x.port>>, e)
      <3>1. ASSUME NEW o PROVE Tagged("ports.contract-duplicates", <<"duplicate", x.port>>,
                                      <<"declared", o, x.port>>)
        BY DEF Tagged
      <3>2. \A o \in owners(x.port) : WasSo(S, <<"declared", o, x.port>>)
        BY DEF PortsRead, WasSo
      <3> QED
        BY <3>1, <3>2
    <2> HIDE DEF evidence
    <2> QED
      BY <2>1, <2>2, <2>3, FindingIs DEF Sound, Rules
  <1> QED
    BY <1>1, <1>2

LEMMA StalePortsSound ==
    ASSUME NEW S, NEW ports, NEW list, SessionsRead(S, list), NEW f \in StalePortFindings(ports, list)
    PROVE  Sound(S, f)
  <1>1. PICK k : /\ k.port \in UNION {list[s].ports : s \in StaleSessions(list)}
                 /\ f = Finding("ports.stale-board-state", <<"stale port", k.port>>, "warning",
                                {<<"claimed", k.port>>})
    BY DEF StalePortFindings
  <1>2. WasSo(S, <<"claimed", k.port>>)
    BY <1>1 DEF SessionsRead, WasSo
  <1> QED
    BY <1>1, <1>2, SoundFinding DEF Tagged, Rules

LEMMA OutcomesAre ==
    ASSUME NEW list, NEW o \in Outcomes(list)
    PROVE  /\ o.run \in DOMAIN list /\ o.check \in DOMAIN list[o.run]
           /\ o.status = list[o.run][o.check] /\ o.status # "passed"
  BY DEF Outcomes

LEMMA OutcomesSound ==
    ASSUME NEW S, NEW list, HistoryRead(S, list),
           NEW f \in OutcomeFindings(list) \cup RecurringFindings(list)
    PROVE  Sound(S, f)
  <1>1. \A o \in Outcomes(list) : WasSo(S, OutcomeEvidence(o))
    BY OutcomesAre DEF OutcomeEvidence, HistoryRead, WasSo
  <1>2. CASE f \in OutcomeFindings(list)
    <2>1. PICK o \in Outcomes(list) :
            f = Finding("verification.observations", <<CheckKind(o.status), o.check>>,
                        IF o.status \in {"failed", "timed_out"} THEN "error" ELSE "warning",
                        {OutcomeEvidence(o)})
      BY <1>2 DEF OutcomeFindings
    <2>2. Tagged("verification.observations", <<CheckKind(o.status), o.check>>, OutcomeEvidence(o))
      BY DEF Tagged, OutcomeEvidence, CheckKind
    <2> QED
      BY <1>1, <2>1, <2>2, SoundFinding DEF Rules
  <1>3. CASE f \in RecurringFindings(list)
    <2> DEFINE of(o) == {p \in Outcomes(list) : p.check = o.check /\ p.status = o.status}
    <2>1. PICK o \in Outcomes(list) :
            f = Candidate("verification.observations", <<"repeated_failure", o.check, o.status>>,
                          "warning", {OutcomeEvidence(p) : p \in of(o)})
      BY <1>3 DEF RecurringFindings
    <2>2. OutcomeEvidence(o) \in {OutcomeEvidence(p) : p \in of(o)}
      OBVIOUS
    <2>3. \A p : Tagged("verification.observations", <<"repeated_failure", o.check, o.status>>,
                        OutcomeEvidence(p))
      BY DEF Tagged, OutcomeEvidence
    <2>4. \A e \in {OutcomeEvidence(p) : p \in of(o)} :
            /\ WasSo(S, e)
            /\ Tagged("verification.observations", <<"repeated_failure", o.check, o.status>>, e)
      BY <1>1, <2>3
    <2> HIDE DEF of
    <2> QED
      BY <2>1, <2>2, <2>4, SoundCandidate DEF Rules
  <1> QED
    BY <1>2, <1>3

LEMMA ContractSound ==
    ASSUME NEW S, NEW c, ContractRead(S, c), NEW inventory, InventoryRead(S, inventory),
           RequiredTools(c) \subseteq DOMAIN tools,
           \A t \in DOMAIN tools \ Documented : <<"no command", t>> \in S,
           NEW f \in StaleConfigFindings(c, inventory.paths)
                     \cup PathReferenceFindings(c, inventory.paths)
                     \cup CommandReferenceFindings(c, inventory.commands)
    PROVE  Sound(S, f)
  <1>1. \A p \in {r.pattern : r \in c.patterns} \cup UNION {k.patterns : k \in c.checks} :
          Covers[p] \cap inventory.paths = {} => WasSo(S, <<"uncovered", p>>)
    BY FilesAssumption DEF PatternsIn, ContractRead, InventoryRead, WasSo
  <1>2. CASE f \in StaleConfigFindings(c, inventory.paths)
    <2>1. \/ \E k \in c.checks : \E p \in k.patterns :
               /\ Covers[p] \cap inventory.paths = {}
               /\ f = Finding("verification.stale-config", <<"path", k.id, p>>, "warning",
                              {<<"uncovered", p>>})
          \/ \E k \in c.checks : \E m \in k.components \ (DOMAIN c.applications \cup DOMAIN c.services) :
               f = Finding("verification.stale-config", <<"component", k.id, m>>, "warning",
                           {<<"unknown component", m>>})
      BY <1>2 DEF StaleConfigFindings
    <2>2. CASE \E k \in c.checks : \E p \in k.patterns :
                 /\ Covers[p] \cap inventory.paths = {}
                 /\ f = Finding("verification.stale-config", <<"path", k.id, p>>, "warning",
                                {<<"uncovered", p>>})
      <3>1. PICK k \in c.checks : \E p \in k.patterns :
                 /\ Covers[p] \cap inventory.paths = {}
                 /\ f = Finding("verification.stale-config", <<"path", k.id, p>>, "warning",
                                {<<"uncovered", p>>})
        BY <2>2
      <3>2. PICK p \in k.patterns :
                 /\ Covers[p] \cap inventory.paths = {}
                 /\ f = Finding("verification.stale-config", <<"path", k.id, p>>, "warning",
                                {<<"uncovered", p>>})
        BY <3>1
      <3>3. WasSo(S, <<"uncovered", p>>)
        BY <1>1, <3>2
      <3> QED
        BY <3>2, <3>3, SoundFinding DEF Tagged, Rules
    <2>3. CASE \E k \in c.checks :
                 \E m \in k.components \ (DOMAIN c.applications \cup DOMAIN c.services) :
                   f = Finding("verification.stale-config", <<"component", k.id, m>>, "warning",
                               {<<"unknown component", m>>})
      <3>1. PICK k \in c.checks :
                 \E m \in k.components \ (DOMAIN c.applications \cup DOMAIN c.services) :
                   f = Finding("verification.stale-config", <<"component", k.id, m>>, "warning",
                               {<<"unknown component", m>>})
        BY <2>3
      <3>2. PICK m \in k.components \ (DOMAIN c.applications \cup DOMAIN c.services) :
                   f = Finding("verification.stale-config", <<"component", k.id, m>>, "warning",
                               {<<"unknown component", m>>})
        BY <3>1
      <3>3. WasSo(S, <<"unknown component", m>>)
        BY DEF ContractRead, WasSo
      <3> QED
        BY <3>2, <3>3, SoundFinding DEF Tagged, Rules
    <2> QED
      BY <2>1, <2>2, <2>3
  <1>3. CASE f \in PathReferenceFindings(c, inventory.paths)
    <2>1. PICK r \in c.patterns :
            /\ Covers[r.pattern] \cap inventory.paths = {}
            /\ f = Candidate("contract.path-references", <<"path", r.section, r.pattern>>, "warning",
                             {<<"uncovered", r.pattern>>})
      BY <1>3 DEF PathReferenceFindings
    <2>2. WasSo(S, <<"uncovered", r.pattern>>)
      BY <1>1, <2>1
    <2>3. Tagged("contract.path-references", <<"path", r.section, r.pattern>>,
                 <<"uncovered", r.pattern>>)
      BY DEF Tagged
    <2> QED
      BY <2>1, <2>2, <2>3, SoundCandidate DEF Rules
  <1>4. CASE f \in CommandReferenceFindings(c, inventory.commands)
    <2>1. PICK k \in c.commands :
            /\ k.name \notin inventory.commands
            /\ f = Candidate("contract.command-references", <<"command", k.id, k.name>>, "warning",
                             {<<"no command", k.name>>})
      BY <1>4 DEF CommandReferenceFindings
    <2>2. k.name \in DOMAIN tools
      BY DEF RequiredTools
    <2>3. WasSo(S, <<"no command", k.name>>)
      BY <2>1, <2>2 DEF InventoryRead, WasSo
    <2>4. Tagged("contract.command-references", <<"command", k.id, k.name>>, <<"no command", k.name>>)
      BY DEF Tagged
    <2> QED
      BY <2>1, <2>3, <2>4, SoundCandidate DEF Rules
  <1> QED
    BY <1>2, <1>3, <1>4

\* The rules, of a context that was read.
LEMMA RulesSound ==
    ASSUME MachineInv, Facts \subseteq seen, ContextInv,
           NEW categories, NEW f \in RuleFindings(categories, ctx)
    PROVE  Sound(seen, f)
  <1>1. PICK rule \in Rules : Runnable(rule, ctx) /\ f \in RunRule(rule, ctx)
    BY DEF RuleFindings, Chosen
  <1>2. \A p \in Prerequisites(rule) : Has(p)
    BY <1>1 DEF Runnable, Has
  <1>3. CASE rule \in {"environment.tools", "environment.variables", "environment.expected-files"}
    <2>1. Has("localEnvironment")
      BY <1>2, <1>3 DEF Prerequisites, Category
    <2>2. f \in ToolFindings(ctx.localEnvironment) \cup VariableFindings(ctx.localEnvironment)
                \cup FileFindings(ctx.localEnvironment)
      BY <1>1, <1>3 DEF RunRule
    <2> QED
      BY <2>1, <2>2, EnvironmentSound DEF ContextInv
  <1>4. CASE rule \in {"runtime.failures", "runtime.repeated-failures"}
    <2>1. Has("runtime")
      BY <1>2, <1>4 DEF Prerequisites, Category
    <2>2. f \in SessionFindings(ctx.runtime) \cup RepeatedFindings(ctx.runtime)
      BY <1>1, <1>4 DEF RunRule
    <2> QED
      BY <2>1, <2>2, SessionsSound DEF ContextInv
  <1>5. CASE rule = "docker.observations"
    <2>1. Has("docker")
      BY <1>2, <1>5 DEF Prerequisites, Category
    <2>2. f \in DockerFindings(ctx.docker)
      BY <1>1, <1>5 DEF RunRule
    <2> QED
      BY <2>1, <2>2, DockerSound DEF ContextInv
  <1>6. CASE rule \in {"ports.observations", "ports.contract-duplicates"}
    <2>1. Has("ports")
      BY <1>2, <1>6 DEF Prerequisites, Category
    <2>2. f \in PortFindings(ctx.ports) \cup DuplicateFindings(ctx.ports)
      BY <1>1, <1>6 DEF RunRule
    <2> QED
      BY <2>1, <2>2, PortsSound DEF ContextInv
  <1>7. CASE rule = "ports.stale-board-state"
    <2>1. Has("ports") /\ Has("runtime")
      BY <1>2, <1>7 DEF Prerequisites, Category
    <2>2. f \in StalePortFindings(ctx.ports, ctx.runtime)
      BY <1>1, <1>7 DEF RunRule
    <2> QED
      BY <2>1, <2>2, StalePortsSound DEF ContextInv
  <1>8. CASE rule = "verification.observations"
    <2>1. Has("verification")
      BY <1>2, <1>8 DEF Prerequisites, Category
    <2>2. f \in OutcomeFindings(ctx.verification) \cup RecurringFindings(ctx.verification)
      BY <1>1, <1>8 DEF RunRule
    <2> QED
      BY <2>1, <2>2, OutcomesSound DEF ContextInv
  <1>9. CASE rule = "contract.loader-findings"
    BY <1>1, <1>9 DEF RunRule, ContextInv
  <1>10. CASE rule \in {"verification.stale-config", "contract.path-references",
                        "contract.command-references"}
    <2>1. Has("contract") /\ Has("inventory")
      BY <1>2, <1>10 DEF Prerequisites, Category
    <2>2. f \in StaleConfigFindings(ctx.contract, ctx.inventory.paths)
                \cup PathReferenceFindings(ctx.contract, ctx.inventory.paths)
                \cup CommandReferenceFindings(ctx.contract, ctx.inventory.commands)
      BY <1>1, <1>10 DEF RunRule
    <2>3. RequiredTools(ctx.contract) \subseteq DOMAIN tools
      BY <2>1 DEF ContextInv, ContractRead, MachineInv
    <2>4. \A t \in DOMAIN tools \ Documented : <<"no command", t>> \in seen
      BY FactsSay
    <2> QED
      BY <2>1, <2>2, <2>3, <2>4, ContractSound DEF ContextInv
  <1> QED
    BY <1>3, <1>4, <1>5, <1>6, <1>7, <1>8, <1>9, <1>10 DEF Rules

\* A rule that throws does so for a pattern of the contract.
LEMMA ThrownFor ==
    ASSUME ContextInv, NEW categories, RulesThrow(categories, ctx)
    PROVE  \E p \in Throwing : <<"pattern", p>> \in seen
  <1>1. PICK rule \in Rules : Runnable(rule, ctx) /\ PatternsOf(rule, ctx) \cap Throwing # {}
    BY DEF RulesThrow, Chosen
  <1>2. PICK p \in Throwing : p \in PatternsOf(rule, ctx)
    BY <1>1
  <1>3. rule \in {"contract.path-references", "verification.stale-config"}
    BY <1>2 DEF PatternsOf
  <1>4. p \in PatternsIn(ctx.contract)
    BY <1>2, <1>3 DEF PatternsOf, PatternsIn
  <1>5. Has("contract")
    BY <1>1, <1>3 DEF Runnable, Prerequisites, Category, Has
  <1> QED
    BY <1>4, <1>5 DEF ContextInv, ContractRead

-----------------------------------------------------------------------------
(* The run of the doctor. *)

Labels == {"access", "parse", "scan", "inventory", "localEnvironment", "runtime", "docker", "ports",
           "verification", "rules", "done", "failed"}

LEMMA AfterIs ==
    /\ After("inventory") = "localEnvironment" /\ After("localEnvironment") = "runtime"
    /\ After("runtime") = "docker" /\ After("docker") = "ports"
    /\ After("ports") = "verification" /\ After("verification") = "rules"
  <1>1. /\ DOMAIN Inspectors = 1..6 /\ Len(Inspectors) = 6
        /\ Inspectors[1] = "inventory" /\ Inspectors[2] = "localEnvironment"
        /\ Inspectors[3] = "runtime" /\ Inspectors[4] = "docker"
        /\ Inspectors[5] = "ports" /\ Inspectors[6] = "verification"
    BY DEF Inspectors
  <1>2. \A i \in 1..6 : (CHOOSE j \in DOMAIN Inspectors : Inspectors[j] = Inspectors[i]) = i
    <2> TAKE i \in 1..6
    <2>1. \A j \in DOMAIN Inspectors : Inspectors[j] = Inspectors[i] => j = i
      BY <1>1
    <2> QED
      BY <1>1, <2>1
  <1>3. \A i \in 1..6 : After(Inspectors[i]) = IF i = 6 THEN "rules" ELSE Inspectors[i + 1]
    BY <1>1, <1>2 DEF After
  <1> QED
    BY <1>1, <1>3

LEMMA InspectorsAre == Range(Inspectors) = Labels \ {"access", "parse", "scan", "rules", "done", "failed"}
  BY DEF Inspectors, Labels, Range

\* What is so stays seen.
LEMMA SoStays ==
    ASSUME NEW S, NEW T, S \subseteq T
    PROVE  /\ \A e : WasSo(S, e) => WasSo(T, e)
           /\ \A f : Sound(S, f) => Sound(T, f)
           /\ \A c : ContractRead(S, c) => ContractRead(T, c)
           /\ \A i : InventoryRead(S, i) => InventoryRead(T, i)
           /\ \A t : ToolsRead(S, t) => ToolsRead(T, t)
           /\ \A env : EnvironmentRead(S, env) => EnvironmentRead(T, env)
           /\ \A list : SessionsRead(S, list) => SessionsRead(T, list)
           /\ \A d : DockerRead(S, d) => DockerRead(T, d)
           /\ \A p : PortsRead(S, p) => PortsRead(T, p)
           /\ \A h : HistoryRead(S, h) => HistoryRead(T, h)
  <1>1. \A e : WasSo(S, e) => WasSo(T, e)
    BY DEF WasSo
  <1>2. \A f : Sound(S, f) => Sound(T, f)
    BY <1>1 DEF Sound
  <1>3. \A c : ContractRead(S, c) => ContractRead(T, c)
    BY DEF ContractRead
  <1>4. \A i : InventoryRead(S, i) => InventoryRead(T, i)
    BY DEF InventoryRead
  <1>5. \A t : ToolsRead(S, t) => ToolsRead(T, t)
    BY DEF ToolsRead
  <1>6. \A env : EnvironmentRead(S, env) => EnvironmentRead(T, env)
    BY <1>5 DEF EnvironmentRead
  <1>7. \A list : SessionsRead(S, list) => SessionsRead(T, list)
    BY DEF SessionsRead
  <1>8. \A list : ContainersRead(S, list) => ContainersRead(T, list)
    BY <1>1 DEF ContainersRead
  <1>9. \A d : DockerRead(S, d) => DockerRead(T, d)
    BY <1>1, <1>8 DEF DockerRead
  <1>10. \A p : PortsRead(S, p) => PortsRead(T, p)
    BY DEF PortsRead
  <1>11. \A h : HistoryRead(S, h) => HistoryRead(T, h)
    BY DEF HistoryRead
  <1> QED
    BY <1>1, <1>2, <1>3, <1>4, <1>5, <1>6, <1>7, <1>9, <1>10, <1>11

PendingInv ==
    /\ pc = "inventory" => InventoryRead(seen, pending)
    /\ pc = "localEnvironment" => ToolsRead(seen, pending)
    /\ pc = "docker" /\ HasAsked("info") /\ ~pending.daemon => WasSo(seen, <<"without", "daemon">>)
    /\ pc = "docker" /\ HasAsked("compose") /\ ~pending.compose => WasSo(seen, <<"without", "compose">>)
    /\ pc = "verification" /\ pending # Nothing =>
         \A r \in pending.names : \E i \in DOMAIN runs : runs[i].name = r

EvidenceInv ==
    /\ pc \in Labels
    /\ Facts \subseteq seen
    /\ lasting \subseteq Facts
    /\ ContextInv
    /\ PendingInv
    /\ \A f \in report : Sound(seen, f)
    /\ pc = "failed" => \E p \in Throwing : <<"pattern", p>> \in seen

LEMMA ContextStays == ContextInv /\ seen \subseteq seen' /\ UNCHANGED ctx => ContextInv'
  BY SoStays DEF ContextInv, Has

\* One inspector has read what it gives.
LEMMA ContextGrows ==
    ASSUME ContextInv, seen \subseteq seen', NEW inspector \in Range(Inspectors), NEW read,
           Extend(inspector, read),
           inspector = "inventory" => InventoryRead(seen', read),
           inspector = "localEnvironment" => EnvironmentRead(seen', read),
           inspector = "runtime" => SessionsRead(seen', read),
           inspector = "docker" => DockerRead(seen', read),
           inspector = "ports" => PortsRead(seen', read),
           inspector = "verification" => HistoryRead(seen', read)
    PROVE  ContextInv'
  <1>1. /\ DOMAIN ctx' = DOMAIN ctx \cup {inspector} /\ ctx'[inspector] = read
        /\ \A part \in DOMAIN ctx : part # inspector => ctx'[part] = ctx[part]
    BY DEF Extend
  <1>2. inspector \notin {"loaderFindings", "contract"}
    BY InspectorsAre DEF Labels
  <1>3. "loaderFindings" \in DOMAIN ctx' /\ \A f \in ctx'.loaderFindings : Sound(seen', f)
    BY <1>1, <1>2, SoStays DEF ContextInv
  <1>4. "contract" \in DOMAIN ctx' => ContractRead(seen', ctx'.contract)
    BY <1>1, <1>2, SoStays DEF ContextInv, Has
  <1>5. "inventory" \in DOMAIN ctx' => InventoryRead(seen', ctx'.inventory)
    BY <1>1, SoStays DEF ContextInv, Has
  <1>6. "localEnvironment" \in DOMAIN ctx' => EnvironmentRead(seen', ctx'.localEnvironment)
    BY <1>1, SoStays DEF ContextInv, Has
  <1>7. "runtime" \in DOMAIN ctx' => SessionsRead(seen', ctx'.runtime)
    BY <1>1, SoStays DEF ContextInv, Has
  <1>8. "docker" \in DOMAIN ctx' => DockerRead(seen', ctx'.docker)
    BY <1>1, SoStays DEF ContextInv, Has
  <1>9. "ports" \in DOMAIN ctx' => PortsRead(seen', ctx'.ports)
    BY <1>1, SoStays DEF ContextInv, Has
  <1>10. "verification" \in DOMAIN ctx' => HistoryRead(seen', ctx'.verification)
    BY <1>1, SoStays DEF ContextInv, Has
  <1> QED
    BY <1>3, <1>4, <1>5, <1>6, <1>7, <1>8, <1>9, <1>10 DEF ContextInv, Has

\* What a step does to what was seen.
LEMMA ObserveIs ==
    Observe /\ lasting \subseteq Facts =>
        seen \subseteq seen' /\ Facts' \subseteq seen' /\ lasting' \subseteq Facts' /\ lasting' \subseteq lasting
  BY DEF Observe

LEMMA EvidenceBegins == Init => EvidenceInv
  <1> SUFFICES ASSUME Init PROVE EvidenceInv
    OBVIOUS
  <1>1. ctx = [loaderFindings |-> {}] /\ pc = "access" /\ report = {} /\ seen = Facts /\ lasting = Facts
    BY DEF Init
  <1>2. ContextInv
    BY <1>1 DEF ContextInv, Has
  <1> QED
    BY <1>1, <1>2 DEF EvidenceInv, PendingInv, Labels

\* A run that is recorded stays, and one place further down when another one is.
LEMMA RunsStay ==
    ASSUME MachineInv,
           \/ EditContract \/ EditTree \/ Track \/ ChangeTool \/ ChangeDocker \/ ChangeContainer
           \/ StartSession \/ ChangeSession \/ RecordRun
    PROVE  \A i \in DOMAIN runs : \E j \in DOMAIN runs' : i <= j /\ runs'[j] = runs[i]
  <1>0. \A i \in DOMAIN runs : i \in Nat
    BY LenProperties DEF MachineInv, IsHistory
  <1>1. CASE UNCHANGED runs
    BY <1>0, <1>1
  <1>2. CASE RecordRun
    <2>1. PICK r \in DOMAIN NewRuns \ {runs[i].name : i \in DOMAIN runs} :
            runs' = <<[name |-> r, outcomes |-> NewRuns[r]]>> \o runs
      BY <1>2 DEF RecordRun
    <2>2. IsRun([name |-> r, outcomes |-> NewRuns[r]])
      BY ChangesAssumption DEF IsRun
    <2>3. \A i \in DOMAIN runs : i + 1 \in DOMAIN runs' /\ runs'[i + 1] = runs[i]
      BY <2>1, <2>2, HistoryGrows DEF MachineInv
    <2> QED
      BY <1>0, <2>3
  <1> QED
    BY <1>1, <1>2 DEF EditContract, EditTree, Track, ChangeTool, ChangeDocker, ChangeContainer, StartSession,
                      ChangeSession

\* While only the machine changes.
LEMMA EvidenceOfMachine ==
    ASSUME MachineInv, EvidenceInv, Machine, Observe
    PROVE  EvidenceInv'
  <1>1. UNCHANGED <<pc, request, present, ctx, pending, report>>
    BY DEF Machine, Changing, doctorVars
  <1>2. seen \subseteq seen' /\ Facts' \subseteq seen' /\ lasting' \subseteq Facts'
    BY ObserveIs DEF EvidenceInv
  <1>3. ContextInv'
    BY <1>1, <1>2, ContextStays DEF EvidenceInv
  <1>4. \A r : (\E i \in DOMAIN runs : runs[i].name = r) => \E i \in DOMAIN runs' : runs'[i].name = r
    BY RunsStay DEF Machine
  <1>5. PendingInv'
    BY <1>1, <1>2, <1>4, SoStays DEF EvidenceInv, PendingInv, HasAsked
  <1> QED
    BY <1>1, <1>2, <1>3, <1>5, SoStays DEF EvidenceInv

\* What an inspector reads of the machine.
LEMMA SessionsAreRead ==
    ASSUME MachineInv, NEW S, Facts \subseteq S, NEW D, D \subseteq DOMAIN sessions
    PROVE  SessionsRead(S, Restrict(sessions, D))
  <1> DEFINE list == Restrict(sessions, D)
  <1>1. DOMAIN list = D /\ \A s \in D : list[s] = sessions[s]
    BY DEF Restrict
  <1>2. \A s \in StaleSessions(list) : s \in D /\ s \in StaleSessions(sessions)
    BY <1>1 DEF StaleSessions
  <1> HIDE DEF list
  <1>3. \A s \in DOMAIN list : \A f \in list[s].failures : <<"failure", s, f>> \in S
    BY <1>1, FactsSay
  <1>4. \A s \in StaleSessions(list) : <<"stale", s>> \in S
    BY <1>2, FactsSay
  <1>5. \A s \in StaleSessions(list) : \A p \in list[s].ports : <<"claimed", p>> \in S
    BY <1>1, <1>2, FactsSay
  <1> QED
    BY <1>3, <1>4, <1>5 DEF SessionsRead, list

LEMMA NoSessionsAreRead == ASSUME NEW S PROVE SessionsRead(S, <<>>)
  BY DEF SessionsRead, StaleSessions

LEMMA ContainersAreRead ==
    ASSUME NEW S, Facts \subseteq S
    PROVE  ContainersRead(S, containers)
  <1>1. \A n \in DOMAIN containers : <<"container", n, containers[n].state>> \in S
    BY FactsSay
  <1>2. ASSUME NEW v \in ComposeNames, ContainersOf(v, containers) = {}
        PROVE  <<"no container", v>> \in S
    <2>1. \A n \in DOMAIN containers : containers[n].service # v
      BY <1>2 DEF ContainersOf
    <2> QED
      BY <1>2, <2>1, FactsSay
  <1> QED
    BY <1>1, <1>2 DEF ContainersRead, WasSo

\* docker ps has failed.
LEMMA NoContainersAreRead ==
    ASSUME NEW S, NEW part \in {"client", "daemon", "list"}, <<"without", part>> \in S
    PROVE  ContainersRead(S, <<>>)
  <1>1. ASSUME NEW v PROVE WasSo(S, <<"no container", v>>)
    BY DEF WasSo
  <1>2. DOMAIN <<>> = {}
    OBVIOUS
  <1> QED
    BY <1>1, <1>2, Zenon DEF ContainersRead

\* A part of Docker, or the client that is to ask it, is not there.
LEMMA WithoutPart ==
    ASSUME NEW S, Facts \subseteq S, NEW part \in {"daemon", "compose", "list"},
           ~({"client", part} \subseteq docker)
    PROVE  WasSo(S, <<"without", part>>)
  <1>1. <<"without", "client">> \in S \/ <<"without", part>> \in S
    BY FactsSay, ZenonT(60)
  <1>2. <<"without", part>>[1] = "without"
    OBVIOUS
  <1> QED
    BY <1>1, <1>2 DEF WasSo

LEMMA ServicesAreComposed ==
    ASSUME ContextInv PROVE \A s \in DOMAIN Services : Services[s] \in ComposeNames
  <1>1. CASE Has("contract")
    BY <1>1, FilesAssumption DEF Services, ContextInv, ContractRead
  <1>2. CASE ~Has("contract")
    BY <1>2 DEF Services
  <1> QED
    BY <1>1, <1>2

LEMMA ToolsAreRead ==
    ASSUME NEW S, Facts \subseteq S, ToolsRead(S, pending), NEW t \in DOMAIN tools,
           pending' = [u \in DOMAIN pending \cup {t} |->
                         IF u = t THEN ToolStatus(tools[t]) ELSE pending[u]]
    PROVE  ToolsRead(S, pending')
  <1>1. ToolStatus(tools[t]) = "missing" => <<"tool", t>> \in S
    <2>1. ToolStatus(tools[t]) = "missing" => tools[t] = "fails"
      BY DEF ToolStatus
    <2> QED
      BY <2>1, FactsSay
  <1> QED
    BY <1>1 DEF ToolsRead

\* The loader.
LEMMA ContractIsRead ==
    ASSUME MachineInv, file.state = "valid", NEW S, Facts \subseteq S
    PROVE  ContractRead(S, file.contract)
  BY ContractSays DEF ContractRead, MachineInv, Contracts

LEMMA UnusableIsSound ==
    ASSUME NEW S, Facts \subseteq S,
           NEW id \in {"contract.missing", "contract.invalid", "contract.read_error"},
           NEW severity \in {"blocking", "error"}
    PROVE  \A f \in {Finding(id, <<id>>, severity, {<<"contract", file.state>>})} : Sound(S, f)
  <1>1. WasSo(S, <<"contract", file.state>>)
    BY FactsSay DEF WasSo
  <1>2. Tagged(id, <<id>>, <<"contract", file.state>>)
    BY DEF Tagged
  <1> QED
    BY <1>1, <1>2, SoundFinding, SMTT(60)

LEMMA EvidenceOfDoctor ==
    ASSUME MachineInv, EvidenceInv, Doctor, Observe
    PROVE  EvidenceInv'
  <1>1. UNCHANGED <<file, tree, tracked, tools, docker, containers, sessions, runs, unreadable, present>>
    BY DEF Doctor, ContractMissing, ContractThere, ParseContract, Scan, SkipInspector,
       InspectInventory, ProbeTool, InspectEnvironment, InspectRuntime, AskVersion, AskInfo,
       AskCompose, AskContainers, InspectPorts, ReadHistory, ReadRuns, RunRules, FailRules, Extend, Answered,
       machineVars
  <1>2. seen \subseteq seen' /\ Facts' \subseteq seen' /\ lasting' \subseteq Facts' /\ Facts \subseteq seen'
    BY ObserveIs DEF EvidenceInv
  <1> SUFFICES /\ pc' \in Labels /\ ContextInv' /\ PendingInv' /\ \A f \in report' : Sound(seen', f)
               /\ pc' # "failed" \/ FailRules
    <2>1. FailRules => \E p \in Throwing : <<"pattern", p>> \in seen'
      BY <1>2, ThrownFor DEF FailRules, EvidenceInv
    <2> QED
      BY <1>2, <2>1 DEF EvidenceInv
  <1>3. UNCHANGED report => \A f \in report' : Sound(seen', f)
    BY <1>2, SoStays DEF EvidenceInv
  <1>4. UNCHANGED ctx => ContextInv'
    BY <1>2, ContextStays DEF EvidenceInv
  <1>5. ASSUME pending' = Nothing, pc' \in Labels \ {"inventory"} PROVE PendingInv'
    BY <1>5 DEF PendingInv, Nothing, HasAsked, ToolsRead, Labels
  <1>6. ASSUME NEW inspector \in Range(Inspectors), pc' = After(inspector)
        PROVE  pc' \in Labels \ {"inventory", "failed"}
    BY <1>6, AfterIs, InspectorsAre DEF Labels
  <1>7. ASSUME NEW inspector \in Range(Inspectors), NEW read,
               Extend(inspector, read),
               inspector = "inventory" => InventoryRead(seen', read),
               inspector = "localEnvironment" => EnvironmentRead(seen', read),
               inspector = "runtime" => SessionsRead(seen', read),
               inspector = "docker" => DockerRead(seen', read),
               inspector = "ports" => PortsRead(seen', read),
               inspector = "verification" => HistoryRead(seen', read)
        PROVE  /\ pc' \in Labels /\ ContextInv' /\ PendingInv' /\ \A f \in report' : Sound(seen', f)
               /\ pc' # "failed"
    <2>1. ContextInv'
      BY <1>2, <1>7, ContextGrows DEF EvidenceInv
    <2>2. pending' = Nothing /\ pc' = After(inspector) /\ UNCHANGED report
      BY <1>7 DEF Extend, Goto
    <2> QED
      BY <1>3, <1>5, <1>6, <2>1, <2>2
  <1>8. CASE ContractMissing
    <2>1. ContextInv'
      BY <1>2, <1>8, UnusableIsSound DEF ContractMissing, Unusable, ContextInv, Has
    <2>2. pc' = "scan" /\ UNCHANGED report
      BY <1>8 DEF ContractMissing, Goto
    <2> QED
      BY <1>3, <2>1, <2>2 DEF PendingInv, Labels
  <1>9. CASE ContractThere
    BY <1>3, <1>4, <1>9 DEF ContractThere, Goto, PendingInv, Labels
  <1>10. CASE ParseContract
    <2>1. pc' = "scan" /\ UNCHANGED report
      BY <1>10 DEF ParseContract, Goto
    <2>2. CASE file.state = "valid"
      <3>1. ctx' = [loaderFindings |-> {}, contract |-> file.contract]
        BY <1>10, <2>2 DEF ParseContract, Loaded
      <3>2. ContextInv'
        BY <1>2, <2>2, <3>1, ContractIsRead DEF ContextInv, Has
      <3> QED
        BY <1>3, <2>1, <3>2 DEF PendingInv, Labels
    <2>3. CASE file.state # "valid"
      <3>1. PICK id \in {"contract.invalid", "contract.read_error"}, severity \in {"blocking", "error"} :
              ctx' = [loaderFindings |-> {Finding(id, <<id>>, severity, {<<"contract", file.state>>})}]
        BY <1>10, <2>3 DEF ParseContract, Unusable
      <3>2. ContextInv'
        BY <1>2, <3>1, UnusableIsSound DEF ContextInv, Has
      <3> QED
        BY <1>3, <2>1, <3>2 DEF PendingInv, Labels
    <2> QED
      BY <2>2, <2>3
  <1>11. CASE Scan
    <2>1. InventoryRead(seen', pending')
      BY <1>2, <1>11, FactsSay DEF Scan, InventoryRead
    <2>2. pc' \in {"rules", "inventory"} /\ UNCHANGED <<report, ctx>>
      BY <1>11 DEF Scan, Goto, Inspectors
    <2> QED
      BY <1>3, <1>4, <2>1, <2>2 DEF PendingInv, Labels
  <1>12. CASE \E i \in DOMAIN Inspectors : SkipInspector(Inspectors[i])
    <2>1. PICK inspector \in Range(Inspectors) : SkipInspector(inspector)
      BY <1>12 DEF Range
    <2>2. pending' = Nothing /\ pc' = After(inspector) /\ UNCHANGED <<report, ctx>>
      BY <2>1 DEF SkipInspector, Goto
    <2> QED
      BY <1>3, <1>4, <1>5, <1>6, <2>2
  <1>13. CASE InspectInventory
    <2>1. InventoryRead(seen', pending)
      BY <1>2, <1>13, SoStays DEF InspectInventory, Enabled, EvidenceInv, PendingInv
    <2> QED
      BY <1>7, <1>13, <2>1, InspectorsAre DEF InspectInventory, Labels
  <1>14. CASE \E t \in DOMAIN tools : ProbeTool(t)
    <2>1. PICK t \in DOMAIN tools : ProbeTool(t)
      BY <1>14
    <2>2. pc = "localEnvironment" /\ UNCHANGED <<pc, report, ctx>>
      BY <2>1 DEF ProbeTool, Enabled
    <2>3. ToolsRead(seen', pending)
      BY <1>2, <2>2, SoStays DEF EvidenceInv, PendingInv
    <2>4. ToolsRead(seen', pending')
      BY <1>2, <2>1, <2>3, ToolsAreRead DEF ProbeTool
    <2> QED
      BY <1>3, <1>4, <2>2, <2>4 DEF PendingInv, Labels
  <1>15. CASE InspectEnvironment
    <2>1. CASE Extend("localEnvironment", NoEnvironment)
      <3>1. EnvironmentRead(seen', NoEnvironment)
        BY DEF EnvironmentRead, NoEnvironment, ToolsRead
      <3> QED
        BY <1>7, <2>1, <3>1, InspectorsAre DEF Labels
    <2>2. CASE Has("contract")
      <3> DEFINE read == [tools |-> pending,
                          required |-> RequiredVariables(ctx.contract),
                          present |-> present,
                          missingFiles |-> ExpectedFiles(DOMAIN pending) \ tree]
      <3>1. Extend("localEnvironment", read) /\ pc = "localEnvironment"
        BY <1>15, <2>2 DEF InspectEnvironment, Enabled
      <3>2. ToolsRead(seen', pending)
        BY <1>2, <3>1, SoStays DEF EvidenceInv, PendingInv
      <3>3. RequiredVariables(ctx.contract) \subseteq Variables
        BY <2>2, FilesAssumption, RequiredAreUsed DEF EvidenceInv, ContextInv, ContractRead
      <3>4. \A n \in RequiredVariables(ctx.contract) \ present : <<"variable", n>> \in seen'
        BY <1>2, <3>3, FactsSay
      <3>5. \A f \in ExpectedFiles(DOMAIN pending) \ tree : <<"file", f>> \in seen'
        BY <1>2, ExpectedAreMetadata, FactsSay
      <3>6. EnvironmentRead(seen', read)
        BY <3>2, <3>4, <3>5 DEF EnvironmentRead
      <3> HIDE DEF read
      <3> QED
        BY <1>7, <3>1, <3>6, InspectorsAre DEF Labels
    <2> QED
      BY <1>15, <2>1, <2>2 DEF InspectEnvironment
  <1>16. CASE InspectRuntime
    <2> DEFINE read == IF "runtime" \in unreadable THEN <<>>
                       ELSE Restrict(sessions, RecentSessions(sessions))
    <2>1. SessionsRead(seen', read)
      <3>1. RecentSessions(sessions) \subseteq DOMAIN sessions
        BY DEF RecentSessions
      <3> QED
        BY <1>2, <3>1, SessionsAreRead, NoSessionsAreRead
    <2>2. Extend("runtime", read)
      BY <1>16 DEF InspectRuntime
    <2> HIDE DEF read
    <2> QED
      BY <1>7, <2>1, <2>2, InspectorsAre DEF Labels
  <1>17. CASE AskVersion
    <2>1. pc = "docker"
      BY <1>17 DEF AskVersion, Enabled
    <2>2. CASE "client" \in docker
      <3>1. pending' = [asked |-> "version"] /\ UNCHANGED <<pc, ctx, report>>
        BY <1>17, <2>2 DEF AskVersion, Answered
      <3>2. PendingInv'
        BY <2>1, <3>1 DEF PendingInv, HasAsked
      <3> QED
        BY <1>3, <1>4, <2>1, <3>1, <3>2 DEF Labels
    <2>3. CASE "client" \notin docker
      <3>1. Extend("docker", DockerAnswers(FALSE, FALSE, FALSE, <<>>))
        BY <1>17, <2>3 DEF AskVersion
      <3>2. <<"without", "client">> \in seen'
        BY <1>2, <2>3, FactsSay
      <3>3. DockerRead(seen', DockerAnswers(FALSE, FALSE, FALSE, <<>>))
        <4>1. WasSo(seen', <<"without", "daemon">>) /\ WasSo(seen', <<"without", "compose">>)
          BY <3>2 DEF WasSo
        <4> QED
          BY <3>2, <4>1, ServicesAreComposed DEF DockerRead, DockerAnswers, EvidenceInv
      <3> QED
        BY <1>7, <3>1, <3>3, InspectorsAre DEF Labels
    <2> QED
      BY <2>2, <2>3
  <1>18. CASE AskInfo
    <2>1. /\ pc = "docker" /\ UNCHANGED <<pc, ctx, report>>
          /\ pending' = [asked |-> "info", daemon |-> {"client", "daemon"} \subseteq docker]
      BY <1>18 DEF AskInfo, Enabled, Answered
    <2>2. ~pending'.daemon => WasSo(seen', <<"without", "daemon">>)
      BY <1>2, <2>1, WithoutPart
    <2>3. PendingInv'
      BY <2>1, <2>2 DEF PendingInv, HasAsked
    <2> QED
      BY <1>3, <1>4, <2>1, <2>3 DEF Labels
  <1>19. CASE AskCompose
    <2> DEFINE compose == {"client", "compose"} \subseteq docker
               read == DockerAnswers(TRUE, FALSE, compose, <<>>)
    <2>1. pc = "docker" /\ HasAsked("info")
      BY <1>19 DEF AskCompose, Enabled
    <2>2. ~compose => WasSo(seen', <<"without", "compose">>)
      BY <1>2, WithoutPart
    <2>3. IF pending.daemon THEN Answered([asked |-> "compose", compose |-> compose])
          ELSE Extend("docker", read)
      BY <1>19 DEF AskCompose
    <2> HIDE DEF compose
    <2>4. CASE pending.daemon
      <3>1. /\ pending' = [asked |-> "compose", compose |-> compose]
            /\ UNCHANGED <<pc, ctx, report>>
        BY <2>3, <2>4 DEF Answered
      <3>2. PendingInv'
        BY <2>1, <2>2, <3>1 DEF PendingInv, HasAsked
      <3> QED
        BY <1>3, <1>4, <2>1, <3>1, <3>2 DEF Labels
    <2>5. CASE ~pending.daemon
      <3>1. WasSo(seen', <<"without", "daemon">>)
        BY <1>2, <2>1, <2>5, SoStays DEF EvidenceInv, PendingInv
      <3>2. DockerRead(seen', read)
        BY <2>2, <3>1, ServicesAreComposed DEF DockerRead, DockerAnswers, EvidenceInv
      <3> HIDE DEF read
      <3> QED
        BY <1>7, <2>3, <2>5, <3>2, InspectorsAre DEF Labels
    <2> QED
      BY <2>4, <2>5
  <1>20. CASE AskContainers
    <2> DEFINE list == IF {"client", "daemon", "list"} \subseteq docker THEN containers ELSE <<>>
               read == DockerAnswers(TRUE, TRUE, pending.compose, list)
    <2>1. pc = "docker" /\ HasAsked("compose") /\ Extend("docker", read)
      BY <1>20 DEF AskContainers, Enabled
    <2>2. ~pending.compose => WasSo(seen', <<"without", "compose">>)
      BY <1>2, <2>1, SoStays DEF EvidenceInv, PendingInv
    <2>3. ContainersRead(seen', list)
      <3>1. CASE {"client", "daemon", "list"} \subseteq docker
        BY <1>2, <3>1, ContainersAreRead
      <3>2. CASE ~({"client", "daemon", "list"} \subseteq docker)
        <4>1. PICK part \in {"client", "daemon", "list"} : part \notin docker
          BY <3>2
        <4>2. <<"without", part>> \in seen'
          BY <1>2, <4>1, FactsSay
        <4> QED
          BY <3>2, <4>2, NoContainersAreRead
      <3> QED
        BY <3>1, <3>2
    <2> HIDE DEF list
    <2>4. DockerRead(seen', read)
      BY <2>2, <2>3, ServicesAreComposed DEF DockerRead, DockerAnswers, EvidenceInv
    <2> HIDE DEF read
    <2> QED
      BY <1>7, <2>1, <2>4, InspectorsAre DEF Labels
  <1>21. CASE InspectPorts
    <2> DEFINE expected == IF Has("contract") THEN ExpectedPorts(ctx.contract) ELSE {}
               known == IF Has("runtime") THEN ctx.runtime ELSE <<>>
               read == [expected |-> expected, checks |-> PortChecks(expected, known),
                        requireListening |-> RequireListening]
    <2>1. Extend("ports", read)
      BY <1>21 DEF InspectPorts
    <2>2. \A x \in expected : <<"declared", x.owner, x.port>> \in seen'
      BY <1>2 DEF EvidenceInv, ContextInv, ContractRead
    <2>3. PortsRead(seen', read)
      <3> HIDE DEF expected, known
      <3> QED
        BY <2>2 DEF PortsRead, PortChecks, PortStatus
    <2> HIDE DEF read
    <2> QED
      BY <1>7, <2>1, <2>3, InspectorsAre DEF Labels
  <1>22. CASE ReadHistory
    <2>1. pc = "verification"
      BY <1>22 DEF ReadHistory, Enabled
    <2>2. CASE "history" \in unreadable
      <3>1. Extend("verification", <<>>) /\ HistoryRead(seen', <<>>)
        BY <1>22, <2>2 DEF ReadHistory, HistoryRead
      <3> QED
        BY <1>7, <3>1, InspectorsAre DEF Labels
    <2>3. CASE "history" \notin unreadable
      <3>1. /\ pending' = [names |-> {runs[i].name : i \in {i \in DOMAIN runs : i <= MaxRecent}}]
            /\ UNCHANGED <<pc, ctx, report, runs>>
        BY <1>1, <1>22, <2>3 DEF ReadHistory, Answered
      <3>2. \A r \in pending'.names : \E i \in DOMAIN runs' : runs'[i].name = r
        BY <3>1
      <3>3. PendingInv'
        BY <2>1, <3>1, <3>2 DEF PendingInv
      <3> QED
        BY <1>3, <1>4, <2>1, <3>1, <3>3 DEF Labels
    <2> QED
      BY <2>2, <2>3
  <1>23. CASE ReadRuns
    <2> DEFINE read == [r \in pending.names |-> (CHOOSE run \in Range(runs) : run.name = r).outcomes]
    <2>1. Extend("verification", read) /\ pc = "verification" /\ pending # Nothing
      BY <1>23 DEF ReadRuns, Enabled
    <2>2. ASSUME NEW r \in pending.names
          PROVE  \E i \in DOMAIN runs : runs[i].name = r /\ read[r] = runs[i].outcomes
      <3>1. \E run \in Range(runs) : run.name = r
        BY <2>1 DEF EvidenceInv, PendingInv, Range
      <3>2. PICK run \in Range(runs) : run.name = r /\ read[r] = run.outcomes
        BY <3>1
      <3> QED
        BY <3>2 DEF Range
    <2>3. HistoryRead(seen', read)
      <3>1. SUFFICES ASSUME NEW r \in DOMAIN read, NEW k \in DOMAIN read[r]
                     PROVE  <<"outcome", r, k, read[r][k]>> \in Facts
        BY <1>2 DEF HistoryRead
      <3>2. PICK i \in DOMAIN runs : runs[i].name = r /\ read[r] = runs[i].outcomes
        BY <2>2
      <3> HIDE DEF read
      <3>3. k \in DOMAIN runs[i].outcomes /\ runs[i].outcomes[k] = read[r][k]
        BY <3>1, <3>2
      <3>4. <<"outcome", runs[i].name, k, runs[i].outcomes[k]>> \in Facts
        BY <3>3, OutcomeOnFile
      <3> QED
        BY <3>2, <3>3, <3>4, Zenon
    <2> HIDE DEF read
    <2> QED
      BY <1>7, <2>1, <2>3, InspectorsAre DEF Labels
  <1>24. CASE RunRules
    <2>1. /\ pc' = "done" /\ pending' = Nothing /\ UNCHANGED ctx
          /\ report' \subseteq ctx.loaderFindings \cup RuleFindings(request.categories, ctx)
      BY <1>24 DEF RunRules, Goto
    <2>2. \A f \in report' : Sound(seen, f)
      BY <2>1, RulesSound DEF EvidenceInv, ContextInv
    <2>3. \A f \in report' : Sound(seen', f)
      BY <1>2, <2>2, SoStays
    <2> QED
      BY <1>4, <1>5, <2>1, <2>3 DEF Labels
  <1>25. CASE FailRules
    BY <1>3, <1>4, <1>5, <1>25 DEF FailRules, Goto, Labels
  <1> QED
    BY <1>8, <1>9, <1>10, <1>11, <1>12, <1>13, <1>14, <1>15, <1>16, <1>17, <1>18, <1>19, <1>20,
       <1>21, <1>22, <1>23, <1>24, <1>25 DEF Doctor

LEMMA EvidenceStep == MachineInv /\ EvidenceInv /\ [Next]_vars => EvidenceInv'
  <1> SUFFICES ASSUME MachineInv, EvidenceInv, [Next]_vars PROVE EvidenceInv'
    OBVIOUS
  <1>1. CASE UNCHANGED vars
    <2>1. UNCHANGED <<file, tree, tracked, tools, docker, containers, sessions, runs, unreadable, pc, request,
                      present, ctx, pending, report, seen, lasting>>
      BY <1>1 DEF vars, machineVars, doctorVars
    <2>2. Facts' = Facts
      BY <2>1 DEF Facts, StaleSessions, Inventory
    <2> QED
      BY <2>1, <2>2 DEF EvidenceInv, ContextInv, Has, PendingInv, HasAsked
  <1> QED
    BY <1>1, EvidenceOfMachine, EvidenceOfDoctor DEF Next

\* The machine keeps its shape, however it changes (its ports, files, sessions and containers).
THEOREM MachineTyped == Spec => []MachineInv
  BY MachineBegins, MachineStep, PTL DEF Spec

\* What has been read and found so far was so when it was read (the inspectors of doctor-runtime).
THEOREM EvidenceHolds == Spec => [](MachineInv /\ EvidenceInv)
  BY MachineBegins, MachineStep, EvidenceBegins, EvidenceStep, PTL DEF Spec

\* What a finding gives as evidence was the case while the doctor ran
\* (diagnostic-engine.ts:66-148, docker-inspector.ts:87-149).
THEOREM EvidenceAlwaysWasSo == Spec => []EvidenceWasSo
  <1>1. EvidenceInv => EvidenceWasSo
    BY DEF EvidenceInv, Sound, WasSo, EvidenceWasSo
  <1> QED
    BY <1>1, EvidenceHolds, PTL

-----------------------------------------------------------------------------
(* The rules agree. *)

\* A rule makes findings of its own, but for the one that repeats those of the loader.
MadeBy(rule, f) ==
    \E id, severity, evidence : \/ f = Finding(rule, id, severity, evidence)
                                \/ f = Candidate(rule, id, severity, evidence)

LEMMA MadeByIs == ASSUME NEW rule, NEW f, MadeBy(rule, f) PROVE f.rule = rule
  BY FindingIs, CandidateIs DEF MadeBy

LEMMA ContainerFindingsMade ==
    ASSUME NEW services, NEW list, NEW f \in ContainerFindings(services, list)
    PROVE  MadeBy("docker.observations", f)
  <1>1. \/ \E s : f = Finding("docker.observations", <<"compose_service_missing", s>>, "warning",
                            {<<"no container", services[s]>>})
        \/ \E s, kind, state, n : f = Finding("docker.observations", <<kind, s>>, "error",
                                            {<<"container", n, state>>})
    BY ZenonT(60) DEF ContainerFindings
  <1> QED
    BY <1>1, Zenon DEF MadeBy

LEMMA RuleIs ==
    ASSUME NEW context, NEW rule \in Rules \ {"contract.loader-findings"}, NEW f \in RunRule(rule, context)
    PROVE  f.rule = rule
  <1> SUFFICES MadeBy(rule, f)
    BY MadeByIs
  <1>1. CASE rule = "environment.tools"
    <2>1. f \in ToolFindings(context.localEnvironment)
      BY <1>1 DEF RunRule
    <2> QED
      BY <1>1, <2>1, Zenon DEF ToolFindings, MadeBy
  <1>2. CASE rule = "environment.variables"
    <2>1. f \in VariableFindings(context.localEnvironment)
      BY <1>2 DEF RunRule
    <2> QED
      BY <1>2, <2>1, Zenon DEF VariableFindings, MadeBy
  <1>3. CASE rule = "environment.expected-files"
    <2>1. f \in FileFindings(context.localEnvironment)
      BY <1>3 DEF RunRule
    <2> QED
      BY <1>3, <2>1, Zenon DEF FileFindings, MadeBy
  <1>4. CASE rule = "runtime.failures"
    <2>1. f \in SessionFindings(context.runtime)
      BY <1>4 DEF RunRule
    <2> QED
      BY <1>4, <2>1, Zenon DEF SessionFindings, MadeBy
  <1>5. CASE rule = "runtime.repeated-failures"
    <2>1. f \in RepeatedFindings(context.runtime)
      BY <1>5 DEF RunRule
    <2> QED
      BY <1>5, <2>1, Zenon DEF RepeatedFindings, MadeBy
  <1>6. CASE rule = "docker.observations"
    <2>1. f \in DockerFindings(context.docker)
      BY <1>6 DEF RunRule
    <2>2. CASE f \in ContainerFindings(context.docker.services, context.docker.containers)
      BY <1>6, <2>2, ContainerFindingsMade
    <2>3. CASE f \notin ContainerFindings(context.docker.services, context.docker.containers)
      BY <1>6, <2>1, <2>3 DEF DockerFindings, MadeBy
    <2> QED
      BY <2>2, <2>3
  <1>7. CASE rule = "ports.observations"
    <2>1. f \in PortFindings(context.ports)
      BY <1>7 DEF RunRule
    <2> QED
      BY <1>7, <2>1, Zenon DEF PortFindings, MadeBy
  <1>8. CASE rule = "ports.contract-duplicates"
    <2>1. f \in DuplicateFindings(context.ports)
      BY <1>8 DEF RunRule
    <2> QED
      BY <1>8, <2>1, Zenon DEF DuplicateFindings, MadeBy
  <1>9. CASE rule = "ports.stale-board-state"
    <2>1. f \in StalePortFindings(context.ports, context.runtime)
      BY <1>9 DEF RunRule
    <2> QED
      BY <1>9, <2>1, Zenon DEF StalePortFindings, MadeBy
  <1>10. CASE rule = "verification.stale-config"
    <2>1. f \in StaleConfigFindings(context.contract, context.inventory.paths)
      BY <1>10 DEF RunRule
    <2>2. \/ \E k, p : f = Finding("verification.stale-config", <<"path", k.id, p>>, "warning",
                                  {<<"uncovered", p>>})
          \/ \E k, m : f = Finding("verification.stale-config", <<"component", k.id, m>>, "warning",
                                  {<<"unknown component", m>>})
      BY <2>1 DEF StaleConfigFindings
    <2> QED
      BY <1>10, <2>2, Zenon DEF MadeBy
  <1>11. CASE rule = "contract.path-references"
    <2>1. f \in PathReferenceFindings(context.contract, context.inventory.paths)
      BY <1>11 DEF RunRule
    <2> QED
      BY <1>11, <2>1, Zenon DEF PathReferenceFindings, MadeBy
  <1>12. CASE rule = "contract.command-references"
    <2>1. f \in CommandReferenceFindings(context.contract, context.inventory.commands)
      BY <1>12 DEF RunRule
    <2> QED
      BY <1>12, <2>1, Zenon DEF CommandReferenceFindings, MadeBy
  <1>13. CASE rule = "verification.observations"
    <2>1. f \in OutcomeFindings(context.verification) \/ f \in RecurringFindings(context.verification)
      BY <1>13 DEF RunRule
    <2>2. CASE f \in OutcomeFindings(context.verification)
      <3>1. PICK o, severity :
              f = Finding("verification.observations", <<CheckKind(o.status), o.check>>, severity,
                          {OutcomeEvidence(o)})
        BY <2>2 DEF OutcomeFindings
      <3> QED
        BY <1>13, <3>1, Zenon DEF MadeBy
    <2>3. CASE f \in RecurringFindings(context.verification)
      BY <1>13, <2>3, Zenon DEF RecurringFindings, MadeBy
    <2> QED
      BY <2>1, <2>2, <2>3
  <1> QED
    BY <1>1, <1>2, <1>3, <1>4, <1>5, <1>6, <1>7, <1>8, <1>9, <1>10, <1>11, <1>12, <1>13 DEF Rules

\* What the report is made of, and of how much.
ReportInv ==
    /\ \A f \in ctx.loaderFindings :
         /\ f.rule \in {"contract.missing", "contract.invalid", "contract.read_error"}
         /\ f.kind = "fact"
    /\ Has("runtime") => /\ IsFiniteSet(DOMAIN ctx.runtime)
                         /\ \A s \in DOMAIN ctx.runtime : IsFiniteSet(ctx.runtime[s].failures)
    /\ Has("verification") => /\ IsFiniteSet(DOMAIN ctx.verification)
                              /\ \A r \in DOMAIN ctx.verification :
                                   IsFiniteSet(DOMAIN ctx.verification[r])
    /\ pc = "verification" /\ pending # Nothing => IsFiniteSet(pending.names)
    /\ IF pc = "done"
       THEN report = ctx.loaderFindings
                       \cup (IF request.dry THEN {} ELSE RuleFindings(request.categories, ctx))
       ELSE report = {}

LEMMA ReportBegins == Init => ReportInv
  BY DEF Init, ReportInv, Has

LEMMA ReportStep == MachineInv /\ EvidenceInv /\ ReportInv /\ [Next]_vars => ReportInv'
  <1> SUFFICES ASSUME MachineInv, EvidenceInv, ReportInv, [Next]_vars PROVE ReportInv'
    OBVIOUS
  <1>1. CASE UNCHANGED <<pc, request, ctx, pending, report>>
    BY <1>1 DEF ReportInv, Has
  <1>2. CASE Machine
    BY <1>1, <1>2 DEF Machine, Changing, doctorVars
  <1>3. ASSUME NEW inspector \in Range(Inspectors), NEW read, Extend(inspector, read), pc = inspector,
               inspector = "runtime" => /\ IsFiniteSet(DOMAIN read)
                                        /\ \A s \in DOMAIN read : IsFiniteSet(read[s].failures),
               inspector = "verification" => /\ IsFiniteSet(DOMAIN read)
                                             /\ \A r \in DOMAIN read : IsFiniteSet(DOMAIN read[r])
        PROVE  ReportInv'
    <2>1. /\ DOMAIN ctx' = DOMAIN ctx \cup {inspector} /\ ctx'[inspector] = read
          /\ \A part \in DOMAIN ctx : part # inspector => ctx'[part] = ctx[part]
          /\ pending' = Nothing /\ pc' = After(inspector) /\ UNCHANGED <<report, request>>
      BY <1>3 DEF Extend, Goto
    <2>2. inspector \notin {"loaderFindings", "done"} /\ After(inspector) # "done"
      BY AfterIs, InspectorsAre DEF Labels
    <2>3. "loaderFindings" \in DOMAIN ctx
      BY DEF EvidenceInv, ContextInv
    <2>4. ctx'.loaderFindings = ctx.loaderFindings /\ report' = {} /\ pc' # "done"
      BY <1>3, <2>1, <2>2, <2>3 DEF ReportInv
    <2>5. Has("runtime")' => /\ IsFiniteSet(DOMAIN ctx'.runtime)
                             /\ \A s \in DOMAIN ctx'.runtime : IsFiniteSet(ctx'.runtime[s].failures)
      BY <1>3, <2>1 DEF ReportInv, Has
    <2>6. Has("verification")' => /\ IsFiniteSet(DOMAIN ctx'.verification)
                                  /\ \A r \in DOMAIN ctx'.verification :
                                       IsFiniteSet(DOMAIN ctx'.verification[r])
      BY <1>3, <2>1 DEF ReportInv, Has
    <2> QED
      BY <2>1, <2>4, <2>5, <2>6 DEF ReportInv
  <1>4. CASE ContractMissing \/ ParseContract
    <2>1. pc # "done" /\ pc' = "scan" /\ UNCHANGED <<report, request, pending>>
      BY <1>4 DEF ContractMissing, ParseContract, Goto
    <2>2. DOMAIN ctx' \subseteq {"loaderFindings", "contract"}
      BY <1>4 DEF ContractMissing, ParseContract, Loaded, Unusable
    <2>3. \A f \in ctx'.loaderFindings :
            /\ f.rule \in {"contract.missing", "contract.invalid", "contract.read_error"}
            /\ f.kind = "fact"
      BY <1>4, FindingIs DEF ContractMissing, ParseContract, Loaded, Unusable
    <2> QED
      BY <2>1, <2>2, <2>3 DEF ReportInv, Has
  <1>5. CASE ContractThere \/ Scan \/ (\E i \in DOMAIN Inspectors : SkipInspector(Inspectors[i]))
    <2>1. /\ pc # "done" /\ UNCHANGED <<report, request, ctx>>
          /\ pc' \notin {"verification", "done"} \/ (pc' = "verification" /\ pending' = Nothing)
      <3>1. CASE ContractThere \/ Scan
        BY <3>1 DEF ContractThere, Scan, Goto, Inspectors
      <3>2. CASE \E i \in DOMAIN Inspectors : SkipInspector(Inspectors[i])
        <4>1. PICK inspector \in Range(Inspectors) : SkipInspector(inspector)
          BY <3>2 DEF Range
        <4> QED
          BY <4>1, AfterIs, InspectorsAre DEF SkipInspector, Goto, Labels
      <3> QED
        BY <1>5, <3>1, <3>2
    <2> QED
      BY <2>1 DEF ReportInv, Has
  <1>6. CASE \E t \in DOMAIN tools : ProbeTool(t)
    BY <1>6 DEF ProbeTool, Enabled, ReportInv, Has
  <1>7. CASE InspectInventory \/ InspectEnvironment \/ InspectPorts
    <2>1. PICK inspector \in {"inventory", "localEnvironment", "ports"} :
            pc = inspector /\ \E read : Extend(inspector, read)
      BY <1>7 DEF InspectInventory, InspectEnvironment, InspectPorts, Enabled
    <2> QED
      BY <1>3, <2>1, InspectorsAre DEF Labels
  <1>8. CASE InspectRuntime
    <2> DEFINE read == IF "runtime" \in unreadable THEN <<>>
                       ELSE Restrict(sessions, RecentSessions(sessions))
    <2>1. RecentSessions(sessions) \subseteq DOMAIN sessions
      BY DEF RecentSessions
    <2>2. IsFiniteSet(RecentSessions(sessions)) /\ IsFiniteSet({})
      BY <2>1, FS_Subset, FS_EmptySet DEF MachineInv
    <2>3. IsFiniteSet(DOMAIN read) /\ \A s \in DOMAIN read : IsFiniteSet(read[s].failures)
      BY <2>1, <2>2 DEF Restrict, MachineInv, IsSession
    <2>4. Extend("runtime", read) /\ pc = "runtime"
      BY <1>8 DEF InspectRuntime, Enabled
    <2> HIDE DEF read
    <2> QED
      BY <1>3, <2>3, <2>4, InspectorsAre DEF Labels
  <1>9. CASE AskVersion \/ AskInfo \/ AskCompose \/ AskContainers
    <2>1. pc = "docker"
      BY <1>9 DEF AskVersion, AskInfo, AskCompose, AskContainers, Enabled
    <2>2. (\E read : Extend("docker", read)) \/ (\E answers : Answered(answers))
      BY <1>9 DEF AskVersion, AskInfo, AskCompose, AskContainers
    <2>3. CASE \E read : Extend("docker", read)
      BY <1>3, <2>1, <2>3, InspectorsAre DEF Labels
    <2>4. CASE \E answers : Answered(answers)
      BY <2>1, <2>4 DEF Answered, ReportInv, Has
    <2> QED
      BY <2>2, <2>3, <2>4
  <1>10. CASE ReadHistory
    <2>1. pc = "verification"
      BY <1>10 DEF ReadHistory, Enabled
    <2>2. CASE Extend("verification", <<>>)
      <3>1. IsFiniteSet(DOMAIN <<>>) /\ DOMAIN <<>> = {}
        BY FS_EmptySet
      <3> QED
        BY <1>3, <2>1, <2>2, <3>1, InspectorsAre DEF Labels
    <2>3. CASE Answered([names |-> {runs[i].name : i \in {i \in DOMAIN runs : i <= MaxRecent}}])
      <3> DEFINE D == {i \in DOMAIN runs : i <= MaxRecent}
      <3>1. IsFiniteSet(D)
        <4>1. DOMAIN runs = 1..Len(runs) /\ Len(runs) \in Nat
          BY LenProperties DEF MachineInv, IsHistory
        <4>2. IsFiniteSet(DOMAIN runs)
          BY <4>1, FS_Interval
        <4> QED
          BY <4>2, FS_Subset
      <3> HIDE DEF D
      <3>2. IsFiniteSet({runs[i].name : i \in D})
        <4>1. [i \in D |-> runs[i].name] \in Surjection(D, {runs[i].name : i \in D})
          BY DEF Surjection
        <4> QED
          BY <3>1, <4>1, FS_Surjection
      <3> QED
        BY <2>1, <2>3, <3>2 DEF Answered, ReportInv, Has, D
    <2> QED
      BY <1>10, <2>2, <2>3 DEF ReadHistory
  <1>11. CASE ReadRuns
    <2> DEFINE read == [r \in pending.names |-> (CHOOSE run \in Range(runs) : run.name = r).outcomes]
    <2>1. Extend("verification", read) /\ pc = "verification" /\ pending # Nothing
      BY <1>11 DEF ReadRuns, Enabled
    <2>2. IsFiniteSet(DOMAIN read)
      BY <2>1 DEF ReportInv
    <2>3. ASSUME NEW r \in pending.names PROVE IsFiniteSet(DOMAIN read[r])
      <3>1. \E run \in Range(runs) : run.name = r
        BY <2>1 DEF EvidenceInv, PendingInv, Range
      <3>2. PICK run \in Range(runs) : read[r] = run.outcomes
        BY <3>1
      <3>3. \A x \in Range(runs) : IsFiniteSet(DOMAIN x.outcomes)
        BY DEF MachineInv, IsHistory, IsRun, Range
      <3> QED
        BY <3>2, <3>3
    <2> HIDE DEF read
    <2>4. \A r \in DOMAIN read : IsFiniteSet(DOMAIN read[r])
      BY <2>3 DEF read
    <2> QED
      BY <1>3, <2>1, <2>2, <2>4, InspectorsAre DEF Labels
  <1>12. CASE RunRules
    BY <1>12 DEF RunRules, Goto, ReportInv, Has
  <1>13. CASE FailRules
    BY <1>13 DEF FailRules, Goto, ReportInv, Has
  <1>14. CASE Doctor
    BY <1>4, <1>5, <1>6, <1>7, <1>8, <1>9, <1>10, <1>11, <1>12, <1>13, <1>14 DEF Doctor
  <1> QED
    BY <1>1, <1>2, <1>14 DEF Next, vars, doctorVars

\* The report is made of the loader's findings and then of the rules' (diagnostic-engine.ts).
THEOREM ReportHolds == Spec => [](MachineInv /\ EvidenceInv /\ ReportInv)
  <1>1. Init => MachineInv /\ EvidenceInv /\ ReportInv
    BY MachineBegins, EvidenceBegins, ReportBegins
  <1>2. MachineInv /\ EvidenceInv /\ ReportInv /\ [Next]_vars => MachineInv' /\ EvidenceInv' /\ ReportInv'
    BY MachineStep, EvidenceStep, ReportStep
  <1> QED
    BY <1>1, <1>2, PTL DEF Spec

\* A finding of the report is the loader's or that of a rule which was run.
LEMMA ReportedIs ==
    ASSUME EvidenceInv, ReportInv, NEW f \in report,
           f.rule \notin {"contract.missing", "contract.invalid", "contract.read_error"}
    PROVE  /\ f.rule \in Rules /\ Category(f.rule) \in request.categories /\ Runnable(f.rule, ctx)
           /\ f \in RunRule(f.rule, ctx)
           /\ pc = "done" /\ ~request.dry
  <1>1. pc = "done" /\ ~request.dry /\ f \in RuleFindings(request.categories, ctx)
    BY DEF ReportInv
  <1>2. PICK rule \in Rules : /\ Category(rule) \in request.categories /\ Runnable(rule, ctx)
                              /\ f \in RunRule(rule, ctx)
    BY <1>1 DEF RuleFindings, Chosen
  <1>3. rule # "contract.loader-findings"
    BY <1>2 DEF RunRule, ReportInv
  <1> QED
    BY <1>1, <1>2, <1>3, RuleIs

\* And what a rule finds is in the report.
LEMMA IsReported ==
    ASSUME ReportInv, pc = "done", ~request.dry,
           NEW rule \in Rules, Category(rule) \in request.categories, Runnable(rule, ctx),
           NEW f \in RunRule(rule, ctx)
    PROVE  f \in report
  BY DEF ReportInv, RuleFindings, Chosen

\* The order of the inspectors.
Later(inspector) ==
    {"rules", "done", "failed"} \cup
    CASE inspector = "inventory" -> {"localEnvironment", "runtime", "docker", "ports", "verification"}
      [] inspector = "localEnvironment" -> {"runtime", "docker", "ports", "verification"}
      [] inspector = "runtime" -> {"docker", "ports", "verification"}
      [] inspector = "docker" -> {"ports", "verification"}
      [] inspector = "ports" -> {"verification"}
      [] OTHER -> {}

\* The inspectors that are done, and that the ports are those of the contract and of the sessions
\* read before them.
InspectedInv ==
    /\ \A i \in Range(Inspectors) :
         pc \in Later(i) /\ ~request.dry /\ i \notin request.disabled => Has(i)
    /\ \A i \in Range(Inspectors) : Has(i) => pc \in Later(i)
    /\ Has("ports") =>
         LET expected == IF Has("contract") THEN ExpectedPorts(ctx.contract) ELSE {} IN
         /\ ctx.ports.expected = expected
         /\ ctx.ports.checks = PortChecks(expected, IF Has("runtime") THEN ctx.runtime ELSE <<>>)

LEMMA LaterIs ==
    /\ \A i \in Range(Inspectors) : After(i) \in Later(i) /\ i \notin Later(i)
    /\ \A i, j \in Range(Inspectors) : After(i) \in Later(j) => j = i \/ i \in Later(j)
    /\ \A i, j \in Range(Inspectors) : i \in Later(j) => After(i) \in Later(j)
    /\ \A i \in Range(Inspectors) : {"rules", "done", "failed"} \subseteq Later(i)
    /\ \A i \in Range(Inspectors) :
         "access" \notin Later(i) /\ "parse" \notin Later(i) /\ "scan" \notin Later(i)
         /\ "inventory" \notin Later(i)
  <1>1. Range(Inspectors) = {"inventory", "localEnvironment", "runtime", "docker", "ports", "verification"}
    BY InspectorsAre DEF Labels
  <1> QED
    BY <1>1, AfterIs DEF Later

LEMMA ExtendIs ==
    ASSUME NEW inspector \in Range(Inspectors), NEW read, Extend(inspector, read)
    PROVE  /\ DOMAIN ctx' = DOMAIN ctx \cup {inspector} /\ ctx'[inspector] = read
           /\ \A part \in DOMAIN ctx : part # inspector => ctx'[part] = ctx[part]
           /\ \A part : Has(part)' <=> Has(part) \/ part = inspector
           /\ UNCHANGED <<machineVars, request, present, report>>
           /\ pending' = Nothing /\ pc' = After(inspector)
           /\ inspector \notin {"loaderFindings", "contract"}
  <1>1. inspector \notin {"loaderFindings", "contract"}
    BY InspectorsAre DEF Labels
  <1>2. DOMAIN ctx' = DOMAIN ctx \cup {inspector}
    BY DEF Extend
  <1>3. \A part : Has(part)' <=> Has(part) \/ part = inspector
    BY <1>2 DEF Has
  <1> QED
    BY <1>1, <1>2, <1>3 DEF Extend, Goto

\* The kinds of the doctor's steps.
LEMMA DoctorDoes ==
    ASSUME EvidenceInv, Doctor
    PROVE  \/ /\ ContractMissing \/ ParseContract
              /\ pc \in {"access", "parse"} /\ pc' = "scan" /\ UNCHANGED <<request, pending, report>>
           \/ /\ ContractThere
              /\ pc = "access" /\ pc' = "parse" /\ UNCHANGED <<request, ctx, pending, report>>
           \/ /\ Scan
              /\ pc = "scan" /\ pc' = (IF request.dry THEN "rules" ELSE "inventory")
              /\ UNCHANGED <<request, ctx, report>>
           \/ \E i \in Range(Inspectors) :
                /\ pc = i /\ i \in request.disabled /\ pc' = After(i) /\ pending' = Nothing
                /\ UNCHANGED <<request, ctx, report>>
           \/ \E i \in Range(Inspectors) : \E read :
                pc = i /\ i \notin request.disabled /\ Extend(i, read)
           \/ /\ pc \in {"localEnvironment", "docker", "verification"}
              /\ UNCHANGED <<pc, request, ctx, report>>
           \/ RunRules /\ pc = "rules" /\ pc' = "done" /\ UNCHANGED <<request, ctx>>
           \/ FailRules /\ pc = "rules" /\ pc' = "failed" /\ UNCHANGED <<request, ctx>>
  <1>1. CASE ContractMissing \/ ParseContract
    BY <1>1 DEF ContractMissing, ParseContract, Goto
  <1>2. CASE ContractThere
    BY <1>2 DEF ContractThere, Goto
  <1>3. CASE Scan
    BY <1>3 DEF Scan, Goto, Inspectors
  <1>4. CASE \E i \in DOMAIN Inspectors : SkipInspector(Inspectors[i])
    <2>1. PICK i \in Range(Inspectors) : SkipInspector(i)
      BY <1>4 DEF Range
    <2> QED
      BY <2>1 DEF SkipInspector, Goto
  <1>5. ASSUME NEW i \in {"inventory", "localEnvironment", "runtime", "docker", "ports", "verification"},
               NEW read, Enabled(i), Extend(i, read)
        PROVE  \E j \in Range(Inspectors) : \E x : pc = j /\ j \notin request.disabled /\ Extend(j, x)
    <2>1. i \in Range(Inspectors)
      BY InspectorsAre DEF Labels
    <2>2. pc = i /\ i \notin request.disabled /\ Extend(i, read)
      BY <1>5 DEF Enabled
    <2> QED
      BY <2>1, <2>2
  <1>6. CASE InspectInventory
    BY <1>5, <1>6 DEF InspectInventory
  <1>7. CASE \E t \in DOMAIN tools : ProbeTool(t)
    BY <1>7 DEF ProbeTool, Enabled
  <1>8. CASE InspectEnvironment
    <2>1. \E read : Enabled("localEnvironment") /\ Extend("localEnvironment", read)
      BY <1>8 DEF InspectEnvironment
    <2> QED
      BY <1>5, <2>1
  <1>9. CASE InspectRuntime
    BY <1>5, <1>9 DEF InspectRuntime
  <1>10. CASE AskVersion \/ AskInfo \/ AskCompose \/ AskContainers
    <2>1. Enabled("docker") /\ ((\E read : Extend("docker", read)) \/ \E answers : Answered(answers))
      BY <1>10 DEF AskVersion, AskInfo, AskCompose, AskContainers
    <2>2. CASE \E read : Extend("docker", read)
      BY <1>5, <2>1, <2>2
    <2>3. CASE \E answers : Answered(answers)
      BY <2>1, <2>3 DEF Answered, Enabled
    <2> QED
      BY <2>1, <2>2, <2>3
  <1>11. CASE InspectPorts
    <2>1. \E read : Enabled("ports") /\ Extend("ports", read)
      BY <1>11 DEF InspectPorts
    <2> QED
      BY <1>5, <2>1
  <1>12. CASE ReadHistory \/ ReadRuns
    <2>1. Enabled("verification")
          /\ ((\E read : Extend("verification", read)) \/ \E answers : Answered(answers))
      BY <1>12 DEF ReadHistory, ReadRuns
    <2>2. CASE \E read : Extend("verification", read)
      BY <1>5, <2>1, <2>2
    <2>3. CASE \E answers : Answered(answers)
      BY <2>1, <2>3 DEF Answered, Enabled
    <2> QED
      BY <2>1, <2>2, <2>3
  <1>13. CASE RunRules
    BY <1>13 DEF RunRules, Goto
  <1>14. CASE FailRules
    BY <1>14 DEF FailRules, Goto
  <1> QED
    BY <1>1, <1>2, <1>3, <1>4, <1>6, <1>7, <1>8, <1>9, <1>10, <1>11, <1>12, <1>13, <1>14 DEF Doctor

LEMMA InspectedBegins == Init => InspectedInv
  <1> SUFFICES ASSUME Init PROVE InspectedInv
    OBVIOUS
  <1>1. ctx = [loaderFindings |-> {}] /\ pc = "access"
    BY DEF Init
  <1>2. \A part : Has(part) => part = "loaderFindings"
    BY <1>1 DEF Has
  <1>3. "loaderFindings" \notin Range(Inspectors)
    BY InspectorsAre DEF Labels
  <1> QED
    BY <1>1, <1>2, <1>3, LaterIs DEF InspectedInv

\* An inspector reads once, when its turn has come.
LEMMA InspectsOnce ==
    ASSUME InspectedInv, NEW i \in Range(Inspectors), pc = i
    PROVE  ~Has(i) /\ \A j \in Range(Inspectors) : Has(j) => i \in Later(j)
  BY LaterIs DEF InspectedInv

LEMMA InspectedStep == EvidenceInv /\ InspectedInv /\ [Next]_vars => InspectedInv'
  <1> SUFFICES ASSUME EvidenceInv, InspectedInv, [Next]_vars PROVE InspectedInv'
    OBVIOUS
  <1>1. CASE UNCHANGED <<pc, request, ctx>>
    BY <1>1 DEF InspectedInv, Has
  <1>2. CASE Machine
    BY <1>1, <1>2 DEF Machine, Changing, doctorVars
  <1>3. CASE Doctor
    <2>1. CASE /\ ContractMissing \/ ParseContract
               /\ pc \in {"access", "parse"} /\ pc' = "scan"
      <3>1. DOMAIN ctx' \subseteq {"loaderFindings", "contract"}
        BY <2>1 DEF ContractMissing, ParseContract, Loaded, Unusable
      <3>2. \A i \in Range(Inspectors) \cup {"ports"} : ~Has(i)'
        BY <3>1, InspectorsAre DEF Has, Labels
      <3> QED
        BY <2>1, <3>2, LaterIs DEF InspectedInv
    <2>2. CASE /\ UNCHANGED <<request, ctx>>
               /\ \/ pc = "access" /\ pc' = "parse"
                  \/ pc = "scan" /\ pc' = (IF request.dry THEN "rules" ELSE "inventory")
                  \/ pc = "rules" /\ pc' \in {"done", "failed"}
      <3>1. \A part : Has(part)' <=> Has(part)
        BY <2>2 DEF Has
      <3>2. \A i \in Range(Inspectors) : Has(i)' => pc' \in Later(i)'
        BY <2>2, <3>1, LaterIs DEF InspectedInv, Later
      <3>3. \A i \in Range(Inspectors) : 
              pc' \in Later(i) /\ ~request.dry /\ i \notin request.disabled => Has(i)
        BY <2>2, LaterIs DEF InspectedInv
      <3> QED
        BY <2>2, <3>1, <3>2, <3>3 DEF InspectedInv, Later
    <2>3. CASE \E i \in Range(Inspectors) :
                 pc = i /\ i \in request.disabled /\ pc' = After(i) /\ UNCHANGED <<request, ctx>>
      <3>1. \A part : Has(part)' <=> Has(part)
        BY <2>3 DEF Has
      <3>2. \A i \in Range(Inspectors) : Has(i) => pc' \in Later(i)
        BY <2>3, LaterIs DEF InspectedInv
      <3>3. \A i \in Range(Inspectors) : 
              pc' \in Later(i) /\ ~request.dry /\ i \notin request.disabled => Has(i)
        BY <2>3, LaterIs DEF InspectedInv
      <3> QED
        BY <2>3, <3>1, <3>2, <3>3 DEF InspectedInv, Later
    <2>4. CASE \E i \in Range(Inspectors) : \E read : pc = i /\ i \notin request.disabled /\ Extend(i, read)
      <3>0. PICK i \in Range(Inspectors) :
              \E read : pc = i /\ i \notin request.disabled /\ Extend(i, read)
        BY <2>4
      <3>1. PICK read : pc = i /\ i \notin request.disabled /\ Extend(i, read)
        BY <3>0
      <3>2. /\ DOMAIN ctx' = DOMAIN ctx \cup {i} /\ ctx'[i] = read
            /\ \A part \in DOMAIN ctx : part # i => ctx'[part] = ctx[part]
            /\ \A part : Has(part)' <=> Has(part) \/ part = i
            /\ request' = request /\ pc' = After(i)
            /\ i \notin {"loaderFindings", "contract"}
        BY <3>1, ExtendIs
      <3>3. \A j \in Range(Inspectors) :
              pc' \in Later(j) /\ ~request.dry /\ j \notin request.disabled => Has(j)'
        BY <3>1, <3>2, LaterIs DEF InspectedInv
      <3>4. \A j \in Range(Inspectors) : Has(j)' => pc' \in Later(j)
        BY <3>1, <3>2, LaterIs DEF InspectedInv
      <3>5. ASSUME Has("ports")'
            PROVE  LET expected == IF Has("contract") THEN ExpectedPorts(ctx.contract) ELSE {} IN
                   /\ ctx'.ports.expected = expected
                   /\ ctx'.ports.checks
                        = PortChecks(expected, IF Has("runtime")' THEN ctx'.runtime ELSE <<>>)
        <4>1. CASE i = "ports"
          <5>1. InspectPorts
            <6>1. pc = "ports"
              BY <3>1, <4>1
            <6> QED
              BY <1>3, <3>1, <3>2, <6>1, AfterIs, InspectorsAre
                 DEF Doctor, ContractMissing, ContractThere, ParseContract, Scan, SkipInspector,
                     InspectInventory, ProbeTool, InspectEnvironment, InspectRuntime, AskVersion,
                     AskInfo, AskCompose, AskContainers, ReadHistory, ReadRuns, RunRules, FailRules, Enabled,
                     Labels, Range
          <5>2. ctx'.ports.expected = IF Has("contract") THEN ExpectedPorts(ctx.contract) ELSE {}
            BY <5>1 DEF InspectPorts, Extend
          <5>3. ctx'.ports.checks = PortChecks(IF Has("contract") THEN ExpectedPorts(ctx.contract) ELSE {},
                                               IF Has("runtime") THEN ctx.runtime ELSE <<>>)
            BY <5>1 DEF InspectPorts, Extend
          <5>4. /\ Has("runtime")' <=> Has("runtime")
                /\ Has("runtime") => ctx'.runtime = ctx.runtime
            BY <3>2, <4>1 DEF Has
          <5> QED
            BY <5>2, <5>3, <5>4
        <4>2. CASE i # "ports"
          <5>1. Has("ports")
            BY <3>2, <3>5, <4>2
          <5>2. i \in Later("ports") /\ "ports" \in Range(Inspectors)
            BY <3>1, <5>1, InspectsOnce, InspectorsAre DEF Labels
          <5>3. i # "runtime"
            BY <5>2 DEF Later
          <5> QED
            BY <3>2, <5>1, <5>3, <4>2 DEF InspectedInv, Has
        <4> QED
          BY <4>1, <4>2
      <3>6. /\ Has("contract")' <=> Has("contract")
            /\ Has("contract") => ctx'.contract = ctx.contract
        BY <3>2 DEF Has
      <3>7. Has("ports")' =>
              LET expected == IF Has("contract")' THEN ExpectedPorts(ctx'.contract) ELSE {} IN
              /\ ctx'.ports.expected = expected
              /\ ctx'.ports.checks = PortChecks(expected, IF Has("runtime")' THEN ctx'.runtime ELSE <<>>)
        BY <3>5, <3>6
      <3> QED
        BY <3>2, <3>3, <3>4, <3>7 DEF InspectedInv, Later
    <2> QED
      BY <1>1, <1>3, <2>1, <2>2, <2>3, <2>4, DoctorDoes
  <1> QED
    BY <1>1, <1>2, <1>3 DEF Next, vars, doctorVars

\* Every variable keeps its type.
LEMMA TypesHold == MachineInv /\ EvidenceInv => TypeOK
  <1> SUFFICES ASSUME MachineInv, EvidenceInv PROVE TypeOK
    OBVIOUS
  <1>1. file.state \in {"missing", "unreadable", "invalid", "valid"}
    BY FilesAssumption DEF MachineInv
  <1>2. pc \in {"access", "parse", "scan", "rules", "done", "failed"} \cup Range(Inspectors)
    BY InspectorsAre DEF EvidenceInv, Labels
  <1>3. lasting \subseteq seen
    BY DEF EvidenceInv
  <1> QED
    BY <1>1, <1>2, <1>3 DEF TypeOK, MachineInv, Answers, EvidenceInv, Sound

\* Who is said to be stale is.
LEMMA StaleIsFound ==
    ASSUME EvidenceInv, ReportInv, NEW f \in report, f.id[1] = "stale_session"
    PROVE  \E s \in StaleSessions(ctx.runtime) : f.id[2] = s
  <1>1. f.rule = "runtime.failures"
    BY DEF EvidenceInv, Sound, Tagged
  <1>2. f \in SessionFindings(ctx.runtime)
    BY <1>1, ReportedIs DEF RunRule
  <1>3. CASE \E o \in FailureObservations(ctx.runtime) :
               f = Finding("runtime.failures", Subject(o), "error", {FailureEvidence(o)})
    <2>1. PICK o \in FailureObservations(ctx.runtime) :
               f = Finding("runtime.failures", Subject(o), "error", {FailureEvidence(o)})
      BY <1>3
    <2>2. f.id = Subject(o)
      BY <2>1, FindingIs
    <2>3. Subject(o)[1] # "stale_session"
      BY DEF Subject, FailureKind
    <2> QED
      BY <2>2, <2>3
  <1>4. CASE \E s \in StaleSessions(ctx.runtime) :
               f = Finding("runtime.failures", <<"stale_session", s>>, "warning", {<<"stale", s>>})
    <2>1. PICK s \in StaleSessions(ctx.runtime) :
               f = Finding("runtime.failures", <<"stale_session", s>>, "warning", {<<"stale", s>>})
      BY <1>4
    <2>2. f.id = <<"stale_session", s>>
      BY <2>1, FindingIs
    <2> QED
      BY <2>2
  <1> QED
    BY <1>2, <1>3, <1>4 DEF SessionFindings

LEMMA StalePortsDoAgree == EvidenceInv /\ ReportInv /\ InspectedInv => StalePortsAgree
  <1> DEFINE expected == IF Has("contract") THEN ExpectedPorts(ctx.contract) ELSE {}
             stale == {f \in report : f.id[1] = "stale_session"}
  <1> SUFFICES ASSUME EvidenceInv, ReportInv, InspectedInv,
                      pc = "done", Looked("ports", "ports"), Looked("runtime", "runtime")
               PROVE  {f.id[2] : f \in {f \in report : f.rule = "ports.stale-board-state"}}
                        = {e.port : e \in expected}
                          \cap UNION {ctx.runtime[f.id[2]].ports : f \in stale}
    BY DEF StalePortsAgree
  <1>1. Has("ports") /\ Has("runtime")
    BY LaterIs, InspectorsAre DEF InspectedInv, Looked, Labels
  <1>2. ctx.ports.checks = PortChecks(expected, ctx.runtime)
    BY <1>1 DEF InspectedInv
  <1>0. \A rule, id, severity, evidence : /\ Finding(rule, id, severity, evidence).rule = rule
                                          /\ Finding(rule, id, severity, evidence).id = id
    BY DEF Finding
  <1> DEFINE claimed == UNION {ctx.runtime[s].ports : s \in StaleSessions(ctx.runtime)}
  <1>3. \A p : (\E k \in ctx.ports.checks : k.ours /\ k.port \in claimed /\ p = k.port)
               <=> p \in {e.port : e \in expected} \cap claimed
    <2>1. claimed \subseteq BoardPorts(ctx.runtime)
      BY DEF BoardPorts, StaleSessions
    <2> HIDE DEF expected, claimed
    <2>2. \A k \in ctx.ports.checks : \E e \in expected : k.port = e.port
      BY <1>2 DEF PortChecks
    <2>3. ASSUME NEW e \in expected, e.port \in BoardPorts(ctx.runtime)
          PROVE  \E k \in ctx.ports.checks : k.port = e.port /\ k.ours
      <3> DEFINE ours == e.port \in BoardPorts(ctx.runtime)
                 k == [owner |-> e.owner, port |-> e.port, status |-> PortStatus(e.port), ours |-> ours]
      <3>1. k \in ctx.ports.checks
        BY <1>2, Zenon DEF PortChecks
      <3>2. ours = TRUE
        BY <2>3
      <3> HIDE DEF ours
      <3>3. k.port = e.port /\ k.ours = TRUE
        BY <3>2
      <3> HIDE DEF k
      <3> QED
        BY <3>1, <3>3
    <2>4. ASSUME NEW k \in ctx.ports.checks, k.port \in claimed
          PROVE  k.port \in {e.port : e \in expected} \cap claimed
      BY <2>2, <2>4
    <2>5. ASSUME NEW e \in expected, e.port \in claimed
          PROVE  \E k \in ctx.ports.checks : k.ours /\ k.port \in claimed /\ e.port = k.port
      BY <2>1, <2>3, <2>5
    <2> QED
      BY <2>4, <2>5
  <1>4. UNION {ctx.runtime[f.id[2]].ports : f \in stale} = claimed
    <2>1. \A f \in stale : \E s \in StaleSessions(ctx.runtime) : f.id[2] = s
      BY StaleIsFound
    <2>2. ASSUME NEW s \in StaleSessions(ctx.runtime)
          PROVE  \E f \in stale : f.id[2] = s
      <3> DEFINE f == Finding("runtime.failures", <<"stale_session", s>>, "warning", {<<"stale", s>>})
      <3>1. f \in RunRule("runtime.failures", ctx)
        BY DEF RunRule, SessionFindings
      <3>2. "runtime.failures" \in Rules /\ Category("runtime.failures") = "runtime"
            /\ Prerequisites("runtime.failures") = {"runtime"}
        BY DEF Rules, Category, Prerequisites
      <3>3. Runnable("runtime.failures", ctx)
        BY <1>1, <3>2 DEF Runnable, Has
      <3>4. f.id = <<"stale_session", s>>
        BY FindingIs
      <3> HIDE DEF f
      <3>5. f \in report
        BY <3>1, <3>2, <3>3, IsReported DEF Looked
      <3> QED
        BY <3>4, <3>5
    <2> HIDE DEF stale
    <2> QED
      BY <2>1, <2>2
  <1>5. ASSUME NEW f \in report, f.rule = "ports.stale-board-state"
        PROVE  \E k \in ctx.ports.checks : k.ours /\ k.port \in claimed /\ f.id[2] = k.port
    <2>1. f \in StalePortFindings(ctx.ports, ctx.runtime)
      BY <1>5, ReportedIs DEF RunRule
    <2>2. PICK k \in ctx.ports.checks :
            /\ k.ours /\ k.port \in claimed
            /\ f = Finding("ports.stale-board-state", <<"stale port", k.port>>, "warning",
                           {<<"claimed", k.port>>})
      BY <2>1 DEF StalePortFindings
    <2> DEFINE id == <<"stale port", k.port>>
               evidence == {<<"claimed", k.port>>}
    <2>3. id[2] = k.port
      OBVIOUS
    <2>4. f = Finding("ports.stale-board-state", id, "warning", evidence)
      BY <2>2
    <2> HIDE DEF id, evidence
    <2>5. f.id = id
      BY <1>0, <2>4
    <2> QED
      BY <2>2, <2>3, <2>5
  <1>6. ASSUME NEW k \in ctx.ports.checks, k.ours, k.port \in claimed
        PROVE  \E f \in report : f.rule = "ports.stale-board-state" /\ f.id[2] = k.port
    <2> DEFINE id == <<"stale port", k.port>>
               evidence == {<<"claimed", k.port>>}
               f == Finding("ports.stale-board-state", id, "warning", evidence)
    <2>1. f \in StalePortFindings(ctx.ports, ctx.runtime) /\ id[2] = k.port
      BY <1>6 DEF StalePortFindings
    <2> HIDE DEF id, evidence
    <2>2. f.rule = "ports.stale-board-state" /\ f.id = id
      BY <1>0
    <2> HIDE DEF f
    <2>3. f \in RunRule("ports.stale-board-state", ctx)
      BY <2>1 DEF RunRule
    <2>4. /\ "ports.stale-board-state" \in Rules /\ Category("ports.stale-board-state") = "ports"
          /\ Prerequisites("ports.stale-board-state") = {"ports", "runtime"}
      BY DEF Rules, Category, Prerequisites
    <2>5. Runnable("ports.stale-board-state", ctx)
      BY <1>1, <2>4 DEF Runnable, Has
    <2>6. f \in report
      BY <2>3, <2>4, <2>5, IsReported DEF Looked
    <2> QED
      BY <2>1, <2>2, <2>6
  <1> HIDE DEF claimed, stale, expected
  <1>7. \A p : (\E f \in report : f.rule = "ports.stale-board-state" /\ p = f.id[2])
               <=> \E k \in ctx.ports.checks : k.ours /\ k.port \in claimed /\ p = k.port
    BY <1>5, <1>6
  <1>8. {f.id[2] : f \in {f \in report : f.rule = "ports.stale-board-state"}}
          = {e.port : e \in expected} \cap claimed
    <2>1. \A p : p \in {f.id[2] : f \in {f \in report : f.rule = "ports.stale-board-state"}}
                 <=> \E f \in report : f.rule = "ports.stale-board-state" /\ p = f.id[2]
      OBVIOUS
    <2> QED
      BY <1>3, <1>7, <2>1
  <1> QED
    BY <1>4, <1>8

-----------------------------------------------------------------------------
(* Whatever recurs. *)

LEMMA TwoOf ==
    ASSUME NEW S, IsFiniteSet(S), Cardinality(S) > 1
    PROVE  \E a, b \in S : a # b
  <1>1. S # {}
    BY FS_EmptySet
  <1>2. PICK a \in S : TRUE
    BY <1>1
  <1>3. S # {a}
    BY FS_Singleton
  <1> QED
    BY <1>2, <1>3

LEMMA OfTwo ==
    ASSUME NEW S, IsFiniteSet(S), NEW a \in S, NEW b \in S, a # b
    PROVE  Cardinality(S) >= 2
  <1>1. IsFiniteSet({a}) /\ Cardinality({a}) = 1
    BY FS_Singleton
  <1>2. Cardinality({a} \cup {b}) = 2
    BY <1>1, FS_AddElement
  <1>3. Cardinality({a} \cup {b}) <= Cardinality(S)
    BY FS_Subset
  <1>4. Cardinality(S) \in Nat
    BY FS_CardinalityType
  <1> QED
    BY <1>2, <1>3, <1>4

Backs(backing, f) ==
    /\ UNION {g.evidence : g \in backing} = f.evidence
    /\ Cardinality(backing) >= 2
    /\ \A g, h \in backing : g.id = h.id

\* What is said of each observation, and the finding made of it.
Gathers(of, say, make, id, f) ==
    /\ IsFiniteSet(of) /\ Cardinality(of) > 1
    /\ say \in [of -> Range(say)] /\ make \in [of -> Range(make)]
    /\ \A p, q \in of : say[p] = say[q] => p = q
    /\ f.evidence = Range(say)
    /\ \A p \in of : make[p].evidence = {say[p]} /\ make[p].id = id

\* A candidate is backed by the findings made of its observations.
LEMMA Backing ==
    ASSUME NEW of, NEW say, NEW make, NEW id, NEW f, Gathers(of, say, make, id, f)
    PROVE  Backs(Range(make), f)
  <1> DEFINE backing == Range(make)
  <1> USE DEF Gathers
  <1>1. \A g \in backing : \E p \in of : g = make[p]
    BY DEF Range
  <1>2. \A p \in of : make[p] \in backing
    BY DEF Range
  <1>3. UNION {g.evidence : g \in backing} = f.evidence
    <2>1. \A g \in backing : g.evidence \subseteq f.evidence
      BY <1>1 DEF Range
    <2>2. \A p \in of : say[p] \in make[p].evidence
      OBVIOUS
    <2>3. \A e \in f.evidence : \E p \in of : e = say[p]
      BY DEF Range
    <2> QED
      BY <1>2, <2>1, <2>2, <2>3
  <1>4. Cardinality(backing) >= 2
    <2>1. make \in Surjection(of, backing)
      BY <1>1, <1>2 DEF Surjection
    <2>2. IsFiniteSet(backing)
      BY <2>1, FS_Surjection
    <2>3. PICK p, q \in of : p # q
      BY TwoOf
    <2>4. make[p] # make[q]
      <3>1. {say[p]} # {say[q]}
        BY <2>3
      <3> QED
        BY <3>1
    <2> QED
      BY <1>2, <2>2, <2>4, OfTwo
  <1>5. \A g, h \in backing : g.id = h.id
    BY <1>1
  <1> QED
    BY <1>3, <1>4, <1>5 DEF Backs

LEMMA ObservationsAreFinite ==
    ASSUME NEW list, IsFiniteSet(DOMAIN list), \A s \in DOMAIN list : IsFiniteSet(list[s].failures)
    PROVE  IsFiniteSet(FailureObservations(list))
  <1> DEFINE O(s) == {[session |-> s, failure |-> f] : f \in list[s].failures}
             all == {O(s) : s \in DOMAIN list}
  <1>1. \A s \in DOMAIN list : IsFiniteSet(O(s))
    <2> TAKE s \in DOMAIN list
    <2>1. [f \in list[s].failures |-> [session |-> s, failure |-> f]] \in Surjection(list[s].failures, O(s))
      BY DEF Surjection
    <2> QED
      BY <2>1, FS_Surjection
  <1>2. IsFiniteSet(all)
    <2>1. [s \in DOMAIN list |-> O(s)] \in Surjection(DOMAIN list, all)
      <3> HIDE DEF O
      <3> QED
        BY DEF Surjection
    <2> QED
      BY <2>1, FS_Surjection
  <1>3. FailureObservations(list) = UNION all
    BY DEF FailureObservations
  <1>4. \A T \in all : IsFiniteSet(T)
    BY <1>1
  <1> HIDE DEF all
  <1> QED
    BY <1>2, <1>3, <1>4, FS_UNION

LEMMA OutcomesAreFinite ==
    ASSUME NEW list, IsFiniteSet(DOMAIN list), \A r \in DOMAIN list : IsFiniteSet(DOMAIN list[r])
    PROVE  IsFiniteSet(Outcomes(list))
  <1> DEFINE K(r) == {k \in DOMAIN list[r] : list[r][k] # "passed"}
             O(r) == {[run |-> r, check |-> k, status |-> list[r][k]] : k \in K(r)}
             all == {O(r) : r \in DOMAIN list}
  <1>1. \A r \in DOMAIN list : IsFiniteSet(O(r))
    <2> TAKE r \in DOMAIN list
    <2>1. IsFiniteSet(K(r))
      BY FS_Subset
    <2> HIDE DEF K
    <2>2. [k \in K(r) |-> [run |-> r, check |-> k, status |-> list[r][k]]] \in Surjection(K(r), O(r))
      BY DEF Surjection
    <2> QED
      BY <2>1, <2>2, FS_Surjection
  <1>2. IsFiniteSet(all)
    <2>1. [r \in DOMAIN list |-> O(r)] \in Surjection(DOMAIN list, all)
      <3> HIDE DEF O
      <3> QED
        BY DEF Surjection
    <2> QED
      BY <2>1, FS_Surjection
  <1>3. Outcomes(list) = UNION all
    BY DEF Outcomes
  <1>4. \A T \in all : IsFiniteSet(T)
    BY <1>1
  <1> HIDE DEF all
  <1> QED
    BY <1>2, <1>3, <1>4, FS_UNION

\* The elements of both sets say what they are made of.
LEMMA ObservationIs ==
    ASSUME NEW list, NEW o \in FailureObservations(list), NEW p \in FailureObservations(list),
           FailureEvidence(o) = FailureEvidence(p)
    PROVE  o = p
  <1>1. PICK s, f : o = [session |-> s, failure |-> f]
    BY DEF FailureObservations
  <1>2. PICK t, g : p = [session |-> t, failure |-> g]
    BY DEF FailureObservations
  <1> QED
    BY <1>1, <1>2 DEF FailureEvidence

LEMMA OutcomeIs ==
    ASSUME NEW list, NEW o \in Outcomes(list), NEW p \in Outcomes(list),
           OutcomeEvidence(o) = OutcomeEvidence(p)
    PROVE  o = p
  <1>1. PICK r, k :
          o = [run |-> r, check |-> k, status |-> list[r][k]]
    BY DEF Outcomes
  <1>2. PICK t, j :
          p = [run |-> t, check |-> j, status |-> list[t][j]]
    BY DEF Outcomes
  <1> QED
    BY <1>1, <1>2 DEF OutcomeEvidence

LEMMA RepeatedAreBacked ==
    ASSUME MachineInv, EvidenceInv, ReportInv, NEW f \in report, f.rule = "runtime.repeated-failures",
           NEW backing, backing = {g \in report : g.kind = "fact" /\ g.evidence \subseteq f.evidence}
    PROVE  Backs(backing, f)
  <1> DEFINE all == FailureObservations(ctx.runtime)
             same(subject) == {o \in all : Subject(o) = subject}
             evidence(subject) == {FailureEvidence(o) : o \in same(subject)}
  <1>1. /\ f \in RepeatedFindings(ctx.runtime) /\ Runnable("runtime.repeated-failures", ctx)
        /\ Category("runtime.repeated-failures") \in request.categories /\ pc = "done" /\ ~request.dry
    BY ReportedIs DEF RunRule
  <1>2. Has("runtime") /\ "runtime" \in request.categories
    BY <1>1 DEF Runnable, Prerequisites, Category, Has
  <1>3. /\ "runtime.failures" \in Rules /\ Category("runtime.failures") \in request.categories
        /\ Runnable("runtime.failures", ctx)
    BY <1>2 DEF Rules, Category, Runnable, Prerequisites, Has
  <1>4. PICK o \in all : /\ Cardinality(same(Subject(o))) > 1
                         /\ f = Candidate("runtime.repeated-failures", Subject(o), "warning",
                                          evidence(Subject(o)))
    BY <1>1 DEF RepeatedFindings
  <1> DEFINE id == Subject(o)
             of == same(id)
             say == [p \in of |-> FailureEvidence(p)]
             make == [p \in of |-> Finding("runtime.failures", id, "error", {FailureEvidence(p)})]
  <1>5. f.evidence = {say[p] : p \in of}
    <2>1. f.evidence = evidence(Subject(o))
      BY <1>4, CandidateIs
    <2> QED
      BY <2>1
  <1>6. IsFiniteSet(of) /\ Cardinality(of) > 1
    <2>1. IsFiniteSet(all)
      BY <1>2, ObservationsAreFinite DEF ReportInv
    <2> QED
      BY <1>4, <2>1, FS_Subset
  <1>7. \A p, q \in of : say[p] = say[q] => p = q
    BY ObservationIs
  <1>8. \A p \in of : make[p].evidence = {say[p]} /\ make[p].id = id
    BY DEF Finding
  <1>9. \A p \in of : make[p] \in backing
    <2> TAKE p \in of
    <2>1. make[p] = Finding("runtime.failures", Subject(p), "error", {FailureEvidence(p)})
      OBVIOUS
    <2>2. make[p] \in SessionFindings(ctx.runtime)
      BY <2>1 DEF SessionFindings
    <2>3. make[p] \in report
      BY <1>1, <1>3, <2>2, IsReported DEF RunRule
    <2>4. make[p].kind = "fact"
      BY DEF Finding
    <2>5. make[p].evidence \subseteq f.evidence
      BY <1>5, <1>8
    <2> QED
      BY <2>3, <2>4, <2>5
  <1>10. \A g \in backing : \E p \in of : g = make[p]
    <2> TAKE g \in backing
    <2>1. g \in report /\ g.kind = "fact" /\ g.evidence \subseteq f.evidence
      OBVIOUS
    <2>2. Sound(seen, g)
      BY <2>1 DEF EvidenceInv
    <2>3. PICK e \in g.evidence : Tagged(g.rule, g.id, e)
      BY <2>2 DEF Sound
    <2>4. \A p \in of : say[p][1] = "failure"
      BY DEF FailureEvidence
    <2>5. \A x \in f.evidence : x[1] = "failure"
      BY <1>5, <2>4
    <2>6. g.rule \in {"runtime.failures", "runtime.repeated-failures"}
      BY <2>1, <2>3, <2>5 DEF Tagged
    <2>7. g \in RunRule(g.rule, ctx)
      BY <2>1, <2>6, ReportedIs
    <2>8. g \notin RepeatedFindings(ctx.runtime)
      <3>1. \A r, i, s, x : Candidate(r, i, s, x).kind = "candidate"
        BY DEF Candidate, Finding
      <3>2. g \in RepeatedFindings(ctx.runtime) => \E r, i, s, x : g = Candidate(r, i, s, x)
        BY Zenon DEF RepeatedFindings
      <3> QED
        BY <2>1, <3>1, <3>2
    <2>9. g \in SessionFindings(ctx.runtime)
      BY <2>6, <2>7, <2>8 DEF RunRule
    <2>10. CASE \E q \in all : g = Finding("runtime.failures", Subject(q), "error", {FailureEvidence(q)})
      <3>1. PICK q \in all : g = Finding("runtime.failures", Subject(q), "error", {FailureEvidence(q)})
        BY <2>10
      <3>2. FailureEvidence(q) \in f.evidence
        BY <2>1, <3>1, FindingIs
      <3>3. PICK p \in of : FailureEvidence(q) = FailureEvidence(p)
        BY <1>5, <3>2
      <3>4. q = p
        BY <3>3, ObservationIs
      <3> QED
        BY <3>1, <3>4
    <2>11. CASE \E s : g = Finding("runtime.failures", <<"stale_session", s>>, "warning", {<<"stale", s>>})
      <3>1. PICK s : g = Finding("runtime.failures", <<"stale_session", s>>, "warning", {<<"stale", s>>})
        BY <2>11
      <3>2. <<"stale", s>> \in f.evidence
        BY <2>1, <3>1, FindingIs
      <3> QED
        BY <2>5, <3>2
    <2> QED
      BY <2>9, <2>10, <2>11 DEF SessionFindings
  <1>11. /\ say \in [of -> Range(say)] /\ make \in [of -> Range(make)]
         /\ f.evidence = Range(say)
    <2> HIDE DEF of
    <2> QED
      BY <1>5 DEF Range
  <1>12. backing = Range(make)
    <2>1. DOMAIN make = of
      OBVIOUS
    <2> HIDE DEF make
    <2> QED
      BY <1>9, <1>10, <2>1 DEF Range
  <1> HIDE DEF of, say, make, id
  <1>13. Gathers(of, say, make, id, f)
    BY <1>6, <1>7, <1>8, <1>11 DEF Gathers
  <1> QED
    BY <1>12, <1>13, Backing

LEMMA RecurringAreBacked ==
    ASSUME MachineInv, EvidenceInv, ReportInv,
           NEW f \in report, f.rule = "verification.observations", f.kind = "candidate",
           NEW backing, backing = {g \in report : g.kind = "fact" /\ g.evidence \subseteq f.evidence}
    PROVE  Backs(backing, f)
  <1> DEFINE all == Outcomes(ctx.verification)
             same(o) == {p \in all : p.check = o.check /\ p.status = o.status}
             evidence(o) == {OutcomeEvidence(p) : p \in same(o)}
             severity(o) == IF o.status \in {"failed", "timed_out"} THEN "error" ELSE "warning"
             finding(o) == Finding("verification.observations", <<CheckKind(o.status), o.check>>,
                                   severity(o), {OutcomeEvidence(o)})
  <1>1. /\ f \in RunRule("verification.observations", ctx) /\ Runnable("verification.observations", ctx)
        /\ "verification.observations" \in Rules
        /\ Category("verification.observations") \in request.categories /\ pc = "done" /\ ~request.dry
    BY ReportedIs
  <1>2. Has("verification")
    BY <1>1 DEF Runnable, Prerequisites, Category, Has
  <1>3. RunRule("verification.observations", ctx)
          = OutcomeFindings(ctx.verification) \cup RecurringFindings(ctx.verification)
    BY DEF RunRule
  <1>4. \A g : g \in OutcomeFindings(ctx.verification) <=> \E o \in all : g = finding(o)
    BY DEF OutcomeFindings
  <1>5. \A o : /\ finding(o).kind = "fact" /\ finding(o).evidence = {OutcomeEvidence(o)}
               /\ finding(o).id = <<CheckKind(o.status), o.check>>
    BY DEF Finding
  <1> HIDE DEF finding
  <1>6. \A g \in RecurringFindings(ctx.verification) :
          \E o \in all : /\ Cardinality(same(o)) >= 2
                         /\ g = Candidate("verification.observations",
                                          <<"repeated_failure", o.check, o.status>>, "warning",
                                          evidence(o))
    BY DEF RecurringFindings
  <1>7. PICK o \in all : /\ Cardinality(same(o)) >= 2
                         /\ f = Candidate("verification.observations",
                                          <<"repeated_failure", o.check, o.status>>, "warning",
                                          evidence(o))
    BY <1>1, <1>3, <1>4, <1>5, <1>6
  <1> DEFINE id == <<CheckKind(o.status), o.check>>
             of == same(o)
             say == [p \in of |-> OutcomeEvidence(p)]
             make == [p \in of |-> finding(p)]
  <1>8. f.evidence = {say[p] : p \in of}
    <2>1. f.evidence = evidence(o)
      BY <1>7, CandidateIs
    <2> QED
      BY <2>1
  <1>9. IsFiniteSet(of) /\ Cardinality(of) > 1
    <2>1. IsFiniteSet(all)
      BY <1>2, OutcomesAreFinite DEF ReportInv
    <2>2. IsFiniteSet(of) /\ Cardinality(of) \in Nat
      BY <2>1, FS_Subset, FS_CardinalityType
    <2> QED
      BY <1>7, <2>2
  <1>10. \A p, q \in of : say[p] = say[q] => p = q
    BY OutcomeIs
  <1>11. \A p \in of : make[p].evidence = {say[p]} /\ make[p].id = id
    BY <1>5
  <1>12. \A p \in of : make[p] \in backing
    <2> TAKE p \in of
    <2>1. make[p] \in report
      BY <1>1, <1>3, <1>4, IsReported
    <2>2. make[p].evidence \subseteq f.evidence /\ make[p].kind = "fact"
      BY <1>5, <1>8, <1>11
    <2> QED
      BY <2>1, <2>2
  <1>13. \A g \in backing : \E p \in of : g = make[p]
    <2> TAKE g \in backing
    <2>1. g \in report /\ g.kind = "fact" /\ g.evidence \subseteq f.evidence
      OBVIOUS
    <2>2. Sound(seen, g)
      BY <2>1 DEF EvidenceInv
    <2>3. PICK e \in g.evidence : Tagged(g.rule, g.id, e)
      BY <2>2 DEF Sound
    <2>4. \A p \in of : say[p][1] = "outcome"
      BY DEF OutcomeEvidence
    <2>5. \A x \in f.evidence : x[1] = "outcome"
      BY <1>8, <2>4
    <2>6. g.rule = "verification.observations"
      BY <2>1, <2>3, <2>5 DEF Tagged
    <2>7. g \in RunRule("verification.observations", ctx)
      BY <2>1, <2>6, ReportedIs
    <2>8. g \notin RecurringFindings(ctx.verification)
      <3>1. \A r, i, s, x : Candidate(r, i, s, x).kind = "candidate"
        BY DEF Candidate, Finding
      <3>2. g \in RecurringFindings(ctx.verification) => \E r, i, s, x : g = Candidate(r, i, s, x)
        BY Zenon DEF RecurringFindings
      <3> QED
        BY <2>1, <3>1, <3>2
    <2>9. PICK q \in all : g = finding(q)
      BY <1>3, <1>4, <2>7, <2>8
    <2>10. OutcomeEvidence(q) \in f.evidence
      BY <1>5, <2>1, <2>9
    <2>11. PICK p \in of : OutcomeEvidence(q) = OutcomeEvidence(p)
      BY <1>8, <2>10
    <2>12. q = p
      BY <2>11, OutcomeIs
    <2> QED
      BY <2>9, <2>12
  <1>14. /\ say \in [of -> Range(say)] /\ make \in [of -> Range(make)]
         /\ f.evidence = Range(say)
    <2> HIDE DEF of
    <2> QED
      BY <1>8 DEF Range
  <1>15. backing = Range(make)
    <2>1. DOMAIN make = of
      OBVIOUS
    <2> HIDE DEF make
    <2> QED
      BY <1>12, <1>13, <2>1 DEF Range
  <1> HIDE DEF of, say, make, id
  <1>16. Gathers(of, say, make, id, f)
    BY <1>9, <1>10, <1>11, <1>14 DEF Gathers
  <1> QED
    BY <1>15, <1>16, Backing

\* The findings of one report agree with each other (port-rules.ts:44-102, runtime-rules.ts:21-42,
\* verification-inspector.ts:147-165).
THEOREM RulesAlwaysAgree == Spec => []RulesAgree
  <1>1. MachineInv /\ EvidenceInv /\ ReportInv => RepeatedIsBacked
    BY RepeatedAreBacked, RecurringAreBacked DEF RepeatedIsBacked, Backs
  <1>2. MachineInv /\ EvidenceInv /\ ReportInv /\ InspectedInv => RulesAgree
    BY <1>1, TypesHold, StalePortsDoAgree DEF RulesAgree
  <1> QED
    BY <1>2, ReportHolds, InspectedBegins, InspectedStep, PTL DEF Spec

-----------------------------------------------------------------------------
(* What lasts. *)

NewestOf(all, s) ==
    Cardinality({t \in DOMAIN all : all[t].started > all[s].started}) < MaxRecent

LoaderKeeps(L, findings) ==
    \A x : <<"contract", x>> \in L /\ x # "valid" => \E f \in findings : <<"contract", x>> \in f.evidence

InventoryKeeps(L, inventory) ==
    \A p : <<"uncovered", p>> \in L => Covers[p] \cap inventory.paths = {}

ToolsKeep(L, answers) ==
    \A t \in DOMAIN answers : <<"tool", t>> \in L => answers[t] = "missing"

EnvironmentKeeps(L, c, there, env) ==
    /\ ToolsKeep(L, env.tools) /\ DOMAIN env.tools = RequiredTools(c)
    /\ env.required = RequiredVariables(c) /\ env.present = there

SessionsKeep(S, L, all, list) ==
    <<"unreadable", "runtime">> \notin S =>
        \A s \in DOMAIN all : NewestOf(all, s) =>
            /\ \A f : <<"failure", s, f>> \in L => s \in DOMAIN list /\ f \in list[s].failures
            /\ <<"stale", s>> \in L => s \in StaleSessions(list)

ListKeeps(S, L, all, list) ==
    (\A p \in {"client", "daemon", "list"} : <<"without", p>> \notin S) =>
        /\ DOMAIN list \subseteq DOMAIN Includes
        /\ \A n \in DOMAIN all : \A state : <<"container", n, state>> \in L =>
             /\ n \in DOMAIN list /\ list[n].state = state
             /\ list[n].service = all[n].service
        /\ \A v : <<"no container", v>> \in L => \A n \in DOMAIN list : list[n].service # v

\* What each of the four answers says when nothing before it has failed.
DockerKeeps(S, L, all, answers) ==
    /\ <<"without", "client">> \in L => ~answers.client
    /\ <<"without", "client">> \notin S =>
         /\ answers.client
         /\ <<"without", "daemon">> \in L => ~answers.daemon
         /\ <<"without", "compose">> \in L => ~answers.compose
    /\ (\A p \in {"client", "daemon", "list"} : <<"without", p>> \notin S) => answers.daemon
    /\ ListKeeps(S, L, all, answers.containers)

\* The runs among the latest of all.
Recent(all) == {i \in DOMAIN all : i <= MaxRecent}

NamesKeep(S, L, all, names) ==
    <<"unreadable", "history">> \notin S =>
        \A i \in Recent(all) : \A k, status :
            <<"outcome", all[i].name, k, status>> \in L => all[i].name \in names

HistoryKeeps(S, L, all, outcomes) ==
    <<"unreadable", "history">> \notin S =>
        \A i \in Recent(all) : \A k, status :
            <<"outcome", all[i].name, k, status>> \in L =>
                /\ all[i].name \in DOMAIN outcomes /\ k \in DOMAIN outcomes[all[i].name]
                /\ outcomes[all[i].name][k] = status

\* The part of it that the inspector at work has not given yet.
PendingKeeps ==
    /\ pc = "inventory" => InventoryKeeps(lasting, pending)
    /\ pc = "localEnvironment" => ToolsKeep(lasting, pending)
    /\ pc = "docker" /\ pending # Nothing => <<"without", "client">> \notin lasting
    /\ pc = "docker" /\ HasAsked("info") =>
         /\ <<"without", "daemon">> \in lasting => ~pending.daemon
         /\ (\A p \in {"client", "daemon"} : <<"without", p>> \notin seen) => pending.daemon
    /\ pc = "docker" /\ HasAsked("compose") =>
         /\ <<"without", "daemon">> \notin lasting
         /\ <<"without", "compose">> \in lasting => ~pending.compose
    /\ pc = "verification" /\ pending # Nothing => NamesKeep(seen, lasting, runs, pending.names)

LastingInv ==
    /\ pc \notin {"access", "parse"} => LoaderKeeps(lasting, ctx.loaderFindings)
    /\ Has("inventory") => InventoryKeeps(lasting, ctx.inventory)
    /\ Has("localEnvironment") /\ Has("contract") =>
         EnvironmentKeeps(lasting, ctx.contract, present, ctx.localEnvironment)
    /\ Has("runtime") => SessionsKeep(seen, lasting, sessions, ctx.runtime)
    /\ Has("docker") => DockerKeeps(seen, lasting, containers, ctx.docker)
                        /\ ctx.docker.services = Services
    /\ Has("verification") => HistoryKeeps(seen, lasting, runs, ctx.verification)
    /\ PendingKeeps

\* With more seen, and less of it lasting, it still holds.
LEMMA KeepsLess ==
    ASSUME NEW S, NEW T, S \subseteq T, NEW L, NEW M, M \subseteq L
    PROVE  /\ \A f : LoaderKeeps(L, f) => LoaderKeeps(M, f)
           /\ \A i : InventoryKeeps(L, i) => InventoryKeeps(M, i)
           /\ \A t : ToolsKeep(L, t) => ToolsKeep(M, t)
           /\ \A c, there, env : EnvironmentKeeps(L, c, there, env) => EnvironmentKeeps(M, c, there, env)
           /\ \A all, list : SessionsKeep(S, L, all, list) => SessionsKeep(T, M, all, list)
           /\ \A all, a : DockerKeeps(S, L, all, a) => DockerKeeps(T, M, all, a)
           /\ \A all, names : NamesKeep(S, L, all, names) => NamesKeep(T, M, all, names)
           /\ \A all, h : HistoryKeeps(S, L, all, h) => HistoryKeeps(T, M, all, h)
  <1>1. \A f : LoaderKeeps(L, f) => LoaderKeeps(M, f)
    BY DEF LoaderKeeps
  <1>2. \A i : InventoryKeeps(L, i) => InventoryKeeps(M, i)
    BY DEF InventoryKeeps
  <1>3. \A t : ToolsKeep(L, t) => ToolsKeep(M, t)
    BY DEF ToolsKeep
  <1>4. \A c, there, env : EnvironmentKeeps(L, c, there, env) => EnvironmentKeeps(M, c, there, env)
    BY <1>3 DEF EnvironmentKeeps
  <1>5. \A all, list : SessionsKeep(S, L, all, list) => SessionsKeep(T, M, all, list)
    BY DEF SessionsKeep
  <1>6. \A all, a : DockerKeeps(S, L, all, a) => DockerKeeps(T, M, all, a)
    <2>1. \A all, list : ListKeeps(S, L, all, list) => ListKeeps(T, M, all, list)
      BY DEF ListKeeps
    <2> QED
      BY <2>1 DEF DockerKeeps
  <1>7. \A all, names : NamesKeep(S, L, all, names) => NamesKeep(T, M, all, names)
    BY DEF NamesKeep
  <1>8. \A all, h : HistoryKeeps(S, L, all, h) => HistoryKeeps(T, M, all, h)
    BY DEF HistoryKeeps
  <1> QED
    BY <1>1, <1>2, <1>3, <1>4, <1>5, <1>6, <1>7, <1>8

\* Nor does it matter how the machine changes: sessions only get older.
LEMMA SessionsAge ==
    ASSUME MachineInv,
           \/ EditContract \/ EditTree \/ Track \/ ChangeTool \/ ChangeDocker \/ ChangeContainer
           \/ StartSession \/ ChangeSession \/ RecordRun
    PROVE  /\ DOMAIN sessions \subseteq DOMAIN sessions' /\ IsFiniteSet(DOMAIN sessions')
           /\ \A s \in DOMAIN sessions : sessions'[s].started = sessions[s].started
  <1>1. CASE UNCHANGED sessions
    BY <1>1 DEF MachineInv
  <1>2. CASE StartSession
    <2>1. PICK s \in SessionNames \ DOMAIN sessions :
            sessions' = [t \in DOMAIN sessions \cup {s} |->
                           IF t = s THEN Fresh(Cardinality(DOMAIN sessions) + 1) ELSE sessions[t]]
      BY <1>2 DEF StartSession
    <2> QED
      BY <2>1, FS_AddElement DEF MachineInv
  <1>3. CASE ChangeSession
    <2>1. PICK s \in {s \in DOMAIN sessions : sessions[s].status = "running"} :
         \/ \E p \in Ports \ sessions[s].ports :
              sessions' = [sessions EXCEPT ![s].ports = @ \cup {p}]
         \/ \E f \in Failures \ sessions[s].failures :
              sessions' = [sessions EXCEPT ![s].failures = @ \cup {f}, ![s].status = "failed"]
         \/ sessions' = [sessions EXCEPT ![s].status = "stopped"]
         \/ ~sessions[s].old /\ sessions' = [sessions EXCEPT ![s].old = TRUE]
      BY <1>3 DEF ChangeSession
    <2>2. DOMAIN sessions' = DOMAIN sessions
      BY <2>1
    <2>3. \A t \in DOMAIN sessions : t # s => sessions'[t] = sessions[t]
      BY <2>1 DEF MachineInv
    <2>4. IsSession(sessions[s])
      BY DEF MachineInv
    <2>5. sessions'[s].started = sessions[s].started
      <3>1. CASE \E f \in Failures :
                   sessions' = [sessions EXCEPT ![s].failures = @ \cup {f}, ![s].status = "failed"]
        <4>1. PICK f \in Failures :
                sessions' = [sessions EXCEPT ![s].failures = @ \cup {f}, ![s].status = "failed"]
          BY <3>1
        <4>2. sessions'[s] = [sessions[s] EXCEPT !.failures = @ \cup {f}, !.status = "failed"]
          BY <4>1 DEF MachineInv
        <4> QED
          BY <2>4, <4>2 DEF IsSession
      <3>2. CASE ~\E f \in Failures :
                   sessions' = [sessions EXCEPT ![s].failures = @ \cup {f}, ![s].status = "failed"]
        BY <2>1, <2>4, <3>2, ZenonT(60) DEF IsSession, MachineInv
      <3> QED
        BY <3>1, <3>2
    <2> QED
      BY <2>2, <2>3, <2>5 DEF MachineInv
  <1> QED
    BY <1>1, <1>2, <1>3 DEF EditContract, EditTree, Track, ChangeTool, ChangeDocker, ChangeContainer, RecordRun

\* One of the latest sessions was one of them before.
LEMMA NewestWas ==
    ASSUME NEW all, NEW more, DOMAIN all \subseteq DOMAIN more, IsFiniteSet(DOMAIN more),
           \A s \in DOMAIN all : more[s].started = all[s].started,
           NEW s \in DOMAIN all, NewestOf(more, s)
    PROVE  NewestOf(all, s)
  <1> DEFINE later(x) == {t \in DOMAIN x : x[t].started > x[s].started}
  <1>1. later(all) \subseteq later(more)
    OBVIOUS
  <1>2. IsFiniteSet(later(more))
    BY FS_Subset
  <1>3. Cardinality(later(all)) <= Cardinality(later(more))
    BY <1>1, <1>2, FS_Subset
  <1>4. IsFiniteSet(later(all))
    BY <1>1, <1>2, FS_Subset
  <1>5. Cardinality(later(all)) \in Nat /\ Cardinality(later(more)) \in Nat
    BY <1>2, <1>4, FS_CardinalityType
  <1> QED
    BY <1>3, <1>5, RecentAssumption DEF NewestOf

LEMMA SessionsKeepOn ==
    ASSUME NEW S, NEW L, NEW all, NEW more, NEW list, SessionsKeep(S, L, all, list),
           DOMAIN all \subseteq DOMAIN more, IsFiniteSet(DOMAIN more),
           \A s \in DOMAIN all : more[s].started = all[s].started,
           \A s, f : <<"failure", s, f>> \in L => s \in DOMAIN all,
           \A s : <<"stale", s>> \in L => s \in DOMAIN all
    PROVE  SessionsKeep(S, L, more, list)
  BY NewestWas DEF SessionsKeep

\* A container stays that of its service.
LEMMA ContainersStay ==
    ASSUME MachineInv,
           \/ EditContract \/ EditTree \/ Track \/ ChangeTool \/ ChangeDocker \/ ChangeContainer
           \/ StartSession \/ ChangeSession \/ RecordRun
    PROVE  \A n \in DOMAIN containers' :
             n \in DOMAIN containers /\ containers'[n].service = containers[n].service
  <1>1. CASE UNCHANGED containers
    BY <1>1
  <1>2. CASE ChangeContainer
    <2>1. PICK n \in DOMAIN containers, state \in {"up", "unhealthy", "exited", "gone"} :
            containers' = IF state = "gone" THEN Restrict(containers, DOMAIN containers \ {n})
                          ELSE [containers EXCEPT ![n].state = state]
      BY <1>2 DEF ChangeContainer
    <2>2. CASE state = "gone"
      BY <2>1, <2>2 DEF Restrict
    <2>3. CASE state # "gone"
      <3>1. containers' = [containers EXCEPT ![n].state = state]
        BY <2>1, <2>3
      <3>2. IsContainer(containers[n])
        BY DEF MachineInv
      <3>3. containers'[n] = [containers[n] EXCEPT !.state = state]
        BY <3>1 DEF MachineInv
      <3>4. containers'[n].service = containers[n].service
        BY <3>2, <3>3 DEF IsContainer
      <3> QED
        BY <3>1, <3>4 DEF MachineInv
    <2> QED
      BY <2>2, <2>3
  <1> QED
    BY <1>1, <1>2 DEF EditContract, EditTree, Track, ChangeTool, ChangeDocker, StartSession, ChangeSession,
                      RecordRun

LEMMA DockerKeepsOn ==
    ASSUME NEW S, NEW L, NEW all, NEW fewer, NEW answers, DockerKeeps(S, L, all, answers),
           \A n \in DOMAIN fewer : n \in DOMAIN all /\ fewer[n].service = all[n].service
    PROVE  DockerKeeps(S, L, fewer, answers)
  <1>1. ListKeeps(S, L, fewer, answers.containers)
    BY DEF DockerKeeps, ListKeeps
  <1> QED
    BY <1>1 DEF DockerKeeps

\* A run that is one of the latest, and that was there before, was one of the latest then.
LEMMA RecentWas ==
    ASSUME MachineInv, MachineInv',
           \/ EditContract \/ EditTree \/ Track \/ ChangeTool \/ ChangeDocker \/ ChangeContainer
           \/ StartSession \/ ChangeSession \/ RecordRun,
           NEW i \in Recent(runs'), NEW j \in DOMAIN runs, runs[j].name = runs'[i].name
    PROVE  j \in Recent(runs)
  <1>1. PICK k \in DOMAIN runs' : j <= k /\ runs'[k] = runs[j]
    BY RunsStay
  <1>2. k = i
    BY <1>1 DEF Recent, MachineInv, IsHistory
  <1>3. i <= MaxRecent
    BY DEF Recent
  <1>4. i \in Nat /\ j \in Nat
    BY LenProperties DEF MachineInv, IsHistory, Recent
  <1> QED
    BY <1>1, <1>2, <1>3, <1>4, RecentAssumption DEF Recent

LEMMA OutcomeSays ==
    ASSUME NEW r, NEW k, NEW status, <<"outcome", r, k, status>> \in Facts
    PROVE  \E i \in DOMAIN runs : /\ runs[i].name = r /\ k \in DOMAIN runs[i].outcomes
                                  /\ runs[i].outcomes[k] = status
  <1>1. FactIs(<<"outcome", r, k, status>>)
    BY FactsAre
  <1> QED
    BY <1>1 DEF FactIs

LEMMA LastingBegins == Init => LastingInv
  <1> SUFFICES ASSUME Init PROVE LastingInv
    OBVIOUS
  <1>1. ctx = [loaderFindings |-> {}] /\ pc = "access"
    BY DEF Init
  <1>2. \A part : Has(part) => part = "loaderFindings"
    BY <1>1 DEF Has
  <1> QED
    BY <1>1, <1>2 DEF LastingInv, PendingKeeps

LEMMA LastingOfMachine ==
    ASSUME MachineInv, MachineInv', EvidenceInv, LastingInv, Machine, Observe
    PROVE  LastingInv'
  <1>1. UNCHANGED <<pc, request, present, ctx, pending, report>>
    BY DEF Machine, Changing, doctorVars
  <1>2. seen \subseteq seen' /\ lasting' \subseteq lasting /\ lasting' \subseteq Facts
    BY ObserveIs DEF EvidenceInv
  <1>3. \A part : Has(part)' <=> Has(part)
    BY <1>1 DEF Has
  <1>4. Services' = Services
    BY <1>1 DEF Services, Has
  <1>5. ASSUME NEW list, SessionsKeep(seen, lasting, sessions, list)
        PROVE  SessionsKeep(seen', lasting', sessions', list)
    <2>1. SessionsKeep(seen', lasting', sessions, list)
      BY <1>2, <1>5, KeepsLess
    <2>2. /\ \A s, f : <<"failure", s, f>> \in lasting' => s \in DOMAIN sessions
          /\ \A s : <<"stale", s>> \in lasting' => s \in DOMAIN sessions
      BY <1>2, FactsSay DEF StaleSessions
    <2> QED
      BY <2>1, <2>2, SessionsAge, SessionsKeepOn DEF Machine
  <1>6. ASSUME NEW answers, DockerKeeps(seen, lasting, containers, answers)
        PROVE  DockerKeeps(seen', lasting', containers', answers)
    <2>1. DockerKeeps(seen', lasting', containers, answers)
      BY <1>2, <1>6, KeepsLess
    <2> QED
      BY <2>1, ContainersStay, DockerKeepsOn DEF Machine
  <1>7. ASSUME NEW i \in Recent(runs'), NEW k, NEW status,
               <<"outcome", runs'[i].name, k, status>> \in lasting'
        PROVE  \E j \in Recent(runs) : runs[j].name = runs'[i].name
    <2> DEFINE name == runs'[i].name
    <2>1. PICK j \in DOMAIN runs : runs[j].name = name
      <3>1. <<"outcome", name, k, status>> \in Facts
        BY <1>2, <1>7
      <3> HIDE DEF name
      <3> QED
        BY <3>1, OutcomeSays
    <2> QED
      BY <2>1, RecentWas DEF Machine
  <1>8. ASSUME NEW outcomes, HistoryKeeps(seen, lasting, runs, outcomes)
        PROVE  HistoryKeeps(seen', lasting', runs', outcomes)
    BY <1>2, <1>7, <1>8 DEF HistoryKeeps
  <1>9. ASSUME NEW names, NamesKeep(seen, lasting, runs, names)
        PROVE  NamesKeep(seen', lasting', runs', names)
    BY <1>2, <1>7, <1>9 DEF NamesKeep
  <1>10. PendingKeeps'
    BY <1>1, <1>2, <1>9, KeepsLess DEF LastingInv, PendingKeeps, HasAsked
  <1> QED
    BY <1>1, <1>2, <1>3, <1>4, <1>5, <1>6, <1>8, <1>10, KeepsLess DEF LastingInv

-----------------------------------------------------------------------------
(* What an inspector reads has what lasts. *)

LEMMA InventoryHas ==
    ASSUME NEW L, L \subseteq Facts, NEW inventory, inventory.paths = Inventory
    PROVE  InventoryKeeps(L, inventory)
  BY FactsSay DEF InventoryKeeps

LEMMA ToolsHave ==
    ASSUME NEW L, L \subseteq Facts, ToolsKeep(L, pending), NEW t \in DOMAIN tools,
           pending' = [u \in DOMAIN pending \cup {t} |->
                         IF u = t THEN ToolStatus(tools[t]) ELSE pending[u]]
    PROVE  ToolsKeep(L, pending')
  <1>1. <<"tool", t>> \in L => ToolStatus(tools[t]) = "missing"
    <2>1. tools[t] = "fails" => ToolStatus(tools[t]) = "missing"
      BY DEF ToolStatus
    <2> QED
      BY <2>1, FactsSay
  <1> QED
    BY <1>1 DEF ToolsKeep

LEMMA SessionsHave ==
    ASSUME MachineInv, NEW S, Facts \subseteq S, NEW L, L \subseteq Facts,
           NEW list, list = IF "runtime" \in unreadable THEN <<>>
                            ELSE Restrict(sessions, RecentSessions(sessions))
    PROVE  SessionsKeep(S, L, sessions, list)
  <1> SUFFICES ASSUME <<"unreadable", "runtime">> \notin S, NEW s \in DOMAIN sessions, NewestOf(sessions, s)
               PROVE  /\ \A f : <<"failure", s, f>> \in L => s \in DOMAIN list /\ f \in list[s].failures
                      /\ <<"stale", s>> \in L => s \in StaleSessions(list)
    BY DEF SessionsKeep
  <1>1. "runtime" \notin unreadable
    BY FactsSay
  <1>2. s \in RecentSessions(sessions)
    BY DEF RecentSessions, NewestOf
  <1>3. s \in DOMAIN list /\ list[s] = sessions[s]
    BY <1>1, <1>2 DEF Restrict
  <1>4. \A f : <<"failure", s, f>> \in L => f \in sessions[s].failures
    BY FactsSay
  <1>5. <<"stale", s>> \in L => s \in StaleSessions(sessions)
    BY FactsSay
  <1> QED
    BY <1>3, <1>4, <1>5 DEF StaleSessions

\* Docker, by how far the questions get.
LEMMA ClientHas ==
    ASSUME NEW S, Facts \subseteq S, NEW L, "client" \notin docker,
           NEW answers, answers = DockerAnswers(FALSE, FALSE, FALSE, <<>>)
    PROVE  DockerKeeps(S, L, containers, answers)
  <1>1. <<"without", "client">> \in S
    BY FactsSay
  <1>2. ~answers.client
    BY DEF DockerAnswers
  <1>3. ListKeeps(S, L, containers, answers.containers)
    BY <1>1 DEF ListKeeps
  <1> QED
    BY <1>1, <1>2, <1>3 DEF DockerKeeps

LEMMA DaemonHas ==
    ASSUME NEW S, NEW L, L \subseteq Facts, <<"without", "client">> \notin L,
           \E p \in {"client", "daemon"} : <<"without", p>> \in S,
           NEW answers, answers = DockerAnswers(TRUE, FALSE, {"client", "compose"} \subseteq docker, <<>>)
    PROVE  DockerKeeps(S, L, containers, answers)
  <1>1. answers.client /\ ~answers.daemon
    BY DEF DockerAnswers
  <1>2. <<"without", "compose">> \in L => ~answers.compose
    <2>1. <<"without", "compose">> \in L => "compose" \notin docker
      BY FactsSay
    <2>2. "compose" \notin docker => ~answers.compose
      BY DEF DockerAnswers
    <2> QED
      BY <2>1, <2>2
  <1>3. \E p \in {"client", "daemon", "list"} : <<"without", p>> \in S
    OBVIOUS
  <1>4. ListKeeps(S, L, containers, answers.containers)
    BY <1>3 DEF ListKeeps
  <1> QED
    BY <1>1, <1>2, <1>3, <1>4 DEF DockerKeeps

LEMMA ListHas ==
    ASSUME MachineInv, NEW S, Facts \subseteq S, NEW L, L \subseteq Facts,
           NEW list, list = IF {"client", "daemon", "list"} \subseteq docker THEN containers ELSE <<>>
    PROVE  ListKeeps(S, L, containers, list)
  <1> SUFFICES ASSUME \A p \in {"client", "daemon", "list"} : <<"without", p>> \notin S
               PROVE  /\ DOMAIN list \subseteq DOMAIN Includes
                      /\ \A n \in DOMAIN containers : \A state : <<"container", n, state>> \in L =>
                           /\ n \in DOMAIN list /\ list[n].state = state
                           /\ list[n].service = containers[n].service
                      /\ \A v : <<"no container", v>> \in L => \A n \in DOMAIN list : list[n].service # v
    BY DEF ListKeeps
  <1>1. \A p \in {"client", "daemon", "list"} : p \in docker
    BY FactsSay
  <1>2. list = containers
    BY <1>1
  <1>3. \A n, state : <<"container", n, state>> \in L => containers[n].state = state
    BY FactsSay
  <1>4. \A v : <<"no container", v>> \in L => \A n \in DOMAIN containers : containers[n].service # v
    BY FactsSay
  <1> QED
    BY <1>2, <1>3, <1>4 DEF MachineInv

LEMMA ContainersHave ==
    ASSUME NEW S, NEW L, <<"without", "client">> \notin L, <<"without", "daemon">> \notin L,
           NEW compose, <<"without", "compose">> \in L => ~compose,
           NEW list, ListKeeps(S, L, containers, list),
           NEW answers, answers = DockerAnswers(TRUE, TRUE, compose, list)
    PROVE  DockerKeeps(S, L, containers, answers)
  <1>1. answers.client /\ answers.daemon /\ answers.containers = list
    BY DEF DockerAnswers
  <1>2. <<"without", "compose">> \in L => ~answers.compose
    BY DEF DockerAnswers
  <1>3. ListKeeps(S, L, containers, answers.containers)
    BY <1>1
  <1> QED
    BY <1>1, <1>2, <1>3 DEF DockerKeeps

LEMMA NamesHave ==
    ASSUME NEW S, NEW L, NEW names,
           names = {runs[i].name : i \in {i \in DOMAIN runs : i <= MaxRecent}}
    PROVE  NamesKeep(S, L, runs, names)
  BY DEF NamesKeep, Recent

LEMMA HistoryHas ==
    ASSUME MachineInv, NEW S, NEW L, L \subseteq Facts, NEW names, NamesKeep(S, L, runs, names),
           NEW read, read = [r \in names |-> (CHOOSE run \in Range(runs) : run.name = r).outcomes]
    PROVE  HistoryKeeps(S, L, runs, read)
  <1> SUFFICES ASSUME <<"unreadable", "history">> \notin S, NEW i \in Recent(runs), NEW k, NEW status,
                      <<"outcome", runs[i].name, k, status>> \in L
               PROVE  /\ runs[i].name \in DOMAIN read /\ k \in DOMAIN read[runs[i].name]
                      /\ read[runs[i].name][k] = status
    BY DEF HistoryKeeps
  <1> DEFINE name == runs[i].name
  <1>1. name \in names
    BY DEF NamesKeep
  <1>2. PICK j \in DOMAIN runs : /\ runs[j].name = name /\ k \in DOMAIN runs[j].outcomes
                                 /\ runs[j].outcomes[k] = status
    <2>1. <<"outcome", name, k, status>> \in Facts
      OBVIOUS
    <2> HIDE DEF name
    <2> QED
      BY <2>1, OutcomeSays
  <1>3. \A run \in Range(runs) : run.name = name => run = runs[j]
    BY <1>2 DEF Range, MachineInv, IsHistory
  <1>4. runs[j] \in Range(runs)
    BY DEF Range
  <1>5. (CHOOSE run \in Range(runs) : run.name = name) = runs[j]
    BY <1>2, <1>3, <1>4
  <1>6. read[name] = runs[j].outcomes
    BY <1>1, <1>5
  <1> QED
    BY <1>1, <1>2, <1>6

LEMMA NoHistoryHas ==
    ASSUME NEW S, Facts \subseteq S, "history" \in unreadable, NEW L, NEW read
    PROVE  HistoryKeeps(S, L, runs, read)
  BY FactsSay DEF HistoryKeeps

LEMMA LoaderHas ==
    ASSUME NEW L, L \subseteq Facts, NEW id, NEW severity, NEW findings,
           findings = {Finding(id, <<id>>, severity, {<<"contract", file.state>>})}
    PROVE  LoaderKeeps(L, findings)
  <1>1. \A x : <<"contract", x>> \in L => x = file.state
    BY FactsSay
  <1>2. Finding(id, <<id>>, severity, {<<"contract", file.state>>}).evidence = {<<"contract", file.state>>}
    BY FindingIs
  <1> QED
    BY <1>1, <1>2 DEF LoaderKeeps

LEMMA ValidHas ==
    ASSUME NEW L, L \subseteq Facts, file.state = "valid"
    PROVE  LoaderKeeps(L, {})
  BY FactsSay DEF LoaderKeeps

-----------------------------------------------------------------------------
(* Nor does the doctor lose it. *)

LEMMA NothingPending ==
    ASSUME pending' = Nothing, pc' # "inventory"
    PROVE  PendingKeeps'
  BY DEF PendingKeeps, Nothing, HasAsked, ToolsKeep

LEMMA LastingGrows ==
    ASSUME EvidenceInv, LastingInv, seen \subseteq seen', lasting' \subseteq lasting,
           UNCHANGED <<sessions, containers, runs, present>>,
           NEW inspector \in Range(Inspectors), NEW read, Extend(inspector, read), pc = inspector,
           inspector = "inventory" => InventoryKeeps(lasting', read),
           inspector = "localEnvironment" /\ Has("contract") =>
               EnvironmentKeeps(lasting', ctx.contract, present, read),
           inspector = "runtime" => SessionsKeep(seen', lasting', sessions, read),
           inspector = "docker" => /\ DockerKeeps(seen', lasting', containers, read)
                                   /\ read.services = Services,
           inspector = "verification" => HistoryKeeps(seen', lasting', runs, read)
    PROVE  LastingInv'
  <1>1. /\ ctx'[inspector] = read
        /\ \A part \in DOMAIN ctx : part # inspector => ctx'[part] = ctx[part]
        /\ \A part : Has(part)' <=> Has(part) \/ part = inspector
        /\ pending' = Nothing /\ pc' = After(inspector)
        /\ inspector \notin {"loaderFindings", "contract"}
    BY ExtendIs
  <1>2. /\ Has("contract")' <=> Has("contract")
        /\ Has("contract") => ctx'.contract = ctx.contract
    BY <1>1 DEF Has
  <1>3. Services' = Services
    BY <1>2 DEF Services
  <1>4. LoaderKeeps(lasting', ctx'.loaderFindings)
    <2>1. LoaderKeeps(lasting, ctx.loaderFindings)
      BY InspectorsAre DEF LastingInv, Labels
    <2>2. ctx'.loaderFindings = ctx.loaderFindings
      BY <1>1 DEF EvidenceInv, ContextInv
    <2> QED
      BY <2>1, <2>2, KeepsLess
  <1>5. Has("inventory")' => InventoryKeeps(lasting', ctx'.inventory)
    BY <1>1, KeepsLess DEF LastingInv, Has
  <1>6. Has("localEnvironment")' /\ Has("contract") =>
          EnvironmentKeeps(lasting', ctx.contract, present, ctx'.localEnvironment)
    BY <1>1, KeepsLess DEF LastingInv, Has
  <1>7. Has("runtime")' => SessionsKeep(seen', lasting', sessions, ctx'.runtime)
    BY <1>1, KeepsLess DEF LastingInv, Has
  <1>8. Has("docker")' => DockerKeeps(seen', lasting', containers, ctx'.docker)
                          /\ ctx'.docker.services = Services
    BY <1>1, KeepsLess DEF LastingInv, Has
  <1>9. Has("verification")' => HistoryKeeps(seen', lasting', runs, ctx'.verification)
    BY <1>1, KeepsLess DEF LastingInv, Has
  <1>10. PendingKeeps'
    BY <1>1, NothingPending, AfterIs, InspectorsAre DEF Labels
  <1> QED
    BY <1>2, <1>3, <1>4, <1>5, <1>6, <1>7, <1>8, <1>9, <1>10 DEF LastingInv

\* The context stays as it is.
LEMMA LastingStays ==
    ASSUME LastingInv, seen \subseteq seen', lasting' \subseteq lasting,
           UNCHANGED <<sessions, containers, runs, present, ctx>>,
           pc \in {"access", "parse"} => pc' \in {"access", "parse"},
           PendingKeeps'
    PROVE  LastingInv'
  <1>1. \A part : Has(part)' <=> Has(part)
    BY DEF Has
  <1>2. Services' = Services
    BY <1>1 DEF Services
  <1> QED
    BY <1>1, <1>2, KeepsLess DEF LastingInv

\* The loader is done.
LEMMA LastingLoaded ==
    ASSUME LastingInv, pc' = "scan", DOMAIN ctx' \subseteq {"loaderFindings", "contract"},
           LoaderKeeps(lasting', ctx'.loaderFindings)
    PROVE  LastingInv'
  BY DEF LastingInv, PendingKeeps, Has

LEMMA LastingOfDoctor ==
    ASSUME MachineInv, EvidenceInv, LastingInv, Doctor, Observe
    PROVE  LastingInv'
  <1>1. UNCHANGED <<file, tree, tracked, tools, docker, containers, sessions, runs, unreadable, present>>
    BY DEF Doctor, ContractMissing, ContractThere, ParseContract, Scan, SkipInspector,
       InspectInventory, ProbeTool, InspectEnvironment, InspectRuntime, AskVersion, AskInfo,
       AskCompose, AskContainers, InspectPorts, ReadHistory, ReadRuns, RunRules, FailRules, Extend, Answered,
       machineVars
  <1>2. /\ seen \subseteq seen' /\ Facts \subseteq seen'
        /\ lasting' \subseteq lasting /\ lasting' \subseteq Facts /\ lasting \subseteq Facts
    BY ObserveIs DEF EvidenceInv
  <1>3. ASSUME NEW inspector \in {"inventory", "localEnvironment", "runtime", "docker", "ports",
                                  "verification"},
               NEW read, Extend(inspector, read), Enabled(inspector),
               inspector = "inventory" => InventoryKeeps(lasting', read),
               inspector = "localEnvironment" /\ Has("contract") =>
                   EnvironmentKeeps(lasting', ctx.contract, present, read),
               inspector = "runtime" => SessionsKeep(seen', lasting', sessions, read),
               inspector = "docker" => /\ DockerKeeps(seen', lasting', containers, read)
                                       /\ read.services = Services,
               inspector = "verification" => HistoryKeeps(seen', lasting', runs, read)
        PROVE  LastingInv'
    <2>1. inspector \in Range(Inspectors) /\ pc = inspector
      BY <1>3, InspectorsAre DEF Enabled, Labels
    <2> QED
      BY <1>1, <1>2, <1>3, <2>1, LastingGrows
  <1>4. CASE ContractMissing
    <2>1. /\ pc' = "scan" /\ DOMAIN ctx' \subseteq {"loaderFindings", "contract"}
          /\ ctx'.loaderFindings = {Finding("contract.missing", <<"contract.missing">>, "blocking",
                                            {<<"contract", file.state>>})}
      BY <1>4 DEF ContractMissing, Unusable, Goto
    <2>2. LoaderKeeps(lasting', ctx'.loaderFindings)
      BY <1>2, <2>1, LoaderHas
    <2> QED
      BY <2>1, <2>2, LastingLoaded
  <1>5. CASE ContractThere
    <2>1. PendingKeeps' /\ UNCHANGED ctx /\ pc' = "parse"
      BY <1>5 DEF ContractThere, Goto, PendingKeeps
    <2> QED
      BY <1>1, <1>2, <2>1, LastingStays
  <1>6. CASE ParseContract
    <2>1. pc' = "scan" /\ DOMAIN ctx' \subseteq {"loaderFindings", "contract"}
      BY <1>6 DEF ParseContract, Loaded, Unusable, Goto
    <2>2. CASE file.state = "valid"
      <3>1. ctx'.loaderFindings = {}
        BY <1>6, <2>2 DEF ParseContract, Loaded
      <3> QED
        BY <1>2, <2>1, <2>2, <3>1, ValidHas, LastingLoaded
    <2>3. CASE file.state # "valid"
      <3>1. PICK id \in {"contract.invalid", "contract.read_error"},
                 severity \in {"blocking", "error"} :
                   ctx' = [loaderFindings |-> {Finding(id, <<id>>, severity,
                                                       {<<"contract", file.state>>})}]
        BY <1>6, <2>3 DEF ParseContract, Unusable
      <3>2. LoaderKeeps(lasting', ctx'.loaderFindings)
        BY <1>2, <3>1, LoaderHas
      <3> QED
        BY <2>1, <3>2, LastingLoaded
    <2> QED
      BY <2>2, <2>3
  <1>7. CASE Scan
    <2>1. /\ pc = "scan" /\ pc' \in {"rules", "inventory"} /\ UNCHANGED ctx
          /\ pending'.paths = Inventory
      BY <1>7 DEF Scan, Goto, Inspectors
    <2>2. InventoryKeeps(lasting', pending')
      BY <1>2, <2>1, InventoryHas
    <2>3. PendingKeeps'
      BY <2>1, <2>2 DEF PendingKeeps
    <2> QED
      BY <1>1, <1>2, <2>1, <2>3, LastingStays
  <1>8. CASE \E i \in DOMAIN Inspectors : SkipInspector(Inspectors[i])
    <2>1. PICK i \in Range(Inspectors) : SkipInspector(i)
      BY <1>8 DEF Range
    <2>2. pc = i /\ pc' = After(i) /\ pending' = Nothing /\ UNCHANGED ctx
      BY <2>1 DEF SkipInspector, Goto
    <2>3. pc \notin {"access", "parse"} /\ pc' # "inventory"
      BY <2>2, AfterIs, InspectorsAre DEF Labels
    <2> QED
      BY <1>1, <1>2, <2>2, <2>3, NothingPending, LastingStays
  <1>9. CASE InspectInventory
    <2>1. Extend("inventory", pending) /\ Enabled("inventory")
      BY <1>9 DEF InspectInventory
    <2>2. InventoryKeeps(lasting', pending)
      BY <1>2, <2>1, KeepsLess DEF Enabled, LastingInv, PendingKeeps
    <2> QED
      BY <1>3, <2>1, <2>2
  <1>10. CASE \E t \in DOMAIN tools : ProbeTool(t)
    <2>1. PICK t \in DOMAIN tools : ProbeTool(t)
      BY <1>10
    <2>2. /\ pc = "localEnvironment" /\ UNCHANGED <<pc, ctx>>
          /\ pending' = [u \in DOMAIN pending \cup {t} |->
                           IF u = t THEN ToolStatus(tools[t]) ELSE pending[u]]
      BY <2>1 DEF ProbeTool, Enabled
    <2>3. ToolsKeep(lasting', pending)
      BY <1>2, <2>2, KeepsLess DEF LastingInv, PendingKeeps
    <2>4. ToolsKeep(lasting', pending')
      BY <1>2, <2>2, <2>3, ToolsHave
    <2>5. PendingKeeps'
      BY <2>2, <2>4 DEF PendingKeeps
    <2> QED
      BY <1>1, <1>2, <2>2, <2>5, LastingStays
  <1>11. CASE InspectEnvironment
    <2>1. CASE ~Has("contract") /\ Extend("localEnvironment", NoEnvironment)
      <3>1. Enabled("localEnvironment")
        BY <1>11 DEF InspectEnvironment
      <3> QED
        BY <1>3, <2>1, <3>1
    <2>2. CASE Has("contract")
      <3> DEFINE read == [tools |-> pending,
                          required |-> RequiredVariables(ctx.contract),
                          present |-> present,
                          missingFiles |-> ExpectedFiles(DOMAIN pending) \ tree]
      <3>1. /\ Enabled("localEnvironment") /\ Extend("localEnvironment", read)
            /\ DOMAIN pending = RequiredTools(ctx.contract)
        BY <1>11, <2>2 DEF InspectEnvironment
      <3>2. ToolsKeep(lasting', pending)
        BY <1>2, <3>1, KeepsLess DEF Enabled, LastingInv, PendingKeeps
      <3>3. EnvironmentKeeps(lasting', ctx.contract, present, read)
        BY <3>1, <3>2 DEF EnvironmentKeeps
      <3> HIDE DEF read
      <3> QED
        BY <1>3, <3>1, <3>3
    <2> QED
      BY <1>11, <2>1, <2>2 DEF InspectEnvironment
  <1>12. CASE InspectRuntime
    <2> DEFINE read == IF "runtime" \in unreadable THEN <<>>
                       ELSE Restrict(sessions, RecentSessions(sessions))
    <2>1. Enabled("runtime") /\ Extend("runtime", read)
      BY <1>12 DEF InspectRuntime
    <2>2. SessionsKeep(seen', lasting', sessions, read)
      BY <1>2, SessionsHave
    <2> HIDE DEF read
    <2> QED
      BY <1>3, <2>1, <2>2
  <1>13. ASSUME NEW read, Enabled("docker"), Extend("docker", read),
                DockerKeeps(seen', lasting', containers, read), read.services = Services
         PROVE  LastingInv'
    BY <1>3, <1>13
  <1>14. ASSUME NEW answers, Enabled("docker"), Answered(answers), "asked" \in DOMAIN answers,
                <<"without", "client">> \notin lasting',
                answers.asked = "info" =>
                  /\ <<"without", "daemon">> \in lasting' => ~answers.daemon
                  /\ (\A p \in {"client", "daemon"} : <<"without", p>> \notin seen') => answers.daemon,
                answers.asked = "compose" =>
                  /\ <<"without", "daemon">> \notin lasting'
                  /\ <<"without", "compose">> \in lasting' => ~answers.compose
         PROVE  LastingInv'
    <2>1. pc = "docker" /\ UNCHANGED <<pc, ctx>> /\ pending' = answers
      BY <1>14 DEF Enabled, Answered
    <2>2. PendingKeeps'
      BY <1>14, <2>1 DEF PendingKeeps, HasAsked
    <2> QED
      BY <1>1, <1>2, <2>1, <2>2, LastingStays
  <1>15. \A client, daemon, compose, list : DockerAnswers(client, daemon, compose, list).services = Services
    BY DEF DockerAnswers
  <1>16. CASE AskVersion
    <2>1. CASE "client" \in docker
      <3>1. Enabled("docker") /\ Answered([asked |-> "version"])
        BY <1>16, <2>1 DEF AskVersion
      <3>2. <<"without", "client">> \notin lasting'
        BY <1>2, <2>1, FactsSay
      <3> QED
        BY <1>14, <3>1, <3>2
    <2>2. CASE "client" \notin docker
      <3> DEFINE read == DockerAnswers(FALSE, FALSE, FALSE, <<>>)
      <3>1. Enabled("docker") /\ Extend("docker", read)
        BY <1>16, <2>2 DEF AskVersion
      <3>2. DockerKeeps(seen', lasting', containers, read)
        BY <1>2, <2>2, ClientHas
      <3> QED
        BY <1>13, <1>15, <3>1, <3>2
    <2> QED
      BY <2>1, <2>2
  <1>17. CASE AskInfo
    <2> DEFINE daemon == {"client", "daemon"} \subseteq docker
               answers == [asked |-> "info", daemon |-> daemon]
    <2>1. Enabled("docker") /\ HasAsked("version") /\ Answered(answers)
      BY <1>17 DEF AskInfo
    <2>2. <<"without", "client">> \notin lasting
      BY <2>1 DEF HasAsked, Nothing, Enabled, LastingInv, PendingKeeps
    <2>3. <<"without", "daemon">> \in lasting' => ~daemon
      BY <1>2, FactsSay
    <2>4. (\A p \in {"client", "daemon"} : <<"without", p>> \notin seen') => daemon
      BY <1>2, FactsSay
    <2> HIDE DEF daemon
    <2>5. answers.asked = "info" /\ answers.daemon = daemon /\ "asked" \in DOMAIN answers
      OBVIOUS
    <2> HIDE DEF answers
    <2> QED
      BY <1>2, <1>14, <2>1, <2>2, <2>3, <2>4, <2>5
  <1>18. CASE AskCompose
    <2> DEFINE compose == {"client", "compose"} \subseteq docker
    <2>1. Enabled("docker") /\ HasAsked("info") /\ pending # Nothing
      BY <1>18 DEF AskCompose, HasAsked, Nothing
    <2>2. /\ <<"without", "client">> \notin lasting'
          /\ <<"without", "daemon">> \in lasting => ~pending.daemon
          /\ (\A p \in {"client", "daemon"} : <<"without", p>> \notin seen) => pending.daemon
      BY <1>2, <2>1 DEF Enabled, LastingInv, PendingKeeps
    <2>3. CASE pending.daemon
      <3> DEFINE answers == [asked |-> "compose", compose |-> compose]
      <3>1. Answered(answers)
        BY <1>18, <2>3 DEF AskCompose
      <3>2. <<"without", "daemon">> \notin lasting'
        BY <1>2, <2>2, <2>3
      <3>3. <<"without", "compose">> \in lasting' => ~compose
        BY <1>2, FactsSay
      <3> HIDE DEF compose
      <3>4. answers.asked = "compose" /\ answers.compose = compose /\ "asked" \in DOMAIN answers
        OBVIOUS
      <3> HIDE DEF answers
      <3> QED
        BY <1>14, <2>1, <2>2, <3>1, <3>2, <3>3, <3>4
    <2>4. CASE ~pending.daemon
      <3> DEFINE read == DockerAnswers(TRUE, FALSE, compose, <<>>)
      <3>1. Extend("docker", read)
        BY <1>18, <2>4 DEF AskCompose
      <3>2. \E p \in {"client", "daemon"} : <<"without", p>> \in seen'
        BY <1>2, <2>2, <2>4
      <3>3. DockerKeeps(seen', lasting', containers, read)
        BY <1>2, <2>2, <3>2, DaemonHas
      <3> QED
        BY <1>13, <1>15, <2>1, <3>1, <3>3
    <2> QED
      BY <2>3, <2>4
  <1>19. CASE AskContainers
    <2> DEFINE list == IF {"client", "daemon", "list"} \subseteq docker THEN containers ELSE <<>>
               read == DockerAnswers(TRUE, TRUE, pending.compose, list)
    <2>1. Enabled("docker") /\ HasAsked("compose") /\ Extend("docker", read) /\ pending # Nothing
      <3>1. Enabled("docker") /\ HasAsked("compose") /\ Extend("docker", read)
        BY <1>19 DEF AskContainers
      <3>2. pending # Nothing
        BY <3>1 DEF HasAsked, Nothing
      <3> QED
        BY <3>1, <3>2
    <2>2. /\ <<"without", "client">> \notin lasting' /\ <<"without", "daemon">> \notin lasting'
          /\ <<"without", "compose">> \in lasting' => ~pending.compose
      BY <1>2, <2>1 DEF Enabled, LastingInv, PendingKeeps
    <2>3. ListKeeps(seen', lasting', containers, list)
      BY <1>2, ListHas
    <2> HIDE DEF list
    <2>4. DockerKeeps(seen', lasting', containers, read)
      BY <2>2, <2>3, ContainersHave
    <2> QED
      BY <1>13, <1>15, <2>1, <2>4
  <1>20. CASE InspectPorts
    <2>1. \E read : Enabled("ports") /\ Extend("ports", read)
      BY <1>20 DEF InspectPorts
    <2> QED
      BY <1>3, <2>1
  <1>21. CASE ReadHistory
    <2>1. Enabled("verification")
      BY <1>21 DEF ReadHistory
    <2>2. CASE "history" \in unreadable
      <3>1. Extend("verification", <<>>)
        BY <1>21, <2>2 DEF ReadHistory
      <3>2. HistoryKeeps(seen', lasting', runs, <<>>)
        BY <1>2, <2>2, NoHistoryHas
      <3> QED
        BY <1>3, <2>1, <3>1, <3>2
    <2>3. CASE "history" \notin unreadable
      <3> DEFINE names == {runs[i].name : i \in {i \in DOMAIN runs : i <= MaxRecent}}
      <3>1. /\ UNCHANGED <<pc, ctx>> /\ pending' = [names |-> names]
        BY <1>21, <2>3 DEF ReadHistory, Answered
      <3>2. NamesKeep(seen', lasting', runs, names)
        BY NamesHave
      <3> HIDE DEF names
      <3>3. pending'.names = names /\ pc = "verification"
        BY <2>1, <3>1 DEF Enabled
      <3>4. PendingKeeps'
        BY <1>1, <3>1, <3>2, <3>3 DEF PendingKeeps
      <3> QED
        BY <1>1, <1>2, <3>1, <3>4, LastingStays
    <2> QED
      BY <2>2, <2>3
  <1>22. CASE ReadRuns
    <2> DEFINE names == pending.names
               read == [r \in names |-> (CHOOSE run \in Range(runs) : run.name = r).outcomes]
    <2>1. Enabled("verification") /\ Extend("verification", read) /\ pending # Nothing
      BY <1>22 DEF ReadRuns
    <2>2. NamesKeep(seen', lasting', runs, names)
      BY <1>2, <2>1, KeepsLess DEF Enabled, LastingInv, PendingKeeps
    <2> HIDE DEF names
    <2>3. HistoryKeeps(seen', lasting', runs, read)
      BY <1>2, <2>2, HistoryHas
    <2> HIDE DEF read
    <2> QED
      BY <1>3, <2>1, <2>3
  <1>23. CASE RunRules
    <2>1. pc = "rules" /\ pc' = "done" /\ pending' = Nothing /\ UNCHANGED ctx
      BY <1>23 DEF RunRules, Goto
    <2> QED
      BY <1>1, <1>2, <2>1, NothingPending, LastingStays
  <1>24. CASE FailRules
    <2>1. pc = "rules" /\ pc' = "failed" /\ pending' = Nothing /\ UNCHANGED ctx
      BY <1>24 DEF FailRules, Goto
    <2> QED
      BY <1>1, <1>2, <2>1, NothingPending, LastingStays
  <1> QED
    BY <1>4, <1>5, <1>6, <1>7, <1>8, <1>9, <1>10, <1>11, <1>12, <1>16, <1>17, <1>18, <1>19, <1>20,
       <1>21, <1>22, <1>23, <1>24 DEF Doctor

LEMMA LastingStep == MachineInv /\ EvidenceInv /\ LastingInv /\ [Next]_vars => LastingInv'
  <1> SUFFICES ASSUME MachineInv, EvidenceInv, LastingInv, [Next]_vars PROVE LastingInv'
    OBVIOUS
  <1>1. CASE UNCHANGED vars
    <2>1. UNCHANGED <<sessions, containers, runs, present, ctx, pc, pending, seen, lasting>>
      BY <1>1 DEF vars, machineVars, doctorVars
    <2>2. PendingKeeps'
      BY <2>1 DEF LastingInv, PendingKeeps, HasAsked
    <2> QED
      BY <2>1, <2>2, LastingStays
  <1>2. MachineInv'
    BY MachineStep
  <1> QED
    BY <1>1, <1>2, LastingOfMachine, LastingOfDoctor DEF Next

\* So in the end the report has it.
Told(e) == CommandStatus = "warning" /\ \E f \in report : e \in f.evidence

Ended == MachineInv /\ EvidenceInv /\ ReportInv /\ InspectedInv /\ LastingInv /\ pc = "done"

LEMMA DoneHas ==
    ASSUME InspectedInv, pc = "done", NEW i \in Range(Inspectors), NEW category, Looked(category, i)
    PROVE  Has(i) /\ ~request.dry /\ category \in request.categories
  BY LaterIs DEF InspectedInv, Looked

LEMMA FoundIsTold ==
    ASSUME Ended, ~request.dry, NEW rule \in Rules, Category(rule) \in request.categories,
           Runnable(rule, ctx), NEW f \in RunRule(rule, ctx), NEW e \in f.evidence
    PROVE  Told(e)
  <1>1. f \in report
    BY IsReported DEF Ended
  <1> QED
    BY <1>1 DEF Told, CommandStatus

LEMMA ContractIsTold ==
    ASSUME Ended, NEW x, <<"contract", x>> \in lasting, x # "valid"
    PROVE  Told(<<"contract", x>>)
  <1>1. \E f \in ctx.loaderFindings : <<"contract", x>> \in f.evidence
    BY DEF Ended, LastingInv, LoaderKeeps
  <1>2. ctx.loaderFindings \subseteq report
    BY DEF Ended, ReportInv
  <1> QED
    BY <1>1, <1>2 DEF Told, CommandStatus

LEMMA ToolIsTold ==
    ASSUME Ended, Looked("environment", "localEnvironment"), Has("contract"),
           NEW t \in RequiredTools(ctx.contract), <<"tool", t>> \in lasting
    PROVE  Told(<<"tool", t>>)
  <1> DEFINE f == Finding("environment.tools", <<"tool", t>>, "blocking", {<<"tool", t>>})
  <1>1. Has("localEnvironment") /\ ~request.dry /\ "environment" \in request.categories
    BY DoneHas, InspectorsAre DEF Labels, Ended
  <1>2. t \in DOMAIN ctx.localEnvironment.tools /\ ctx.localEnvironment.tools[t] = "missing"
    BY <1>1 DEF Ended, LastingInv, EnvironmentKeeps, ToolsKeep
  <1>3. f \in ToolFindings(ctx.localEnvironment)
    BY <1>2, Zenon DEF ToolFindings
  <1>4. f \in RunRule("environment.tools", ctx)
    BY <1>3 DEF RunRule
  <1>5. Category("environment.tools") = "environment" /\ Runnable("environment.tools", ctx)
    BY <1>1 DEF Category, Runnable, Prerequisites, Has
  <1>6. <<"tool", t>> \in f.evidence
    BY FindingIs
  <1>7. "environment.tools" \in Rules
    BY DEF Rules
  <1> HIDE DEF f
  <1> QED
    BY <1>1, <1>4, <1>5, <1>6, <1>7, FoundIsTold

LEMMA VariableIsTold ==
    ASSUME Ended, Looked("environment", "localEnvironment"), Has("contract"),
           NEW n \in RequiredVariables(ctx.contract), <<"variable", n>> \in lasting
    PROVE  Told(<<"variable", n>>)
  <1> DEFINE f == Finding("environment.variables", <<"variable", n>>, "blocking", {<<"variable", n>>})
  <1>1. Has("localEnvironment") /\ ~request.dry /\ "environment" \in request.categories
    BY DoneHas, InspectorsAre DEF Labels, Ended
  <1>2. n \notin present
    <2>1. FactIs(<<"variable", n>>)
      BY FactsAre DEF Ended, EvidenceInv
    <2> QED
      BY <2>1 DEF FactIs
  <1>3. n \in ctx.localEnvironment.required \ ctx.localEnvironment.present
    BY <1>1, <1>2 DEF Ended, LastingInv, EnvironmentKeeps
  <1>4. f \in VariableFindings(ctx.localEnvironment)
    BY <1>3, Zenon DEF VariableFindings
  <1>5. f \in RunRule("environment.variables", ctx)
    BY <1>4 DEF RunRule
  <1>6. Category("environment.variables") = "environment" /\ Runnable("environment.variables", ctx)
    BY <1>1 DEF Category, Runnable, Prerequisites, Has
  <1>7. <<"variable", n>> \in f.evidence
    BY FindingIs
  <1>8. "environment.variables" \in Rules
    BY DEF Rules
  <1> HIDE DEF f
  <1> QED
    BY <1>1, <1>5, <1>6, <1>7, <1>8, FoundIsTold

LEMMA UncoveredIsTold ==
    ASSUME Ended, Looked("contract", "inventory"), Has("contract"),
           NEW r \in ctx.contract.patterns, <<"uncovered", r.pattern>> \in lasting
    PROVE  Told(<<"uncovered", r.pattern>>)
  <1> DEFINE f == Candidate("contract.path-references", <<"path", r.section, r.pattern>>, "warning",
                            {<<"uncovered", r.pattern>>})
  <1>1. Has("inventory") /\ ~request.dry /\ "contract" \in request.categories
    BY DoneHas, InspectorsAre DEF Labels, Ended
  <1>2. Covers[r.pattern] \cap ctx.inventory.paths = {}
    BY <1>1 DEF Ended, LastingInv, InventoryKeeps
  <1>3. f \in PathReferenceFindings(ctx.contract, ctx.inventory.paths)
    BY <1>2, Zenon DEF PathReferenceFindings
  <1>4. f \in RunRule("contract.path-references", ctx)
    BY <1>3 DEF RunRule
  <1>5. Category("contract.path-references") = "contract" /\ Runnable("contract.path-references", ctx)
    BY <1>1 DEF Category, Runnable, Prerequisites, Has
  <1>6. <<"uncovered", r.pattern>> \in f.evidence
    BY CandidateIs
  <1>7. "contract.path-references" \in Rules
    BY DEF Rules
  <1> HIDE DEF f
  <1> QED
    BY <1>1, <1>4, <1>5, <1>6, <1>7, FoundIsTold

LEMMA SessionIsTold ==
    ASSUME Ended, Looked("runtime", "runtime"), <<"unreadable", "runtime">> \notin seen,
           NEW s \in DOMAIN sessions, Newest(s)
    PROVE  /\ \A failure : <<"failure", s, failure>> \in lasting => Told(<<"failure", s, failure>>)
           /\ <<"stale", s>> \in lasting => Told(<<"stale", s>>)
  <1>1. Has("runtime") /\ ~request.dry /\ "runtime" \in request.categories
    BY DoneHas, InspectorsAre DEF Labels, Ended
  <1>2. NewestOf(sessions, s)
    BY DEF Newest, NewestOf
  <1>3. SessionsKeep(seen, lasting, sessions, ctx.runtime)
    BY <1>1 DEF Ended, LastingInv
  <1>4. Category("runtime.failures") = "runtime" /\ Runnable("runtime.failures", ctx)
    BY <1>1 DEF Category, Runnable, Prerequisites, Has
  <1>5. "runtime.failures" \in Rules /\ RunRule("runtime.failures", ctx) = SessionFindings(ctx.runtime)
    BY DEF Rules, RunRule
  <1>6. ASSUME NEW failure, <<"failure", s, failure>> \in lasting
        PROVE  Told(<<"failure", s, failure>>)
    <2> DEFINE o == [session |-> s, failure |-> failure]
               f == Finding("runtime.failures", Subject(o), "error", {FailureEvidence(o)})
    <2>1. s \in DOMAIN ctx.runtime /\ failure \in ctx.runtime[s].failures
      BY <1>2, <1>3, <1>6 DEF SessionsKeep
    <2>2. o \in FailureObservations(ctx.runtime)
      BY <2>1 DEF FailureObservations
    <2>3. FailureEvidence(o) = <<"failure", s, failure>>
      BY DEF FailureEvidence
    <2> HIDE DEF o
    <2>4. f \in SessionFindings(ctx.runtime)
      BY <2>2, Zenon DEF SessionFindings
    <2>5. f.evidence = {FailureEvidence(o)}
      BY FindingIs
    <2> HIDE DEF f
    <2> QED
      BY <1>1, <1>4, <1>5, <2>3, <2>4, <2>5, FoundIsTold
  <1>7. ASSUME <<"stale", s>> \in lasting
        PROVE  Told(<<"stale", s>>)
    <2> DEFINE f == Finding("runtime.failures", <<"stale_session", s>>, "warning", {<<"stale", s>>})
    <2>1. s \in StaleSessions(ctx.runtime)
      BY <1>2, <1>3, <1>7 DEF SessionsKeep
    <2>2. f \in SessionFindings(ctx.runtime)
      BY <2>1, Zenon DEF SessionFindings
    <2>3. f.evidence = {<<"stale", s>>}
      BY FindingIs
    <2> HIDE DEF f
    <2> QED
      BY <1>1, <1>4, <1>5, <2>2, <2>3, FoundIsTold
  <1> QED
    BY <1>6, <1>7

LEMMA DockerIsTold ==
    ASSUME Ended, Looked("docker", "docker"), NEW e,
           \E f \in DockerFindings(ctx.docker) : e \in f.evidence
    PROVE  Told(e)
  <1>1. Has("docker") /\ ~request.dry /\ "docker" \in request.categories
    BY DoneHas, InspectorsAre DEF Labels, Ended
  <1>2. Category("docker.observations") = "docker" /\ Runnable("docker.observations", ctx)
    BY <1>1 DEF Category, Runnable, Prerequisites, Has
  <1>3. "docker.observations" \in Rules
        /\ RunRule("docker.observations", ctx) = DockerFindings(ctx.docker)
    BY DEF Rules, RunRule
  <1> QED
    BY <1>1, <1>2, <1>3, FoundIsTold

LEMMA PartIsTold ==
    ASSUME Ended, Looked("docker", "docker"), NEW part \in {"client", "daemon", "compose"},
           <<"without", part>> \in lasting, part # "client" => NeverFailed({"client"})
    PROVE  Told(<<"without", part>>)
  <1>1. Has("docker")
    BY DoneHas, InspectorsAre DEF Labels, Ended
  <1>2. DockerKeeps(seen, lasting, containers, ctx.docker)
    BY <1>1 DEF Ended, LastingInv
  <1> SUFFICES \E f \in DockerFindings(ctx.docker) : <<"without", part>> \in f.evidence
    BY DockerIsTold
  <1>3. CASE part = "client"
    <2> DEFINE f == Finding("docker.observations", <<"docker_cli_missing">>, "blocking",
                            {<<"without", "client">>})
    <2>1. ~ctx.docker.client
      BY <1>2, <1>3 DEF DockerKeeps
    <2>2. f \in DockerFindings(ctx.docker)
      BY <2>1 DEF DockerFindings
    <2>3. f.evidence = {<<"without", "client">>}
      BY FindingIs
    <2> HIDE DEF f
    <2> QED
      BY <1>3, <2>2, <2>3
  <1>4. CASE part = "daemon"
    <2> DEFINE f == Finding("docker.observations", <<"docker_daemon_unavailable">>, "blocking",
                            {<<"without", "daemon">>})
    <2>1. ctx.docker.client /\ ~ctx.docker.daemon
      BY <1>2, <1>4 DEF DockerKeeps, NeverFailed
    <2>2. f \in DockerFindings(ctx.docker)
      BY <2>1 DEF DockerFindings
    <2>3. f.evidence = {<<"without", "daemon">>}
      BY FindingIs
    <2> HIDE DEF f
    <2> QED
      BY <1>4, <2>2, <2>3
  <1>5. CASE part = "compose"
    <2> DEFINE f == Finding("docker.observations", <<"compose_unavailable">>, "error",
                            {<<"without", "compose">>})
    <2>1. ctx.docker.client /\ ~ctx.docker.compose
      BY <1>2, <1>5 DEF DockerKeeps, NeverFailed
    <2>2. f \in DockerFindings(ctx.docker)
      BY <2>1 DEF DockerFindings
    <2>3. f.evidence = {<<"without", "compose">>}
      BY FindingIs
    <2> HIDE DEF f
    <2> QED
      BY <1>5, <2>2, <2>3
  <1> QED
    BY <1>3, <1>4, <1>5

\* The containers were listed, with the services of the contract.
LEMMA ListIsKept ==
    ASSUME Ended, Looked("docker", "docker"), NeverFailed({"client", "daemon", "list"}),
           Has("contract"), NEW s \in ComposeServices(ctx.contract)
    PROVE  /\ ctx.docker.client /\ ctx.docker.daemon
           /\ ListKeeps(seen, lasting, containers, ctx.docker.containers)
           /\ s \in DOMAIN ctx.docker.services
           /\ ctx.docker.services[s] = ctx.contract.services[s].compose
  <1>1. Has("docker")
    BY DoneHas, InspectorsAre DEF Labels, Ended
  <1>2. DockerKeeps(seen, lasting, containers, ctx.docker) /\ ctx.docker.services = Services
    BY <1>1 DEF Ended, LastingInv
  <1> QED
    BY <1>2 DEF DockerKeeps, NeverFailed, Services

LEMMA ContainerIsTold ==
    ASSUME Ended, Looked("docker", "docker"), NeverFailed({"client", "daemon", "list"}),
           Has("contract"), NEW s \in ComposeServices(ctx.contract), NEW n \in DOMAIN containers,
           containers[n].service = ctx.contract.services[s].compose, containers[n].state # "up",
           <<"container", n, containers[n].state>> \in lasting
    PROVE  Told(<<"container", n, containers[n].state>>)
  <1> DEFINE state == containers[n].state
             list == ctx.docker.containers
             services == ctx.docker.services
             found(x, kind, in) ==
               {Finding("docker.observations", <<kind, x>>, "error", {<<"container", m, in>>}) :
                  m \in {m \in ContainersOf(services[x], list) : list[m].state = in}}
  <1>1. state \in {"unhealthy", "exited"}
    BY DEF Ended, MachineInv, IsContainer
  <1>2. /\ n \in DOMAIN list /\ list[n].state = state
        /\ list[n].service = containers[n].service
    BY ListIsKept DEF ListKeeps, NeverFailed
  <1>3. ctx.docker.client /\ ctx.docker.daemon /\ s \in DOMAIN services
        /\ services[s] = ctx.contract.services[s].compose
    BY ListIsKept
  <1>4. n \in {m \in ContainersOf(services[s], list) : list[m].state = state}
    BY <1>2, <1>3 DEF ContainersOf
  <1>5. PICK kind \in {"container_unhealthy", "container_failed"} :
          found(s, kind, state) \subseteq ContainerFindings(services, list)
    <2> DEFINE both(x) == found(x, "container_unhealthy", "unhealthy")
                          \cup found(x, "container_failed", "exited")
               missing == {Finding("docker.observations", <<"compose_service_missing", x>>, "warning",
                                   {<<"no container", services[x]>>}) :
                             x \in {y \in DOMAIN services : ContainersOf(services[y], list) = {}}}
    <2>1. ContainerFindings(services, list) = missing \cup UNION {both(x) : x \in DOMAIN services}
      BY Zenon DEF ContainerFindings
    <2> HIDE DEF missing
    <2>2. both(s) \subseteq ContainerFindings(services, list)
      <3> HIDE DEF both
      <3> QED
        BY <1>3, <2>1
    <2> HIDE DEF found
    <2> QED
      BY <1>1, <2>2
  <1> DEFINE f == Finding("docker.observations", <<kind, s>>, "error", {<<"container", n, state>>})
  <1>6. f \in found(s, kind, state)
    BY <1>4, Zenon
  <1>7. f.evidence = {<<"container", n, state>>}
    BY FindingIs
  <1>8. ContainerFindings(services, list) \subseteq DockerFindings(ctx.docker)
    BY <1>3 DEF DockerFindings
  <1> HIDE DEF f, found
  <1> QED
    BY <1>5, <1>6, <1>7, <1>8, DockerIsTold

LEMMA MissingIsFound ==
    ASSUME NEW services, NEW list, NEW s \in DOMAIN services, ContainersOf(services[s], list) = {}
    PROVE  \E f \in ContainerFindings(services, list) : <<"no container", services[s]>> \in f.evidence
  <1> DEFINE evidence == {<<"no container", services[s]>>}
             f == Finding("docker.observations", <<"compose_service_missing", s>>, "warning", evidence)
  <1>1. f \in ContainerFindings(services, list)
    BY Zenon DEF ContainerFindings
  <1>2. <<"no container", services[s]>> \in evidence
    OBVIOUS
  <1> HIDE DEF evidence
  <1>3. f.evidence = evidence
    BY FindingIs
  <1> HIDE DEF f
  <1> QED
    BY <1>1, <1>2, <1>3, Zenon

LEMMA MissingIsTold ==
    ASSUME Ended, Looked("docker", "docker"), NeverFailed({"client", "daemon", "list"}),
           Has("contract"), NEW s \in ComposeServices(ctx.contract), NEW v,
           v = ctx.contract.services[s].compose, \A n \in DOMAIN Includes : v \notin Includes[n],
           <<"no container", v>> \in lasting
    PROVE  Told(<<"no container", v>>)
  <1> DEFINE list == ctx.docker.containers
             services == ctx.docker.services
  <1>1. DOMAIN list \subseteq DOMAIN Includes /\ \A n \in DOMAIN list : list[n].service # v
    BY ListIsKept DEF ListKeeps, NeverFailed
  <1>2. ctx.docker.client /\ ctx.docker.daemon /\ s \in DOMAIN services /\ services[s] = v
    BY ListIsKept
  <1>3. ContainersOf(services[s], list) = {}
    BY <1>1, <1>2 DEF ContainersOf
  <1>4. \E f \in ContainerFindings(services, list) : <<"no container", v>> \in f.evidence
    BY <1>2, <1>3, MissingIsFound
  <1>5. ContainerFindings(services, list) \subseteq DockerFindings(ctx.docker)
    BY <1>2 DEF DockerFindings
  <1> QED
    BY <1>4, <1>5, DockerIsTold

LEMMA OutcomeIsTold ==
    ASSUME Ended, Looked("verification", "verification"), <<"unreadable", "history">> \notin seen,
           NEW i \in DOMAIN runs, i <= MaxRecent, NEW k, NEW status, status # "passed",
           <<"outcome", runs[i].name, k, status>> \in lasting
    PROVE  Told(<<"outcome", runs[i].name, k, status>>)
  <1> DEFINE r == runs[i].name
             o == [run |-> r, check |-> k, status |-> status]
             severity == IF o.status \in {"failed", "timed_out"} THEN "error" ELSE "warning"
             f == Finding("verification.observations", <<CheckKind(o.status), o.check>>, severity,
                          {OutcomeEvidence(o)})
  <1>1. Has("verification") /\ ~request.dry /\ "verification" \in request.categories
    BY DoneHas, InspectorsAre DEF Labels, Ended
  <1>2. HistoryKeeps(seen, lasting, runs, ctx.verification)
    BY <1>1 DEF Ended, LastingInv
  <1>3. /\ r \in DOMAIN ctx.verification /\ k \in DOMAIN ctx.verification[r]
        /\ ctx.verification[r][k] = status
    BY <1>2 DEF HistoryKeeps, Recent
  <1>4. o \in Outcomes(ctx.verification)
    BY <1>3 DEF Outcomes
  <1>5. OutcomeEvidence(o) = <<"outcome", r, k, status>>
    BY DEF OutcomeEvidence
  <1> HIDE DEF o
  <1>6. f \in OutcomeFindings(ctx.verification)
    BY <1>4, Zenon DEF OutcomeFindings
  <1>7. f.evidence = {OutcomeEvidence(o)}
    BY FindingIs
  <1> HIDE DEF f
  <1>8. f \in RunRule("verification.observations", ctx)
    BY <1>6 DEF RunRule
  <1>9. /\ Category("verification.observations") = "verification"
        /\ Runnable("verification.observations", ctx)
        /\ "verification.observations" \in Rules
    BY <1>1 DEF Category, Runnable, Prerequisites, Has, Rules
  <1> QED
    BY <1>1, <1>5, <1>7, <1>8, <1>9, FoundIsTold

LEMMA MissingConcerns ==
    ASSUME NEW v, Concerns(<<"no container", v>>)
    PROVE  /\ Looked("docker", "docker") /\ NeverFailed({"client", "daemon", "list"})
           /\ Has("contract")
           /\ \E s \in ComposeServices(ctx.contract) : v = ctx.contract.services[s].compose
           /\ \A n \in DOMAIN Includes : v \notin Includes[n]
  BY SMT DEF Concerns

LEMMA OthersDoNot ==
    ASSUME NEW x
    PROVE  /\ ~Concerns(<<"unknown component", x>>) /\ ~Concerns(<<"no command", x>>)
           /\ ~Concerns(<<"pattern", x>>)
  BY SMT DEF Concerns

LEMMA LastingIsTold ==
    ASSUME Ended, NEW e \in lasting, Concerns(e)
    PROVE  Told(e)
  <1>1. FactIs(e)
    BY FactsAre DEF Ended, EvidenceInv
  <1>2. CASE e = <<"contract", file.state>>
    <2>1. file.state # "valid"
      BY <1>2, SMT DEF Concerns
    <2> QED
      BY <1>2, <2>1, ContractIsTold
  <1>3. CASE \E owner, port : e = <<"declared", owner, port>>
    BY <1>3, SMT DEF Concerns
  <1>4. CASE \E m : e = <<"unknown component", m>>
    BY <1>4, OthersDoNot, Zenon
  <1>5. CASE \E p : e = <<"uncovered", p>>
    <2>1. PICK p : e = <<"uncovered", p>>
      BY <1>5
    <2>2. /\ Looked("contract", "inventory") /\ Has("contract")
          /\ \E r \in ctx.contract.patterns : r.pattern = p
      BY <2>1, SMT DEF Concerns
    <2> QED
      BY <2>1, <2>2, UncoveredIsTold
  <1>6. CASE \E f : e = <<"file", f>>
    BY <1>6, SMT DEF Concerns
  <1>7. CASE \E n : e = <<"variable", n>>
    <2>1. PICK n : e = <<"variable", n>>
      BY <1>7
    <2>2. /\ Looked("environment", "localEnvironment") /\ Has("contract")
          /\ n \in RequiredVariables(ctx.contract)
      BY <2>1, SMT DEF Concerns
    <2> QED
      BY <2>1, <2>2, VariableIsTold
  <1>8. CASE \E t : e = <<"no command", t>>
    BY <1>8, OthersDoNot, Zenon
  <1>9. CASE \E t : e = <<"tool", t>>
    <2>1. PICK t : e = <<"tool", t>>
      BY <1>9
    <2>2. /\ Looked("environment", "localEnvironment") /\ Has("contract")
          /\ t \in RequiredTools(ctx.contract)
      BY <2>1, SMT DEF Concerns
    <2> QED
      BY <2>1, <2>2, ToolIsTold
  <1>10. CASE \E s, f : e = <<"failure", s, f>>
    <2>1. PICK s, f : e = <<"failure", s, f>>
      BY <1>10
    <2>2. /\ Looked("runtime", "runtime") /\ <<"unreadable", "runtime">> \notin seen
          /\ s \in DOMAIN sessions /\ Newest(s)
      BY <2>1, SMT DEF Concerns
    <2> QED
      BY <2>1, <2>2, SessionIsTold
  <1>11. CASE \E s : e = <<"stale", s>>
    <2>1. PICK s : e = <<"stale", s>>
      BY <1>11
    <2>2. /\ Looked("runtime", "runtime") /\ <<"unreadable", "runtime">> \notin seen
          /\ s \in DOMAIN sessions /\ Newest(s)
      BY <2>1, SMT DEF Concerns
    <2> QED
      BY <2>1, <2>2, SessionIsTold
  <1>12. CASE \E p : e = <<"claimed", p>>
    BY <1>12, SMT DEF Concerns
  <1>13. CASE \E part \in {"client", "daemon", "compose", "list"} : e = <<"without", part>>
    <2>1. PICK part \in {"client", "daemon", "compose", "list"} : e = <<"without", part>>
      BY <1>13
    <2>2. /\ part # "list" /\ Looked("docker", "docker")
          /\ part # "client" => NeverFailed({"client"})
      BY <2>1, SMT DEF Concerns
    <2> QED
      BY <2>1, <2>2, PartIsTold
  <1>14. CASE \E n \in DOMAIN containers : e = <<"container", n, containers[n].state>>
    <2>1. PICK n \in DOMAIN containers : e = <<"container", n, containers[n].state>>
      BY <1>14
    <2>2. /\ Looked("docker", "docker") /\ NeverFailed({"client", "daemon", "list"})
          /\ containers[n].state # "up" /\ Has("contract")
          /\ \E s \in ComposeServices(ctx.contract) :
               containers[n].service = ctx.contract.services[s].compose
      BY <2>1, SMT DEF Concerns
    <2> QED
      BY <2>1, <2>2, ContainerIsTold
  <1>15. CASE \E v : e = <<"no container", v>>
    <2>1. PICK v : e = <<"no container", v>>
      BY <1>15
    <2>2. Concerns(<<"no container", v>>)
      BY <2>1, Zenon
    <2> QED
      BY <2>1, <2>2, MissingConcerns, MissingIsTold, Zenon
  <1>16. CASE \E r, k, status : e = <<"outcome", r, k, status>>
    <2>1. PICK r, k, status : e = <<"outcome", r, k, status>>
      BY <1>16
    <2>2. /\ Looked("verification", "verification") /\ <<"unreadable", "history">> \notin seen
          /\ status # "passed"
          /\ \E i \in 1..MaxRecent : i \in DOMAIN runs /\ runs[i].name = r
      BY <2>1, SMT DEF Concerns
    <2>3. PICK i \in DOMAIN runs : i <= MaxRecent /\ runs[i].name = r
      BY <2>2, RecentAssumption
    <2> QED
      BY <2>1, <2>2, <2>3, OutcomeIsTold
  <1>17. CASE \E u : e = <<"unreadable", u>>
    BY <1>17, SMT DEF Concerns
  <1>18. CASE \E p : e = <<"pattern", p>>
    BY <1>18, OthersDoNot, Zenon
  <1> QED
    BY <1>1, <1>2, <1>3, <1>4, <1>5, <1>6, <1>7, <1>8, <1>9, <1>10, <1>11, <1>12, <1>13, <1>14, <1>15,
       <1>16, <1>17, <1>18 DEF FactIs

\* Trouble that lasts, and that the doctor was to look at, is in the report, whatever else has
\* changed while the inspectors were at work, each with an answer of its own age
\* (diagnostic-engine.ts:66-137).
THEOREM LastingAlwaysReported == Spec => []LastingTroubleIsReported
  <1>1. MachineInv /\ EvidenceInv /\ ReportInv /\ InspectedInv /\ LastingInv => LastingTroubleIsReported
    BY LastingIsTold DEF LastingTroubleIsReported, Ended, Told, EvidenceInv
  <1> QED
    BY <1>1, ReportHolds, InspectedBegins, InspectedStep, LastingBegins, LastingStep, PTL DEF Spec

=============================================================================
