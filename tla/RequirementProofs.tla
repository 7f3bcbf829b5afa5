-------------------------- MODULE RequirementProofs --------------------------
(***************************************************************************)
(* Proofs about RequirementCommands for any number of processes, any       *)
(* requests, texts, repositories and databases, and any migration script.  *)
(***************************************************************************)
EXTENDS RequirementCommands, SequenceTheorems, WellFoundedInduction, TLAPS

-----------------------------------------------------------------------------
(* The analysis and the mapping.                                           *)

\* The first n of a list are numbered from 1 to at most n.
LEMMA TakeIsPrefix ==
  ASSUME NEW S, NEW list \in Seq(S), NEW n \in Nat
  PROVE  /\ DOMAIN Take(list, n) \subseteq Nat
         /\ Take(list, n) = <<>> \/ DOMAIN Take(list, n) # {}
<1>1. Smaller(Len(list), n) \in Nat
  BY DEF Smaller
<1> QED
  BY <1>1 DEF Take, Smaller

\* With at least four actions an analysis has Evidence, and what it decides.
LEMMA AnalysisHasEvidence ==
  ASSUME NEW document \in Documents
  PROVE  /\ Analysis(document).evidence \subseteq Nat
         /\ Analysis(document).evidence # {}
         /\ Analysis(document).decision \in Decisions
<1> DEFINE scanned == Take(document.criteria, Affordable(MaxActions))
<1>1. document.criteria \in Seq(CriterionType)
  BY DocumentsTyped DEF DocumentType
<1>2. Affordable(MaxActions) \in Nat \ {0}
  BY BudgetTyped DEF Affordable
<1>3. DOMAIN scanned \subseteq Nat /\ (scanned = <<>> \/ DOMAIN scanned # {})
  BY <1>1, <1>2, TakeIsPrefix
<1>4. Len(document.criteria) > Affordable(MaxActions) => DOMAIN scanned # {}
  BY <1>1, <1>2 DEF Take, Smaller
<1>5. MaxActions >= 4 /\ ~ (MaxActions < 4)
  BY BudgetTyped
<1>6. \A findings : DecisionOf(findings) \in Decisions
  BY DEF DecisionOf, Decisions
<1> HIDE DEF scanned
<1> QED
  BY <1>3, <1>4, <1>5, <1>6 DEF Analysis, Analyze, Result, Decisions, scanned

\* A link names the Evidence it was mapped with, and without Evidence there is none.
LEMMA LinksNameEvidence ==
  ASSUME NEW words, NEW ids, NEW isDir, NEW files, NEW n
  PROVE  /\ \A l \in MapRequirement(words, ids, isDir, files, n) : l.evidence = ids
         /\ ids = {} => MapRequirement(words, ids, isDir, files, n) = {}
BY DEF MapRequirement

-----------------------------------------------------------------------------
(* Types.                                                                  *)

\* What a process works on once it has fetched or read it.
WorkTyped ==
  \A c \in Clients :
    /\ pc[c] \in {"save", "map", "review", "engineer"} => requirement[c] \in Documents
    /\ request[c].command = "analyze-requirement" /\ pc[c] \in {"connect", "migrate"} =>
         requirement[c] \in Documents

\* The first state has the types.
LEMMA TypeInit == ASSUME Init PROVE TypeOK /\ WorkTyped
<1>1. version \in Nat /\ \A id \in DOMAIN requirements : requirements[id] \in RowType
  BY DatabasesTyped DEF Init
<1> QED
  BY <1>1 DEF Init, TypeOK, WorkTyped, Labels, Decisions

\* Every command, migration and crash keeps them.
LEMMA TypeStep == ASSUME TypeOK, WorkTyped, [Next]_vars PROVE TypeOK' /\ WorkTyped'
<1> USE DEF TypeOK, WorkTyped, Goto
<1>1. CASE UNCHANGED vars
  BY <1>1 DEF vars, schema, rowsOfStore, command
<1> SUFFICES ASSUME NEW c \in Clients, Step(c) \/ Stop(c)
             PROVE  TypeOK' /\ WorkTyped'
  BY <1>1 DEF Next
<1>0. request[c] \in Requests
  OBVIOUS
<1>a. request[c].document \in Documents
  BY <1>0, RequestsTyped
<1>2. CASE Fetch(c)
  BY <1>a, <1>2, AnalysisHasEvidence DEF Fetch, WorkOn, schema, rowsOfStore, Labels
<1>3. CASE Connect(c)
  BY <1>3 DEF Connect, schema, rowsOfStore, Labels
<1>4. CASE Create(c)
  <2>0. statement' = [statement EXCEPT ![c] = statement[c] + 1]
    BY <1>4 DEF Create
  <2>1. statement' \in [Clients -> Nat \ {0}]
    BY <2>0
  <2>2. UNCHANGED <<version, requirements, request, pc, requirement, evidence, decision>>
    BY <1>4 DEF Create, rowsOfStore
  <2> QED
    BY <2>1, <2>2
<1>5. CASE Stamp(c)
  BY <1>5 DEF Stamp, rowsOfStore, SchemaVersion, FirstUse, Labels
<1>6. CASE Save(c)
  <2>1. [document |-> requirement[c], evidence |-> evidence[c]] \in RowType
    BY <1>6 DEF Save, RowType, Labels
  <2>2. Analysis(requirement[c]).decision \in Decisions
    BY <1>6, AnalysisHasEvidence DEF Save, Labels
  <2> QED
    BY <1>6, <2>1, <2>2 DEF Save, Answer, schema, Labels
<1>7. CASE ReadRequirement(c)
  BY <1>7 DEF ReadRequirement, Answer, Stored, RowType, schema, rowsOfStore, Decisions, Labels
<1>8. CASE ReadEvidence(c)
  BY <1>8 DEF ReadEvidence, Answer, Stored, RowType, Work, schema, rowsOfStore, Decisions, Labels
<1>9. CASE Map(c)
  BY <1>9 DEF Map, Answer, schema, Decisions, Labels
<1>10. CASE Review(c)
  BY <1>10 DEF Review, Answer, schema, rowsOfStore, Decisions, Labels
<1>11. CASE Engineer(c)
  BY <1>11 DEF Engineer, Answer, schema, rowsOfStore, Decisions, Labels
<1>12. CASE Stop(c)
  BY <1>12 DEF Stop, schema, rowsOfStore, Labels
<1> QED
  BY <1>2, <1>3, <1>4, <1>5, <1>6, <1>7, <1>8, <1>9, <1>10, <1>11, <1>12 DEF Step, Labels

\* Every variable keeps its type, and every row of requirements is complete.
THEOREM CommandsTyped == Spec => [](TypeOK /\ WorkTyped)
<1>1. TypeOK /\ WorkTyped /\ [Next]_vars => (TypeOK /\ WorkTyped)'
  BY TypeStep
<1> QED
  BY TypeInit, <1>1, PTL DEF Spec

-----------------------------------------------------------------------------
(* The schema.                                                             *)

\* Behind the migration: analyze-requirement fetches in front of it, review-pr
\* behind it.
Using(c) ==
  Opened(c) \/ (pc[c] = "fetch" /\ request[c].command # "analyze-requirement")

\* The inductive core: what is behind a process in the script has been created,
\* and nobody migrates a newer database.
Behind(c) == \A i \in DOMAIN Script : i < statement[c] => Script[i] \in tables

SchemaInv ==
  /\ version = SchemaVersion => Created \subseteq tables
  /\ \A c \in Clients : Using(c) => version = SchemaVersion
  /\ \A c \in Clients : pc[c] = "migrate" => version <= SchemaVersion
  /\ \A c \in Clients : Behind(c)

\* A database to begin with has the schema its version claims.
LEMMA SchemaInit == ASSUME Init PROVE SchemaInv
<1>1. \A i \in DOMAIN Script : ~ (i < 1)
  BY ScriptTyped
<1>2. \A c \in Clients : Behind(c)
  BY <1>1 DEF Init, Behind
<1>3. version = SchemaVersion => Created \subseteq tables
  BY DatabasesTyped DEF Init
<1>4. \A c \in Clients : ~ Using(c) /\ pc[c] # "migrate"
  BY DEF Init, Using, Opened
<1> QED
  BY <1>2, <1>3, <1>4 DEF SchemaInv

\* The steps that are not of the migration.
Quiet(c) ==
  \/ Fetch(c) \/ Connect(c) \/ Save(c) \/ ReadRequirement(c) \/ ReadEvidence(c)
  \/ Map(c) \/ Review(c) \/ Engineer(c) \/ Stop(c)

\* They leave the schema alone, nobody comes to use it by them, and a process
\* begins to migrate only a database that is not newer.
LEMMA QuietStep ==
  ASSUME TypeOK, NEW c \in Clients, Quiet(c)
  PROVE  /\ UNCHANGED <<tables, version, statement>>
         /\ \A d \in Clients : Using(d)' => Using(d)
         /\ \A d \in Clients : pc'[d] = "migrate" =>
              pc[d] = "migrate" \/ ~ (version > SchemaVersion)
<1> USE DEF TypeOK, Using, Opened, Goto
<1>1. UNCHANGED <<tables, version, statement, request>>
  BY DEF Quiet, Fetch, Connect, Save, ReadRequirement, ReadEvidence, Map, Review, Engineer, Stop,
         schema
<1>2. CASE Fetch(c)
  BY <1>1, <1>2 DEF Fetch
<1>3. CASE Connect(c)
  BY <1>1, <1>3 DEF Connect
<1>4. CASE Save(c)
  BY <1>1, <1>4 DEF Save, Answer
<1>5. CASE ReadRequirement(c)
  BY <1>1, <1>5 DEF ReadRequirement, Answer
<1>6. CASE ReadEvidence(c)
  BY <1>1, <1>6 DEF ReadEvidence, Answer, Work
<1>7. CASE Map(c)
  BY <1>1, <1>7 DEF Map, Answer
<1>8. CASE Review(c)
  BY <1>1, <1>8 DEF Review, Answer
<1>9. CASE Engineer(c)
  BY <1>1, <1>9 DEF Engineer, Answer
<1>10. CASE Stop(c)
  BY <1>1, <1>10 DEF Stop
<1> QED
  BY <1>2, <1>3, <1>4, <1>5, <1>6, <1>7, <1>8, <1>9, <1>10 DEF Quiet

\* Rows change only where the store is in use, and no requirement goes away.
LEMMA RowsStep ==
  ASSUME [Next]_vars
  PROVE  /\ UNCHANGED rowsOfStore \/ \E c \in Clients : Opened(c)
         /\ DOMAIN requirements \subseteq DOMAIN requirements'
         /\ \A id : Stored(id) => Stored(id)'
<1>1. UNCHANGED rowsOfStore \/ \E c \in Clients : Save(c) \/ Map(c)
  BY DEF Next, Step, Stop, vars, Fetch, Connect, Create, Stamp, ReadRequirement, ReadEvidence,
         Review, Engineer
<1>2. ASSUME NEW c \in Clients, Save(c) \/ Map(c)
      PROVE  Opened(c) /\ DOMAIN requirements \subseteq DOMAIN requirements'
  BY <1>2 DEF Save, Map, Opened
<1>3. DOMAIN requirements \subseteq DOMAIN requirements'
  BY <1>1, <1>2 DEF rowsOfStore
<1> QED
  BY <1>1, <1>2, <1>3 DEF Stored

\* Migrations go up, one script after the other, and touch nothing newer.
LEMMA SchemaStep ==
  ASSUME TypeOK, SchemaInv, [Next]_vars
  PROVE  /\ SchemaInv'
         /\ tables \subseteq tables' /\ version <= version'
         /\ version > SchemaVersion => UNCHANGED schema
<1> DEFINE Goal == /\ SchemaInv'
                   /\ tables \subseteq tables' /\ version <= version'
                   /\ version > SchemaVersion => UNCHANGED schema
<1>t. version \in Nat /\ SchemaVersion \in Nat /\ version <= version
  BY DEF TypeOK, SchemaVersion
<1>s. SchemaVersion' = SchemaVersion /\ Created' = Created
  BY DEF SchemaVersion, Created
<1>1. ASSUME UNCHANGED <<tables, version, statement>>,
             \A d \in Clients : Using(d)' => Using(d),
             \A d \in Clients : pc'[d] = "migrate" =>
               pc[d] = "migrate" \/ ~ (version > SchemaVersion)
      PROVE  Goal
  <2>1. \A d \in Clients : Behind(d)'
    BY <1>1 DEF SchemaInv, Behind
  <2>2. \A d \in Clients : pc'[d] = "migrate" => version <= SchemaVersion
    <3>1. ~ (version > SchemaVersion) => version <= SchemaVersion
      BY <1>t
    <3> QED
      BY <1>1, <3>1 DEF SchemaInv
  <2> QED
    BY <1>1, <1>s, <1>t, <2>1, <2>2 DEF SchemaInv, schema
<1>2. CASE UNCHANGED vars
  <2>1. UNCHANGED <<tables, version, statement, pc, request>>
    BY <1>2 DEF vars, command, schema
  <2>2. \A d \in Clients : Using(d)' => Using(d)
    BY <2>1 DEF Using, Opened
  <2> QED
    BY <1>1, <2>1, <2>2
<1>3. ASSUME NEW c \in Clients, Quiet(c)
      PROVE  Goal
  BY <1>1, <1>3, QuietStep
<1>4. ASSUME NEW c \in Clients, Create(c)
      PROVE  Goal
  <2>1. /\ UNCHANGED <<version, pc, request>> /\ pc[c] = "migrate"
        /\ tables' = tables \union {Script[statement[c]]} /\ statement[c] \in DOMAIN Script
    BY <1>4 DEF Create
  <2>2. version <= SchemaVersion /\ ~ (version > SchemaVersion)
    <3>1. version <= SchemaVersion
      BY <2>1 DEF SchemaInv
    <3> QED
      BY <1>t, <3>1
  <2>3. statement' = [statement EXCEPT ![c] = statement[c] + 1]
    BY <1>4 DEF Create
  <2>4. ASSUME NEW d \in Clients, NEW i \in DOMAIN Script, i < statement'[d]
        PROVE  Script[i] \in tables'
    <3>1. statement \in [Clients -> Nat] /\ i \in Nat
      BY ScriptTyped DEF TypeOK
    <3>2. i < statement[d] \/ (d = c /\ i = statement[c])
      BY <2>3, <2>4, <3>1
    <3> QED
      BY <2>1, <3>2 DEF SchemaInv, Behind
  <2>5. \A d \in Clients : Using(d)' => Using(d)
    BY <2>1 DEF Using, Opened
  <2> QED
    BY <1>s, <1>t, <2>1, <2>2, <2>4, <2>5 DEF SchemaInv, Behind
<1>5. ASSUME NEW c \in Clients, Stamp(c)
      PROVE  Goal
  <2>1. /\ UNCHANGED <<tables, statement, request>> /\ version' = SchemaVersion
        /\ pc[c] = "migrate" /\ statement[c] \notin DOMAIN Script
    BY <1>5 DEF Stamp
  <2>2. Created \subseteq tables
    <3>1. \A i \in DOMAIN Script : i < statement[c]
      <4>1. statement[c] \in Nat \ {0}
        BY DEF TypeOK
      <4>2. Script \in Seq(Created)
        BY ScriptTyped
      <4> QED
        BY <2>1, <4>1, <4>2
    <3> QED
      BY <3>1 DEF SchemaInv, Behind, Created
  <2>3. version <= SchemaVersion /\ ~ (version > SchemaVersion) /\ SchemaVersion <= SchemaVersion
    <3>1. version <= SchemaVersion
      BY <2>1 DEF SchemaInv
    <3> QED
      BY <1>t, <3>1
  <2>4. \A d \in Clients : Behind(d)'
    BY <2>1 DEF SchemaInv, Behind
  <2> QED
    BY <1>s, <2>1, <2>2, <2>3, <2>4 DEF SchemaInv
<1>6. [Next]_vars =>
        \/ UNCHANGED vars
        \/ \E c \in Clients : Quiet(c) \/ Create(c) \/ Stamp(c)
  BY DEF Next, Step, Quiet
<1> QED
  BY <1>2, <1>3, <1>4, <1>5, <1>6

\* SchemaInv is inductive.
THEOREM SchemaHolds == Spec => [](TypeOK /\ SchemaInv)
<1>1. SchemaInv /\ TypeOK /\ [Next]_vars => SchemaInv'
  BY SchemaStep
<1> QED
  BY SchemaInit, CommandsTyped, <1>1, PTL DEF Spec

\* Wherever processes stop, a stamped database is complete and no command uses
\* one that is not.
THEOREM StampMeansComplete == Spec => []SchemaStamped
<1>1. SchemaInv => SchemaStamped
  BY DEF SchemaInv, SchemaStamped, Using
<1> QED
  BY SchemaHolds, <1>1, PTL

\* Migrations add and nothing else.
THEOREM MigrationsAdd == Spec => MigrationIsAdditive
<1>1. TypeOK /\ SchemaInv /\ [Next]_vars =>
        [/\ tables \subseteq tables' /\ version <= version'
         /\ DOMAIN requirements \subseteq DOMAIN requirements'
         /\ version > SchemaVersion => UNCHANGED schema
         /\ version # SchemaVersion => UNCHANGED rowsOfStore]_vars
  <2> SUFFICES ASSUME TypeOK, SchemaInv, [Next]_vars
               PROVE  /\ tables \subseteq tables' /\ version <= version'
                      /\ DOMAIN requirements \subseteq DOMAIN requirements'
                      /\ version > SchemaVersion => UNCHANGED schema
                      /\ version # SchemaVersion => UNCHANGED rowsOfStore
    OBVIOUS
  <2>1. version # SchemaVersion => UNCHANGED rowsOfStore
    BY RowsStep DEF SchemaInv, Using
  <2> QED
    BY <2>1, RowsStep, SchemaStep
<1> QED
  BY SchemaHolds, <1>1, PTL DEF Spec, MigrationIsAdditive

-----------------------------------------------------------------------------
(* Links and decisions.                                                    *)

\* Links of a requirement are rewritten as a whole, the others stay.
LEMMA ReplacedLinks ==
  ASSUME NEW c, NEW links, NEW id, ReplaceLinks(c, links)
  PROVE  LinksOf(trace_links', id) =
           IF id = request[c].id THEN LinkRows(id, links) ELSE LinksOf(trace_links, id)
BY DEF ReplaceLinks, LinksOf, LinkRows

\* What one mapping finds is what one mapping may leave.
LEMMA MappedLinks ==
  ASSUME NEW id, NEW document \in Documents, NEW r \in Repositories, NEW ids,
         NEW links, links = MapRequirement(document.words, ids, r.isDir, r.files, MaxFiles),
         LinkRows(id, links) # {}
  PROVE  OneMapping(id, LinkRows(id, links))
<1>1. PICK l \in LinkRows(id, links) : TRUE
  OBVIOUS
<1>2. l.evidence = ids
  BY LinksNameEvidence DEF LinkRows
<1>3. document.words \in {d.words : d \in Documents}
  OBVIOUS
<1> QED
  BY <1>1, <1>2, <1>3 DEF OneMapping

\* What a process has in hand: Evidence behind an analysis, a stored requirement
\* behind its reads.
WorkInv ==
  \A c \in Clients :
    /\ request[c].command = "analyze-requirement" /\ pc[c] \in {"connect", "migrate"} =>
         evidence[c] # {}
    /\ pc[c] = "save" => evidence[c] # {}
    /\ pc[c] \in {"map", "review", "engineer"} => Stored(request[c].id)
    /\ pc[c] = "read evidence" /\ requirement[c] # NoDocument => Stored(request[c].id)
    /\ pc[c] # "done" => decision[c] = "none"

CommandInv == TypeOK /\ WorkTyped /\ WorkInv /\ DecisionRestsOnEvidence /\ LinksAreOfOneMapping

\* No command has done anything at first.
LEMMA WorkInit == ASSUME Init PROVE WorkInv /\ DecisionRestsOnEvidence /\ LinksAreOfOneMapping
BY DatabasesTyped DEF Init, WorkInv, DecisionRestsOnEvidence, LinksAreOfOneMapping, Stored

\* Only Map writes links, and no requirement goes away.
LEMMA LinksStep ==
  ASSUME CommandInv, [Next]_vars
  PROVE  LinksAreOfOneMapping' /\ \A id : Stored(id) => Stored(id)'
<1> USE DEF CommandInv
<1>1. CASE UNCHANGED rowsOfStore
  BY <1>1 DEF rowsOfStore, LinksAreOfOneMapping, Stored
<1>2. ASSUME NEW c \in Clients, Save(c)
      PROVE  LinksAreOfOneMapping' /\ \A id : Stored(id) => Stored(id)'
  BY <1>2 DEF Save, LinksAreOfOneMapping, Stored
<1>3. ASSUME NEW c \in Clients, Map(c)
      PROVE  LinksAreOfOneMapping' /\ \A id : Stored(id) => Stored(id)'
  <2>1. UNCHANGED requirements /\ Stored(request[c].id) /\ requirement[c] \in Documents
    BY <1>3 DEF Map, WorkInv, WorkTyped
  <2>2. PICK r \in Repositories :
          ReplaceLinks(c, MapRequirement(requirement[c].words, evidence[c],
                                         r.isDir, r.files, MaxFiles))
    BY <1>3 DEF Map
  <2> DEFINE links == MapRequirement(requirement[c].words, evidence[c],
                                     r.isDir, r.files, MaxFiles)
  <2>3. ASSUME NEW id \in Ids, LinksOf(trace_links', id) # {}
        PROVE  Stored(id) /\ OneMapping(id, LinksOf(trace_links', id))
    <3>1. CASE id = request[c].id
      BY <2>1, <2>2, <2>3, <3>1, ReplacedLinks, MappedLinks
    <3>2. CASE id # request[c].id
      BY <2>2, <2>3, <3>2, ReplacedLinks DEF LinksAreOfOneMapping
    <3> QED
      BY <3>1, <3>2
  <2> QED
    BY <2>1, <2>3 DEF LinksAreOfOneMapping, Stored
<1>4. UNCHANGED rowsOfStore \/ \E c \in Clients : Save(c) \/ Map(c)
  BY DEF Next, Step, Stop, vars, Fetch, Connect, Create, Stamp, ReadRequirement, ReadEvidence,
         Review, Engineer
<1> QED
  BY <1>1, <1>2, <1>3, <1>4

\* Every step keeps what a command holds and what its decision rests on.
LEMMA WorkStep ==
  ASSUME CommandInv, [Next]_vars
  PROVE  WorkInv' /\ DecisionRestsOnEvidence'
<1>s. \A id : Stored(id) => Stored(id)'
  BY LinksStep
<1> USE DEF CommandInv, TypeOK, WorkTyped, WorkInv, DecisionRestsOnEvidence, Labels, Goto, ExitOf
<1>1. CASE UNCHANGED vars
  BY <1>1 DEF vars, rowsOfStore, command, Stored
<1> SUFFICES ASSUME NEW c \in Clients, Step(c) \/ Stop(c)
             PROVE  WorkInv' /\ DecisionRestsOnEvidence'
  BY <1>1 DEF Next
<1>0. request[c] \in Requests
  OBVIOUS
<1>a. request[c].document \in Documents
  BY <1>0, RequestsTyped
<1>2. CASE Fetch(c)
  BY <1>s, <1>a, <1>2, AnalysisHasEvidence DEF Fetch, WorkOn
<1>3. CASE Connect(c)
  BY <1>s, <1>3 DEF Connect
<1>4. CASE Create(c)
  BY <1>s, <1>4 DEF Create
<1>5. CASE Stamp(c)
  BY <1>s, <1>5 DEF Stamp, FirstUse
<1>6. CASE Save(c)
  <2>1. Stored(request[c].id)'
    BY <1>6 DEF Save, Stored
  <2>2. requirement[c] # NoDocument
    BY <1>6, DocumentsTyped DEF Save
  <2> QED
    BY <1>s, <1>6, <2>1, <2>2 DEF Save, Answer
<1>7. CASE ReadRequirement(c)
  <2>1. UNCHANGED <<request, evidence>> /\ pc[c] = "read" /\ decision[c] = "none"
    BY <1>7 DEF ReadRequirement
  <2>2. requirement' = [requirement EXCEPT ![c] = requirement'[c]]
    BY <1>7 DEF ReadRequirement
  <2>3. requirement'[c] # NoDocument => Stored(request[c].id)
    BY <1>7 DEF ReadRequirement
  <2>4. CASE pc' = [pc EXCEPT ![c] = "done"] /\ decision' = [decision EXCEPT ![c] = "incomplete"]
    <3>1. WorkInv'
      BY <1>s, <2>1, <2>2, <2>4
    <3>2. DecisionRestsOnEvidence'
      BY <1>s, <2>1, <2>2, <2>4
    <3> QED
      BY <3>1, <3>2
  <2>5. CASE pc' = [pc EXCEPT ![c] = "read evidence"] /\ UNCHANGED decision
    <3>1. WorkInv'
      BY <1>s, <2>1, <2>2, <2>3, <2>5
    <3>2. DecisionRestsOnEvidence'
      BY <1>s, <2>1, <2>2, <2>5
    <3> QED
      BY <3>1, <3>2
  <2> QED
    BY <1>7, <2>4, <2>5 DEF ReadRequirement, Answer
<1>8. CASE ReadEvidence(c)
  <2>1. UNCHANGED <<request, requirement>> /\ pc[c] = "read evidence" /\ decision[c] = "none"
    BY <1>8 DEF ReadEvidence
  <2>2. evidence' = [evidence EXCEPT ![c] = evidence'[c]]
    BY <1>8 DEF ReadEvidence
  <2>3. CASE pc' = [pc EXCEPT ![c] = "done"] /\ decision' = [decision EXCEPT ![c] = "incomplete"]
    <3>1. WorkInv'
      BY <1>s, <2>1, <2>2, <2>3
    <3>2. DecisionRestsOnEvidence'
      BY <1>s, <2>1, <2>2, <2>3
    <3> QED
      BY <3>1, <3>2
  <2>4. ASSUME NEW label \in {"map", "engineer", "review"}, requirement[c] # NoDocument,
               pc' = [pc EXCEPT ![c] = label], UNCHANGED decision
        PROVE  WorkInv' /\ DecisionRestsOnEvidence'
    <3>1. Stored(request[c].id)
      BY <2>1, <2>4
    <3>2. WorkInv'
      BY <1>s, <2>1, <2>2, <2>4, <3>1
    <3>3. DecisionRestsOnEvidence'
      BY <1>s, <2>1, <2>2, <2>4
    <3> QED
      BY <3>2, <3>3
  <2>5. Work(request[c]) \in {"map", "engineer", "review"}
    BY DEF Work
  <2> QED
    BY <1>8, <2>3, <2>4, <2>5 DEF ReadEvidence, Answer
<1>9. CASE Map(c)
  <2>1. requirement[c] # NoDocument
    BY <1>9, DocumentsTyped DEF Map
  <2>2. evidence[c] = {} => decision'[c] = "incomplete"
    BY <1>9, LinksNameEvidence DEF Map, Answer
  <2>3. /\ decision' = [decision EXCEPT ![c] = decision'[c]] /\ pc' = [pc EXCEPT ![c] = "done"]
        /\ UNCHANGED <<request, requirement, evidence>> /\ pc[c] = "map"
    BY <1>9 DEF Map, Answer
  <2>4. Stored(request[c].id)
    BY <2>3
  <2>5. WorkInv'
    BY <1>s, <2>3
  <2>6. DecisionRestsOnEvidence'
    BY <1>s, <2>1, <2>2, <2>3, <2>4
  <2> QED
    BY <2>5, <2>6
<1>10. CASE Review(c)
  <2>1. requirement[c] # NoDocument
    BY <1>10, DocumentsTyped DEF Review
  <2> QED
    BY <1>s, <1>10, <2>1 DEF Review, Answer
<1>11. CASE Engineer(c)
  <2>1. requirement[c] # NoDocument
    BY <1>11, DocumentsTyped DEF Engineer
  <2> QED
    BY <1>s, <1>11, <2>1 DEF Engineer, Answer
<1>12. CASE Stop(c)
  <2>1. pc[c] # "done" /\ pc' = [pc EXCEPT ![c] = "raised"]
    BY <1>12 DEF Stop, Running
  <2>2. UNCHANGED <<request, requirement, evidence, decision>>
    BY <1>12 DEF Stop
  <2> QED
    BY <1>s, <2>1, <2>2
<1> QED
  BY <1>2, <1>3, <1>4, <1>5, <1>6, <1>7, <1>8, <1>9, <1>10, <1>11, <1>12 DEF Step

\* All of it holds in every reachable state.
LEMMA CommandsHold == Spec => []CommandInv
<1>1. Init => CommandInv
  BY TypeInit, WorkInit DEF CommandInv
<1>2. CommandInv /\ [Next]_vars => CommandInv'
  <2> SUFFICES ASSUME CommandInv, [Next]_vars PROVE CommandInv'
    OBVIOUS
  <2>1. (TypeOK /\ WorkTyped)'
    BY TypeStep DEF CommandInv
  <2> QED
    BY <2>1, LinksStep, WorkStep DEF CommandInv
<1> QED
  BY <1>1, <1>2, PTL DEF Spec

\* However mappings and analyses interleave, the links of a requirement are
\* those of one mapping.
THEOREM LinksAreWhole == Spec => []LinksAreOfOneMapping
<1>1. CommandInv => LinksAreOfOneMapping
  BY DEF CommandInv
<1> QED
  BY CommandsHold, <1>1, PTL

\* No command decides without a stored requirement that has Evidence.
THEOREM DecisionsRest == Spec => []DecisionRestsOnEvidence
<1>1. CommandInv => DecisionRestsOnEvidence
  BY DEF CommandInv
<1> QED
  BY CommandsHold, <1>1, PTL

-----------------------------------------------------------------------------
(* Counting, which the library states with operators for parameters.       *)

\* The order of the natural numbers, as a relation.
Below == {p \in Nat \X Nat : p[1] < p[2]}

\* A set of natural numbers that is not empty has a least one.
LEMMA Least ==
  ASSUME NEW T, T \subseteq Nat, T # {}
  PROVE  \E x \in T : \A y \in T : x <= y
<1>1. IsWellFoundedOn(Below, Nat)
  <2>1. OpToRel(<, Nat) = Below
    BY Zenon DEF OpToRel, Below
  <2> QED
    BY <2>1, NatLessThanWellFounded, Zenon
<1>2. \A x, y \in Nat : x < y => <<x, y>> \in Below
  BY DEF Below
<1>3. PICK x \in T : \A y \in T : ~ (<<y, x>> \in Below)
  BY <1>1, WFMin
<1>4. ASSUME NEW y \in T PROVE x <= y
  <2>1. x \in Nat /\ y \in Nat
    OBVIOUS
  <2>2. ~ (y < x)
    BY <1>2, <1>3, <2>1
  <2> QED
    BY <2>1, <2>2
<1> QED
  BY <1>4

\* A set with 0 that has n + 1 whenever it has n has all numbers.
LEMMA Counting ==
  ASSUME NEW T, 0 \in T, \A n \in Nat : n \in T => n + 1 \in T
  PROVE  Nat \subseteq T
<1> SUFFICES ASSUME Nat \ T # {} PROVE FALSE
  OBVIOUS
<1>1. PICK x \in Nat \ T : \A y \in Nat \ T : x <= y
  BY Least
<1>2. x - 1 \in Nat /\ x - 1 \notin Nat \ T
  <2>1. x # 0
    OBVIOUS
  <2>2. x - 1 \in Nat /\ ~ (x <= x - 1)
    BY <2>1
  <2> QED
    BY <1>1, <2>2
<1>3. (x - 1) + 1 = x
  OBVIOUS
<1> QED
  BY <1>2, <1>3

-----------------------------------------------------------------------------
(* The dictionary of actions.                                              *)

\* The dictionary without an entry.
Nothing == [a \in Actions |-> [negated \in BOOLEAN |-> NoCriterion]]

\* g is what the dictionary is after each of the first m criteria.
IsAfter(g, criteria, m) ==
  g = [n \in 0 .. m |-> IF n = 0 THEN Nothing ELSE Enter(g[n - 1], criteria[n], n)]

\* There is such a function, for any number of criteria.
LEMMA AfterExists ==
  ASSUME NEW criteria, NEW m \in Nat
  PROVE  \E g : IsAfter(g, criteria, m)
<1> DEFINE T == {k \in Nat : \E g : IsAfter(g, criteria, k)}
<1>1. 0 \in T
  <2> DEFINE g == [n \in 0 .. 0 |-> Nothing]
  <2>1. g = [n \in 0 .. 0 |-> IF n = 0 THEN Nothing ELSE Enter(g[n - 1], criteria[n], n)]
    OBVIOUS
  <2> QED
    BY <2>1 DEF IsAfter
<1>2. ASSUME NEW k \in Nat, k \in T
      PROVE  k + 1 \in T
  <2>1. PICK g : IsAfter(g, criteria, k)
    BY <1>2
  <2> DEFINE h == [n \in 0 .. k + 1 |-> IF n = k + 1 THEN Enter(g[k], criteria[n], n) ELSE g[n]]
  <2>2. ASSUME NEW n \in 0 .. k + 1
        PROVE  h[n] = IF n = 0 THEN Nothing ELSE Enter(h[n - 1], criteria[n], n)
    <3>1. CASE n = k + 1
      <4>1. n # 0 /\ n - 1 = k /\ k \in 0 .. k + 1 /\ k # k + 1
        BY <3>1
      <4> QED
        BY <3>1, <4>1
    <3>2. CASE n # k + 1
      <4>1. n \in 0 .. k
        BY <3>2
      <4>2. n # 0 => n - 1 \in 0 .. k + 1 /\ n - 1 # k + 1
        OBVIOUS
      <4>3. g[n] = IF n = 0 THEN Nothing ELSE Enter(g[n - 1], criteria[n], n)
        BY <2>1, <4>1 DEF IsAfter
      <4> QED
        BY <3>2, <4>2, <4>3
    <3> QED
      BY <3>1, <3>2
  <2>3. IsAfter(h, criteria, k + 1)
    <3> HIDE DEF h
    <3>1. h = [n \in 0 .. k + 1 |-> h[n]]
      BY DEF h
    <3> QED
      BY <2>2, <3>1 DEF IsAfter
  <2> QED
    BY <2>3
<1> HIDE DEF T
<1>3. Nat \subseteq T
  BY <1>1, <1>2, Counting
<1> QED
  BY <1>3 DEF T

\* Hence ActionsAfter is one, and not just any value.
LEMMA AfterIs ==
  ASSUME NEW criteria
  PROVE  Len(criteria) \in Nat => IsAfter(ActionsAfter(criteria), criteria, Len(criteria))
BY AfterExists, Zenon DEF ActionsAfter, IsAfter, Nothing

\* What the dictionary says of an action and a polarity after n criteria: the
\* number of one that demands it, or none if none does.
Tells(value, criteria, n, action, negated) ==
  \/ /\ value = NoCriterion
     /\ \A j \in 1 .. n : ~ (criteria[j].action = action /\ criteria[j].negated = negated)
  \/ /\ value \in 1 .. n
     /\ criteria[value].action = action /\ criteria[value].negated = negated

\* A dictionary that tells of every action and polarity.
TellsOfAll(actions, criteria, n) ==
  /\ actions \in [Actions -> [BOOLEAN -> Int]]
  /\ \A a \in Actions, b \in BOOLEAN : Tells(actions[a][b], criteria, n, a, b)

\* A further criterion, entered, keeps the dictionary true.
LEMMA EnterTells ==
  ASSUME NEW criteria \in Seq(CriterionType), NEW n \in 1 .. Len(criteria),
         NEW actions, TellsOfAll(actions, criteria, n - 1)
  PROVE  TellsOfAll(Enter(actions, criteria[n], n), criteria, n)
<1> DEFINE c == criteria[n]
           entered == Enter(actions, c, n)
<1>0. c \in CriterionType /\ n \in Nat /\ n \in 1 .. n
  OBVIOUS
<1>1. ASSUME NEW a \in Actions, NEW b \in BOOLEAN, c.action # a \/ c.negated # b,
             entered[a][b] = actions[a][b]
      PROVE  Tells(entered[a][b], criteria, n, a, b)
  <2>1. Tells(actions[a][b], criteria, n - 1, a, b)
    BY DEF TellsOfAll
  <2>2. \A j \in 1 .. n : j = n \/ j \in 1 .. n - 1
    BY <1>0
  <2>3. \A j \in 1 .. n - 1 : j \in 1 .. n
    BY <1>0
  <2> QED
    BY <1>1, <2>1, <2>2, <2>3 DEF Tells
<1>2. CASE c.action = NoAction
  <2>1. entered = actions
    BY <1>2 DEF Enter
  <2>2. \A a \in Actions : c.action # a
    BY <1>2, NoActionIsNone
  <2> QED
    BY <1>1, <2>1, <2>2 DEF TellsOfAll
<1>3. CASE c.action # NoAction
  <2>0. c.action \in Actions /\ c.negated \in BOOLEAN
    BY <1>0, <1>3 DEF CriterionType
  <2>1. entered = [actions EXCEPT ![c.action] = [actions[c.action] EXCEPT ![c.negated] = n]]
    BY <1>3, Zenon DEF Enter
  <2>2. actions \in [Actions -> [BOOLEAN -> Int]]
    BY DEF TellsOfAll
  <2>3. entered \in [Actions -> [BOOLEAN -> Int]]
    BY <2>0, <2>1, <2>2
  <2>4. ASSUME NEW a \in Actions, NEW b \in BOOLEAN
        PROVE  entered[a][b] = IF a = c.action /\ b = c.negated THEN n ELSE actions[a][b]
    BY <2>0, <2>1, <2>2
  <2> HIDE DEF entered, c
  <2>5. ASSUME NEW a \in Actions, NEW b \in BOOLEAN
        PROVE  Tells(entered[a][b], criteria, n, a, b)
    <3>1. CASE a = c.action /\ b = c.negated
      BY <1>0, <2>4, <3>1 DEF Tells, c
    <3>2. CASE ~ (a = c.action /\ b = c.negated)
      BY <1>1, <2>4, <3>2
    <3> QED
      BY <3>1, <3>2
  <2> QED
    BY <2>3, <2>5 DEF TellsOfAll, entered, c
<1> QED
  BY <1>2, <1>3

\* After any number of criteria the dictionary tells of all of them.
LEMMA AfterTells ==
  ASSUME NEW criteria \in Seq(CriterionType), NEW n \in 0 .. Len(criteria)
  PROVE  TellsOfAll(ActionsAfter(criteria)[n], criteria, n)
<1> DEFINE after == ActionsAfter(criteria)
           T == {k \in Nat : k <= Len(criteria) => TellsOfAll(after[k], criteria, k)}
<1>0. /\ Len(criteria) \in Nat
      /\ \A k \in 0 .. Len(criteria) :
           after[k] = IF k = 0 THEN Nothing ELSE Enter(after[k - 1], criteria[k], k)
  BY AfterIs DEF IsAfter
<1> HIDE DEF after
<1>1. 0 \in T
  <2>1. after[0] = Nothing
    BY <1>0
  <2>2. TellsOfAll(Nothing, criteria, 0)
    BY DEF TellsOfAll, Tells, Nothing, NoCriterion
  <2> QED
    BY <2>1, <2>2
<1>2. ASSUME NEW k \in Nat, k \in T
      PROVE  k + 1 \in T
  <2> SUFFICES ASSUME k + 1 <= Len(criteria)
               PROVE  TellsOfAll(after[k + 1], criteria, k + 1)
    OBVIOUS
  <2>1. /\ k + 1 \in 1 .. Len(criteria) /\ k + 1 \in 0 .. Len(criteria) /\ k + 1 # 0
        /\ (k + 1) - 1 = k /\ k <= Len(criteria)
    BY <1>0
  <2>2. after[k + 1] = Enter(after[k], criteria[k + 1], k + 1)
    BY <1>0, <2>1
  <2>3. TellsOfAll(after[k], criteria, (k + 1) - 1)
    BY <1>2, <2>1
  <2> HIDE DEF T
  <2> QED
    BY <2>1, <2>2, <2>3, EnterTells
<1> HIDE DEF T
<1>3. Nat \subseteq T
  BY <1>1, <1>2, Counting
<1> QED
  BY <1>0, <1>3 DEF T, after

\* What OppositeOf finds is an earlier criterion that contradicts, and it finds
\* one when there is one.
LEMMA OppositeIs ==
  ASSUME NEW criteria \in Seq(CriterionType), NEW i \in DOMAIN criteria
  PROVE  /\ OppositeOf(criteria, i) # NoCriterion =>
              /\ OppositeOf(criteria, i) \in 1 .. i - 1
              /\ Opposed(criteria[OppositeOf(criteria, i)], criteria[i])
         /\ OppositeOf(criteria, i) = NoCriterion =>
              \A j \in 1 .. i - 1 : ~ Opposed(criteria[j], criteria[i])
<1>0. i \in 1 .. Len(criteria) /\ i - 1 \in 0 .. Len(criteria) /\ Len(criteria) \in Nat
  OBVIOUS
<1>1. \A j \in 1 .. Len(criteria) : criteria[j] \in CriterionType
  OBVIOUS
<1>2. \A j \in 1 .. i - 1 : j \in 1 .. Len(criteria)
  BY <1>0
<1>3. CASE criteria[i].action = NoAction
  BY <1>3 DEF OppositeOf, Opposed
<1>4. CASE criteria[i].action # NoAction
  <2> DEFINE a == criteria[i].action
             b == ~ criteria[i].negated
  <2>1. a \in Actions /\ b \in BOOLEAN /\ criteria[i].negated \in BOOLEAN
    BY <1>0, <1>1, <1>4 DEF CriterionType
  <2>2. Tells(ActionsAfter(criteria)[i - 1][a][b], criteria, i - 1, a, b)
    BY <1>0, <2>1, AfterTells DEF TellsOfAll
  <2>3. OppositeOf(criteria, i) = ActionsAfter(criteria)[i - 1][a][b]
    BY <1>4 DEF OppositeOf
  <2>4. \A j \in 1 .. i - 1 :
          Opposed(criteria[j], criteria[i]) <=> (criteria[j].action = a /\ criteria[j].negated = b)
    BY <1>0, <1>1, <1>2, <1>4, <2>1 DEF CriterionType, Opposed
  <2> HIDE DEF a, b
  <2>5. Tells(OppositeOf(criteria, i), criteria, i - 1, a, b)
    BY <2>2, <2>3
  <2>6. \A j \in 1 .. i - 1 : j # NoCriterion
    BY <1>0 DEF NoCriterion
  <2> QED
    BY <2>4, <2>5, <2>6 DEF Tells
<1> QED
  BY <1>3, <1>4

-----------------------------------------------------------------------------
(* The analysis, against what "testable" means.                            *)

\* What an analysis gives that its budget paid for, and one it did not.
Findings(criteria) ==
  TestabilityFindings(criteria) \union ConflictFindings(criteria) \union ErrorPathFindings(criteria)

\* The findings about two criteria that contradict.
Conflict(f) == f.category = "conflicting_criteria"

\* An analysis is incomplete, with findings about single criteria only, or all of
\* its findings decide it.
LEMMA AnalysisIs ==
  ASSUME NEW document \in Documents
  PROVE  \/ /\ Analysis(document).decision = "incomplete"
            /\ \A f \in Analysis(document).findings :
                 ~ Conflict(f) /\ f.evidence \subseteq Analysis(document).evidence
         \/ /\ Analysis(document).decision = DecisionOf(Findings(document.criteria))
            /\ Analysis(document).findings = Findings(document.criteria)
            /\ Analysis(document).evidence =
                 IF document.criteria = <<>> THEN {1} ELSE DOMAIN document.criteria
<1> DEFINE criteria == document.criteria
           n == Affordable(MaxActions)
           scanned == Take(criteria, n)
<1>1. criteria \in Seq(CriterionType) /\ Len(criteria) \in Nat
  BY DocumentsTyped DEF DocumentType
<1>2. n \in Nat \ {0} /\ ~ (MaxActions < 4) /\ MaxActions >= 4
  BY BudgetTyped DEF Affordable
<1> HIDE DEF n
<1>3. CASE Len(criteria) > n
  <2>1. Analysis(document) = Result(DOMAIN scanned, TestabilityFindings(scanned),
                                    "incomplete", "BUDGET_EXHAUSTED")
    BY <1>2, <1>3 DEF Analysis, Analyze, n
  <2>2. \A f \in TestabilityFindings(scanned) : ~ Conflict(f) /\ f.evidence \subseteq DOMAIN scanned
    BY DEF TestabilityFindings, Finding, Conflict
  <2> HIDE DEF scanned
  <2> QED
    BY <2>1, <2>2 DEF Result
<1>4. CASE ~ (Len(criteria) > n)
  <2>1. scanned = criteria
    <3>1. Smaller(Len(criteria), n) = Len(criteria)
      BY <1>1, <1>2, <1>4 DEF Smaller
    <3> QED
      BY <1>1, <3>1 DEF Take
  <2>2. Analysis(document) =
          Result(IF criteria = <<>> THEN {1} ELSE DOMAIN criteria, Findings(criteria),
                 DecisionOf(Findings(criteria)), "EVIDENCE_SUFFICIENT")
    BY <1>2, <1>4, <2>1 DEF Analysis, Analyze, n, Findings
  <2> QED
    BY <2>2 DEF Result
<1> QED
  BY <1>3, <1>4

\* The findings of a whole scan are those of its criteria: they rest on them,
\* name every contradiction, and there is none for a testable requirement only.
LEMMA FindingsAreSound ==
  ASSUME NEW criteria \in Seq(CriterionType)
  PROVE  /\ \A f \in Findings(criteria) :
              f.evidence \subseteq (IF criteria = <<>> THEN {1} ELSE DOMAIN criteria)
         /\ \A f \in Findings(criteria) : Conflict(f) =>
              \E i, j \in f.evidence : Opposed(criteria[i], criteria[j])
         /\ \A i, j \in DOMAIN criteria : i < j /\ Opposed(criteria[i], criteria[j]) =>
              \E f \in Findings(criteria) : Conflict(f) /\ f.criterion = j
         /\ Findings(criteria) = {} <=> Testable(criteria)
<1>0. Len(criteria) \in Nat /\ DOMAIN criteria = 1 .. Len(criteria)
  OBVIOUS
<1>1. \A i \in DOMAIN criteria :
        criteria[i] \in CriterionType /\ \A j \in 1 .. i - 1 : j \in DOMAIN criteria
  BY <1>0
<1>2. ASSUME NEW f \in TestabilityFindings(criteria)
      PROVE  f.evidence \subseteq DOMAIN criteria /\ ~ Conflict(f)
  BY <1>2 DEF TestabilityFindings, Finding, Conflict
<1>3. ASSUME NEW f \in ConflictFindings(criteria)
      PROVE  /\ f.evidence \subseteq DOMAIN criteria
             /\ \E i, j \in f.evidence : Opposed(criteria[i], criteria[j])
  <2>1. PICK i \in DOMAIN criteria :
          /\ OppositeOf(criteria, i) # NoCriterion
          /\ f = Finding("conflicting_criteria", i, {OppositeOf(criteria, i), i})
    BY <1>3 DEF ConflictFindings
  <2>2. /\ OppositeOf(criteria, i) \in 1 .. i - 1
        /\ Opposed(criteria[OppositeOf(criteria, i)], criteria[i])
    BY <2>1, OppositeIs
  <2>3. f.evidence = {OppositeOf(criteria, i), i}
    BY <2>1 DEF Finding
  <2> QED
    BY <1>1, <2>2, <2>3
<1>4. ASSUME NEW f \in ErrorPathFindings(criteria)
      PROVE  /\ f.evidence \subseteq (IF criteria = <<>> THEN {1} ELSE DOMAIN criteria)
             /\ ~ Conflict(f)
  <2>1. f.evidence = {1} /\ ~ Conflict(f)
    BY <1>4 DEF ErrorPathFindings, Finding, Conflict
  <2>2. criteria # <<>> => 1 \in DOMAIN criteria
    BY <1>0
  <2> QED
    BY <2>1, <2>2
<1>5. ASSUME NEW f \in Findings(criteria)
      PROVE  f.evidence \subseteq (IF criteria = <<>> THEN {1} ELSE DOMAIN criteria)
  <2>1. criteria = <<>> => DOMAIN criteria = {}
    BY <1>0
  <2> QED
    BY <1>2, <1>3, <1>4, <1>5, <2>1 DEF Findings
<1>6. ASSUME NEW f \in Findings(criteria), Conflict(f)
      PROVE  \E i, j \in f.evidence : Opposed(criteria[i], criteria[j])
  BY <1>2, <1>3, <1>4, <1>6 DEF Findings
<1>7. ASSUME NEW i \in DOMAIN criteria, NEW j \in DOMAIN criteria, i < j,
             Opposed(criteria[i], criteria[j])
      PROVE  OppositeOf(criteria, j) # NoCriterion
  <2>1. i \in 1 .. j - 1
    BY <1>0, <1>7
  <2> QED
    BY <1>7, <2>1, OppositeIs
<1>8. ASSUME NEW i \in DOMAIN criteria, NEW j \in DOMAIN criteria, i < j,
             Opposed(criteria[i], criteria[j])
      PROVE  \E f \in Findings(criteria) : Conflict(f) /\ f.criterion = j
  <2> DEFINE f == Finding("conflicting_criteria", j, {OppositeOf(criteria, j), j})
  <2>1. f \in ConflictFindings(criteria)
    BY <1>7, <1>8 DEF ConflictFindings
  <2>2. Conflict(f) /\ f.criterion = j
    BY DEF Conflict, Finding
  <2> HIDE DEF f
  <2> QED
    BY <2>1, <2>2 DEF Findings
<1>9. TestabilityFindings(criteria) = {} <=>
        \A i \in DOMAIN criteria : ~ criteria[i].ambiguous /\ criteria[i].observable
  <2>1. ASSUME NEW i \in DOMAIN criteria, criteria[i].ambiguous \/ ~ criteria[i].observable
        PROVE  TestabilityFindings(criteria) # {}
    BY <2>1 DEF TestabilityFindings
  <2>2. ASSUME \A i \in DOMAIN criteria : ~ criteria[i].ambiguous /\ criteria[i].observable
        PROVE  TestabilityFindings(criteria) = {}
    BY <2>2 DEF TestabilityFindings
  <2> QED
    BY <2>1, <2>2
<1>10. ConflictFindings(criteria) = {} <=>
         \A i, j \in DOMAIN criteria : ~ Opposed(criteria[i], criteria[j])
  <2>1. ASSUME NEW f \in ConflictFindings(criteria)
        PROVE  \E i, j \in DOMAIN criteria : Opposed(criteria[i], criteria[j])
    BY <1>3
  <2>2. ASSUME NEW i \in DOMAIN criteria, NEW j \in DOMAIN criteria,
               Opposed(criteria[i], criteria[j])
        PROVE  ConflictFindings(criteria) # {}
    <3>1. Opposed(criteria[j], criteria[i]) /\ i # j
      BY <2>2 DEF Opposed
    <3>2. i < j \/ j < i
      BY <1>0, <3>1
    <3>3. OppositeOf(criteria, j) # NoCriterion \/ OppositeOf(criteria, i) # NoCriterion
      BY <1>7, <2>2, <3>1, <3>2
    <3> QED
      BY <3>3 DEF ConflictFindings
  <2> QED
    BY <2>1, <2>2
<1>11. ErrorPathFindings(criteria) = {} <=> \E i \in DOMAIN criteria : criteria[i].error
  BY DEF ErrorPathFindings
<1>12. Findings(criteria) = {} <=> Testable(criteria)
  BY <1>9, <1>10, <1>11 DEF Findings, Testable
<1> QED
  BY <1>5, <1>6, <1>8, <1>12

\* An analysis passes when it has no findings, and never fails.
LEMMA DecidesByFindings ==
  ASSUME NEW criteria
  PROVE  /\ DecisionOf(Findings(criteria)) = "pass" <=> Findings(criteria) = {}
         /\ DecisionOf(Findings(criteria)) # "incomplete"
<1>1. \A category : SeverityOf(category) # "critical"
  BY DEF SeverityOf
<1> QED
  BY <1>1 DEF DecisionOf

\* What AnalysisIsSound says of one analysis.
Sound(document, analysis) ==
  /\ \A f \in analysis.findings : f.evidence \subseteq analysis.evidence
  /\ \A f \in analysis.findings : Conflict(f) =>
       \E i, j \in f.evidence : Opposed(document.criteria[i], document.criteria[j])
  /\ analysis.decision # "incomplete" =>
       /\ DOMAIN document.criteria \subseteq analysis.evidence
       /\ analysis.decision = "pass" <=> Testable(document.criteria)
       /\ \A i, j \in DOMAIN document.criteria :
            i < j /\ Opposed(document.criteria[i], document.criteria[j]) =>
              \E f \in analysis.findings : Conflict(f) /\ f.criterion = j

\* It holds of every analysis.
LEMMA EachIsSound ==
  ASSUME NEW document \in Documents
  PROVE  Sound(document, Analysis(document))
<1>1. document.criteria \in Seq(CriterionType)
  BY DocumentsTyped DEF DocumentType
<1>2. document.criteria = <<>> => DOMAIN document.criteria = {}
  OBVIOUS
<1>3. CASE Analysis(document).decision = "incomplete"
  <2>1. \/ \A f \in Analysis(document).findings :
             ~ Conflict(f) /\ f.evidence \subseteq Analysis(document).evidence
        \/ "incomplete" = DecisionOf(Findings(document.criteria))
    BY <1>3, AnalysisIs
  <2>2. \A f \in Analysis(document).findings :
          ~ Conflict(f) /\ f.evidence \subseteq Analysis(document).evidence
    BY <2>1, DecidesByFindings
  <2> QED
    BY <1>3, <2>2 DEF Sound
<1>4. CASE Analysis(document).decision # "incomplete"
  <2>1. /\ Analysis(document).decision = DecisionOf(Findings(document.criteria))
        /\ Analysis(document).findings = Findings(document.criteria)
        /\ Analysis(document).evidence =
             IF document.criteria = <<>> THEN {1} ELSE DOMAIN document.criteria
    BY <1>4, AnalysisIs
  <2> QED
    BY <1>1, <1>2, <2>1, DecidesByFindings, FindingsAreSound DEF Sound
<1> QED
  BY <1>3, <1>4

-----------------------------------------------------------------------------
(* The commands that analyze.                                              *)

\* The command holds the analysis of what it works on, from the fetch to its end.
Analyzing(c) ==
  /\ pc[c] \in {"connect", "migrate", "save", "done"} =>
       requirement[c] \in Documents /\ evidence[c] = Analysis(requirement[c]).evidence
  /\ pc[c] = "done" => decision[c] = Analysis(requirement[c]).decision
  /\ pc[c] \in {"fetch", "connect", "migrate", "save", "done", "raised"}

\* The inductive core.
AnalysisInv ==
  \A c \in Clients : request[c].command = "analyze-requirement" => Analyzing(c)

\* Nothing is fetched at first.
LEMMA AnalysisInit == ASSUME Init PROVE AnalysisInv
BY DEF Init, AnalysisInv, Analyzing

\* Nobody else writes what the command holds.
LEMMA AnalysisStep == ASSUME TypeOK, AnalysisInv, [Next]_vars PROVE AnalysisInv'
<1> USE DEF TypeOK, AnalysisInv, Analyzing, Goto
<1>1. CASE UNCHANGED vars
  BY <1>1 DEF vars, command
<1> SUFFICES ASSUME NEW c \in Clients, Step(c) \/ Stop(c)
             PROVE  AnalysisInv'
  BY <1>1 DEF Next
<1>0. request[c] \in Requests
  OBVIOUS
<1>a. request[c].document \in Documents
  BY <1>0, RequestsTyped
<1>b. \A d : Analysis(d)' = Analysis(d)
  BY DEF Analysis
<1>2. CASE Fetch(c)
  BY <1>a, <1>2 DEF Fetch, WorkOn
<1>3. CASE Connect(c)
  BY <1>3 DEF Connect
<1>4. CASE Create(c)
  BY <1>4 DEF Create
<1>5. CASE Stamp(c)
  BY <1>5 DEF Stamp, FirstUse
<1>6. CASE Save(c)
  BY <1>6 DEF Save, Answer
<1>7. CASE ReadRequirement(c)
  BY <1>7 DEF ReadRequirement, Answer
<1>8. CASE ReadEvidence(c)
  BY <1>8 DEF ReadEvidence, Answer
<1>9. CASE Map(c)
  BY <1>9 DEF Map, Answer
<1>10. CASE Review(c)
  BY <1>10 DEF Review, Answer
<1>11. CASE Engineer(c)
  BY <1>11 DEF Engineer, Answer
<1>12. CASE Stop(c)
  BY <1>12 DEF Stop, Running
<1> QED
  BY <1>2, <1>3, <1>4, <1>5, <1>6, <1>7, <1>8, <1>9, <1>10, <1>11, <1>12 DEF Step

\* analyze-requirement passes exactly the testable requirements, decides only
\* when its budget covered every criterion, and finds each that contradicts an
\* earlier one, for any number of criteria and however processes interleave.
THEOREM AnalysesAreSound == Spec => []AnalysisIsSound
<1>1. AnalysisInv => AnalysisIsSound
  BY EachIsSound DEF AnalysisInv, Analyzing, AnalysisIsSound, Sound, Conflict
<1>2. TypeOK /\ AnalysisInv /\ [Next]_vars => AnalysisInv'
  BY AnalysisStep
<1> QED
  BY AnalysisInit, CommandsTyped, <1>1, <1>2, PTL DEF Spec

=============================================================================
