------------------------- MODULE RequirementCommands -------------------------
(***************************************************************************)
(* The commands that share a trace database (cli.py): analyze-requirement, *)
(* map-coverage, review-pr and engineer-test, run by several processes.    *)
(* Each opens the database, which migrates it (trace_store.py), and uses   *)
(* the tables requirements and trace_links.                                *)
(*                                                                         *)
(* A transaction is one action: every statement of the migration script,   *)
(* which executescript leaves to autocommit, the stamp of the version, and *)
(* every `with self._connect()` block.  A process may stop in front of any *)
(* of them: it dies, the database stays locked, or an adapter, a scan or a *)
(* review raises.                                                          *)
(***************************************************************************)
EXTENDS RequirementAnalysis

CONSTANTS
  Clients,        \* the processes
  Ids,            \* requirement ids
  NoDocument,     \* what get_requirement returns when it finds nothing
  Documents,      \* the requirement texts
  Requests,       \* [command, id, document] of a process
  Repositories,   \* [isDir, files] of what map-coverage may scan
  Databases,      \* [tables, version, requirements, links] there may be at first
  Script,         \* what the migration creates, in its order
  MaxActions,     \* RequirementRequest.max_actions
  MaxFiles        \* max_files of map-coverage

SchemaVersion == 2

\* review-pr is given an issue file, whose text is the document of the
\* request, or reads the requirement from the store.
Commands == {"analyze-requirement", "map-coverage", "review-pr", "review-pr --github-issue-file",
             "engineer-test"}

Created == {Script[i] : i \in DOMAIN Script}

RowType == [document : Documents, evidence : SUBSET Nat]

LinkRows(id, links) ==
  {[requirement |-> id, kind |-> l.kind, path |-> l.path, evidence |-> l.evidence] : l \in links}

\* What one mapping of a stored text may leave of a requirement.
OneMapping(id, rows) ==
  \E words \in {d.words : d \in Documents}, l \in rows, r \in Repositories :
    rows = LinkRows(id, MapRequirement(words, l.evidence, r.isDir, r.files, MaxFiles))

LinksOf(links, id) == {l \in links : l.requirement = id}

ASSUME ScriptTyped     == Script \in Seq(Created)
ASSUME DocumentsTyped  == Documents \subseteq DocumentType /\ NoDocument \notin Documents
ASSUME RequestsTyped   == Requests \subseteq [command : Commands, id : Ids, document : Documents]
ASSUME BudgetTyped     == MaxActions \in Nat /\ MaxActions >= 4 /\ MaxFiles \in Nat
ASSUME RepositoriesTyped == Repositories \subseteq [isDir : BOOLEAN, files : RepositoryType]

\* A stamped database is complete, and links are those of a stored requirement.
ASSUME DatabasesTyped  ==
  \A d \in Databases :
    /\ d.version \in Nat /\ (d.version = SchemaVersion => Created \subseteq d.tables)
    /\ \A id \in DOMAIN d.requirements : d.requirements[id] \in RowType
    /\ \A id \in Ids : LinksOf(d.links, id) # {} =>
         id \in DOMAIN d.requirements /\ OneMapping(id, LinksOf(d.links, id))

VARIABLES
  tables,         \* the tables and indexes that exist
  version,        \* PRAGMA user_version
  requirements,   \* id -> [document, evidence]
  trace_links,    \* the rows of trace_links
  request,        \* what each process was started for
  pc,             \* where it is
  statement,      \* the next statement of its migration
  requirement,    \* the requirement it works on
  evidence,       \* the Evidence it works with
  decision        \* what it has decided

rowsOfStore == <<requirements, trace_links>>
schema      == <<tables, version>>
command     == <<request, pc, statement, requirement, evidence, decision>>
vars        == <<schema, rowsOfStore, command>>

-----------------------------------------------------------------------------
Init ==
  /\ \E d \in Databases :
       /\ tables = d.tables /\ version = d.version
       /\ requirements = d.requirements /\ trace_links = d.links
  /\ request \in [Clients -> Requests]
  /\ pc = [c \in Clients |->
             IF request[c].command = "analyze-requirement" THEN "fetch" ELSE "connect"]
  /\ statement = [c \in Clients |-> 1]
  /\ requirement = [c \in Clients |-> NoDocument]
  /\ evidence = [c \in Clients |-> {}]
  /\ decision = [c \in Clients |-> "none"]

Goto(c, label) == pc' = [pc EXCEPT ![c] = label]

\* The answer of the command, which ends it.
Answer(c, answer) ==
  /\ decision' = [decision EXCEPT ![c] = answer]
  /\ Goto(c, "done")

WorkOn(c, document, ids) ==
  /\ requirement' = [requirement EXCEPT ![c] = document]
  /\ evidence' = [evidence EXCEPT ![c] = ids]

Analysis(document) == Analyze(document.criteria, MaxActions)

\* The Markdown file of analyze-requirement or the issue of review-pr is read
\* and analyzed: the first before the database is opened, the second after.
Fetch(c) ==
  /\ pc[c] = "fetch"
  /\ LET document == request[c].document
     IN  WorkOn(c, document, Analysis(document).evidence)
  /\ Goto(c, IF request[c].command = "analyze-requirement" THEN "connect" ELSE "save")
  /\ UNCHANGED <<schema, rowsOfStore, request, statement, decision>>

-----------------------------------------------------------------------------
(* SQLiteTraceStore.__init__ and _migrate.                                 *)

\* Mutant: migrates whatever version it finds.
ConnectAny(c) ==
  /\ pc[c] = "connect"
  /\ Goto(c, "migrate")
  /\ UNCHANGED <<schema, rowsOfStore, request, statement, requirement, evidence, decision>>

Connect(c) ==
  /\ pc[c] = "connect"
  /\ Goto(c, IF version > SchemaVersion THEN "raised" ELSE "migrate")
  /\ UNCHANGED <<schema, rowsOfStore, request, statement, requirement, evidence, decision>>

\* CREATE ... IF NOT EXISTS
Create(c) ==
  /\ pc[c] = "migrate" /\ statement[c] \in DOMAIN Script
  /\ tables' = tables \union {Script[statement[c]]}
  /\ statement' = [statement EXCEPT ![c] = @ + 1]
  /\ UNCHANGED <<version, rowsOfStore, request, pc, requirement, evidence, decision>>

\* Where a command goes on once the database is open.
FirstUse(r) ==
  CASE r.command = "analyze-requirement"           -> "save"
    [] r.command = "review-pr --github-issue-file" -> "fetch"
    [] OTHER                                       -> "read"

\* Mutant: the stamp does not wait for the end of the script.
StampEarly(c) ==
  /\ pc[c] = "migrate"
  /\ version' = SchemaVersion
  /\ Goto(c, FirstUse(request[c]))
  /\ UNCHANGED <<tables, rowsOfStore, request, statement, requirement, evidence, decision>>

Stamp(c) ==
  /\ pc[c] = "migrate" /\ statement[c] \notin DOMAIN Script
  /\ version' = SchemaVersion
  /\ Goto(c, FirstUse(request[c]))
  /\ UNCHANGED <<tables, rowsOfStore, request, statement, requirement, evidence, decision>>

-----------------------------------------------------------------------------
(* The methods of the store and the commands' use of them.                 *)

\* save_requirement: INSERT OR REPLACE.  analyze-requirement has decided
\* before; an incomplete analysis is saved like any other.
Save(c) ==
  /\ pc[c] = "save"
  /\ requirements' =
       [id \in DOMAIN requirements \union {request[c].id} |->
          IF id = request[c].id
          THEN [document |-> requirement[c], evidence |-> evidence[c]]
          ELSE requirements[id]]
  /\ IF request[c].command = "analyze-requirement"
     THEN Answer(c, Analysis(requirement[c]).decision)
     ELSE Goto(c, "review") /\ UNCHANGED decision
  /\ UNCHANGED <<schema, trace_links, request, statement, requirement, evidence>>

Stored(id) == id \in DOMAIN requirements

\* get_requirement.  map-coverage returns when there is none, the others
\* look for Evidence first.
ReadRequirement(c) ==
  /\ pc[c] = "read"
  /\ LET id == request[c].id IN
       /\ requirement' = [requirement EXCEPT ![c] =
                            IF Stored(id) THEN requirements[id].document ELSE NoDocument]
       /\ IF ~Stored(id) /\ request[c].command = "map-coverage"
          THEN Answer(c, "incomplete")
          ELSE Goto(c, "read evidence") /\ UNCHANGED decision
  /\ UNCHANGED <<schema, rowsOfStore, request, statement, evidence>>

Work(r) ==
  CASE r.command = "map-coverage"  -> "map"
    [] r.command = "engineer-test" -> "engineer"
    [] OTHER                       -> "review"

\* get_evidence, in a connection of its own.
ReadEvidence(c) ==
  /\ pc[c] = "read evidence"
  /\ LET id == request[c].id IN
       evidence' = [evidence EXCEPT ![c] =
                      IF Stored(id) THEN requirements[id].evidence ELSE {}]
  /\ IF requirement[c] = NoDocument
     THEN Answer(c, "incomplete")
     ELSE Goto(c, Work(request[c])) /\ UNCHANGED decision
  /\ UNCHANGED <<schema, rowsOfStore, request, statement, requirement>>

\* Mutant: the links are added to those of earlier mappings.
AddLinks(c, links) ==
  trace_links' = trace_links \union LinkRows(request[c].id, links)

\* replace_links: DELETE and INSERT in one transaction.
ReplaceLinks(c, links) ==
  trace_links' = (trace_links \ LinksOf(trace_links, request[c].id))
                   \union LinkRows(request[c].id, links)

Map(c) ==
  /\ pc[c] = "map"
  /\ \E r \in Repositories :
       LET links == MapRequirement(requirement[c].words, evidence[c], r.isDir, r.files, MaxFiles)
       IN  /\ ReplaceLinks(c, links)
           /\ Answer(c, IF links = {} THEN "incomplete" ELSE "warn")
  /\ UNCHANGED <<schema, requirements, request, statement, requirement, evidence>>

\* Mutant: reviews without requirement Evidence.
ReviewAnyway(c) ==
  /\ pc[c] = "review"
  /\ \E answer \in {"pass", "fail", "incomplete"} : Answer(c, answer)
  /\ UNCHANGED <<schema, rowsOfStore, request, statement, requirement, evidence>>

\* review_pr: the decision of ReviewService stands as it is.
Review(c) ==
  /\ pc[c] = "review"
  /\ \E answer \in IF evidence[c] = {} THEN {"incomplete"} ELSE {"pass", "fail", "incomplete"} :
       Answer(c, answer)
  /\ UNCHANGED <<schema, rowsOfStore, request, statement, requirement, evidence>>

\* TestEngineeringService.run declines without Evidence.
Engineer(c) ==
  /\ pc[c] = "engineer"
  /\ \E answer \in IF evidence[c] = {} THEN {"incomplete"}
                   ELSE {"accepted", "rejected", "incomplete"} :
       Answer(c, answer)
  /\ UNCHANGED <<schema, rowsOfStore, request, statement, requirement, evidence>>

Running(c) == pc[c] \notin {"done", "raised"}

Stop(c) ==
  /\ Running(c)
  /\ Goto(c, "raised")
  /\ UNCHANGED <<schema, rowsOfStore, request, statement, requirement, evidence, decision>>

Step(c) ==
  \/ Fetch(c) \/ Connect(c) \/ Create(c) \/ Stamp(c)
  \/ Save(c) \/ ReadRequirement(c) \/ ReadEvidence(c)
  \/ Map(c) \/ Review(c) \/ Engineer(c)

Next == \E c \in Clients : Step(c) \/ Stop(c)

Spec == Init /\ [][Next]_vars

\* The exit status of the process; an exception gives 1 as well.
ExitOf(c) ==
  CASE decision[c] \in {"pass", "warn", "accepted"} -> 0
    [] decision[c] \in {"fail", "rejected"}         -> 1
    [] OTHER                                        -> 2

-----------------------------------------------------------------------------
Labels == {"fetch", "connect", "migrate", "save", "read", "read evidence", "map", "review",
           "engineer", "done", "raised"}

Decisions == {"none", "pass", "warn", "fail", "accepted", "rejected", "incomplete"}

\* The types; every row of requirements is complete.
TypeOK ==
  /\ version \in Nat
  /\ \A id \in DOMAIN requirements : requirements[id] \in RowType
  /\ request \in [Clients -> Requests] /\ pc \in [Clients -> Labels]
  /\ statement \in [Clients -> Nat \ {0}]
  /\ requirement \in [Clients -> Documents \union {NoDocument}]
  /\ evidence \in [Clients -> SUBSET Nat] /\ decision \in [Clients -> Decisions]

Opened(c) == pc[c] \in {"save", "read", "read evidence", "map", "review", "engineer", "done"}

\* Wherever processes stop inside the migration, which no transaction spans,
\* a stamped database has everything the script creates, and a command that
\* uses the store finds it stamped and complete.
SchemaStamped ==
  /\ version = SchemaVersion => Created \subseteq tables
  /\ \A c \in Clients : Opened(c) => version = SchemaVersion

\* The plan (v0.4, line 22): migrations are additive.  Nothing that exists goes
\* away, the version never falls, a newer database is never written, and no
\* row is written or lost before the database is stamped.
MigrationIsAdditive ==
  [][/\ tables \subseteq tables' /\ version <= version'
     /\ DOMAIN requirements \subseteq DOMAIN requirements'
     /\ version > SchemaVersion => UNCHANGED schema
     /\ version # SchemaVersion => UNCHANGED rowsOfStore]_vars

\* The links of a requirement are all the links that one mapping found, for a
\* text of a stored requirement and under one set of Evidence, never those of
\* two mappings, however map-coverage runs and analyses interleave.
LinksAreOfOneMapping ==
  \A id \in Ids :
    LET rows == LinksOf(trace_links, id) IN
      rows # {} =>
        Stored(id) /\ OneMapping(id, rows)

\* The v0.2 design, lines 107 to 112.  A command that exits with 0 or 1 as its
\* answer worked on a requirement with Evidence that is in the store, whatever
\* was replaced between its reads; without either it is incomplete.
DecisionRestsOnEvidence ==
  \A c \in Clients :
    pc[c] = "done" /\ ExitOf(c) # 2 =>
      requirement[c] # NoDocument /\ evidence[c] # {} /\ Stored(request[c].id)

Opposed(p, q) == p.action # NoAction /\ p.action = q.action /\ p.negated # q.negated

\* What "testable" means, without the scan: no criterion is vague or without an
\* outcome, no two contradict, and one of them names an error.
Testable(criteria) ==
  /\ \A i \in DOMAIN criteria : ~criteria[i].ambiguous /\ criteria[i].observable
  /\ \A i, j \in DOMAIN criteria : ~Opposed(criteria[i], criteria[j])
  /\ \E i \in DOMAIN criteria : criteria[i].error

\* The analysis of a command against that reference.  It passes exactly the
\* testable requirements, decides only when the budget covered every criterion,
\* finds every criterion that contradicts an earlier one, and a conflict names
\* Evidence of two criteria that do contradict.
AnalysisIsSound ==
  \A c \in Clients :
    pc[c] = "done" /\ request[c].command = "analyze-requirement" =>
      LET criteria == requirement[c].criteria
          analysis == Analysis(requirement[c])
          Conflict(f) == f.category = "conflicting_criteria"
      IN  /\ \A f \in analysis.findings : f.evidence \subseteq analysis.evidence
          /\ \A f \in analysis.findings : Conflict(f) =>
               \E i, j \in f.evidence : Opposed(criteria[i], criteria[j])
          /\ decision[c] # "incomplete" =>
               /\ DOMAIN criteria \subseteq evidence[c]
               /\ decision[c] = "pass" <=> Testable(criteria)
               /\ \A i, j \in DOMAIN criteria :
                    i < j /\ Opposed(criteria[i], criteria[j]) =>
                      \E f \in analysis.findings : Conflict(f) /\ f.criterion = j

\* The v0.2 design, lines 110 to 112: exhausted budgets "lead to an incomplete
\* decision rather than a pass".
ExhaustedIsIncomplete ==
  \A c \in Clients :
    /\ pc[c] = "done"
    /\ request[c].command \in {"analyze-requirement", "review-pr --github-issue-file"}
    /\ Analysis(requirement[c]).reason = "BUDGET_EXHAUSTED"
    => decision[c] = "incomplete"

=============================================================================
