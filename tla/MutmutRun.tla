------------------------------- MODULE MutmutRun -------------------------------
(***************************************************************************)
(* One run of MutmutMutationBackend.run (mutation_adapters.py) as the test *)
(* effectiveness service uses it: the service resolves the revision of the *)
(* repository, HEAD if there is one whatever is not committed; the backend *)
(* copies the working tree file by file, mutmut runs in the copy, and its  *)
(* metadata are collected, with one `mutmut tests-for-mutant` for every    *)
(* mutant that has a verdict.  Meanwhile files of the repository are       *)
(* edited, and the deadline passes.                                        *)
(*                                                                         *)
(* mutmut is external: it leaves any metadata that the copied versions of  *)
(* the targets allow, and may leave what an earlier run left in the        *)
(* repository, since the copy takes a `mutants` directory along.           *)
(* MutationProviders has the same normalization in one step.               *)
(***************************************************************************)
EXTENDS MutationProviders, FiniteSets

CONSTANTS
  Files,         \* of the repository
  Targets,       \* request.target_paths
  Versions,      \* of a file
  Gone,          \* a file that is not there
  NoMeta,        \* a target without metadata
  Invalid,       \* metadata too large, unreadable or of another form
  MutantsOf,     \* what mutmut makes of a version of a target
  Statuses,      \* what exit codes stand for, as far as they are looked at
  Heads,         \* the trees that HEAD may name
  OldMetas,      \* the metadata that may lie in the repository
  MaxMutants,    \* request.max_mutants
  MaxEdits       \* bounds the edits

\* What mutmut may leave of a target for each of its mutants.
ExitCodes == UNION {[S -> Statuses] : S \in SUBSET Mutants}

\* Mutants are all that mutmut makes of any version, or has made earlier.
ASSUME MutmutInputs ==
  /\ Targets \subseteq Files
  /\ Statuses \subseteq MutmutStatuses
  /\ \A t \in Targets, v \in Versions : MutantsOf[t][v] \subseteq Mutants
  /\ Heads \subseteq [Files -> Versions \union {Gone}]
  /\ OldMetas \subseteq [Targets -> {NoMeta, Invalid} \union ExitCodes]

VARIABLES
  pc,
  repo,       \* the working tree: file -> version
  old,        \* target -> metadata of an earlier run
  edits,
  resolved,   \* the tree that the resolved revision names
  moved,      \* the files with changes that were not committed then, or edited
              \* after that and before they were copied
  expired,    \* the deadline of the backend has passed
  copied,     \* the controlled copy
  clean,      \* mutmut exited with 0
  meta,       \* target -> what mutmut left of it
  todo,       \* the mutants of the metadata that are not yet collected
  complete,   \* observed_complete
  results,    \* mutant -> entry, of those collected so far
  answer      \* the MutationBackendResult, NoResult before and without one

world     == <<repo, old, edits, moved>>
collected == <<todo, complete, results>>
vars      == <<pc, world, resolved, expired, copied, clean, meta, collected, answer>>

Nothing == [x \in {} |-> {}]

Init ==
  /\ pc = "resolve"
  /\ repo \in [Files -> Versions] /\ old \in OldMetas
  /\ edits = 0 /\ moved = {} /\ expired = FALSE
  /\ resolved = Nothing /\ copied = Nothing
  /\ clean = FALSE /\ meta = Nothing
  /\ todo = {} /\ complete = FALSE /\ results = Nothing /\ answer = NoResult

-----------------------------------------------------------------------------
\* MutationUnavailableError, MutationExecutionError, OSError of copytree or of a
\* program that is not there, UnicodeDecodeError of its output: no result.
Raise == pc' = "raised" /\ UNCHANGED <<collected, answer>>

\* resolve_repository_revision: git's HEAD, without a look at the working tree,
\* or the digest of the working tree where git gives none.
Resolve ==
  /\ pc = "resolve"
  /\ resolved' \in Heads \union {repo}
  /\ moved' = {f \in Files : repo[f] # resolved'[f]}
  /\ pc' = "detect"
  /\ UNCHANGED <<repo, old, edits, expired, copied, clean, meta, collected, answer>>

\* detect of the service and detect of run.
Detect ==
  /\ pc = "detect"
  /\ \/ pc' = "copy" /\ UNCHANGED <<collected, answer>>
     \/ Raise
  /\ UNCHANGED <<world, resolved, expired, copied, clean, meta>>

Present == {f \in Files : repo[f] # Gone}

\* copytree.  A file that vanished since its directory was listed raises at
\* the end, one that vanished before is not copied.
CopyFile(f) ==
  /\ copied' = [g \in DOMAIN copied \union {f} |-> IF g = f THEN repo[f] ELSE copied[g]]
  /\ pc' = IF Files \subseteq DOMAIN copied' THEN "mutate" ELSE "copy"
  /\ UNCHANGED <<collected, answer>>

Copy ==
  /\ pc = "copy"
  /\ \E f \in Files \ DOMAIN copied :
       \/ CopyFile(f)
       \/ f \notin Present /\ Raise /\ UNCHANGED copied
  /\ UNCHANGED <<world, resolved, expired, clean, meta>>

\* The metadata mutmut may leave of a target: none, invalid, the exit codes of
\* some of its mutants, or what was there.
MetasOf(t, version) ==
  {NoMeta, Invalid, old[t]}
    \union IF version = Gone THEN {}
           ELSE UNION {[S -> Statuses] : S \in SUBSET MutantsOf[t][version]}

Metas(tree) ==
  {found \in [Targets -> UNION {MetasOf(t, tree[t]) : t \in Targets}] :
     \A t \in Targets : found[t] \in MetasOf(t, tree[t])}

\* mutmut in a directory with these files.  It has at least a millisecond, so
\* it may end behind the deadline; when it is stopped the deadline has passed.
RunMutmut(tree) ==
  /\ pc = "mutate"
  /\ \/ /\ clean' \in BOOLEAN
        /\ meta' \in Metas(tree)
        /\ pc' = "read"
        /\ UNCHANGED <<expired, collected, answer>>
     \/ expired' \in {expired, TRUE} /\ Raise /\ UNCHANGED <<clean, meta>>
  /\ UNCHANGED <<world, resolved, copied>>

\* Mutant: mutmut runs in the repository itself.
MutateInPlace == RunMutmut(repo)

Mutate == RunMutmut(copied)

\* The loop over *.meta.
Records == {t \in Targets : meta[t] # NoMeta}

\* The exit codes, each of a record and a mutant.
Codes == {code \in Records \X Mutants : code[2] \in DOMAIN meta[code[1]]}

\* Mutant: the exit status of mutmut is not looked at.
ReadUnclean ==
  /\ pc = "read"
  /\ IF Records = {} \/ \E t \in Records : meta[t] = Invalid
     THEN Raise
     ELSE /\ pc' = "collect"
          /\ todo' = Codes
          /\ complete' = TRUE
          /\ UNCHANGED <<results, answer>>
  /\ UNCHANGED <<world, resolved, expired, copied, clean, meta>>

Read ==
  /\ pc = "read"
  /\ IF Records = {} \/ \E t \in Records : meta[t] = Invalid
     THEN Raise
     ELSE /\ pc' = "collect"
          /\ todo' = Codes
          /\ complete' = clean
          /\ UNCHANGED <<results, answer>>
  /\ UNCHANGED <<world, resolved, expired, copied, clean, meta>>

-----------------------------------------------------------------------------
(* The loop over the mutants of the records, here in any order.            *)

AsksForTests == {"killed", "survived", "timeout", "suspicious", "segfault", "interrupted", "unchecked"}

\* observed_complete survives a verdict with a test and a timeout.
Collect(code, tests) ==
  LET m     == code[2]
      entry == MutmutEntry([status |-> meta[code[1]][m], tests |-> tests])
  IN  /\ results' = [k \in DOMAIN results \union {m} |-> IF k = m THEN entry ELSE results[k]]
      /\ complete' = (complete /\ entry.outcome \in Eligible \union {"timeout"})
      /\ todo' = todo \ {code}
      /\ UNCHANGED <<pc, answer>>

\* Mutant: a mutant that is met again replaces its result.
CollectAgain ==
  /\ pc = "collect"
  /\ \E code \in todo :
       \/ /\ meta[code[1]][code[2]] \notin AsksForTests
          /\ Collect(code, {}) /\ UNCHANGED expired
       \/ /\ meta[code[1]][code[2]] \in AsksForTests /\ ~expired
          /\ \E tests \in SUBSET Tests : Collect(code, tests)
          /\ UNCHANGED expired
       \/ /\ meta[code[1]][code[2]] \in AsksForTests
          /\ expired' \in {expired, TRUE} /\ Raise
  /\ UNCHANGED <<world, resolved, copied, clean, meta>>

\* A mutant of two records raises.  _tests_for_mutant gives the selected tests
\* that mutmut names, none when its command fails, and raises behind the deadline
\* or when the deadline stops the command.
CollectOne ==
  /\ pc = "collect"
  /\ \E code \in todo :
       LET asks == meta[code[1]][code[2]] \in AsksForTests
       IN  \/ code[2] \in DOMAIN results /\ Raise /\ UNCHANGED expired
           \/ /\ code[2] \notin DOMAIN results /\ ~asks
              /\ Collect(code, {}) /\ UNCHANGED expired
           \/ /\ code[2] \notin DOMAIN results /\ asks /\ ~expired
              /\ \E tests \in SUBSET Tests : Collect(code, tests)
              /\ UNCHANGED expired
           \/ /\ code[2] \notin DOMAIN results /\ asks
              /\ expired' \in {expired, TRUE} /\ Raise
  /\ UNCHANGED <<world, resolved, copied, clean, meta>>

Process(outcomes) ==
  CASE complete /\ outcomes \subseteq Eligible               -> "completed"
    [] ~(complete /\ outcomes \subseteq Eligible)
         /\ outcomes \cap (Eligible \union {"timeout"}) # {} -> IF clean THEN "partial" ELSE "error"
    [] OTHER                                                 -> IF clean THEN "not_run" ELSE "error"

Conclude ==
  /\ pc = "collect" /\ todo = {}
  /\ IF DOMAIN results = {} \/ Cardinality(DOMAIN results) > MaxMutants
     THEN Raise
     ELSE LET all     == [m \in Mutants |-> IF m \in DOMAIN results THEN results[m] ELSE Absent]
              process == Process(OutcomesOf(all))
          IN  /\ answer' = Result(process, IF process = "completed" THEN "complete" ELSE "partial",
                                  all, {}, TRUE)
              /\ pc' = "returned"
              /\ UNCHANGED collected
  /\ UNCHANGED <<world, resolved, expired, copied, clean, meta>>

Step ==
  Resolve \/ Detect \/ Copy \/ Mutate \/ Read \/ CollectOne \/ Conclude

-----------------------------------------------------------------------------
(* Somebody else.                                                          *)

Running == pc \notin {"returned", "raised"}

EditFile ==
  /\ Running /\ edits < MaxEdits
  /\ \E f \in Files, v \in Versions \union {Gone} :
       /\ v # repo[f]
       /\ repo' = [repo EXCEPT ![f] = v]
       /\ moved' = IF pc \in {"detect", "copy"} /\ f \notin DOMAIN copied
                   THEN moved \union {f} ELSE moved
  /\ edits' = edits + 1
  /\ UNCHANGED <<pc, old, resolved, expired, copied, clean, meta, collected, answer>>

\* The deadline counts from the end of detect.
DeadlinePasses ==
  /\ Running /\ pc \notin {"resolve", "detect"} /\ ~expired
  /\ expired' = TRUE
  /\ UNCHANGED <<pc, world, resolved, copied, clean, meta, collected, answer>>

Next == Step \/ EditFile \/ DeadlinePasses

Spec == Init /\ [][Next]_vars

-----------------------------------------------------------------------------
\* The service model takes any MutmutResult for what mutmut may answer.  What
\* run computes along its loop, with observed_complete, is the result that
\* MutmutResult gives for the metadata and the tests that were named.
ResultIsExpected ==
  pc = "returned" =>
    LET status(m) == CHOOSE s \in Statuses : \E t \in Records : m \in DOMAIN meta[t] /\ s = meta[t][m]
    IN  answer = MutmutResult(clean, [m \in DOMAIN results |->
                                        [status |-> status(m), tests |-> results[m].tests]])

\* A complete observation leaves nothing out: mutmut succeeded, and every mutant
\* it has an exit code for, in whichever target, is killed or survived as the
\* code says, before the tests that were named.
CompleteIsWhole ==
  pc = "returned" /\ answer.observation = "complete" =>
    /\ clean
    /\ \A t \in Records : \A m \in DOMAIN meta[t] :
         answer.results[m].outcome = meta[t][m] /\ answer.results[m].tests # {}

\* The run is labelled with the revision that was resolved first.  The result
\* is about the mutants of that revision, whatever is edited while mutmut runs
\* and later, but for targets with changes that were not committed, or edited
\* before their copy, whose mutants are those of the copy, and for what an
\* earlier run has left in the repository.
ResultIsOfTheRevision ==
  pc = "returned" =>
    \A m \in Reported(answer.results) :
      \E t \in Targets :
        \/ resolved[t] # Gone /\ m \in MutantsOf[t][resolved[t]]
        \/ t \in moved /\ copied[t] # Gone /\ m \in MutantsOf[t][copied[t]]
        \/ old[t] # NoMeta /\ m \in DOMAIN old[t]

=============================================================================
