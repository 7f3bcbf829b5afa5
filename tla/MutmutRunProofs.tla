--------------------------- MODULE MutmutRunProofs ---------------------------
(***************************************************************************)
(* Proofs about MutmutRun for all repositories, metadata, tests and edits. *)
(***************************************************************************)
EXTENDS MutmutRun, TLAPS

-----------------------------------------------------------------------------
(***************************************************************************)
(* The revision.  A file that was as the revision has it when that was     *)
(* resolved, and was not edited between that and its copy, is copied as    *)
(* the revision has it, and the metadata are those of the copy.            *)
(***************************************************************************)

Version == Versions \union {Gone}

ReposTyped ==
  /\ repo \in [Files -> Version]
  /\ old \in [Targets -> {NoMeta, Invalid} \union ExitCodes]
  /\ DOMAIN copied \subseteq Files
  /\ \A f \in DOMAIN copied : copied[f] \in Version

\* moved is there to tell which files these are not.
CopyIsOfTheRevision ==
  /\ pc \in {"resolve", "detect"} => copied = Nothing
  /\ pc \in {"detect", "copy"} =>
       \A f \in Files \ moved : f \notin DOMAIN copied => repo[f] = resolved[f]
  /\ pc # "resolve" =>
       \A f \in DOMAIN copied : f \in moved \/ copied[f] = resolved[f]
  /\ pc \in {"mutate", "read", "collect", "returned"} => DOMAIN copied = Files
  /\ pc \in {"read", "collect", "returned"} => meta \in Metas(copied)

RevisionInv == ReposTyped /\ CopyIsOfTheRevision

\* Nothing has no entries.
LEMMA NothingIsEmpty == DOMAIN Nothing = {}
BY DEF Nothing

\* The copy shows the resolved revision but for files with uncommitted changes or
\* edited before they were copied, and the metadata are those of the copy or of an
\* earlier run.
THEOREM RevisionKept == Spec => []RevisionInv
<1>1. Init => RevisionInv
  BY MutmutInputs, NothingIsEmpty
     DEF Init, RevisionInv, ReposTyped, CopyIsOfTheRevision, Version
<1>2. RevisionInv /\ [Next]_vars => RevisionInv'
  <2> SUFFICES ASSUME RevisionInv, [Next]_vars PROVE RevisionInv'
    OBVIOUS
  <2> USE DEF RevisionInv, Raise
  <2>1. CASE Resolve
    <3>1. /\ pc = "resolve" /\ pc' = "detect"
          /\ UNCHANGED <<repo, old, copied, meta>>
          /\ moved' = {f \in Files : repo[f] # resolved'[f]}
      BY <2>1 DEF Resolve
    <3>2. \A f \in Files \ moved' : repo'[f] = resolved'[f]
      BY <3>1
    <3> QED
      BY <3>1, <3>2, NothingIsEmpty DEF ReposTyped, CopyIsOfTheRevision
  <2>2. CASE Detect
    BY <2>2, NothingIsEmpty DEF Detect, world, collected, ReposTyped, CopyIsOfTheRevision
  <2>3. CASE Copy
    <3> USE <2>3 DEF world
    <3>1. pc = "copy" /\ UNCHANGED <<repo, old, moved, resolved, meta>>
      BY DEF Copy
    <3>2. PICK f \in Files \ DOMAIN copied :
            \/ CopyFile(f)
            \/ f \notin Present /\ Raise /\ UNCHANGED copied
      BY DEF Copy
    <3>3. CASE CopyFile(f)
      <4>1. /\ DOMAIN copied' = DOMAIN copied \union {f}
            /\ copied'[f] = repo[f]
            /\ \A g \in DOMAIN copied : copied'[g] = copied[g]
        BY <3>2, <3>3 DEF CopyFile
      <4>2. pc' = IF Files \subseteq DOMAIN copied' THEN "mutate" ELSE "copy"
        BY <3>3 DEF CopyFile
      <4>3. ReposTyped'
        BY <3>1, <3>2, <4>1 DEF ReposTyped
      <4>4. f \in moved \/ copied'[f] = resolved[f]
        BY <3>1, <3>2, <4>1 DEF CopyIsOfTheRevision
      <4>5. CopyIsOfTheRevision'
        BY <3>1, <3>2, <4>1, <4>2, <4>3, <4>4 DEF CopyIsOfTheRevision, ReposTyped
      <4> QED
        BY <4>3, <4>5
    <3>4. CASE Raise /\ UNCHANGED copied
      BY <3>1, <3>4 DEF ReposTyped, CopyIsOfTheRevision
    <3> QED
      BY <3>2, <3>3, <3>4
  <2>4. CASE Mutate
    <3>1. UNCHANGED <<repo, old, moved, resolved, copied>>
      BY <2>4 DEF Mutate, RunMutmut, world
    <3>2. \/ pc' = "read" /\ meta' \in Metas(copied)
          \/ pc' = "raised"
      BY <2>4 DEF Mutate, RunMutmut
    <3>3. pc = "mutate"
      BY <2>4 DEF Mutate, RunMutmut
    <3>4. pc' = "read" => meta' \in Metas(copied)'
      BY <3>1, <3>2 DEF Metas, MetasOf
    <3> QED
      BY <3>1, <3>2, <3>3, <3>4 DEF ReposTyped, CopyIsOfTheRevision
  <2>5. ASSUME pc \in {"read", "collect"}, pc' \in {"collect", "returned", "raised"},
               UNCHANGED <<repo, old, moved, resolved, copied, meta>>
        PROVE  RevisionInv'
    <3>1. (meta \in Metas(copied))' = (meta \in Metas(copied))
      BY <2>5 DEF Metas, MetasOf
    <3> QED
      BY <2>5, <3>1 DEF ReposTyped, CopyIsOfTheRevision
  <2>6. CASE Read
    <3>1. pc = "read" /\ pc' \in {"collect", "raised"}
      BY <2>6 DEF Read
    <3>2. UNCHANGED <<repo, old, moved, resolved, copied, meta>>
      BY <2>6 DEF Read, world
    <3> QED
      BY <2>5, <3>1, <3>2
  <2>7. CASE CollectOne
    <3>1. pc = "collect" /\ pc' \in {"collect", "raised"}
      BY <2>7 DEF CollectOne, Collect
    <3>2. UNCHANGED <<repo, old, moved, resolved, copied, meta>>
      BY <2>7 DEF CollectOne, world
    <3> QED
      BY <2>5, <3>1, <3>2
  <2>8. CASE Conclude
    <3>1. pc = "collect" /\ pc' \in {"returned", "raised"}
      BY <2>8 DEF Conclude
    <3>2. UNCHANGED <<repo, old, moved, resolved, copied, meta>>
      BY <2>8 DEF Conclude, world
    <3> QED
      BY <2>5, <3>1, <3>2
  <2>9. CASE EditFile
    <3>1. UNCHANGED <<pc, old, resolved, copied, meta>>
      BY <2>9 DEF EditFile
    <3>2. (meta \in Metas(copied))' = (meta \in Metas(copied))
      BY <3>1 DEF Metas, MetasOf
    <3>3. PICK f \in Files, v \in Version :
            /\ repo' = [repo EXCEPT ![f] = v]
            /\ moved' = IF pc \in {"detect", "copy"} /\ f \notin DOMAIN copied
                        THEN moved \union {f} ELSE moved
      BY <2>9 DEF EditFile, Version
    <3>4. ReposTyped'
      BY <3>1, <3>3 DEF ReposTyped
    <3>5. CopyIsOfTheRevision'
      BY <3>1, <3>2, <3>3 DEF ReposTyped, CopyIsOfTheRevision
    <3> QED
      BY <3>4, <3>5
  <2>10. ASSUME UNCHANGED <<pc, repo, old, moved, resolved, copied, meta>>
         PROVE  RevisionInv'
    <3>1. (meta \in Metas(copied))' = (meta \in Metas(copied))
      BY <2>10 DEF Metas, MetasOf
    <3> QED
      BY <2>10, <3>1 DEF ReposTyped, CopyIsOfTheRevision
  <2>11. CASE DeadlinePasses
    BY <2>10, <2>11 DEF DeadlinePasses, world
  <2>12. CASE UNCHANGED vars
    BY <2>10, <2>12 DEF vars, world
  <2> QED
    BY <2>1, <2>2, <2>3, <2>4, <2>6, <2>7, <2>8, <2>9, <2>11, <2>12 DEF Next, Step
<1> QED
  BY <1>1, <1>2, PTL DEF Spec

-----------------------------------------------------------------------------
(***************************************************************************)
(* The collection.  Whatever is no longer to do has a result of its own,   *)
(* which the status of its exit code gives together with some tests.       *)
(***************************************************************************)

Collected == Codes \ todo

\* No record is unreadable when the loop over the mutants begins.
RecordsReadable ==
  /\ pc \in {"read", "collect", "returned"} => clean \in BOOLEAN
  /\ pc \in {"resolve", "detect", "copy", "mutate", "read"} => results = Nothing
  /\ pc \in {"collect", "returned"} =>
       /\ \A t \in Records : meta[t] # Invalid /\ meta[t] \in ExitCodes
       /\ todo \subseteq Codes
       /\ complete \in BOOLEAN

EachHasItsResult ==
  pc \in {"collect", "returned"} =>
    /\ \A code \in Collected :
         /\ code[2] \in DOMAIN results
         /\ \E tests \in SUBSET Tests :
              results[code[2]] = MutmutEntry([status |-> meta[code[1]][code[2]], tests |-> tests])
    /\ \A m \in DOMAIN results : \E code \in Collected : code[2] = m
    /\ \A code, other \in Collected : code[2] = other[2] => code = other

\* observed_complete, which no later mutant sets again.
CompleteIsEarned ==
  pc \in {"collect", "returned"} =>
    complete <=> clean /\ \A m \in DOMAIN results : results[m].outcome \in Eligible \union {"timeout"}

\* The results of the mutants, Absent for those without.
AllResults == [m \in Mutants |-> IF m \in DOMAIN results THEN results[m] ELSE Absent]

AnswerIsConcluded ==
  pc = "returned" =>
    /\ todo = {} /\ DOMAIN results # {}
    /\ LET process == Process(OutcomesOf(AllResults))
       IN  answer = Result(process, IF process = "completed" THEN "complete" ELSE "partial",
                           AllResults, {}, TRUE)

CollectionInv == RecordsReadable /\ EachHasItsResult /\ CompleteIsEarned /\ AnswerIsConcluded

\* A record that is not invalid gives exit codes for mutants.
LEMMA RecordsGiveExitCodes ==
  ASSUME RevisionInv, pc = "read", NEW t \in Records, meta[t] # Invalid
  PROVE  meta[t] \in ExitCodes
<1>1. t \in Targets /\ meta[t] # NoMeta /\ meta[t] \in MetasOf(t, copied[t])
  BY DEF Records, Metas, RevisionInv, CopyIsOfTheRevision
<1>2. copied[t] \in Version
  BY <1>1, MutmutInputs DEF RevisionInv, ReposTyped, CopyIsOfTheRevision
<1>3. CASE meta[t] = old[t]
  BY <1>1, <1>3 DEF RevisionInv, ReposTyped
<1>4. CASE copied[t] # Gone /\ \E S \in SUBSET MutantsOf[t][copied[t]] : meta[t] \in [S -> Statuses]
  <2>1. MutantsOf[t][copied[t]] \subseteq Mutants
    BY <1>1, <1>2, <1>4, MutmutInputs DEF Version
  <2> QED
    BY <1>4, <2>1 DEF ExitCodes
<1> QED
  BY <1>1, <1>3, <1>4 DEF MetasOf

\* What a code of a readable record is.
LEMMA CodesTyped ==
  ASSUME NEW code \in Codes, \A t \in Records : meta[t] \in ExitCodes
  PROVE  /\ code = <<code[1], code[2]>>
         /\ code[1] \in Records /\ code[2] \in Mutants
         /\ meta[code[1]][code[2]] \in MutmutStatuses
<1>1. code \in Records \X Mutants /\ code[2] \in DOMAIN meta[code[1]]
  BY DEF Codes
<1>2. PICK S \in SUBSET Mutants : meta[code[1]] \in [S -> Statuses]
  BY <1>1 DEF ExitCodes
<1> QED
  BY <1>1, <1>2, MutmutInputs

\* A step that adds one result keeps the collection.
LEMMA CollectKeeps ==
  ASSUME CollectionInv, pc = "collect", NEW code \in todo, NEW tests \in SUBSET Tests,
         code[2] \notin DOMAIN results, Collect(code, tests), UNCHANGED <<clean, meta>>
  PROVE  CollectionInv'
<1> DEFINE entry == MutmutEntry([status |-> meta[code[1]][code[2]], tests |-> tests])
<1>1. /\ pc' = "collect"
      /\ todo' = todo \ {code}
      /\ complete' = (complete /\ entry.outcome \in Eligible \union {"timeout"})
      /\ results' = [k \in DOMAIN results \union {code[2]} |->
                        IF k = code[2] THEN entry ELSE results[k]]
  BY DEF Collect
<1>2. /\ DOMAIN results' = DOMAIN results \union {code[2]}
      /\ results'[code[2]] = entry
      /\ \A m \in DOMAIN results : m # code[2] /\ results'[m] = results[m]
  BY <1>1
<1> HIDE DEF entry
<1>3. Codes' = Codes /\ Records' = Records
  BY DEF Codes, Records
<1>4. code \in Codes /\ todo \subseteq Codes
  BY DEF CollectionInv, RecordsReadable
<1>5. Collected' = Collected \union {code} /\ code \notin Collected
  BY <1>1, <1>3, <1>4 DEF Collected
<1>6. RecordsReadable'
  BY <1>1, <1>3 DEF CollectionInv, RecordsReadable
<1>7. EachHasItsResult'
  <2>1. ASSUME NEW c \in Collected'
        PROVE  /\ c[2] \in DOMAIN results'
               /\ \E ts \in SUBSET Tests :
                    results'[c[2]] = MutmutEntry([status |-> meta'[c[1]][c[2]], tests |-> ts])
    <3>1. CASE c = code
      BY <1>2, <3>1 DEF entry
    <3>2. CASE c \in Collected
      BY <1>2, <3>2 DEF CollectionInv, EachHasItsResult
    <3> QED
      BY <1>5, <3>1, <3>2
  <2>2. ASSUME NEW m \in DOMAIN results' PROVE \E c \in Collected' : c[2] = m
    BY <1>2, <1>5 DEF CollectionInv, EachHasItsResult
  <2>3. ASSUME NEW c \in Collected', NEW d \in Collected', c[2] = d[2] PROVE c = d
    <3>1. \A k \in Collected : k[2] \in DOMAIN results /\ k[2] # code[2]
      BY <1>2 DEF CollectionInv, EachHasItsResult
    <3> QED
      BY <1>5, <2>3, <3>1 DEF CollectionInv, EachHasItsResult
  <2> QED
    BY <2>1, <2>2, <2>3 DEF EachHasItsResult
<1>8. CompleteIsEarned'
  BY <1>1, <1>2 DEF CollectionInv, CompleteIsEarned
<1>9. AnswerIsConcluded'
  BY <1>1 DEF AnswerIsConcluded
<1> QED
  BY <1>6, <1>7, <1>8, <1>9 DEF CollectionInv

\* Of a clean run and of an unclean one alike, what is collected is that of the
\* metadata, one entry for each mutant that is done; observed_complete alone says
\* that mutmut was clean, and that every entry was killed, survived or timed out.
THEOREM CollectionKept == Spec => []CollectionInv
<1>1. Init => CollectionInv
  BY DEF Init, CollectionInv, RecordsReadable, EachHasItsResult, CompleteIsEarned, AnswerIsConcluded
<1>2. RevisionInv /\ CollectionInv /\ [Next]_vars => CollectionInv'
  <2> SUFFICES ASSUME RevisionInv, CollectionInv, [Next]_vars PROVE CollectionInv'
    OBVIOUS
  <2> USE DEF CollectionInv
  <2>1. ASSUME pc' = "raised" PROVE CollectionInv'
    BY <2>1 DEF RecordsReadable, EachHasItsResult, CompleteIsEarned, AnswerIsConcluded
  <2>2. ASSUME pc \in {"resolve", "detect", "copy"}, pc' \in {"detect", "copy", "mutate"},
               UNCHANGED results
        PROVE  CollectionInv'
    BY <2>2 DEF RecordsReadable, EachHasItsResult, CompleteIsEarned, AnswerIsConcluded
  <2>3. CASE Resolve
    BY <2>2, <2>3 DEF Resolve, collected
  <2>4. CASE Detect
    BY <2>1, <2>2, <2>4 DEF Detect, Raise, collected
  <2>5. CASE Copy
    BY <2>1, <2>2, <2>5 DEF Copy, CopyFile, Raise, collected
  <2>6. CASE Mutate
    <3>1. \/ pc' = "raised"
          \/ pc = "mutate" /\ pc' = "read" /\ clean' \in BOOLEAN /\ UNCHANGED results
      BY <2>6 DEF Mutate, RunMutmut, Raise, collected
    <3> QED
      BY <2>1, <3>1 DEF RecordsReadable, EachHasItsResult, CompleteIsEarned, AnswerIsConcluded
  <2>7. CASE Read
    <3>1. CASE pc' = "raised"
      BY <2>1, <3>1
    <3>2. CASE pc' # "raised"
      <4>1. /\ pc = "read" /\ pc' = "collect"
            /\ \A t \in Records : meta[t] # Invalid
            /\ todo' = Codes /\ complete' = clean
            /\ UNCHANGED <<results, meta, clean>>
        BY <2>7, <3>2 DEF Read, Raise
      <4>2. Codes' = Codes /\ Records' = Records
        BY <4>1 DEF Codes, Records
      <4>3. \A t \in Records : meta[t] \in ExitCodes
        BY <4>1, RecordsGiveExitCodes
      <4>4. Collected' = {} /\ DOMAIN results' = {}
        BY <4>1, <4>2, NothingIsEmpty DEF Collected, RecordsReadable
      <4> QED
        BY <4>1, <4>2, <4>3, <4>4
           DEF RecordsReadable, EachHasItsResult, CompleteIsEarned, AnswerIsConcluded
    <3> QED
      BY <3>1, <3>2
  <2>8. CASE CollectOne
    <3>1. pc = "collect" /\ UNCHANGED <<clean, meta>>
      BY <2>8 DEF CollectOne
    <3>2. \/ pc' = "raised"
          \/ \E code \in todo, tests \in SUBSET Tests :
               code[2] \notin DOMAIN results /\ Collect(code, tests)
      BY <2>8 DEF CollectOne, Raise
    <3> QED
      BY <2>1, <3>1, <3>2, CollectKeeps
  <2>9. CASE Conclude
    <3>1. CASE pc' = "raised"
      BY <2>1, <3>1
    <3>2. CASE pc' # "raised"
      <4>1. /\ pc = "collect" /\ pc' = "returned" /\ todo = {} /\ DOMAIN results # {}
            /\ UNCHANGED <<todo, complete, results, meta, clean>>
        BY <2>9, <3>2 DEF Conclude, Raise, collected
      <4>2. LET process == Process(OutcomesOf(AllResults))
            IN  answer' = Result(process, IF process = "completed" THEN "complete" ELSE "partial",
                                 AllResults, {}, TRUE)
        BY <2>9, <3>2 DEF Conclude, Raise, AllResults
      <4>3. Codes' = Codes /\ Records' = Records /\ Collected' = Collected
        BY <4>1 DEF Codes, Records, Collected
      <4>4. AnswerIsConcluded'
        BY <4>1, <4>2 DEF AnswerIsConcluded, AllResults, Process
      <4> QED
        BY <4>1, <4>3, <4>4 DEF RecordsReadable, EachHasItsResult, CompleteIsEarned
    <3> QED
      BY <3>1, <3>2
  <2>10. ASSUME UNCHANGED <<pc, clean, meta, collected, answer>>
         PROVE  CollectionInv'
    <3>1. UNCHANGED <<pc, clean, meta, todo, complete, results, answer>>
      BY <2>10 DEF collected
    <3>2. Codes' = Codes /\ Records' = Records /\ Collected' = Collected
      BY <3>1 DEF Codes, Records, Collected
    <3>3. AnswerIsConcluded'
      BY <3>1 DEF AnswerIsConcluded, AllResults, Process
    <3> QED
      BY <3>1, <3>2, <3>3 DEF RecordsReadable, EachHasItsResult, CompleteIsEarned
  <2>11. CASE EditFile
    BY <2>10, <2>11 DEF EditFile
  <2>12. CASE DeadlinePasses
    BY <2>10, <2>12 DEF DeadlinePasses
  <2>13. CASE UNCHANGED vars
    BY <2>10, <2>13 DEF vars
  <2> QED
    BY <2>3, <2>4, <2>5, <2>6, <2>7, <2>8, <2>9, <2>11, <2>12, <2>13 DEF Next, Step
<1>3. Spec => []RevisionInv
  BY RevisionKept
<1> QED
  BY <1>1, <1>2, <1>3, PTL DEF Spec

-----------------------------------------------------------------------------
(* What a result says.                                                     *)

\* An entry holds the outcome of its status, and the tests where there were any.
LEMMA EntryOfStatus ==
  ASSUME NEW status \in MutmutStatuses, NEW tests \in SUBSET Tests
  PROVE  LET entry == MutmutEntry([status |-> status, tests |-> tests])
         IN  /\ entry = MutmutEntry([status |-> status, tests |-> entry.tests])
             /\ entry.outcome # "absent"
             /\ entry.outcome \in Eligible => entry.outcome = status /\ entry.tests # {}
BY DEF MutmutEntry, MutmutOutcome, MutmutStatuses, MutmutNotRun, Eligible

\* At the end every code of mutmut has its result, and every result its one code.
LEMMA ResultsOfTheEnd ==
  ASSUME CollectionInv, pc = "returned"
  PROVE  /\ Collected = Codes /\ DOMAIN results # {} /\ DOMAIN results \subseteq Mutants
         /\ \A code \in Codes :
              /\ code[2] \in DOMAIN results
              /\ meta[code[1]][code[2]] \in MutmutStatuses
              /\ \E tests \in SUBSET Tests :
                   results[code[2]] = MutmutEntry([status |-> meta[code[1]][code[2]], tests |-> tests])
         /\ \A m \in DOMAIN results : \E code \in Codes : code[2] = m
         /\ \A code, other \in Codes : code[2] = other[2] => code = other
<1>1. Collected = Codes /\ DOMAIN results # {}
  BY DEF CollectionInv, AnswerIsConcluded, Collected
<1>2. \A t \in Records : meta[t] \in ExitCodes
  BY DEF CollectionInv, RecordsReadable
<1>3. \A code \in Codes : code[2] \in Mutants /\ meta[code[1]][code[2]] \in MutmutStatuses
  BY <1>2, CodesTyped
<1>4. \A m \in DOMAIN results : \E code \in Codes : code[2] = m
  BY <1>1 DEF CollectionInv, EachHasItsResult
<1>5. DOMAIN results \subseteq Mutants
  BY <1>3, <1>4
<1> QED
  BY <1>1, <1>3, <1>4, <1>5 DEF CollectionInv, EachHasItsResult

\* No mutant that has a result is left out of what is reported.
LEMMA ReportedAreResults ==
  ASSUME CollectionInv, pc = "returned"
  PROVE  /\ Reported(AllResults) = DOMAIN results
         /\ OutcomesOf(AllResults) = {results[m].outcome : m \in DOMAIN results}
<1>1. DOMAIN results \subseteq Mutants
  BY ResultsOfTheEnd
<1>2. ASSUME NEW m \in DOMAIN results PROVE results[m].outcome # "absent"
  <2>1. PICK code \in Codes : code[2] = m
    BY ResultsOfTheEnd
  <2>2. PICK tests \in SUBSET Tests :
          results[m] = MutmutEntry([status |-> meta[code[1]][m], tests |-> tests])
    BY <2>1, ResultsOfTheEnd
  <2>3. meta[code[1]][m] \in MutmutStatuses
    BY <2>1, ResultsOfTheEnd
  <2>4. MutmutEntry([status |-> meta[code[1]][m], tests |-> tests]).outcome # "absent"
    BY <2>3, EntryOfStatus
  <2> QED
    BY <2>2, <2>4
<1>3. \A m \in Mutants : AllResults[m] = IF m \in DOMAIN results THEN results[m] ELSE Absent
  BY DEF AllResults
<1>4. Absent.outcome = "absent"
  BY DEF Absent
<1>5. Reported(AllResults) = DOMAIN results
  BY <1>1, <1>2, <1>3, <1>4 DEF Reported
<1> QED
  BY <1>1, <1>3, <1>5 DEF OutcomesOf

\* With observed_complete as it is, a run has the process that the service
\* model expects.
LEMMA ProcessOfOutcomes ==
  ASSUME NEW outcomes, outcomes # {}, complete \in BOOLEAN, clean \in BOOLEAN,
         complete <=> clean /\ outcomes \subseteq Eligible \union {"timeout"}
  PROVE  Process(outcomes) = MutmutProcess(clean, outcomes)
<1>1. CASE ~clean
  BY <1>1 DEF Process, MutmutProcess
<1>2. CASE clean /\ outcomes \subseteq Eligible
  BY <1>2 DEF Process, MutmutProcess
<1>3. CASE clean /\ ~(outcomes \subseteq Eligible)
  BY <1>3 DEF Process, MutmutProcess
<1> QED
  BY <1>1, <1>2, <1>3

\* The process a run returns is that of MutationProviders.
LEMMA ProcessIsExpected ==
  ASSUME CollectionInv, pc = "returned"
  PROVE  Process(OutcomesOf(AllResults)) = MutmutProcess(clean, OutcomesOf(AllResults))
<1>1. OutcomesOf(AllResults) = {results[m].outcome : m \in DOMAIN results}
  BY ReportedAreResults
<1>2. PICK m \in DOMAIN results : TRUE
  BY ResultsOfTheEnd
<1>3. results[m].outcome \in OutcomesOf(AllResults)
  BY <1>1, <1>2
<1>4. complete <=> clean /\ OutcomesOf(AllResults) \subseteq Eligible \union {"timeout"}
  BY <1>1 DEF CollectionInv, CompleteIsEarned
<1>5. complete \in BOOLEAN /\ clean \in BOOLEAN
  BY DEF CollectionInv, RecordsReadable
<1> QED
  BY <1>3, <1>4, <1>5, ProcessOfOutcomes

\* What run collects along its loop, with observed_complete, is the result that
\* the normalization of MutationProviders gives, for all metadata and all tests.
THEOREM ResultsAreExpected == Spec => []ResultIsExpected
<1>1. CollectionInv => ResultIsExpected
  <2> SUFFICES ASSUME CollectionInv, pc = "returned" PROVE ResultIsExpected
    BY DEF ResultIsExpected
  <2> DEFINE status(m) == CHOOSE s \in Statuses :
                            \E t \in Records : m \in DOMAIN meta[t] /\ s = meta[t][m]
             observed  == [m \in DOMAIN results |-> [status |-> status(m), tests |-> results[m].tests]]
             process   == Process(OutcomesOf(AllResults))
  <2>1. ASSUME NEW m \in DOMAIN results
        PROVE  results[m] = MutmutEntry([status |-> status(m), tests |-> results[m].tests])
    <3>1. PICK code \in Codes : code[2] = m
      BY ResultsOfTheEnd
    <3>2. /\ code[1] \in Records /\ code = <<code[1], code[2]>> /\ m \in Mutants
          /\ m \in DOMAIN meta[code[1]]
      BY <3>1 DEF Codes
    <3>3. meta[code[1]][m] \in Statuses
      <4>1. meta[code[1]] \in ExitCodes
        BY <3>2 DEF CollectionInv, RecordsReadable
      <4> QED
        BY <3>2, <4>1 DEF ExitCodes
    <3>4. \A t \in Records : m \in DOMAIN meta[t] => t = code[1]
      <4>1. ASSUME NEW t \in Records, m \in DOMAIN meta[t] PROVE t = code[1]
        <5>1. <<t, m>> \in Codes
          BY <3>2, <4>1 DEF Codes
        <5>2. <<t, m>> = code
          BY <3>1, <5>1, ResultsOfTheEnd
        <5> QED
          BY <3>2, <5>2
      <4> QED
        BY <4>1
    <3>5. status(m) = meta[code[1]][m]
      BY <3>2, <3>3, <3>4
    <3>6. PICK tests \in SUBSET Tests :
            results[m] = MutmutEntry([status |-> meta[code[1]][m], tests |-> tests])
      BY <3>1, ResultsOfTheEnd
    <3>7. meta[code[1]][m] \in MutmutStatuses
      BY <3>1, ResultsOfTheEnd
    <3> HIDE DEF status
    <3> QED
      BY <3>5, <3>6, <3>7, EntryOfStatus
  <2>2. [m \in Mutants |-> IF m \in DOMAIN observed THEN MutmutEntry(observed[m]) ELSE Absent] = AllResults
    <3> HIDE DEF status
    <3> QED
      BY <2>1 DEF AllResults
  <2>3. process = MutmutProcess(clean, OutcomesOf(AllResults))
    BY ProcessIsExpected
  <2>4. answer = Result(process, IF process = "completed" THEN "complete" ELSE "partial",
                        AllResults, {}, TRUE)
    BY DEF CollectionInv, AnswerIsConcluded
  <2> HIDE DEF observed, process
  <2>5. MutmutResult(clean, observed) = answer
    BY <2>2, <2>3, <2>4 DEF MutmutResult
  <2> QED
    BY <2>5 DEF ResultIsExpected, observed
<1> QED
  BY <1>1, CollectionKept, PTL

\* A complete observation leaves no exit code of mutmut out, and none of its
\* mutants without tests, whatever mutmut wrote and whatever the tests were.
THEOREM CompleteMeansWhole == Spec => []CompleteIsWhole
<1>1. CollectionInv => CompleteIsWhole
  <2> SUFFICES ASSUME CollectionInv, pc = "returned", answer.observation = "complete"
               PROVE  /\ clean
                      /\ \A t \in Records : \A m \in DOMAIN meta[t] :
                           answer.results[m].outcome = meta[t][m] /\ answer.results[m].tests # {}
    BY DEF CompleteIsWhole
  <2> DEFINE process == Process(OutcomesOf(AllResults))
  <2>1. /\ answer.observation = IF process = "completed" THEN "complete" ELSE "partial"
        /\ answer.results = AllResults
    BY DEF CollectionInv, AnswerIsConcluded, Result
  <2>2. complete /\ OutcomesOf(AllResults) \subseteq Eligible
    BY <2>1 DEF Process
  <2>3. clean
    BY <2>2 DEF CollectionInv, CompleteIsEarned
  <2>4. ASSUME NEW t \in Records, NEW m \in DOMAIN meta[t]
        PROVE  AllResults[m].outcome = meta[t][m] /\ AllResults[m].tests # {}
    <3>1. meta[t] \in ExitCodes
      BY DEF CollectionInv, RecordsReadable
    <3>2. m \in Mutants /\ <<t, m>> \in Codes
      BY <3>1 DEF ExitCodes, Codes
    <3>3. m \in DOMAIN results /\ meta[t][m] \in MutmutStatuses
      BY <3>2, ResultsOfTheEnd
    <3>4. PICK tests \in SUBSET Tests :
            results[m] = MutmutEntry([status |-> meta[t][m], tests |-> tests])
      BY <3>2, ResultsOfTheEnd
    <3>5. results[m].outcome \in Eligible
      BY <2>2, <3>3, ReportedAreResults
    <3>6. results[m].outcome = meta[t][m] /\ results[m].tests # {}
      BY <3>3, <3>4, <3>5, EntryOfStatus
    <3> QED
      BY <3>2, <3>3, <3>6 DEF AllResults
  <2> QED
    BY <2>1, <2>3, <2>4
<1> QED
  BY <1>1, CollectionKept, PTL

\* The result is about mutants of the revision that was resolved first, but for
\* targets with uncommitted changes or edited before their copy, whose mutants
\* are those of the copy, and for what an earlier run has left.
THEOREM ResultsAreOfTheRevision == Spec => []ResultIsOfTheRevision
<1>1. RevisionInv /\ CollectionInv => ResultIsOfTheRevision
  <2> SUFFICES ASSUME RevisionInv, CollectionInv, pc = "returned",
                      NEW m \in Reported(answer.results)
               PROVE  \E t \in Targets :
                        \/ resolved[t] # Gone /\ m \in MutantsOf[t][resolved[t]]
                        \/ t \in moved /\ copied[t] # Gone /\ m \in MutantsOf[t][copied[t]]
                        \/ old[t] # NoMeta /\ m \in DOMAIN old[t]
    BY DEF ResultIsOfTheRevision
  <2>1. answer.results = AllResults
    BY DEF CollectionInv, AnswerIsConcluded, Result
  <2>2. m \in DOMAIN results
    BY <2>1, ReportedAreResults
  <2>3. PICK code \in Codes : code[2] = m
    BY <2>2, ResultsOfTheEnd
  <2>4. PICK t \in Records : t = code[1] /\ m \in DOMAIN meta[t]
    BY <2>3 DEF Codes
  <2>5. t \in Targets /\ t \in Files /\ meta[t] # NoMeta /\ meta[t] \in MetasOf(t, copied[t])
    BY MutmutInputs DEF Records, Metas, RevisionInv, CopyIsOfTheRevision
  <2>6. CASE meta[t] = old[t]
    BY <2>4, <2>5, <2>6
  <2>7. CASE copied[t] # Gone /\ \E S \in SUBSET MutantsOf[t][copied[t]] : meta[t] \in [S -> Statuses]
    <3>1. m \in MutantsOf[t][copied[t]]
      BY <2>4, <2>7
    <3>2. copied[t] \in Versions /\ (t \in moved \/ copied[t] = resolved[t])
      BY <2>5, <2>7 DEF RevisionInv, ReposTyped, Version, CopyIsOfTheRevision
    <3> QED
      BY <2>5, <2>7, <3>1, <3>2
  <2>8. meta[t] # Invalid
    BY DEF CollectionInv, RecordsReadable
  <2> QED
    BY <2>5, <2>6, <2>7, <2>8 DEF MetasOf
<1> QED
  BY <1>1, RevisionKept, CollectionKept, PTL

=============================================================================
