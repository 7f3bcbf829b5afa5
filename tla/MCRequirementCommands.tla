------------------------ MODULE MCRequirementCommands ------------------------
(***************************************************************************)
(* Small instances of RequirementCommands.  One process analyzes every     *)
(* requirement of up to four criteria; two or three processes run any      *)
(* commands on a few requirements, in every kind of database.              *)
(***************************************************************************)
EXTENDS RequirementCommands, TLC

MCActions == {"log in"}
MCWords   == {"cart", "pay"}
MCPaths   == {"cart", "test_cart", "pay"}
MCScript  == <<"requirements", "trace_links", "evidence_records", "idx_evidence">>

Criterion(ambiguous, observable, error, action, negated) ==
  [ambiguous |-> ambiguous, observable |-> observable, error |-> error,
   action |-> action, negated |-> negated]

Clear   == Criterion(FALSE, TRUE, FALSE, NoAction, FALSE)
Fails   == Criterion(FALSE, TRUE, TRUE, NoAction, FALSE)
Vague   == Criterion(TRUE, FALSE, FALSE, NoAction, FALSE)
Must    == Criterion(FALSE, TRUE, TRUE, "log in", FALSE)
MustNot == Criterion(FALSE, TRUE, FALSE, "log in", TRUE)

Document(criteria, words) == [criteria |-> criteria, words |-> words]

\* The three that two processes use: one criterion, none, and one too many.
ShortText == Document(<<Fails>>, {"cart"})
EmptyText == Document(<<>>, {"pay"})
LongText  == Document(<<Clear, Vague, Fails, Fails>>, {"cart", "pay"})
FewTexts  == {ShortText, EmptyText, LongText}

AllTexts ==
  {Document(criteria, {}) :
     criteria \in UNION {[1 .. n -> {Clear, Fails, Vague, Must, MustNot}] : n \in 0 .. 4}}

MCDocuments == FewTexts \union AllTexts

File(path, test, words, form) == [path |-> path, test |-> test, words |-> words, form |-> form]

CartCode  == File("cart", FALSE, {"cart"}, "text")
CartTest  == File("test_cart", TRUE, {"cart"}, "text")
PayCode   == File("pay", FALSE, {"pay"}, "text")
PayBinary == File("pay", FALSE, {"pay"}, "unreadable")
PaySecret == File("pay", FALSE, {"pay"}, "skipped")

Directory(files) == [isDir |-> TRUE, files |-> files]

MCRepositories ==
  {[isDir |-> FALSE, files |-> <<>>], Directory(<<CartCode>>),
   Directory(<<PayCode, CartTest>>), Directory(<<CartCode, PayBinary, CartTest>>),
   Directory(<<PaySecret, CartCode, CartTest>>)}

-----------------------------------------------------------------------------
Database(created, stamp, rows, links) ==
  [tables |-> created, version |-> stamp, requirements |-> rows, links |-> links]

NoRows == [id \in {} |-> {}]
OneRow(document, ids) == [id \in {"r1"} |-> [document |-> document, evidence |-> ids]]
CartLink == [requirement |-> "r1", kind |-> "code", path |-> "cart", evidence |-> {1}]

\* New; of v0.2, with links or with a row that has no Evidence; a migration that
\* was cut short; current; of a later release.
MCDatabases ==
  {Database({}, 0, NoRows, {}),
   Database({"requirements", "trace_links"}, 0, OneRow(ShortText, {1}), {CartLink}),
   Database({"requirements", "trace_links"}, 0, OneRow(ShortText, {}), {}),
   Database({"requirements", "trace_links", "evidence_records"}, 0, NoRows, {}),
   Database(Created, 2, OneRow(LongText, 1 .. 3), {}),
   Database({"requirements"}, 3, NoRows, {})}

Asking(commands, ids, documents) == [command : commands, id : ids, document : documents]

MCFewRequests ==
  Asking({"analyze-requirement"}, {"r1"}, FewTexts)
    \union Asking({"review-pr --github-issue-file"}, {"r1"}, {LongText})
    \union Asking({"map-coverage"}, {"r1", "r2"}, {EmptyText})
    \union Asking({"review-pr", "engineer-test"}, {"r1"}, {EmptyText})

MCAllRequests == MCFewRequests \union Asking({"analyze-requirement"}, {"r2"}, AllTexts)

Alone(c) == request[c] \notin MCFewRequests

\* A process outside MCFewRequests runs in a new database while the other
\* ones stay where they are.
MCInit ==
  /\ Init
  /\ \A c, d \in Clients : Alone(c) /\ c # d =>
       request[d].command = "engineer-test" /\ version = 0 /\ tables = {}

MCSpec ==
  MCInit /\ [][Next /\ \A c, d \in Clients : Alone(c) /\ c # d => pc'[d] = pc[d]]_vars

Symmetry == Permutations(Clients)

=============================================================================
