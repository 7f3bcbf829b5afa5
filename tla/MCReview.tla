------------------------------- MODULE MCReview -------------------------------
(***************************************************************************)
(* A small instance of Review: two test files, at most two matches and two *)
(* issues in each, and every budget at, below and above what is needed.    *)
(***************************************************************************)
EXTENDS ReviewProperties

MCMatchLists == {<<>>, <<"critical">>, <<"low", "medium">>}

Request(isDir, base, semantic, failOn, actions, tools, models, max) ==
  [isDir |-> isDir, base |-> base, semantic |-> semantic, failOn |-> failOn,
   maxActions |-> actions, maxToolCalls |-> tools, maxModelCalls |-> models, maxFiles |-> max]

\* Every budget on its own, with the others large enough; the gate for criticals,
\* for mediums too, and for nothing.
MCRequests ==
  {Request(d, b, s, {"critical"}, 6, 3, 2, 2) : d \in BOOLEAN, b \in BOOLEAN, s \in BOOLEAN}
    \union {Request(TRUE, TRUE, s, {"critical"}, n, 3, 2, 1) : s \in BOOLEAN, n \in 0 .. 7}
    \union {Request(TRUE, TRUE, TRUE, {"critical"}, 6, n, 2, 1) : n \in 0 .. 4}
    \union {Request(TRUE, b, TRUE, {"critical"}, 6, 3, n, 2) : b \in BOOLEAN, n \in 0 .. 3}
    \union {Request(TRUE, FALSE, s, f, 6, 3, 2, 2) : s \in BOOLEAN, f \in {{}, {"critical", "medium"}}}

=============================================================================
