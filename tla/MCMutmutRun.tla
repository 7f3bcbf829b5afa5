------------------------------ MODULE MCMutmutRun ------------------------------
(* Two targets, each in two versions; a mutant id of one may turn up for the     *)
(* other.  The other files of the repository are copied in the same way.         *)
EXTENDS MutmutRun

MCMutants == {"m1", "m2", "m3"}
MCTargets == {"a", "b"}

MCMutantsOf == [t \in MCTargets |-> IF t = "a" THEN <<{"m1"}, {"m1", "m2"}>> ELSE <<{"m2"}, {"m3"}>>]

MCStatuses == {"killed", "survived", "timeout", "no tests", "unchecked"}

\* Of the working trees one is committed.
MCHeads == {[t \in MCTargets |-> 1]}

NoOldMeta == [t \in MCTargets |-> NoMeta]
MCOldMetas == {NoOldMeta, [NoOldMeta EXCEPT !["b"] = [m \in {"m3"} |-> "killed"]]}

=============================================================================
