-------------------------- MODULE MCTestEngineering --------------------------
(***************************************************************************)
(* A small instance of TestEngineering: every patch of one file, and some  *)
(* of two, so that the first bad file and the only bad file are not always *)
(* the same.                                                               *)
(***************************************************************************)
EXTENDS TestEngineeringProperties

File(form, safe, finding) == [form |-> form, safe |-> safe, finding |-> finding]

Good == File("ok", TRUE, FALSE)

MCPatches ==
  {<<f>> : f \in FileType} \union
  {<<Good, Good>>, <<Good, File("ok", FALSE, FALSE)>>, <<File("ok", TRUE, TRUE), Good>>,
   <<Good, File("parse", TRUE, FALSE)>>, <<File("assertion", TRUE, FALSE), File("raises", TRUE, FALSE)>>,
   <<File("compile", TRUE, FALSE), File("assertion", FALSE, FALSE)>>}

\* Every number of repairs up to 2 with every backend, and what is declined.
MCRequests ==
  {[generator |-> g, evidence |-> e, valid |-> v, backend |-> b, maxRepairs |-> n] :
     g \in BOOLEAN, e \in BOOLEAN, v \in BOOLEAN, b \in Backends, n \in 0 .. 2}

=============================================================================
