----------------------------- MODULE MCHttpDriver ----------------------------
(* Small instances of HttpDriver. *)
EXTENDS HttpDriver

OneRun == {1}
TwoRuns == {1, 2}
ThreeRuns == {1, 2, 3}
==============================================================================
