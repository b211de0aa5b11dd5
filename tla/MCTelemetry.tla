------------------------------ MODULE MCTelemetry ------------------------------
(* One clone, and in the mirror the rows of two runs of another clone of its  *)
(* repository, which Git could name for one, and a row of another repository. *)
EXTENDS Telemetry, TLC

CONSTANTS c1, r1

RootOfOne == (c1 :> "root")
HomeOfOne == (r1 :> c1)
Elsewhere(run, source, root) ==
  [run |-> run, source |-> source, root |-> root, written |-> 1, hosted |-> 0]
RowsElsewhere == <<Elsewhere("x1", "nowhere", NoRoot), Elsewhere("x2", "sibling", NoRoot),
                   Elsewhere("x3", "sibling", "root")>>
RunsOrHooks == {{"end", "rebuild", "sync"}, {"hook"}}
=============================================================================
