--------------------------- MODULE MC_ConfluxTick ---------------------------
(***************************************************************************)
(* Three confluxes in a chain Z -> X -> Y on two workers: worker w1 updates *)
(* Z then X, worker w2 updates Y.  Link lz flows into Z, lx (two           *)
(* SegmentStats) from Z into X, ly from X into Y.  Person p1 drives lz, lx  *)
(* and ly and then performs an activity at Y; person p2 performs an        *)
(* activity at X and then drives lx and ly, so two drivers compete for the *)
(* output counter of lx.  One real lane per SegmentStats with room for one *)
(* vehicle and an output counter of one per tick, so virtual queues fill,  *)
(* admissions are denied and persons wait in lane infinity.                *)
(***************************************************************************)
EXTENDS ConfluxTick

CONSTANTS p1, p2, Z, X, Y, w1, w2, lz, lx, ly, sz, sx1, sx2, sy

MC_Link == {lz, lx, ly}
MC_LinkConflux == (lz :> Z) @@ (lx :> X) @@ (ly :> Y)
MC_LinkSegs == (lz :> <<sz>>) @@ (lx :> <<sx1, sx2>>) @@ (ly :> <<sy>>)
MC_WorkerCfx == (w1 :> <<Z, X>>) @@ (w2 :> <<Y>>)
MC_Chain ==
  (p1 :> << [kind |-> "Trip", path |-> <<lz, lx, ly>>],
            [kind |-> "Activity", cfx |-> Y, dur |-> 1] >>)
  @@ (p2 :> << [kind |-> "Activity", cfx |-> X, dur |-> 0],
               [kind |-> "Trip", path |-> <<lx, ly>>] >>)
MC_SegSpace == [s \in {sz, sx1, sx2, sy} |-> 1]
MC_FlowOut == [s \in {sz, sx1, sx2, sy} |-> 1]
=============================================================================
