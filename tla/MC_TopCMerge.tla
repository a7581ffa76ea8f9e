--------------------------- MODULE MC_TopCMerge ----------------------------
(***************************************************************************)
(* Two links into one conflux: the first with two SegmentStats, the second *)
(* with one; up to two persons on a SegmentStats, driving times 1 or 2, so *)
(* keys tie within and across links; downstream capacities 0 to 2, so the *)
(* Top-C rounds stop before, at and after the last person.                *)
(***************************************************************************)
EXTENDS TopCMerge

MC_LinkSegCount == <<2, 1>>
MC_SegTimes == {1, 2}
MC_Capacities == {0, 1, 2}
=============================================================================
