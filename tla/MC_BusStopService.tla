------------------------- MODULE MC_BusStopService -------------------------
(* Bus routes for BusStopService: stops on two links, with a stop on the  *)
(* path that is not the bus's; and the layouts in which the distance      *)
(* queries go wrong.                                                       *)
EXTENDS BusStopService

CONSTANTS S1, S2, N1

Seg(link, len, stops) == [link |-> link, len |-> len, stops |-> stops]
Stop(off, id) == [off |-> off, id |-> id]

\* A stop on each of two links, and after the second a segment with a
\* stop that is not the bus's.
MC_Path ==
  << Seg(1, 40, <<Stop(30, S1)>>), Seg(2, 40, <<Stop(30, S2)>>), Seg(2, 30, <<Stop(10, N1)>>) >>

\* The BusTrip's stops; N1 is on the path but not the bus's.
MC_TripStops == <<S1, S2>>

\* Stops on two consecutive segments of one link.
MC_PathAdjacentStops ==
  << Seg(1, 40, <<Stop(30, S1)>>), Seg(1, 40, <<Stop(20, S2)>>) >>

\* Two stops on one segment.
MC_PathTwoStopsOnSegment ==
  << Seg(1, 90, <<Stop(20, S1), Stop(60, S2)>>) >>

=============================================================================
