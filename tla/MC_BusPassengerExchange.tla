----------------------- MODULE MC_BusPassengerExchange -----------------------
(***************************************************************************)
(* A bus arriving with up to four entries in passengers_inside_bus and up *)
(* to two agents near the stop, each of every kind: two alighters in a    *)
(* row (the erase the loop must not skip past), alighters at the end, and *)
(* entries that are no boarded Passenger.                                 *)
(***************************************************************************)
EXTENDS BusPassengerExchange

MC_InsideKinds == {"alights", "stays", "unboarded", "other"}
MC_NearbyKinds == {"boards", "declines", "passing", "other"}

=============================================================================
