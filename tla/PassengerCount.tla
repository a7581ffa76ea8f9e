--------------------------- MODULE PassengerCount ---------------------------
(***************************************************************************)
(* What a stop service promises about the passengers in a bus, as         *)
(* BusStopService assumes it: some of the passengers inside alight, at    *)
(* most as many as are inside, some of those waiting board, and the bus   *)
(* then holds the others and the boarders.  The numbers alighting and     *)
(* boarding are what dwellTimeCalculation is given.                       *)
(***************************************************************************)
EXTENDS Naturals

CONSTANT
  Waiting     \* the most passengers that can board at the stop

VARIABLES
  count,      \* the passengers inside the bus
  alighting,  \* no_passengers_alighting of the service
  boarding,   \* no_passengers_boarding of the service
  served      \* whether the service took place

vars == <<count, alighting, boarding, served>>

Init ==
  /\ count \in Nat
  /\ alighting = 0 /\ boarding = 0
  /\ served = FALSE

\* The service, in one step.
Exchange ==
  /\ ~served
  /\ \E A \in 0..count, B \in 0..Waiting :
       /\ alighting' = A
       /\ boarding' = B
       /\ count' = count - A + B
  /\ served' = TRUE

Spec == Init /\ [][Exchange]_vars

=============================================================================
