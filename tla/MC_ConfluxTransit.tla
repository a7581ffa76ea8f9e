------------------------- MODULE MC_ConfluxTransit -------------------------
(***************************************************************************)
(* Instances of ConfluxTransit: two confluxes X and Y beside the loader,  *)
(* ticks of 2 ms so that a sub-trip end time of 1 or 3 ms is not a        *)
(* multiple of the tick, and persons whose trip chains are chosen from   *)
(* a small set covering every role change of the module.                  *)
(***************************************************************************)
EXTENDS ConfluxTransit

CONSTANTS p1, p2, p3, X, Y

MC_Person == {p1, p2, p3}
MC_Conflux == {X, Y}

\* A trip-chain item: its kind, the conflux it starts at, the confluxes a
\* walk crosses into, an activity's duration, a sub-trip's end time and
\* the bus stop of a wait for the bus; WaitAt is a wait at a stop of the
\* given kind.
It(k, at, via, dur, end) ==
  [kind |-> k, at |-> at, via |-> via, dur |-> dur, end |-> end, stop |-> "agent"]
WaitAt(at, stop) == [It("WaitBus", at, <<>>, 0, 0) EXCEPT !.stop = stop]

\* Chains whose teleportations are followed by a walk; a walk that crosses
\* into another conflux follows a walk or a ride, never an activity.
MC_Chains ==
  { << It("Activity", X, <<>>, 0, 0), It("Walk", X, <<>>, 0, 0),
       It("Train", X, <<>>, 0, 3), It("Walk", X, <<Y>>, 0, 0) >>,
    << It("Car", X, <<>>, 0, 2), It("Walk", X, <<>>, 0, 0),
       It("Activity", X, <<>>, 0, 0) >>,
    << It("Activity", Y, <<>>, 2, 0), It("Car", Y, <<>>, 0, 1),
       It("Walk", Y, <<X>>, 0, 0), It("WaitBus", X, <<>>, 0, 0) >>,
    << It("Walk", Y, <<X>>, 0, 0), It("Walk", X, <<Y>>, 0, 0),
       It("Activity", Y, <<>>, 0, 0) >>,
    << It("WaitBus", Y, <<>>, 0, 0) >>,
    << It("Activity", X, <<>>, 0, 0), It("Drive", X, <<>>, 0, 0) >>,
    << It("Drive", Y, <<>>, 0, 0), It("Walk", Y, <<>>, 0, 0) >> }

\* A train ride followed by an activity.
MC_ChainsTrainThenActivity ==
  { << It("Walk", X, <<>>, 0, 0), It("Train", X, <<>>, 0, 1),
       It("Activity", X, <<>>, 0, 0) >> }

\* A trip chain that starts with a train ride.
MC_ChainsTrainFirst ==
  { << It("Train", X, <<>>, 0, 1), It("Walk", X, <<>>, 0, 0) >> }

\* A train ride boarded two ticks into the simulation.
MC_ChainsLateTrain ==
  { << It("Activity", X, <<>>, 0, 0), It("Train", X, <<>>, 0, 3),
       It("Walk", X, <<>>, 0, 0) >> }

\* An activity followed by a walk into another conflux.
MC_ChainsActivityThenWalkOn ==
  { << It("Activity", X, <<>>, 0, 0), It("Walk", X, <<Y>>, 0, 0) >> }

\* A walk followed by a drive whose path cannot be established.
MC_ChainsWalkThenDrive ==
  { << It("Walk", X, <<>>, 0, 0), It("Drive", X, <<>>, 0, 0) >> }

\* A wait for the bus after a walk, at a sub-trip origin that is no bus
\* stop or at a stop whose agent StreetDirectory does not know.
MC_ChainsWaitNoStop ==
  { << It("Walk", X, <<>>, 0, 0), WaitAt(X, "none") >>,
    << It("Walk", X, <<>>, 0, 0), WaitAt(X, "noAgent") >> }

=============================================================================
