--------------------------- MODULE ConfluxTransit ---------------------------
(***************************************************************************)
(* The persons a conflux holds off the road, and the messages that move   *)
(* them between confluxes (Conflux.cpp): the loader conflux and           *)
(* loadPersons / findStartingConflux, addAgent on MSG_PERSON_LOAD, the     *)
(* activityPerformers and pedestrianList a conflux updates every tick,    *)
(* the pedestrian hand-off by MSG_PEDESTRIAN_TRANSFER_REQUEST, the mrt   *)
(* and carSharing lists and their delayed MSG_WAKE_UP /                   *)
(* MSG_WAKEUP_CAR_PASSENGER_TELEPORTATION, the hand-over of a person       *)
(* waiting for a bus to the bus-stop agent, switchTripChainItem and the   *)
(* housekeep and killAgent branches of these roles.                       *)
(*                                                                         *)
(* A person's trip chain is a sequence of items; the role an item gives   *)
(* the person is its kind.  Drivers are left to ConfluxTick.  What the    *)
(* roles themselves do in frame_tick (outside src/) is reduced to when    *)
(* they finish: an activity at its end time, a walk after crossing the    *)
(* confluxes in its "via" list, one per tick.                             *)
(*                                                                         *)
(* Confluxes share nothing in the main pass but the message bus, whose    *)
(* messages are distributed after the pass, so the confluxes of a tick   *)
(* are updated one after the other, in every order.                       *)
(***************************************************************************)
EXTENDS Integers, Sequences, FiniteSets, Bags, BagsExt, FiniteSetsExt

CONSTANTS
  Person,           \* the persons
  Conflux,          \* the confluxes that hold persons
  Loader,           \* the loader conflux (isLoader)
  NoCfx,            \* no conflux is being updated
  Chains,           \* the trip chains a person may have
  Gran,             \* baseGranMS: the length of a tick, in ms
  GranPersonTicks,  \* MT_Config::granPersonTicks
  MaxFrame          \* the last tick explored

\* The roles of trip-chain items; "Drive" is a Driver sub-trip whose path
\* DriverMovement::frame_init cannot establish (the case killAgent's
\* comment describes), so the Driver never reaches a lane.
Kinds == {"Activity", "Walk", "WaitBus", "Train", "Car", "Drive"}
MsgKinds == {"PersonLoad", "PedestrianTransfer", "WakeUp", "WakeUpCar"}

VARIABLES
  chain,     \* each person's trip chain
  cur,       \* currTripChainItem: 0 before checkTripChain, Len + 1 at RS_DONE
  walkPos,   \* the next conflux of the current walk's "via" list
  actEnd,    \* the activity end time set by the engine, in ms
  frame,     \* currFrame of every conflux
  phase,     \* "update" (main pass) or "deliver" (message distribution)
  busy,      \* the conflux whose update runs, or NoCfx
  todo,      \* processAgents' copy of activityPerformers and pedestrianList
  updated,   \* the confluxes updated this tick
  loading,   \* the loader's loadingQueue
  acts,      \* activityPerformers of each conflux (a bag)
  peds,      \* pedestrianList of each conflux (a bag)
  mrt,       \* mrt of each conflux (a bag)
  cars,      \* carSharing of each conflux (a bag)
  msgs,      \* the messages posted and not yet handled (a bag)
  atStop,    \* the persons handed to a bus-stop agent
  err,       \* the runtime_error thrown, or "none"
  removed    \* the persons whose role set isToBeRemoved in frame_init

vars == <<chain, cur, walkPos, actEnd, frame, phase, busy, todo, updated,
          loading, acts, peds, mrt, cars, msgs, atStop, err, removed>>

Now == frame * Gran                              \* currFrame.ms()
Item(p) == chain[p][cur[p]]
Kind(p) == Item(p).kind
ChainDone(p) == cur[p] > Len(chain[p])
\* The kind of the item checkTripChain moves to, "Done" at the chain's end.
NextKind(p) == IF cur[p] + 1 > Len(chain[p]) THEN "Done" ELSE chain[p][cur[p] + 1].kind

Msg(k, to, p, due) == [kind |-> k, to |-> to, p |-> p, due |-> due]
AddIfAbsent(b, p) == IF CopiesIn(p, b) > 0 THEN b ELSE BagAdd(b, p)

-----------------------------------------------------------------------------
(* switchTripChainItem(person) on conflux c, with the assignPersonTo*     *)
(* helpers it calls; mrt0, cars0 and msgs0 are the lists and the bus as   *)
(* the caller leaves them.  The pedestrianList part is PedsAfterSwitch.   *)

\* The offset of a teleportation wake-up: the sub-trip's end time divided
\* by the tick length, posted from the current tick.
WakeUpOffset(it) == it.end \div Gran

\* assignPersonToMRT: into mrt, and MSG_WAKE_UP to self after the offset.
AssignPersonToMRT(c, p, it, mrt0, msgs0) ==
  /\ mrt' = [mrt0 EXCEPT ![c] = BagAdd(@, p)]
  /\ msgs' = BagAdd(msgs0, Msg("WakeUp", c, p, frame + WakeUpOffset(it)))

\* assignPersonToCar: into carSharing unless there, and the car wake-up.
AssignPersonToCar(c, p, it, cars0, msgs0) ==
  /\ cars' = [cars0 EXCEPT ![c] = AddIfAbsent(@, p)]
  /\ msgs' = BagAdd(msgs0, Msg("WakeUpCar", c, p, frame + WakeUpOffset(it)))

\* The stop of a WaitBus item, as assignPersonToBusStopAgent finds it from
\* the person's origin node or, failing that, the sub-trip's origin:
\* "agent", a stop (or the twin of a SINK_TERMINUS stop) whose bus-stop
\* agent StreetDirectory knows; "noAgent", a stop it knows no agent of;
\* "sinkPair", a SINK_TERMINUS stop whose twin is a SINK as well; "none",
\* neither waypoint is a bus stop.
StopKinds == {"agent", "noAgent", "sinkPair", "none"}

\* assignPersonToBusStopAgent: without a stop the function returns; two
\* SINK twins throw; otherwise MSG_WAITING_PERSON_ARRIVAL is sent to the
\* stop's agent, if there is one, which holds the person from then on.
AssignPersonToBusStopAgent(p, it) ==
  /\ atStop' = IF it.stop = "agent" THEN atStop \cup {p} ELSE atStop
  /\ err' = IF it.stop = "sinkPair" THEN "both twin stops are SINKs" ELSE err

\* callMovementFrameInit and the frame_init of findStartingConflux: the
\* new role's frame_init fails, marking the person to be removed, exactly
\* for a Driver without a path; the call then returns false (Done).
FrameInitFails(n) == n = "Drive"

\* switchTripChainItem: the roles with a list of their own return before
\* callMovementFrameInit; an Activity or a Driver reaches it.  A new walk
\* starts at entry w of its "via" list (w > 1 when it hands off within the
\* same update, see EndItemWalkingOn).
SwitchTripChainItem(c, p, mrt0, cars0, msgs0, w) ==
  LET n  == NextKind(p)
      it == chain[p][cur[p] + 1]
  IN  /\ cur' = [cur EXCEPT ![p] = @ + 1]
      /\ CASE n = "WaitBus" -> /\ AssignPersonToBusStopAgent(p, it)
                               /\ mrt' = mrt0 /\ cars' = cars0 /\ msgs' = msgs0
           [] n = "Train"   -> /\ AssignPersonToMRT(c, p, it, mrt0, msgs0)
                               /\ cars' = cars0 /\ UNCHANGED <<atStop, err>>
           [] n = "Car"     -> /\ AssignPersonToCar(c, p, it, cars0, msgs0)
                               /\ mrt' = mrt0 /\ UNCHANGED <<atStop, err>>
           [] OTHER         -> /\ mrt' = mrt0 /\ cars' = cars0 /\ msgs' = msgs0
                               /\ UNCHANGED <<atStop, err>>
      /\ actEnd' = IF n = "Activity" THEN [actEnd EXCEPT ![p] = Now + Gran + it.dur] ELSE actEnd
      /\ walkPos' = IF n = "Walk" THEN [walkPos EXCEPT ![p] = w] ELSE walkPos
      /\ removed' = IF FrameInitFails(n) THEN removed \cup {p} ELSE removed

\* The person leaves pedestrianList for an off-road role, joins it (once)
\* as a pedestrian.
PedsAfterSwitch(b, p, n) ==
  CASE n \in {"WaitBus", "Train", "Car"} -> BagRemove(b, p)
    [] n = "Walk"                         -> AddIfAbsent(b, p)
    [] OTHER                              -> b

-----------------------------------------------------------------------------
(* Conflux::update of a conflux other than the loader: processAgents over *)
(* its activityPerformers and pedestrianList, updateAgent for each.       *)

\* housekeep for a person whose role went from kind k to kind n.
\* Mutant: housekeep does not put a person whose next role is an
\* activity into activityPerformers.
HousekeepActsWithoutAdd(b, p, k, n) ==
  CASE k = "Activity" /\ n # "Activity" -> BagRemove(b, p)
    [] OTHER                            -> b

HousekeepActs(b, p, k, n) ==
  CASE k = "Activity" /\ n # "Activity" -> BagRemove(b, p)
    [] k # "Activity" /\ n = "Activity" -> BagAdd(b, p)
    [] OTHER                            -> b

HousekeepPeds(b, p, k, n) ==
  CASE k = "Activity" /\ n = "Walk"     -> AddIfAbsent(b, p)
    [] k = "Walk" /\ n = "Activity"     -> BagRemove(b, p)
    [] OTHER                            -> b

\* killAgent: the person is erased from the list of its current role, r;
\* a Driver is erased from activityPerformers if it is there (its lane,
\* prevLane of PersonProps, is null off the road).
KillActs(b, p, r) == IF r \in {"Activity", "Drive"} THEN BagRemove(b, p) ELSE b
KillPeds(b, p, r) == IF r = "Walk" THEN BagRemove(b, p) ELSE b

\* The role's frame_tick is done with the current item (isToBeRemoved).
RoleFinished(p) ==
  \/ Kind(p) = "Activity" /\ Now >= actEnd[p]
  \/ Kind(p) = "Walk" /\ walkPos[p] > Len(Item(p).via)

StartUpdate(c) ==
  /\ err = "none" /\ phase = "update" /\ busy = NoCfx
  /\ c \in Conflux \ updated
  /\ busy' = c
  /\ todo' = acts[c] (+) peds[c]
  /\ UNCHANGED <<chain, cur, walkPos, actEnd, frame, phase, updated, loading,
                 acts, peds, mrt, cars, msgs, atStop, err, removed>>

\* An activity whose end time has not come: the tick changes no list.
PerformActivity(c, p) ==
  /\ Kind(p) = "Activity" /\ ~RoleFinished(p)
  /\ UNCHANGED <<cur, walkPos, actEnd, acts, peds, mrt, cars, msgs, atStop, err, removed>>

\* Mutant: the hand-off leaves the pedestrian in pedestrianList.
HandOffPedestrianKeepingList(c, p) ==
  /\ Kind(p) = "Walk" /\ ~RoleFinished(p)
  /\ msgs' = BagAdd(msgs, Msg("PedestrianTransfer", Item(p).via[walkPos[p]], p, frame))
  /\ walkPos' = [walkPos EXCEPT ![p] = @ + 1]
  /\ UNCHANGED <<cur, actEnd, acts, peds, mrt, cars, atStop, err, removed>>

\* The walk needs a link of the next conflux (getNextLinkRequired): post
\* MSG_PEDESTRIAN_TRANSFER_REQUEST, leave pedestrianList, return.
HandOffPedestrian(c, p) ==
  /\ Kind(p) = "Walk" /\ ~RoleFinished(p)
  /\ msgs' = BagAdd(msgs, Msg("PedestrianTransfer", Item(p).via[walkPos[p]], p, frame))
  /\ peds' = [peds EXCEPT ![c] = BagRemove(@, p)]
  /\ walkPos' = [walkPos EXCEPT ![p] = @ + 1]
  /\ UNCHANGED <<cur, actEnd, acts, mrt, cars, atStop, err, removed>>

\* The item is over: switchTripChainItem; at the chain's end, or when the
\* new role's frame_init fails, movePerson returns RS_DONE and killAgent
\* runs with the role the person has now (the last one, or the new one);
\* otherwise housekeep does.
EndItem(c, p) ==
  LET k == Kind(p)
      n == NextKind(p)
      r == IF n = "Done" THEN k ELSE n
  IN  /\ RoleFinished(p)
      /\ SwitchTripChainItem(c, p, mrt, cars, msgs, 1)
      /\ IF n = "Done" \/ FrameInitFails(n)
         THEN /\ acts' = [acts EXCEPT ![c] = KillActs(@, p, r)]
              /\ peds' = [peds EXCEPT ![c] = KillPeds(@, p, r)]
         ELSE /\ acts' = [acts EXCEPT ![c] = HousekeepActs(@, p, k, n)]
              /\ peds' = [peds EXCEPT ![c] = HousekeepPeds(PedsAfterSwitch(@, p, n), p, k, n)]

\* The item is over and the next is a walk that the loop of
\* callMovementFrameTick (while remainingTimeThisTick > 0) goes on to tick
\* in the same update: the walk needs a link of the next conflux at once,
\* so switchTripChainItem's entry in pedestrianList is erased again with
\* MSG_PEDESTRIAN_TRANSFER_REQUEST posted, and housekeep then runs on the
\* snapshots taken before the switch.
EndItemWalkingOn(c, p) ==
  LET k  == Kind(p)
      it == chain[p][cur[p] + 1]
  IN  /\ RoleFinished(p)
      /\ NextKind(p) = "Walk" /\ Len(it.via) > 0
      /\ SwitchTripChainItem(c, p, mrt, cars,
                             BagAdd(msgs, Msg("PedestrianTransfer", it.via[1], p, frame)), 2)
      /\ acts' = [acts EXCEPT ![c] = HousekeepActs(@, p, k, "Walk")]
      /\ peds' = [peds EXCEPT ![c] =
                    HousekeepPeds(BagRemove(PedsAfterSwitch(@, p, "Walk"), p), p, k, "Walk")]

UpdatePerson(c, p) ==
  /\ err = "none" /\ busy = c
  /\ CopiesIn(p, todo) > 0
  /\ todo' = BagRemove(todo, p)
  /\ \/ PerformActivity(c, p)
     \/ HandOffPedestrian(c, p)
     \/ EndItem(c, p)
     \/ EndItemWalkingOn(c, p)
  /\ UNCHANGED <<chain, frame, phase, busy, updated, loading>>

EndUpdate(c) ==
  /\ busy = c /\ todo = EmptyBag
  /\ busy' = NoCfx
  /\ updated' = updated \cup {c}
  /\ UNCHANGED <<chain, cur, walkPos, actEnd, frame, phase, todo, loading,
                 acts, peds, mrt, cars, msgs, atStop, err, removed>>

-----------------------------------------------------------------------------
(* The loader conflux: loadPersons drains loadingQueue; for each person  *)
(* findStartingConflux advances the trip chain and, unless it is over,   *)
(* MSG_PERSON_LOAD is posted to the conflux the first item starts at.     *)

\* findStartingConflux for a person whose chain has a first item: an
\* activity is anchored to the next tick and starts at its location's
\* conflux; another role starts where its movement's frame_init puts it.
FindStartingConflux(p) == chain[p][1].at
StartActivityEnd(p, now) == now + Gran + chain[p][1].dur

\* Mutant: MSG_PERSON_LOAD is posted to the loader itself.
LoadPersonsToSelf ==
  LET nextTickMS == (frame + GranPersonTicks) * Gran
      starting   == {p \in loading : Len(chain[p]) > 0 /\ ~FrameInitFails(chain[p][1].kind)}
  IN  /\ err = "none" /\ phase = "update" /\ busy = NoCfx
      /\ Loader \notin updated
      /\ cur' = [p \in Person |-> IF p \in loading THEN 1 ELSE cur[p]]
      /\ actEnd' = [p \in Person |->
                      IF p \in starting /\ chain[p][1].kind = "Activity"
                      THEN StartActivityEnd(p, nextTickMS) ELSE actEnd[p]]
      /\ walkPos' = [p \in Person |-> IF p \in starting THEN 1 ELSE walkPos[p]]
      /\ msgs' = msgs (+) SetToBag({Msg("PersonLoad", Loader, p, frame) : p \in starting})
      /\ loading' = {}
      /\ updated' = updated \cup {Loader}
      /\ removed' = removed \cup {p \in loading : Len(chain[p]) > 0 /\ p \notin starting}
      /\ UNCHANGED <<chain, frame, phase, busy, todo, acts, peds, mrt, cars, atStop, err>>

LoadPersons ==
  LET nextTickMS == (frame + GranPersonTicks) * Gran
      starting   == {p \in loading : Len(chain[p]) > 0 /\ ~FrameInitFails(chain[p][1].kind)}
  IN  /\ err = "none" /\ phase = "update" /\ busy = NoCfx
      /\ Loader \notin updated
      /\ cur' = [p \in Person |-> IF p \in loading THEN 1 ELSE cur[p]]
      /\ actEnd' = [p \in Person |->
                      IF p \in starting /\ chain[p][1].kind = "Activity"
                      THEN StartActivityEnd(p, nextTickMS) ELSE actEnd[p]]
      /\ walkPos' = [p \in Person |-> IF p \in starting THEN 1 ELSE walkPos[p]]
      /\ msgs' = msgs (+) SetToBag({Msg("PersonLoad", FindStartingConflux(p), p, frame) : p \in starting})
      /\ loading' = {}
      /\ updated' = updated \cup {Loader}
      /\ removed' = removed \cup {p \in loading : Len(chain[p]) > 0 /\ p \notin starting}
      /\ UNCHANGED <<chain, frame, phase, busy, todo, acts, peds, mrt, cars, atStop, err>>

-----------------------------------------------------------------------------
(* Conflux::HandleMessage, one message at a time; rest is the bus without *)
(* the message handled.                                                    *)

\* Mutant: a car passenger loaded by addAgent gets no wake-up.
AddAgentWithoutCarWakeUp(c, p, rest) ==
  CASE Kind(p) = "Walk"     -> /\ peds' = [peds EXCEPT ![c] = BagAdd(@, p)]
                               /\ msgs' = rest /\ UNCHANGED <<acts, mrt, cars, atStop, err, removed>>
    [] Kind(p) = "Activity" -> /\ acts' = [acts EXCEPT ![c] = BagAdd(@, p)]
                               /\ msgs' = rest /\ UNCHANGED <<peds, mrt, cars, atStop, err, removed>>
    [] Kind(p) = "Train"    -> /\ mrt' = [mrt EXCEPT ![c] = BagAdd(@, p)]
                               /\ msgs' = rest /\ UNCHANGED <<peds, acts, cars, atStop, err, removed>>
    [] Kind(p) = "Car"      -> /\ cars' = [cars EXCEPT ![c] = AddIfAbsent(@, p)] /\ msgs' = rest
                               /\ UNCHANGED <<peds, acts, mrt, atStop, err, removed>>
    [] Kind(p) = "WaitBus"  -> /\ AssignPersonToBusStopAgent(p, Item(p))
                               /\ msgs' = rest /\ UNCHANGED <<peds, acts, mrt, cars, removed>>

\* MSG_PERSON_LOAD: addAgent on a conflux that is not the loader.
AddAgent(c, p, rest) ==
  CASE Kind(p) = "Walk"     -> /\ peds' = [peds EXCEPT ![c] = BagAdd(@, p)]
                               /\ msgs' = rest /\ UNCHANGED <<acts, mrt, cars, atStop, err, removed>>
    [] Kind(p) = "Activity" -> /\ acts' = [acts EXCEPT ![c] = BagAdd(@, p)]
                               /\ msgs' = rest /\ UNCHANGED <<peds, mrt, cars, atStop, err, removed>>
    [] Kind(p) = "Train"    -> /\ mrt' = [mrt EXCEPT ![c] = BagAdd(@, p)]
                               /\ msgs' = rest /\ UNCHANGED <<peds, acts, cars, atStop, err, removed>>
    [] Kind(p) = "Car"      -> /\ AssignPersonToCar(c, p, Item(p), cars, rest)
                               /\ UNCHANGED <<peds, acts, mrt, atStop, err, removed>>
    [] Kind(p) = "WaitBus"  -> /\ AssignPersonToBusStopAgent(p, Item(p))
                               /\ msgs' = rest /\ UNCHANGED <<peds, acts, mrt, cars, removed>>

\* MSG_PEDESTRIAN_TRANSFER_REQUEST: the pedestrian joins pedestrianList.
HandlePedestrianTransfer(c, p, rest) ==
  /\ peds' = [peds EXCEPT ![c] = BagAdd(@, p)]
  /\ msgs' = rest
  /\ UNCHANGED <<cur, walkPos, actEnd, acts, mrt, cars, atStop, err, removed>>

\* Mutant: MSG_WAKE_UP leaves the person in mrt.
HandleWakeUpKeepingEntry(c, p, rest) ==
  IF CopiesIn(p, mrt[c]) = 0
  THEN /\ err' = "Person not found in MRT list"
       /\ msgs' = rest
       /\ UNCHANGED <<cur, walkPos, actEnd, acts, peds, mrt, cars, atStop, removed>>
  ELSE /\ SwitchTripChainItem(c, p, mrt, cars, rest, 1)
       /\ peds' = [peds EXCEPT ![c] = PedsAfterSwitch(@, p, NextKind(p))]
       /\ UNCHANGED acts

\* MSG_WAKE_UP: the person must be in mrt; it leaves and switches item.
HandleWakeUp(c, p, rest) ==
  IF CopiesIn(p, mrt[c]) = 0
  THEN /\ err' = "Person not found in MRT list"
       /\ msgs' = rest
       /\ UNCHANGED <<cur, walkPos, actEnd, acts, peds, mrt, cars, atStop, removed>>
  ELSE /\ SwitchTripChainItem(c, p, [mrt EXCEPT ![c] = BagRemove(@, p)], cars, rest, 1)
       /\ peds' = [peds EXCEPT ![c] = PedsAfterSwitch(@, p, NextKind(p))]
       /\ UNCHANGED acts

\* MSG_WAKEUP_CAR_PASSENGER_TELEPORTATION: the same for carSharing.
HandleWakeUpCar(c, p, rest) ==
  IF CopiesIn(p, cars[c]) = 0
  THEN /\ err' = "Person not found in Car list"
       /\ msgs' = rest
       /\ UNCHANGED <<cur, walkPos, actEnd, acts, peds, mrt, cars, atStop, removed>>
  ELSE /\ SwitchTripChainItem(c, p, mrt, [cars EXCEPT ![c] = BagRemove(@, p)], rest, 1)
       /\ peds' = [peds EXCEPT ![c] = PedsAfterSwitch(@, p, NextKind(p))]
       /\ UNCHANGED acts

Due(m) == m.due <= frame
Deliverable == {m \in BagToSet(msgs) : Due(m)}

\* The message bus hands a message whose offset has run out to its conflux.
HandleMessage(m) ==
  LET rest == BagRemove(msgs, m)
  IN  /\ err = "none" /\ phase = "deliver"
      /\ m \in Deliverable
      /\ CASE m.kind = "PersonLoad"         -> /\ AddAgent(m.to, m.p, rest)
                                              /\ UNCHANGED <<cur, walkPos, actEnd>>
           [] m.kind = "PedestrianTransfer" -> HandlePedestrianTransfer(m.to, m.p, rest)
           [] m.kind = "WakeUp"             -> HandleWakeUp(m.to, m.p, rest)
           [] m.kind = "WakeUpCar"          -> HandleWakeUpCar(m.to, m.p, rest)
      /\ UNCHANGED <<chain, frame, phase, busy, todo, updated, loading>>

-----------------------------------------------------------------------------
(* The worker barriers around the main pass and the distribution.         *)

MainBarrier ==
  /\ err = "none" /\ phase = "update" /\ busy = NoCfx
  /\ updated = Conflux \cup {Loader}
  /\ phase' = "deliver"
  /\ UNCHANGED <<chain, cur, walkPos, actEnd, frame, busy, todo, updated,
                 loading, acts, peds, mrt, cars, msgs, atStop, err, removed>>

TickBarrier ==
  /\ err = "none" /\ phase = "deliver" /\ Deliverable = {}
  /\ frame < MaxFrame
  /\ frame' = frame + 1
  /\ phase' = "update"
  /\ updated' = {}
  /\ UNCHANGED <<chain, cur, walkPos, actEnd, busy, todo, loading, acts, peds,
                 mrt, cars, msgs, atStop, err, removed>>

\* The last tick explored has been distributed, or a runtime_error ended
\* the simulation.
Finished ==
  /\ \/ phase = "deliver" /\ Deliverable = {} /\ frame = MaxFrame
     \/ err # "none"
  /\ UNCHANGED vars

Init ==
  /\ chain \in [Person -> Chains]
  /\ cur = [p \in Person |-> 0]
  /\ walkPos = [p \in Person |-> 1]
  /\ actEnd = [p \in Person |-> 0]
  /\ frame = 0
  /\ phase = "update"
  /\ busy = NoCfx
  /\ todo = EmptyBag
  /\ updated = {}
  /\ loading = Person
  /\ acts = [c \in Conflux |-> EmptyBag]
  /\ peds = [c \in Conflux |-> EmptyBag]
  /\ mrt = [c \in Conflux |-> EmptyBag]
  /\ cars = [c \in Conflux |-> EmptyBag]
  /\ msgs = EmptyBag
  /\ atStop = {}
  /\ removed = {}
  /\ err = "none"

Next ==
  \/ LoadPersons
  \/ \E c \in Conflux : StartUpdate(c) \/ EndUpdate(c)
  \/ \E c \in Conflux, p \in Person : UpdatePerson(c, p)
  \/ \E m \in Deliverable : HandleMessage(m)
  \/ MainBarrier
  \/ TickBarrier
  \/ Finished

\* Every conflux is updated each tick by its worker and the bus distributes
\* every tick: weak fairness of the whole next-state relation.
Spec == Init /\ [][Next]_vars /\ WF_vars(Next)

-----------------------------------------------------------------------------
(* Properties                                                              *)

Message == [kind : MsgKinds, to : Conflux, p : Person, due : Nat]

TypeOK ==
  /\ \A p \in Person : cur[p] \in 0..Len(chain[p]) + 1
  /\ frame \in 0..MaxFrame /\ phase \in {"update", "deliver"}
  /\ busy \in Conflux \cup {NoCfx} /\ updated \subseteq Conflux \cup {Loader}
  /\ loading \subseteq Person /\ atStop \subseteq Person /\ removed \subseteq Person
  /\ IsABag(msgs) /\ BagToSet(msgs) \subseteq Message
  /\ \A c \in Conflux : \A b \in {acts[c], peds[c], mrt[c], cars[c]} :
       IsABag(b) /\ BagToSet(b) \subseteq Person

\* The places a person can be in (spec 3, invariant (a)): the loading
\* queue, a list of a conflux, or a PERSON_LOAD or PEDESTRIAN_TRANSFER
\* message in flight.
Holders(p) ==
  LET inFlight == {m \in BagToSet(msgs) : m.p = p /\ m.kind \in {"PersonLoad", "PedestrianTransfer"}}
  IN  (IF p \in loading THEN 1 ELSE 0)
      + MapThenSumSet(LAMBDA c : CopiesIn(p, acts[c]) + CopiesIn(p, peds[c])
                                 + CopiesIn(p, mrt[c]) + CopiesIn(p, cars[c]), Conflux)
      + MapThenSumSet(LAMBDA m : CopiesIn(m, msgs), inFlight)

\* A person whose trip chain is not over, who has not been handed to a
\* bus-stop agent and whose role did not fail its frame_init is in exactly
\* one place, and any other person in none: loadPersons, addAgent, the
\* pedestrian hand-off and its message, the wake-ups, switchTripChainItem,
\* housekeep and killAgent never lose a person nor put one in two lists,
\* and a person scheduled for removal is left in no list to be updated.
PersonPlacedOnce ==
  \A p \in Person :
    Holders(p) = IF ChainDone(p) \/ p \in atStop \/ p \in removed THEN 0 ELSE 1

WakeUps(k, c, p) ==
  MapThenSumSet(LAMBDA m : CopiesIn(m, msgs),
                {m \in BagToSet(msgs) : m.kind = k /\ m.to = c /\ m.p = p})

\* Every entry of a conflux's mrt and carSharing list has exactly one
\* pending wake-up addressed to that conflux, so the find in the
\* MSG_WAKE_UP and MSG_WAKEUP_CAR_PASSENGER_TELEPORTATION handlers never
\* throws and no passenger stays in a list with nothing to wake it.
WakeUpPerEntry ==
  \A c \in Conflux, p \in Person :
    /\ CopiesIn(p, mrt[c]) = WakeUps("WakeUp", c, p)
    /\ CopiesIn(p, cars[c]) = WakeUps("WakeUpCar", c, p)

\* Every person's trip chain eventually ends, hands the person to a
\* bus-stop agent or has it removed by a failed frame_init: no role of the chain leaves the person in a conflux
\* list that is never updated, or waiting for a message nobody posts.
TripChainsComplete ==
  <>(\A p \in Person : ChainDone(p) \/ p \in atStop \/ p \in removed)

\* A teleported passenger (MRT or car) leaves the mrt or carSharing list in
\* the tick in which its sub-trip's end time falls: the wake-up scheduled
\* by assignPersonToMRT, assignPersonToCar and the teleportation handler
\* fires at the sub-trip's end.
WokenAtSubTripEnd ==
  [][\A p \in Person :
       (cur[p] \in 1..Len(chain[p]) /\ Kind(p) \in {"Train", "Car"} /\ cur'[p] # cur[p])
         => Item(p).end <= Now /\ Now < Item(p).end + Gran]_vars


-----------------------------------------------------------------------------
(* Refinement of ConfluxOwnership                                          *)

Held(c, p) ==
  CopiesIn(p, acts[c]) + CopiesIn(p, peds[c]) + CopiesIn(p, mrt[c]) + CopiesIn(p, cars[c]) > 0

InTransit(p) ==
  \E m \in BagToSet(msgs) : m.p = p /\ m.kind \in {"PersonLoad", "PedestrianTransfer"}

\* The place of a person: where the lists and the bus say it is; "lost"
\* when none of them holds a person whose chain is not over.
Owner(p) ==
  CASE p \in loading                -> "loading"
    [] InTransit(p)                 -> "transit"
    [] \E c \in Conflux : Held(c, p) -> CHOOSE c \in Conflux : Held(c, p)
    [] p \in atStop                 -> "stop"
    [] ChainDone(p)                 -> "done"
    [] p \in removed                -> "done"
    [] OTHER                        -> "lost"

Ownership == INSTANCE ConfluxOwnership WITH owner <- [p \in Person |-> Owner(p)], item <- cur

\* The lists and messages of the confluxes implement ConfluxOwnership:
\* loadPersons, addAgent, the pedestrian hand-off, the wake-ups and
\* switchTripChainItem with housekeep and killAgent move a person only
\* from loading to transit, from transit to a conflux or a bus stop, from
\* a conflux to transit, or advance its trip chain by one item at the
\* conflux that holds it.
OwnershipRefined == Ownership!Spec

=============================================================================
