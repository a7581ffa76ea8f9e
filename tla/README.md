# TLA+ models of the mid-term Conflux engine and the short-term bus driver

This directory holds TLA+ models of the SimMobility mid-term supply engine
(`src/dev/Basic/medium/entities/conflux/Conflux.cpp`) and of the bus-stop
service of the short-term bus driver
(`src/dev/Basic/short/entities/roles/driver/BusDriver.cpp`), the TLC configurations
that check them, and `PROJECT.json`, which records the components, runs,
mutants, the source lines each definition models, the findings and the hazards.

## 1. The system

The road network is split into **confluxes**, one per signalised node. Each
conflux owns the links flowing into it. Each link is a sequence of
**SegmentStats**, and each SegmentStats holds per-lane deques of persons, a
*lane infinity* for persons waiting to enter, and a per-lane **output counter**
that is refilled every tick. A conflux also owns one **virtual queue** per
inbound link, the admission budget `vqBounds`, the list `activityPerformers` and
other off-road lists, and `lastUpdatedFrame`.

**Workers** own disjoint ordered lists of confluxes and run concurrently. One
tick, for every worker, is:

1. **Main pass.** For each owned conflux, `Conflux::update` runs
   `resetPersonRemTimes`, then `processAgents`, then `setLastUpdatedFrame`.
   `processAgents` builds the TopCMerge order of the on-road persons, appends
   the activity performers and pedestrians, and calls `updateAgent` on each.
2. **Barrier.** All main passes finish before any virtual queue is flushed.
3. **Virtual-queue pass.** For each owned conflux, `processVirtualQueues` sorts
   each virtual queue by decreasing remaining time. It then pops and updates as
   many persons as the queue held. `resetOutputBounds` then recomputes `vqBounds`.
4. **Supply stats.** `updateAndReportSupplyStats` calls `updateLaneParams`,
   which refills the output counters.
5. **Tick barrier.**

`updateAgent` does the following, in order:
- resets the remaining time on a person's first update in the tick;
- takes the `PersonProps` snapshot;
- runs `movePerson`: `frame_init` if the person is not initialised, then the
  `callMovementFrameTick` loop;
- then either `killAgent` (if the person is DONE) or `housekeep`, which repairs
  container membership from the before/after snapshots.

The `callMovementFrameTick` loop repeats while remaining time is left:
- it calls the role's `frame_tick`, and `switchTripChainItem` when the
  sub-trip ends;
- when the role requests the next link's SegmentStats, it runs the
  **cross-link admission protocol**.

Admission depends on whether the next conflux has already been updated this
tick:
- **Not yet updated.** Grant iff `hasSpaceInVirtualQueue` holds and the output
  counter is > 0. The person goes to that conflux's virtual queue, and the loop
  breaks.
- **Already updated.** Grant iff the counter is > 0. The loop continues, and the
  role steps into the next link.
- **Any other `lastUpdatedFrame`** throws.

Person roles and SegmentStats are outside `src/`. The model takes their
contract from `spec.md` (§4.3, §6).

Off the road, a conflux holds persons in lists that it updates every tick:
- `activityPerformers`, `pedestrianList`, `mrt` and `carSharing`;
- the loader conflux's `loadingQueue`.

Persons move between confluxes only by message. The message bus distributes
the messages after the main pass:
- `loadPersons` sends `MSG_PERSON_LOAD` to the starting conflux, and
  `addAgent` handles it there;
- a pedestrian crossing into another conflux is sent with
  `MSG_PEDESTRIAN_TRANSFER_REQUEST`;
- a train or car ride is a stay in `mrt` or `carSharing` until a delayed
  `MSG_WAKE_UP` / `MSG_WAKEUP_CAR_PASSENGER_TELEPORTATION`;
- a person waiting for a bus is handed to a bus-stop agent.

`switchTripChainItem` moves a person to the list its next trip-chain item
calls for.

In the short-term simulator, a **BusDriver** runs `linkDriving` once per tick
(`BusDriver.cpp` 204–403):
- it asks `distanceToNextBusStop` how far the next stop of its route is,
  which queries the current segment and the next segment of the same link
  through `getDistanceToBusStopOfSegment`;
- in the approach zone (10–50 m) it brakes;
- in the arrival zone (< 10 m) it stops;
- once stopped, at the first tick it lets passengers alight and board and
  computes the dwell time;
- at the second tick it sets the waiting limit: the dwell time, or a
  holding time of the bus controller;
- it leaves when the limit is reached, or when it is in the leaving zone.

## 2. Inventory

| Component | Source | Module | Status |
|---|---|---|---|
| Main pass | Conflux.cpp 280–560, 732–812, 992–1182 | ConfluxTick, ConfluxTransit | partly: Driver and ActivityPerformer persons in ConfluxTick, the off-road roles in ConfluxTransit |
| Virtual queues and admission budget | Conflux.cpp 570–730, 1135–1182 | ConfluxTick | modelled |
| TopCMerge ordering | Conflux.cpp 1409–1510 | TopCMerge (ConfluxTick abstracts it to every order) | modelled |
| Person loading and messages | Conflux.cpp 304–317, 911–982, 1613–1656 | ConfluxTransit, ConfluxOwnership | partly (see §7) |
| Off-road role lists | Conflux.cpp 1229–1316 | ConfluxTransit, ConfluxOwnership | partly (see §7) |
| Short-term BusDriver | BusDriver.cpp 35–868 | BusStopService, BusPassengerExchange, PassengerCount | partly (see §7) |
| Statistics, incidents | Conflux.cpp 846–859, 1193–1227, 1658–1674 | – | not modelled: no control reads them |
| Lane geometry, headers, DAO, tests | geospatial/Lane.cpp, *.hpp, long/… | – | not modelled |

Hard behaviours of the engine:
- **Concurrent workers.** Their steps interleave wherever one worker reads or
  writes another conflux's state: `lastUpdatedFrame`, virtual queues,
  `vqBounds`, and SegmentStats.
- **Updated twice in a tick.** A person can be updated in one conflux's main
  pass and again in the next conflux's virtual-queue pass, so the per-tick
  time budget is shared.
- **Deny and retry.** A person denied admission is re-pushed or retries next
  tick, so virtual-queue counts and output counters sit at their limits.
- **Messages delivered later.** A person in a message is in no list. A
  delayed wake-up must find its person, and the person must be put back
  somewhere.
- **Bus-stop state across ticks.** The stop recorded by one distance query,
  the waiting time and the waiting limit are read ticks after they were set.
  Their meaning depends on the tick length.

`PROJECT.json` "hazards" lists each hazard at its source line.

## 3. Modules

### `ConfluxTick.tla`: the tick engine

**Constants.** The road graph is given as constants:
- `Link`, `SegStats`, `LinkConflux`, `LinkSegs`;
- the worker assignment `WorkerCfx`;
- the trip chains `Chain`;
- the segment capacities `SegSpace`;
- the per-tick output counters `FlowOut`.

**Variables.**

| Variable | Code |
|---|---|
| `lanes[s][l]` (a bag, so duplicates show) | SegmentStats lane deques; `l` is lane infinity or the real lane |
| `vq[l]` | `virtualQueuesMap` |
| `vqBound[l]` | `vqBounds` |
| `outCtr[s]` | LaneParams output counter |
| `actPerf[c]` | `activityPerformers` |
| `cfxFrame[c]` | `lastUpdatedFrame` |
| `pr[p]` | the person's context: role, segment, lane, remaining time, `lastUpdatedFrame`, trip-chain cursor, `requestedNextSegStats`, `canMoveToNextSegment`, `toBeRemoved`, activity end |
| `wk[w]` | each worker's position in its loops: a program counter, the person list of `processAgents`, the `PersonProps` snapshot, the virtual-queue counter |
| `err` | the first `runtime_error` thrown |

**Ghost variables**, for the properties only:
- `spent[p]`: time used this tick;
- `exits[l]`: persons who left link `l` since its counter refill.

**Actions.** Each action is one step of a worker:

| Action | Code |
|---|---|
| `StartUpdate` | `resetPersonRemTimes` and the list of `processAgents` |
| `PickMain` / `PickVirtualQueue` + `BeginUpdate` | the start of `updateAgent` and `movePerson` |
| `Iterate` | one iteration of the `callMovementFrameTick` loop: role tick, `switchTripChainItem`, `Admission` |
| `Housekeep` | `housekeep` (`HousekeepOps` is its decision table, `ApplyLanes` its dequeue/addAgent) |
| `KillAgent` | `killAgent` |
| `EndUpdate` | `setLastUpdatedFrame` |
| `StartVirtualQueue` / `EndVirtualQueue` | `processVirtualQueues` |
| `ResetOutputBounds` | `resetOutputBounds` |
| `UpdateSupplyStats` | `updateAndReportSupplyStats` |
| `MainBarrier`, `TickBarrier`, `Finished` | the worker pool (spec §5) |

An `updateAgent` is split into steps at each point where another worker's
state is read or written. Everything between two such points is one atomic
step.

The role's `frame_tick` (`RoleTick`, outside `src/`) is reduced to the
outcomes the engine must handle:
- wait, or enter the lane if it has room;
- advance a SegmentStats;
- request the next link's first SegmentStats, only with time left;
- end the sub-trip.

Time is counted in moves.

### `TopCMerge.tla`: the update order

`getAllPersonsUsingTopCMerge` (`BuildDeques`, with `RECURSIVE LinkDeque`) and
the rounds of `topCMergeDifferentLinksInConflux` (`PickTop`, `AppendTails`).
`EquiTimeList` is the scan over the deque heads, a `FoldLeft`. Each `rand()`
tie-break is a choice of `\E l \in EquiTimeList`. The input is every bounded
configuration of the conflux's links, chosen in `Init`. The result is
checked against a reference:
- a permutation that keeps each link's order;
- with the least driving times first.

### `ConfluxTransit.tla`: the off-road lists and the messages

**Variables.**
- Each conflux's `acts`, `peds`, `mrt` and `cars`, kept as bags so that a
  duplicate shows.
- `loading`, the loader's queue.
- `msgs`, a bag of in-flight messages, each with its due tick.
- `atStop`, the persons handed to bus-stop agents.
- `removed`, the persons whose new role failed `frame_init` and who are
  set to be removed (`isToBeRemoved`).
- `err`, the first `runtime_error` thrown.
- Each person's `chain`, `cur` and `walkPos`.
- The `frame`, the `phase`, and the conflux being updated.

**Actions.**
- `LoadPersons` / `LoadPersonsToSelf`: `loadPersons` with
  `findStartingConflux`.
- `StartUpdate`, `PerformActivity`, `HandOffPedestrian`, `EndItem`,
  `EndItemWalkingOn`, `UpdatePerson` and `EndUpdate`: `processAgents` and `updateAgent` for these
  roles.
  - `SwitchTripChainItem` is the function with the `assignPersonTo*` helpers
    it calls.
  - `AssignPersonToBusStopAgent` follows the kind of stop a WaitBus item
    has (`StopKinds`): a stop with a known agent, which then holds the
    person; a stop with no agent, or no bus stop at either origin, where
    the function returns having sent nothing; two SINK twins, which throw.
  - `HousekeepActs`, `HousekeepPeds`, `KillActs` and `KillPeds` are the
    housekeep and killAgent branches. killAgent chooses its branch by the
    role the person has now, so the kill follows the new role.
  - `FrameInitFails` is `callMovementFrameInit` returning false: the item
    kind `"Drive"` stands for a Driver whose `DriverMovement::frame_init`
    cannot establish a path. Such a person is added to `removed`, and
    `movePerson` returns Done, so `EndItem` kills it. In `loadPersons` the
    person gets no starting conflux and no `MSG_PERSON_LOAD`.
  - `EndItemWalkingOn` is the loop of `callMovementFrameTick` (`:1103`)
    going on after the switch while time is left. The new walk hands off
    to the next conflux at once (`:1120`–`:1132`), and `housekeep` then
    runs on the snapshot taken before the switch. Whether time is left
    depends on the role's `frame_tick` (outside `src/`), so `EndItem`
    (time used up) and `EndItemWalkingOn` are both possible.
- `HandleMessage`, one disjunct per message kind: `AddAgent`,
  `HandlePedestrianTransfer`, `HandleWakeUp` and `HandleWakeUpCar`.
- `MainBarrier`, `TickBarrier` and `Finished`.

Confluxes share only the message bus in the main pass, so one tick's
confluxes are updated one after another, in every order.

### `ConfluxOwnership.tla`: what the confluxes promise

The abstract specification. A person is at every moment in exactly one
place:
- `loading`;
- a conflux;
- `transit`;
- `stop`;
- `done`.

Its moves are limited:
- from loading to transit (`Load`);
- from transit to a conflux or a stop (`Arrive`);
- from a conflux to transit (`Depart`);
- to its next trip-chain item, only at the conflux holding it; in the same
  step it may leave for transit, as a walk that starts and hands off in
  one update does (`Advance`).

`ConfluxTransit` implements it under the refinement mapping
`owner <- [p |-> Owner(p)], item <- cur`. `Owner` reads the place off the
lists and the messages, and maps a person held by nothing to `"lost"`, which
is no place of the abstract specification. `OwnershipRefined` is checked as a
`PROPERTY`.

### `BusStopService.tla`: the bus at its stops

**Constants.**
- `Path`: the segments of the path, each with its link, its length in
  metres, and its stops in offset order.
- `TripStops`: the BusTrip's stops.
- `Elapsed`: the tick, in tenths of a second.
- `MaxV`: the car-following speeds, in metres per tick.
- `MaxBoard`, `HasController`, `TimePoints` and `HoldTimes`.

**Variables.**

| Variable | Code |
|---|---|
| `busStops` | `busStops` |
| `seg`, `moved` | the current segment and the distance moved on it |
| `v` | the velocity |
| `waitAt` | `waitAtStopMS` |
| `waitLimit` | `BUS_STOP_WAIT_PASSENGER_TIME_SEC` |
| `dwell` | `dwellTime_record` |
| `seqNo` | `busstop_sequence_no` |
| `lastTick` | `lastTickDistanceToBusStop` |
| `aboard` | the passengers in the bus |
| `served` (ghost) | the stops recorded at each service, and where the bus stood |

`LinkDriving` is one whole tick of `linkDriving`:
- the distance query;
- the three zones;
- `AlightingPassengers` / `BoardingPassengers` and `dwellTimeCalculation` at
  the first tick stood;
- `setWaitTime_BusStop` at the second tick stood;
- the leave;
- the move (`Advance`, the position update of Driver, outside `src/`).

The car-following model and the passengers' choices are inputs chosen with
`\E`: the velocity in `0..MaxV`, the number alighting (at most the number
aboard) and the number boarding. `StandingAt` finds the stop the bus really
stands before from the path's geometry, independently of the code's queries.

### `BusPassengerExchange.tla` and `PassengerCount.tla`: the exchange at a stop

`BusStopService` treats a stop's passenger exchange as one step: some of
the `aboard` passengers alight, some board. `BusPassengerExchange` models the
code of that step, `passengerGenerationNew` with `AlightingPassengers` and
`BoardingPassengers` (`BusDriver.cpp` 531–541, 806–868), statement by
statement:
- `alighting` and `boarding` are the BusDriver members
  `no_passengers_alighting` and `no_passengers_boarding`. They still hold
  the previous stop's counts when the service starts, and
  `passengerGenerationNew` resets them;
- `inside` is `passengers_inside_bus`; `i` is the loop's index (the
  iterator is `begin + i - 1`); `nearby` and `j` are the agents AuraManager
  finds and the loop over them;
- each entry has a kind, fixed at `Init`: a boarded Passenger who alights
  or stays, a Passenger not yet boarded, or no Passenger; each nearby agent
  boards, declines, is a passing Passenger or is no Passenger. The answers
  come from `Passenger` (outside `src/`), which decides from the person and
  the stop, so they do not change during one service;
- `AlightingIdle` is the `continue` / missing `else` that moves neither the
  iterator nor `i`; `AlightingAsk` erases an alighting passenger (the
  iterator `erase` returns, `i` kept) or moves both on; `AlightingEnd`,
  `BoardingStep` and `BoardingEnd` are the rest of the two loops;
- the ghosts `inside0`, `asked` and `alit` record the bus on arrival, how
  often each entry was asked, and who answered yes.

`PassengerCount` is what `BusStopService` assumes: one step in which `A`
of the `count` passengers alight (`A <= count`), `B <= Waiting` board and the
count becomes `count - A + B`. `BusPassengerExchange` refines it with the
mapping `count <- Len(inside0)` until the service is over and `Len(inside)`
after, the counters 0 until then, `served <- pc = "done"`. This justifies
the one-step abstraction of `BusStopService`.

## 4. Runs

| Run | Module / cfg | Expect | Properties |
|---|---|---|---|
| `tick_core` | MC_ConfluxTick / MC_ConfluxTick.cfg | pass, 37 005 states | `TypeOK`, `Placement`, `NoFatalError`, `TimeBudget`, `LinkOutflowWithinCapacity`, `EveryPersonAdvanced` |
| `segstats_ownership` | MC_ConfluxTick / MC_ConfluxTick_Ownership.cfg | violation | `SegmentStatsOwnedByWorker` |
| `topc_merge` | MC_TopCMerge / MC_TopCMerge.cfg | pass, 249 247 states | `TypeOK`, `MergeIsOrderedPermutation`, `TopCIsLeastFirst` |
| `transit_lists` | MC_ConfluxTransit / MC_ConfluxTransit.cfg | pass, 87 438 states | `TypeOK`, `PersonPlacedOnce`, `WakeUpPerEntry`, `TripChainsComplete`, `OwnershipRefined` |
| `transit_train_then_activity` | MC_ConfluxTransit / …TrainThenActivity.cfg | violation | `PersonPlacedOnce` |
| `transit_train_first` | MC_ConfluxTransit / …TrainFirst.cfg | violation | `TripChainsComplete` |
| `transit_activity_then_walk_on` | MC_ConfluxTransit / …ActivityThenWalkOn.cfg | violation | `PersonPlacedOnce` |
| `bus_stop_service` | MC_BusStopService / MC_BusStopService.cfg | pass, 89 448 states | `TypeOK`, `ServiceAtStandingStop`, `EveryStopServedOnce`, `DwellHonoured` |
| `bus_adjacent_stops` | MC_BusStopService / …AdjacentStops.cfg | violation | `ServiceAtStandingStop` |
| `bus_two_stops_on_segment` | MC_BusStopService / …TwoStopsOnSegment.cfg | violation | `EveryStopServedOnce` |
| `bus_passenger_exchange` | MC_BusPassengerExchange / MC_BusPassengerExchange.cfg | pass, 123 483 states | `TypeOK`, `AlightingFollowsAnswers`, `ExchangeTerminatesWhenAllBoarded`, `ExchangeRefinesCount` |
| `bus_alighting_non_passenger` | MC_BusPassengerExchange / …NonPassenger.cfg | violation | `ExchangeTerminates` |

**`tick_core`** shows that, under every interleaving of the two workers and
every TopCMerge order:
- every live person between updates is in exactly one container, and it
  matches their segment and lane;
- no engine `runtime_error` is reachable;
- no person uses more than one tick of time in a tick;
- no link releases more persons than its output counter;
- at the end of every tick every person has been updated.

`hasSpaceInVirtualQueue` releases the lock before `housekeep` pushes
(`Conflux.cpp:1146`), but no other worker can push onto the same queue in
between. A person enters link l's virtual queue only from a link that
ends at l's upstream node, and all those links belong to one conflux, so
each virtual queue has a single producer worker. No property is spent on
it.

**`segstats_ownership`** checks spec §5: SegmentStats are "mutated only by
the owning conflux's worker". TLC finds a 40-step counterexample:
1. w2 finishes Y's main pass.
2. w1, updating X, grants p1 the move through the already-updated branch
   (`Conflux.cpp:1160`).
3. `housekeep` adds p1 to Y's SegmentStats from w1 (`:530`).

**`topc_merge`** covers every input of two links (two and one SegmentStats,
up to two persons each, capacities 0–2) and every tie-break. Nobody is lost
or repeated, and the least-first prefix holds.

**`transit_lists`** runs three persons whose chains are drawn from a set
covering every role change. It shows that:
- each person is held exactly once, or by nothing once set to be removed;
- every `mrt` / `carSharing` entry has exactly one pending wake-up;
- every chain ends, under weak fairness;
- the lists and messages refine `ConfluxOwnership`.

The pass run's chains never start a cross-conflux walk right after an
activity; that case is the run below.

The three transit violations are findings:
- A wake-up followed by an Activity leaves the person in no list
  (`Conflux.cpp:958`).
- A chain that starts with a train ride is put in `mrt` with no wake-up
  (`:229`).
- An activity that ends, followed by a walk that leaves for another
  conflux in the same update, leaves the person in two places:
  1. the hand-off posts `MSG_PEDESTRIAN_TRANSFER_REQUEST` and erases the
     person from `pedestrianList` (`:1128`);
  2. `housekeep` sees Activity before and Pedestrian after, and pushes
     the person back (`:379`–`:385`).

  spec.md S5 says the sender's list no longer holds the person.

`MC_ChainsWalkThenDrive` (no run keeps it) is a walk followed by a
Driver that cannot establish its path. With it, TLC finds
`PersonPlacedOnce` violated: killAgent takes the `RL_DRIVER` branch of the
new role, which looks only in `activityPerformers` and at a null lane
(`:767`), so the person stays in `pedestrianList` after the worker has
removed it. It is a hazard in `PROJECT.json`.

`WokenAtSubTripEnd` states when a wake-up is due. With `MC_ChainsLateTrain`
(a ride boarded after tick 0) in place of `MC_Chains`, TLC finds it
violated: the offset is `endTime / baseGranMS` counted from the boarding
tick (`:943`). spec.md scenario S6 describes the same offset. No run is
kept for it, so it is a hazard in `PROJECT.json`.

`MC_ChainsWaitNoStop` (in `MC_ConfluxTransit`, no run keeps it) gives a
walk followed by a wait for the bus whose origin is no bus stop, or whose
stop has no agent. With it in place of `MC_Chains`, TLC finds
`PersonPlacedOnce` violated: `assignPersonToBusStopAgent` returns silently
(`Conflux.cpp:1261`, `:1276`), `switchTripChainItem` still erases the person
from `pedestrianList` (`:1008`), and the person is held by nothing. Whether
the network data can produce such a wait lies outside `src/`, so this is a
hazard in `PROJECT.json` rather than a finding.

**`bus_stop_service`** uses a path of three segments on two links:
- a stop of the route on each of the first two segments;
- a foreign stop on the third segment.

Against every velocity and every passenger choice, it shows that:
- each service happens with the stop the bus stands at recorded;
- every stop is served exactly once by the end of the path;
- the bus never leaves a stop it stood at before `dwellTime_record`.

The two bus violations are findings. In each, the same properties are
broken on a path or tick the code meets:
- **`bus_adjacent_stops`**: stops on two consecutive segments of one link.
  The query of the next segment records its stop while the bus stands at the
  current one, so passengers alight at the wrong stop (`BusDriver.cpp:646`).
- **`bus_two_stops_on_segment`**: two stops on one segment. The loop breaks
  at the first stop, so the second is never served (`:673`).

**`bus_passenger_exchange`** runs every bus of up to four entries of
every kind in which all are boarded or some are not, and up to two agents of
every kind near the stop. It shows that:
- once `AlightingPassengers` returns, every boarded passenger was asked
  exactly once, exactly those who said yes were erased, the others kept
  their order, and `no_passengers_alighting` counts the erased: erasing
  inside the loop skips and repeats no one (`BusDriver.cpp:827`);
- when every entry is a boarded Passenger, the exchange ends;
- the exchange refines `PassengerCount`.

**`bus_alighting_non_passenger`** (a violation, a finding) asks that the
exchange end whatever the bus holds. An entry that is no Passenger, or a
Passenger that has not boarded, moves neither the iterator nor the index,
so `AlightingPassengers` loops for ever on it (`BusDriver.cpp:821`). Whether
such an entry can be in `passengers_inside_bus` depends on `Passenger`,
outside `src/`; the code's own comment and `isBusBoarded` check say it is
expected.

**Mutants.** Every property of a passing run has a mutant in `PROJECT.json`:
a plausible bug in the code it names that TLC catches. For example:
- admission without the counter check;
- a housekeep that forgets the dequeue;
- a Top-C loop that runs to `c <= capacity`;
- a housekeep branch that forgets to add a returning activity performer
  (against the refinement);
- `hasSpaceInVirtualQueue` with `<=`;
- `hasNextSegment(false)`;
- a wait reset to 0 instead of -1;
- a waiting limit never changed.

## 5. Bounds

**ConfluxTick.**
- Three confluxes in a chain and two workers, so that both admission
  branches occur.
- Two persons, who also compete for one output counter.
- Capacity 1 per SegmentStats, so the limits are reached.
- `TickLen = 3`, four ticks. A fifth tick only repeats the states.

**TopCMerge.** Two links and at most two persons per SegmentStats are enough
for ties across links and between the capacity cut and the tails.

**ConfluxTransit.**
- Two confluxes beside the loader.
- 2 ms ticks with end times of 1–3 ms, so an end time falls inside a tick.
- Seven ticks.

**BusStopService.**
- Speeds up to 9 m per tick, so every zone can be entered or skipped.
- At most one boarder per stop.
- Forty ticks, more than the path needs at the lowest speeds that do not
  stop the bus.

**BusPassengerExchange.** Up to four entries inside (`MaxInside`), so that
two consecutive alighting passengers, an alighting one last, and a stayer
between two alighting ones all occur; up to two agents near the stop
(`MaxNearby`), so that a boarder follows one who is passed over.

## 6. Fairness

**ConfluxTick: none.** Its runs check safety only. An activity role may wait
at every tick, so the code guarantees no progress to assume.

**ConfluxTransit: `WF_vars(Next)`.** The simulation loop updates every
conflux at every tick and distributes the messages after each pass. Nothing
in the model can wait for ever except what the code leaves waiting.

**BusPassengerExchange: `WF_vars(Next)`.** The exchange is a sequence of
statements on the bus driver's thread; nothing can hold back a step that
can be taken. A loop that does not move is a stutter of the model, so weak
fairness does not force it forward, and `ExchangeTerminates` fails exactly
when the code hangs.

**BusStopService: none.** The car-following model may keep the bus still. Its
properties are safety properties and end-of-path invariants.

`CHECK_DEADLOCK` stays on wherever the system stops only in a `Finished`
stutter. `MC_TopCMerge.cfg` turns it off because the merge terminates.

## 7. Not modelled, and why

**Conflux messages and lists.**
- `MSG_INSERT_INCIDENT` only changes a flow rate; a different `FlowOut` is the
  same thing.
- `MSG_MRT_PASSENGER_TELEPORTATION` is not sent by any code under `src/`.
- The stop lookup of `assignPersonToBusStopAgent` is abstracted to the kind
  of stop a WaitBus item has. No checked chain has two SINK twins: the
  throw ends the simulation, which the `err` state models.
- `updateBusStopAgents`, and the BusDriver branch of `housekeep`, are not
  modelled.
- Drivers are in ConfluxTick, not in ConfluxTransit.
- A failing `findStartingConflux` is modelled only for a first item whose
  path cannot be established (`"Drive"`). A first item with no origin
  node, and the reasons a path search fails, are network data outside
  `src/`.
- Roles other than Activity and Driver never fail `frame_init` in the
  model: `movePerson` calls it only for those two.
- After a switch, the update goes on only for a new walk that hands off at
  once (`EndItemWalkingOn`). A new walk that ends within the same update,
  and so switches again, is left to the next tick: a walk in the model
  crosses one conflux per tick.

**Bus driver.**
- The holding of `BusController` is left out: `HasController` is FALSE in
  the configs, because its control time points are external data.
- Car-following and lane changing are replaced by a free choice of speed.
- Ticks of 2 s or more are not checked. The code's comment assumes 0.2 s
  ticks. With `Elapsed = 20`, `DwellHonoured` fails: the dwell time becomes
  the waiting limit only at the second tick stood, so the bus leaves after
  one tick (`BusDriver.cpp:346`, a hazard in `PROJECT.json`).
- The random `passengerGeneration` is never called.
- The crowding factor needs more than 40 passengers aboard, which is beyond
  the bounds.
- Output and MPI packing functions are not modelled.

**Engine details.**
- `isQueuing`, `setPositionOfLastUpdatedAgentInLane`, vehicle lengths,
  statistics and logging change no membership and no admission.
- The torn read of `lastUpdatedFrame` (`Conflux.cpp:1143`) is not modelled:
  the model reads it atomically.

**Elsewhere.** Long-term DAO, lane geometry, headers and unit tests hold no
stateful control to check.
