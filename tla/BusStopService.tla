--------------------------- MODULE BusStopService ---------------------------
(***************************************************************************)
(* The stop service of a short-term bus driver (BusDriver.cpp):           *)
(* frame_init and findBusStopInPath choose the stops the bus serves;      *)
(* every tick linkDriving asks getDistanceToBusStopOfSegment, through     *)
(* distanceToNextBusStop, how far the next stop is, and from the answer   *)
(* the zone predicates isBusApproachingBusStop, isBusArriveBusStop and    *)
(* isBusLeavingBusStop drive waitAtStopMS: braking on approach, standing  *)
(* still in the arrival zone, alighting and boarding                      *)
(* (passengerGenerationNew) at the first tick stood, the dwell time       *)
(* becoming the waiting limit at the second, and leaving.                 *)
(*                                                                         *)
(* Positions and distances are whole metres, a tick is one second, so a   *)
(* velocity is the metres moved per tick; times are tenths of a second.   *)
(* What the car-following model (Driver, outside src/) makes of an        *)
(* acceleration left to it is any velocity up to MaxV; the code's own     *)
(* decelerations bound the velocity that follows them.  The decisions of  *)
(* Passenger (outside src/) to alight or board are a choice of counts.    *)
(* The distance queries record the stop they found (busstop_sequence_no,  *)
(* lastVisited_BusStop, the approaching stop's position) as they go; the  *)
(* model keeps that side effect.                                          *)
(***************************************************************************)
EXTENDS Integers, Sequences, SequencesExt, FiniteSets

CONSTANTS
  Path,        \* the vehicle's path: [link, len, stops : <<[off, id], ...>>]
  TripStops,   \* the BusTrip's bus stops, <<>> when it assigns none
  MaxV,        \* the highest velocity the car-following model gives
  Elapsed,     \* p.elapsedSeconds, in tenths
  MaxBoard,    \* the most passengers boarding at one stop
  HasController, \* BusController::HasBusControllers()
  TimePoints,  \* the busline's control time points (stop sequence numbers)
  HoldTimes,   \* what the controller's decisionCalculation may return (tenths)
  MaxTick      \* the last tick explored

ASSUME MaxV < 10   \* a tick never jumps over the 10 m arrival zone

\* The initial BUS_STOP_WAIT_PASSENGER_TIME_SEC, and the limit left
\* unchanged on leaving a stop: 2 s.
DefaultWait == 20

VARIABLES
  busStops,   \* busStops
  seg,        \* the index of the vehicle's current segment in Path
  moved,      \* getDistanceMovedInSegment
  v,          \* the velocity
  waitAt,     \* waitAtStopMS (tenths; -1 when not serving a stop)
  waitLimit,  \* BUS_STOP_WAIT_PASSENGER_TIME_SEC (tenths)
  dwell,      \* dwellTime_record and DwellTime_ijk (tenths)
  seqNo,      \* busstop_sequence_no: the stop the last query found
  lastTick,   \* lastTickDistanceToBusStop
  aboard,     \* the passengers inside the bus
  served,     \* each service: the stop recorded and the stop stood at
  tick        \* the ticks driven

vars == <<busStops, seg, moved, v, waitAt, waitLimit, dwell, seqNo, lastTick,
          aboard, served, tick>>

-----------------------------------------------------------------------------
(* frame_init                                                              *)

\* findBusStopInPath: the stops of every segment, in path order and, on a
\* segment, by offset.
FindBusStopInPath ==
  FlattenSeq([k \in 1..Len(Path) |-> [i \in 1..Len(Path[k].stops) |-> Path[k].stops[i].id]])

\* The stops of the BusTrip, or those found on the path when it has none;
\* waitAtStopMS starts at 0.
Init ==
  /\ busStops = IF TripStops = <<>> THEN FindBusStopInPath ELSE TripStops
  /\ seg = 1 /\ moved = 0 /\ v = 0
  /\ waitAt = 0 /\ waitLimit = DefaultWait /\ dwell = 0
  /\ seqNo = 0 /\ lastTick = -1
  /\ aboard = 0 /\ served = <<>> /\ tick = 0

-----------------------------------------------------------------------------
(* The distance queries                                                    *)

\* Mutant: hasNextSegment(false), the next segment on any link.
HasNextSegmentAnyLink == seg < Len(Path)

\* hasNextSegment(true): the next segment of the path on the same link.
HasNextSegment == seg < Len(Path) /\ Path[seg + 1].link = Path[seg].link

\* The index of a stop in busStops (the first equal bus-stop number), 0
\* when it is not a stop of the bus.
StopIndex(id) == SelectInSeq(busStops, LAMBDA b : b = id)

\* getDistanceToBusStopOfSegment(rs): over the segment's stops in offset
\* order, a stop of the bus is recorded; on the current segment the first
\* such stop ends the loop and the distance is its offset less the
\* distance moved, on another the loop goes on and the last one's offset
\* is added to what is left of the current segment.  -1 (-100 cm) when
\* the segment has no stop of the bus; found is 0 then.
DistanceToBusStopOfSegment(k) ==
  LET st == Path[k].stops
      i  == IF k = seg THEN SelectInSeq(st, LAMBDA s : StopIndex(s.id) > 0)
                       ELSE SelectLastInSeq(st, LAMBDA s : StopIndex(s.id) > 0)
  IN  CASE i = 0   -> [d |-> -1, found |-> 0]
        [] k = seg -> [d |-> st[i].off - moved, found |-> StopIndex(st[i].id)]
        [] OTHER   -> [d |-> Path[seg].len - moved + st[i].off, found |-> StopIndex(st[i].id)]

\* distanceToNextBusStop: the nearer of the current and the next segment's
\* answers when both are non-negative, else the current one if positive,
\* else the next one's.  found is the stop the second query leaves
\* recorded (the first one's when the second found none).
DistanceToNextBusStop ==
  LET c == DistanceToBusStopOfSegment(seg)
      n == IF HasNextSegment THEN DistanceToBusStopOfSegment(seg + 1)
           ELSE [d |-> -1, found |-> 0]
      d == CASE c.d >= 0 /\ n.d >= 0 -> IF c.d <= n.d THEN c.d ELSE n.d
             [] c.d > 0               -> c.d
             [] OTHER                 -> n.d
  IN  [d |-> d, found |-> IF n.found > 0 THEN n.found ELSE c.found]

IsBusApproachingBusStop(d) == d >= 10 /\ d <= 50 /\ (lastTick < 0 \/ lastTick > d)
IsBusArriveBusStop(d) == d > 0 /\ d < 10
\* Its "distance < 0" branch is inside "distance >= 10": dead.
IsBusLeavingBusStop(d) == d >= 10 /\ d < 50 /\ lastTick < d

-----------------------------------------------------------------------------
(* Where the bus is                                                        *)

RECURSIVE SegStart(_)
SegStart(k) == IF k = 1 THEN 0 ELSE SegStart(k - 1) + Path[k - 1].len

AtEnd == seg = Len(Path) /\ moved >= Path[seg].len

\* updatePositionOnLink (Driver, outside src/): the vehicle moves on by
\* step metres, into the following segments, and stops at the path's end.
RECURSIVE Advance(_, _)
Advance(k, m) ==
  IF m >= Path[k].len /\ k < Len(Path) THEN Advance(k + 1, m - Path[k].len)
  ELSE [seg |-> k, moved |-> IF m > Path[k].len THEN Path[k].len ELSE m]

\* The stop of the bus the vehicle stands before, less than 10 m ahead,
\* by the geometry of the path rather than by the queries.
StandingAt ==
  LET ahead == {s \in UNION {{[id |-> st.id, dist |-> SegStart(k) + st.off - SegStart(seg) - moved]
                               : st \in ToSet(Path[k].stops)} : k \in 1..Len(Path)} :
                  StopIndex(s.id) > 0 /\ s.dist > 0 /\ s.dist < 10}
  IN  IF ahead = {} THEN "none" ELSE (CHOOSE s \in ahead : \A t \in ahead : s.dist <= t.dist).id

-----------------------------------------------------------------------------
(* Alighting, boarding and the dwell time                                  *)

\* dwellTimeCalculation(A, B, 0, 0, 0, n), in tenths: with Pfront = 0 the
\* front channel serves the boarders, the rear one the alighters.
DwellTimeCalculation(A, B, n) ==
  LET crowd == IF n > 40 THEN 1 ELSE 0
      front == 35 * B + 35 * crowd * B
      rear  == 10 * A
  IN  7 + (IF front >= rear THEN front ELSE rear)

\* Mutant: one more passenger alights than is inside the bus.
AlightingBeyondAboard == 0..(aboard + 1)

\* AlightingPassengers: each boarded passenger inside the bus decides
\* whether to alight here and is erased if so.
Alighting == 0..aboard
\* BoardingPassengers: each passenger waiting at the approaching stop
\* decides whether to board.
Boarding == 0..MaxBoard

-----------------------------------------------------------------------------
(* linkDriving, one tick                                                   *)

\* The velocity after the tick: what the car-following model gives, unless
\* the approach brakes at -5 m/s2 (above 2 m/s) or the arrival at -50 m/s2;
\* leaving hands the bus back to the car-following model.
VelocityAfter(approach, arrive, leave) ==
  CASE leave              -> 0..MaxV
    [] arrive             -> {0}
    [] approach /\ v > 2  -> 0..(IF v > 5 THEN v - 5 ELSE 0)
    [] OTHER              -> 0..MaxV

\* Mutant: the second tick stood leaves the waiting limit as it was.
WaitLimitKeptAtDefault(second, dwellNow, rec) == {waitLimit}

\* The waiting limits the second tick stood may set (setWaitTime_BusStop):
\* the holding time of the bus controller at a control time point of the
\* busline (busstop_sequence_no as recorded), the dwell time otherwise.
WaitLimitAfter(second, dwellNow, rec) ==
  CASE ~second                             -> {waitLimit}
    [] HasController /\ rec - 1 \in TimePoints -> HoldTimes
    [] OTHER                               -> {dwellNow}

\* Mutant: leaving a stop sets waitAtStopMS to 0.
WaitAfterResetToZero(leave, w) == IF leave THEN 0 ELSE w

\* Leaving a stop sets waitAtStopMS to -1: no stop is being served.
WaitAfter(leave, w) == IF leave THEN -1 ELSE w

\* One tick of linkDriving; the distance query is evaluated once per tick.
LinkDriving ==
  \E q \in {DistanceToNextBusStop} :
  LET d        == q.d
      rec      == IF q.found > 0 THEN q.found ELSE seqNo
      approach == IsBusApproachingBusStop(d)
      w1       == IF approach THEN 0 ELSE waitAt
      arrive   == IsBusArriveBusStop(d) /\ w1 >= 0 /\ w1 < waitLimit
      stands   == arrive /\ v = 0
      w2       == IF stands THEN w1 + Elapsed ELSE w1
      first    == stands /\ w2 = Elapsed
      second   == stands /\ w2 = 2 * Elapsed
  IN  /\ ~AtEnd /\ tick < MaxTick
      /\ \E A \in Alighting, B \in Boarding :
         LET dwell2 == IF first THEN DwellTimeCalculation(A, B, aboard) ELSE dwell
         IN  \E limit2 \in WaitLimitAfter(second, dwell2, rec) :
           LET leave == IsBusLeavingBusStop(d) \/ w2 >= limit2
           IN  /\ dwell' = dwell2
               /\ aboard' = IF first THEN aboard - A + B ELSE aboard
               /\ served' = IF first THEN Append(served, [rec |-> busStops[rec], at |-> StandingAt])
                            ELSE served
               /\ waitAt' = WaitAfter(leave, w2)
               /\ waitLimit' = IF leave THEN DefaultWait ELSE limit2
               /\ \E vn \in VelocityAfter(approach, arrive, leave) :
                    /\ v' = vn
                    /\ seg' = Advance(seg, moved + vn).seg
                    /\ moved' = Advance(seg, moved + vn).moved
      /\ seqNo' = rec
      /\ lastTick' = d
      /\ tick' = tick + 1
      /\ UNCHANGED busStops

\* The bus is at the end of its path, or the last tick explored is done.
Finished == (AtEnd \/ tick = MaxTick) /\ UNCHANGED vars

Next == LinkDriving \/ Finished

Spec == Init /\ [][Next]_vars

-----------------------------------------------------------------------------
(* Properties                                                              *)

TypeOK ==
  /\ seg \in 1..Len(Path) /\ moved \in 0..Path[seg].len /\ v \in 0..MaxV
  /\ waitAt >= -1 /\ waitLimit >= 0 /\ dwell >= 0 /\ aboard >= 0
  /\ seqNo \in 0..Len(busStops) /\ tick \in 0..MaxTick

\* The stops of the bus that lie on its path.
PathStops == {st.id : st \in UNION {ToSet(Path[k].stops) : k \in 1..Len(Path)}} \cap ToSet(busStops)

Services(s) == Cardinality({i \in 1..Len(served) : served[i].at = s})

\* The stop whose passengers alight and board (lastVisited_BusStop and the
\* approaching stop's position, read by AlightingPassengers and
\* BoardingPassengers) is the stop the bus stands at: the distance
\* queries of linkDriving leave the right stop recorded.
ServiceAtStandingStop ==
  \A i \in 1..Len(served) : served[i].rec = served[i].at

\* The bus stops at each of its stops on the path once: never twice, and,
\* once the path is driven, at every one.
EveryStopServedOnce ==
  \A s \in PathStops : Services(s) <= 1 /\ (AtEnd => Services(s) = 1)

\* A bus standing at a stop leaves it only when it has stood for the dwell
\* time computed at its first tick there: waitAtStopMS, counted against
\* BUS_STOP_WAIT_PASSENGER_TIME_SEC, which the second tick resets from the
\* dwell time, is at least the dwell time when the bus goes.
DwellHonoured ==
  [][(v = 0 /\ StandingAt # "none" /\ waitAt >= 0 /\ waitAt' = -1)
       => waitAt + Elapsed >= dwell']_vars

====
