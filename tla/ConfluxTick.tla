---------------------------- MODULE ConfluxTick ----------------------------
(***************************************************************************)
(* The mid-term Conflux tick engine (Conflux.cpp).                         *)
(*                                                                         *)
(* Workers each own an ordered list of confluxes.  A tick has a main       *)
(* phase (Conflux::update on each owned conflux, in order), a barrier, a   *)
(* virtual-queue phase (Conflux::processVirtualQueues then                 *)
(* resetOutputBounds on each owned conflux), the supply-stats step        *)
(* (updateAndReportSupplyStats refilling the lanes' output counters) and  *)
(* the tick barrier.  Workers run concurrently; each updateAgent call is   *)
(* split into the steps at which it reads or writes state that another     *)
(* worker can see: its start (updateAgent / movePerson), one step per      *)
(* iteration of the while loop of callMovementFrameTick, and housekeep /   *)
(* killAgent at its end.                                                   *)
(*                                                                         *)
(* Roles are the external movement facets.  Their frame_tick is a         *)
(* nondeterministic choice restricted to the contract the engine relies   *)
(* on: it consumes remaining time, moves within a link, requests the next *)
(* link's first SegmentStats when it reaches the end of a link with time  *)
(* left, or ends the sub-trip.                                             *)
(***************************************************************************)
EXTENDS Integers, Sequences, FiniteSets, SequencesExt, BagsExt

CONSTANTS
  Person,       \* persons (model values)
  Conflux,      \* confluxes (model values)
  Worker,       \* worker threads (model values)
  Link,         \* links (model values)
  SegStats,     \* SegmentStats (model values)
  LinkConflux,  \* [Link -> Conflux]: the conflux whose upstreamSegStatsMap holds the link
  LinkSegs,     \* [Link -> Seq(SegStats)]: the link's SegmentStats, upstream first
  WorkerCfx,    \* [Worker -> Seq(Conflux)]: the confluxes a worker updates, in order
  Chain,        \* [Person -> Seq(Item)]: each person's trip chain
  SegSpace,     \* [SegStats -> Nat]: ceil(length * lanes / PCU)
  FlowOut,      \* [SegStats -> Nat]: output counter granted per tick
  TickLen,      \* tickTimeInS, in the units roles consume time in
  MaxFrame,     \* last simulated tick
  NoSeg, NoLink, NoPerson \* null pointers

LaneInf  == "inf"    \* SegmentStats::laneInfinity
LaneReal == "real"   \* the lane a driver occupies in a SegmentStats
NoLane   == "null"   \* currLane == nullptr: in a virtual queue or off the road
Lanes    == {LaneInf, LaneReal}

ASSUME TickLen \in Nat \ {0} /\ MaxFrame \in Nat \ {0}
ASSUME \A w \in Worker : WorkerCfx[w] \in Seq(Conflux) /\ WorkerCfx[w] # <<>>

VARIABLES
  frame,      \* currFrame of every conflux (ticks advance in lockstep)
  cfxFrame,   \* [Conflux -> Nat]: Conflux::lastUpdatedFrame
  lanes,      \* [SegStats -> [Lanes -> Bag(Person)]]: per-lane person deques
  outCtr,     \* [SegStats -> Nat]: LaneParams output counter of the lane
  vq,         \* [Link -> Seq(Person)]: virtualQueuesMap
  vqBound,    \* [Link -> Nat]: vqBounds
  actPerf,    \* [Conflux -> Bag(Person)]: activityPerformers
  pr,         \* [Person -> record]: the person's movement context
  removed,    \* persons removed from the simulation by killAgent
  wk,         \* [Worker -> record]: each worker's position in the tick
  err,        \* the runtime_error thrown by the engine, or "none"
  spent,      \* ghost: time units the roles consumed per person this tick
  exits       \* ghost: persons that left each link since its counter refill

vars == <<frame, cfxFrame, lanes, outCtr, vq, vqBound, actPerf, pr, removed,
          wk, err, spent, exits>>

-----------------------------------------------------------------------------
(* Road graph (read-only).                                                 *)

SegLink(s)   == CHOOSE l \in Link : \E i \in DOMAIN LinkSegs[l] : LinkSegs[l][i] = s
SegCfx(s)    == LinkConflux[SegLink(s)]           \* getParentConflux()
FirstSeg(l)  == Head(LinkSegs[l])
SegIdx(s)    == CHOOSE i \in DOMAIN LinkSegs[SegLink(s)] : LinkSegs[SegLink(s)][i] = s
LastInLink(s) == SegIdx(s) = Len(LinkSegs[SegLink(s)])
CfxLinks(c)  == {l \in Link : LinkConflux[l] = c}
CfxSegs(c)   == {s \in SegStats : SegCfx(s) = c}
WorkerOf(c)  == CHOOSE w \in Worker : \E i \in DOMAIN WorkerCfx[w] : WorkerCfx[w][i] = c

Item(p, r)   == Chain[p][r.cursor]
\* The link after the person's current one on the path of its trip.
NextLink(p, r) ==
  LET path == Item(p, r).path
      i    == CHOOSE j \in DOMAIN path : path[j] = SegLink(r.seg)
  IN  IF i < Len(path) THEN path[i + 1] ELSE NoLink

Occupancy(s) == BagCardinality(lanes[s][LaneReal])
HasRoom(s)   == Occupancy(s) < SegSpace[s]
Max0(n)      == IF n > 0 THEN n ELSE 0

-----------------------------------------------------------------------------
(* Roles: the movement facets' frame_init and frame_tick.                  *)

\* frame_init of a new Driver: start in lane infinity of the path's first
\* SegmentStats (DriverMovement, outside src/).
DriverStart(r, c, it) ==
  [r EXCEPT !.cursor = c, !.role = "Driver", !.seg = FirstSeg(it.path[1]),
            !.lane = LaneInf, !.tbr = FALSE, !.inited = TRUE,
            !.req = NoSeg, !.canMove = "none"]

\* frame_init of an ActivityPerformer: off the road until actEnd.
ActivityStart(r, c, it) ==
  [r EXCEPT !.cursor = c, !.role = "Activity", !.seg = NoSeg, !.lane = NoLane,
            !.tbr = FALSE, !.inited = TRUE, !.actEnd = frame + 1 + it.dur]

\* One call of the role's frame_tick: the set of movement contexts it may
\* leave behind.
\* A move that needs room ahead: possible only when there is room.
Enter(room, r) == IF room THEN {r} ELSE {}

RoleTick(p, r) ==
  LET stay  == [r EXCEPT !.rem = 0, !.canMove = "none"]
      adv   == [r EXCEPT !.rem = @ - 1, !.canMove = "none"]
      link  == LinkSegs[SegLink(r.seg)]
      ahead == IF LastInLink(r.seg) THEN r.seg ELSE link[SegIdx(r.seg) + 1]
  IN
  CASE r.role = "Activity" /\ frame >= r.actEnd -> {[r EXCEPT !.tbr = TRUE]}
    [] r.role = "Activity"   -> {[r EXCEPT !.rem = 0]}
    \* lane infinity or a virtual queue: wait, or enter the lane if it has room
    [] r.lane # LaneReal     -> {stay} \cup Enter(HasRoom(r.seg), [adv EXCEPT !.lane = LaneReal])
    [] r.canMove = "granted" -> {[adv EXCEPT !.seg = FirstSeg(NextLink(p, r))]}
    [] r.canMove = "denied"  -> {stay}
    [] ~LastInLink(r.seg)    -> {stay} \cup Enter(HasRoom(ahead), [adv EXCEPT !.seg = ahead])
    [] NextLink(p, r) = NoLink -> {stay, [r EXCEPT !.tbr = TRUE]}
    \* at the end of the link with time left: request the next link
    [] r.rem > 1             -> {stay, [adv EXCEPT !.req = FirstSeg(NextLink(p, r))]}
    [] OTHER                 -> {stay}

-----------------------------------------------------------------------------
(* Conflux operations on one person.                                       *)

\* PersonProps: the snapshot housekeep compares.
Props(p, c) ==
  [role |-> pr[p].role, seg |-> pr[p].seg, lane |-> pr[p].lane,
   cfx |-> IF pr[p].seg # NoSeg THEN SegCfx(pr[p].seg) ELSE c]

\* switchTripChainItem: the set of outcomes, each [r, done].
SwitchTripChainItem(p, r) ==
  LET c == r.cursor + 1
  IN  IF c > Len(Chain[p])
      THEN {[r |-> r, done |-> TRUE]}
      ELSE IF Chain[p][c].kind = "Activity"
      THEN {[r |-> ActivityStart(r, c, Chain[p][c]), done |-> FALSE]}
      ELSE {[r |-> DriverStart(r, c, Chain[p][c]), done |-> FALSE],
            \* frame_init could not establish a path
            [r |-> [r EXCEPT !.cursor = c, !.role = "Driver"], done |-> TRUE]}

\* hasSpaceInVirtualQueue
HasSpaceInVirtualQueue(l) == vqBound[l] > Len(vq[l])

\* The cross-link admission protocol of callMovementFrameTick: the new
\* movement context, whether the output counter is decremented, whether the
\* loop breaks, and the error thrown.
\* Mutant: the already-updated branch grants without the output counter.
AdmissionIgnoringCounter(r) ==
  IF r.req = NoSeg THEN [r |-> r, dec |-> FALSE, brk |-> FALSE, err |-> "none"]
  ELSE IF frame > cfxFrame[LinkConflux[SegLink(r.req)]]
       THEN IF HasSpaceInVirtualQueue(SegLink(r.req))
            THEN [r |-> [r EXCEPT !.canMove = "granted", !.seg = r.req,
                                  !.lane = NoLane, !.req = NoSeg],
                  dec |-> TRUE, brk |-> TRUE, err |-> "none"]
            ELSE [r |-> [r EXCEPT !.canMove = "denied", !.req = NoSeg],
                  dec |-> FALSE, brk |-> FALSE, err |-> "none"]
       ELSE [r |-> [r EXCEPT !.canMove = "granted", !.req = NoSeg],
             dec |-> TRUE, brk |-> FALSE, err |-> "none"]

Admission(r) ==
  IF r.req = NoSeg THEN [r |-> r, dec |-> FALSE, brk |-> FALSE, err |-> "none"]
  ELSE
  LET nl  == SegLink(r.req)
      nc  == LinkConflux[nl]
      ctr == outCtr[r.seg]
      deny == [r |-> [r EXCEPT !.canMove = "denied", !.req = NoSeg],
               dec |-> FALSE, brk |-> FALSE, err |-> "none"]
  IN
  CASE frame > cfxFrame[nc] ->
         IF HasSpaceInVirtualQueue(nl) /\ ctr > 0
         THEN [r |-> [r EXCEPT !.canMove = "granted", !.seg = r.req,
                               !.lane = NoLane, !.req = NoSeg],
               dec |-> TRUE, brk |-> TRUE, err |-> "none"]
         ELSE deny
    [] frame = cfxFrame[nc] ->
         IF ctr > 0
         THEN [r |-> [r EXCEPT !.canMove = "granted", !.req = NoSeg],
               dec |-> TRUE, brk |-> FALSE, err |-> "none"]
         ELSE deny
    [] OTHER -> [deny EXCEPT !.err = "lastUpdatedFrame managed incorrectly"]

\* housekeep: how the containers are repaired from the snapshots b and a.
\* deq: dequeue from b.seg/b.lane; add: addAgent to a.seg/a.lane; push:
\* pushBackOntoVirtualQueue of a.seg's link; actAdd/actDel: activityPerformers.
\* Mutant: a person who changed SegmentStats is added to the new one but
\* never dequeued from the old one.
HousekeepOpsKeepingOld(b, a) ==
  LET none   == [deq |-> FALSE, add |-> FALSE, push |-> FALSE,
                 actAdd |-> FALSE, actDel |-> FALSE, err |-> "none"]
      onRoad ==
        CASE b.lane = NoLane /\ a.lane # NoLane -> [none EXCEPT !.add = TRUE]
          [] b.lane = NoLane /\ b.seg # a.seg ->
               [none EXCEPT !.err = "moved from one virtual queue to another"]
          [] b.lane = NoLane -> [none EXCEPT !.push = TRUE]
          [] b.seg # a.seg \/ (b.lane = LaneInf /\ b.lane # a.lane) ->
               [none EXCEPT !.add = (a.lane # NoLane), !.push = (a.lane = NoLane)]
          [] a.lane = LaneInf -> [none EXCEPT !.deq = TRUE, !.add = TRUE]
          [] OTHER -> none
      ops == IF a.role = "Activity"
             THEN IF b.role = "Activity" THEN none
                  ELSE [none EXCEPT !.deq = (b.lane # NoLane), !.actAdd = TRUE]
             ELSE onRoad
  IN  [ops EXCEPT !.actDel = (b.role = "Activity" /\ a.role # "Activity")]

HousekeepOps(b, a) ==
  LET none   == [deq |-> FALSE, add |-> FALSE, push |-> FALSE,
                 actAdd |-> FALSE, actDel |-> FALSE, err |-> "none"]
      leaveAct == b.role = "Activity" /\ a.role # "Activity"
      onRoad ==
        CASE b.lane = NoLane /\ a.lane # NoLane -> [none EXCEPT !.add = TRUE]
          [] b.lane = NoLane /\ b.seg # a.seg ->
               [none EXCEPT !.err = "moved from one virtual queue to another"]
          [] b.lane = NoLane -> [none EXCEPT !.push = TRUE]
          [] b.seg # a.seg \/ (b.lane = LaneInf /\ b.lane # a.lane) ->
               [none EXCEPT !.deq = (b.role # "Activity"),
                            !.add = (a.lane # NoLane), !.push = (a.lane = NoLane)]
          [] a.lane = LaneInf -> [none EXCEPT !.deq = TRUE, !.add = TRUE]
          [] OTHER -> none
      ops == IF a.role = "Activity"
             THEN IF b.role = "Activity" THEN none
                  ELSE [none EXCEPT !.deq = (b.lane # NoLane), !.actAdd = TRUE]
             ELSE onRoad
  IN  [ops EXCEPT !.actDel = leaveAct]

\* SegmentStats::dequeue / addAgent applied to the lane bags; a dequeue of a
\* person who is not in the lane is an error.
ApplyLanes(p, b, a, o) ==
  [s \in SegStats |-> [l \in Lanes |->
     LET out == IF o.deq /\ s = b.seg /\ l = b.lane THEN BagRemove(lanes[s][l], p)
                ELSE lanes[s][l]
     IN  IF o.add /\ s = a.seg /\ l = a.lane THEN BagAdd(out, p) ELSE out]]

DequeueMissing(p, b, o) == o.deq /\ CopiesIn(p, lanes[b.seg][b.lane]) = 0

-----------------------------------------------------------------------------
(* Worker steps.                                                           *)

CurCfx(w) == WorkerCfx[w][wk[w].ci]

\* Persons on the road of conflux c: every lane of every SegmentStats.
RoadPersons(c) == UNION {BagToSet(lanes[s][l]) : s \in CfxSegs(c), l \in Lanes}

\* resetPersonRemTimes: persons in lane infinity of the conflux's SegmentStats
\* or in its virtual queues, not yet moved this tick, get a full tick.
ResetPersonRemTimes(c) ==
  LET waiting == {p \in Person :
                    \/ \E s \in CfxSegs(c) : CopiesIn(p, lanes[s][LaneInf]) > 0
                    \/ \E l \in CfxLinks(c) : p \in ToSet(vq[l])}
  IN  [p \in Person |-> IF p \in waiting /\ pr[p].luf < frame
                        THEN [pr[p] EXCEPT !.rem = TickLen] ELSE pr[p]]

\* Conflux::update for a non-loader: resetPersonRemTimes, then the person
\* list of processAgents (TopCMerge of the on-road persons, in an order the
\* model leaves open, then activityPerformers).
StartUpdate(w) ==
  /\ wk[w].pc = "main" /\ wk[w].ci <= Len(WorkerCfx[w])
  /\ pr' = ResetPersonRemTimes(CurCfx(w))
  /\ \E road \in SetToSeqs(RoadPersons(CurCfx(w))),
        acts \in SetToSeqs(BagToSet(actPerf[CurCfx(w)])) :
       wk' = [wk EXCEPT ![w].pc = "pick", ![w].todo = road \o acts]
  /\ UNCHANGED <<frame, cfxFrame, lanes, outCtr, vq, vqBound, actPerf, removed,
                 err, spent, exits>>

\* updateAgent up to the loop of callMovementFrameTick: reset the remaining
\* time on the person's first move this tick, snapshot PersonProps, call
\* frame_init if the person is not initialized, set lastUpdatedFrame.
\* Mutant: updateAgent resets the remaining time on every call.
BeginUpdateAlwaysReset(w, p, c) ==
  LET r2 == [pr[p] EXCEPT !.rem = TickLen, !.inited = TRUE, !.luf = frame]
  IN  /\ pr' = [pr EXCEPT ![p] = r2]
      /\ wk' = [wk EXCEPT ![w].cur = p, ![w].bef = Props(p, c),
                          ![w].pc = "loop",
                          ![w].todo = IF wk[w].phase = "main" THEN Tail(@) ELSE @,
                          ![w].cnt = IF wk[w].phase = "vq" THEN @ - 1 ELSE @]

BeginUpdate(w, p, c) ==
  LET r0 == pr[p]
      r1 == IF r0.luf < frame THEN [r0 EXCEPT !.rem = TickLen] ELSE r0
      r2 == [r1 EXCEPT !.inited = TRUE, !.luf = frame]
  IN  /\ pr' = [pr EXCEPT ![p] = r2]
      /\ wk' = [wk EXCEPT ![w].cur = p, ![w].bef = Props(p, c),
                          ![w].pc = IF r2.rem > 0 THEN "loop" ELSE "house",
                          ![w].todo = IF wk[w].phase = "main" THEN Tail(@) ELSE @,
                          ![w].cnt = IF wk[w].phase = "vq" THEN @ - 1 ELSE @]

\* processAgents: update the next person of the list.
PickMain(w) ==
  /\ wk[w].pc = "pick" /\ wk[w].phase = "main" /\ wk[w].todo # <<>>
  /\ BeginUpdate(w, Head(wk[w].todo), CurCfx(w))
  /\ UNCHANGED <<frame, cfxFrame, lanes, outCtr, vq, vqBound, actPerf, removed,
                 err, spent, exits>>

\* End of Conflux::update: setLastUpdatedFrame.
\* Mutant: setLastUpdatedFrame records the next frame.
EndUpdateAhead(w) ==
  /\ wk[w].pc = "pick" /\ wk[w].phase = "main" /\ wk[w].todo = <<>>
  /\ cfxFrame' = [cfxFrame EXCEPT ![CurCfx(w)] = frame + 1]
  /\ wk' = [wk EXCEPT ![w].pc = "main", ![w].ci = @ + 1]
  /\ UNCHANGED <<frame, lanes, outCtr, vq, vqBound, actPerf, pr, removed, err,
                 spent, exits>>

EndUpdate(w) ==
  /\ wk[w].pc = "pick" /\ wk[w].phase = "main" /\ wk[w].todo = <<>>
  /\ cfxFrame' = [cfxFrame EXCEPT ![CurCfx(w)] = frame]
  /\ wk' = [wk EXCEPT ![w].pc = "main", ![w].ci = @ + 1]
  /\ UNCHANGED <<frame, lanes, outCtr, vq, vqBound, actPerf, pr, removed, err,
                 spent, exits>>

\* One iteration of the while loop of callMovementFrameTick.
Iterate(w) ==
  /\ wk[w].pc = "loop"
  /\ LET p == wk[w].cur
         r0 == pr[p]
     IN
     \E r1 \in (IF r0.tbr THEN {r0} ELSE RoleTick(p, r0)) :
     \E sw \in (IF r1.tbr THEN SwitchTripChainItem(p, r1)
                ELSE {[r |-> r1, done |-> FALSE]}) :
       LET ad == Admission(sw.r)
           r3 == ad.r
           crossed == r3.cursor = r0.cursor /\ r0.seg # NoSeg /\ r3.seg # NoSeg
                      /\ SegLink(r3.seg) # SegLink(r0.seg)
       IN
       /\ pr' = [pr EXCEPT ![p] = IF sw.done THEN sw.r ELSE r3]
       /\ spent' = [spent EXCEPT ![p] = @ + (r0.rem - r1.rem)]
       /\ IF sw.done
          THEN /\ wk' = [wk EXCEPT ![w].pc = "kill"]
               /\ UNCHANGED <<outCtr, exits, err>>
          ELSE /\ outCtr' = IF ad.dec THEN [outCtr EXCEPT ![sw.r.seg] = @ - 1] ELSE outCtr
               /\ exits' = IF crossed THEN [exits EXCEPT ![SegLink(r0.seg)] = @ + 1]
                           ELSE exits
               /\ err' = IF ad.err # "none" THEN ad.err ELSE err
               /\ wk' = [wk EXCEPT ![w].pc = IF ad.brk \/ r3.rem <= 0 THEN "house"
                                             ELSE "loop"]
  /\ UNCHANGED <<frame, cfxFrame, lanes, vq, vqBound, actPerf, removed>>

\* housekeep after movePerson returned CONTINUE.
Housekeep(w) ==
  /\ wk[w].pc = "house"
  /\ LET p == wk[w].cur
         c == CurCfx(w)
         b == wk[w].bef
         a == Props(p, c)
         o == HousekeepOps(b, a)
     IN
     /\ lanes' = ApplyLanes(p, b, a, o)
     /\ vq' = IF o.push THEN [vq EXCEPT ![SegLink(a.seg)] = Append(@, p)] ELSE vq
     /\ actPerf' = [actPerf EXCEPT ![c] =
                      LET rem1 == IF o.actDel THEN BagRemove(@, p) ELSE @
                      IN  IF o.actAdd THEN BagAdd(rem1, p) ELSE rem1]
     /\ err' = CASE o.err # "none" -> o.err
                 [] DequeueMissing(p, b, o) -> "dequeue of a person not in the lane"
                 [] OTHER -> err
     /\ wk' = [wk EXCEPT ![w].pc = "pick", ![w].cur = NoPerson]
  /\ UNCHANGED <<frame, cfxFrame, outCtr, vqBound, pr, removed, spent, exits>>

\* killAgent after movePerson returned DONE.
KillAgent(w) ==
  /\ wk[w].pc = "kill"
  /\ LET p == wk[w].cur
         c == CurCfx(w)
         b == wk[w].bef
         inAct == CopiesIn(p, actPerf[c]) > 0
         fromLane == pr[p].role = "Driver" /\ ~inAct /\ b.lane # NoLane
     IN
     /\ actPerf' = [actPerf EXCEPT ![c] = BagRemove(@, p)]
     /\ lanes' = IF fromLane THEN [lanes EXCEPT ![b.seg][b.lane] = BagRemove(@, p)]
                 ELSE lanes
     /\ err' = IF fromLane /\ CopiesIn(p, lanes[b.seg][b.lane]) = 0
               THEN "remove of a non-existent person" ELSE err
     /\ removed' = removed \cup {p}
     /\ wk' = [wk EXCEPT ![w].pc = "pick", ![w].cur = NoPerson]
  /\ UNCHANGED <<frame, cfxFrame, outCtr, vq, vqBound, pr, spent, exits>>

\* processVirtualQueues, per link of the conflux: sort the deque by
\* decreasing remaining time, then pop and update as many persons as it held.
\* Mutant: processVirtualQueues pops one person fewer than the deque held.
StartVirtualQueueShort(w) ==
  /\ wk[w].pc = "vqnext"
  /\ \E l \in wk[w].links :
       \E ord \in {q \in SetToSeqs(ToSet(vq[l])) :
                     IsSorted(q, LAMBDA x, y : pr[x].rem >= pr[y].rem)} :
         /\ vq' = [vq EXCEPT ![l] = ord]
         /\ wk' = [wk EXCEPT ![w].pc = "pick", ![w].curLink = l,
                             ![w].links = @ \ {l}, ![w].cnt = Max0(Len(vq[l]) - 1)]
  /\ UNCHANGED <<frame, cfxFrame, lanes, outCtr, vqBound, actPerf, pr, removed,
                 err, spent, exits>>

StartVirtualQueue(w) ==
  /\ wk[w].pc = "vqnext"
  /\ \E l \in wk[w].links :
       \E ord \in {q \in SetToSeqs(ToSet(vq[l])) :
                     IsSorted(q, LAMBDA x, y : pr[x].rem >= pr[y].rem)} :
         /\ vq' = [vq EXCEPT ![l] = ord]
         /\ wk' = [wk EXCEPT ![w].pc = "pick", ![w].curLink = l,
                             ![w].links = @ \ {l}, ![w].cnt = Len(vq[l])]
  /\ UNCHANGED <<frame, cfxFrame, lanes, outCtr, vqBound, actPerf, pr, removed,
                 err, spent, exits>>

PickVirtualQueue(w) ==
  /\ wk[w].pc = "pick" /\ wk[w].phase = "vq" /\ wk[w].cnt > 0
  /\ vq' = [vq EXCEPT ![wk[w].curLink] = Tail(@)]
  /\ BeginUpdate(w, Head(vq[wk[w].curLink]), CurCfx(w))
  /\ UNCHANGED <<frame, cfxFrame, lanes, outCtr, vqBound, actPerf, removed,
                 err, spent, exits>>

EndVirtualQueue(w) ==
  /\ wk[w].pc = "pick" /\ wk[w].phase = "vq" /\ wk[w].cnt = 0
  /\ wk' = [wk EXCEPT ![w].pc = "vqnext"]
  /\ UNCHANGED <<frame, cfxFrame, lanes, outCtr, vq, vqBound, actPerf, pr,
                 removed, err, spent, exits>>

\* resetOutputBounds: the space the first SegmentStats of each inbound link
\* offers to its virtual queue.
OutputBound(l) ==
  LET s == FirstSeg(l)
  IN  Max0(Max0(SegSpace[s] - Occupancy(s)) - BagCardinality(lanes[s][LaneInf]))

\* After its virtual queues, the worker calls resetOutputBounds on the conflux
\* and moves to its next conflux.
ResetOutputBounds(w) ==
  /\ wk[w].pc = "vqnext" /\ wk[w].links = {}
  /\ vqBound' = [l \in Link |->
                   IF LinkConflux[l] = CurCfx(w) THEN OutputBound(l) ELSE vqBound[l]]
  /\ wk' = [wk EXCEPT ![w].ci = @ + 1,
                      ![w].pc = IF wk[w].ci < Len(WorkerCfx[w]) THEN "vqnext" ELSE "supply",
                      ![w].links = IF wk[w].ci < Len(WorkerCfx[w])
                                   THEN CfxLinks(WorkerCfx[w][wk[w].ci + 1]) ELSE {}]
  /\ UNCHANGED <<frame, cfxFrame, lanes, outCtr, vq, actPerf, pr, removed, err,
                 spent, exits>>

\* updateAndReportSupplyStats -> SegmentStats::updateLaneParams: the output
\* counters of the worker's confluxes are refilled for the next tick.
UpdateSupplyStats(w) ==
  /\ wk[w].pc = "supply"
  /\ LET mine == {s \in SegStats : WorkerOf(SegCfx(s)) = w}
     IN  /\ outCtr' = [s \in SegStats |-> IF s \in mine THEN FlowOut[s] ELSE outCtr[s]]
         /\ exits' = [l \in Link |-> IF WorkerOf(LinkConflux[l]) = w THEN 0 ELSE exits[l]]
  /\ wk' = [wk EXCEPT ![w].pc = "tickDone"]
  /\ UNCHANGED <<frame, cfxFrame, lanes, vq, vqBound, actPerf, pr, removed, err,
                 spent>>

-----------------------------------------------------------------------------
(* Barriers (the worker pool, outside src/).                               *)

\* Every main pass completes before any virtual queue is flushed.
MainBarrier ==
  /\ \A w \in Worker : wk[w].pc = "main" /\ wk[w].ci > Len(WorkerCfx[w])
  /\ wk' = [w \in Worker |-> [wk[w] EXCEPT !.phase = "vq", !.pc = "vqnext", !.ci = 1,
                                           !.links = CfxLinks(WorkerCfx[w][1])]]
  /\ UNCHANGED <<frame, cfxFrame, lanes, outCtr, vq, vqBound, actPerf, pr, removed,
                 err, spent, exits>>

\* The tick barrier: all workers advance to the next tick together.
TickBarrier ==
  /\ \A w \in Worker : wk[w].pc = "tickDone"
  /\ frame < MaxFrame
  /\ frame' = frame + 1
  /\ wk' = [w \in Worker |-> [wk[w] EXCEPT !.phase = "main", !.pc = "main", !.ci = 1]]
  /\ spent' = [p \in Person |-> 0]
  /\ UNCHANGED <<cfxFrame, lanes, outCtr, vq, vqBound, actPerf, pr, removed, err,
                 exits>>

\* The simulation ends after MaxFrame.
Finished ==
  /\ \A w \in Worker : wk[w].pc = "tickDone"
  /\ frame = MaxFrame
  /\ UNCHANGED vars

-----------------------------------------------------------------------------
(* Initial state: every person loaded by MSG_PERSON_LOAD -> addAgent.      *)

InitRecord(p) ==
  LET it == Chain[p][1]
      base == [role |-> "Driver", seg |-> NoSeg, lane |-> NoLane, rem |-> TickLen,
               luf |-> 0, inited |-> TRUE, cursor |-> 1, req |-> NoSeg,
               canMove |-> "none", tbr |-> FALSE, actEnd |-> 0]
  IN  IF it.kind = "Trip"
      THEN [base EXCEPT !.seg = FirstSeg(it.path[1]), !.lane = LaneInf]
      ELSE [base EXCEPT !.role = "Activity", !.inited = FALSE, !.actEnd = 2 + it.dur]

Init ==
  /\ frame = 1
  /\ cfxFrame = [c \in Conflux |-> 0]
  /\ pr = [p \in Person |-> InitRecord(p)]
  /\ lanes = [s \in SegStats |-> [l \in Lanes |->
               [p \in {q \in Person : pr[q].seg = s /\ pr[q].lane = l} |-> 1]]]
  /\ actPerf = [c \in Conflux |->
               [p \in {q \in Person : pr[q].role = "Activity" /\ Chain[q][1].cfx = c} |-> 1]]
  /\ outCtr = FlowOut
  /\ vq = [l \in Link |-> <<>>]
  /\ vqBound = [l \in Link |-> OutputBound(l)]
  /\ removed = {}
  /\ wk = [w \in Worker |->
            [pc |-> "main", phase |-> "main", ci |-> 1, todo |-> <<>>, cur |-> NoPerson,
             bef |-> [role |-> "none", seg |-> NoSeg, lane |-> NoLane,
                      cfx |-> WorkerCfx[w][1]],
             links |-> {}, curLink |-> NoLink, cnt |-> 0]]
  /\ err = "none"
  /\ spent = [p \in Person |-> 0]
  /\ exits = [l \in Link |-> 0]

Next ==
  \/ \E w \in Worker :
       \/ StartUpdate(w) \/ PickMain(w) \/ EndUpdate(w)
       \/ Iterate(w) \/ Housekeep(w) \/ KillAgent(w)
       \/ StartVirtualQueue(w) \/ PickVirtualQueue(w) \/ EndVirtualQueue(w)
       \/ ResetOutputBounds(w) \/ UpdateSupplyStats(w)
  \/ MainBarrier \/ TickBarrier \/ Finished

Spec == Init /\ [][Next]_vars

-----------------------------------------------------------------------------
(* Properties.                                                             *)

PersonRec == [role: {"Driver", "Activity"}, seg: SegStats \cup {NoSeg},
              lane: Lanes \cup {NoLane}, rem: 0..TickLen, luf: 0..MaxFrame,
              inited: BOOLEAN, cursor: Nat, req: SegStats \cup {NoSeg},
              canMove: {"none", "granted", "denied"}, tbr: BOOLEAN, actEnd: Nat]

TypeOK ==
  /\ frame \in 1..MaxFrame
  /\ cfxFrame \in [Conflux -> 0..MaxFrame]
  /\ \A s \in SegStats, l \in Lanes : IsABag(lanes[s][l]) /\ BagToSet(lanes[s][l]) \subseteq Person
  /\ outCtr \in [SegStats -> Nat]
  /\ vq \in [Link -> Seq(Person)]
  /\ vqBound \in [Link -> Nat]
  /\ \A c \in Conflux : IsABag(actPerf[c]) /\ BagToSet(actPerf[c]) \subseteq Person
  /\ pr \in [Person -> PersonRec]
  /\ removed \subseteq Person
  /\ \A w \in Worker : wk[w].cur \in Person \cup {NoPerson}
  /\ spent \in [Person -> Nat]
  /\ exits \in [Link -> Nat]

InHand(p) == \E w \in Worker : wk[w].cur = p

\* The number of containers (lane deques, virtual queues, activity lists)
\* that hold p, counted with multiplicity.
Copies(p) ==
    MapThenSumSet(LAMBDA x : CopiesIn(p, lanes[x[1]][x[2]]), SegStats \X Lanes)
  + MapThenSumSet(LAMBDA l : Cardinality({i \in 1..Len(vq[l]) : vq[l][i] = p}), Link)
  + MapThenSumSet(LAMBDA c : CopiesIn(p, actPerf[c]), Conflux)

\* Ownership (spec 3, I1 and invariant (d)): between two updateAgent calls
\* on it, every live person is in exactly one container of exactly one
\* conflux, and that container agrees with the person's currSegStats and
\* currLane; a person killAgent removed is in none.  housekeep repairs the
\* containers from the PersonProps snapshots taken before and after the
\* whole movement loop, across segment, link and conflux boundaries.
Placement ==
  \A p \in Person :
    \/ p \in removed /\ Copies(p) = 0
    \/ InHand(p)
    \/ /\ p \notin removed
       /\ Copies(p) = 1
       /\ \A s \in SegStats, l \in Lanes :
            CopiesIn(p, lanes[s][l]) > 0 =>
              pr[p].role = "Driver" /\ pr[p].seg = s /\ pr[p].lane = l
       /\ \A l \in Link :
            p \in ToSet(vq[l]) =>
              pr[p].lane = NoLane /\ pr[p].seg # NoSeg /\ SegLink(pr[p].seg) = l
       /\ \A c \in Conflux :
            CopiesIn(p, actPerf[c]) > 0 => pr[p].role = "Activity"

\* No runtime_error of the engine is reachable: no person moves from one
\* virtual queue to another, no conflux's lastUpdatedFrame is ahead of the
\* tick, and no dequeue or killAgent removes a person who is not there.
NoFatalError == err = "none"

\* Per-tick time accounting (spec I2): the roles never consume more than one
\* tick's worth of time for a person in one tick, although a person may be
\* updated in both the main pass of one conflux and the virtual-queue pass
\* of another, and resetPersonRemTimes and updateAgent both reset it.
TimeBudget == \A p \in Person : spent[p] <= TickLen

\* Cross-link capacity (spec L2, 4.3.3): the persons that leave a link
\* between two refills of its output counter, by the virtual queue of a
\* conflux not yet updated or directly into one already updated, never
\* exceed the output counter of the link's last SegmentStats.
LinkOutflowWithinCapacity ==
  \A l \in Link : exits[l] <= FlowOut[Last(LinkSegs[l])]

\* Every tick advances everyone (spec I3): once every worker has finished
\* the tick, every live person on a road, in a virtual queue or in an
\* activity has been updated in this tick, whether it was reached by a main
\* pass, pushed to a virtual queue by another conflux, or placed on a
\* conflux that had already been updated.
EveryPersonAdvanced ==
  (\A w \in Worker : wk[w].pc = "tickDone") =>
    \A p \in Person \ removed : Copies(p) > 0 => pr[p].luf = frame

\* Ownership of SegmentStats (spec 5: "SegmentStats containers: mutated only
\* by the owning conflux's worker ... not contended"): no step of a worker
\* changes the lanes of a SegmentStats whose conflux another worker owns.
\* The already-updated branch of the admission protocol lets the role step
\* into the downstream SegmentStats and housekeep's addAgent write to it.
SegmentStatsOwnedByWorker ==
  [][\A w \in Worker, s \in SegStats :
        (wk'[w] # wk[w] /\ lanes'[s] # lanes[s]) => WorkerOf(SegCfx(s)) = w]_vars

=============================================================================
