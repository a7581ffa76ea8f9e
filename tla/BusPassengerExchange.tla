------------------------ MODULE BusPassengerExchange ------------------------
(***************************************************************************)
(* The passenger exchange of a bus at a stop (BusDriver.cpp):             *)
(* passengerGenerationNew resets the counters, records the old passenger  *)
(* count and runs AlightingPassengers, then BoardingPassengers; their     *)
(* counts are what dwellTimeCalculation is given.                         *)
(*                                                                         *)
(* AlightingPassengers walks bus->passengers_inside_bus with an iterator  *)
(* and an index, erasing the passengers who alight.  An entry is a Person *)
(* whose role is a Passenger that boarded the bus and whose               *)
(* PassengerAlightBus answers yes ("alights") or no ("stays") at this     *)
(* stop, a Passenger that has not boarded ("unboarded"), or no Passenger  *)
(* at all ("other": a null person or another role).  BoardingPassengers   *)
(* walks the agents AuraManager finds near the stop: a Passenger within   *)
(* 2 m of the stop and waiting at it whose PassengerBoardBus answers yes  *)
(* ("boards") or no ("declines"), another Passenger ("passing"), or no    *)
(* Passenger ("other").  The answers (Passenger, outside src/) depend on  *)
(* the passenger and the stop, so they are fixed for the service; a      *)
(* boarder is appended to passengers_inside_bus as a boarded passenger,   *)
(* and the bus's passenger count is the length of passengers_inside_bus.  *)
(***************************************************************************)
EXTENDS Integers, Sequences, SequencesExt, FiniteSets

CONSTANTS
  MaxInside,    \* the most passengers inside the bus on arrival
  InsideKinds,  \* the kinds of entry passengers_inside_bus may hold
  MaxNearby,    \* the most agents near the stop
  NearbyKinds   \* the kinds of agent near the stop

Entry(id, k) == [id |-> id, kind |-> k]

\* The bus on arrival: entries numbered 1..n.
InsideInits ==
  UNION {{[i \in 1..n |-> Entry(i, ks[i])] : ks \in [1..n -> InsideKinds]} : n \in 0..MaxInside}

\* The agents near the stop, numbered from 100.
NearbyInits ==
  UNION {{[j \in 1..n |-> Entry(100 + j, ks[j])] : ks \in [1..n -> NearbyKinds]} : n \in 0..MaxNearby}

VARIABLES
  inside,     \* bus->passengers_inside_bus
  nearby,     \* nearby_agents
  i,          \* the index i of AlightingPassengers, from 1 (itr is begin + i - 1)
  j,          \* the iterator over nearby_agents, from 1
  pc,         \* "start", "alight", "board" or "done"
  alighting,  \* no_passengers_alighting
  boarding,   \* no_passengers_boarding
  countOld,   \* bus->getPassengerCountOld()
  inside0,    \* ghost: passengers_inside_bus on arrival
  asked,      \* ghost: how often each entry was asked whether it alights
  alit        \* ghost: the entries whose PassengerAlightBus returned true

vars == <<inside, nearby, i, j, pc, alighting, boarding, countOld, inside0, asked, alit>>

Init ==
  /\ inside \in InsideInits
  /\ nearby \in NearbyInits
  /\ inside0 = inside
  /\ i = 1 /\ j = 1 /\ pc = "start"
  \* the counters are members of BusDriver: they hold the counts of the
  \* stop served before (0 after the constructor)
  /\ alighting \in 0..MaxInside /\ boarding \in 0..MaxNearby
  /\ countOld = 0
  /\ asked = [e \in 1..Len(inside) |-> 0]
  /\ alit = {}

-----------------------------------------------------------------------------
(* passengerGenerationNew                                                  *)

\* Mutant: the counters are not reset, so they go on from the last stop.
PassengerGenerationNewKeepingCounts ==
  /\ pc = "start"
  /\ countOld' = Len(inside)
  /\ i' = 1
  /\ pc' = IF Len(inside) > 0 THEN "alight" ELSE "board"
  /\ UNCHANGED <<inside, nearby, j, inside0, asked, alit, alighting, boarding>>

\* The counters are reset and the old count recorded; AlightingPassengers
\* does nothing when the bus is empty.
PassengerGenerationNew ==
  /\ pc = "start"
  /\ alighting' = 0 /\ boarding' = 0
  /\ countOld' = Len(inside)
  /\ i' = 1
  /\ pc' = IF Len(inside) > 0 THEN "alight" ELSE "board"
  /\ UNCHANGED <<inside, nearby, j, inside0, asked, alit>>

-----------------------------------------------------------------------------
(* AlightingPassengers                                                     *)

\* An entry that is no boarded Passenger: "continue" without moving the
\* iterator, or the if without an else; the loop looks at it again.
AlightingIdle ==
  /\ pc = "alight" /\ i <= Len(inside)
  /\ inside[i].kind \in {"unboarded", "other"}
  /\ UNCHANGED vars

\* Mutant: after an erase the index is advanced as well.
AlightingAskAdvancingOnErase ==
  /\ pc = "alight" /\ i <= Len(inside)
  /\ inside[i].kind \in {"alights", "stays"}
  /\ asked' = [asked EXCEPT ![inside[i].id] = @ + 1]
  /\ IF inside[i].kind = "alights"
       THEN /\ inside' = RemoveAt(inside, i)
            /\ alighting' = alighting + 1
            /\ alit' = alit \cup {inside[i].id}
            /\ i' = i + 1
       ELSE /\ i' = i + 1
            /\ UNCHANGED <<inside, alighting, alit>>
  /\ UNCHANGED <<nearby, j, pc, boarding, countOld, inside0>>

\* Mutant: a passenger who stays is asked again, the index kept.
AlightingAskKeepingIndex ==
  /\ pc = "alight" /\ i <= Len(inside)
  /\ inside[i].kind \in {"alights", "stays"}
  /\ IF inside[i].kind = "alights"
       THEN /\ asked' = [asked EXCEPT ![inside[i].id] = @ + 1]
            /\ inside' = RemoveAt(inside, i)
            /\ alighting' = alighting + 1
            /\ alit' = alit \cup {inside[i].id}
            /\ UNCHANGED i
       ELSE UNCHANGED <<i, inside, alighting, alit, asked>>
  /\ UNCHANGED <<nearby, j, pc, boarding, countOld, inside0>>

\* A boarded Passenger is asked whether it alights here: if so it is erased
\* (itr is the iterator erase returns, i stays), else both move on.
AlightingAsk ==
  /\ pc = "alight" /\ i <= Len(inside)
  /\ inside[i].kind \in {"alights", "stays"}
  /\ asked' = [asked EXCEPT ![inside[i].id] = @ + 1]
  /\ IF inside[i].kind = "alights"
       THEN /\ inside' = RemoveAt(inside, i)
            /\ alighting' = alighting + 1
            /\ alit' = alit \cup {inside[i].id}
            /\ UNCHANGED i
       ELSE /\ i' = i + 1
            /\ UNCHANGED <<inside, alighting, alit>>
  /\ UNCHANGED <<nearby, j, pc, boarding, countOld, inside0>>

\* itr reached passengers_inside_bus.end(): BoardingPassengers follows.
AlightingEnd ==
  /\ pc = "alight" /\ i > Len(inside)
  /\ pc' = "board"
  /\ UNCHANGED <<inside, nearby, i, j, alighting, boarding, countOld, inside0, asked, alit>>

-----------------------------------------------------------------------------
(* BoardingPassengers                                                      *)

\* Mutant: every Passenger waiting at the stop is counted as boarding.
BoardingStepCountingAsked ==
  /\ pc = "board" /\ j <= Len(nearby)
  /\ j' = j + 1
  /\ boarding' = IF nearby[j].kind \in {"boards", "declines"} THEN boarding + 1 ELSE boarding
  /\ inside' = IF nearby[j].kind = "boards" THEN Append(inside, Entry(nearby[j].id, "stays")) ELSE inside
  /\ UNCHANGED <<nearby, i, pc, alighting, countOld, inside0, asked, alit>>

\* One agent near the stop: a Passenger within 2 m of the stop and waiting
\* at it is asked whether it boards and is counted if it does; anyone else
\* is passed over.
BoardingStep ==
  /\ pc = "board" /\ j <= Len(nearby)
  /\ j' = j + 1
  /\ IF nearby[j].kind = "boards"
     THEN /\ boarding' = boarding + 1
          /\ inside' = Append(inside, Entry(nearby[j].id, "stays"))
     ELSE UNCHANGED <<boarding, inside>>
  /\ UNCHANGED <<nearby, i, pc, alighting, countOld, inside0, asked, alit>>

\* The loop is over; dwellTimeCalculation takes the two counts.
BoardingEnd ==
  /\ pc = "board" /\ j > Len(nearby)
  /\ pc' = "done"
  /\ UNCHANGED <<inside, nearby, i, j, alighting, boarding, countOld, inside0, asked, alit>>

\* The service is over.
Done == pc = "done" /\ UNCHANGED vars

Next ==
  \/ PassengerGenerationNew
  \/ AlightingIdle \/ AlightingAsk \/ AlightingEnd
  \/ BoardingStep \/ BoardingEnd
  \/ Done

\* The exchange runs on the bus driver's thread, one statement after the
\* other: nothing can stop a step that can be taken.
Spec == Init /\ [][Next]_vars /\ WF_vars(Next)

-----------------------------------------------------------------------------
(* Properties                                                              *)

Kinds == {"alights", "stays", "unboarded", "other", "boards", "declines", "passing"}

TypeOK ==
  /\ pc \in {"start", "alight", "board", "done"}
  /\ inside \in Seq([id : Nat, kind : Kinds])
  /\ i \in 1..Len(inside) + 1 /\ j \in 1..Len(nearby) + 1
  /\ alighting \in 0..MaxInside /\ boarding \in 0..MaxNearby
  /\ asked \in [1..Len(inside0) -> Nat] /\ alit \subseteq 1..Len(inside0)

Arrived(e) == e.id < 100

\* Once AlightingPassengers has returned, it asked every boarded passenger
\* on the bus exactly once, erased exactly those who answered yes and kept
\* the others in their order, and no_passengers_alighting counts the
\* erased: erasing inside the loop neither skips nor repeats an entry.
AlightingFollowsAnswers ==
  pc \in {"board", "done"} =>
    /\ \A e \in 1..Len(inside0) : inside0[e].kind \in {"alights", "stays"} => asked[e] = 1
    /\ alit = {e \in 1..Len(inside0) : inside0[e].kind = "alights"}
    /\ SelectSeq(inside, Arrived) = SelectSeq(inside0, LAMBDA e : e.id \notin alit)
    /\ alighting = Cardinality(alit)

AllBoardedOnArrival == \A e \in 1..Len(inside0) : inside0[e].kind \in {"alights", "stays"}

\* When every entry of passengers_inside_bus is a boarded Passenger, the
\* exchange ends: AlightingPassengers and BoardingPassengers return and the
\* bus can compute its dwell time.
ExchangeTerminatesWhenAllBoarded == AllBoardedOnArrival => <>(pc = "done")

\* Whatever passengers_inside_bus holds, the exchange ends: the loop of
\* AlightingPassengers moves past every entry.
ExchangeTerminates == <>(pc = "done")

-----------------------------------------------------------------------------
(* Refinement of PassengerCount                                            *)

\* The bus's passengers as the service is seen from outside: the count on
\* arrival until the service is over, then the count it leaves; the
\* counters once dwellTimeCalculation reads them.
Over == pc = "done"

Abstract == INSTANCE PassengerCount WITH
              Waiting <- MaxNearby,
              count <- IF Over THEN Len(inside) ELSE Len(inside0),
              alighting <- IF Over THEN alighting ELSE 0,
              boarding <- IF Over THEN boarding ELSE 0,
              served <- Over

\* The exchange implements the one-step service BusStopService assumes:
\* at most the passengers inside alight, at most those waiting board, and
\* the bus then holds its passengers less the alighting plus the boarding.
ExchangeRefinesCount == Abstract!Spec

=============================================================================
