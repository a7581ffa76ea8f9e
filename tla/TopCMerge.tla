----------------------------- MODULE TopCMerge -----------------------------
(***************************************************************************)
(* The order in which a conflux updates its on-road persons               *)
(* (Conflux::getAllPersonsUsingTopCMerge and                              *)
(* Conflux::topCMergeDifferentLinksInConflux).                           *)
(*                                                                         *)
(* For each link, the SegmentStats are walked from the downstream-most to *)
(* the upstream-most; each person's drivingTimeToEndOfLink is the driving *)
(* time of the SegmentStats downstream of it plus its own time to the end *)
(* of its SegmentStats, and the SegmentStats' persons (already merged      *)
(* over lanes by SegmentStats::topCMergeLanesInSegment, outside src/) are *)
(* appended to the link's deque.  The per-link deques are then merged:    *)
(* for capacity rounds, the head with the least drivingTimeToEndOfLink is *)
(* taken, a tie broken by rand(); the rest of every deque is appended in  *)
(* link order.                                                             *)
(*                                                                         *)
(* The input (the persons on the conflux's links) is chosen in Init from  *)
(* every bounded configuration; the build and each round of the merge are *)
(* steps, so TLC explores every tie-break.                                 *)
(***************************************************************************)
EXTENDS Integers, Sequences, SequencesExt, FiniteSets

CONSTANTS
  LinkSegCount,  \* <<n1, n2, ...>>: the number of SegmentStats of each link
  SegTimes,      \* the values of getLength() / getSegSpeed() of a SegmentStats
  MaxInSeg,      \* the most persons on one SegmentStats
  Capacities     \* the values of ceil(getCapacity()) of a SegmentStats

ASSUME LinkSegCount \in Seq(Nat \ {0}) /\ SegTimes \subseteq Nat \ {0}

Links == 1..Len(LinkSegCount)

\* A SegmentStats: its driving time and the persons' own times to its end
\* in the order topCMergeLanesInSegment yields them (ascending: nearer to
\* the end first, spec 4.4).
SegInputs ==
  UNION {[tt : {t},
          ppl : {s \in BoundedSeq(0..t, MaxInSeg) : IsSorted(s, LAMBDA a, b : a <= b)}]
         : t \in SegTimes}

\* upstreamSegStatsMap: for each link its SegmentStats, upstream first, and
\* the capacity of the last (downstream-most) one.
Inputs ==
  {f \in [Links -> [stats : UNION {TupleOf(SegInputs, n) : n \in ToSet(LinkSegCount)},
                    lastCap : Capacities]] :
     \A l \in Links : Len(f[l].stats) = LinkSegCount[l]}

\* MAX_DOUBLE: the initial minVal, above every drivingTimeToEndOfLink.
MaxDouble == Len(LinkSegCount) * 100

VARIABLES
  segs,     \* the conflux's upstreamSegStatsMap
  lists,    \* allPersonLists: one deque of [id, key] per link
  cap,      \* sumCapacity
  it,       \* iteratorLists: the next position in each deque
  c,        \* the round counter of the Top-C loop
  merged,   \* mergedPersonDeque
  pc        \* "build", "pick" or "done"

vars == <<segs, lists, cap, it, c, merged, pc>>

-----------------------------------------------------------------------------
(* getAllPersonsUsingTopCMerge                                             *)

\* The deque of link l from its SegmentStats i down to 1 (walking
\* upstream), with t the driving time downstream of SegmentStats i.
RECURSIVE LinkDeque(_, _, _)
LinkDeque(l, i, t) ==
  IF i = 0 THEN <<>>
  ELSE LET s == segs[l].stats[i]
       IN  [j \in 1..Len(s.ppl) |-> [id |-> <<l, i, j>>, key |-> t + s.ppl[j]]]
           \o LinkDeque(l, i - 1, t + s.tt)

BuildDeques ==
  /\ pc = "build"
  /\ lists' = [l \in Links |-> LinkDeque(l, Len(segs[l].stats), 0)]
  /\ cap' = FoldLeft(LAMBDA acc, l : acc + segs[l].lastCap, 0, [i \in Links |-> i])
  /\ it' = [l \in Links |-> 1]
  /\ c' = 0
  /\ pc' = "pick"
  /\ UNCHANGED <<segs, merged>>

-----------------------------------------------------------------------------
(* topCMergeDifferentLinksInConflux                                        *)

HasHead(l) == it[l] <= Len(lists[l])
Head1(l)   == lists[l][it[l]]

\* The scan over the deques' heads: a head equal to minVal joins
\* equiTimeList, a smaller one clears it and becomes minVal.
EquiTimeList ==
  LET step(acc, l) ==
        CASE ~HasHead(l)                  -> acc
          [] Head1(l).key = acc.min       -> [acc EXCEPT !.eq = @ \cup {l}]
          [] Head1(l).key < acc.min       -> [min |-> Head1(l).key, eq |-> {l}]
          [] OTHER                        -> acc
  IN  FoldLeft(step, [min |-> MaxDouble, eq |-> {}], [i \in Links |-> i]).eq

\* Mutant: equiTimeList is not cleared when a smaller head is found.
PickTopKeepingTies ==
  LET step(acc, l) ==
        CASE ~HasHead(l)                  -> acc
          [] Head1(l).key = acc.min       -> [acc EXCEPT !.eq = @ \cup {l}]
          [] Head1(l).key < acc.min       -> [min |-> Head1(l).key, eq |-> acc.eq \cup {l}]
          [] OTHER                        -> acc
      eq == FoldLeft(step, [min |-> MaxDouble, eq |-> {}], [i \in Links |-> i]).eq
  IN  /\ pc = "pick" /\ c < cap
      /\ IF eq = {}
         THEN pc' = "done" /\ UNCHANGED <<it, c, merged>>
         ELSE \E l \in eq :
                /\ merged' = Append(merged, Head1(l))
                /\ it' = [it EXCEPT ![l] = @ + 1]
                /\ c' = c + 1
                /\ UNCHANGED pc
      /\ UNCHANGED <<segs, lists, cap>>

\* Mutant: the Top-C loop runs while c <= capacity.
PickTopThroughCapacity ==
  /\ pc = "pick" /\ c <= cap
  /\ IF EquiTimeList = {}
     THEN pc' = "done" /\ UNCHANGED <<it, c, merged>>
     ELSE \E l \in EquiTimeList :
            /\ merged' = Append(merged, Head1(l))
            /\ it' = [it EXCEPT ![l] = @ + 1]
            /\ c' = c + 1
            /\ UNCHANGED pc
  /\ UNCHANGED <<segs, lists, cap>>

\* One round of the Top-C loop: no head left returns; otherwise one of the
\* heads with the least key, chosen by rand(), is appended.
PickTop ==
  /\ pc = "pick" /\ c < cap
  /\ IF EquiTimeList = {}
     THEN pc' = "done" /\ UNCHANGED <<it, c, merged>>
     ELSE \E l \in EquiTimeList :
            /\ merged' = Append(merged, Head1(l))
            /\ it' = [it EXCEPT ![l] = @ + 1]
            /\ c' = c + 1
            /\ UNCHANGED pc
  /\ UNCHANGED <<segs, lists, cap>>

\* Mutant: the rest of each deque is appended from one past the iterator.
AppendTailsSkippingIterator ==
  /\ pc = "pick" /\ c >= cap
  /\ merged' = merged \o FlattenSeq([l \in Links |-> SubSeq(lists[l], it[l] + 1, Len(lists[l]))])
  /\ pc' = "done"
  /\ UNCHANGED <<segs, lists, cap, it, c>>

\* After the Top-C rounds: the rest of every deque, in link order.
AppendTails ==
  /\ pc = "pick" /\ c >= cap
  /\ merged' = merged \o FlattenSeq([l \in Links |-> SubSeq(lists[l], it[l], Len(lists[l]))])
  /\ pc' = "done"
  /\ UNCHANGED <<segs, lists, cap, it, c>>

Init ==
  /\ segs \in Inputs
  /\ lists = [l \in Links |-> <<>>]
  /\ cap = 0
  /\ it = [l \in Links |-> 1]
  /\ c = 0
  /\ merged = <<>>
  /\ pc = "build"

Next == BuildDeques \/ PickTop \/ AppendTails

Spec == Init /\ [][Next]_vars

-----------------------------------------------------------------------------
(* Properties, checked once the merge has returned.                        *)

AllPersons == UNION {{lists[l][i] : i \in 1..Len(lists[l])} : l \in Links}
N == Cardinality(AllPersons)
K == IF cap < N THEN cap ELSE N

TypeOK ==
  /\ pc \in {"build", "pick", "done"}
  /\ c \in 0..cap
  /\ \A l \in Links : it[l] \in 1..Len(lists[l]) + 1
  /\ merged \in Seq([id : Links \X Nat \X Nat, key : Nat])

\* The merge loses and repeats nobody and keeps each link's order: every
\* person on the conflux's links is updated exactly once per tick, and on a
\* link the persons downstream are updated before those behind them.
MergeIsOrderedPermutation ==
  pc = "done" =>
    /\ Len(merged) = N
    /\ ToSet(merged) = AllPersons
    /\ \A l \in Links : \A i, j \in 1..Len(merged) :
         (i < j /\ merged[i].id[1] = l /\ merged[j].id[1] = l) =>
           merged[i].id[2] > merged[j].id[2]
           \/ (merged[i].id[2] = merged[j].id[2] /\ merged[i].id[3] < merged[j].id[3])

\* The reference the merge must meet (spec 4.4): whichever way rand()
\* breaks ties, the first min(capacity, N) persons updated are in
\* ascending drivingTimeToEndOfLink and nobody left for the tails is
\* nearer to the end of a link than any of them.
TopCIsLeastFirst ==
  pc = "done" =>
    /\ IsSorted(SubSeq(merged, 1, K), LAMBDA a, b : a.key <= b.key)
    /\ \A i \in 1..K, j \in K + 1..Len(merged) : merged[i].key <= merged[j].key

=============================================================================
