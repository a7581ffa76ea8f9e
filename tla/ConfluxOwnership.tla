-------------------------- MODULE ConfluxOwnership --------------------------
(***************************************************************************)
(* What the confluxes promise about the persons off the road, whatever    *)
(* lists and messages carry them: a person is at every moment in exactly  *)
(* one place (the loading queue, one conflux, in transit between two      *)
(* confluxes, a bus-stop agent, or done); it goes from one conflux to     *)
(* another only through transit; its trip chain advances one item at a   *)
(* time, and only at the conflux that holds it; a bus stop and the end of *)
(* the chain are final.  ConfluxTransit implements this specification     *)
(* under the mapping ConfluxTransit!Owner.                                 *)
(***************************************************************************)
EXTENDS Naturals

CONSTANTS
  Person,   \* the persons
  Conflux   \* the confluxes that hold persons

Places == Conflux \cup {"loading", "transit", "stop", "done"}

VARIABLES
  owner,    \* the place of each person
  item      \* the trip-chain item each person is at (0 before loading)

vars == <<owner, item>>

Init ==
  /\ owner = [p \in Person |-> "loading"]
  /\ item = [p \in Person |-> 0]

\* The loader takes every person of its queue at once: each starts its
\* first item, on its way to a conflux or, with an empty chain, done.
Load ==
  \E dest \in [Person -> {"transit", "done"}] :
    /\ owner' = [p \in Person |-> IF owner[p] = "loading" THEN dest[p] ELSE owner[p]]
    /\ item' = [p \in Person |-> IF owner[p] = "loading" THEN 1 ELSE item[p]]

\* A person in transit is taken by a conflux, or by a bus-stop agent.
Arrive(p) ==
  /\ owner[p] = "transit"
  /\ \E to \in Conflux \cup {"stop"} : owner' = [owner EXCEPT ![p] = to]
  /\ UNCHANGED item

\* A person held by a conflux leaves it for another, keeping its item.
Depart(p) ==
  /\ owner[p] \in Conflux
  /\ owner' = [owner EXCEPT ![p] = "transit"]
  /\ UNCHANGED item

\* The conflux holding a person moves it to its next item; the person
\* stays, is handed to a bus stop, is done, or, with the time left in the
\* tick, already leaves for another conflux.
Advance(p) ==
  /\ owner[p] \in Conflux
  /\ item' = [item EXCEPT ![p] = @ + 1]
  /\ \E to \in {owner[p], "transit", "stop", "done"} : owner' = [owner EXCEPT ![p] = to]

Next == Load \/ \E p \in Person : Arrive(p) \/ Depart(p) \/ Advance(p)

Spec == Init /\ [][Next]_vars

TypeOK == owner \in [Person -> Places] /\ item \in [Person -> Nat]

=============================================================================
