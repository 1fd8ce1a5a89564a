----------------------------- MODULE CrateStream -----------------------------
(***************************************************************************)
(* The order in which the events of a crate are published, seen in the     *)
(* history of them: a crate that was told in moves, rests and moves again, *)
(* and is told out while it moves; its place changes only when it is told  *)
(* to be at rest.  A moving event may also be one of a crate that was not  *)
(* told in: no moved and no out follows it before an in.                   *)
(***************************************************************************)
EXTENDS Integers

CONSTANTS Names, Places

VARIABLE heard

Init ==
  heard = [n \in Names |-> [last |-> "none", inside |-> FALSE, place |-> 0, beat |-> 0]]

Tell(n, type, inside, place) ==
  heard' = [heard EXCEPT ![n] = [last |-> type, inside |-> inside, place |-> place,
                                 beat |-> 1 - @.beat]]

OnTheMove(n) == heard[n].inside /\ heard[n].last = "moving"

In(n)     == ~heard[n].inside /\ \E p \in Places : Tell(n, "in", TRUE, p)
Moved(n)  == OnTheMove(n) /\ \E p \in Places : Tell(n, "moved", TRUE, p)
Out(n)    == OnTheMove(n) /\ Tell(n, "out", FALSE, heard[n].place)
Moving(n) == /\ heard[n].inside /\ heard[n].last # "moving"
             /\ Tell(n, "moving", TRUE, heard[n].place)
Stray(n)  == ~heard[n].inside /\ Tell(n, "moving", FALSE, heard[n].place)

Next == \E n \in Names : In(n) \/ Moved(n) \/ Out(n) \/ Moving(n) \/ Stray(n)

Spec == Init /\ [][Next]_heard
=============================================================================
