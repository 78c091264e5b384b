------------------------------ MODULE SimPromise ------------------------------
(***************************************************************************)
(* What a room relies on in the simulation of a co-op run, and all that    *)
(* Room!SimStep lets a step of it do: a snake dies in a step only if it    *)
(* crawls, dead snakes stay dead, and the run is over with the last death  *)
(* or when a snake that crawls survives and has cleared the board.         *)
(***************************************************************************)
CONSTANT Snakes

VARIABLES
  alive,    \* alive[i]: snake i lives
  started,  \* started[i]: its player has steered it
  over      \* the simulation has ended the run

vars == <<alive, started, over>>

Init ==
  /\ alive = [i \in Snakes |-> TRUE]
  /\ started = [i \in Snakes |-> FALSE]
  /\ over = FALSE

Steer(i) ==
  /\ ~over /\ alive[i]
  /\ started' = [started EXCEPT ![i] = TRUE]
  /\ UNCHANGED <<alive, over>>

MarkDead(i) ==
  /\ ~over
  /\ alive' = [alive EXCEPT ![i] = FALSE]
  /\ UNCHANGED <<started, over>>

Step(dying, cleared) ==
  LET crawling == {i \in Snakes : alive[i] /\ started[i]} IN
  /\ ~over
  /\ dying \subseteq crawling
  /\ cleared => crawling \ dying # {}
  /\ alive' = [i \in Snakes |-> alive[i] /\ i \notin dying]
  /\ over' = (cleared \/ \A i \in Snakes : ~alive'[i])
  /\ UNCHANGED started

Next ==
  \/ \E i \in Snakes : Steer(i) \/ MarkDead(i)
  \/ \E dying \in SUBSET Snakes, cleared \in BOOLEAN : Step(dying, cleared)

Spec == Init /\ [][Next]_vars
=============================================================================
