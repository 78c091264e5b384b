------------------------------- MODULE CoopGame -------------------------------
(***************************************************************************)
(* The simulation of a co-op run on the server (server/src/coop.rs): the   *)
(* snakes, the fruit, the buffered turns of the players, and a step of it. *)
(* The room (Room.tla) calls set_input and step, and marks snakes dead     *)
(* whose players have gone.  A snake is named by its seat, 1..Players.     *)
(*                                                                         *)
(* Left out: colors, scores, the type of a fruit, the settings but for the *)
(* number of fruits and the board, and grow, which is 0 between steps: the *)
(* step that eats adds one and uses it at once.  A random choice of a free *)
(* cell is any free cell.                                                  *)
(***************************************************************************)
EXTENDS Integers, Sequences, FiniteSets, Functions

CONSTANTS
  Players,        \* number of seats
  Width, Height,  \* board_dims
  Count,          \* count_index of the settings
  MaxTick         \* bound: steps of a run

\* The boards of the code are at least 10 cells wide and 9 high.
ASSUME BoardAssumption ==
  /\ Players \in 1..4 /\ Count \in 0..6
  /\ Width \in Nat /\ Width >= 3
  /\ Height \in Nat /\ Height >= 2 * Players + 1
  /\ MaxTick \in Nat

Snakes == 1..Players

VARIABLES
  body,     \* body[i]: the cells of snake i, the head first
  dir,      \* dir[i]: where it is heading
  pending,  \* pending[i]: the turns its player has buffered
  alive,    \* alive[i]
  started,  \* started[i]: its player has steered it
  fruit,    \* the cells that hold a fruit
  over,     \* end_reason, or "no"
  tick      \* steps so far

vars == <<body, dir, pending, alive, started, fruit, over, tick>>

Board == (0 .. Width - 1) \X (0 .. Height - 1)

Dirs == {"up", "down", "left", "right"}

Opposite(d) ==
  CASE d = "up" -> "down" [] d = "down" -> "up"
    [] d = "left" -> "right" [] d = "right" -> "left"

\* The cell that is next to cell p in direction d.
Ahead(p, d) ==
  <<p[1] + (IF d = "left" THEN -1 ELSE IF d = "right" THEN 1 ELSE 0),
    p[2] + (IF d = "up" THEN -1 ELSE IF d = "down" THEN 1 ELSE 0)>>

-----------------------------------------------------------------------------
(***************************************************************************)
(* The start of a run.                                                     *)
(***************************************************************************)

\* spawn_offsets: the rows of the seats, from the middle of the board.
SpawnOffsets ==
  CASE Players = 1 -> <<0>>
    [] Players = 2 -> <<-1, 1>>
    [] Players = 3 -> <<0, 2, -2>>
    [] OTHER       -> <<-1, 1, 2, -2>>

Spawn(i) ==
  LET x == IF Width \div 2 < 2 THEN 2 ELSE Width \div 2
      y == Height \div 2 + SpawnOffsets[i]
      row == IF y < 1 THEN 1 ELSE IF y >= Height - 1 THEN Height - 2 ELSE y
  IN  <<<<x, row>>, <<x - 1, row>>, <<x - 2, row>>>>

\* count_target: the number of fruits that lie on the board at a time.
FruitTarget == <<1, 3, 5, 10, 1, 1, 5>>[Count + 1]

\* classic_initial_fruit: where the first fruits lie.
Stock ==
  LET five  == Count \in {2, 3, 6}
      shift == IF ~five THEN 0 ELSE IF Width >= 20 THEN 2 ELSE 1
      at(dx, dy) == <<(3 * Width) \div 4 - shift + dx, Height \div 2 + dy>>
  IN  {at(0, 0)}
      \cup (IF five \/ Count = 1 THEN {at(-2, -2), at(-2, 2)} ELSE {})
      \cup (IF five THEN {at(2, -2), at(2, 2)} ELSE {})

Occupied(b) == UNION {Range(b[i]) : i \in Snakes}

\* cell_free_for_fruit
Free(b, f) == Board \ (Occupied(b) \cup f)

\* fill_fruit_to_target: the outcomes of filling up f among the bodies b.
Filled(b, f) ==
  LET missing == FruitTarget - Cardinality(f)
      room    == Cardinality(Free(b, f))
      n       == IF missing < room THEN missing ELSE room
  IN  {f \cup Range(g) : g \in Injection(1..n, Free(b, f))}

Init ==
  /\ body = [i \in Snakes |-> Spawn(i)]
  /\ dir = [i \in Snakes |-> "right"]
  /\ pending = [i \in Snakes |-> <<>>]
  /\ alive = [i \in Snakes |-> TRUE]
  /\ started = [i \in Snakes |-> FALSE]
  /\ fruit \in Filled(body, Stock \cap Free(body, {}))
  /\ over = "no" /\ tick = 0

-----------------------------------------------------------------------------
(***************************************************************************)
(* Players.                                                                *)
(***************************************************************************)

\* What the buffer p of a snake heading h is after turn d: a turn back or
\* a repeated one is ignored, and a third turn replaces the second.
Buffered(p, h, d) ==
  LET last == IF p = <<>> THEN h ELSE p[Len(p)]
  IN  IF d \in {last, Opposite(last)} THEN p
      ELSE IF Len(p) >= 2 THEN <<p[1], d>>
      ELSE Append(p, d)

\* set_input
SetInput(i, d) ==
  /\ over = "no" /\ alive[i]
  /\ started' = [started EXCEPT ![i] = TRUE]
  /\ pending' = [pending EXCEPT ![i] = Buffered(@, dir[i], d)]
  /\ UNCHANGED <<body, dir, alive, fruit, over, tick>>

\* A player leaves, is kicked or demoted: the room marks the snake dead.
MarkDead(i) ==
  /\ over = "no" /\ alive[i]
  /\ alive' = [alive EXCEPT ![i] = FALSE]
  /\ UNCHANGED <<body, dir, pending, started, fruit, over, tick>>

-----------------------------------------------------------------------------
(***************************************************************************)
(* A step.  Who dies is decided for all snakes from the board as it was.   *)
(***************************************************************************)

\* Where snake i heads in this step, with its next buffered turn.
\* Mutant: a buffered turn is taken as it is.
Facing_AnyTurn(i) == IF pending[i] # <<>> THEN pending[i][1] ELSE dir[i]

Facing(i) ==
  IF pending[i] # <<>> /\ pending[i][1] # Opposite(dir[i])
    THEN pending[i][1] ELSE dir[i]

\* Mutant: the first steered snake sets all of them going.
Crawls_All(i) == alive[i] /\ \E j \in Snakes : started[j]

Crawls(i) == alive[i] /\ started[i]

NewHead(i) == Ahead(body[i][1], Facing(i))

\* The last cell of its own body is free for a snake: it moves on.
HitsBody(i) ==
  \/ \E j \in Snakes \ {i} : NewHead(i) \in Range(body[j])
  \/ NewHead(i) \in Range(body[i]) /\ NewHead(i) # body[i][Len(body[i])]

\* Mutant: a snake looks where the other heads were.
HeadOn_OldHeads(i) ==
  \E j \in Snakes \ {i} : Crawls(j) /\ body[j][1] = NewHead(i)

HeadOn(i) ==
  \E j \in Snakes \ {i} : Crawls(j) /\ NewHead(j) = NewHead(i)

Moves(i) ==
  Crawls(i) /\ NewHead(i) \in Board /\ ~HitsBody(i) /\ ~HeadOn(i)

Eats(i) == Moves(i) /\ NewHead(i) \in fruit

\* A snake that eats keeps its last cell.
NewBody(i) ==
  IF ~Moves(i) THEN body[i]
  ELSE <<NewHead(i)>> \o
       SubSeq(body[i], 1, IF Eats(i) THEN Len(body[i]) ELSE Len(body[i]) - 1)

Step ==
  LET eaters == {i \in Snakes : Eats(i)} IN
  /\ over = "no" /\ tick < MaxTick
  /\ tick' = tick + 1
  /\ dir' = [i \in Snakes |-> Facing(i)]
  /\ pending' = [i \in Snakes |->
                   IF pending[i] = <<>> THEN <<>> ELSE Tail(pending[i])]
  /\ alive' = [i \in Snakes |-> alive[i] /\ (Crawls(i) => Moves(i))]
  /\ body' = [i \in Snakes |-> NewBody(i)]
  /\ fruit' \in IF eaters = {} THEN {fruit}
                ELSE Filled(body', fruit \ {NewHead(i) : i \in eaters})
  /\ over' = IF eaters # {} /\ fruit' = {} THEN "ALL_APPLES"
             ELSE IF \A i \in Snakes : ~alive'[i] THEN "ALL_DEAD" ELSE "no"
  /\ UNCHANGED started

Next ==
  \/ \E i \in Snakes, d \in Dirs : SetInput(i, d)
  \/ \E i \in Snakes : MarkDead(i)
  \/ Step

Spec == Init /\ [][Next]_vars

-----------------------------------------------------------------------------
(***************************************************************************)
(* Properties.                                                             *)
(***************************************************************************)

\* The types of the variables; no more than two turns are buffered.
TypeOK ==
  /\ body \in [Snakes -> Seq(Board)]
  /\ dir \in [Snakes -> Dirs]
  /\ pending \in [Snakes -> Seq(Dirs)]
  /\ \A i \in Snakes : Len(pending[i]) <= 2
  /\ alive \in [Snakes -> BOOLEAN] /\ started \in [Snakes -> BOOLEAN]
  /\ fruit \subseteq Board
  /\ over \in {"no", "ALL_APPLES", "ALL_DEAD"}
  /\ tick \in 0..MaxTick

\* However many snakes move into a cell, or into one that another leaves,
\* in one step: a cell belongs to at most one snake, once, or has a fruit.
CellsApart ==
  /\ \A i \in Snakes : IsInjective(body[i])
  /\ \A i, j \in Snakes : i # j => Range(body[i]) \cap Range(body[j]) = {}
  /\ fruit \cap Occupied(body) = {}

\* No sequence of inputs between two steps turns a snake into its own neck,
\* though a turn may replace a buffered one without being compared with the
\* turn before it.
NoReversal ==
  \A i \in Snakes : alive[i] => NewHead(i) # body[i][2]

\* A run that goes on has a fruit to eat, and it ends with ALL_APPLES only
\* when no cell is left ("ALL_APPLES only when no free cell remains at
\* all").
FruitNeverRunsOut ==
  /\ over = "no" => fruit # {}
  /\ over = "ALL_APPLES" => Occupied(body) = Board

\* The simulation is sound: its cells, its turns and its fruit.
GameSound == CellsApart /\ NoReversal /\ FruitNeverRunsOut

\* The room's view of the simulation: only snakes that crawl die in a step,
\* and a run is over with the last death or by a survivor that has eaten.
Promise == INSTANCE SimPromise WITH over <- over # "no"

KeepsPromise == Promise!Spec
=============================================================================
