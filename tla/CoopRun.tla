------------------------------- MODULE CoopRun -------------------------------
(***************************************************************************)
(* One co-op run of a room: the fields that SESSION_START fills and        *)
(* clear_coop_run_state empties (server/src/room.rs), and what the         *)
(* handlers do to them.  A run is a record; every operator is a function   *)
(* from a run to a run, so that a handler that calls several of them (KICK *)
(* marks the seat dead, then leaves) composes them in the code's order.    *)
(* Room.tla holds the variables and the handlers.                          *)
(*                                                                         *)
(* eventSeq, poseSeq and the payloads are abstracted: a message that the   *)
(* sequence or payload checks reject changes nothing, and a client can     *)
(* always send one that they accept.                                       *)
(***************************************************************************)
EXTENDS Naturals, FiniteSets

CONSTANTS
  Clients,        \* client ids (the server gives every socket a fresh uuid)
  NoClient,       \* Option::None where an id may be missing
  MaxCoopPlayers, \* MAX_COOP_PLAYERS
  Sources         \* sourceEventIds of the speed transitions

ASSUME CoopRunAssumption ==
  /\ IsFiniteSet(Clients)
  /\ NoClient \notin Clients
  /\ MaxCoopPlayers \in Nat \ {0}

(***************************************************************************)
(* coop_alive and the simulation's snakes: "none" is a missing entry, which *)
(* the code reads as dead in one place and as alive in another.            *)
(***************************************************************************)
Life == {"none", "alive", "dead"}

Authorities == {"none", "native", "sim"}

Runs ==
  [authority   : Authorities,                   \* coop_authority
   slot        : [Clients -> 0..MaxCoopPlayers],\* 1-based coop_slots, 0 = none
   life        : [Clients -> Life],             \* coop_alive
   seated      : SUBSET Clients,                \* coop_seated
   timer       : BOOLEAN,                       \* coop_timer_started_at_ms set
   owner       : Clients \cup {NoClient},       \* collectables_owner
   initializer : Clients \cup {NoClient},       \* native_relay.initializer_id
   boardReady  : BOOLEAN,                       \* native_relay.board_ready
   revision    : Nat,                           \* native_relay.board_revision
   sources     : SUBSET Sources,                \* native_relay.speed_sources
   epoch       : Nat,                           \* native_relay.speed_epoch
   snake       : [Clients -> Life],             \* coop.snakes[].alive
   started     : SUBSET Clients]                \* coop.snakes[].started

NoRun ==
  [authority   |-> "none",
   slot        |-> [c \in Clients |-> 0],
   life        |-> [c \in Clients |-> "none"],
   seated      |-> {},
   timer       |-> FALSE,
   owner       |-> NoClient,
   initializer |-> NoClient,
   boardReady  |-> FALSE,
   revision    |-> 0,
   sources     |-> {},
   epoch       |-> 0,
   snake       |-> [c \in Clients |-> "none"],
   started     |-> {}]

Seats(r) == {c \in Clients : r.slot[c] # 0}

LiveSeats(r) == {c \in Seats(r) : r.life[c] = "alive"}

InRun(r) == r.authority # "none"

(* The first of the clients S by the order f, if any (min_by_key, first).  *)
FirstBy(S, f) ==
  IF S = {} THEN NoClient ELSE CHOOSE c \in S : \A d \in S : f[c] <= f[d]

(***************************************************************************)
(* SESSION_START in co-op: the seats are the players in promotion order,   *)
(* at most MaxCoopPlayers of them; the admin owns the board if seated, else *)
(* the first seat does, and on a native run that owner is the initializer. *)
(***************************************************************************)
SlotOf(players, promoteOrder, c) ==
  LET rank == Cardinality({p \in players : promoteOrder[p] <= promoteOrder[c]})
  IN  IF c \in players /\ rank <= MaxCoopPlayers THEN rank ELSE 0

NewRun(players, promoteOrder, native, admin) ==
  LET slot  == [c \in Clients |-> SlotOf(players, promoteOrder, c)]
      seats == {c \in Clients : slot[c] # 0}
      owner == IF admin \in seats THEN admin ELSE FirstBy(seats, slot)
      lives == [c \in Clients |-> IF c \in seats THEN "alive" ELSE "none"]
  IN  [NoRun EXCEPT
         !.authority   = IF native THEN "native" ELSE "sim",
         !.slot        = slot,
         !.life        = lives,
         !.owner       = owner,
         !.initializer = IF native THEN owner ELSE NoClient,
         !.seated      = IF native THEN {} ELSE seats,
         !.snake       = IF native THEN NoRun.snake ELSE lives]

(***************************************************************************)
(* next_native_initializer: the first seat that is connected and alive.    *)
(***************************************************************************)
NextInitializer(r, members) ==
  FirstBy(LiveSeats(r) \cap members, r.slot)

(***************************************************************************)
(* maybe_end_coop_all_dead: a seat with no coop_alive entry counts as      *)
(* alive.  Ending the session drops the run (clear_coop_run_state).        *)
(***************************************************************************)
AllDead(r) == \A c \in Seats(r) : r.life[c] = "dead"

EndIfAllDead(r) == IF InRun(r) /\ AllDead(r) THEN NoRun ELSE r

(***************************************************************************)
(* mark_native_seat_dead: idempotent; a dead initializer of a board that   *)
(* is not committed yet hands over; the last death ends the run.           *)
(***************************************************************************)
(* Mutant: the dead initializer keeps the board.                           *)
HandOff_Never(r, c, members) == r

HandOff(r, c, members) ==
  LET next == NextInitializer(r, members)
  IN  IF ~r.boardReady /\ r.initializer = c
      THEN [r EXCEPT !.initializer = next, !.owner = next]
      ELSE r

(* Mutant: the last death does not end the run.                            *)
MarkNativeDead_NoEnd(r, c, members) ==
  IF r.slot[c] # 0 /\ r.life[c] = "alive"
  THEN HandOff([r EXCEPT !.life[c] = "dead"], c, members)
  ELSE r

MarkNativeDead(r, c, members) ==
  IF r.slot[c] # 0 /\ r.life[c] = "alive"
  THEN EndIfAllDead(HandOff([r EXCEPT !.life[c] = "dead"], c, members))
  ELSE r

(***************************************************************************)
(* mark_server_sim_seat_dead: the same for a simulated seat, whose snake   *)
(* stays on the board as a corpse.                                         *)
(***************************************************************************)
(* Mutant: only the room learns of the death, the simulation does not.     *)
MarkSimDead_RoomOnly(r, c) ==
  IF r.slot[c] # 0 /\ r.life[c] = "alive"
  THEN EndIfAllDead([r EXCEPT !.life[c] = "dead"])
  ELSE r

MarkSimDead(r, c) ==
  IF r.slot[c] # 0 /\ r.life[c] = "alive"
  THEN EndIfAllDead([r EXCEPT !.life[c] = "dead", !.snake[c] = "dead"])
  ELSE r

(***************************************************************************)
(* The death of a seat by demotion or kick, under either authority.        *)
(***************************************************************************)
(* Mutant: only a simulated seat dies.                                     *)
KillSeat_SimOnly(r, c, members) ==
  IF r.authority = "sim" THEN MarkSimDead(r, c) ELSE r

KillSeat(r, c, members) ==
  IF r.authority = "native" THEN MarkNativeDead(r, c, members)
  ELSE IF r.authority = "sim" THEN MarkSimDead(r, c)
  ELSE r

(***************************************************************************)
(* What leave does to the run: a native seat dies before the client is     *)
(* removed; a simulated seat that is alive dies in place; any other entry  *)
(* of coop_alive is removed.  Only then may the board owner be re-picked   *)
(* (heir) and the all-dead check run.                                      *)
(***************************************************************************)
LeaveSeat(r, c, members, heir) ==
  LET simSeat == /\ r.authority = "sim"
                 /\ r.slot[c] # 0
                 /\ r.life[c] = "alive"
      gone == IF simSeat
              THEN [r EXCEPT !.life[c] = "dead", !.snake[c] = "dead"]
              ELSE [r EXCEPT !.life[c] = "none"]
  IN  IF r.authority = "native" /\ r.slot[c] # 0
      THEN EndIfAllDead(MarkNativeDead(r, c, members))
      ELSE EndIfAllDead([gone EXCEPT !.owner = IF @ = c THEN heir ELSE @])

(***************************************************************************)
(* require_native_sender, without the sequence checks.                     *)
(***************************************************************************)
NativeSender(r, c, members) ==
  r.authority = "native" /\ r.slot[c] # 0 /\ c \in members
=============================================================================
