-------------------------------- MODULE Room --------------------------------
(***************************************************************************)
(* One room of the relay server (server/src/room.rs): membership, roles,   *)
(* ready flags and colors, the race attempt with its deadline and grace    *)
(* period, and the co-op run under either authority.  An action is one     *)
(* call of a handler, which the server runs under the lock on its rooms    *)
(* (RoomServer.tla models that lock).                                      *)
(*                                                                         *)
(* Outgoing messages are not part of this state.  Times are abstracted:    *)
(* the deadline may pass at any tick, the simulation may step at any tick. *)
(***************************************************************************)
EXTENDS CoopRun

CONSTANTS
  Colors,         \* claimable color ids, in palette order; {} leaves colors out
  NoColor,
  MaxConnections, \* MAX_CONNECTIONS
  MaxRacePlayers, \* MAX_RACE_PLAYERS
  RelayGates,     \* values of the server's coop_native_relay gate
  Modes,          \* modes that MODE_CHANGE may ask for
  RepeatHello,    \* may a client that has joined send HELLO again?
  FinishFlags,    \* finishOngoingRuns of a race SESSION_START; {}: no race starts
  FocusTargets,   \* seats that SPECTATE_FOCUS may ask for
  \* bounds of the counters
  MaxJoins, MaxPromotions, MaxGenerations, MaxRevision

ASSUME RoomAssumption ==
  /\ Colors \subseteq Nat /\ IsFiniteSet(Colors)
  /\ Colors = {} \/ Cardinality(Colors) >= MaxCoopPlayers
  /\ NoColor \notin Colors
  /\ MaxConnections \in Nat /\ MaxRacePlayers \in Nat
  /\ MaxCoopPlayers <= MaxRacePlayers
  /\ RelayGates \subseteq BOOLEAN /\ RepeatHello \in BOOLEAN
  /\ Modes \subseteq {"race", "coop"}
  /\ FinishFlags \subseteq BOOLEAN /\ FocusTargets \subseteq Clients
  /\ {MaxJoins, MaxPromotions, MaxGenerations, MaxRevision} \subseteq Nat

VARIABLES
  members,      \* keys of Room.clients
  admin,        \* admin_id
  joinSeq,      \* join_seq
  joinOrder,    \* ClientState.join_order, kept after a leave (ids are not reused)
  players,      \* clients whose role is Player
  promoteSeq,   \* promote_seq
  promoteOrder, \* ClientState.promote_order, 0 = None
  ready,        \* clients with the ready flag
  color,        \* ClientState.color_id
  focus,        \* ClientState.spectate_focus
  nativeRelay,  \* coop_native_relay_enabled, set for good at the creation
  mode,         \* mode
  active,       \* session_active
  gen,          \* coop_generation
  run,          \* the co-op run (CoopRun)
  race          \* the race attempt

lobby == <<members, admin, joinSeq, joinOrder, players, promoteSeq,
           promoteOrder, ready, color, focus, nativeRelay>>
vars == <<lobby, mode, active, gen, run, race>>

(***************************************************************************)
(* The race attempt.  life is the alive flag of race_scores, "none" where  *)
(* the player has not sent a pulse in this match.                          *)
(***************************************************************************)
Races ==
  [deadline : BOOLEAN,            \* attempt_deadline is set
   expired  : BOOLEAN,            \* attempt_expired
   allowNew : BOOLEAN,            \* allow_new_runs
   finish   : BOOLEAN,            \* finish_ongoing_runs
   life     : [Clients -> Life]]  \* race_scores[].alive

NoScores == [c \in Clients |-> "none"]

TypeOK ==
  /\ members \subseteq Clients
  /\ admin \in Clients \cup {NoClient}
  /\ joinSeq \in Nat /\ joinOrder \in [Clients -> Nat]
  /\ players \subseteq Clients
  /\ promoteSeq \in Nat /\ promoteOrder \in [Clients -> Nat]
  /\ ready \subseteq Clients
  /\ color \in [Clients -> Colors \cup {NoColor}]
  /\ focus \in [Clients -> Clients \cup {NoClient}]
  /\ nativeRelay \in BOOLEAN
  /\ mode \in {"race", "coop"}
  /\ active \in BOOLEAN
  /\ gen \in Nat
  /\ run \in Runs
  /\ race \in Races

Init ==
  /\ members = {} /\ admin = NoClient
  /\ joinSeq = 0 /\ joinOrder = [c \in Clients |-> 0]
  /\ players = {} /\ promoteSeq = 0 /\ promoteOrder = [c \in Clients |-> 0]
  /\ ready = {}
  /\ color = [c \in Clients |-> NoColor]
  /\ focus = [c \in Clients |-> NoClient]
  /\ nativeRelay \in RelayGates
  /\ mode = "race" /\ active = FALSE /\ gen = 0
  /\ run = NoRun
  /\ race = [deadline |-> FALSE, expired |-> FALSE, allowNew |-> TRUE,
             finish |-> TRUE, life |-> NoScores]

-----------------------------------------------------------------------------
(* Colors                                                                  *)

LeastOf(S) == CHOOSE x \in S : \A y \in S : x <= y

(* first_free_claimable, for a palette with a free color.                  *)
FirstFree(taken) == LeastOf(Colors \ taken)

(* next_free_claimable: the next free color after id, wrapping around.     *)
(* Mutant: the next id, whatever the palette holds.                        *)
NextFree_NoWrap(id, taken) == id + 1

NextFree(id, taken) ==
  LET free  == Colors \ taken
      after == {k \in free : k > id}
  IN  IF id \in Colors /\ after # {} THEN LeastOf(after) ELSE LeastOf(free)

Recolor(c, taken, free) ==
  IF color[c] \in Colors \ taken \/ Colors \subseteq taken THEN color[c]
  ELSE free

(***************************************************************************)
(* rematch_coop_colors over the players S: in the order of their ids       *)
(* (random uuids, so any order) a player keeps its color unless it has     *)
(* none or an earlier player has it, and then takes the first free one.    *)
(***************************************************************************)
Rematched(S) ==
  {new \in [Clients -> Colors \cup {NoColor}] :
     /\ \A c \in Clients \ S : new[c] = color[c]
     /\ \E rank \in [S -> 1..Cardinality(S)] :
          \A p \in S :
             LET seen == {new[q] : q \in {q \in S : rank[q] < rank[p]}}
             IN  /\ new[p] = Recolor(p, seen, FirstFree(seen))
                 /\ \A q \in S : q # p => rank[q] # rank[p]}

-----------------------------------------------------------------------------
(* Race grace                                                              *)

(***************************************************************************)
(* maybe_end_race_grace: after the deadline the match stays open while a   *)
(* player is alive in a run; no pulse yet counts as running.               *)
(***************************************************************************)
(* Mutant: a match without players is not over.                            *)
GraceOver_NeedsPlayer(rc, S) ==
  /\ rc.expired /\ rc.finish
  /\ S # {} /\ \A p \in S : rc.life[p] = "dead"

(* Mutant: the first finished run closes the match.                        *)
GraceOver_FirstDeath(rc, S) ==
  rc.expired /\ rc.finish /\ \E p \in S : rc.life[p] = "dead"

GraceOver(rc, S) ==
  rc.expired /\ rc.finish /\ \A p \in S : rc.life[p] = "dead"

(* The handler's last look at the grace, with attempt rc and players S.    *)
SettleRace(rc, S, open) ==
  LET over == open /\ GraceOver(rc, S)
  IN  race' = [rc EXCEPT !.deadline = @ /\ ~over]

-----------------------------------------------------------------------------
(* Membership                                                              *)

(***************************************************************************)
(* join of a fresh client: a spectator; the first one becomes the admin.   *)
(***************************************************************************)
Join(c) ==
  /\ joinOrder[c] = 0
  /\ joinSeq < MaxJoins
  /\ Cardinality(members) < MaxConnections
  /\ joinSeq' = joinSeq + 1
  /\ joinOrder' = [joinOrder EXCEPT ![c] = joinSeq + 1]
  /\ members' = members \cup {c}
  /\ admin' = IF members = {} THEN c ELSE admin
  /\ UNCHANGED <<players, promoteSeq, promoteOrder, ready, color, focus, mode,
                 active, gen, run, race, nativeRelay>>

(***************************************************************************)
(* join of a client that is a member: main.rs calls it for every HELLO,    *)
(* and it replaces the client's record.                                    *)
(***************************************************************************)
Rejoin(c) ==
  /\ RepeatHello
  /\ c \in members
  /\ joinSeq < MaxJoins
  /\ Cardinality(members) < MaxConnections
  /\ joinSeq' = joinSeq + 1
  /\ joinOrder' = [joinOrder EXCEPT ![c] = joinSeq + 1]
  /\ players' = players \ {c}
  /\ promoteOrder' = [promoteOrder EXCEPT ![c] = 0]
  /\ ready' = ready \ {c}
  /\ color' = [color EXCEPT ![c] = NoColor]
  /\ focus' = [focus EXCEPT ![c] = NoClient]
  /\ UNCHANGED <<members, admin, promoteSeq, mode, active, gen, run, race,
                 nativeRelay>>

(* next_admin: the longest-joined client.                                  *)
(* Mutant: nobody succeeds the admin.                                      *)
NextAdmin_Kept(S) == admin

NextAdmin(S) == FirstBy(S, joinOrder)

(* pick_collectables_owner once only the players S are left.               *)
PickOwner(S) == IF admin \in S THEN admin ELSE FirstBy(S, promoteOrder)

(* Mutant: the last client leaves the session behind.                      *)
Emptied_Never(c) == FALSE

(* The client is the last one.                                             *)
Emptied(c) == members = {c}

(***************************************************************************)
(* leave, on a room whose co-op run is r (KICK has already marked the seat *)
(* dead): the seat dies, the record and the scores go, the admin is        *)
(* succeeded, and the last departure may end the run or the grace.  The    *)
(* last client takes the session with it.                                  *)
(***************************************************************************)
LeaveFrom(c, r) ==
  LET rest == members \ {c}
      r1   == LeaveSeat(r, c, members, PickOwner(players \ {c}))
      rc   == [race EXCEPT !.life[c] = "none"]
      open == mode = "race" /\ active
      coopEnded == InRun(run) /\ ~InRun(r1)
      graceOver == open /\ GraceOver(rc, players \ {c})
      emptied   == Emptied(c) /\ active /\ ~coopEnded /\ ~graceOver
  IN
  /\ members' = rest
  /\ admin' = IF admin = c THEN NextAdmin(rest) ELSE admin
  /\ players' = players \ {c}
  /\ promoteOrder' = [promoteOrder EXCEPT ![c] = 0]
  /\ ready' = IF coopEnded \/ emptied THEN {} ELSE ready \ {c}
  /\ color' = [color EXCEPT ![c] = NoColor]
  /\ focus' = [focus EXCEPT ![c] = NoClient]
  /\ run' = IF emptied THEN NoRun ELSE r1
  /\ active' = (active /\ ~coopEnded /\ ~graceOver /\ ~emptied)
  /\ SettleRace(rc, players \ {c}, open)
  /\ UNCHANGED <<joinSeq, joinOrder, promoteSeq, mode, gen, nativeRelay>>

Leave(c) == c \in members /\ LeaveFrom(c, run)

(* KICK                                                                    *)
Kick(c) ==
  /\ admin # NoClient
  /\ c \in members
  /\ c # admin
  /\ LeaveFrom(c, KillSeat(run, c, members))

AdminTransfer(c) ==
  /\ admin # NoClient
  /\ c \in members
  /\ admin' = c
  /\ UNCHANGED <<members, joinSeq, joinOrder, players, promoteSeq,
                 promoteOrder, ready, color, focus, mode, active, gen,
                 run, race, nativeRelay>>

-----------------------------------------------------------------------------
(* Lobby                                                                   *)

PlayerCap == IF mode = "race" THEN MaxRacePlayers ELSE MaxCoopPlayers

(***************************************************************************)
(* SET_ROLE to player: in co-op the new player gets a color that no other  *)
(* player has.  A player promoted during the grace has no pulse yet.       *)
(***************************************************************************)
Promote(c) ==
  /\ admin # NoClient
  /\ c \in members \ players
  /\ Cardinality(players) < PlayerCap
  /\ promoteSeq < MaxPromotions
  /\ promoteSeq' = promoteSeq + 1
  /\ promoteOrder' = [promoteOrder EXCEPT ![c] = promoteSeq + 1]
  /\ players' = players \cup {c}
  /\ ready' = ready \ {c}
  /\ LET taken == {color[p] : p \in players}
     IN  color' = [color EXCEPT ![c] =
                     IF mode = "coop" THEN Recolor(c, taken, FirstFree(taken))
                     ELSE @]
  /\ LET open == mode = "race" /\ active
     IN  /\ active' = (active /\ ~(open /\ GraceOver(race, players')))
         /\ SettleRace(race, players', open)
  /\ UNCHANGED <<members, admin, joinSeq, joinOrder, focus, mode, gen, run,
                 nativeRelay>>

(***************************************************************************)
(* SET_ROLE to spectator: a live co-op seat dies first (and may end the    *)
(* session), and nobody keeps a focus on the demoted client.               *)
(***************************************************************************)
Demote(c) ==
  LET r1        == KillSeat(run, c, members)
      coopEnded == InRun(run) /\ ~InRun(r1)
      open      == mode = "race" /\ active
  IN
  /\ admin # NoClient
  /\ c \in players
  /\ players' = players \ {c}
  /\ promoteOrder' = [promoteOrder EXCEPT ![c] = 0]
  /\ ready' = IF coopEnded THEN {} ELSE ready \ {c}
  /\ focus' = [d \in Clients |-> IF d = c \/ focus[d] = c THEN NoClient
                                 ELSE focus[d]]
  /\ run' = r1
  /\ active' = (active /\ ~coopEnded /\ ~(open /\ GraceOver(race, players')))
  /\ SettleRace(race, players', open)
  /\ UNCHANGED <<members, admin, joinSeq, joinOrder, promoteSeq, color, mode,
                 gen, nativeRelay>>

(* Mutant: the colors of the players that are not ready.                   *)
ReadyColors_Unready(c) == {color[p] : p \in (players \ ready) \ {c}}

(***************************************************************************)
(* READY: in co-op a color that another ready player holds is bumped.      *)
(***************************************************************************)
ReadyColors(c) == {color[p] : p \in (players \cap ready) \ {c}}

Ready(c) ==
  /\ c \in players
  /\ LET from == IF color[c] = NoColor THEN 0 ELSE color[c]
     IN  color' = [color EXCEPT ![c] =
                     IF mode = "coop"
                     THEN Recolor(c, ReadyColors(c),
                                  NextFree(from, ReadyColors(c)))
                     ELSE @]
  /\ ready' = ready \cup {c}
  /\ UNCHANGED <<members, admin, joinSeq, joinOrder, players, promoteSeq,
                 promoteOrder, focus, mode, active, gen, run, race,
                 nativeRelay>>

Unready(c) ==
  /\ c \in players
  /\ ready' = ready \ {c}
  /\ UNCHANGED <<members, admin, joinSeq, joinOrder, players, promoteSeq,
                 promoteOrder, color, focus, mode, active, gen, run,
                 race, nativeRelay>>

(***************************************************************************)
(* COLOR_CLAIM: any member; in co-op only ready players lock a color.      *)
(***************************************************************************)
ColorClaim(c, k) ==
  /\ c \in members
  /\ mode = "coop" => k \notin ReadyColors(c)
  /\ color' = [color EXCEPT ![c] = k]
  /\ UNCHANGED <<members, admin, joinSeq, joinOrder, players, promoteSeq,
                 promoteOrder, ready, focus, mode, active, gen, run,
                 race, nativeRelay>>

(***************************************************************************)
(* SPECTATE_FOCUS: only spectators set a focus, and only on a player.      *)
(***************************************************************************)
SpectateFocus(c, target) ==
  /\ c \in members \ players
  /\ target = NoClient \/ target \in members \cap players
  /\ focus' = [focus EXCEPT ![c] = target]
  /\ UNCHANGED <<members, admin, joinSeq, joinOrder, players, promoteSeq,
                 promoteOrder, ready, color, mode, active, gen, run,
                 race, nativeRelay>>

-----------------------------------------------------------------------------
(* Sessions                                                                *)

(***************************************************************************)
(* MODE_CHANGE: abort_run, then the scores go; in co-op the newest players *)
(* are demoted down to the cap and the colors are rematched.               *)
(***************************************************************************)
(* Mutant: nobody is demoted.                                              *)
Kept_All(m) == players

Kept(m) ==
  IF m = "race" THEN players
  ELSE {p \in players :
          Cardinality({q \in players : promoteOrder[q] < promoteOrder[p]})
            < MaxCoopPlayers}

ModeChange(m) ==
  /\ admin # NoClient
  /\ mode' = m
  /\ active' = FALSE
  /\ run' = NoRun
  /\ ready' = {}
  /\ race' = [race EXCEPT !.deadline = FALSE, !.expired = FALSE,
                          !.allowNew = TRUE, !.life = NoScores]
  /\ players' = Kept(m)
  /\ promoteOrder' = [c \in Clients |-> IF c \in Kept(m) THEN promoteOrder[c]
                                        ELSE 0]
  /\ IF m = "coop" THEN color' \in Rematched(Kept(m)) ELSE color' = color
  /\ UNCHANGED <<members, admin, joinSeq, joinOrder, promoteSeq, focus, gen,
                 nativeRelay>>

(* SESSION_END: abort_run keeps the last scores and shows them as expired. *)
SessionEnd ==
  /\ admin # NoClient
  /\ active' = FALSE
  /\ run' = NoRun
  /\ ready' = {}
  /\ race' = [race EXCEPT !.deadline = FALSE, !.allowNew = TRUE,
                          !.expired = race.life # NoScores]
  /\ UNCHANGED <<members, admin, joinSeq, joinOrder, players, promoteSeq,
                 promoteOrder, color, focus, mode, gen, nativeRelay>>

AllPlayersReady == players # {} /\ players \subseteq ready

(***************************************************************************)
(* SESSION_START of a race, which may restart a running one; finish is     *)
(* the flag finishOngoingRuns, or the old value when the flag is missing.  *)
(***************************************************************************)
StartRace(finish) ==
  /\ admin # NoClient
  /\ mode = "race"
  /\ AllPlayersReady
  /\ active' = TRUE
  /\ run' = NoRun
  /\ race' = [deadline |-> TRUE, expired |-> FALSE, allowNew |-> TRUE,
              finish |-> finish, life |-> NoScores]
  /\ UNCHANGED <<lobby, mode, gen>>

(* Mutant: a running co-op match is restarted.                             *)
StartCoop_WhileActive ==
  /\ admin # NoClient
  /\ mode = "coop"
  /\ AllPlayersReady
  /\ gen < MaxGenerations
  /\ active' = TRUE
  /\ gen' = gen + 1
  /\ run' = NewRun(players, promoteOrder, nativeRelay, admin)
  /\ race' = [race EXCEPT !.deadline = FALSE, !.expired = FALSE,
                          !.allowNew = TRUE, !.life = NoScores]
  /\ UNCHANGED <<lobby, mode>>

(* SESSION_START of a co-op run: a new generation with frozen seats.       *)
StartCoop ==
  /\ admin # NoClient
  /\ mode = "coop"
  /\ ~active
  /\ AllPlayersReady
  /\ gen < MaxGenerations
  /\ active' = TRUE
  /\ gen' = gen + 1
  /\ run' = NewRun(players, promoteOrder, nativeRelay, admin)
  /\ race' = [race EXCEPT !.deadline = FALSE, !.expired = FALSE,
                          !.allowNew = TRUE, !.life = NoScores]
  /\ UNCHANGED <<lobby, mode>>

-----------------------------------------------------------------------------
(* Race                                                                    *)

(* SCORE_PULSE: the player reports whether its run is alive.               *)
ScorePulse(c, life) ==
  LET rc == [race EXCEPT !.life[c] = life]
  IN
  /\ c \in players
  /\ mode = "race" /\ active
  /\ active' = ~GraceOver(rc, players)
  /\ SettleRace(rc, players, TRUE)
  /\ UNCHANGED <<lobby, mode, gen, run>>

(***************************************************************************)
(* tick, once the deadline has passed: no new runs; the session ends at    *)
(* once, or after the grace if ongoing runs may finish.  The last client   *)
(* of a race leaves a deadline without a session behind.                   *)
(***************************************************************************)
Expire ==
  LET rc == [race EXCEPT !.expired = TRUE, !.allowNew = FALSE]
  IN
  /\ mode = "race"
  /\ race.deadline /\ ~race.expired
  /\ IF race.finish
     THEN /\ active' = (active /\ ~GraceOver(rc, players))
          /\ SettleRace(rc, players, active)
     ELSE /\ active' = FALSE
          /\ race' = [rc EXCEPT !.deadline = FALSE]
  /\ UNCHANGED <<lobby, mode, gen, run>>

-----------------------------------------------------------------------------
(* Co-op, native relay                                                     *)

(* Mutant: the session outlives its run.                                   *)
SetRun_KeepsSession(r) ==
  /\ run' = r
  /\ UNCHANGED <<lobby, mode, active, gen, race>>

(* The run r replaces the current one; if it has ended the session has.    *)
SetRun(r) ==
  /\ run' = r
  /\ active' = InRun(r)
  /\ ready' = IF InRun(r) THEN ready ELSE {}
  /\ UNCHANGED <<members, admin, joinSeq, joinOrder, players, promoteSeq,
                 promoteOrder, color, focus, mode, gen, race,
                 nativeRelay>>

(* SNAKE_DELTA: a pose of a live seat; the first one that moves arms the   *)
(* shared timer.                                                           *)
SnakeDelta(c, seated, moved) ==
  /\ NativeSender(run, c, members)
  /\ moved => seated /\ run.boardReady
  /\ run.life[c] = "alive"
  /\ SetRun([run EXCEPT !.seated = IF seated THEN @ \cup {c} ELSE @,
                        !.timer = @ \/ moved])

(* COLLECTABLES_DELTA before the board is committed: the initializer only. *)
CommitBoard(c) ==
  /\ NativeSender(run, c, members)
  /\ ~run.boardReady
  /\ run.initializer = c
  /\ run.revision = 0
  /\ c \in run.seated
  /\ SetRun([run EXCEPT !.boardReady = TRUE, !.revision = 1])

(* COLLECTABLES_DELTA afterwards: any seated sender, if its base revision  *)
(* is the current one.                                                     *)
UpdateBoard(c, base) ==
  /\ NativeSender(run, c, members)
  /\ run.boardReady
  /\ c \in run.seated
  /\ base = run.revision
  /\ run.revision < MaxRevision
  /\ SetRun([run EXCEPT !.revision = @ + 1])

(***************************************************************************)
(* COOP_PLAYER_DEAD: the sender counts as seated from here on, even when   *)
(* its body is then rejected; otherwise its seat dies.                     *)
(***************************************************************************)
PlayerDead(c, bodyOk) ==
  LET r == [run EXCEPT !.seated = @ \cup {c}]
  IN
  /\ NativeSender(run, c, members)
  /\ run.life[c] = "alive"
  /\ SetRun(IF bodyOk THEN MarkNativeDead(r, c, members) ELSE r)

(* COOP_GOAL: checks neither the seat's life nor that the sender is still  *)
(* a member.                                                               *)
Goal(c) ==
  /\ run.authority = "native"
  /\ c \in run.seated
  /\ run.boardReady
  /\ SetRun(NoRun)

(* Mutant: a retried source event counts again.                            *)
SpeedTransition_Retried(c, s) ==
  /\ NativeSender(run, c, members)
  /\ run.boardReady
  /\ SetRun([run EXCEPT !.sources = @ \cup {s}, !.epoch = @ + 1])

(* COOP_SPEED_TRANSITION: one epoch for each source event.                 *)
SpeedTransition(c, s) ==
  /\ NativeSender(run, c, members)
  /\ run.boardReady
  /\ s \notin run.sources
  /\ SetRun([run EXCEPT !.sources = @ \cup {s}, !.epoch = @ + 1])

-----------------------------------------------------------------------------
(* Co-op, server simulation                                                *)

(* COOP_INPUT of any player arms the timer; a live snake starts to crawl.  *)
Input(c) ==
  /\ run.authority = "sim"
  /\ c \in players
  /\ SetRun([run EXCEPT !.timer = TRUE,
                        !.started = IF run.snake[c] = "alive" THEN @ \cup {c}
                                    ELSE @])

(***************************************************************************)
(* One simulation step of the tick, once a snake has started: some of the  *)
(* live snakes that crawl hit something (dying), a survivor may clear the  *)
(* board, and coop_alive is copied from every snake.                       *)
(***************************************************************************)
Crawling == {c \in run.started : run.snake[c] = "alive"}

(* Mutant: the room does not learn who died in the simulation.             *)
SimStep_NoCopy(dying, cleared) ==
  LET snake == [c \in Clients |-> IF c \in dying THEN "dead" ELSE run.snake[c]]
      over  == cleared \/ \A c \in Clients : snake[c] # "alive"
  IN
  /\ run.authority = "sim"
  /\ run.timer /\ run.started # {}
  /\ dying \subseteq Crawling
  /\ cleared => Crawling \ dying # {}
  /\ SetRun(IF over THEN NoRun ELSE [run EXCEPT !.snake = snake])

SimStep(dying, cleared) ==
  LET snake == [c \in Clients |-> IF c \in dying THEN "dead" ELSE run.snake[c]]
      life  == [c \in Clients |-> IF snake[c] = "none" THEN run.life[c]
                                  ELSE snake[c]]
      over  == cleared \/ \A c \in Clients : snake[c] # "alive"
  IN
  /\ run.authority = "sim"
  /\ run.timer /\ run.started # {}
  /\ dying \subseteq Crawling
  /\ cleared => Crawling \ dying # {}
  /\ SetRun(IF over THEN NoRun
            ELSE [run EXCEPT !.snake = snake, !.life = life])

-----------------------------------------------------------------------------
LobbyNext ==
  \/ \E c \in Clients : Join(c) \/ Rejoin(c) \/ Leave(c) \/ Kick(c)
  \/ \E c \in Clients : AdminTransfer(c) \/ Promote(c) \/ Demote(c)
  \/ \E c \in Clients : Ready(c) \/ Unready(c)
  \/ \E c \in Clients, k \in Colors : ColorClaim(c, k)
  \/ \E c \in Clients, t \in FocusTargets \cup {NoClient} : SpectateFocus(c, t)

SessionNext ==
  \/ \E m \in Modes : ModeChange(m)
  \/ SessionEnd
  \/ \E finish \in FinishFlags : StartRace(finish)
  \/ StartCoop

RaceNext ==
  \/ \E c \in Clients, life \in {"alive", "dead"} : ScorePulse(c, life)
  \/ Expire

NativeNext ==
  \/ \E c \in Clients, seated, moved \in BOOLEAN : SnakeDelta(c, seated, moved)
  \/ \E c \in Clients : CommitBoard(c) \/ Goal(c)
  \/ \E c \in Clients, base \in 1..MaxRevision : UpdateBoard(c, base)
  \/ \E c \in Clients, bodyOk \in BOOLEAN : PlayerDead(c, bodyOk)
  \/ \E c \in Clients, s \in Sources : SpeedTransition(c, s)

SimNext ==
  \/ \E c \in Clients : Input(c)
  \/ \E dying \in SUBSET Clients, cleared \in BOOLEAN : SimStep(dying, cleared)

Next == LobbyNext \/ SessionNext \/ RaceNext \/ NativeNext \/ SimNext

Spec == Init /\ [][Next]_vars

-----------------------------------------------------------------------------
(* Safety of the lobby                                                     *)

(***************************************************************************)
(* A room with clients always has one of them as its admin: after any mix  *)
(* of joins, transfers, kicks and disconnects somebody can start, kick and *)
(* end sessions (leave, next_admin, cmd_admin_transfer).                   *)
(***************************************************************************)
AdminIsMember ==
  IF members = {} THEN admin = NoClient ELSE admin \in members

(***************************************************************************)
(* The players are clients of the room and never more than the cap of the  *)
(* mode, also right after a switch from race to the smaller co-op cap      *)
(* (cmd_set_role, cmd_mode_change).                                        *)
(***************************************************************************)
CapRespected ==
  players \subseteq members /\ Cardinality(players) <= PlayerCap

(***************************************************************************)
(* In co-op two ready players never hold the same color, whatever the      *)
(* order of claims, ready flags, promotions and mode switches (cmd_ready,  *)
(* cmd_color_claim).                                                       *)
(***************************************************************************)
ReadyColorsDistinct ==
  mode = "coop" =>
    \A p, q \in players \cap ready :
      p # q /\ color[p] # NoColor => color[p] # color[q]

(***************************************************************************)
(* A room that nobody is in runs no session: the collector of empty rooms  *)
(* keeps rooms whose session is active, so this one would stay for ever    *)
(* (leave, main.rs gc_empty_rooms).                                        *)
(***************************************************************************)
EmptyRoomIsIdle == members = {} => ~active

(***************************************************************************)
(* The run state and session_active agree: a co-op room has a run exactly  *)
(* while its session is active and a race never has one, so no field of an *)
(* old run leaks into the lobby, a race or the next generation             *)
(* (clear_coop_run_state and every path that reaches it).                  *)
(***************************************************************************)
RunMatchesSession == InRun(run) <=> active /\ mode = "coop"

-----------------------------------------------------------------------------
(* Safety of a native run                                                  *)

Native == run.authority = "native"

(***************************************************************************)
(* Until the board of a native run is committed, the client that must      *)
(* commit it is a connected, living seat, so the run can always start:     *)
(* death, kick, demotion and disconnect of the initializer hand over       *)
(* (mark_native_seat_dead, next_native_initializer).                       *)
(***************************************************************************)
InitializerCanAct ==
  Native /\ ~run.boardReady =>
    run.initializer \in LiveSeats(run) \cap members

(***************************************************************************)
(* A living seat of a native run belongs to a connected player: whoever    *)
(* leaves, is kicked or demoted has died for the others (leave, cmd_kick,  *)
(* cmd_set_role).                                                          *)
(***************************************************************************)
LiveSeatsArePlayers == Native => LiveSeats(run) \subseteq players

(***************************************************************************)
(* A native run has a living seat: the death of the last one ends the      *)
(* session, whatever the mix of deaths, kicks, demotions and disconnects   *)
(* (maybe_end_coop_all_dead).                                              *)
(***************************************************************************)
NativeRunHasLiveSeat == Native => LiveSeats(run) # {}

(***************************************************************************)
(* Within one run the generation and the seats are frozen, the dead stay   *)
(* dead, and board, timer, seated flags and speed epoch only advance; a    *)
(* new run always has a new generation.  A late message can thus be told   *)
(* by its generation (cmd_session_start and all native handlers).          *)
(***************************************************************************)
RunAdvances ==
  /\ InRun(run) /\ InRun(run') =>
       /\ gen' = gen
       /\ run'.authority = run.authority
       /\ run'.slot = run.slot
       /\ run.seated \subseteq run'.seated
       /\ run.timer => run'.timer
       /\ run.boardReady => run'.boardReady
       /\ run.revision <= run'.revision
       /\ run.epoch <= run'.epoch
       /\ \A c \in Clients : run.life[c] = "dead" => run'.life[c] # "alive"
  /\ ~InRun(run) /\ InRun(run') => gen' > gen

RunIsMonotone == [][RunAdvances]_vars

(***************************************************************************)
(* Nothing happens on the board before it is committed: neither the timer  *)
(* nor a speed change nor a later revision, across every hand-over of the  *)
(* initializer; and every speed event counts once (cmd_snake_delta,        *)
(* cmd_collectables_delta, cmd_coop_speed_transition).                     *)
(***************************************************************************)
BoardComesFirst ==
  Native =>
    /\ run.timer \/ run.sources # {} \/ run.revision # 0 => run.boardReady
    /\ run.epoch = Cardinality(run.sources)

-----------------------------------------------------------------------------
(* Safety of a simulated run                                               *)

(***************************************************************************)
(* Every snake that the simulation still moves belongs to a connected      *)
(* player ("Disconnect = die", leave; cmd_kick, cmd_set_role).             *)
(***************************************************************************)
LiveSnakesArePlayers ==
  \A c \in Clients : run.snake[c] = "alive" => c \in players

(***************************************************************************)
(* The room and its simulation agree on which connected seats live: the    *)
(* room may change coop_alive between two steps of the simulation, which   *)
(* copies its own flags back (leave, mark_server_sim_seat_dead,            *)
(* tick_coop_sim).                                                         *)
(***************************************************************************)
SimLifeAgrees ==
  run.authority = "sim" =>
    \A c \in Seats(run) \cap members :
      run.life[c] = "alive" <=> run.snake[c] = "alive"

-----------------------------------------------------------------------------
(* Safety of a race                                                        *)

(***************************************************************************)
(* An expired race stays open only for a player whose run may be going on: *)
(* the pulse, disconnect, kick or demotion that settles the last such run  *)
(* closes the match (maybe_end_race_grace and its callers).                *)
(***************************************************************************)
GraceStaysOpenForRuns ==
  mode = "race" /\ active /\ race.expired =>
    race.finish /\ \E p \in players : race.life[p] # "dead"

(***************************************************************************)
(* With the option to finish ongoing runs, only the admin ends a race      *)
(* while a remaining player is alive in a run; the deadline and the        *)
(* departure of others do not (tick, leave, cmd_set_role).  Ending by the  *)
(* admin is what leaves allow_new_runs set after the deadline.             *)
(***************************************************************************)
OngoingRunsFinish ==
  [][mode = "race" /\ active /\ race.finish /\ ~active'
       /\ ~race'.allowNew =>
     \A p \in players' : race'.life[p] = "dead"]_vars
=============================================================================
