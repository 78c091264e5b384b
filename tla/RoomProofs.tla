------------------------------ MODULE RoomProofs ------------------------------
(***************************************************************************)
(* What holds of every room, for any number of clients, colors and seats   *)
(* and whatever the bounds of the counters.                                *)
(***************************************************************************)
EXTENDS Room, CoopRunProofs

-----------------------------------------------------------------------------
(* Type correctness                                                        *)

LEMMA LeastOfIn ==
  ASSUME NEW S \in SUBSET Colors, S # {}
  PROVE  LeastOf(S) \in S
<1>1. \E m \in S : \A n \in S : m <= n
  BY LeastNatural, RoomAssumption
<1> QED BY <1>1 DEF LeastOf

LEMMA RecolorTyped ==
  ASSUME TypeOK, NEW c \in Clients, NEW taken, NEW id
  PROVE  /\ Recolor(c, taken, FirstFree(taken)) \in Colors \cup {NoColor}
         /\ Recolor(c, taken, NextFree(id, taken)) \in Colors \cup {NoColor}
<1>1. CASE Colors \subseteq taken
  BY <1>1 DEF TypeOK, Recolor
<1>2. CASE ~(Colors \subseteq taken)
  <2> DEFINE free  == Colors \ taken
             after == {k \in free : k > id}
  <2>1. LeastOf(free) \in Colors
    BY <1>2, LeastOfIn
  <2>2. after # {} => LeastOf(after) \in Colors
    BY LeastOfIn
  <2>3. FirstFree(taken) \in Colors /\ NextFree(id, taken) \in Colors
    BY <2>1, <2>2 DEF FirstFree, NextFree
  <2> QED BY <2>3 DEF TypeOK, Recolor
<1> QED BY <1>1, <1>2

LEMMA PickOwnerTyped ==
  ASSUME TypeOK, NEW S \in SUBSET Clients
  PROVE  PickOwner(S) \in Clients \cup {NoClient}
BY FirstByTyped DEF TypeOK, PickOwner

LEMMA SettleRaceTyped ==
  ASSUME NEW rc \in Races, NEW S, NEW open \in BOOLEAN, SettleRace(rc, S, open)
  PROVE  race' \in Races
BY DEF SettleRace, Races

LEMMA LeaveFromTyped ==
  ASSUME TypeOK, NEW c \in Clients, NEW r \in Runs, LeaveFrom(c, r)
  PROVE  TypeOK'
<1> DEFINE rest == members \ {c}
           r1   == LeaveSeat(r, c, members, PickOwner(players \ {c}))
           rc   == [race EXCEPT !.life[c] = "none"]
           open == mode = "race" /\ active
<1>1. r1 \in Runs
  BY LeaveSeatTyped, PickOwnerTyped DEF TypeOK
<1>2. rc \in Races
  BY DEF TypeOK, Races, Life
<1>3. race' \in Races
  BY <1>2, SettleRaceTyped DEF LeaveFrom
<1>4. run' \in Runs
  BY <1>1, NoRunTyped DEF LeaveFrom
<1>5. admin' \in Clients \cup {NoClient}
  <2>1. NextAdmin(rest) \in Clients \cup {NoClient}
    BY FirstByTyped DEF NextAdmin, TypeOK
  <2> QED BY <2>1 DEF LeaveFrom, TypeOK
<1>6. active' \in BOOLEAN
  BY DEF LeaveFrom
<1>7. /\ members' \subseteq Clients /\ players' \subseteq Clients
      /\ ready' \subseteq Clients
  BY DEF LeaveFrom, TypeOK
<1>8. /\ promoteOrder' \in [Clients -> Nat]
      /\ color' \in [Clients -> Colors \cup {NoColor}]
      /\ focus' \in [Clients -> Clients \cup {NoClient}]
  BY DEF LeaveFrom, TypeOK
<1> QED
  BY <1>3, <1>4, <1>5, <1>6, <1>7, <1>8 DEF LeaveFrom, TypeOK

LEMMA SetRunTyped ==
  ASSUME TypeOK, NEW r \in Runs, SetRun(r)
  PROVE  TypeOK'
<1>1. active' \in BOOLEAN
  BY DEF SetRun, InRun
<1>2. ready' \subseteq Clients
  BY DEF SetRun, TypeOK
<1> QED BY <1>1, <1>2 DEF SetRun, TypeOK

(***************************************************************************)
(* Every handler keeps the types of the room's fields.                     *)
(***************************************************************************)
LEMMA TypeStep ==
  ASSUME TypeOK, [Next]_vars
  PROVE  TypeOK'
<1> USE DEF TypeOK
<1>1. ASSUME NEW c \in Clients, Join(c) PROVE TypeOK'
  BY <1>1 DEF Join
<1>2. ASSUME NEW c \in Clients, Rejoin(c) PROVE TypeOK'
  BY <1>2 DEF Rejoin
<1>3. ASSUME NEW c \in Clients, Leave(c) PROVE TypeOK'
  BY <1>3, LeaveFromTyped DEF Leave
<1>4. ASSUME NEW c \in Clients, Kick(c) PROVE TypeOK'
  BY <1>4, LeaveFromTyped, KillSeatTyped DEF Kick
<1>5. ASSUME NEW c \in Clients, AdminTransfer(c) PROVE TypeOK'
  BY <1>5 DEF AdminTransfer
<1>6. ASSUME NEW c \in Clients, Promote(c) PROVE TypeOK'
  <2> DEFINE open == mode = "race" /\ active
  <2>1. race' \in Races
    BY <1>6, SettleRaceTyped DEF Promote
  <2>2. color' \in [Clients -> Colors \cup {NoColor}]
    BY <1>6, RecolorTyped DEF Promote
  <2>3. active' \in BOOLEAN
    BY <1>6 DEF Promote
  <2>4. /\ promoteSeq' \in Nat /\ promoteOrder' \in [Clients -> Nat]
        /\ players' \subseteq Clients /\ ready' \subseteq Clients
    BY <1>6 DEF Promote
  <2> QED BY <1>6, <2>1, <2>2, <2>3, <2>4 DEF Promote
<1>7. ASSUME NEW c \in Clients, Demote(c) PROVE TypeOK'
  <2>1. race' \in Races
    BY <1>7, SettleRaceTyped DEF Demote
  <2>2. run' \in Runs
    BY <1>7, KillSeatTyped DEF Demote
  <2>3. active' \in BOOLEAN
    BY <1>7 DEF Demote
  <2>4. /\ promoteOrder' \in [Clients -> Nat]
        /\ players' \subseteq Clients /\ ready' \subseteq Clients
        /\ focus' \in [Clients -> Clients \cup {NoClient}]
    BY <1>7 DEF Demote
  <2> QED BY <1>7, <2>1, <2>2, <2>3, <2>4 DEF Demote
<1>8. ASSUME NEW c \in Clients, Ready(c) PROVE TypeOK'
  <2>1. color' \in [Clients -> Colors \cup {NoColor}]
    BY <1>8, RecolorTyped DEF Ready
  <2> QED BY <1>8, <2>1 DEF Ready
<1>9. ASSUME NEW c \in Clients, Unready(c) PROVE TypeOK'
  BY <1>9 DEF Unready
<1>10. ASSUME NEW c \in Clients, NEW k \in Colors, ColorClaim(c, k) PROVE TypeOK'
  BY <1>10 DEF ColorClaim
<1>11. ASSUME NEW c \in Clients, NEW t \in FocusTargets \cup {NoClient},
              SpectateFocus(c, t)
       PROVE  TypeOK'
  BY <1>11, RoomAssumption DEF SpectateFocus
<1>12. ASSUME NEW m \in Modes, ModeChange(m) PROVE TypeOK'
  <2>1. race' \in Races
    BY <1>12 DEF ModeChange, Races, NoScores, Life
  <2>2. color' \in [Clients -> Colors \cup {NoColor}]
    BY <1>12 DEF ModeChange, Rematched
  <2>3. players' \subseteq Clients /\ promoteOrder' \in [Clients -> Nat]
    BY <1>12 DEF ModeChange, Kept
  <2>4. mode' \in {"race", "coop"}
    BY <1>12, RoomAssumption DEF ModeChange
  <2> QED BY <1>12, <2>1, <2>2, <2>3, <2>4, NoRunTyped DEF ModeChange
<1>13. CASE SessionEnd
  <2>1. race' \in Races
    BY <1>13 DEF SessionEnd, Races
  <2> QED BY <1>13, <2>1, NoRunTyped DEF SessionEnd
<1>14. ASSUME NEW finish \in FinishFlags, StartRace(finish) PROVE TypeOK'
  <2>1. race' \in Races
    BY <1>14, RoomAssumption DEF StartRace, Races, NoScores, Life
  <2> QED BY <1>14, <2>1, NoRunTyped DEF StartRace, lobby
<1>15. CASE StartCoop
  <2>1. race' \in Races
    BY <1>15 DEF StartCoop, Races, NoScores, Life
  <2>2. run' \in Runs
    BY <1>15, NewRunTyped DEF StartCoop
  <2> QED BY <1>15, <2>1, <2>2 DEF StartCoop, lobby
<1>16. ASSUME NEW c \in Clients, NEW life \in {"alive", "dead"},
              ScorePulse(c, life)
       PROVE  TypeOK'
  <2>1. [race EXCEPT !.life[c] = life] \in Races
    BY DEF Races, Life
  <2>2. race' \in Races
    BY <1>16, <2>1, SettleRaceTyped DEF ScorePulse
  <2>3. active' \in BOOLEAN
    BY <1>16 DEF ScorePulse, GraceOver
  <2> QED BY <1>16, <2>2, <2>3 DEF ScorePulse, lobby
<1>17. CASE Expire
  <2> DEFINE rc == [race EXCEPT !.expired = TRUE, !.allowNew = FALSE]
  <2>1. rc \in Races
    BY DEF Races
  <2>2. race' \in Races
    <3>1. CASE race.finish
      BY <1>17, <2>1, <3>1, SettleRaceTyped DEF Expire
    <3>2. CASE ~race.finish
      BY <1>17, <3>2 DEF Expire, Races
    <3> QED BY <3>1, <3>2
  <2>3. active' \in BOOLEAN
    BY <1>17 DEF Expire, GraceOver
  <2> QED BY <1>17, <2>2, <2>3 DEF Expire, lobby
<1>18. CASE NativeNext
  <2>1. ASSUME NEW c \in Clients, NEW seated \in BOOLEAN, NEW moved \in BOOLEAN,
               SnakeDelta(c, seated, moved)
        PROVE  TypeOK'
    <3>1. [run EXCEPT !.seated = IF seated THEN @ \cup {c} ELSE @,
                      !.timer = @ \/ moved] \in Runs
      BY DEF Runs
    <3> QED BY <2>1, <3>1, SetRunTyped DEF SnakeDelta
  <2>2. ASSUME NEW c \in Clients, CommitBoard(c) PROVE TypeOK'
    <3>1. [run EXCEPT !.boardReady = TRUE, !.revision = 1] \in Runs
      BY DEF Runs
    <3> QED BY <2>2, <3>1, SetRunTyped DEF CommitBoard
  <2>3. ASSUME NEW c \in Clients, Goal(c) PROVE TypeOK'
    BY <2>3, NoRunTyped, SetRunTyped DEF Goal
  <2>4. ASSUME NEW c \in Clients, NEW base, UpdateBoard(c, base) PROVE TypeOK'
    <3>1. [run EXCEPT !.revision = @ + 1] \in Runs
      BY DEF Runs
    <3> QED BY <2>4, <3>1, SetRunTyped DEF UpdateBoard
  <2>5. ASSUME NEW c \in Clients, NEW bodyOk, PlayerDead(c, bodyOk)
        PROVE  TypeOK'
    <3> DEFINE r == [run EXCEPT !.seated = @ \cup {c}]
    <3>1. r \in Runs
      BY DEF Runs
    <3>2. MarkNativeDead(r, c, members) \in Runs
      BY <3>1, MarkNativeDeadTyped
    <3> QED BY <2>5, <3>1, <3>2, SetRunTyped DEF PlayerDead
  <2>6. ASSUME NEW c \in Clients, NEW s \in Sources, SpeedTransition(c, s)
        PROVE  TypeOK'
    <3>1. run.sources \cup {s} \in SUBSET Sources /\ run.epoch + 1 \in Nat
      BY DEF Runs
    <3>2. [run EXCEPT !.sources = @ \cup {s}, !.epoch = @ + 1] \in Runs
      BY <3>1 DEF Runs
    <3> QED BY <2>6, <3>2, SetRunTyped DEF SpeedTransition
  <2> QED BY <1>18, <2>1, <2>2, <2>3, <2>4, <2>5, <2>6 DEF NativeNext
<1>19. ASSUME NEW c \in Clients, Input(c) PROVE TypeOK'
  <2>1. [run EXCEPT !.timer = TRUE,
                    !.started = IF run.snake[c] = "alive" THEN @ \cup {c}
                                ELSE @] \in Runs
    BY DEF Runs
  <2> QED BY <1>19, <2>1, SetRunTyped DEF Input
<1>20. ASSUME NEW dying \in SUBSET Clients, NEW cleared \in BOOLEAN,
              SimStep(dying, cleared)
       PROVE  TypeOK'
  <2> DEFINE snake == [c \in Clients |-> IF c \in dying THEN "dead"
                                         ELSE run.snake[c]]
             life  == [c \in Clients |-> IF snake[c] = "none" THEN run.life[c]
                                         ELSE snake[c]]
  <2>1. snake \in [Clients -> Life] /\ life \in [Clients -> Life]
    BY DEF Runs, Life
  <2>2. [run EXCEPT !.snake = snake, !.life = life] \in Runs
    <3> HIDE DEF snake, life
    <3> QED BY <2>1 DEF Runs
  <2>3. SetRun(NoRun) \/ SetRun([run EXCEPT !.snake = snake, !.life = life])
    BY <1>20 DEF SimStep
  <2> QED BY <2>2, <2>3, NoRunTyped, SetRunTyped
<1>21. CASE UNCHANGED vars
  BY <1>21 DEF vars, lobby
<1>22. LobbyNext => TypeOK'
  BY <1>1, <1>2, <1>3, <1>4, <1>5, <1>6, <1>7, <1>8, <1>9, <1>10, <1>11
  DEF LobbyNext
<1>23. SessionNext \/ RaceNext \/ SimNext => TypeOK'
  BY <1>12, <1>13, <1>14, <1>15, <1>16, <1>17, <1>19, <1>20
  DEF SessionNext, RaceNext, SimNext
<1> QED BY <1>18, <1>21, <1>22, <1>23 DEF Next

(***************************************************************************)
(* The fields of a room always have their types: in particular admin,      *)
(* owner and initializer are ids or missing, whatever leaves the room.     *)
(***************************************************************************)
THEOREM TypeCorrect == Spec => []TypeOK
<1>1. Init => TypeOK
  <2> SUFFICES ASSUME Init PROVE TypeOK
    OBVIOUS
  <2>1. race \in Races
    BY DEF Init, Races, NoScores, Life
  <2>2. nativeRelay \in BOOLEAN
    BY RoomAssumption DEF Init
  <2>3. run \in Runs
    BY NoRunTyped DEF Init
  <2> QED BY <2>1, <2>2, <2>3 DEF Init, TypeOK
<1>2. TypeOK /\ [Next]_vars => TypeOK'
  BY TypeStep
<1> QED BY <1>1, <1>2, PTL DEF Spec

-----------------------------------------------------------------------------
(* The room and its session                                                *)

(* The handlers of a run replace it by another one, or end it.             *)
LEMMA RunHandlers ==
  ASSUME NativeNext \/ SimNext
  PROVE  InRun(run) /\ \E r : SetRun(r)
<1>1. CASE NativeNext
  <2>1. run.authority = "native"
    BY <1>1 DEF NativeNext, SnakeDelta, CommitBoard, Goal, UpdateBoard,
                PlayerDead, SpeedTransition, NativeSender
  <2>2. \E r : SetRun(r)
    BY <1>1 DEF NativeNext, SnakeDelta, CommitBoard, Goal, UpdateBoard,
                PlayerDead, SpeedTransition
  <2> QED BY <2>1, <2>2 DEF InRun
<1>2. CASE SimNext
  <2>1. run.authority = "sim"
    BY <1>2 DEF SimNext, Input, SimStep
  <2>2. \E r : SetRun(r)
    BY <1>2 DEF SimNext, Input, SimStep
  <2> QED BY <2>1, <2>2 DEF InRun
<1> QED BY <1>1, <1>2

(***************************************************************************)
(* AdminIsMember, EmptyRoomIsIdle and RunMatchesSession are inductive      *)
(* together once the players are known to be members: a session starts     *)
(* with ready players only, hence never in an empty room.                  *)
(***************************************************************************)
LobbyInv ==
  /\ players \subseteq members
  /\ AdminIsMember
  /\ EmptyRoomIsIdle
  /\ RunMatchesSession

LEMMA LeaveFromLobby ==
  ASSUME TypeOK, LobbyInv, NEW c \in members, NEW r \in Runs,
         InRun(r) => InRun(run), LeaveFrom(c, r)
  PROVE  LobbyInv'
<1> DEFINE rest == members \ {c}
           r1   == LeaveSeat(r, c, members, PickOwner(players \ {c}))
           rc   == [race EXCEPT !.life[c] = "none"]
<1> USE DEF LobbyInv
<1>1. (players \subseteq members)'
  BY DEF LeaveFrom
<1>2. AdminIsMember'
  <2>1. rest # {} => NextAdmin(rest) \in rest
    BY FirstByIn DEF NextAdmin, TypeOK
  <2>2. rest = {} => NextAdmin(rest) = NoClient
    BY DEF NextAdmin, FirstBy
  <2> QED BY <2>1, <2>2 DEF LeaveFrom, AdminIsMember
<1>3. EmptyRoomIsIdle'
  <2>1. CASE members = {c}
    BY <2>1 DEF LeaveFrom, Emptied, EmptyRoomIsIdle
  <2>2. CASE members # {c}
    BY <2>2 DEF LeaveFrom, EmptyRoomIsIdle
  <2> QED BY <2>1, <2>2
<1>4. RunMatchesSession'
  <2>1. c \in Clients
    BY DEF TypeOK
  <2>2. InRun(r1) => InRun(run)
    BY <2>1, LeaveSeatAdvances DEF Advances, InRun
  <2>3. ~InRun(NoRun)
    BY DEF InRun, NoRun
  <2> DEFINE coopEnded == InRun(run) /\ ~InRun(r1)
             graceOver == (mode = "race" /\ active)
                            /\ GraceOver(rc, players \ {c})
             emptied   == Emptied(c) /\ active /\ ~coopEnded /\ ~graceOver
  <2>4. /\ run' = IF emptied THEN NoRun ELSE r1
        /\ active' = (active /\ ~coopEnded /\ ~graceOver /\ ~emptied)
        /\ mode' = mode
    BY DEF LeaveFrom
  <2>5. mode = "race" => ~InRun(run)
    BY DEF RunMatchesSession
  <2> HIDE DEF r1
  <2> QED BY <2>2, <2>3, <2>4, <2>5 DEF RunMatchesSession
<1> QED BY <1>1, <1>2, <1>3, <1>4

LEMMA LobbyStep ==
  ASSUME TypeOK, LobbyInv, [Next]_vars
  PROVE  LobbyInv'
<1> USE DEF LobbyInv
<1>0. ~InRun(NoRun)
  BY DEF InRun, NoRun
<1>1. ASSUME NEW c \in Clients, Join(c) PROVE LobbyInv'
  BY <1>1 DEF Join, AdminIsMember, EmptyRoomIsIdle, RunMatchesSession
<1>2. ASSUME NEW c \in Clients, Rejoin(c) PROVE LobbyInv'
  BY <1>2 DEF Rejoin, AdminIsMember, EmptyRoomIsIdle, RunMatchesSession
<1>3. ASSUME NEW c \in Clients, Leave(c) PROVE LobbyInv'
  BY <1>3, LeaveFromLobby DEF Leave, TypeOK
<1>4. ASSUME NEW c \in Clients, Kick(c) PROVE LobbyInv'
  <2> DEFINE r == KillSeat(run, c, members)
  <2>1. r \in Runs /\ (InRun(r) => InRun(run))
    BY KillSeatTyped, KillSeatAdvances DEF TypeOK, Advances, InRun
  <2>2. c \in members /\ LeaveFrom(c, r)
    BY <1>4 DEF Kick
  <2> HIDE DEF r, LobbyInv
  <2> QED BY <2>1, <2>2, LeaveFromLobby
<1>5. ASSUME NEW c \in Clients, AdminTransfer(c) PROVE LobbyInv'
  BY <1>5 DEF AdminTransfer, AdminIsMember, EmptyRoomIsIdle, RunMatchesSession
<1>6. ASSUME NEW c \in Clients, Promote(c) PROVE LobbyInv'
  <2>1. (players \subseteq members)' /\ AdminIsMember' /\ EmptyRoomIsIdle'
    BY <1>6 DEF Promote, AdminIsMember, EmptyRoomIsIdle
  <2>2. /\ run' = run /\ mode' = mode
        /\ active' => active
        /\ mode # "race" /\ active => active'
    BY <1>6 DEF Promote
  <2>3. RunMatchesSession'
    BY <2>2 DEF RunMatchesSession
  <2> QED BY <2>1, <2>3
<1>7. ASSUME NEW c \in Clients, Demote(c) PROVE LobbyInv'
  <2>1. (players \subseteq members)' /\ AdminIsMember' /\ EmptyRoomIsIdle'
    BY <1>7 DEF Demote, AdminIsMember, EmptyRoomIsIdle
  <2>2. InRun(KillSeat(run, c, members)) => InRun(run)
    BY KillSeatAdvances DEF TypeOK, Advances, InRun
  <2>3. /\ run' = KillSeat(run, c, members) /\ mode' = mode
        /\ active' => active /\ ~(InRun(run) /\ ~InRun(run'))
        /\ mode # "race" /\ active /\ InRun(run') => active'
    BY <1>7 DEF Demote
  <2>4. RunMatchesSession'
    BY <2>2, <2>3 DEF RunMatchesSession
  <2> QED BY <2>1, <2>4
<1>8. ASSUME NEW c \in Clients, Ready(c) \/ Unready(c) PROVE LobbyInv'
  BY <1>8 DEF Ready, Unready, AdminIsMember, EmptyRoomIsIdle, RunMatchesSession
<1>9. ASSUME NEW c \in Clients,
             \/ \E k \in Colors : ColorClaim(c, k)
             \/ \E t \in FocusTargets \cup {NoClient} : SpectateFocus(c, t)
      PROVE  LobbyInv'
  BY <1>9 DEF ColorClaim, SpectateFocus, AdminIsMember, EmptyRoomIsIdle,
              RunMatchesSession
<1>10. ASSUME NEW m \in Modes, ModeChange(m) PROVE LobbyInv'
  BY <1>0, <1>10 DEF ModeChange, Kept, AdminIsMember, EmptyRoomIsIdle,
                     RunMatchesSession
<1>11. CASE SessionEnd
  BY <1>0, <1>11 DEF SessionEnd, AdminIsMember, EmptyRoomIsIdle,
                     RunMatchesSession
<1>12. ASSUME NEW finish \in FinishFlags, StartRace(finish) PROVE LobbyInv'
  BY <1>0, <1>12 DEF StartRace, lobby, AllPlayersReady, AdminIsMember,
                     EmptyRoomIsIdle, RunMatchesSession
<1>13. CASE StartCoop
  <2>1. InRun(run')
    BY <1>13 DEF StartCoop, NewRun, NoRun, InRun
  <2> QED BY <1>13, <2>1 DEF StartCoop, lobby, AllPlayersReady, AdminIsMember,
                             EmptyRoomIsIdle, RunMatchesSession
<1>14. CASE RaceNext
  <2>1. mode = "race" /\ (active' => active) /\ UNCHANGED <<lobby, mode, run>>
    BY <1>14 DEF RaceNext, ScorePulse, Expire
  <2> QED BY <2>1 DEF lobby, AdminIsMember, EmptyRoomIsIdle, RunMatchesSession
<1>15. CASE NativeNext \/ SimNext
  <2>1. InRun(run) /\ \E r : SetRun(r)
    BY <1>15, RunHandlers
  <2> QED BY <2>1 DEF SetRun, AdminIsMember, EmptyRoomIsIdle, RunMatchesSession
<1>16. CASE UNCHANGED vars
  BY <1>16 DEF vars, lobby, AdminIsMember, EmptyRoomIsIdle, RunMatchesSession
<1>17. LobbyNext => LobbyInv'
  BY <1>1, <1>2, <1>3, <1>4, <1>5, <1>6, <1>7, <1>8, <1>9 DEF LobbyNext
<1>18. SessionNext => LobbyInv'
  BY <1>10, <1>11, <1>12, <1>13 DEF SessionNext
<1> QED BY <1>14, <1>15, <1>16, <1>17, <1>18 DEF Next

LEMMA LobbyAlways == Spec => [](TypeOK /\ LobbyInv)
<1>1. Init => LobbyInv
  BY DEF Init, LobbyInv, AdminIsMember, EmptyRoomIsIdle, RunMatchesSession,
         InRun, NoRun
<1>2. TypeOK /\ LobbyInv /\ [Next]_vars => LobbyInv'
  BY LobbyStep
<1> QED BY <1>1, <1>2, TypeCorrect, PTL DEF Spec

(***************************************************************************)
(* A room with clients always has one of them as its admin (join, leave,   *)
(* next_admin, cmd_kick, cmd_admin_transfer).                              *)
(***************************************************************************)
THEOREM AdminSafe == Spec => []AdminIsMember
<1>1. LobbyInv => AdminIsMember
  BY DEF LobbyInv
<1> QED BY <1>1, LobbyAlways, PTL

(***************************************************************************)
(* A room without clients is never in a session, so that gc_empty_rooms    *)
(* collects it (leave, cmd_session_start).                                 *)
(***************************************************************************)
THEOREM EmptyRoomSafe == Spec => []EmptyRoomIsIdle
<1>1. LobbyInv => EmptyRoomIsIdle
  BY DEF LobbyInv
<1> QED BY <1>1, LobbyAlways, PTL

(***************************************************************************)
(* session_active, the mode and the state of the run never disagree        *)
(* (clear_coop_run_state and every path to it).                            *)
(***************************************************************************)
THEOREM RunSessionSafe == Spec => []RunMatchesSession
<1>1. LobbyInv => RunMatchesSession
  BY DEF LobbyInv
<1> QED BY <1>1, LobbyAlways, PTL

-----------------------------------------------------------------------------
(* The run and the clients of the room                                     *)

(* promote_order tells the players apart, so that a run has a first seat.  *)
OrdersDistinct ==
  /\ \A p \in players : promoteOrder[p] <= promoteSeq
  /\ \A p, q \in players : promoteOrder[p] = promoteOrder[q] => p = q

(***************************************************************************)
(* A run r that can go on in a room with the clients M and the players P;  *)
(* a repeated HELLO turns a player with a living seat into a spectator.    *)
(***************************************************************************)
RunSafe(r, M, P) ==
  /\ NativeSafe(r, M)
  /\ SimSafe(r)
  /\ ~RepeatHello /\ InRun(r) => LiveSeats(r) \subseteq P

RunInv == OrdersDistinct /\ RunSafe(run, members, players)

LEMMA OrderStep ==
  ASSUME TypeOK, OrdersDistinct, [Next]_vars
  PROVE  OrdersDistinct'
<1> USE DEF TypeOK, OrdersDistinct
<1>1. ASSUME NEW c \in Clients, Rejoin(c) PROVE OrdersDistinct'
  BY <1>1 DEF Rejoin
<1>2. ASSUME NEW c \in Clients, Leave(c) \/ Kick(c) PROVE OrdersDistinct'
  BY <1>2 DEF Leave, Kick, LeaveFrom
<1>3. ASSUME NEW c \in Clients, Promote(c) PROVE OrdersDistinct'
  BY <1>3 DEF Promote
<1>4. ASSUME NEW c \in Clients, Demote(c) PROVE OrdersDistinct'
  BY <1>4 DEF Demote
<1>5. ASSUME NEW m \in Modes, ModeChange(m) PROVE OrdersDistinct'
  <2>1. /\ players' \subseteq players /\ promoteSeq' = promoteSeq
        /\ \A p \in players' : promoteOrder'[p] = promoteOrder[p]
    BY <1>5 DEF ModeChange, Kept
  <2> QED BY <2>1
<1>6. ASSUME UNCHANGED <<players, promoteSeq, promoteOrder>>
      PROVE  OrdersDistinct'
  BY <1>6
<1>7. NativeNext \/ SimNext => UNCHANGED <<players, promoteSeq, promoteOrder>>
  BY RunHandlers DEF SetRun
<1>8. RaceNext \/ UNCHANGED vars
        => UNCHANGED <<players, promoteSeq, promoteOrder>>
  BY DEF RaceNext, ScorePulse, Expire, vars, lobby
<1>9. SessionNext => OrdersDistinct'
  BY <1>5, <1>6 DEF SessionNext, SessionEnd, StartRace, StartCoop, lobby
<1>10. LobbyNext => OrdersDistinct'
  <2>1. ASSUME NEW c \in Clients,
               \/ Join(c) \/ AdminTransfer(c) \/ Ready(c) \/ Unready(c)
               \/ \E k \in Colors : ColorClaim(c, k)
               \/ \E t \in FocusTargets \cup {NoClient} : SpectateFocus(c, t)
        PROVE  UNCHANGED <<players, promoteSeq, promoteOrder>>
    BY <2>1 DEF Join, AdminTransfer, Ready, Unready, ColorClaim, SpectateFocus
  <2> HIDE DEF OrdersDistinct
  <2> QED BY <1>1, <1>2, <1>3, <1>4, <1>6, <2>1 DEF LobbyNext
<1> HIDE DEF OrdersDistinct
<1> QED BY <1>6, <1>7, <1>8, <1>9, <1>10 DEF Next

LEMMA RunSafeMore ==
  ASSUME NEW r, NEW M, NEW N, NEW P, NEW Q, M \subseteq N, P \subseteq Q,
         RunSafe(r, M, P)
  PROVE  RunSafe(r, N, Q)
BY NativeSafeMore DEF RunSafe

(* Nothing that RunSafe speaks of depends on the other fields of a run.    *)
LEMMA RunSafeSame ==
  ASSUME NEW r, NEW s, NEW M, NEW P, RunSafe(r, M, P),
         s.authority = r.authority, s.slot = r.slot, s.life = r.life,
         s.snake = r.snake, s.initializer = r.initializer,
         r.boardReady => s.boardReady
  PROVE  RunSafe(s, M, P)
<1>1. Seats(s) = Seats(r) /\ LiveSeats(s) = LiveSeats(r)
  BY DEF Seats, LiveSeats
<1> QED BY <1>1 DEF RunSafe, NativeSafe, SimSafe, InRun

LEMMA NoRunIsSafe == \A M, P : RunSafe(NoRun, M, P)
BY NoRunSafe DEF RunSafe, InRun, NoRun

LEMMA KillSeatRunSafe ==
  ASSUME NEW r \in Runs, NEW c \in Clients, NEW M \in SUBSET Clients, NEW P,
         RunSafe(r, M, P)
  PROVE  RunSafe(KillSeat(r, c, M), M, P \ {c})
<1> DEFINE s == KillSeat(r, c, M)
<1>1. NativeSafe(s, M)
  BY KillSeatSafe, NativeSafeMore DEF RunSafe
<1>2. SimSafe(s) /\ (InRun(r) => c \notin LiveSeats(s))
  BY KillSeatDeparted DEF RunSafe, Departed
<1>3. InRun(s) => InRun(r) /\ LiveSeats(s) \subseteq LiveSeats(r)
  BY KillSeatAdvances DEF Advances, InRun, LiveSeats, Seats
<1> HIDE DEF s
<1> QED BY <1>1, <1>2, <1>3 DEF RunSafe, s

LEMMA LeaveSeatRunSafe ==
  ASSUME NEW r \in Runs, NEW c \in Clients, NEW M \in SUBSET Clients, NEW P,
         NEW heir, RunSafe(r, M, P)
  PROVE  RunSafe(LeaveSeat(r, c, M, heir), M \ {c}, P \ {c})
<1> DEFINE s == LeaveSeat(r, c, M, heir)
<1>1. NativeSafe(s, M \ {c})
  BY LeaveSeatSafe DEF RunSafe
<1>2. SimSafe(s) /\ c \notin LiveSeats(s)
  BY LeaveSeatDeparted DEF RunSafe, Departed
<1>3. InRun(s) => InRun(r) /\ LiveSeats(s) \subseteq LiveSeats(r)
  BY LeaveSeatAdvances DEF Advances, InRun, LiveSeats, Seats
<1> HIDE DEF s
<1> QED BY <1>1, <1>2, <1>3 DEF RunSafe, s

LEMMA LeaveFromRunSafe ==
  ASSUME TypeOK, NEW c \in Clients, NEW r \in Runs,
         RunSafe(r, members, players), LeaveFrom(c, r)
  PROVE  RunSafe(run', members', players')
<1> DEFINE r1 == LeaveSeat(r, c, members, PickOwner(players \ {c}))
<1>1. RunSafe(r1, members \ {c}, players \ {c})
  BY LeaveSeatRunSafe DEF TypeOK
<1>2. run' \in {NoRun, r1}
      /\ members' = members \ {c} /\ players' = players \ {c}
  BY DEF LeaveFrom
<1> HIDE DEF r1
<1> QED BY <1>1, <1>2, NoRunIsSafe

(* Every handler leaves a run that can go on, or none.                     *)
LEMMA RunStep ==
  ASSUME TypeOK, LobbyInv, RunInv, [Next]_vars
  PROVE  RunSafe(run', members', players')
<1> DEFINE Safe == RunSafe(run', members', players')
<1> HIDE DEF Safe
<1>0. run \in Runs /\ RunSafe(run, members, players)
      /\ members \in SUBSET Clients /\ players \in SUBSET members
  BY DEF TypeOK, RunInv, LobbyInv
<1>1. ASSUME NEW c \in Clients, Join(c) PROVE Safe
  BY <1>0, <1>1, RunSafeMore DEF Join, Safe
<1>2. ASSUME NEW c \in Clients, Rejoin(c) PROVE Safe
  BY <1>0, <1>2 DEF Rejoin, RunSafe, Safe
<1>3. ASSUME NEW c \in Clients, Leave(c) PROVE Safe
  BY <1>0, <1>3, LeaveFromRunSafe DEF Leave, Safe
<1>4. ASSUME NEW c \in Clients, Kick(c) PROVE Safe
  <2> DEFINE r == KillSeat(run, c, members)
  <2>1. r \in Runs /\ RunSafe(r, members, players \ {c})
    BY <1>0, KillSeatTyped, KillSeatRunSafe
  <2>2. LeaveFrom(c, r)
    BY <1>4 DEF Kick
  <2> HIDE DEF r
  <2>3. RunSafe(r, members, players)
    BY <2>1, RunSafeMore
  <2> QED BY <2>1, <2>2, <2>3, LeaveFromRunSafe DEF Safe
<1>5. ASSUME NEW c \in Clients, Promote(c) PROVE Safe
  BY <1>0, <1>5, RunSafeMore DEF Promote, Safe
<1>6. ASSUME NEW c \in Clients, Demote(c) PROVE Safe
  BY <1>0, <1>6, KillSeatRunSafe DEF Demote, Safe
<1>7. ASSUME UNCHANGED <<run, members, players>> PROVE Safe
  BY <1>0, <1>7 DEF Safe
<1>8. ASSUME run' = NoRun PROVE Safe
  BY <1>8, NoRunIsSafe DEF Safe
<1>9. ASSUME StartCoop PROVE Safe
  <2>1. players # {} /\ players' = players /\ members' = members
        /\ run' = NewRun(players, promoteOrder, nativeRelay, admin)
    BY <1>9 DEF StartCoop, lobby, AllPlayersReady
  <2> DEFINE r == NewRun(players, promoteOrder, nativeRelay, admin)
  <2>2. NativeSafe(r, players) /\ SimSafe(r)
    BY <1>0, <2>1, NewRunSafe DEF TypeOK, RunInv, OrdersDistinct
  <2>3. NativeSafe(r, members)
    BY <1>0, <2>2, NativeSafeMore
  <2>4. LiveSeats(r) \subseteq players
    BY DEF NewRun, NoRun, SlotOf, LiveSeats, Seats
  <2> HIDE DEF r
  <2> QED BY <2>1, <2>2, <2>3, <2>4 DEF RunSafe, r, Safe
<1>10. ASSUME NativeNext PROVE Safe
  <2>0. ASSUME NEW r, SetRun(r), RunSafe(r, members, players) PROVE Safe
    BY <2>0 DEF SetRun, Safe
  <2>1. ASSUME NEW c \in Clients, NEW seated \in BOOLEAN, NEW moved \in BOOLEAN,
               SnakeDelta(c, seated, moved)
        PROVE  Safe
    <3> DEFINE r == [run EXCEPT !.seated = IF seated THEN @ \cup {c} ELSE @,
                                !.timer = @ \/ moved]
    <3>1. RunSafe(r, members, players)
      BY <1>0, RunSafeSame DEF Runs
    <3>2. SetRun(r)
      BY <2>1 DEF SnakeDelta
    <3> HIDE DEF r
    <3> QED BY <2>0, <3>1, <3>2
  <2>2. ASSUME NEW c \in Clients, CommitBoard(c) PROVE Safe
    <3> DEFINE r == [run EXCEPT !.boardReady = TRUE, !.revision = 1]
    <3>1. RunSafe(r, members, players)
      BY <1>0, RunSafeSame DEF Runs
    <3>2. SetRun(r)
      BY <2>2 DEF CommitBoard
    <3> HIDE DEF r
    <3> QED BY <2>0, <3>1, <3>2
  <2>3. ASSUME NEW c \in Clients, Goal(c) PROVE Safe
    BY <2>0, <2>3, NoRunIsSafe DEF Goal
  <2>4. ASSUME NEW c \in Clients, NEW base, UpdateBoard(c, base) PROVE Safe
    <3> DEFINE r == [run EXCEPT !.revision = @ + 1]
    <3>1. RunSafe(r, members, players)
      BY <1>0, RunSafeSame DEF Runs
    <3>2. SetRun(r)
      BY <2>4 DEF UpdateBoard
    <3> HIDE DEF r
    <3> QED BY <2>0, <3>1, <3>2
  <2>5. ASSUME NEW c \in Clients, NEW bodyOk, PlayerDead(c, bodyOk)
        PROVE  Safe
    <3> DEFINE r == [run EXCEPT !.seated = @ \cup {c}]
    <3>1. RunSafe(r, members, players)
      BY <1>0, RunSafeSame DEF Runs
    <3>2. r \in Runs /\ r.authority = "native"
      BY <1>0, <2>5 DEF PlayerDead, NativeSender, Runs
    <3>3. SetRun(IF bodyOk THEN MarkNativeDead(r, c, members) ELSE r)
      BY <2>5 DEF PlayerDead
    <3> HIDE DEF r
    <3>4. KillSeat(r, c, members) = MarkNativeDead(r, c, members)
      BY <3>2 DEF KillSeat
    <3>5. RunSafe(MarkNativeDead(r, c, members), members, players \ {c})
      BY <1>0, <3>1, <3>2, <3>4, KillSeatRunSafe
    <3>6. RunSafe(MarkNativeDead(r, c, members), members, players)
      BY <3>5, RunSafeMore
    <3> QED BY <2>0, <3>1, <3>3, <3>6
  <2>6. ASSUME NEW c \in Clients, NEW s \in Sources, SpeedTransition(c, s)
        PROVE  Safe
    <3> DEFINE r == [run EXCEPT !.sources = @ \cup {s}, !.epoch = @ + 1]
    <3>1. RunSafe(r, members, players)
      BY <1>0, RunSafeSame DEF Runs
    <3>2. SetRun(r)
      BY <2>6 DEF SpeedTransition
    <3> HIDE DEF r
    <3> QED BY <2>0, <3>1, <3>2
  <2> QED BY <1>10, <2>1, <2>2, <2>3, <2>4, <2>5, <2>6 DEF NativeNext
<1>11. ASSUME NEW c \in Clients, Input(c) PROVE Safe
  <2> DEFINE r == [run EXCEPT !.timer = TRUE,
                     !.started = IF run.snake[c] = "alive" THEN @ \cup {c}
                                 ELSE @]
  <2>1. RunSafe(r, members, players)
    BY <1>0, RunSafeSame DEF Runs
  <2>2. SetRun(r)
    BY <1>11 DEF Input
  <2> HIDE DEF r
  <2> QED BY <2>1, <2>2 DEF SetRun, Safe
<1>12. ASSUME NEW dying \in SUBSET Clients, NEW cleared \in BOOLEAN,
              SimStep(dying, cleared)
       PROVE  Safe
  <2> DEFINE snake == [c \in Clients |-> IF c \in dying THEN "dead"
                                         ELSE run.snake[c]]
             life  == [c \in Clients |-> IF snake[c] = "none" THEN run.life[c]
                                         ELSE snake[c]]
             r == [run EXCEPT !.snake = snake, !.life = life]
  <2>1. SetRun(NoRun) \/ SetRun(r)
    BY <1>12 DEF SimStep
  <2>2. run.authority = "sim"
    BY <1>12 DEF SimStep
  <2>3. r.authority = "sim" /\ r.slot = run.slot /\ r.snake = snake
        /\ r.life = life
    <3> HIDE DEF snake, life
    <3> QED BY <1>0, <2>2 DEF Runs
  <2> HIDE DEF r
  <2>4. SimSafe(r) /\ LiveSeats(r) \subseteq LiveSeats(run)
    BY <1>0, <2>2, <2>3 DEF RunSafe, SimSafe, LiveSeats, Seats
  <2>5. RunSafe(r, members, players)
    BY <1>0, <2>2, <2>3, <2>4 DEF RunSafe, NativeSafe, InRun
  <2> QED BY <2>1, <2>5, NoRunIsSafe DEF SetRun, Safe
<1>13. LobbyNext => Safe
  <2>1. ASSUME NEW c \in Clients,
               \/ AdminTransfer(c) \/ Ready(c) \/ Unready(c)
               \/ \E k \in Colors : ColorClaim(c, k)
               \/ \E t \in FocusTargets \cup {NoClient} : SpectateFocus(c, t)
        PROVE  UNCHANGED <<run, members, players>>
    BY <2>1 DEF AdminTransfer, Ready, Unready, ColorClaim, SpectateFocus
  <2> QED BY <1>1, <1>2, <1>3, <1>4, <1>5, <1>6, <1>7, <2>1 DEF LobbyNext
<1>14. SessionNext => Safe
  <2>1. ASSUME \/ \E m \in Modes : ModeChange(m)
               \/ SessionEnd
               \/ \E finish \in FinishFlags : StartRace(finish)
        PROVE  run' = NoRun
    BY <2>1 DEF ModeChange, SessionEnd, StartRace
  <2> QED BY <1>8, <1>9, <2>1 DEF SessionNext
<1>15. RaceNext \/ UNCHANGED vars => Safe
  BY <1>7 DEF RaceNext, ScorePulse, Expire, vars, lobby
<1> QED
  BY <1>10, <1>11, <1>12, <1>13, <1>14, <1>15 DEF Next, SimNext, Safe

LEMMA RunAlways == Spec => [](TypeOK /\ LobbyInv /\ RunInv)
<1>1. Init => RunInv
  BY NoRunIsSafe DEF Init, RunInv, OrdersDistinct
<1>2. TypeOK /\ LobbyInv /\ RunInv /\ [Next]_vars => RunInv'
  BY OrderStep, RunStep DEF RunInv
<1> QED BY <1>1, <1>2, LobbyAlways, PTL DEF Spec

(***************************************************************************)
(* Until the board of a native run is committed, its initializer is a      *)
(* connected, living seat, whoever died, left, was kicked or demoted       *)
(* (mark_native_seat_dead, next_native_initializer).                       *)
(***************************************************************************)
THEOREM InitializerSafe == Spec => []InitializerCanAct
<1>1. RunInv => InitializerCanAct
  BY DEF RunInv, RunSafe, NativeSafe, InitializerCanAct, Native
<1> QED BY <1>1, RunAlways, PTL

(***************************************************************************)
(* A native run has a living seat, so that it ends with the last one       *)
(* (maybe_end_coop_all_dead).                                              *)
(***************************************************************************)
THEOREM LiveSeatSafe == Spec => []NativeRunHasLiveSeat
<1>1. RunInv => NativeRunHasLiveSeat
  BY DEF RunInv, RunSafe, NativeSafe, NativeRunHasLiveSeat, Native
<1> QED BY <1>1, RunAlways, PTL

(***************************************************************************)
(* The living seats of a native run are players, as long as nobody repeats *)
(* its HELLO (leave, cmd_kick, cmd_set_role).                              *)
(***************************************************************************)
THEOREM LiveSeatsSafe ==
  ASSUME ~RepeatHello
  PROVE  Spec => []LiveSeatsArePlayers
<1>1. RunInv => LiveSeatsArePlayers
  BY DEF RunInv, RunSafe, LiveSeatsArePlayers, Native, InRun
<1> QED BY <1>1, RunAlways, PTL

(***************************************************************************)
(* The same for the snakes that the server simulates (leave, cmd_kick,     *)
(* cmd_set_role, tick_coop_sim).                                           *)
(***************************************************************************)
THEOREM LiveSnakesSafe ==
  ASSUME ~RepeatHello
  PROVE  Spec => []LiveSnakesArePlayers
<1>1. RunInv => LiveSnakesArePlayers
  BY DEF RunInv, RunSafe, SimSafe, LiveSnakesArePlayers, InRun
<1> QED BY <1>1, RunAlways, PTL

(***************************************************************************)
(* The room and its simulation agree on who lives (leave,                  *)
(* mark_server_sim_seat_dead, tick_coop_sim).                              *)
(***************************************************************************)
THEOREM SimLifeSafe == Spec => []SimLifeAgrees
<1>1. RunInv => SimLifeAgrees
  BY DEF RunInv, RunSafe, SimSafe, SimLifeAgrees, LiveSeats, Seats
<1> QED BY <1>1, RunAlways, PTL

-----------------------------------------------------------------------------
(* The course of a run                                                     *)

LEMMA StillAdvances ==
  ASSUME TypeOK, run' = run, gen' = gen
  PROVE  RunAdvances
BY DEF RunAdvances, TypeOK, Runs

LEMMA EndAdvances ==
  ASSUME run' = NoRun
  PROVE  RunAdvances
BY DEF RunAdvances, InRun, NoRun

LEMMA DeathAdvances ==
  ASSUME TypeOK, Advances(run, run'), gen' = gen
  PROVE  RunAdvances
BY DEF RunAdvances, Advances, InRun, TypeOK, Runs

LEMMA LeaveFromAdvances ==
  ASSUME TypeOK, NEW c \in Clients, NEW r \in Runs, Advances(run, r),
         LeaveFrom(c, r)
  PROVE  RunAdvances
<1> DEFINE r1 == LeaveSeat(r, c, members, PickOwner(players \ {c}))
<1>1. Advances(run, r1)
  BY LeaveSeatAdvances, AdvancesTransitive
<1>2. run' \in {NoRun, r1} /\ gen' = gen
  BY DEF LeaveFrom
<1> HIDE DEF r1
<1> QED BY <1>1, <1>2, EndAdvances, DeathAdvances

LEMMA AdvanceStep ==
  ASSUME TypeOK, LobbyInv, RunInv, [Next]_vars
  PROVE  RunAdvances
<1>0. run \in Runs /\ gen \in Nat /\ members \in SUBSET Clients
  BY DEF TypeOK
<1>1. ASSUME NEW c \in Clients, Leave(c) PROVE RunAdvances
  <2>1. Advances(run, run)
    BY DEF Advances
  <2> QED BY <1>0, <1>1, <2>1, LeaveFromAdvances DEF Leave
<1>2. ASSUME NEW c \in Clients, Kick(c) PROVE RunAdvances
  <2> DEFINE r == KillSeat(run, c, members)
  <2>1. r \in Runs /\ Advances(run, r)
    BY <1>0, KillSeatTyped, KillSeatAdvances
  <2>2. LeaveFrom(c, r)
    BY <1>2 DEF Kick
  <2> HIDE DEF r
  <2> QED BY <2>1, <2>2, LeaveFromAdvances
<1>3. ASSUME NEW c \in Clients, Demote(c) PROVE RunAdvances
  BY <1>0, <1>3, KillSeatAdvances, DeathAdvances DEF Demote
<1>4. CASE StartCoop
  <2>1. ~InRun(run) /\ gen' = gen + 1
    BY <1>4 DEF StartCoop, LobbyInv, RunMatchesSession
  <2> QED BY <1>0, <2>1 DEF RunAdvances
<1>5. ASSUME \/ \E m \in Modes : ModeChange(m)
             \/ SessionEnd
             \/ \E finish \in FinishFlags : StartRace(finish)
      PROVE  RunAdvances
  BY <1>5, EndAdvances DEF ModeChange, SessionEnd, StartRace
<1>6. ASSUME RaceNext \/ UNCHANGED vars PROVE RunAdvances
  BY <1>6, StillAdvances DEF RaceNext, ScorePulse, Expire, vars
<1>7. ASSUME NEW c \in Clients, NEW seated \in BOOLEAN, NEW moved \in BOOLEAN,
             SnakeDelta(c, seated, moved)
      PROVE  RunAdvances
  BY <1>0, <1>7 DEF SnakeDelta, SetRun, RunAdvances, Runs, InRun
<1>8. ASSUME NEW c \in Clients, CommitBoard(c) PROVE RunAdvances
  BY <1>0, <1>8 DEF CommitBoard, SetRun, RunAdvances, Runs, InRun
<1>9. ASSUME NEW c \in Clients, Goal(c) PROVE RunAdvances
  BY <1>9, EndAdvances DEF Goal, SetRun
<1>10. ASSUME NEW c \in Clients, NEW base, UpdateBoard(c, base)
       PROVE  RunAdvances
  BY <1>0, <1>10 DEF UpdateBoard, SetRun, RunAdvances, Runs, InRun
<1>11. ASSUME NEW c \in Clients, NEW bodyOk, PlayerDead(c, bodyOk)
       PROVE  RunAdvances
  <2> DEFINE r == [run EXCEPT !.seated = @ \cup {c}]
  <2>1. /\ r \in Runs /\ r.authority = run.authority /\ r.slot = run.slot
        /\ r.timer = run.timer /\ r.boardReady = run.boardReady
        /\ r.revision = run.revision /\ r.epoch = run.epoch
        /\ r.life = run.life /\ run.seated \subseteq r.seated
    BY <1>0 DEF Runs
  <2>2. SetRun(IF bodyOk THEN MarkNativeDead(r, c, members) ELSE r)
    BY <1>11 DEF PlayerDead
  <2> HIDE DEF r
  <2>3. Advances(r, run') /\ gen' = gen
    BY <2>1, <2>2, MarkNativeDeadAdvances DEF SetRun, Advances
  <2>4. run.revision \in Nat /\ run.epoch \in Nat
    BY <1>0 DEF Runs
  <2>5. InRun(run') => InRun(run)
    BY <2>1, <2>3 DEF Advances, InRun
  <2> QED BY <2>1, <2>3, <2>4, <2>5 DEF Advances, RunAdvances
<1>12. ASSUME NEW c \in Clients, NEW s \in Sources, SpeedTransition(c, s)
       PROVE  RunAdvances
  BY <1>0, <1>12 DEF SpeedTransition, SetRun, RunAdvances, Runs, InRun
<1>13. ASSUME NEW c \in Clients, Input(c) PROVE RunAdvances
  BY <1>0, <1>13 DEF Input, SetRun, RunAdvances, Runs, InRun
<1>14. ASSUME NEW dying \in SUBSET Clients, NEW cleared \in BOOLEAN,
              SimStep(dying, cleared)
       PROVE  RunAdvances
  <2> DEFINE snake == [c \in Clients |-> IF c \in dying THEN "dead"
                                         ELSE run.snake[c]]
             life  == [c \in Clients |-> IF snake[c] = "none" THEN run.life[c]
                                         ELSE snake[c]]
             r == [run EXCEPT !.snake = snake, !.life = life]
  <2>1. SetRun(NoRun) \/ SetRun(r)
    BY <1>14 DEF SimStep
  <2>2. \A c \in Clients : run.life[c] = "dead" => life[c] # "alive"
    BY DEF RunInv, RunSafe, SimSafe, LiveSeats
  <2>3. /\ r.authority = run.authority /\ r.slot = run.slot
        /\ r.seated = run.seated /\ r.timer = run.timer
        /\ r.boardReady = run.boardReady /\ r.revision = run.revision
        /\ r.epoch = run.epoch /\ r.life = life
    <3> HIDE DEF snake, life
    <3> QED BY <1>0 DEF Runs
  <2>4. run.revision \in Nat /\ run.epoch \in Nat
    BY <1>0 DEF Runs
  <2> HIDE DEF r, life
  <2>5. CASE SetRun(NoRun)
    BY <2>5, EndAdvances DEF SetRun
  <2>6. CASE SetRun(r)
    BY <2>2, <2>3, <2>4, <2>6 DEF SetRun, RunAdvances, InRun
  <2> QED BY <2>1, <2>5, <2>6
<1>15. LobbyNext => RunAdvances
  <2>1. ASSUME NEW c \in Clients,
               \/ Join(c) \/ Rejoin(c) \/ AdminTransfer(c) \/ Promote(c)
               \/ Ready(c) \/ Unready(c)
               \/ \E k \in Colors : ColorClaim(c, k)
               \/ \E t \in FocusTargets \cup {NoClient} : SpectateFocus(c, t)
        PROVE  RunAdvances
    BY <2>1, StillAdvances DEF Join, Rejoin, AdminTransfer, Promote, Ready,
       Unready, ColorClaim, SpectateFocus
  <2> QED BY <1>1, <1>2, <1>3, <2>1 DEF LobbyNext
<1>16. NativeNext => RunAdvances
  BY <1>7, <1>8, <1>9, <1>10, <1>11, <1>12 DEF NativeNext
<1> QED
  BY <1>4, <1>5, <1>6, <1>13, <1>14, <1>15, <1>16 DEF Next, SessionNext, SimNext

(***************************************************************************)
(* Within a run the generation, the seats and the authority are frozen,    *)
(* the dead stay dead and the board only advances; a new run has a new     *)
(* generation (cmd_session_start, every handler of a run).                 *)
(***************************************************************************)
THEOREM RunMonotone == Spec => RunIsMonotone
<1>1. TypeOK /\ LobbyInv /\ RunInv /\ [Next]_vars => [RunAdvances]_vars
  BY AdvanceStep
<1> QED BY <1>1, RunAlways, PTL DEF Spec, RunIsMonotone

(***************************************************************************)
(* The board comes first, and speed_epoch counts the events in             *)
(* speed_sources, of which there are finitely many.                        *)
(***************************************************************************)
BoardInv ==
  Native =>
    /\ run.timer \/ run.sources # {} \/ run.revision # 0 => run.boardReady
    /\ IsFiniteSet(run.sources) /\ run.epoch = Cardinality(run.sources)

LEMMA BoardSame ==
  ASSUME BoardInv, Advances(run, run')
  PROVE  BoardInv'
BY DEF BoardInv, Native, Advances, InRun

LEMMA BoardStep ==
  ASSUME TypeOK, BoardInv, [Next]_vars
  PROVE  BoardInv'
<1>0. run \in Runs /\ members \in SUBSET Clients
  BY DEF TypeOK
<1>1. ASSUME run' = run PROVE BoardInv'
  BY <1>1 DEF BoardInv, Native
<1>2. ASSUME run'.authority # "native" PROVE BoardInv'
  BY <1>2 DEF BoardInv, Native
<1>3. NoRun.authority # "native"
  BY DEF NoRun
<1>4. ASSUME NEW c \in Clients, NEW r \in Runs, Advances(run, r), LeaveFrom(c, r)
      PROVE  BoardInv'
  <2> DEFINE r1 == LeaveSeat(r, c, members, PickOwner(players \ {c}))
  <2>1. Advances(run, r1)
    BY <1>4, LeaveSeatAdvances, AdvancesTransitive
  <2>2. run' \in {NoRun, r1}
    BY <1>4 DEF LeaveFrom
  <2> HIDE DEF r1
  <2> QED BY <1>2, <1>3, <2>1, <2>2, BoardSame
<1>5. ASSUME NEW c \in Clients, Leave(c) PROVE BoardInv'
  <2>1. Advances(run, run)
    BY DEF Advances
  <2> QED BY <1>0, <1>4, <1>5, <2>1 DEF Leave
<1>6. ASSUME NEW c \in Clients, Kick(c) PROVE BoardInv'
  <2> DEFINE r == KillSeat(run, c, members)
  <2>1. r \in Runs /\ Advances(run, r)
    BY <1>0, KillSeatTyped, KillSeatAdvances
  <2>2. LeaveFrom(c, r)
    BY <1>6 DEF Kick
  <2> HIDE DEF r
  <2> QED BY <1>4, <2>1, <2>2
<1>7. ASSUME NEW c \in Clients, Demote(c) PROVE BoardInv'
  BY <1>0, <1>7, KillSeatAdvances, BoardSame DEF Demote
<1>8. CASE StartCoop
  <2>1. run'.timer = FALSE /\ run'.sources = {} /\ run'.revision = 0
        /\ run'.epoch = 0
    BY <1>8 DEF StartCoop, NewRun, NoRun
  <2> QED BY <2>1, FS_EmptySet DEF BoardInv
<1>9. ASSUME \/ \E m \in Modes : ModeChange(m)
             \/ SessionEnd
             \/ \E finish \in FinishFlags : StartRace(finish)
      PROVE  BoardInv'
  <2>1. run' = NoRun
    BY <1>9 DEF ModeChange, SessionEnd, StartRace
  <2> QED BY <1>2, <1>3, <2>1
<1>10. RaceNext \/ UNCHANGED vars => BoardInv'
  BY <1>1 DEF RaceNext, ScorePulse, Expire, vars
<1>11. ASSUME NEW c \in Clients, NEW seated \in BOOLEAN, NEW moved \in BOOLEAN,
              SnakeDelta(c, seated, moved)
       PROVE  BoardInv'
  BY <1>0, <1>11 DEF SnakeDelta, NativeSender, SetRun, BoardInv, Native, Runs
<1>12. ASSUME NEW c \in Clients, CommitBoard(c) PROVE BoardInv'
  BY <1>0, <1>12 DEF CommitBoard, NativeSender, SetRun, BoardInv, Native, Runs
<1>13. ASSUME NEW c \in Clients, Goal(c) PROVE BoardInv'
  BY <1>2, <1>3, <1>13 DEF Goal, SetRun
<1>14. ASSUME NEW c \in Clients, NEW base, UpdateBoard(c, base) PROVE BoardInv'
  BY <1>0, <1>14 DEF UpdateBoard, NativeSender, SetRun, BoardInv, Native, Runs
<1>15. ASSUME NEW c \in Clients, NEW bodyOk, PlayerDead(c, bodyOk)
       PROVE  BoardInv'
  <2> DEFINE r == [run EXCEPT !.seated = @ \cup {c}]
  <2>1. /\ r \in Runs /\ r.authority = run.authority
        /\ r.timer = run.timer /\ r.boardReady = run.boardReady
        /\ r.revision = run.revision /\ r.epoch = run.epoch
        /\ r.sources = run.sources
    BY <1>0 DEF Runs
  <2>2. SetRun(IF bodyOk THEN MarkNativeDead(r, c, members) ELSE r)
    BY <1>15 DEF PlayerDead
  <2> HIDE DEF r
  <2>3. Advances(r, run')
    BY <2>1, <2>2, MarkNativeDeadAdvances DEF SetRun, Advances
  <2> QED BY <2>1, <2>3 DEF Advances, BoardInv, Native, InRun
<1>16. ASSUME NEW c \in Clients, NEW s \in Sources, SpeedTransition(c, s)
       PROVE  BoardInv'
  <2>1. /\ Native /\ run.boardReady /\ s \notin run.sources
        /\ run' = [run EXCEPT !.sources = @ \cup {s}, !.epoch = @ + 1]
    BY <1>16 DEF SpeedTransition, NativeSender, SetRun, Native
  <2>2. /\ run'.sources = run.sources \cup {s} /\ run'.epoch = run.epoch + 1
        /\ run'.boardReady
    BY <1>0, <2>1 DEF Runs
  <2>3. /\ IsFiniteSet(run'.sources)
        /\ Cardinality(run'.sources) = Cardinality(run.sources) + 1
    BY <2>1, <2>2, FS_AddElement DEF BoardInv
  <2> QED BY <2>1, <2>2, <2>3 DEF BoardInv
<1>17. SimNext => BoardInv'
  <2>1. SimNext => run'.authority # "native"
    BY <1>0, <1>3 DEF SimNext, Input, SimStep, SetRun, Runs
  <2> QED BY <1>2, <2>1
<1>18. LobbyNext => BoardInv'
  <2>1. ASSUME NEW c \in Clients,
               \/ Join(c) \/ Rejoin(c) \/ AdminTransfer(c) \/ Promote(c)
               \/ Ready(c) \/ Unready(c)
               \/ \E k \in Colors : ColorClaim(c, k)
               \/ \E t \in FocusTargets \cup {NoClient} : SpectateFocus(c, t)
        PROVE  BoardInv'
    BY <1>1, <2>1 DEF Join, Rejoin, AdminTransfer, Promote, Ready, Unready,
       ColorClaim, SpectateFocus
  <2> QED BY <1>5, <1>6, <1>7, <2>1 DEF LobbyNext
<1>19. NativeNext => BoardInv'
  BY <1>11, <1>12, <1>13, <1>14, <1>15, <1>16 DEF NativeNext
<1> QED BY <1>8, <1>9, <1>10, <1>17, <1>18, <1>19 DEF Next, SessionNext

(***************************************************************************)
(* No timer, speed change or later revision before the board is committed, *)
(* and every speed event counts once (cmd_snake_delta,                     *)
(* cmd_collectables_delta, cmd_coop_speed_transition).                     *)
(***************************************************************************)
THEOREM BoardSafe == Spec => []BoardComesFirst
<1>1. Init => BoardInv
  BY DEF Init, BoardInv, Native, NoRun
<1>2. TypeOK /\ BoardInv /\ [Next]_vars => BoardInv'
  BY BoardStep
<1>3. BoardInv => BoardComesFirst
  BY DEF BoardInv, BoardComesFirst
<1> QED BY <1>1, <1>2, <1>3, TypeCorrect, PTL DEF Spec
=============================================================================
