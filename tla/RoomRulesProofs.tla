--------------------------- MODULE RoomRulesProofs ---------------------------
(***************************************************************************)
(* The rules of the lobby and of a race, for any number of clients, colors *)
(* and seats: the cap of the players, the colors of the ready players, and *)
(* the grace period after the deadline.                                    *)
(***************************************************************************)
EXTENDS RoomProofs

(* The parts of a room that a departure and the handlers of a run keep.    *)
LEMMA RunHandlerFrame ==
  ASSUME NativeNext \/ SimNext
  PROVE  /\ UNCHANGED <<players, members, color, mode, race>>
         /\ ready' \in {ready, {}}
         /\ InRun(run)
BY RunHandlers DEF SetRun

-----------------------------------------------------------------------------
(* The cap of the players                                                  *)

LEMMA PlayersFinite ==
  ASSUME TypeOK, NEW S \in SUBSET players
  PROVE  IsFiniteSet(S) /\ Cardinality(S) \in Nat
BY CoopRunAssumption, FS_Subset, FS_CardinalityType DEF TypeOK

(***************************************************************************)
(* A switch to co-op keeps at most as many players as there are seats: the *)
(* newest one that stays has fewer than MaxCoopPlayers players before it.  *)
(***************************************************************************)
LEMMA KeptBound ==
  ASSUME TypeOK, OrdersDistinct
  PROVE  Cardinality(Kept("coop")) <= MaxCoopPlayers
<1> DEFINE K == Kept("coop")
           T == {promoteSeq - promoteOrder[p] : p \in K}
<1>1. K \in SUBSET players
  BY DEF Kept
<1>2. CASE K = {}
  BY <1>2, FS_EmptySet, CoopRunAssumption
<1>3. CASE K # {}
  <2>1. T \subseteq Nat /\ T # {}
    BY <1>1, <1>3 DEF TypeOK, OrdersDistinct
  <2>2. PICK t \in T : \A u \in T : t <= u
    <3> HIDE DEF T
    <3> QED BY <2>1, LeastNatural
  <2>3. PICK m \in K : t = promoteSeq - promoteOrder[m]
    BY <2>2
  <2>4. \A q \in K : promoteSeq - promoteOrder[m] <= promoteSeq - promoteOrder[q]
    BY <2>2, <2>3
  <2> DEFINE before == {q \in players : promoteOrder[q] < promoteOrder[m]}
  <2>5. Cardinality(before) < MaxCoopPlayers
    BY <2>3 DEF Kept
  <2>6. before \in SUBSET players
    OBVIOUS
  <2>7. K \ {m} \in SUBSET before
    <3> SUFFICES ASSUME NEW q \in K, q # m PROVE q \in before
      OBVIOUS
    <3>1. /\ promoteOrder[q] \in Nat /\ promoteOrder[m] \in Nat
          /\ promoteSeq \in Nat /\ promoteOrder[q] # promoteOrder[m]
      BY <1>1, <2>3 DEF TypeOK, OrdersDistinct
    <3> QED BY <1>1, <2>4, <3>1
  <2> HIDE DEF K, before
  <2>8. Cardinality(K \ {m}) <= Cardinality(before)
    BY <2>6, <2>7, PlayersFinite, FS_Subset
  <2>9. Cardinality(K \ {m}) = Cardinality(K) - 1
    BY <1>1, <2>3, PlayersFinite, FS_RemoveElement
  <2>10. Cardinality(K) \in Nat /\ Cardinality(before) \in Nat
    BY <1>1, <2>6, PlayersFinite
  <2>11. Cardinality(K) <= MaxCoopPlayers
    BY <2>5, <2>8, <2>9, <2>10, CoopRunAssumption
  <2> QED BY <2>11 DEF K
<1> QED BY <1>2, <1>3

CapInv == Cardinality(players) <= PlayerCap

LEMMA CapFewer ==
  ASSUME TypeOK, CapInv, players' \subseteq players, mode' = mode
  PROVE  CapInv'
<1>1. Cardinality(players') <= Cardinality(players)
  BY PlayersFinite, FS_Subset
<1>2. Cardinality(players') \in Nat /\ Cardinality(players) \in Nat
  BY PlayersFinite
<1>3. PlayerCap \in Nat /\ PlayerCap' = PlayerCap
  BY RoomAssumption, CoopRunAssumption DEF PlayerCap
<1> QED BY <1>1, <1>2, <1>3 DEF CapInv

LEMMA CapStep ==
  ASSUME TypeOK, OrdersDistinct, CapInv, [Next]_vars
  PROVE  CapInv'
<1>1. ASSUME NEW c \in Clients, Promote(c) PROVE CapInv'
  <2>1. /\ players' = players \cup {c} /\ c \notin players
        /\ Cardinality(players) < PlayerCap /\ mode' = mode
    BY <1>1 DEF Promote
  <2>2. Cardinality(players') = Cardinality(players) + 1
    BY <2>1, PlayersFinite, FS_AddElement
  <2>3. Cardinality(players) \in Nat /\ PlayerCap \in Nat /\ PlayerCap' = PlayerCap
    BY <2>1, PlayersFinite, RoomAssumption, CoopRunAssumption DEF PlayerCap
  <2> QED BY <2>1, <2>2, <2>3 DEF CapInv
<1>2. ASSUME NEW m \in Modes, ModeChange(m) PROVE CapInv'
  <2>1. players' = Kept(m) /\ mode' = m /\ m \in {"race", "coop"}
    BY <1>2, RoomAssumption DEF ModeChange
  <2>2. CASE m = "coop"
    BY <2>1, <2>2, KeptBound DEF CapInv, PlayerCap
  <2>3. CASE m = "race"
    <3>1. players' = players /\ PlayerCap' = MaxRacePlayers
      BY <2>1, <2>3 DEF Kept, PlayerCap
    <3>2. PlayerCap <= MaxRacePlayers /\ PlayerCap \in Nat
      BY RoomAssumption, CoopRunAssumption DEF PlayerCap
    <3>3. Cardinality(players) \in Nat
      BY PlayersFinite
    <3> QED BY <3>1, <3>2, <3>3, RoomAssumption DEF CapInv
  <2> QED BY <2>1, <2>2, <2>3
<1>3. ASSUME NEW c \in Clients,
             \/ Join(c) \/ Rejoin(c) \/ Leave(c) \/ Kick(c)
             \/ AdminTransfer(c) \/ Demote(c) \/ Ready(c) \/ Unready(c)
             \/ \E k \in Colors : ColorClaim(c, k)
             \/ \E t \in FocusTargets \cup {NoClient} : SpectateFocus(c, t)
      PROVE  players' \subseteq players /\ mode' = mode
  BY <1>3 DEF Join, Rejoin, Leave, Kick, LeaveFrom, AdminTransfer, Demote,
     Ready, Unready, ColorClaim, SpectateFocus
<1>4. LobbyNext => CapInv'
  BY <1>1, <1>3, CapFewer DEF LobbyNext
<1>5. ASSUME \/ SessionEnd \/ StartCoop \/ RaceNext \/ NativeNext \/ SimNext
             \/ \E finish \in FinishFlags : StartRace(finish)
             \/ UNCHANGED vars
      PROVE  players' = players /\ mode' = mode
  BY <1>5, RunHandlerFrame DEF SessionEnd, StartRace, StartCoop, RaceNext,
     ScorePulse, Expire, vars, lobby
<1> QED BY <1>2, <1>4, <1>5, CapFewer DEF Next, SessionNext

(***************************************************************************)
(* The players are clients of the room and never more than the cap of the  *)
(* mode, also right after a switch to the smaller co-op cap (cmd_set_role, *)
(* cmd_mode_change).                                                       *)
(***************************************************************************)
THEOREM CapSafe == Spec => []CapRespected
<1>1. Init => CapInv
  BY FS_EmptySet, RoomAssumption, CoopRunAssumption
  DEF Init, CapInv, PlayerCap
<1>2. TypeOK /\ RunInv /\ CapInv /\ [Next]_vars => CapInv'
  BY CapStep DEF RunInv
<1>3. LobbyInv /\ CapInv => CapRespected
  BY DEF LobbyInv, CapInv, CapRespected
<1> QED BY <1>1, <1>2, <1>3, RunAlways, PTL DEF Spec

-----------------------------------------------------------------------------
(* The colors of the ready players                                         *)

(* FS_Image for the colors of the clients S.                               *)
LEMMA ColorsOfBound ==
  ASSUME TypeOK, NEW S \in SUBSET Clients
  PROVE  /\ IsFiniteSet({color[p] : p \in S})
         /\ Cardinality({color[p] : p \in S}) <= Cardinality(S)
<1> DEFINE T == {color[p] : p \in S}
           f == [p \in S |-> color[p]]
<1>1. f \in Surjection(S, T)
  BY DEF Surjection
<1>2. IsFiniteSet(S)
  BY CoopRunAssumption, FS_Subset
<1> HIDE DEF f, T
<1>3. IsFiniteSet(T) /\ Cardinality(T) <= Cardinality(S)
  BY <1>1, <1>2, FS_Surjection
<1> QED BY <1>3 DEF T

(***************************************************************************)
(* A player that gets ready in co-op finds a color that no other ready     *)
(* player holds: the palette has one for each seat.                        *)
(***************************************************************************)
LEMMA FreeColor ==
  ASSUME TypeOK, CapInv, mode = "coop", NEW c \in players, Colors # {}
  PROVE  ~(Colors \subseteq ReadyColors(c))
<1> DEFINE S == (players \cap ready) \ {c}
           rest == players \ {c}
<1>1. /\ IsFiniteSet(ReadyColors(c))
      /\ Cardinality(ReadyColors(c)) <= Cardinality(S)
  BY ColorsOfBound DEF ReadyColors, TypeOK
<1>2. Cardinality(S) <= Cardinality(rest)
  <2>1. IsFiniteSet(rest) /\ S \in SUBSET rest
    BY PlayersFinite
  <2> HIDE DEF S, rest
  <2> QED BY <2>1, FS_Subset
<1>3. Cardinality(rest) = Cardinality(players) - 1
  BY PlayersFinite, FS_RemoveElement
<1>4. Cardinality(players) <= MaxCoopPlayers
  BY DEF CapInv, PlayerCap
<1>5. /\ Cardinality(S) \in Nat /\ Cardinality(rest) \in Nat
      /\ Cardinality(players) \in Nat
  BY PlayersFinite
<1>6. Cardinality(ReadyColors(c)) \in Nat /\ Cardinality(Colors) \in Nat
  BY <1>1, RoomAssumption, FS_CardinalityType
<1> HIDE DEF S, rest
<1>7. Cardinality(ReadyColors(c)) < Cardinality(Colors)
  <2>1. Cardinality(Colors) >= MaxCoopPlayers /\ MaxCoopPlayers \in Nat
    BY RoomAssumption, CoopRunAssumption
  <2> QED BY <1>1, <1>2, <1>3, <1>4, <1>5, <1>6, <2>1
<1>8. ASSUME Colors \subseteq ReadyColors(c) PROVE FALSE
  <2>1. Cardinality(Colors) <= Cardinality(ReadyColors(c))
    BY <1>1, <1>8, FS_Subset
  <2> QED BY <1>6, <1>7, <2>1
<1> QED BY <1>8

(* Every free color that the palette search returns is free.               *)
LEMMA NextFreeIsFree ==
  ASSUME NEW taken, NEW id, ~(Colors \subseteq taken)
  PROVE  NextFree(id, taken) \in Colors \ taken
<1> DEFINE free  == Colors \ taken
           after == {k \in free : k > id}
<1>1. LeastOf(free) \in free
  BY LeastOfIn
<1>2. after # {} => LeastOf(after) \in after
  BY LeastOfIn
<1> QED BY <1>1, <1>2 DEF NextFree

LEMMA ReadyColorFree ==
  ASSUME TypeOK, CapInv, mode = "coop", NEW c \in players, NEW id
  PROVE  LET k == Recolor(c, ReadyColors(c), NextFree(id, ReadyColors(c)))
         IN  k = NoColor \/ k \notin ReadyColors(c)
<1>1. CASE Colors = {}
  BY <1>1 DEF TypeOK, Recolor
<1>2. CASE Colors # {}
  <2>1. ~(Colors \subseteq ReadyColors(c))
    BY <1>2, FreeColor
  <2>2. NextFree(id, ReadyColors(c)) \in Colors \ ReadyColors(c)
    BY <2>1, NextFreeIsFree
  <2> QED BY <2>1, <2>2 DEF Recolor
<1> QED BY <1>1, <1>2

(***************************************************************************)
(* The claim is kept as long as no player gets ready or changes its color. *)
(***************************************************************************)
LEMMA ColorsFewer ==
  ASSUME ReadyColorsDistinct, mode' = mode,
         players' \cap ready' \subseteq players \cap ready,
         \A p \in players' \cap ready' : color'[p] = color[p]
  PROVE  ReadyColorsDistinct'
BY DEF ReadyColorsDistinct

LEMMA ColorsStep ==
  ASSUME TypeOK, CapInv, ReadyColorsDistinct, [Next]_vars
  PROVE  ReadyColorsDistinct'
<1>1. ASSUME NEW c \in Clients, Ready(c) PROVE ReadyColorsDistinct'
  <2>1. /\ c \in players /\ players' = players /\ ready' = ready \cup {c}
        /\ mode' = mode /\ \A p \in Clients \ {c} : color'[p] = color[p]
    BY <1>1 DEF Ready, TypeOK
  <2>2. ASSUME mode = "coop"
        PROVE  color'[c] = NoColor \/ color'[c] \notin ReadyColors(c)
    <3>1. PICK id : color'[c] = Recolor(c, ReadyColors(c),
                                       NextFree(id, ReadyColors(c)))
      BY <1>1, <2>2 DEF Ready, TypeOK
    <3> QED BY <2>1, <2>2, <3>1, ReadyColorFree
  <2>3. SUFFICES ASSUME mode = "coop",
                        NEW p \in players' \cap ready',
                        NEW q \in players' \cap ready',
                        p # q, color'[p] # NoColor
                 PROVE  color'[p] # color'[q]
    BY <2>1 DEF ReadyColorsDistinct
  <2>4. \A d \in (players' \cap ready') \ {c} :
           d \in players \cap ready /\ color'[d] = color[d]
             /\ color[d] \in ReadyColors(c)
    BY <2>1 DEF ReadyColors, TypeOK
  <2>5. CASE p = c \/ q = c
    BY <2>2, <2>3, <2>4, <2>5
  <2>6. CASE p # c /\ q # c
    BY <2>3, <2>4, <2>6 DEF ReadyColorsDistinct
  <2> QED BY <2>5, <2>6
<1>2. ASSUME NEW c \in Clients, NEW k \in Colors, ColorClaim(c, k)
      PROVE  ReadyColorsDistinct'
  <2>1. /\ players' = players /\ ready' = ready /\ mode' = mode
        /\ mode = "coop" => k \notin ReadyColors(c)
        /\ color'[c] = k /\ \A p \in Clients \ {c} : color'[p] = color[p]
    BY <1>2 DEF ColorClaim, TypeOK
  <2>2. \A d \in (players \cap ready) \ {c} :
           color'[d] = color[d] /\ color[d] \in ReadyColors(c)
    BY <2>1 DEF ReadyColors, TypeOK
  <2>3. SUFFICES ASSUME mode = "coop",
                        NEW p \in players \cap ready, NEW q \in players \cap ready,
                        p # q, color'[p] # NoColor
                 PROVE  color'[p] # color'[q]
    BY <2>1 DEF ReadyColorsDistinct
  <2>4. CASE p = c \/ q = c
    BY <2>1, <2>2, <2>3, <2>4
  <2>5. CASE p # c /\ q # c
    BY <2>2, <2>3, <2>5 DEF ReadyColorsDistinct
  <2> QED BY <2>4, <2>5
<1>3. ASSUME NEW c \in Clients, Promote(c) PROVE ReadyColorsDistinct'
  <2>1. /\ players' = players \cup {c} /\ ready' = ready \ {c} /\ mode' = mode
        /\ \A p \in Clients \ {c} : color'[p] = color[p]
    BY <1>3 DEF Promote, TypeOK
  <2> QED BY <2>1, ColorsFewer DEF TypeOK
<1>4. ASSUME NEW c \in Clients, Rejoin(c) \/ Leave(c) \/ Kick(c)
      PROVE  ReadyColorsDistinct'
  <2>1. /\ players' = players \ {c} /\ ready' \subseteq ready /\ mode' = mode
        /\ color' = [color EXCEPT ![c] = NoColor]
    BY <1>4 DEF Rejoin, Leave, Kick, LeaveFrom
  <2> QED BY <2>1, ColorsFewer DEF TypeOK
<1>5. ASSUME NEW c \in Clients,
             \/ Join(c) \/ AdminTransfer(c) \/ Demote(c) \/ Unready(c)
             \/ \E t \in FocusTargets \cup {NoClient} : SpectateFocus(c, t)
      PROVE  ReadyColorsDistinct'
  <2>1. /\ players' \subseteq players /\ ready' \subseteq ready
        /\ mode' = mode /\ color' = color
    BY <1>5 DEF Join, AdminTransfer, Demote, Unready, SpectateFocus
  <2> QED BY <2>1, ColorsFewer
<1>6. SessionNext => ReadyColorsDistinct'
  <2>1. ASSUME SessionEnd \/ \E m \in Modes : ModeChange(m)
        PROVE  ReadyColorsDistinct'
    BY <2>1 DEF SessionEnd, ModeChange, ReadyColorsDistinct
  <2>2. ASSUME StartCoop \/ \E finish \in FinishFlags : StartRace(finish)
        PROVE  ReadyColorsDistinct'
    BY <2>2, ColorsFewer DEF StartCoop, StartRace, lobby
  <2> QED BY <2>1, <2>2 DEF SessionNext
<1>7. RaceNext \/ UNCHANGED vars => ReadyColorsDistinct'
  BY ColorsFewer DEF RaceNext, ScorePulse, Expire, vars, lobby
<1>8. NativeNext \/ SimNext => ReadyColorsDistinct'
  BY RunHandlerFrame, ColorsFewer
<1>9. LobbyNext => ReadyColorsDistinct'
  BY <1>1, <1>2, <1>3, <1>4, <1>5 DEF LobbyNext
<1> QED BY <1>6, <1>7, <1>8, <1>9 DEF Next

LEMMA CapAlways == Spec => [](TypeOK /\ LobbyInv /\ RunInv /\ CapInv)
<1>1. CapRespected => CapInv
  BY DEF CapRespected, CapInv
<1> QED BY <1>1, RunAlways, CapSafe, PTL

(***************************************************************************)
(* In co-op two ready players never hold the same color: the cap leaves a  *)
(* free color for each player that gets ready (cmd_ready, cmd_color_claim, *)
(* cmd_mode_change).                                                       *)
(***************************************************************************)
THEOREM ColorsSafe == Spec => []ReadyColorsDistinct
<1>1. Init => ReadyColorsDistinct
  BY DEF Init, ReadyColorsDistinct
<1>2. TypeOK /\ CapInv /\ ReadyColorsDistinct /\ [Next]_vars
        => ReadyColorsDistinct'
  BY ColorsStep
<1> QED BY <1>1, <1>2, CapAlways, PTL DEF Spec

-----------------------------------------------------------------------------
(* The grace period of a race                                              *)

(* The last look at the grace changes nothing but the deadline.            *)
LEMMA SettledRace ==
  ASSUME NEW rc \in Races, NEW S, NEW open \in BOOLEAN, SettleRace(rc, S, open)
  PROVE  /\ race'.expired = rc.expired /\ race'.finish = rc.finish
         /\ race'.allowNew = rc.allowNew /\ race'.life = rc.life
BY DEF SettleRace, Races

(***************************************************************************)
(* What a handler that takes that look, at attempt rc, leaves behind: the  *)
(* session goes on only for a player that may be in a run, and if the look *)
(* is what ended it, all the players are dead.                             *)
(***************************************************************************)
LEMMA GraceSettled ==
  ASSUME NEW rc \in Races, mode = "race", active \in BOOLEAN, mode' = mode,
         SettleRace(rc, players', active),
         active' = (active /\ ~GraceOver(rc, players'))
  PROVE  /\ rc.finish \/ (active /\ ~rc.expired) => GraceStaysOpenForRuns'
         /\ active /\ ~active' => \A p \in players' : race'.life[p] = "dead"
<1>1. /\ race'.expired = rc.expired /\ race'.finish = rc.finish
      /\ race'.life = rc.life
  BY SettledRace
<1> QED BY <1>1 DEF GraceOver, GraceStaysOpenForRuns

(* The conclusion of OngoingRunsFinish about one step.                     *)
RunsFinished ==
  mode = "race" /\ active /\ race.finish /\ ~active' /\ ~race'.allowNew =>
    \A p \in players' : race'.life[p] = "dead"

(***************************************************************************)
(* A departure from a race, by leave or KICK.                              *)
(***************************************************************************)
LEMMA GraceLeave ==
  ASSUME TypeOK, LobbyInv, NEW c \in Clients, NEW r, LeaveFrom(c, r)
  PROVE  /\ GraceStaysOpenForRuns => GraceStaysOpenForRuns'
         /\ RunsFinished
<1> DEFINE rc        == [race EXCEPT !.life[c] = "none"]
           open      == mode = "race" /\ active
           r1        == LeaveSeat(r, c, members, PickOwner(players \ {c}))
           coopEnded == InRun(run) /\ ~InRun(r1)
           graceOver == open /\ GraceOver(rc, players \ {c})
           emptied   == Emptied(c) /\ active /\ ~coopEnded /\ ~graceOver
<1>1. /\ rc \in Races /\ rc.expired = race.expired /\ rc.finish = race.finish
      /\ open \in BOOLEAN
  BY DEF TypeOK, Races, Life
<1>2. /\ players' = players \ {c} /\ mode' = mode
      /\ active' = (active /\ ~coopEnded /\ ~graceOver /\ ~emptied)
      /\ SettleRace(rc, players', open)
  BY DEF LeaveFrom
<1>3. mode = "race" => ~coopEnded
  BY DEF LobbyInv, RunMatchesSession
<1>4. Emptied(c) => players' = {}
  BY <1>2 DEF Emptied, LobbyInv
<1> HIDE DEF rc, coopEnded
<1>5. /\ race'.expired = rc.expired /\ race'.finish = rc.finish
      /\ race'.life = rc.life
  BY <1>1, <1>2, SettledRace
<1>6. GraceStaysOpenForRuns => GraceStaysOpenForRuns'
  BY <1>1, <1>2, <1>5 DEF GraceStaysOpenForRuns, GraceOver
<1>7. RunsFinished
  BY <1>2, <1>3, <1>4, <1>5 DEF RunsFinished, GraceOver
<1> QED BY <1>6, <1>7

(* A step that touches neither the race nor the players.                   *)
LEMMA GraceIdle ==
  ASSUME UNCHANGED <<players, mode, active, race>>
  PROVE  RunsFinished /\ (GraceStaysOpenForRuns => GraceStaysOpenForRuns')
BY DEF RunsFinished, GraceStaysOpenForRuns

LEMMA GraceLobby ==
  ASSUME TypeOK, LobbyInv, LobbyNext
  PROVE  /\ RunsFinished
         /\ ~RepeatHello /\ GraceStaysOpenForRuns => GraceStaysOpenForRuns'
<1> DEFINE Goal0 == /\ RunsFinished
                    /\ ~RepeatHello /\ GraceStaysOpenForRuns
                         => GraceStaysOpenForRuns'
<1>1. ASSUME NEW c \in Clients, Leave(c) \/ Kick(c) PROVE Goal0
  BY <1>1, GraceLeave DEF Leave, Kick
<1>2. ASSUME NEW c \in Clients, Promote(c) \/ Demote(c) PROVE Goal0
  <2> DEFINE open == mode = "race" /\ active
  <2>1. CASE mode = "race"
    <3>1. ~InRun(run)
      BY <2>1 DEF LobbyInv, RunMatchesSession
    <3>2. /\ SettleRace(race, players', active) /\ mode' = mode
          /\ active' = (active /\ ~GraceOver(race, players'))
      BY <1>2, <2>1, <3>1 DEF Promote, Demote, TypeOK
    <3>3. race \in Races /\ active \in BOOLEAN
      BY DEF TypeOK
    <3>4. /\ race.finish \/ (active /\ ~race.expired)
               => GraceStaysOpenForRuns'
          /\ active /\ ~active' => \A p \in players' : race'.life[p] = "dead"
      BY <2>1, <3>2, <3>3, GraceSettled
    <3>5. GraceStaysOpenForRuns /\ active
            => race.finish \/ (active /\ ~race.expired)
      BY <2>1 DEF GraceStaysOpenForRuns
    <3>6. ~active => GraceStaysOpenForRuns'
      BY <3>2 DEF GraceStaysOpenForRuns
    <3> QED BY <3>4, <3>5, <3>6 DEF RunsFinished
  <2>2. CASE mode # "race"
    <3>1. mode' = mode
      BY <1>2 DEF Promote, Demote
    <3> QED BY <2>2, <3>1 DEF RunsFinished, GraceStaysOpenForRuns
  <2> QED BY <2>1, <2>2
<1>3. ASSUME NEW c \in Clients, Rejoin(c) PROVE Goal0
  BY <1>3 DEF Rejoin, RunsFinished
<1>4. ASSUME NEW c \in Clients,
             \/ Join(c) \/ AdminTransfer(c) \/ Ready(c) \/ Unready(c)
             \/ \E k \in Colors : ColorClaim(c, k)
             \/ \E t \in FocusTargets \cup {NoClient} : SpectateFocus(c, t)
      PROVE  Goal0
  <2>1. UNCHANGED <<players, mode, active, race>>
    BY <1>4 DEF Join, AdminTransfer, Ready, Unready, ColorClaim, SpectateFocus
  <2> QED BY <2>1, GraceIdle
<1> QED BY <1>1, <1>2, <1>3, <1>4 DEF LobbyNext

LEMMA GraceStep ==
  ASSUME TypeOK, LobbyInv, [Next]_vars
  PROVE  /\ RunsFinished
         /\ ~RepeatHello /\ GraceStaysOpenForRuns => GraceStaysOpenForRuns'
<1> DEFINE Goal0 == /\ RunsFinished
                    /\ ~RepeatHello /\ GraceStaysOpenForRuns
                         => GraceStaysOpenForRuns'
<1>1. ASSUME SessionEnd \/ \E m \in Modes : ModeChange(m) PROVE Goal0
  <2>1. active' = FALSE /\ race'.allowNew
    BY <1>1 DEF SessionEnd, ModeChange, TypeOK, Races
  <2> QED BY <2>1 DEF RunsFinished, GraceStaysOpenForRuns
<1>2. ASSUME StartCoop \/ \E finish \in FinishFlags : StartRace(finish)
      PROVE  Goal0
  <2>1. active' = TRUE /\ (mode' = "race" => ~race'.expired)
    BY <1>2 DEF StartCoop, StartRace
  <2> QED BY <2>1 DEF RunsFinished, GraceStaysOpenForRuns
<1>3. ASSUME NEW c \in Clients, NEW life \in {"alive", "dead"},
             ScorePulse(c, life)
      PROVE  Goal0
  <2> DEFINE rc == [race EXCEPT !.life[c] = life]
  <2>1. /\ mode = "race" /\ active /\ mode' = mode /\ players' = players
        /\ SettleRace(rc, players', active)
        /\ active' = (active /\ ~GraceOver(rc, players'))
    BY <1>3 DEF ScorePulse, lobby, TypeOK, GraceOver
  <2>2. /\ rc \in Races /\ rc.expired = race.expired
        /\ rc.finish = race.finish /\ active \in BOOLEAN
    BY DEF TypeOK, Races, Life
  <2> HIDE DEF rc
  <2>3. /\ rc.finish \/ (active /\ ~rc.expired) => GraceStaysOpenForRuns'
        /\ active /\ ~active' => \A p \in players' : race'.life[p] = "dead"
    BY <2>1, <2>2, GraceSettled
  <2>4. GraceStaysOpenForRuns => rc.finish \/ (active /\ ~rc.expired)
    BY <2>1, <2>2 DEF GraceStaysOpenForRuns
  <2> QED BY <2>3, <2>4 DEF RunsFinished
<1>4. CASE Expire
  <2> DEFINE rc == [race EXCEPT !.expired = TRUE, !.allowNew = FALSE]
  <2>1. rc \in Races /\ rc.finish = race.finish /\ active \in BOOLEAN
    BY DEF TypeOK, Races
  <2>2. CASE race.finish
    <3>1. /\ mode = "race" /\ mode' = mode /\ players' = players
          /\ SettleRace(rc, players', active)
          /\ active' = (active /\ ~GraceOver(rc, players'))
      BY <1>4, <2>2 DEF Expire, lobby
    <3> HIDE DEF rc
    <3>2. /\ GraceStaysOpenForRuns'
          /\ active /\ ~active' => \A p \in players' : race'.life[p] = "dead"
      BY <2>1, <2>2, <3>1, GraceSettled
    <3> QED BY <3>2 DEF RunsFinished
  <2>3. CASE ~race.finish
    BY <1>4, <2>3 DEF Expire, RunsFinished, GraceStaysOpenForRuns
  <2> QED BY <2>2, <2>3
<1>5. ASSUME NativeNext \/ SimNext PROVE Goal0
  <2>1. mode = "coop" /\ mode' = "coop"
    BY <1>5, RunHandlerFrame DEF LobbyInv, RunMatchesSession
  <2> QED BY <2>1 DEF RunsFinished, GraceStaysOpenForRuns
<1>6. CASE UNCHANGED vars
  BY <1>6, GraceIdle DEF vars, lobby
<1>7. RaceNext => Goal0
  BY <1>3, <1>4 DEF RaceNext
<1>8. SessionNext => Goal0
  BY <1>1, <1>2 DEF SessionNext
<1> QED BY <1>5, <1>6, <1>7, <1>8, GraceLobby DEF Next

(***************************************************************************)
(* An expired race stays open only for a player whose run may be going on, *)
(* as long as nobody repeats its HELLO, which removes a player without the *)
(* handler's last look (maybe_end_race_grace and its callers, join).       *)
(***************************************************************************)
THEOREM GraceSafe ==
  ASSUME ~RepeatHello
  PROVE  Spec => []GraceStaysOpenForRuns
<1>1. Init => GraceStaysOpenForRuns
  BY DEF Init, GraceStaysOpenForRuns
<1>2. TypeOK /\ LobbyInv /\ GraceStaysOpenForRuns /\ [Next]_vars
        => GraceStaysOpenForRuns'
  BY GraceStep
<1> QED BY <1>1, <1>2, LobbyAlways, PTL DEF Spec

(***************************************************************************)
(* Where ongoing runs may finish, the deadline and the departure of others *)
(* end a race only once every remaining player is dead (tick, leave,       *)
(* cmd_set_role, cmd_score_pulse).                                         *)
(***************************************************************************)
THEOREM OngoingSafe == Spec => OngoingRunsFinish
<1>1. TypeOK /\ LobbyInv /\ [Next]_vars => [RunsFinished]_vars
  BY GraceStep
<1>2. RunsFinished <=> (mode = "race" /\ active /\ race.finish /\ ~active'
                          /\ ~race'.allowNew =>
                        \A p \in players' : race'.life[p] = "dead")
  BY DEF RunsFinished
<1> QED BY <1>1, <1>2, LobbyAlways, PTL DEF Spec, OngoingRunsFinish
=============================================================================
