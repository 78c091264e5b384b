----------------------------- MODULE CoopClient -----------------------------
(***************************************************************************)
(* What a page knows of a native co-op match and of its board: CoopState   *)
(* (src/coop/state.js), CoopSessionController (src/coop/session.js) and    *)
(* the flags of MultiplayerApp (src/mod.js) that decide about the relay,   *)
(* as one record; the methods and the handlers of the server's messages as *)
(* operators on it.  A handler that may send returns the new record and    *)
(* what it sends.                                                          *)
(*                                                                         *)
(* A board is the set of fruits eaten from it: two boards of a match are   *)
(* equal when these sets are.  Poses are left to PoseRelay; the event    *)
(* numbers of the messages are left out: a sender's messages arrive in     *)
(* the order of their numbers, which restart with the generation.  The     *)
(* roster's copy of "the session is active" is that of SESSION_START and   *)
(* SESSION_END, the flag over here.                                        *)
(***************************************************************************)
EXTENDS Naturals, Sequences

CONSTANTS
  Clients,    \* the pages; each is a seat of every match it is in the room for
  Fruits,     \* fruits of a board
  None        \* nobody; no staged replay

ASSUME NoneIsNoClient == None \notin Clients

----------------------------------------------------------------------------
(***************************************************************************)
(* gen, rev, ready, owner and stage are CoopState's, with generation 0 for *)
(* a reset one; sgen, state, srev, sready and seated the session           *)
(* controller's (boardRev is srev); relay says that _coopAuthority is      *)
(* native-relay-v1; active, spawn, initReq and over are                    *)
(* _coopSessionActive, _coopSpawnApplied, _coopBoardInitRequested and      *)
(* _coopMatchEndHandled; play is a startMatchLocalPlay under way, pub the  *)
(* publications scheduled by eats, eaten the native board.                 *)
(***************************************************************************)
\* gen is the one of another page's life: CoopSessionController is made
\* once per page and keeps it from room to room.
NewPage(sgen) ==
  [gen |-> 0, rev |-> 0, ready |-> FALSE, owner |-> None, stage |-> None,
   sgen |-> sgen, state |-> "Lobby", srev |-> 0, sready |-> FALSE,
   seated |-> FALSE, relay |-> FALSE, active |-> FALSE, spawn |-> FALSE,
   initReq |-> FALSE, over |-> FALSE, play |-> FALSE, pub |-> 0,
   eaten |-> {}]

\* The session controller.
InMatch(c) == c.state \in {"Seating", "Live"}

BindGeneration(c, g, ready) ==
  IF c.sgen = g THEN [c EXCEPT !.sready = ready]
  ELSE [c EXCEPT !.sgen = g, !.sready = ready, !.seated = FALSE,
                 !.srev = 0, !.state = "Seating"]

\* enterSeating() without a generation, "Legacy callers".
EnterSeating(c) ==
  [c EXCEPT !.sgen = @ + 1, !.state = "Seating", !.seated = FALSE,
            !.srev = 0, !.sready = FALSE]

EnterLobby(c) ==
  [c EXCEPT !.state = "Lobby", !.seated = FALSE, !.srev = 0,
            !.sready = FALSE]

MarkSeated(c) ==
  IF ~InMatch(c) THEN c
  ELSE [c EXCEPT !.seated = TRUE,
                 !.state = IF c.sready THEN "Live" ELSE "Seating"]

MarkBoardReady(c, rev) ==
  IF rev < c.srev THEN c
  ELSE [c EXCEPT !.srev = rev, !.sready = TRUE,
                 !.state = IF c.seated THEN "Live" ELSE @]

CanApplyBoard(c, rev) == InMatch(c) /\ rev > c.srev

\* CoopState.
AcceptGeneration(c, g) ==
  g # 0 /\ g = IF c.stage # None THEN c.stage.gen ELSE c.gen

TargetRev(c) == IF c.stage # None THEN c.stage.rev ELSE c.rev

----------------------------------------------------------------------------
(***************************************************************************)
(* Publishing.                                                             *)
(***************************************************************************)
Quiet(c) == [page |-> c, out |-> <<>>]

\* Mutant: the request is taken as served although the page is not seated.
PublishInitial_Forgets(c, me) ==
  IF c.relay /\ c.initReq /\ ~c.ready /\ c.owner = me
  THEN [page |-> [c EXCEPT !.initReq = FALSE],
        out |-> IF ~c.spawn THEN <<>>
                ELSE <<[type |-> "BOARD", gen |-> c.gen, base |-> 0,
                        initial |-> TRUE, eaten |-> c.eaten]>>]
  ELSE Quiet(c)

\* publishInitialCoopBoard of client me; the native board always has stock.
PublishInitial(c, me) ==
  IF c.relay /\ c.initReq /\ ~c.ready /\ c.owner = me /\ c.spawn
  THEN [page |-> [c EXCEPT !.initReq = FALSE],
        out |-> <<[type |-> "BOARD", gen |-> c.gen, base |-> 0,
                   initial |-> TRUE, eaten |-> c.eaten]>>]
  ELSE Quiet(c)

\* Mutant: the revision is taken although nothing is sent.
Publish_Eager(c, me) ==
  IF ~c.relay THEN Quiet(c)
  ELSE IF ~c.ready THEN PublishInitial([c EXCEPT !.srev = @ + 1], me)
  ELSE IF ~c.active THEN Quiet(c)
  ELSE [page |-> [c EXCEPT !.srev = @ + 1],
        out |-> <<[type |-> "BOARD", gen |-> c.gen, base |-> c.srev,
                   initial |-> FALSE, eaten |-> c.eaten]>>]

\* publishCoopCollectables: the base is the revision the page has counted
\* to, and the next one is counted at once.
Publish(c, me) ==
  IF ~c.relay THEN Quiet(c)
  ELSE IF ~c.ready THEN PublishInitial(c, me)
  ELSE IF ~c.active THEN Quiet(c)
  ELSE [page |-> [c EXCEPT !.srev = @ + 1],
        out |-> <<[type |-> "BOARD", gen |-> c.gen, base |-> c.srev,
                   initial |-> FALSE, eaten |-> c.eaten]>>]

----------------------------------------------------------------------------
(***************************************************************************)
(* The handlers.                                                           *)
(***************************************************************************)
\* SESSION_START of a new match: reset, bind, seat anew.
OnStart(c, m) ==
  IF m.gen < c.gen THEN c
  ELSE BindGeneration(
         [c EXCEPT !.gen = m.gen, !.rev = 0, !.ready = FALSE,
                   !.owner = m.owner, !.stage = None, !.relay = TRUE,
                   !.over = FALSE, !.initReq = FALSE, !.spawn = FALSE,
                   !.eaten = {}],
         m.gen, FALSE)

\* SESSION_START of a replay: staged until the next ROSTER.
OnReplay(c, m) ==
  IF m.gen < c.gen THEN c
  ELSE [c EXCEPT !.relay = TRUE,
                 !.stage = [gen |-> m.gen, rev |-> m.rev, ready |-> m.ready,
                            owner |-> m.owner, board |-> None]]

\* ROSTER: commitCoopRelayResync.
OnRoster(c) ==
  IF c.stage = None \/ ~c.relay THEN c
  ELSE LET s == c.stage
           b == BindGeneration(
                  [c EXCEPT !.gen = s.gen, !.rev = s.rev, !.ready = s.ready,
                            !.owner = s.owner, !.stage = None],
                  s.gen, s.ready)
           d == [b EXCEPT !.eaten = IF s.board = None THEN @ ELSE s.board]
       IN IF s.ready THEN MarkBoardReady(d, s.rev) ELSE d

OnPlaySync(c) == [c EXCEPT !.play = TRUE]

OnBoardInit(c, me, m) ==
  IF c.relay /\ AcceptGeneration(c, m.gen)
  THEN PublishInitial([c EXCEPT !.owner = m.owner, !.initReq = TRUE], me)
  ELSE Quiet(c)

\* acceptBoardRevision, with the staged revision before the page's.
AcceptsRev(c, m) ==
  c.relay /\ AcceptGeneration(c, m.gen) /\ m.rev >= TargetRev(c)

\* Mutant: the revision of a board is not compared.
AppliesBoard_AnyRev(c, m) ==
  c.relay /\ AcceptGeneration(c, m.gen) /\ c.stage = None /\ InMatch(c)

\* COLLECTABLES_DELTA reaches the native board.
AppliesBoard(c, m) ==
  AcceptsRev(c, m) /\ c.stage = None /\ CanApplyBoard(c, m.rev)

OnBoard(c, m) ==
  IF AppliesBoard(c, m)
  THEN [c EXCEPT !.rev = m.rev, !.srev = m.rev, !.eaten = m.eaten]
  ELSE IF ~AcceptsRev(c, m) THEN c
  ELSE IF c.stage # None
  THEN [c EXCEPT !.stage.rev = m.rev, !.stage.board = m.eaten]
  ELSE [c EXCEPT !.rev = m.rev]

\* COOP_BOARD_READY; the pose it sends again changes nothing on the server.
OnBoardReady(c, m) ==
  IF ~AcceptsRev(c, m) THEN c
  ELSE IF c.stage # None
  THEN [c EXCEPT !.stage.rev = m.rev, !.stage.ready = TRUE]
  ELSE MarkBoardReady([c EXCEPT !.rev = m.rev, !.ready = TRUE], m.rev)

\* SESSION_END: _handleCoopMatchEnded and endCoopNativeSession.
OnEnd(c) ==
  IF c.over THEN c
  ELSE [EnterLobby(c) EXCEPT !.over = TRUE, !.play = FALSE,
          !.active = FALSE, !.relay = FALSE, !.spawn = FALSE, !.gen = 0,
          !.rev = 0, !.ready = FALSE, !.owner = None, !.stage = None,
          !.eaten = {}]

Handle(c, me, m) ==
  CASE m.type = "START"  -> Quiet(OnStart(c, m))
    [] m.type = "PLAY"   -> Quiet(OnPlaySync(c))
    [] m.type = "INIT"   -> OnBoardInit(c, me, m)
    [] m.type = "BOARD"  -> Quiet(OnBoard(c, m))
    [] m.type = "READY"  -> Quiet(OnBoardReady(c, m))
    [] m.type = "REPLAY" -> Quiet(OnReplay(c, m))
    [] m.type = "ROSTER" -> Quiet(OnRoster(c))
    [] m.type = "END"    -> Quiet(OnEnd(c))

----------------------------------------------------------------------------
(***************************************************************************)
(* What the page does on its own.                                          *)
(***************************************************************************)
\* sessionStillLive; and time: between an eat of one match and the native
\* game of the next lie more than the 50 ms of its publication.
CanBegin(c) == c.play /\ ~c.over /\ c.pub = 0

\* Mutant: the session controller starts anew although it is bound.
Begun_Reset(c) ==
  [EnterSeating(c) EXCEPT !.play = FALSE, !.active = TRUE, !.spawn = FALSE]

\* beginCoopNativeSession, once the native game has started; the seat and
\* the initial board it tries at once are Seat's.
Begun(c) ==
  LET s == IF c.state = "Seating" THEN c ELSE EnterSeating(c)
  IN [s EXCEPT !.play = FALSE, !.active = TRUE, !.spawn = FALSE]

CanSeat(c) == c.active /\ ~c.spawn

\* trySeatCoopOnce: the pose that seats the client, then its board.
Seat(c, me) ==
  LET s == MarkSeated([c EXCEPT !.spawn = TRUE])
      p == Publish(s, me)
      pose == IF c.relay THEN <<[type |-> "SEAT", gen |-> c.gen]>> ELSE <<>>
  IN [p EXCEPT !.out = pose \o @]

\* The native game eats a fruit; the page publishes 50 ms later.
CanEat(c, f) == c.active /\ c.spawn /\ c.ready /\ f \notin c.eaten

Ate(c, f) == [c EXCEPT !.eaten = @ \cup {f}, !.pub = @ + 1]

PublishEaten(c, me) == Publish([c EXCEPT !.pub = @ - 1], me)
=============================================================================
