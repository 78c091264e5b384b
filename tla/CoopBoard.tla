----------------------------- MODULE CoopBoard -----------------------------
(***************************************************************************)
(* The board of native co-op matches, from pages through the server's      *)
(* relay to pages: the clients of CoopClient, their sockets, and the part  *)
(* of the room (server/src/room.rs) that commits and relays boards.        *)
(*                                                                         *)
(* A message handler of the server puts its messages in the outbox under   *)
(* one lock; the task takes them as a batch and sends the batch under      *)
(* another (server/src/main.rs, flush_outbox), so two batches may be sent  *)
(* in the other order: Overtaking.  Within a batch, and on a socket, order *)
(* is kept.                                                                *)
(*                                                                         *)
(* Left out, and modelled in Room and CoopRun: roles, ready flags, deaths  *)
(* that do not leave the room, the timer and the speed; and the rosters    *)
(* that are not the end of a replay.                                       *)
(***************************************************************************)
EXTENDS CoopClient, FiniteSets, SequencesExt

CONSTANTS
  EarlierGens,   \* generations the pages may have played in other rooms
  Leavers,       \* clients that may leave
  Overtaking,    \* whether batches may overtake each other
  MaxGen,        \* matches
  MaxRev,        \* revisions a page has counted when it may still eat
  MaxFlight,     \* batches taken and not yet sent
  MaxResync      \* resyncs asked for

ASSUME BoundsNat == {MaxGen, MaxRev, MaxFlight, MaxResync} \subseteq Nat
ASSUME LeaversAreClients == Leavers \subseteq Clients
ASSUME GensNat == EarlierGens \subseteq Nat

VARIABLES
  page,     \* page[c]: the record of CoopClient
  up,       \* up[c]: messages on the way to the server
  srv,      \* the room
  flight,   \* batches taken from the outbox
  down,     \* down[c]: messages on the way to the page
  resyncs,  \* resyncs so far
  log,      \* the boards the server has committed, match by match
  shown     \* the last board of the log each page has taken over

net == <<up, flight, down>>
vars == <<page, up, srv, flight, down, resyncs, log, shown>>

NoShown == [gen |-> 0, rev |-> 0, board |-> {}]

\* here are the clients of the room, slots the seats of the match; the
\* revision is the length of the log.
Init ==
  /\ \E g \in [Clients -> EarlierGens] :
       page = [c \in Clients |-> NewPage(g[c])]
  /\ up = [c \in Clients |-> <<>>]
  /\ srv = [gen |-> 0, on |-> FALSE, owner |-> None, ready |-> FALSE,
            slots |-> {}, seated |-> {}, here |-> Clients]
  /\ flight = <<>>
  /\ down = [c \in Clients |-> <<>>]
  /\ resyncs = 0
  /\ log = <<>>
  /\ shown = [c \in Clients |-> NoShown]

BoardRev == IF srv.gen = 0 THEN 0 ELSE Len(log[srv.gen])

----------------------------------------------------------------------------
(***************************************************************************)
(* Sending.  Without overtaking a batch goes to the sockets at once.       *)
(***************************************************************************)
Delivered(to, msgs) ==
  [c \in Clients |-> IF c \in to THEN down[c] \o msgs ELSE down[c]]

Emit(to, msgs) ==
  IF Overtaking
  THEN /\ Len(flight) < MaxFlight
       /\ flight' = Append(flight, [to |-> to, msgs |-> msgs])
       /\ UNCHANGED down
  ELSE /\ down' = Delivered(to, msgs)
       /\ UNCHANGED flight

SendBatch ==
  /\ \E i \in DOMAIN flight :
       /\ down' = Delivered(flight[i].to \cap srv.here, flight[i].msgs)
       /\ flight' = RemoveAt(flight, i)
  /\ UNCHANGED <<page, up, srv, resyncs, log, shown>>

----------------------------------------------------------------------------
(***************************************************************************)
(* The server.                                                             *)
(***************************************************************************)
StartMatch ==
  /\ ~srv.on /\ srv.gen < MaxGen
  /\ \E o \in srv.here :
       /\ srv' = [srv EXCEPT !.gen = @ + 1, !.on = TRUE, !.owner = o,
                             !.ready = FALSE, !.slots = srv.here,
                             !.seated = {}]
       /\ Emit(srv.here, <<[type |-> "START", gen |-> srv.gen + 1, owner |-> o],
                           [type |-> "PLAY"],
                           [type |-> "INIT", gen |-> srv.gen + 1, owner |-> o]>>)
  /\ log' = Append(log, <<>>)
  /\ UNCHANGED <<page, up, resyncs, shown>>

\* Mutant: the seats that have played are kept.
NoMatch_KeepsSeated(s) ==
  [s EXCEPT !.on = FALSE, !.owner = None, !.ready = FALSE, !.slots = {}]

NoMatch(s) ==
  [s EXCEPT !.on = FALSE, !.owner = None, !.ready = FALSE, !.slots = {},
            !.seated = {}]

EndMatch ==
  /\ srv.on
  /\ srv' = NoMatch(srv)
  /\ Emit(srv.here, <<[type |-> "END"]>>)
  /\ UNCHANGED <<page, up, resyncs, log, shown>>

\* leave, with the death of the seat: the board's initializer hands over
\* while the board is not committed, the last seat ends the match.  The
\* page disconnects and no longer counts.
Leave(c) ==
  /\ c \in Leavers \cap srv.here
  /\ LET rest == srv.here \ {c}
         s == [srv EXCEPT !.here = rest]
     IN IF ~srv.on THEN srv' = s /\ UNCHANGED <<flight, down>>
        ELSE IF rest \cap srv.slots = {}
        THEN srv' = NoMatch(s) /\ Emit(rest, <<[type |-> "END"]>>)
        ELSE IF srv.owner = c /\ ~srv.ready
        THEN \E o \in rest \cap srv.slots :
               /\ srv' = [s EXCEPT !.owner = o]
               /\ Emit(rest, <<[type |-> "INIT", gen |-> srv.gen, owner |-> o]>>)
        ELSE srv' = s /\ UNCHANGED <<flight, down>>
  /\ up' = [up EXCEPT ![c] = <<>>]
  /\ UNCHANGED <<page, resyncs, log, shown>>

\* Mutant: the generation of a message is not compared.
FromSeat_AnyGen(c, m) == srv.on /\ c \in srv.slots

\* require_native_sender
FromSeat(c, m) == srv.on /\ c \in srv.slots /\ m.gen = srv.gen

\* cmd_collectables_delta takes the board.
Accepts(c, m) ==
  /\ FromSeat(c, m) /\ c \in srv.seated
  /\ IF srv.ready THEN ~m.initial /\ m.base = BoardRev
     ELSE m.initial /\ m.base = 0 /\ c = srv.owner

TakeSeat(c, m) ==
  /\ srv' = IF FromSeat(c, m) THEN [srv EXCEPT !.seated = @ \cup {c}] ELSE srv
  /\ UNCHANGED <<flight, down, log>>

\* A refused board is answered by an ERROR that the page only shows.
TakeBoard(c, m) ==
  IF ~Accepts(c, m) THEN UNCHANGED <<srv, flight, down, log>>
  ELSE LET rev == BoardRev + 1
           board == [type |-> "BOARD", gen |-> srv.gen, rev |-> rev,
                     eaten |-> m.eaten]
           ready == [type |-> "READY", gen |-> srv.gen, rev |-> rev]
       IN /\ srv' = [srv EXCEPT !.ready = TRUE]
          /\ log' = [log EXCEPT ![srv.gen] =
                       Append(@, [gen |-> m.gen, board |-> m.eaten])]
          /\ Emit(srv.here, IF m.initial THEN <<board, ready>> ELSE <<board>>)

\* cmd_resync: the replay is one batch, with the ROSTER at its end.
TakeResync(c) ==
  /\ LET replay == [type |-> "REPLAY", gen |-> srv.gen, rev |-> BoardRev,
                    ready |-> srv.ready, owner |-> srv.owner]
         board == [type |-> "BOARD", gen |-> srv.gen, rev |-> BoardRev,
                   eaten |-> Last(log[srv.gen]).board]
         ready == [type |-> "READY", gen |-> srv.gen, rev |-> BoardRev]
         roster == [type |-> "ROSTER"]
     IN Emit({c}, IF ~srv.on THEN <<roster>>
                  ELSE IF ~srv.ready THEN <<replay, roster>>
                  ELSE <<replay, board, ready, roster>>)
  /\ UNCHANGED <<srv, log>>

Receive(c) ==
  /\ up[c] # <<>>
  /\ LET m == Head(up[c])
     IN \/ m.type = "SEAT" /\ TakeSeat(c, m)
        \/ m.type = "BOARD" /\ TakeBoard(c, m)
        \/ m.type = "RESYNC" /\ TakeResync(c)
  /\ up' = [up EXCEPT ![c] = Tail(@)]
  /\ UNCHANGED <<page, resyncs, shown>>

----------------------------------------------------------------------------
(***************************************************************************)
(* The pages.                                                              *)
(***************************************************************************)
Sends(c, res) ==
  /\ page' = [page EXCEPT ![c] = res.page]
  /\ up' = [up EXCEPT ![c] = @ \o res.out]

\* The board page p takes over when it handles m: applied at once, or at
\* the end of a replay.
Taken(p, m) ==
  IF m.type = "BOARD" /\ AppliesBoard(p, m)
  THEN [gen |-> m.gen, rev |-> m.rev, board |-> m.eaten]
  ELSE IF m.type = "ROSTER" /\ p.relay /\ p.stage # None
  THEN IF p.stage.board = None THEN NoShown
       ELSE [gen |-> p.stage.gen, rev |-> p.stage.rev, board |-> p.stage.board]
  ELSE NoShown

Deliver(c) ==
  /\ c \in srv.here /\ down[c] # <<>>
  /\ LET m == Head(down[c])
         t == Taken(page[c], m)
     IN /\ Sends(c, Handle(page[c], c, m))
        /\ shown' = IF t = NoShown THEN shown ELSE [shown EXCEPT ![c] = t]
  /\ down' = [down EXCEPT ![c] = Tail(@)]
  /\ UNCHANGED <<srv, flight, resyncs, log>>

Local(c) == c \in srv.here /\ UNCHANGED <<srv, flight, down, log, shown>>

Begin(c) ==
  /\ Local(c) /\ CanBegin(page[c])
  /\ Sends(c, Quiet(Begun(page[c])))
  /\ UNCHANGED resyncs

TakePlace(c) ==
  /\ Local(c) /\ CanSeat(page[c])
  /\ Sends(c, Seat(page[c], c))
  /\ UNCHANGED resyncs

Eat(c, f) ==
  /\ Local(c) /\ CanEat(page[c], f)
  /\ page[c].srev + page[c].pub < MaxRev
  /\ Sends(c, Quiet(Ate(page[c], f)))
  /\ UNCHANGED resyncs

PublishTimer(c) ==
  /\ Local(c) /\ page[c].pub > 0
  /\ Sends(c, PublishEaten(page[c], c))
  /\ UNCHANGED resyncs

\* A gap in the sequence numbers, a reconnect, an ERROR that rolls back, or
\* a new focus.
Resync(c) ==
  /\ Local(c) /\ resyncs < MaxResync
  /\ resyncs' = resyncs + 1
  /\ Sends(c, [page |-> page[c], out |-> <<[type |-> "RESYNC"]>>])

Next ==
  \/ StartMatch \/ EndMatch \/ SendBatch
  \/ \E c \in Clients :
       \/ Leave(c) \/ Receive(c) \/ Deliver(c) \/ Begin(c) \/ TakePlace(c)
       \/ PublishTimer(c) \/ Resync(c)
       \/ \E f \in Fruits : Eat(c, f)

Spec == Init /\ [][Next]_vars

(***************************************************************************)
(* Tasks send; a socket delivers while either direction has a message; a   *)
(* page goes on while a timer of it is due or its native game can start.   *)
(* Nobody has to start or end a match, to eat or to resync.                *)
(***************************************************************************)
FairSpec ==
  /\ Spec /\ WF_vars(SendBatch)
  /\ \A c \in Clients :
       /\ WF_vars(Receive(c) \/ Deliver(c))
       /\ WF_vars(Begin(c) \/ TakePlace(c) \/ PublishTimer(c))

----------------------------------------------------------------------------
(***************************************************************************)
(* Properties.                                                             *)
(***************************************************************************)
Stages ==
  {None} \cup [gen : 1..MaxGen, rev : Nat, ready : BOOLEAN,
               owner : Clients \cup {None},
               board : {None} \cup SUBSET Fruits]

Pages ==
  [gen : 0..MaxGen, rev : Nat, ready : BOOLEAN, owner : Clients \cup {None},
   stage : Stages, sgen : Nat, state : {"Lobby", "Seating", "Live"},
   srev : Nat, sready : BOOLEAN, seated : BOOLEAN, relay : BOOLEAN,
   active : BOOLEAN, spawn : BOOLEAN, initReq : BOOLEAN, over : BOOLEAN,
   play : BOOLEAN, pub : Nat, eaten : SUBSET Fruits]

TypeOK ==
  /\ \A c \in Clients : page[c] \in Pages
  /\ srv \in [gen : 0..MaxGen, on : BOOLEAN, owner : Clients \cup {None},
              ready : BOOLEAN, slots : SUBSET Clients,
              seated : SUBSET Clients, here : SUBSET Clients]
  /\ srv.seated \subseteq srv.slots
  /\ Len(log) = srv.gen
  /\ Len(flight) <= MaxFlight
  /\ resyncs \in 0..MaxResync

Runs(c) == page[c].active /\ page[c].relay /\ c \in srv.here

\* A page that plays a match counts its events, seats and revisions for the
\* generation the server has negotiated ("Legacy callers outside negotiated
\* co-op retain the old local reset", session.js).
NegotiatedGen == \A c \in Clients : Runs(c) => page[c].sgen = page[c].gen

IsUpdate(m, g) == m.type = "BOARD" /\ ~m.initial /\ m.gen = g

OwnUpdates(c) ==
  Cardinality({i \in DOMAIN up[c] : IsUpdate(up[c][i], srv.gen)})

\* A page never counts further than the server plus its own boards on the
\* way: a page ahead of the server with nothing on the way would name a
\* base the server never reaches, and all it publishes would be refused.
NeverAhead ==
  \A c \in Clients :
    Runs(c) /\ srv.on /\ page[c].gen = srv.gen =>
      page[c].srev <= BoardRev + OwnUpdates(c)

Abstract == INSTANCE BoardLog WITH Boards <- SUBSET Fruits

\* The boards the pages take over are those the server has committed, in
\* that order, each for its own match (BoardLog).
BoardsFollowLog == Abstract!Spec

\* Every match gets its board: the page of every seat that stays gets the
\* initial board of its match, through handovers and replays, or the match
\* ends.
EverySeatGetsBoard ==
  \A c \in Clients :
    (srv.on /\ c \in srv.slots \cap srv.here) ~>
      \/ ~srv.on \/ c \notin srv.here
      \/ page[c].gen = srv.gen /\ page[c].ready /\ shown[c].gen = srv.gen

AtRest ==
  /\ flight = <<>>
  /\ \A c \in srv.here : up[c] = <<>> /\ down[c] = <<>> /\ page[c].pub = 0

\* When nothing is on the way, the pages of a match show the board of the
\* server ("Initial + runtime mid-match fruit (eater publishes; peers apply
\* once)", mod.js).
BoardsAgreeAtRest ==
  AtRest /\ srv.on /\ srv.ready =>
    \A c \in srv.here :
      Runs(c) /\ page[c].spawn => page[c].eaten = Last(log[srv.gen]).board
=============================================================================
