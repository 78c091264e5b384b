----------------------------- MODULE PoseRelay -----------------------------
(***************************************************************************)
(* The snake of one seat of a native co-op match, from its page through    *)
(* the server to the other pages: the poses with their journal of turns    *)
(* (observeNativePose, ackTurns and mergePoseTurns in src/coop/session.js, *)
(* validate_native_turns in server/src/room.rs), the coalescing of poses   *)
(* between two ticks, deaths, and the replay after a RESYNC.  The seats of *)
(* a match do not touch each other's poses, so one is enough.              *)
(*                                                                         *)
(* A journal is the set of its turn numbers, which are distinct and kept   *)
(* in order; what a turn says never changes once it has its number, so the *)
(* comparison of repeated turns is left out.  Of a body only the number of *)
(* turns made so far is kept.  eventSeq and poseSeq are one counter: both  *)
(* go up with every pose, and a pose that is late for one is late for the  *)
(* other.  A replay is one message: nothing else of this channel is on a   *)
(* socket between its parts (CoopBoard has them one by one).               *)
(***************************************************************************)
EXTENDS Naturals, Sequences, FiniteSets, FiniteSetsExt, SequencesExt

CONSTANTS
  Player,      \* the page of the seat
  Watchers,    \* the other pages
  None,        \* no pose, no snake
  Window,      \* turns in a journal: 8, MAX_NATIVE_TURNS
  MaxSeq,      \* events of the player
  MaxTurns,    \* turns of the player
  MaxFlight,   \* batches taken and not yet sent
  MaxResync    \* resyncs asked for

ASSUME PlayerIsNoWatcher == Player \notin Watchers
ASSUME BoundsNat == {MaxSeq, MaxTurns, MaxFlight, MaxResync} \subseteq Nat
ASSUME WindowNat == Window \in Nat \ {0}
ASSUME NoneIsNoSnake == None \notin [at : Nat, turns : SUBSET Nat, dead : BOOLEAN]

Pages == {Player} \cup Watchers

VARIABLES
  me,       \* the page of the seat: its counters, turns and queued pose
  up,       \* its messages on the way to the server
  srv,      \* what the server keeps of the seat
  flight,   \* batches taken from the outbox
  down,     \* down[c]: messages on the way to page c
  view,     \* view[c]: what page c has of the seat
  resyncs   \* resyncs so far

vars == <<me, up, srv, flight, down, view, resyncs>>

----------------------------------------------------------------------------
(***************************************************************************)
(* Journals.                                                               *)
(***************************************************************************)
Newest(S) == IF S = {} THEN 0 ELSE Max(S)

\* slice(-8), and drain on the server.
LastOf(S) == {t \in S : Cardinality({u \in S : u > t}) < Window}

\* mergePoseTurns: the newest contiguous run.
Merge(prev, new) ==
  LET S == prev \cup new
  IN LastOf({t \in S : (t .. Newest(S)) \subseteq S})

Pose(p) == [type |-> "POSE", seq |-> p.seq, turns |-> p.turns, at |-> p.made]

----------------------------------------------------------------------------
(***************************************************************************)
(* view[c]: seen and turns are CoopState's peerPoseSeq and peerTurns of    *)
(* the seat; native and remote are CoopNative's peerPoseSeq and remotes    *)
(* (with _deadSticky as dead); pending is the pose of                      *)
(* _pendingCoopSnakeDeltas.  srv: high, journal and last are               *)
(* last_turn_seq, turn_journals and last_event_seq of the seat, pose is    *)
(* its entry of poses.                                                     *)
(***************************************************************************)
NoView == [seen |-> 0, turns |-> {}, native |-> 0, remote |-> None,
           pending |-> None]

\* The seat has been taken; the board is not there yet.
Init ==
  /\ me = [seq |-> 0, made |-> 0, acked |-> 0, turns |-> {}, moved |-> FALSE,
           queued |-> None, ready |-> FALSE, dead |-> FALSE, here |-> TRUE]
  /\ up = <<>>
  /\ srv = [high |-> 0, journal |-> {}, last |-> 0, pose |-> None,
            alive |-> TRUE, ready |-> FALSE]
  /\ flight = <<>>
  /\ down = [c \in Pages |-> <<>>]
  /\ view = [c \in Pages |-> NoView]
  /\ resyncs = 0

----------------------------------------------------------------------------
(***************************************************************************)
(* The player's page.                                                      *)
(***************************************************************************)
\* Mutant: the journal of the page is not cut.
Observe_Uncut(p, moves, turns) ==
  [p EXCEPT !.seq = @ + 1, !.moved = @ \/ moves,
            !.made = IF turns THEN @ + 1 ELSE @,
            !.turns = IF turns THEN @ \cup {p.made + 1} ELSE @]

\* nextPoseSeq and observeNativePose: a turn the engine has made gets the
\* next number.
Observe(p, moves, turns) ==
  [p EXCEPT !.seq = @ + 1, !.moved = @ \/ moves,
            !.made = IF turns THEN @ + 1 ELSE @,
            !.turns = IF turns THEN LastOf(@ \cup {p.made + 1}) ELSE @]

\* publishCoopState after a native tick.  A page that has moved queues its
\* poses until it has the board.
Tick ==
  /\ me.here /\ ~me.dead /\ me.seq < MaxSeq
  /\ \E moves, turns \in BOOLEAN :
       /\ turns => moves /\ me.made < MaxTurns
       /\ LET p == Observe(me, moves, turns)
          IN IF p.moved /\ ~p.ready
             THEN me' = [p EXCEPT !.queued = Pose(p)] /\ UNCHANGED up
             ELSE me' = p /\ up' = Append(up, Pose(p))
  /\ UNCHANGED <<srv, flight, down, view, resyncs>>

\* publishInitialCoopBoard, when the seat is the one that was asked.
PublishBoard ==
  /\ me.here /\ ~me.ready /\ me.seq < MaxSeq
  /\ me' = [me EXCEPT !.seq = @ + 1]
  /\ up' = Append(up, [type |-> "BOARD", seq |-> me.seq + 1])
  /\ UNCHANGED <<srv, flight, down, view, resyncs>>

\* The death of the local snake: nothing but it is sent any more.
Die ==
  /\ me.here /\ ~me.dead /\ me.seq < MaxSeq
  /\ me' = [me EXCEPT !.dead = TRUE, !.seq = @ + 1]
  /\ up' = Append(up, [type |-> "DEAD", seq |-> me.seq + 1, at |-> me.made])
  /\ UNCHANGED <<srv, flight, down, view, resyncs>>

\* Mutant: turns are taken as acknowledged up to the newest made.
Acked_All(p, n) == [p EXCEPT !.acked = p.made, !.turns = {}]

\* ackTurns
Acked(p, n) ==
  IF n <= p.acked THEN p
  ELSE LET a == Min({n, p.made})
       IN [p EXCEPT !.acked = a, !.turns = {t \in @ : t > a}]

----------------------------------------------------------------------------
(***************************************************************************)
(* The server.                                                             *)
(***************************************************************************)
Present == IF me.here THEN Pages ELSE Watchers

Emit(to, m) ==
  /\ Len(flight) < MaxFlight
  /\ flight' = Append(flight, [to |-> to, msg |-> m])

\* Two batches may be sent in the other order (main.rs, flush_outbox).
SendBatch ==
  /\ \E i \in DOMAIN flight :
       /\ down' = [c \in Pages |->
                     IF c \in flight[i].to \cap Present
                     THEN Append(down[c], flight[i].msg) ELSE down[c]]
       /\ flight' = RemoveAt(flight, i)
  /\ UNCHANGED <<me, up, srv, view, resyncs>>

\* Mutant: the first turn of a pose must be the next one.
TurnsFit_NoOverlap(turns) ==
  \A t \in turns : ((srv.high + 1) .. t) \subseteq turns /\ t > srv.high

\* validate_native_turns: stale_turn_overlap, turn_suffix_not_contiguous,
\* turn_seq_regression.
TurnsFit(turns) ==
  /\ \A t \in turns : t <= srv.high => t \in srv.journal
  /\ \A t \in turns : ((srv.high + 1) .. t) \subseteq turns
  /\ turns = {} \/ Newest(turns) >= srv.high

\* A pose may also be refused for what it says of the mode, the body or
\* the colors; the answer is an ERROR that changes nothing on the page.
TakePose(m) ==
  \/ UNCHANGED <<srv, flight>>
  \/ /\ m.seq > srv.last /\ srv.alive /\ TurnsFit(m.turns)
     /\ LET j == LastOf(srv.journal \cup {t \in m.turns : t > srv.high})
            p == [seq |-> m.seq, turns |-> j, at |-> m.at]
        IN /\ srv' = [srv EXCEPT !.last = m.seq, !.journal = j,
                        !.high = IF j = {} THEN @ ELSE Newest(j),
                        !.pose = p]
           /\ Emit(Present, [type |-> "SNAKE", pose |-> p])

\* The board commits: the poses are cleared, the journals are not.
CommitBoard ==
  /\ ~srv.ready
  /\ Emit(Present, [type |-> "READY"])

TakeBoard(m) ==
  IF m.seq > srv.last /\ ~srv.ready
  THEN /\ CommitBoard
       /\ srv' = [srv EXCEPT !.last = m.seq, !.ready = TRUE, !.pose = None]
  ELSE UNCHANGED <<srv, flight>>

OtherBoard ==
  /\ CommitBoard
  /\ srv' = [srv EXCEPT !.ready = TRUE, !.pose = None]
  /\ UNCHANGED <<me, up, down, view, resyncs>>

\* mark_native_seat_dead
Bury(corpse) ==
  /\ srv' = [srv EXCEPT !.alive = FALSE, !.pose = corpse]
  /\ Emit(Present, [type |-> "DEAD", pose |-> corpse])

NoSeq(at) == [seq |-> 0, turns |-> {}, at |-> at]

\* The corpse is the payload, which has no poseSeq; it may be refused for
\* its body.
TakeDead(m) ==
  \/ UNCHANGED <<srv, flight>>
  \/ srv.alive /\ m.seq > srv.last /\ Bury(NoSeq(m.at))

\* leave: the corpse is the last pose, with its poseSeq.
Leave ==
  /\ me.here
  /\ me' = [me EXCEPT !.here = FALSE]
  /\ up' = <<>>
  /\ down' = [down EXCEPT ![Player] = <<>>]
  /\ IF srv.alive
     THEN Bury(IF srv.pose = None THEN NoSeq(0) ELSE srv.pose)
     ELSE UNCHANGED <<srv, flight>>
  /\ UNCHANGED <<view, resyncs>>

Receive ==
  /\ up # <<>>
  /\ LET m == Head(up)
     IN \/ m.type = "POSE" /\ TakePose(m)
        \/ m.type = "BOARD" /\ TakeBoard(m)
        \/ m.type = "DEAD" /\ TakeDead(m)
  /\ up' = Tail(up)
  /\ UNCHANGED <<me, down, view, resyncs>>

\* cmd_resync; the request itself takes no time.
Resync(c) ==
  /\ c \in Present /\ resyncs < MaxResync
  /\ resyncs' = resyncs + 1
  /\ Emit({c}, [type |-> "REPLAY", pose |-> srv.pose])
  /\ UNCHANGED <<me, up, srv, down, view>>

----------------------------------------------------------------------------
(***************************************************************************)
(* The pages.                                                              *)
(***************************************************************************)
\* Mutant: the sequence number of a pose is not compared.
Accepts_Any(v, p) == TRUE

\* acceptPose, for a pose with a poseSeq.
Accepts(v, p) == p.seq > v.seen

Accepted(v, p) == [v EXCEPT !.seen = p.seq, !.turns = Merge(@, p.turns)]

\* Mutant: a pose decides whether the snake is dead.
Shown_Revives(v, p) ==
  IF p.seq # 0 /\ p.seq <= v.native THEN v
  ELSE [v EXCEPT !.native = IF p.seq = 0 THEN @ ELSE p.seq,
                 !.remote = [at |-> p.at, turns |-> p.turns, dead |-> FALSE]]

\* applySnakeDelta: a pose leaves a dead snake dead and kills none.
Shown(v, p) ==
  IF p.seq # 0 /\ p.seq <= v.native THEN v
  ELSE [v EXCEPT !.native = IF p.seq = 0 THEN @ ELSE p.seq,
                 !.remote = [at |-> p.at, turns |-> p.turns,
                             dead |-> v.remote # None /\ v.remote.dead]]

\* SNAKE_DELTA.  While the engine of the page ticks, the pose waits for
\* the next tick.
OnSnake(c, p) ==
  LET v == Accepted(view[c], p)
      q == [p EXCEPT !.turns = v.turns]
  IN IF ~Accepts(view[c], p) THEN UNCHANGED <<me, view>>
     ELSE IF c = Player
     THEN /\ me' = Acked(me, Newest(q.turns))
          /\ view' = [view EXCEPT ![c] = v]
     ELSE /\ \/ view' = [view EXCEPT ![c] = [v EXCEPT !.pending = q]]
             \/ view' = [view EXCEPT ![c] = Shown(v, q)]
          /\ UNCHANGED me

\* COOP_PLAYER_DEAD: stageDeath takes a corpse with a poseSeq for a pose.
OnDead(c, p) ==
  LET v == IF p.seq = 0 THEN view[c] ELSE Accepted(view[c], p)
      r == IF v.remote = None THEN [at |-> 0, turns |-> {}, dead |-> TRUE]
           ELSE [v.remote EXCEPT !.dead = TRUE]
  IN /\ IF p.seq # 0 /\ ~Accepts(view[c], p) THEN UNCHANGED view
        ELSE view' = [view EXCEPT ![c] =
                        [v EXCEPT !.pending = None,
                                  !.remote = IF c = Player THEN @ ELSE r]]
     /\ UNCHANGED me

\* A replay: the poses of the page are replaced by the server's, through
\* applySnakeDelta, whatever their type was.
OnReplay(c, p) ==
  LET new == [NoView EXCEPT !.pending = view[c].pending]
      v == Accepted(new, p)
  IN /\ view' = [view EXCEPT ![c] =
                   IF p = None THEN new
                   ELSE IF c = Player THEN v
                   ELSE Shown(v, [p EXCEPT !.turns = v.turns])]
     /\ UNCHANGED me

\* COOP_BOARD_READY at the player: the queued pose, then a new one.
OnReady(c) ==
  /\ IF c # Player THEN UNCHANGED <<me, up>>
     ELSE LET p == IF me.dead THEN me ELSE Observe(me, FALSE, FALSE)
              queued == IF me.queued = None THEN <<>> ELSE <<me.queued>>
              new == IF me.dead THEN <<>> ELSE <<Pose(p)>>
          IN /\ me' = [p EXCEPT !.ready = TRUE, !.queued = None]
             /\ up' = up \o queued \o new
  /\ UNCHANGED view

Deliver(c) ==
  /\ down[c] # <<>>
  /\ LET m == Head(down[c])
     IN \/ m.type = "SNAKE" /\ OnSnake(c, m.pose) /\ UNCHANGED up
        \/ m.type = "DEAD" /\ OnDead(c, m.pose) /\ UNCHANGED up
        \/ m.type = "REPLAY" /\ OnReplay(c, m.pose) /\ UNCHANGED up
        \/ m.type = "READY" /\ OnReady(c)
  /\ down' = [down EXCEPT ![c] = Tail(@)]
  /\ UNCHANGED <<srv, flight, resyncs>>

\* flushPendingCoopSnakeDeltas, at a tick of the page.
Flush(c) ==
  /\ view[c].pending # None
  /\ view' = [view EXCEPT ![c] =
                Shown([view[c] EXCEPT !.pending = None], view[c].pending)]
  /\ UNCHANGED <<me, up, srv, flight, down, resyncs>>

Next ==
  \/ Tick \/ PublishBoard \/ Die \/ Leave \/ Receive \/ OtherBoard \/ SendBatch
  \/ \E c \in Pages : Resync(c) \/ Deliver(c) \/ Flush(c)

Spec == Init /\ [][Next]_vars

----------------------------------------------------------------------------
(***************************************************************************)
(* Properties.                                                             *)
(***************************************************************************)
Turns == SUBSET (1 .. MaxTurns)

Poses == [seq : Nat, turns : Turns, at : 0 .. MaxTurns]

TypeOK ==
  /\ me.seq \in Nat /\ me.made \in 0 .. MaxTurns /\ me.acked \in 0 .. me.made
  /\ me.turns \in Turns /\ Cardinality(me.turns) <= Window
  /\ srv.high \in 0 .. MaxTurns /\ srv.journal \in Turns
  /\ srv.pose \in Poses \cup {None}
  /\ \A c \in Pages :
       /\ view[c].seen \in Nat /\ view[c].native \in Nat
       /\ view[c].turns \in Turns
       /\ view[c].pending \in Poses \cup {None}
       /\ view[c].remote \in {None} \cup
            [at : 0 .. MaxTurns, turns : Turns, dead : BOOLEAN]

\* The last turns up to n: what a journal should hold.
LastTurns(n) == {t \in 1 .. n : t + Window > n}

\* The server's journal is that of the turns the player has made, without a
\* gap, and what the player still sends begins no later than it must: an
\* acknowledgement removes no turn the server does not have, except when
\* more are missing than a journal holds.
JournalsConnect ==
  /\ srv.journal = LastTurns(srv.high)
  /\ srv.high <= me.made
  /\ LastTurns(me.made) \subseteq 1 .. srv.high \cup me.turns

\* A pose that arrives in time is not refused for its turns, unless more
\* turns are missing than a journal holds: the server tells a gap
\* (turn_suffix_not_contiguous) or a forgotten turn (stale_turn_overlap)
\* only then.
InTimeTurnsFit ==
  up # <<>> /\ Head(up).type = "POSE" /\ Head(up).seq > srv.last
  /\ Head(up).at <= srv.high + Window
    => TurnsFit(Head(up).turns)

\* The body a page draws and the turns it draws it with are of one pose:
\* the newest turn is the last the body has made, and none is missing
\* before it, whatever has been dropped, coalesced, overtaken or replayed
\* (a corpse that is replayed has no turns).
BodyMatchesTurns ==
  \A c \in Watchers :
    LET r == view[c].remote
    IN r # None /\ ~r.dead /\ srv.alive => r.turns = LastTurns(r.at)

\* Nothing is on the way to a page, and it has applied what it got.
AtRest(c) ==
  flight = <<>> /\ down[c] = <<>> /\ view[c].pending = None

\* A page that has got everything shows the death of the seat
\* ("Authoritative death still applies immediately via COOP_PLAYER_DEAD",
\* mod.js).
DeathShown ==
  \A c \in Watchers :
    AtRest(c) /\ ~srv.alive => view[c].remote # None /\ view[c].remote.dead

\* The same for a death its own page has announced and for pages that have
\* asked for no replay.
AnnouncedDeathShown ==
  srv.pose # None /\ srv.pose.seq = 0 /\ resyncs = 0 => DeathShown
=============================================================================
