--------------------------- MODULE CoopBoardProofs ---------------------------
(***************************************************************************)
(* What holds of the boards of native co-op matches, for any number of     *)
(* pages, fruits, matches, revisions and resyncs: what pages show is what  *)
(* the server has committed (BoardLog), a page plays the match it has been *)
(* told of, and it does not count past the server.                         *)
(***************************************************************************)
EXTENDS CoopBoard, FiniteSetTheorems, SequenceTheorems, TLAPS

-----------------------------------------------------------------------------
(* Types                                                                   *)

Gens == 1 .. MaxGen

\* What the server sends.
Starts  == [type : {"START"}, gen : Gens, owner : Clients]
Inits   == [type : {"INIT"}, gen : Gens, owner : Clients]
Plain   == [type : {"PLAY", "ROSTER", "END"}]
BoardsDown  == [type : {"BOARD"}, gen : Gens, rev : Nat \ {0}, eaten : SUBSET Fruits]
Readies == [type : {"READY"}, gen : Gens, rev : Nat \ {0}]
Replays == [type : {"REPLAY"}, gen : Gens, rev : Nat, ready : BOOLEAN,
            owner : Clients \cup {None}]
Downs == Starts \cup Inits \cup Plain \cup BoardsDown \cup Readies \cup Replays

\* What pages send.
Seats    == [type : {"SEAT"}, gen : 0 .. MaxGen]
BoardsUp == [type : {"BOARD"}, gen : 0 .. MaxGen, base : Nat, initial : BOOLEAN,
             eaten : SUBSET Fruits]
Resyncs  == [type : {"RESYNC"}]
Ups == Seats \cup BoardsUp \cup Resyncs

Servers ==
  [gen : 0 .. MaxGen, on : BOOLEAN, owner : Clients \cup {None},
   ready : BOOLEAN, slots : SUBSET Clients, seated : SUBSET Clients,
   here : SUBSET Clients]

Entries == [gen : Gens, board : SUBSET Fruits]

Batches == [to : SUBSET Clients, msgs : Seq(Downs)]

\* TypeOK, with the messages, the log, and what a match that is on has.
PagesTyped == page \in [Clients -> Pages] /\ up \in [Clients -> Seq(Ups)]

NetTyped ==
  /\ down \in [Clients -> Seq(Downs)]
  /\ flight \in Seq(Batches) /\ Len(flight) <= MaxFlight

ServerTyped ==
  /\ srv \in Servers
  /\ srv.seated \subseteq srv.slots
  /\ log \in Seq(Seq(Entries)) /\ Len(log) = srv.gen
  /\ srv.on => srv.gen \in Gens /\ srv.owner \in Clients
  /\ srv.ready => srv.on /\ Len(log[srv.gen]) > 0

TypeInv == PagesTyped /\ NetTyped /\ ServerTyped /\ resyncs \in 0 .. MaxResync

LEMMA TypeInvImplies == TypeInv => TypeOK
BY DEF TypeInv, PagesTyped, NetTyped, ServerTyped, TypeOK, Servers

-----------------------------------------------------------------------------
(* The handlers of a page                                                  *)

LEMMA Bounds == MaxGen \in Nat /\ MaxFlight \in Nat /\ MaxResync \in Nat
BY BoundsNat

LEMMA NoStage == None \in Stages
BY DEF Stages

LEMMA BindTyped ==
  ASSUME NEW p \in Pages, NEW g \in Nat, NEW b \in BOOLEAN
  PROVE  BindGeneration(p, g, b) \in Pages
BY DEF BindGeneration, Pages

LEMMA MarkReadyTyped ==
  ASSUME NEW p \in Pages, NEW r \in Nat
  PROVE  MarkBoardReady(p, r) \in Pages
<1> DEFINE st == IF p.seated THEN "Live" ELSE p.state
           q == [p EXCEPT !.srev = r, !.sready = TRUE, !.state = st]
<1>1. st \in {"Lobby", "Seating", "Live"}
  BY DEF Pages
<1>2. q \in Pages
  <2> HIDE DEF st
  <2> QED BY <1>1 DEF Pages
<1> QED BY <1>2 DEF MarkBoardReady

LEMMA PublishInitialTyped ==
  ASSUME NEW p \in Pages, NEW me
  PROVE  PublishInitial(p, me).page \in Pages /\ PublishInitial(p, me).out \in Seq(Ups)
<1>1. [type |-> "BOARD", gen |-> p.gen, base |-> 0, initial |-> TRUE,
       eaten |-> p.eaten] \in Ups
  BY DEF Pages, Ups, BoardsUp
<1>2. [p EXCEPT !.initReq = FALSE] \in Pages
  BY DEF Pages
<1> QED BY <1>1, <1>2 DEF PublishInitial, Quiet

LEMMA PublishTyped ==
  ASSUME NEW p \in Pages, NEW me
  PROVE  Publish(p, me).page \in Pages /\ Publish(p, me).out \in Seq(Ups)
<1>1. [type |-> "BOARD", gen |-> p.gen, base |-> p.srev, initial |-> FALSE,
       eaten |-> p.eaten] \in Ups
  BY DEF Pages, Ups, BoardsUp
<1>2. [p EXCEPT !.srev = @ + 1] \in Pages
  BY DEF Pages
<1> QED BY <1>1, <1>2, PublishInitialTyped DEF Publish, Quiet

LEMMA OnStartTyped ==
  ASSUME NEW p \in Pages, NEW m \in Starts
  PROVE  OnStart(p, m) \in Pages
<1> DEFINE d == [p EXCEPT !.gen = m.gen, !.rev = 0, !.ready = FALSE,
                   !.owner = m.owner, !.stage = None, !.relay = TRUE,
                   !.over = FALSE, !.initReq = FALSE, !.spawn = FALSE,
                   !.eaten = {}]
<1>1. m.gen \in 0 .. MaxGen /\ m.gen \in Nat /\ m.owner \in Clients
  BY Bounds DEF Starts, Gens
<1>2. d \in Pages
  BY <1>1, NoStage DEF Pages
<1> HIDE DEF d
<1>3. BindGeneration(d, m.gen, FALSE) \in Pages
  BY <1>1, <1>2, BindTyped
<1> QED BY <1>3 DEF OnStart, d

LEMMA OnReplayTyped ==
  ASSUME NEW p \in Pages, NEW m \in Replays
  PROVE  OnReplay(p, m) \in Pages
<1>1. [gen |-> m.gen, rev |-> m.rev, ready |-> m.ready, owner |-> m.owner,
       board |-> None] \in Stages
  BY DEF Replays, Stages, Gens
<1> QED BY <1>1 DEF OnReplay, Pages

LEMMA OnRosterTyped ==
  ASSUME NEW p \in Pages
  PROVE  OnRoster(p) \in Pages
<1> DEFINE s == p.stage
           d0 == [p EXCEPT !.gen = s.gen, !.rev = s.rev, !.ready = s.ready,
                           !.owner = s.owner, !.stage = None]
           b == BindGeneration(d0, s.gen, s.ready)
           d == [b EXCEPT !.eaten = IF s.board = None THEN @ ELSE s.board]
<1> SUFFICES ASSUME s # None PROVE OnRoster(p) \in Pages
  BY DEF OnRoster
<1>1. /\ s.gen \in 0 .. MaxGen /\ s.gen \in Nat /\ s.rev \in Nat /\ s.ready \in BOOLEAN
      /\ s.owner \in Clients \cup {None} /\ s.board \in {None} \cup SUBSET Fruits
  <2>1. s \in Stages
    BY DEF Pages
  <2> QED BY <2>1, Bounds DEF Stages
<1>2. d0 \in Pages
  <2> HIDE DEF s
  <2> QED BY <1>1, NoStage DEF Pages
<1>3. b \in Pages
  <2> HIDE DEF d0, s
  <2> QED BY <1>1, <1>2, BindTyped
<1>4. d \in Pages
  <2> HIDE DEF b, s
  <2> QED BY <1>1, <1>3 DEF Pages
<1>5. MarkBoardReady(d, s.rev) \in Pages
  <2> HIDE DEF d, s
  <2> QED BY <1>1, <1>4, MarkReadyTyped
<1> QED BY <1>4, <1>5 DEF OnRoster

LEMMA OnPlayTyped ==
  ASSUME NEW p \in Pages PROVE OnPlaySync(p) \in Pages
BY DEF OnPlaySync, Pages

LEMMA OnInitTyped ==
  ASSUME NEW p \in Pages, NEW me, NEW m \in Inits
  PROVE  OnBoardInit(p, me, m).page \in Pages /\ OnBoardInit(p, me, m).out \in Seq(Ups)
<1> DEFINE d == [p EXCEPT !.owner = m.owner, !.initReq = TRUE]
<1>1. d \in Pages
  BY DEF Pages, Inits
<1> HIDE DEF d
<1> QED BY <1>1, PublishInitialTyped DEF OnBoardInit, Quiet, d

\* A stage is a record when it is not None.
LEMMA StageTyped ==
  ASSUME NEW p \in Pages, p.stage # None
  PROVE  p.stage \in [gen : 1 .. MaxGen, rev : Nat, ready : BOOLEAN,
                      owner : Clients \cup {None},
                      board : {None} \cup SUBSET Fruits]
BY DEF Pages, Stages

LEMMA OnBoardTyped ==
  ASSUME NEW p \in Pages, NEW m \in BoardsDown
  PROVE  OnBoard(p, m) \in Pages
<1>1. m.rev \in Nat /\ m.eaten \in SUBSET Fruits
  BY DEF BoardsDown
<1>2. [p EXCEPT !.rev = m.rev, !.srev = m.rev, !.eaten = m.eaten] \in Pages
  BY <1>1 DEF Pages
<1>3. [p EXCEPT !.rev = m.rev] \in Pages
  BY <1>1 DEF Pages
<1>4. ASSUME p.stage # None
      PROVE  [p EXCEPT !.stage.rev = m.rev, !.stage.board = m.eaten] \in Pages
  <2> DEFINE s == [p.stage EXCEPT !.rev = m.rev, !.board = m.eaten]
  <2>1. s \in Stages
    BY <1>1, <1>4, StageTyped DEF Stages
  <2>2. [p EXCEPT !.stage.rev = m.rev, !.stage.board = m.eaten] = [p EXCEPT !.stage = s]
    BY <1>4, StageTyped DEF Pages
  <2> HIDE DEF s
  <2>3. [p EXCEPT !.stage = s] \in Pages
    BY <2>1 DEF Pages
  <2> QED BY <2>2, <2>3
<1> QED BY <1>2, <1>3, <1>4 DEF OnBoard

LEMMA OnReadyTyped ==
  ASSUME NEW p \in Pages, NEW m \in Readies
  PROVE  OnBoardReady(p, m) \in Pages
<1>1. m.rev \in Nat
  BY DEF Readies
<1>2. MarkBoardReady([p EXCEPT !.rev = m.rev, !.ready = TRUE], m.rev) \in Pages
  <2> DEFINE d == [p EXCEPT !.rev = m.rev, !.ready = TRUE]
  <2>1. d \in Pages
    BY <1>1 DEF Pages
  <2>2. MarkBoardReady(d, m.rev) \in Pages
    <3> HIDE DEF d
    <3> QED BY <1>1, <2>1, MarkReadyTyped
  <2> QED BY <2>2
<1>3. ASSUME p.stage # None
      PROVE  [p EXCEPT !.stage.rev = m.rev, !.stage.ready = TRUE] \in Pages
  <2> DEFINE s == [p.stage EXCEPT !.rev = m.rev, !.ready = TRUE]
  <2>1. s \in Stages
    BY <1>1, <1>3, StageTyped DEF Stages
  <2>2. [p EXCEPT !.stage.rev = m.rev, !.stage.ready = TRUE] = [p EXCEPT !.stage = s]
    BY <1>3, StageTyped DEF Pages
  <2> HIDE DEF s
  <2>3. [p EXCEPT !.stage = s] \in Pages
    BY <2>1 DEF Pages
  <2> QED BY <2>2, <2>3
<1> QED BY <1>2, <1>3 DEF OnBoardReady

LEMMA OnEndTyped ==
  ASSUME NEW p \in Pages PROVE OnEnd(p) \in Pages
<1>1. EnterLobby(p) \in Pages
  BY DEF EnterLobby, Pages
<1>2. ASSUME NEW d \in Pages
      PROVE  [d EXCEPT !.over = TRUE, !.play = FALSE, !.active = FALSE,
                !.relay = FALSE, !.spawn = FALSE, !.gen = 0, !.rev = 0,
                !.ready = FALSE, !.owner = None, !.stage = None,
                !.eaten = {}] \in Pages
  <2> DEFINE e == [d EXCEPT !.over = TRUE, !.play = FALSE, !.active = FALSE,
                     !.relay = FALSE, !.spawn = FALSE]
  <2>1. e \in Pages
    BY DEF Pages
  <2> HIDE DEF e
  <2>2. [e EXCEPT !.gen = 0, !.rev = 0, !.ready = FALSE, !.owner = None,
           !.stage = None, !.eaten = {}] \in Pages
    <3>1. 0 \in 0 .. MaxGen /\ {} \in SUBSET Fruits
      BY Bounds
    <3>2. [e EXCEPT !.gen = 0, !.rev = 0, !.ready = FALSE] \in Pages
      BY <2>1, <3>1 DEF Pages
    <3>3. ASSUME NEW x \in Pages
          PROVE  [x EXCEPT !.owner = None, !.stage = None, !.eaten = {}] \in Pages
      BY <3>1, NoStage DEF Pages
    <3> QED BY <3>2, <3>3, Zenon
  <2>3. e = [d EXCEPT !.over = TRUE, !.play = FALSE, !.active = FALSE,
               !.relay = FALSE, !.spawn = FALSE]
    BY DEF e
  <2> QED BY <2>2, <2>3 DEF Pages
<1> QED BY <1>1, <1>2 DEF OnEnd

LEMMA MarkSeatedTyped ==
  ASSUME NEW p \in Pages PROVE MarkSeated(p) \in Pages
<1>1. ASSUME NEW st \in {"Lobby", "Seating", "Live"}
      PROVE  [p EXCEPT !.seated = TRUE, !.state = st] \in Pages
  BY DEF Pages
<1> QED BY <1>1 DEF MarkSeated

LEMMA SeatTyped ==
  ASSUME NEW p \in Pages, NEW me
  PROVE  Seat(p, me).page \in Pages /\ Seat(p, me).out \in Seq(Ups)
<1> DEFINE d == [p EXCEPT !.spawn = TRUE]
           s == MarkSeated(d)
           pose == IF p.relay THEN <<[type |-> "SEAT", gen |-> p.gen]>> ELSE <<>>
<1>1. d \in Pages
  BY DEF Pages
<1>2. s \in Pages
  <2> HIDE DEF d
  <2> QED BY <1>1, MarkSeatedTyped
<1>3. Publish(s, me).page \in Pages /\ Publish(s, me).out \in Seq(Ups)
  <2> HIDE DEF s
  <2> QED BY <1>2, PublishTyped
<1>4. pose \in Seq(Ups)
  <2>1. [type |-> "SEAT", gen |-> p.gen] \in Ups
    BY DEF Pages, Ups, Seats
  <2> QED BY <2>1
<1>5. /\ Seat(p, me).page = Publish(s, me).page
      /\ Seat(p, me).out = pose \o Publish(s, me).out
  BY DEF Seat, Publish, PublishInitial, Quiet
<1>6. pose \o Publish(s, me).out \in Seq(Ups)
  <2> HIDE DEF pose, s
  <2> QED BY <1>3, <1>4, ConcatProperties
<1> QED BY <1>3, <1>5, <1>6

LEMMA BegunTyped ==
  ASSUME NEW p \in Pages PROVE Begun(p) \in Pages
<1>1. EnterSeating(p) \in Pages
  <2>1. ASSUME NEW n \in Nat
        PROVE  [p EXCEPT !.sgen = n, !.state = "Seating", !.seated = FALSE,
                  !.srev = 0, !.sready = FALSE] \in Pages
    BY DEF Pages
  <2>2. p.sgen + 1 \in Nat
    BY DEF Pages
  <2> QED BY <2>1, <2>2 DEF EnterSeating
<1>2. ASSUME NEW d \in Pages
      PROVE  [d EXCEPT !.play = FALSE, !.active = TRUE, !.spawn = FALSE] \in Pages
  BY DEF Pages
<1> QED BY <1>1, <1>2 DEF Begun

LEMMA AteTyped ==
  ASSUME NEW p \in Pages, NEW f \in Fruits PROVE Ate(p, f) \in Pages
<1>1. p.eaten \cup {f} \in SUBSET Fruits /\ p.pub + 1 \in Nat
  BY DEF Pages
<1>2. ASSUME NEW e \in SUBSET Fruits, NEW n \in Nat
      PROVE  [p EXCEPT !.eaten = e, !.pub = n] \in Pages
  BY DEF Pages
<1>3. Ate(p, f) = [p EXCEPT !.eaten = p.eaten \cup {f}, !.pub = p.pub + 1]
  BY DEF Ate
<1> QED BY <1>1, <1>2, <1>3

LEMMA PublishEatenTyped ==
  ASSUME NEW p \in Pages, NEW me, p.pub > 0
  PROVE  PublishEaten(p, me).page \in Pages /\ PublishEaten(p, me).out \in Seq(Ups)
<1> DEFINE d == [p EXCEPT !.pub = @ - 1]
<1>1. d \in Pages
  BY DEF Pages
<1> HIDE DEF d
<1> QED BY <1>1, PublishTyped DEF PublishEaten, d

\* The switch over message types.
LEMMA HandleCases ==
  ASSUME NEW p, NEW me, NEW m \in Downs
  PROVE  /\ m.type = "START" => m \in Starts /\ Handle(p, me, m) = Quiet(OnStart(p, m))
         /\ m.type = "PLAY" => Handle(p, me, m) = Quiet(OnPlaySync(p))
         /\ m.type = "INIT" => m \in Inits /\ Handle(p, me, m) = OnBoardInit(p, me, m)
         /\ m.type = "BOARD" => m \in BoardsDown /\ Handle(p, me, m) = Quiet(OnBoard(p, m))
         /\ m.type = "READY" => m \in Readies /\ Handle(p, me, m) = Quiet(OnBoardReady(p, m))
         /\ m.type = "REPLAY" => m \in Replays /\ Handle(p, me, m) = Quiet(OnReplay(p, m))
         /\ m.type = "ROSTER" => Handle(p, me, m) = Quiet(OnRoster(p))
         /\ m.type = "END" => Handle(p, me, m) = Quiet(OnEnd(p))
         /\ m.type \in {"START", "PLAY", "INIT", "BOARD", "READY", "REPLAY",
                        "ROSTER", "END"}
BY DEF Handle, Downs, Starts, Inits, Plain, BoardsDown, Readies, Replays

LEMMA HandleTyped ==
  ASSUME NEW p \in Pages, NEW me, NEW m \in Downs
  PROVE  Handle(p, me, m).page \in Pages /\ Handle(p, me, m).out \in Seq(Ups)
<1>1. ASSUME NEW d \in Pages
      PROVE  Quiet(d).page \in Pages /\ Quiet(d).out \in Seq(Ups)
  BY DEF Quiet
<1> QED BY <1>1, HandleCases, OnStartTyped, OnPlayTyped, OnInitTyped, OnBoardTyped,
           OnReadyTyped, OnReplayTyped, OnRosterTyped, OnEndTyped

-----------------------------------------------------------------------------
(* Sequences                                                               *)

LEMMA RemoveTyped ==
  ASSUME NEW S, NEW s \in Seq(S), NEW i \in 1 .. Len(s)
  PROVE  RemoveAt(s, i) \in Seq(S) /\ Len(RemoveAt(s, i)) = Len(s) - 1
<1>1. i \in Nat /\ Len(s) \in Nat /\ \A k \in 1 .. Len(s) : s[k] \in S
  BY LenProperties
<1>2. /\ SubSeq(s, 1, i - 1) \in Seq(S)
      /\ Len(SubSeq(s, 1, i - 1)) = i - 1
  <2>1. \A k \in 1 .. i - 1 : s[k] \in S
    BY <1>1
  <2>2. /\ SubSeq(s, 1, i - 1) \in Seq(S)
        /\ Len(SubSeq(s, 1, i - 1)) = IF 1 <= i - 1 THEN i - 1 - 1 + 1 ELSE 0
    BY <1>1, <2>1, SubSeqProperties
  <2> QED BY <1>1, <2>2
<1>3. /\ SubSeq(s, i + 1, Len(s)) \in Seq(S)
      /\ Len(SubSeq(s, i + 1, Len(s))) = Len(s) - i
  <2>1. \A k \in i + 1 .. Len(s) : s[k] \in S
    BY <1>1
  <2>2. /\ SubSeq(s, i + 1, Len(s)) \in Seq(S)
        /\ Len(SubSeq(s, i + 1, Len(s))) =
             IF i + 1 <= Len(s) THEN Len(s) - (i + 1) + 1 ELSE 0
    BY <1>1, <2>1, SubSeqProperties
  <2> QED BY <1>1, <2>2
<1> DEFINE a == SubSeq(s, 1, i - 1)
           b == SubSeq(s, i + 1, Len(s))
<1>4. RemoveAt(s, i) = a \o b /\ a \in Seq(S) /\ b \in Seq(S)
      /\ Len(a) = i - 1 /\ Len(b) = Len(s) - i
  BY <1>2, <1>3 DEF RemoveAt
<1> HIDE DEF a, b
<1>5. a \o b \in Seq(S) /\ Len(a \o b) = Len(a) + Len(b)
  BY <1>4, ConcatProperties
<1> QED BY <1>1, <1>4, <1>5

LEMMA TailIndex ==
  ASSUME NEW S, NEW s \in Seq(S), s # <<>>
  PROVE  /\ 1 \in DOMAIN s /\ Head(s) = s[1] /\ Tail(s) \in Seq(S)
         /\ Len(Tail(s)) = Len(s) - 1 /\ Len(s) \in Nat /\ Len(s) > 0
         /\ \A i \in DOMAIN Tail(s) :
              i \in Nat /\ i > 0 /\ i + 1 \in DOMAIN s /\ Tail(s)[i] = s[i + 1]
<1>1. /\ Tail(s) \in Seq(S) /\ Len(Tail(s)) = Len(s) - 1 /\ Head(s) = s[1]
      /\ \A i \in 1 .. Len(Tail(s)) : Tail(s)[i] = s[i + 1]
  BY HeadTailProperties
<1>2. /\ Len(s) \in Nat /\ DOMAIN s = 1 .. Len(s) /\ Len(s) # 0
      /\ DOMAIN Tail(s) = 1 .. Len(Tail(s))
  BY <1>1, LenProperties, EmptySeq
<1> QED BY <1>1, <1>2

LEMMA ConcatIndex ==
  ASSUME NEW S, NEW s \in Seq(S), NEW t \in Seq(S)
  PROVE  /\ s \o t \in Seq(S) /\ Len(s \o t) = Len(s) + Len(t)
         /\ Len(s) \in Nat /\ Len(t) \in Nat
         /\ \A i \in DOMAIN (s \o t) :
              /\ i \in Nat /\ i > 0
              /\ i <= Len(s) => i \in DOMAIN s /\ (s \o t)[i] = s[i]
              /\ i > Len(s) => /\ i - Len(s) \in DOMAIN t
                              /\ (s \o t)[i] = t[i - Len(s)]
         /\ \A i \in DOMAIN s : i \in DOMAIN (s \o t) /\ (s \o t)[i] = s[i]
         /\ \A i \in DOMAIN t : /\ i + Len(s) \in DOMAIN (s \o t)
                               /\ (s \o t)[i + Len(s)] = t[i]
<1>1. /\ s \o t \in Seq(S) /\ Len(s \o t) = Len(s) + Len(t)
      /\ \A i \in 1 .. Len(s) + Len(t) :
           (s \o t)[i] = IF i <= Len(s) THEN s[i] ELSE t[i - Len(s)]
  BY ConcatProperties
<1>2. /\ Len(s) \in Nat /\ DOMAIN s = 1 .. Len(s)
      /\ Len(t) \in Nat /\ DOMAIN t = 1 .. Len(t)
      /\ DOMAIN (s \o t) = 1 .. Len(s) + Len(t)
  BY <1>1, LenProperties
<1>3. ASSUME NEW i \in DOMAIN t
      PROVE  i + Len(s) \in DOMAIN (s \o t) /\ (s \o t)[i + Len(s)] = t[i]
  <2>1. i \in Nat /\ i > 0 /\ i <= Len(t)
    BY <1>2
  <2>2. i + Len(s) \in 1 .. Len(s) + Len(t) /\ ~(i + Len(s) <= Len(s))
        /\ (i + Len(s)) - Len(s) = i
    BY <1>2, <2>1
  <2> QED BY <1>1, <1>2, <2>2
<1> QED BY <1>1, <1>2, <1>3

-----------------------------------------------------------------------------
(* The type invariant                                                      *)

LEMMA EmitTyped ==
  ASSUME NetTyped, NEW to \in SUBSET Clients, NEW msgs \in Seq(Downs), Emit(to, msgs)
  PROVE  NetTyped'
<1>1. CASE Overtaking
  <2>1. /\ Len(flight) < MaxFlight /\ down' = down
        /\ flight' = Append(flight, [to |-> to, msgs |-> msgs])
    BY <1>1 DEF Emit
  <2>2. [to |-> to, msgs |-> msgs] \in Batches
    BY DEF Batches
  <2>3. flight' \in Seq(Batches) /\ Len(flight') = Len(flight) + 1
    BY <2>1, <2>2, AppendProperties DEF NetTyped
  <2>4. Len(flight) \in Nat
    BY LenProperties DEF NetTyped
  <2> QED BY <2>1, <2>3, <2>4, Bounds DEF NetTyped
<1>2. CASE ~Overtaking
  <2>1. down' = Delivered(to, msgs) /\ flight' = flight
    BY <1>2 DEF Emit
  <2>2. \A c \in Clients : down[c] \o msgs \in Seq(Downs)
    BY ConcatProperties DEF NetTyped
  <2>3. down' \in [Clients -> Seq(Downs)]
    BY <2>1, <2>2 DEF NetTyped, Delivered
  <2> QED BY <2>1, <2>3 DEF NetTyped
<1> QED BY <1>1, <1>2

LEMMA SendsTyped ==
  ASSUME PagesTyped, NEW c \in Clients, NEW res, Sends(c, res),
         res.page \in Pages, res.out \in Seq(Ups)
  PROVE  PagesTyped'
<1>1. up[c] \o res.out \in Seq(Ups)
  BY ConcatProperties DEF PagesTyped
<1> QED BY <1>1 DEF PagesTyped, Sends

LEMMA HeadTyped ==
  ASSUME NEW S, NEW s \in Seq(S), s # <<>>
  PROVE  Head(s) \in S /\ Tail(s) \in Seq(S)
BY HeadTailProperties

LEMMA OneTwo ==
  ASSUME NEW S, NEW x \in S, NEW y \in S, NEW z \in S
  PROVE  <<x>> \in Seq(S) /\ <<x, y>> \in Seq(S) /\ <<x, y, z>> \in Seq(S)
OBVIOUS

(***************************************************************************)
(* What is put on the way.                                                 *)
(***************************************************************************)
StartBatch(o) ==
  <<[type |-> "START", gen |-> srv.gen + 1, owner |-> o], [type |-> "PLAY"],
    [type |-> "INIT", gen |-> srv.gen + 1, owner |-> o]>>

BoardBatch(m) ==
  LET rev == BoardRev + 1
      board == [type |-> "BOARD", gen |-> srv.gen, rev |-> rev, eaten |-> m.eaten]
      ready == [type |-> "READY", gen |-> srv.gen, rev |-> rev]
  IN IF m.initial THEN <<board, ready>> ELSE <<board>>

ReplayHead ==
  [type |-> "REPLAY", gen |-> srv.gen, rev |-> BoardRev, ready |-> srv.ready,
   owner |-> srv.owner]

ReplayBoard ==
  [type |-> "BOARD", gen |-> srv.gen, rev |-> BoardRev,
   eaten |-> Last(log[srv.gen]).board]

ReplayReady == [type |-> "READY", gen |-> srv.gen, rev |-> BoardRev]

ReplayBatch ==
  IF ~srv.on THEN <<[type |-> "ROSTER"]>>
  ELSE IF ~srv.ready THEN <<ReplayHead, [type |-> "ROSTER"]>>
  ELSE <<ReplayHead, ReplayBoard, ReplayReady, [type |-> "ROSTER"]>>

LEMMA LogFacts ==
  ASSUME ServerTyped
  PROVE  /\ DOMAIN log = 1 .. srv.gen
         /\ BoardRev \in Nat
         /\ srv.gen > 0 => /\ log[srv.gen] \in Seq(Entries)
                          /\ BoardRev = Len(log[srv.gen])
                          /\ DOMAIN log[srv.gen] = 1 .. BoardRev
         /\ srv.ready => /\ BoardRev > 0
                         /\ Last(log[srv.gen]) = log[srv.gen][BoardRev]
                         /\ log[srv.gen][BoardRev] \in Entries
<1>1. DOMAIN log = 1 .. srv.gen /\ srv.gen \in Nat
  BY LenProperties DEF ServerTyped, Servers
<1>2. ASSUME srv.gen > 0
      PROVE  /\ log[srv.gen] \in Seq(Entries) /\ BoardRev = Len(log[srv.gen])
             /\ BoardRev \in Nat /\ DOMAIN log[srv.gen] = 1 .. BoardRev
  <2>1. log[srv.gen] \in Seq(Entries)
    BY <1>1, <1>2, ElementOfSeq DEF ServerTyped
  <2> QED BY <1>1, <1>2, <2>1, LenProperties DEF BoardRev
<1>3. BoardRev \in Nat
  BY <1>1, <1>2 DEF BoardRev
<1>4. ASSUME srv.ready
      PROVE  /\ BoardRev > 0
             /\ Last(log[srv.gen]) = log[srv.gen][BoardRev]
             /\ log[srv.gen][BoardRev] \in Entries
  <2>1. srv.gen > 0 /\ Len(log[srv.gen]) > 0
    BY <1>4 DEF ServerTyped, Gens
  <2>2. BoardRev > 0 /\ BoardRev \in 1 .. Len(log[srv.gen])
    BY <1>2, <2>1
  <2> QED BY <1>2, <2>1, <2>2, ElementOfSeq DEF Last
<1> QED BY <1>1, <1>2, <1>3, <1>4

LEMMA StartBatchTyped ==
  ASSUME ServerTyped, srv.gen < MaxGen, NEW o \in Clients
  PROVE  StartBatch(o) \in Seq(Downs)
<1>1. srv.gen + 1 \in Gens
  BY Bounds DEF ServerTyped, Servers, Gens
<1>2. /\ [type |-> "START", gen |-> srv.gen + 1, owner |-> o] \in Downs
      /\ [type |-> "PLAY"] \in Downs
      /\ [type |-> "INIT", gen |-> srv.gen + 1, owner |-> o] \in Downs
  BY <1>1 DEF Downs, Starts, Plain, Inits
<1> QED BY <1>2 DEF StartBatch

LEMMA BoardBatchTyped ==
  ASSUME ServerTyped, srv.on, NEW m \in BoardsUp
  PROVE  BoardBatch(m) \in Seq(Downs)
<1> DEFINE board == [type |-> "BOARD", gen |-> srv.gen, rev |-> BoardRev + 1,
                     eaten |-> m.eaten]
           ready == [type |-> "READY", gen |-> srv.gen, rev |-> BoardRev + 1]
<1>1. srv.gen \in Gens /\ BoardRev + 1 \in Nat \ {0} /\ m.eaten \in SUBSET Fruits
  BY LogFacts DEF ServerTyped, BoardsUp
<1>2. board \in Downs /\ ready \in Downs
  BY <1>1 DEF Downs, BoardsDown, Readies
<1>3. BoardBatch(m) = IF m.initial THEN <<board, ready>> ELSE <<board>>
  BY DEF BoardBatch
<1> HIDE DEF board, ready
<1> QED BY <1>2, <1>3, OneTwo

LEMMA ReplayBatchTyped ==
  ASSUME ServerTyped
  PROVE  ReplayBatch \in Seq(Downs)
<1>1. [type |-> "ROSTER"] \in Downs
  BY DEF Downs, Plain
<1>2. srv.on => ReplayHead \in Downs
  BY LogFacts DEF ReplayHead, Downs, Replays, ServerTyped, Servers
<1>3. srv.ready => ReplayBoard \in Downs /\ ReplayReady \in Downs
  <2> SUFFICES ASSUME srv.ready
               PROVE  ReplayBoard \in Downs /\ ReplayReady \in Downs
    OBVIOUS
  <2>1. /\ srv.gen \in Gens /\ BoardRev \in Nat \ {0}
        /\ Last(log[srv.gen]).board \in SUBSET Fruits
    BY LogFacts DEF ServerTyped, Entries
  <2> QED BY <2>1 DEF ReplayBoard, ReplayReady, Downs, BoardsDown, Readies
<1>4. ASSUME NEW a \in Downs, NEW b \in Downs, NEW x \in Downs, NEW y \in Downs
      PROVE  <<a>> \in Seq(Downs) /\ <<a, b>> \in Seq(Downs)
             /\ <<a, b, x, y>> \in Seq(Downs)
  OBVIOUS
<1> QED BY <1>1, <1>2, <1>3, <1>4 DEF ReplayBatch

LEMMA StartTyped ==
  ASSUME TypeInv, StartMatch
  PROVE  TypeInv'
<1> USE DEF TypeInv
<1>1. PICK o \in srv.here :
        /\ srv' = [srv EXCEPT !.gen = @ + 1, !.on = TRUE, !.owner = o,
                              !.ready = FALSE, !.slots = srv.here, !.seated = {}]
        /\ Emit(srv.here, StartBatch(o))
  BY DEF StartMatch, StartBatch
<1>2. /\ srv.gen < MaxGen /\ srv.here \in SUBSET Clients /\ o \in Clients
      /\ srv.gen \in 0 .. MaxGen
  BY <1>1 DEF StartMatch, ServerTyped, Servers
<1>3. NetTyped'
  BY <1>1, <1>2, StartBatchTyped, EmitTyped
<1>4. /\ srv' \in Servers /\ srv'.seated \subseteq srv'.slots
      /\ srv'.gen = srv.gen + 1 /\ srv'.gen \in Gens
      /\ srv'.owner \in Clients /\ ~srv'.ready
  <2>1. srv.gen + 1 \in Gens /\ srv.gen + 1 \in 0 .. MaxGen
    BY <1>2, Bounds DEF Gens
  <2> QED BY <1>1, <1>2, <2>1 DEF ServerTyped, Servers
<1>5. log' \in Seq(Seq(Entries)) /\ Len(log') = srv.gen + 1
  <2>1. log' = Append(log, <<>>) /\ <<>> \in Seq(Entries)
    BY DEF StartMatch
  <2> QED BY <2>1, AppendProperties DEF ServerTyped
<1>6. ServerTyped'
  BY <1>4, <1>5 DEF ServerTyped
<1>7. PagesTyped' /\ resyncs' \in 0 .. MaxResync
  BY DEF StartMatch, PagesTyped
<1> QED BY <1>3, <1>6, <1>7

LEMMA NoMatchTyped ==
  ASSUME ServerTyped, NEW h \in SUBSET Clients
  PROVE  LET s == NoMatch([srv EXCEPT !.here = h])
         IN s \in Servers /\ ~s.on /\ ~s.ready /\ s.gen = srv.gen
            /\ s.seated = {} /\ s.slots = {} /\ s.here = h
BY DEF ServerTyped, Servers, NoMatch

LEMMA EndIn == <<[type |-> "END"]>> \in Seq(Downs)
<1>1. [type |-> "END"] \in Downs
  BY DEF Downs, Plain
<1> QED BY <1>1

LEMMA EndTyped ==
  ASSUME TypeInv, EndMatch
  PROVE  TypeInv'
<1> USE DEF TypeInv
<1>0. srv.here \in SUBSET Clients /\ [srv EXCEPT !.here = srv.here] = srv
  BY DEF ServerTyped, Servers
<1>1. srv' = NoMatch(srv) /\ Emit(srv.here, <<[type |-> "END"]>>)
  BY DEF EndMatch
<1>2. NetTyped'
  BY <1>0, <1>1, EndIn, EmitTyped
<1>3. srv' \in Servers /\ ~srv'.on /\ ~srv'.ready /\ srv'.gen = srv.gen /\ srv'.seated = {}
  BY <1>0, <1>1, NoMatchTyped
<1>4. ServerTyped'
  BY <1>3 DEF ServerTyped, EndMatch
<1>5. PagesTyped' /\ resyncs' \in 0 .. MaxResync
  BY DEF EndMatch, PagesTyped
<1> QED BY <1>2, <1>4, <1>5

LEMMA LeaveTyped ==
  ASSUME TypeInv, NEW c \in Clients, Leave(c)
  PROVE  TypeInv'
<1> USE DEF TypeInv
<1> DEFINE rest == srv.here \ {c}
           s == [srv EXCEPT !.here = rest]
<1>0. srv \in Servers /\ srv.slots \in SUBSET Clients /\ rest \in SUBSET Clients
      /\ log' = log
  BY DEF ServerTyped, Servers, Leave
<1>1. s \in Servers /\ s.seated = srv.seated /\ s.slots = srv.slots
      /\ s.on = srv.on /\ s.gen = srv.gen /\ s.ready = srv.ready /\ s.owner = srv.owner
  <2> HIDE DEF rest
  <2> QED BY <1>0 DEF Servers
<1>2. PagesTyped' /\ resyncs' \in 0 .. MaxResync
  <2>1. up' = [up EXCEPT ![c] = <<>>] /\ page' = page /\ resyncs' = resyncs
    BY DEF Leave
  <2>2. <<>> \in Seq(Ups)
    OBVIOUS
  <2> QED BY <2>1, <2>2 DEF PagesTyped
<1>3. CASE srv' = s /\ UNCHANGED <<flight, down>>
  <2>1. NetTyped'
    BY <1>3 DEF NetTyped
  <2>2. ServerTyped'
    <3> HIDE DEF s
    <3> QED BY <1>0, <1>1, <1>3 DEF ServerTyped
  <2> QED BY <1>2, <2>1, <2>2
<1>4. CASE srv' = NoMatch(s) /\ Emit(rest, <<[type |-> "END"]>>)
  <2>1. NetTyped'
    BY <1>0, <1>4, EndIn, EmitTyped
  <2>2. srv' \in Servers /\ ~srv'.on /\ ~srv'.ready /\ srv'.gen = srv.gen /\ srv'.seated = {}
    BY <1>0, <1>4, NoMatchTyped
  <2> QED BY <1>0, <1>2, <2>1, <2>2 DEF ServerTyped
<1>5. ASSUME NEW o \in rest \cap srv.slots, srv.on, srv' = [s EXCEPT !.owner = o],
             Emit(rest, <<[type |-> "INIT", gen |-> srv.gen, owner |-> o]>>)
      PROVE  TypeInv'
  <2>1. [type |-> "INIT", gen |-> srv.gen, owner |-> o] \in Downs
    <3>1. srv.gen \in Gens /\ o \in Clients
      BY <1>0, <1>5 DEF ServerTyped
    <3> QED BY <3>1 DEF Downs, Inits
  <2>2. NetTyped'
    <3> DEFINE msg == [type |-> "INIT", gen |-> srv.gen, owner |-> o]
    <3>1. Emit(rest, <<msg>>) /\ <<msg>> \in Seq(Downs)
      BY <1>5, <2>1
    <3> HIDE DEF msg, rest
    <3> QED BY <1>0, <3>1, EmitTyped
  <2>3. o \in Clients
    BY <1>0
  <2>4. /\ srv' \in Servers /\ srv'.owner = o /\ srv'.seated = srv.seated
        /\ srv'.slots = srv.slots /\ srv'.on = srv.on /\ srv'.gen = srv.gen
        /\ srv'.ready = srv.ready
    <3> HIDE DEF s
    <3> QED BY <1>1, <1>5, <2>3 DEF Servers
  <2>5. ServerTyped'
    BY <1>0, <2>3, <2>4 DEF ServerTyped
  <2> QED BY <1>2, <2>2, <2>5
<1> QED BY <1>3, <1>4, <1>5 DEF Leave

LEMMA SendBatchTyped ==
  ASSUME TypeInv, SendBatch
  PROVE  TypeInv'
<1> USE DEF TypeInv
<1>1. PICK i \in DOMAIN flight :
        /\ down' = Delivered(flight[i].to \cap srv.here, flight[i].msgs)
        /\ flight' = RemoveAt(flight, i)
  BY DEF SendBatch
<1>2. i \in 1 .. Len(flight) /\ flight \in Seq(Batches)
  BY LenProperties DEF NetTyped
<1>3. flight[i].msgs \in Seq(Downs)
  <2>1. flight[i] \in Batches
    BY <1>2, ElementOfSeq
  <2> QED BY <2>1 DEF Batches
<1>4. down' \in [Clients -> Seq(Downs)]
  <2>1. \A c \in Clients : down[c] \o flight[i].msgs \in Seq(Downs)
    BY <1>3, ConcatProperties DEF NetTyped
  <2> QED BY <1>1, <2>1 DEF NetTyped, Delivered
<1>5. flight' \in Seq(Batches) /\ Len(flight') = Len(flight) - 1
  BY <1>1, <1>2, RemoveTyped
<1>6. NetTyped'
  <2>1. Len(flight) \in Nat
    BY <1>2, LenProperties
  <2> QED BY <1>4, <1>5, <2>1, Bounds DEF NetTyped
<1>7. PagesTyped' /\ ServerTyped' /\ resyncs' \in 0 .. MaxResync
  BY DEF SendBatch, PagesTyped, ServerTyped, Servers
<1> QED BY <1>6, <1>7

\* The three messages a page may send.
LEMMA UpCases ==
  ASSUME NEW m \in Ups
  PROVE  /\ m.type = "SEAT" => m \in Seats
         /\ m.type = "BOARD" => m \in BoardsUp
         /\ m.type \in {"SEAT", "BOARD", "RESYNC"}
BY DEF Ups, Seats, BoardsUp, Resyncs

LEMMA TakeSeatTyped ==
  ASSUME ServerTyped, NetTyped, NEW c \in Clients, NEW m, TakeSeat(c, m)
  PROVE  ServerTyped' /\ NetTyped'
<1>1. CASE ~FromSeat(c, m)
  BY <1>1 DEF TakeSeat, ServerTyped, NetTyped
<1>2. CASE FromSeat(c, m)
  <2>1. srv' = [srv EXCEPT !.seated = @ \cup {c}] /\ c \in srv.slots
    BY <1>2 DEF TakeSeat, FromSeat
  <2>2. srv \in Servers /\ srv.seated \cup {c} \in SUBSET Clients
    BY DEF ServerTyped, Servers
  <2>3. /\ srv' \in Servers /\ srv'.seated = srv.seated \cup {c}
        /\ srv'.slots = srv.slots /\ srv'.on = srv.on /\ srv'.gen = srv.gen
        /\ srv'.ready = srv.ready /\ srv'.owner = srv.owner
    BY <2>1, <2>2 DEF Servers
  <2>4. log' = log /\ down' = down /\ flight' = flight
    BY DEF TakeSeat
  <2> QED BY <2>1, <2>3, <2>4 DEF ServerTyped, NetTyped
<1> QED BY <1>1, <1>2

\* What the server does with a board it takes.
LEMMA BoardTaken ==
  ASSUME ServerTyped, NEW c \in Clients, NEW m \in BoardsUp, TakeBoard(c, m), Accepts(c, m)
  PROVE  /\ srv.on /\ m.gen = srv.gen /\ srv' = [srv EXCEPT !.ready = TRUE]
         /\ Emit(srv.here, BoardBatch(m))
         /\ [gen |-> m.gen, board |-> m.eaten] \in Entries
         /\ log' = [log EXCEPT ![srv.gen] =
                      Append(@, [gen |-> m.gen, board |-> m.eaten])]
<1>1. srv.on /\ m.gen = srv.gen
  BY DEF Accepts, FromSeat
<1>2. [gen |-> m.gen, board |-> m.eaten] \in Entries
  BY <1>1 DEF ServerTyped, Entries, BoardsUp
<1> QED BY <1>1, <1>2 DEF TakeBoard, BoardBatch

LEMMA TakeBoardTyped ==
  ASSUME ServerTyped, NetTyped, NEW c \in Clients, NEW m \in BoardsUp, TakeBoard(c, m)
  PROVE  ServerTyped' /\ NetTyped'
<1>1. CASE ~Accepts(c, m)
  BY <1>1 DEF TakeBoard, ServerTyped, NetTyped
<1>2. CASE Accepts(c, m)
  <2> DEFINE e == [gen |-> m.gen, board |-> m.eaten]
  <2>1. /\ srv.on /\ m.gen = srv.gen /\ srv' = [srv EXCEPT !.ready = TRUE]
        /\ Emit(srv.here, BoardBatch(m)) /\ e \in Entries
        /\ log' = [log EXCEPT ![srv.gen] = Append(@, e)]
    BY <1>2, BoardTaken
  <2> HIDE DEF e
  <2>2. srv \in Servers /\ srv.here \in SUBSET Clients /\ srv.gen \in Gens
    BY <2>1 DEF ServerTyped, Servers
  <2>3. NetTyped'
    BY <2>1, <2>2, BoardBatchTyped, EmitTyped
  <2>4. /\ srv' \in Servers /\ srv'.ready /\ srv'.seated = srv.seated
        /\ srv'.slots = srv.slots /\ srv'.on = srv.on /\ srv'.gen = srv.gen
        /\ srv'.owner = srv.owner
    BY <2>1, <2>2 DEF Servers
  <2>5. /\ srv.gen \in 1 .. Len(log) /\ log \in Seq(Seq(Entries))
        /\ log[srv.gen] \in Seq(Entries)
    BY <2>2, LogFacts DEF ServerTyped, Gens
  <2>6. /\ Append(log[srv.gen], e) \in Seq(Entries)
        /\ Len(Append(log[srv.gen], e)) = Len(log[srv.gen]) + 1
        /\ Len(log[srv.gen]) \in Nat
    BY <2>1, <2>5, AppendProperties, LenProperties
  <2>7. /\ log' \in Seq(Seq(Entries)) /\ Len(log') = Len(log)
        /\ log'[srv.gen] = Append(log[srv.gen], e)
    BY <2>1, <2>5, <2>6, ExceptSeq
  <2>8. ServerTyped'
    BY <2>1, <2>4, <2>6, <2>7 DEF ServerTyped
  <2> QED BY <2>3, <2>8
<1> QED BY <1>1, <1>2

LEMMA TakeResyncTyped ==
  ASSUME ServerTyped, NetTyped, NEW c \in Clients, TakeResync(c)
  PROVE  ServerTyped' /\ NetTyped' /\ Emit({c}, ReplayBatch)
<1>1. Emit({c}, ReplayBatch)
  BY DEF TakeResync, ReplayBatch, ReplayHead, ReplayBoard, ReplayReady
<1>2. NetTyped'
  BY <1>1, ReplayBatchTyped, EmitTyped
<1> QED BY <1>1, <1>2 DEF TakeResync, ServerTyped

LEMMA ReceiveTyped ==
  ASSUME TypeInv, NEW c \in Clients, Receive(c)
  PROVE  TypeInv'
<1> USE DEF TypeInv
<1> DEFINE m == Head(up[c])
<1>1. m \in Ups /\ Tail(up[c]) \in Seq(Ups)
  BY HeadTyped DEF Receive, PagesTyped
<1>2. up' = [up EXCEPT ![c] = Tail(@)] /\ page' = page /\ resyncs' = resyncs
  BY DEF Receive
<1>3. PagesTyped'
  BY <1>1, <1>2 DEF PagesTyped
<1>4. ServerTyped' /\ NetTyped'
  <2>1. \/ TakeSeat(c, m)
        \/ m \in BoardsUp /\ TakeBoard(c, m)
        \/ TakeResync(c)
    BY <1>1, UpCases DEF Receive
  <2> HIDE DEF m
  <2> QED BY <2>1, TakeSeatTyped, TakeBoardTyped, TakeResyncTyped
<1> QED BY <1>2, <1>3, <1>4

LEMMA PageTyped ==
  ASSUME TypeInv, NEW c \in Clients,
         \/ Deliver(c) \/ Begin(c) \/ TakePlace(c) \/ PublishTimer(c) \/ Resync(c)
         \/ \E f \in Fruits : Eat(c, f)
  PROVE  TypeInv'
<1> USE DEF TypeInv
<1>0. page[c] \in Pages /\ down[c] \in Seq(Downs)
  BY DEF PagesTyped, NetTyped
<1>1. CASE Deliver(c)
  <2> DEFINE m == Head(down[c])
  <2>1. m \in Downs /\ Tail(down[c]) \in Seq(Downs)
    BY <1>0, <1>1, HeadTyped DEF Deliver
  <2>2. /\ Sends(c, Handle(page[c], c, m)) /\ UNCHANGED <<srv, flight, resyncs, log>>
        /\ down' = [down EXCEPT ![c] = Tail(@)]
    BY <1>1 DEF Deliver
  <2>3. PagesTyped'
    <3> HIDE DEF m
    <3> QED BY <1>0, <2>1, <2>2, HandleTyped, SendsTyped
  <2>4. NetTyped'
    BY <2>1, <2>2 DEF NetTyped
  <2>5. ServerTyped'
    BY <2>2 DEF ServerTyped
  <2> QED BY <2>2, <2>3, <2>4, <2>5
<1>2. ASSUME NEW res, Sends(c, res), res.page \in Pages, res.out \in Seq(Ups),
             Local(c), resyncs' \in 0 .. MaxResync
      PROVE  TypeInv'
  <2>1. PagesTyped'
    BY <1>2, SendsTyped
  <2>2. NetTyped' /\ ServerTyped'
    BY <1>2 DEF Local, NetTyped, ServerTyped
  <2> QED BY <1>2, <2>1, <2>2
<1>3. ASSUME NEW d \in Pages
      PROVE  Quiet(d).page \in Pages /\ Quiet(d).out \in Seq(Ups)
  BY DEF Quiet
<1>4. CASE Begin(c)
  BY <1>0, <1>2, <1>3, <1>4, BegunTyped DEF Begin
<1>5. CASE TakePlace(c)
  BY <1>0, <1>2, <1>5, SeatTyped DEF TakePlace
<1>6. CASE PublishTimer(c)
  BY <1>0, <1>2, <1>6, PublishEatenTyped DEF PublishTimer
<1>7. CASE Resync(c)
  <2> DEFINE res == [page |-> page[c], out |-> <<[type |-> "RESYNC"]>>]
  <2>1. [type |-> "RESYNC"] \in Ups
    BY DEF Ups, Resyncs
  <2>2. res.page \in Pages /\ res.out \in Seq(Ups)
    BY <1>0, <2>1
  <2>3. Sends(c, res) /\ Local(c) /\ resyncs' \in 0 .. MaxResync
    BY <1>7, Bounds DEF Resync
  <2> HIDE DEF res
  <2> QED BY <1>2, <2>2, <2>3
<1>8. ASSUME NEW f \in Fruits, Eat(c, f) PROVE TypeInv'
  BY <1>0, <1>2, <1>3, <1>8, AteTyped DEF Eat
<1> QED BY <1>1, <1>4, <1>5, <1>6, <1>7, <1>8

LEMMA InitTyped == Init => TypeInv
<1> SUFFICES ASSUME Init PROVE TypeInv
  OBVIOUS
<1>1. PICK g \in [Clients -> EarlierGens] : page = [c \in Clients |-> NewPage(g[c])]
  BY DEF Init
<1>2. ASSUME NEW n \in Nat PROVE NewPage(n) \in Pages
  BY NoStage, Bounds DEF NewPage, Pages
<1>3. \A c \in Clients : g[c] \in Nat
  BY GensNat
<1>4. page \in [Clients -> Pages]
  BY <1>1, <1>2, <1>3
<1>5. PagesTyped
  BY <1>4 DEF Init, PagesTyped
<1>6. NetTyped
  BY Bounds DEF Init, NetTyped
<1>7. ServerTyped
  BY Bounds DEF Init, ServerTyped, Servers
<1> QED BY <1>5, <1>6, <1>7, Bounds DEF Init, TypeInv

LEMMA TypeStep == TypeInv /\ [Next]_vars => TypeInv'
<1> SUFFICES ASSUME TypeInv, [Next]_vars PROVE TypeInv'
  OBVIOUS
<1>1. CASE UNCHANGED vars
  BY <1>1 DEF vars, TypeInv, PagesTyped, NetTyped, ServerTyped
<1> QED BY <1>1, StartTyped, EndTyped, SendBatchTyped, LeaveTyped, ReceiveTyped,
           PageTyped DEF Next

(***************************************************************************)
(* TypeOK: pages, room, log and bounds keep their types, whatever the      *)
(* pages and the server exchange and however batches overtake each other.  *)
(***************************************************************************)
THEOREM TypeCorrect == Spec => []TypeOK
<1>1. Spec => []TypeInv
  BY InitTyped, TypeStep, PTL DEF Spec
<1> QED BY <1>1, TypeInvImplies, PTL

-----------------------------------------------------------------------------
(***************************************************************************)
(* The boards follow the log.  What is on the way to a page is in the      *)
(* order of matches and revisions, between the board it has shown and the  *)
(* one the server has now; a staged replay is before what follows it.      *)
(***************************************************************************)
AtMost(p, q) == p.gen < q.gen \/ (p.gen = q.gen /\ p.rev <= q.rev)

Placed(m) == m.type \in {"BOARD", "READY", "REPLAY"}

Now == [gen |-> srv.gen, rev |-> BoardRev]

InLog(lg, g, r, b) == g \in DOMAIN lg /\ r \in DOMAIN lg[g] /\ lg[g][r].board = b

Sorted(q) ==
  \A i, j \in DOMAIN q :
    i < j /\ Placed(q[i]) /\ Placed(q[j]) => AtMost(q[i], q[j])

AllFrom(p, q) == \A i \in DOMAIN q : Placed(q[i]) => AtMost(p, q[i])

AllUpTo(q, p) == \A i \in DOMAIN q : Placed(q[i]) => AtMost(q[i], p)

Committed(q, lg) ==
  \A i \in DOMAIN q :
    q[i].type = "BOARD" => InLog(lg, q[i].gen, q[i].rev, q[i].eaten)

\* COOP_BOARD_READY comes directly after its board.
Partner(b, m) == b.type = "BOARD" /\ b.gen = m.gen /\ b.rev = m.rev

\* The page p has staged the board that m is about, if it has staged one of
\* this match.
Absorbed(p, m) ==
  p.relay /\ p.stage # None /\ p.stage.gen = m.gen /\ p.stage.board # None
    => p.stage.rev = m.rev

Paired(q, p) ==
  \A i \in DOMAIN q :
    q[i].type = "READY" =>
      IF i = 1 THEN Absorbed(p, q[i]) ELSE Partner(q[i - 1], q[i])

StageOK(s, c, q) ==
  s # None =>
    /\ AtMost(shown[c], s) /\ AtMost(s, Now) /\ AllFrom(s, q)
    /\ s.board # None => InLog(log, s.gen, s.rev, s.board)

Ordered(c) ==
  /\ Sorted(down[c]) /\ AllFrom(shown[c], down[c]) /\ AllUpTo(down[c], Now)
  /\ Committed(down[c], log) /\ Paired(down[c], page[c])
  /\ shown[c] \in [gen : Nat, rev : Nat, board : SUBSET Fruits]
  /\ AtMost(shown[c], Now)
  /\ shown[c] # NoShown => InLog(log, shown[c].gen, shown[c].rev, shown[c].board)
  /\ StageOK(page[c].stage, c, down[c])

OrderInv ==
  /\ flight = <<>>
  /\ DOMAIN shown = Clients /\ shown = [c \in Clients |-> shown[c]]
  /\ \A c \in Clients : Ordered(c)

LEMMA AtMostTrans ==
  ASSUME NEW p, NEW q, NEW r, AtMost(p, q), AtMost(q, r),
         p.gen \in Nat, q.gen \in Nat, r.gen \in Nat,
         p.rev \in Nat, q.rev \in Nat, r.rev \in Nat
  PROVE  AtMost(p, r)
BY DEF AtMost

LEMMA PlacedTyped ==
  ASSUME NEW m \in Downs, Placed(m)
  PROVE  m.gen \in Gens /\ m.gen \in Nat /\ m.rev \in Nat
BY Bounds DEF Downs, Placed, Starts, Inits, Plain, BoardsDown, Readies, Replays, Gens

LEMMA NowTyped ==
  /\ ServerTyped => Now.gen \in Nat /\ Now.rev \in Nat
  /\ ServerTyped' => Now'.gen \in Nat /\ Now'.rev \in Nat
<1>1. ASSUME NEW lg \in Seq(Seq(Entries)), Len(lg) # 0
      PROVE  Len(lg[Len(lg)]) \in Nat
  <2>1. Len(lg) \in 1 .. Len(lg)
    BY <1>1, LenProperties
  <2>2. lg[Len(lg)] \in Seq(Entries)
    BY <2>1, ElementOfSeq
  <2> QED BY <2>2, LenProperties
<1>2. ServerTyped => Now.gen \in Nat /\ Now.rev \in Nat
  BY <1>1, Bounds DEF ServerTyped, Servers, Now, BoardRev
<1>3. ServerTyped' => Now'.gen \in Nat /\ Now'.rev \in Nat
  BY <1>1, Bounds DEF ServerTyped, Servers, Now, BoardRev
<1> QED BY <1>2, <1>3

LEMMA QueueTyped ==
  ASSUME NEW q \in Seq(Downs), NEW i \in DOMAIN q
  PROVE  q[i] \in Downs /\ i \in Nat /\ i > 0
BY LenProperties, ElementOfSeq

LogGrows ==
  /\ AtMost(Now, Now')
  /\ \A g, r, b : InLog(log, g, r, b) => InLog(log', g, r, b)

\* A batch that the server may send: all about its present board.
BatchOK(q, p, lg) ==
  /\ q \in Seq(Downs)
  /\ \A i \in DOMAIN q : Placed(q[i]) => q[i].gen = p.gen /\ q[i].rev = p.rev
  /\ Committed(q, lg)
  /\ \A i \in DOMAIN q : q[i].type = "READY" => i > 1 /\ Partner(q[i - 1], q[i])

\* A batch at the end of a queue.
LEMMA QueueGrows ==
  ASSUME NEW q \in Seq(Downs), NEW b, NEW p, NEW now, NEW now2, NEW lg, NEW lg2,
         BatchOK(b, now2, lg2),
         p.gen \in Nat, p.rev \in Nat, now.gen \in Nat, now.rev \in Nat,
         now2.gen \in Nat, now2.rev \in Nat,
         AtMost(now, now2), AtMost(p, now),
         AllUpTo(q, now)
  PROVE  /\ AllUpTo(q \o b, now2)
         /\ AllFrom(p, q) => AllFrom(p, q \o b)
         /\ Sorted(q) => Sorted(q \o b)
<1> DEFINE t == q \o b
<1>0. b \in Seq(Downs)
  BY DEF BatchOK
<1>1. /\ t \in Seq(Downs) /\ Len(q) \in Nat
      /\ \A i \in DOMAIN t :
           /\ i \in Nat /\ i > 0
           /\ i <= Len(q) => i \in DOMAIN q /\ t[i] = q[i]
           /\ i > Len(q) => i - Len(q) \in DOMAIN b /\ t[i] = b[i - Len(q)]
  BY <1>0, ConcatIndex
<1> HIDE DEF t
<1>2. AtMost(p, now2)
  BY AtMostTrans
<1>3. ASSUME NEW i \in DOMAIN t, Placed(t[i])
      PROVE  /\ t[i].gen \in Nat /\ t[i].rev \in Nat
             /\ i <= Len(q) => i \in DOMAIN q /\ t[i] = q[i] /\ AtMost(t[i], now)
             /\ i > Len(q) => t[i].gen = now2.gen /\ t[i].rev = now2.rev
             /\ AtMost(t[i], now2)
  <2>1. t[i].gen \in Nat /\ t[i].rev \in Nat
    BY <1>1, <1>3, QueueTyped, PlacedTyped
  <2>2. CASE i <= Len(q)
    <3>1. i \in DOMAIN q /\ t[i] = q[i] /\ AtMost(t[i], now)
      BY <1>1, <1>3, <2>2 DEF AllUpTo
    <3>2. AtMost(t[i], now2)
      BY <2>1, <3>1, AtMostTrans
    <3> QED BY <1>1, <2>1, <2>2, <3>1, <3>2
  <2>3. CASE i > Len(q)
    <3>1. t[i].gen = now2.gen /\ t[i].rev = now2.rev
      BY <1>1, <1>3, <2>3 DEF BatchOK
    <3> QED BY <1>1, <2>1, <2>3, <3>1 DEF AtMost
  <2> QED BY <1>1, <2>2, <2>3
<1>4. AllUpTo(t, now2)
  BY <1>3 DEF AllUpTo
<1>5. ASSUME AllFrom(p, q) PROVE AllFrom(p, t)
  <2> SUFFICES ASSUME NEW i \in DOMAIN t, Placed(t[i]) PROVE AtMost(p, t[i])
    BY DEF AllFrom
  <2>1. CASE i <= Len(q)
    BY <1>3, <1>5, <2>1 DEF AllFrom
  <2>2. CASE i > Len(q)
    BY <1>2, <1>3, <2>2 DEF AtMost
  <2> QED BY <1>1, <2>1, <2>2
<1>6. ASSUME Sorted(q) PROVE Sorted(t)
  <2> SUFFICES ASSUME NEW i \in DOMAIN t, NEW j \in DOMAIN t, i < j,
                      Placed(t[i]), Placed(t[j])
               PROVE  AtMost(t[i], t[j])
    BY DEF Sorted
  <2>0. i \in Nat /\ j \in Nat
    BY <1>1
  <2>1. CASE j <= Len(q)
    <3>1. i <= Len(q)
      BY <1>1, <2>0, <2>1
    <3> QED BY <1>3, <1>6, <2>1, <3>1 DEF Sorted
  <2>2. CASE j > Len(q)
    BY <1>3, <2>2 DEF AtMost
  <2> QED BY <1>1, <2>0, <2>1, <2>2
<1> QED BY <1>4, <1>5, <1>6 DEF t

LEMMA PairsGrow ==
  ASSUME NEW q \in Seq(Downs), NEW b, NEW p, NEW now, NEW lg, NEW lg2, BatchOK(b, now, lg2),
         \A g, r, x : InLog(lg, g, r, x) => InLog(lg2, g, r, x)
  PROVE  /\ Committed(q, lg) => Committed(q \o b, lg2)
         /\ Paired(q, p) => Paired(q \o b, p)
<1> DEFINE t == q \o b
<1>0. b \in Seq(Downs)
  BY DEF BatchOK
<1>1. /\ t \in Seq(Downs) /\ Len(q) \in Nat
      /\ \A i \in DOMAIN t :
           /\ i \in Nat /\ i > 0
           /\ i <= Len(q) => i \in DOMAIN q /\ t[i] = q[i]
           /\ i > Len(q) => i - Len(q) \in DOMAIN b /\ t[i] = b[i - Len(q)]
      /\ \A i \in DOMAIN q : i \in DOMAIN t /\ t[i] = q[i]
      /\ \A i \in DOMAIN b : i + Len(q) \in DOMAIN t /\ t[i + Len(q)] = b[i]
      /\ DOMAIN b = 1 .. Len(b) /\ DOMAIN q = 1 .. Len(q) /\ Len(b) \in Nat
  BY <1>0, ConcatIndex, LenProperties
<1> HIDE DEF t
<1>2. ASSUME Committed(q, lg) PROVE Committed(t, lg2)
  <2> SUFFICES ASSUME NEW i \in DOMAIN t, t[i].type = "BOARD"
               PROVE  InLog(lg2, t[i].gen, t[i].rev, t[i].eaten)
    BY DEF Committed
  <2>1. CASE i <= Len(q)
    <3>1. i \in DOMAIN q /\ t[i] = q[i]
      BY <1>1, <2>1
    <3>2. InLog(lg, t[i].gen, t[i].rev, t[i].eaten)
      BY <1>2, <3>1 DEF Committed
    <3> QED BY <3>2
  <2>2. CASE i > Len(q)
    BY <1>1, <2>2 DEF BatchOK, Committed
  <2> QED BY <1>1, <2>1, <2>2
<1>3. ASSUME Paired(q, p) PROVE Paired(t, p)
  <2> SUFFICES ASSUME NEW i \in DOMAIN t, t[i].type = "READY"
               PROVE  IF i = 1 THEN Absorbed(p, t[i]) ELSE Partner(t[i - 1], t[i])
    BY DEF Paired
  <2>1. CASE i <= Len(q)
    <3>1. i \in DOMAIN q /\ t[i] = q[i] /\ i \in Nat /\ i > 0
      BY <1>1, <2>1
    <3>2. i # 1 => i - 1 \in DOMAIN q /\ t[i - 1] = q[i - 1]
      BY <1>1, <2>1, <3>1
    <3> QED BY <1>3, <3>1, <3>2 DEF Paired
  <2>2. CASE i > Len(q)
    <3> DEFINE k == i - Len(q)
    <3>1. k \in DOMAIN b /\ t[i] = b[k] /\ i \in Nat
      BY <1>1, <2>2
    <3>2. k > 1 /\ Partner(b[k - 1], b[k])
      <4> HIDE DEF k
      <4> QED BY <3>1 DEF BatchOK
    <3>3. k - 1 \in DOMAIN b
      BY <1>1, <3>1, <3>2
    <3>4. t[(k - 1) + Len(q)] = b[k - 1] /\ (k - 1) + Len(q) = i - 1 /\ i # 1
      BY <1>1, <3>1, <3>2, <3>3
    <3> QED BY <3>1, <3>2, <3>4
  <2> QED BY <1>1, <2>1, <2>2
<1> QED BY <1>2, <1>3 DEF t

\* A page's queue and stage stay in order when the log grows by boards that
\* are on no way, and when a batch about the newest board is added.
LEMMA StageGrows ==
  ASSUME TypeInv, TypeInv', LogGrows, NEW c \in Clients, shown'[c] = shown[c],
         shown[c] \in [gen : Nat, rev : Nat, board : SUBSET Fruits],
         AtMost(shown[c], Now),
         shown[c] # NoShown => InLog(log, shown[c].gen, shown[c].rev, shown[c].board)
  PROVE  /\ AtMost(shown[c], Now')
         /\ shown[c] # NoShown => InLog(log', shown[c].gen, shown[c].rev, shown[c].board)
         /\ \A s : s # None /\ s \in Stages /\ AtMost(s, Now) => AtMost(s, Now')
<1>1. /\ Now.gen \in Nat /\ Now.rev \in Nat /\ Now'.gen \in Nat /\ Now'.rev \in Nat
  BY NowTyped DEF TypeInv
<1>2. AtMost(Now, Now')
  BY DEF LogGrows
<1>3. AtMost(shown[c], Now')
  BY <1>1, <1>2, AtMostTrans
<1>4. ASSUME NEW s, s # None, s \in Stages, AtMost(s, Now) PROVE AtMost(s, Now')
  <2>1. s.gen \in Nat /\ s.rev \in Nat
    BY <1>4, Bounds DEF Stages
  <2> QED BY <1>1, <1>2, <1>4, <2>1, AtMostTrans
<1>5. shown[c] # NoShown => InLog(log', shown[c].gen, shown[c].rev, shown[c].board)
  BY DEF LogGrows
<1> QED BY <1>3, <1>4, <1>5

LEMMA EmitOrdered ==
  ASSUME ~Overtaking, TypeInv, TypeInv', OrderInv, LogGrows,
         NEW to \in SUBSET Clients, NEW msgs, Emit(to, msgs),
         BatchOK(msgs, Now', log'), page' = page, shown' = shown
  PROVE  OrderInv'
<1>0. down' = Delivered(to, msgs) /\ flight' = flight
  BY DEF Emit
<1> SUFFICES ASSUME NEW c \in Clients PROVE Ordered(c)'
  BY <1>0 DEF OrderInv
<1> DEFINE q == down[c]
           s == page[c].stage
<1>1. Ordered(c) /\ q \in Seq(Downs) /\ page[c] \in Pages /\ s \in Stages
  BY DEF OrderInv, TypeInv, NetTyped, PagesTyped, Pages
<1>2. down'[c] = q \o msgs \/ down'[c] = q
  BY <1>0 DEF Delivered
<1>3. /\ Now.gen \in Nat /\ Now.rev \in Nat /\ Now'.gen \in Nat /\ Now'.rev \in Nat
  BY NowTyped DEF TypeInv
<1>4. /\ AtMost(Now, Now')
      /\ \A g, r, b : InLog(log, g, r, b) => InLog(log', g, r, b)
  BY DEF LogGrows
<1>5. BatchOK(<<>>, Now', log') /\ q \o <<>> = q
  <2>1. BatchOK(<<>>, Now', log')
    BY DEF BatchOK, Committed
  <2> QED BY <1>1, <2>1, ConcatEmptySeq
<1>6. PICK b : BatchOK(b, Now', log') /\ down'[c] = q \o b
  BY <1>2, <1>5
<1>7. /\ shown[c].gen \in Nat /\ shown[c].rev \in Nat /\ AtMost(shown[c], Now)
      /\ AllUpTo(q, Now) /\ AllFrom(shown[c], q) /\ Sorted(q)
      /\ Committed(q, log) /\ Paired(q, page[c])
      /\ s # None => AtMost(s, Now) /\ AllFrom(s, q)
  BY <1>1 DEF Ordered, StageOK
<1>8. /\ AllUpTo(q \o b, Now') /\ AllFrom(shown[c], q \o b) /\ Sorted(q \o b)
  <2> HIDE DEF q
  <2> QED BY <1>1, <1>3, <1>4, <1>6, <1>7, QueueGrows
<1>9. Committed(q \o b, log') /\ Paired(q \o b, page[c])
  <2> HIDE DEF q
  <2> QED BY <1>1, <1>4, <1>6, <1>7, PairsGrow
<1>10. s # None => AllFrom(s, q \o b)
  <2> SUFFICES ASSUME s # None PROVE AllFrom(s, q \o b)
    OBVIOUS
  <2>1. s.gen \in Nat /\ s.rev \in Nat
    BY <1>1, Bounds DEF Stages
  <2> HIDE DEF q, s
  <2> QED BY <1>1, <1>3, <1>4, <1>6, <1>7, <2>1, QueueGrows
<1>11. /\ AtMost(shown[c], Now')
       /\ shown[c] # NoShown => InLog(log', shown[c].gen, shown[c].rev, shown[c].board)
       /\ s # None => AtMost(s, Now')
  BY <1>1, StageGrows DEF Ordered, StageOK
<1>12. page'[c] = page[c] /\ shown'[c] = shown[c] /\ down'[c] = q \o b
       /\ shown[c] \in [gen : Nat, rev : Nat, board : SUBSET Fruits]
  BY <1>1, <1>6 DEF Ordered
<1>13. StageOK(page[c].stage, c, down[c])'
  BY <1>1, <1>4, <1>10, <1>11, <1>12 DEF Ordered, StageOK
<1> HIDE DEF q
<1> QED BY <1>8, <1>9, <1>11, <1>12, <1>13 DEF Ordered

\* Nothing is sent, and pages stage nothing.
LEMMA QuietOrdered ==
  ASSUME TypeInv, TypeInv', OrderInv, LogGrows, UNCHANGED <<down, flight, shown>>,
         \A c \in Clients : page'[c].stage = page[c].stage /\ page'[c].relay = page[c].relay
  PROVE  OrderInv'
<1> SUFFICES ASSUME NEW c \in Clients PROVE Ordered(c)'
  BY DEF OrderInv
<1>1. /\ Ordered(c) /\ down'[c] = down[c] /\ shown'[c] = shown[c]
      /\ page'[c].stage = page[c].stage /\ page'[c].relay = page[c].relay
      /\ down[c] \in Seq(Downs) /\ page[c].stage \in Stages
  BY DEF OrderInv, TypeInv, NetTyped, PagesTyped, Pages
<1>2. /\ Now.gen \in Nat /\ Now.rev \in Nat /\ Now'.gen \in Nat /\ Now'.rev \in Nat
      /\ AtMost(Now, Now')
      /\ \A g, r, b : InLog(log, g, r, b) => InLog(log', g, r, b)
  BY NowTyped DEF TypeInv, LogGrows
<1>3. AllUpTo(down[c], Now')
  <2> SUFFICES ASSUME NEW i \in DOMAIN down[c], Placed(down[c][i])
               PROVE  AtMost(down[c][i], Now')
    BY DEF AllUpTo
  <2>1. AtMost(down[c][i], Now)
    BY <1>1 DEF Ordered, AllUpTo
  <2>2. down[c][i].gen \in Nat /\ down[c][i].rev \in Nat
    BY <1>1, QueueTyped, PlacedTyped
  <2> QED BY <1>2, <2>1, <2>2, AtMostTrans
<1>4. Committed(down[c], log')
  BY <1>1, <1>2 DEF Ordered, Committed
<1>5. Paired(down[c], page'[c])
  BY <1>1 DEF Ordered, Paired, Absorbed
<1>6. /\ AtMost(shown[c], Now')
      /\ shown[c] # NoShown => InLog(log', shown[c].gen, shown[c].rev, shown[c].board)
      /\ page[c].stage # None => AtMost(page[c].stage, Now')
  BY <1>1, StageGrows DEF Ordered, StageOK
<1>7. StageOK(page[c].stage, c, down[c])'
  BY <1>1, <1>2, <1>6 DEF Ordered, StageOK
<1> QED BY <1>1, <1>3, <1>4, <1>5, <1>6, <1>7 DEF Ordered

\* The log stays: so do the orders.
LEMMA SameLog ==
  ASSUME ServerTyped, srv'.gen = srv.gen, log' = log
  PROVE  LogGrows /\ Now' = Now
<1>1. Now' = Now
  BY DEF Now, BoardRev
<1>2. Now.gen \in Nat /\ Now.rev \in Nat
  BY NowTyped
<1> QED BY <1>1, <1>2 DEF LogGrows, AtMost

\* A match opens its log.
LEMMA StartLogged ==
  ASSUME ServerTyped, StartMatch
  PROVE  LogGrows /\ Abstract!Open
<1>1. /\ srv \in Servers /\ srv.gen \in Nat /\ srv'.gen = srv.gen + 1
      /\ log' = Append(log, <<>>) /\ log \in Seq(Seq(Entries)) /\ <<>> \in Seq(Entries)
  BY DEF ServerTyped, Servers, StartMatch
<1>2. AtMost(Now, Now')
  BY <1>1 DEF AtMost, Now
<1>3. /\ DOMAIN log = 1 .. Len(log) /\ Len(log) \in Nat
      /\ DOMAIN log' = 1 .. Len(log) + 1
      /\ \A g \in 1 .. Len(log) : log'[g] = log[g]
  BY <1>1, AppendProperties, LenProperties
<1>4. \A g, r, b : InLog(log, g, r, b) => InLog(log', g, r, b)
  BY <1>3 DEF InLog
<1>5. Abstract!Open
  BY DEF StartMatch, Abstract!Open
<1> QED BY <1>2, <1>4, <1>5 DEF LogGrows

LEMMA StartOrdered ==
  ASSUME ~Overtaking, TypeInv, TypeInv', OrderInv, StartMatch
  PROVE  OrderInv' /\ Abstract!Open
<1>1. PICK o \in srv.here :
        /\ srv' = [srv EXCEPT !.gen = @ + 1, !.on = TRUE, !.owner = o,
                              !.ready = FALSE, !.slots = srv.here, !.seated = {}]
        /\ Emit(srv.here, StartBatch(o))
  BY DEF StartMatch, StartBatch
<1>2. /\ srv.here \in SUBSET Clients /\ o \in Clients /\ srv \in Servers
      /\ srv.gen \in Nat /\ srv'.gen = srv.gen + 1 /\ log' = Append(log, <<>>)
      /\ log \in Seq(Seq(Entries)) /\ ServerTyped /\ srv.gen < MaxGen
  BY <1>1, Bounds DEF TypeInv, ServerTyped, Servers, StartMatch
<1>3. LogGrows /\ Abstract!Open
  BY <1>2, StartLogged
<1>4. BatchOK(StartBatch(o), Now', log')
  BY <1>2, StartBatchTyped DEF StartBatch, BatchOK, Placed, Committed
<1>5. OrderInv'
  BY <1>1, <1>2, <1>3, <1>4, EmitOrdered DEF StartMatch
<1> QED BY <1>3, <1>5

LEMMA NoPlaces ==
  ASSUME NEW m \in Downs, m.type \notin {"BOARD", "READY", "REPLAY"}, NEW p, NEW lg
  PROVE  BatchOK(<<m>>, p, lg)
BY DEF BatchOK, Placed, Committed

LEMMA EndOrdered ==
  ASSUME ~Overtaking, TypeInv, TypeInv', OrderInv,
         EndMatch \/ \E c \in Clients : Leave(c)
  PROVE  OrderInv' /\ UNCHANGED <<log, shown>>
<1>0. UNCHANGED <<page, log, shown>>
  BY DEF EndMatch, Leave
<1>1. /\ ServerTyped /\ srv \in Servers /\ srv.here \in SUBSET Clients
      /\ srv.on => srv.gen \in Gens
      /\ srv.slots \in SUBSET Clients
  BY DEF TypeInv, ServerTyped, Servers
<1>2. ASSUME NEW h \in SUBSET Clients, NEW x
      PROVE  LET s == [srv EXCEPT !.here = h]
             IN  s.gen = srv.gen /\ NoMatch(s).gen = srv.gen
                 /\ [s EXCEPT !.owner = x].gen = srv.gen /\ NoMatch(srv).gen = srv.gen
  BY <1>1 DEF Servers, NoMatch
<1>3. ASSUME srv'.gen = srv.gen, NEW to \in SUBSET Clients, NEW m \in Downs,
             m.type \in {"END", "INIT"}, Emit(to, <<m>>)
      PROVE  OrderInv'
  <2>1. LogGrows
    BY <1>0, <1>1, <1>3, SameLog
  <2>2. BatchOK(<<m>>, Now', log')
    BY <1>3, NoPlaces
  <2> QED BY <1>0, <1>3, <2>1, <2>2, EmitOrdered
<1>4. [type |-> "END"] \in Downs
  BY DEF Downs, Plain
<1>5. CASE EndMatch
  BY <1>1, <1>2, <1>3, <1>4, <1>5 DEF EndMatch
<1>6. ASSUME NEW c \in Clients, Leave(c) PROVE OrderInv'
  <2> DEFINE rest == srv.here \ {c}
             s == [srv EXCEPT !.here = rest]
  <2>0. rest \in SUBSET Clients
    BY <1>1
  <2>1. CASE srv' = s /\ UNCHANGED <<flight, down>>
    <3>1. LogGrows
      BY <1>0, <1>1, <1>2, <2>0, <2>1, SameLog
    <3> QED BY <1>0, <2>1, <3>1, QuietOrdered
  <2>2. CASE srv' = NoMatch(s) /\ Emit(rest, <<[type |-> "END"]>>)
    BY <1>2, <1>3, <1>4, <2>0, <2>2
  <2>3. ASSUME NEW o \in rest \cap srv.slots, srv.on, srv' = [s EXCEPT !.owner = o],
               Emit(rest, <<[type |-> "INIT", gen |-> srv.gen, owner |-> o]>>)
        PROVE  OrderInv'
    <3> DEFINE msg == [type |-> "INIT", gen |-> srv.gen, owner |-> o]
    <3>1. msg \in Downs /\ msg.type = "INIT" /\ Emit(rest, <<msg>>)
      BY <1>1, <2>0, <2>3 DEF Downs, Inits
    <3>2. srv'.gen = srv.gen
      BY <1>2, <2>0, <2>3
    <3> HIDE DEF msg, rest
    <3> QED BY <1>3, <2>0, <3>1, <3>2
  <2> QED BY <1>6, <2>1, <2>2, <2>3 DEF Leave
<1> QED BY <1>0, <1>5, <1>6

\* A board the server takes is the next of its log.
LEMMA BoardLogged ==
  ASSUME ServerTyped, NEW c \in Clients, NEW m \in BoardsUp, TakeBoard(c, m), Accepts(c, m),
         shown' = shown
  PROVE  /\ LogGrows /\ Now'.gen = srv.gen /\ Now'.rev = BoardRev + 1 /\ srv'.gen = srv.gen
         /\ InLog(log', srv.gen, BoardRev + 1, m.eaten)
         /\ Abstract!Commit(m.eaten)
<1> DEFINE e == [gen |-> m.gen, board |-> m.eaten]
<1>1. /\ srv.on /\ m.gen = srv.gen /\ srv' = [srv EXCEPT !.ready = TRUE]
      /\ Emit(srv.here, BoardBatch(m)) /\ e \in Entries
      /\ log' = [log EXCEPT ![srv.gen] = Append(@, e)]
  BY BoardTaken
<1>2. e.board = m.eaten /\ e.gen = srv.gen /\ m.eaten \in SUBSET Fruits
  BY <1>1 DEF BoardsUp
<1>3. /\ srv.gen \in 1 .. Len(log) /\ Len(log) = srv.gen /\ srv'.gen = srv.gen
      /\ log[srv.gen] \in Seq(Entries) /\ srv.gen # 0 /\ log # <<>>
      /\ BoardRev = Len(log[srv.gen]) /\ BoardRev \in Nat
      /\ log \in Seq(Seq(Entries))
      /\ DOMAIN log[srv.gen] = 1 .. BoardRev
  BY <1>1, LogFacts DEF ServerTyped, Servers, Gens
<1> HIDE DEF e
<1> DEFINE es == Append(log[srv.gen], e)
<1>4. /\ es \in Seq(Entries) /\ Len(es) = BoardRev + 1 /\ DOMAIN es = 1 .. BoardRev + 1
      /\ es[BoardRev + 1] = e /\ \A r \in 1 .. BoardRev : es[r] = log[srv.gen][r]
  BY <1>1, <1>3, AppendProperties, LenProperties
<1> HIDE DEF es
<1>5. /\ log' = [log EXCEPT ![srv.gen] = es]
      /\ DOMAIN log' = DOMAIN log /\ log'[srv.gen] = es
      /\ \A g \in DOMAIN log : g # srv.gen => log'[g] = log[g]
  BY <1>1, <1>3 DEF es
<1>6. Now'.gen = srv.gen /\ Now'.rev = BoardRev + 1 /\ Now.gen = srv.gen /\ Now.rev = BoardRev
  BY <1>3, <1>4, <1>5 DEF Now, BoardRev
<1>7. LogGrows
  <2>1. AtMost(Now, Now')
    BY <1>3, <1>6 DEF AtMost
  <2>2. ASSUME NEW g, NEW r, NEW b, InLog(log, g, r, b)
        PROVE  InLog(log', g, r, b)
    <3>1. g \in DOMAIN log /\ r \in DOMAIN log[g] /\ log[g][r].board = b
      BY <2>2 DEF InLog
    <3>2. CASE g = srv.gen
      <4>1. r \in 1 .. BoardRev /\ r \in 1 .. BoardRev + 1
        BY <1>3, <3>1, <3>2
      <4>2. log'[g] = es /\ g \in DOMAIN log' /\ r \in DOMAIN es /\ es[r] = log[g][r]
        BY <1>4, <1>5, <3>1, <3>2, <4>1
      <4> QED BY <3>1, <4>2 DEF InLog
    <3>3. CASE g # srv.gen
      BY <1>5, <3>1, <3>3 DEF InLog
    <3> QED BY <3>2, <3>3
  <2> QED BY <2>1, <2>2 DEF LogGrows
<1>8. InLog(log', srv.gen, BoardRev + 1, m.eaten)
  BY <1>2, <1>3, <1>4, <1>5 DEF InLog
<1>9. srv'.gen = srv.gen
  BY <1>1 DEF ServerTyped, Servers
<1>10. Abstract!Commit(m.eaten)
  BY <1>1, <1>2, <1>3 DEF Abstract!Commit, e
<1> QED BY <1>6, <1>7, <1>8, <1>9, <1>10

LEMMA ReceiveOrdered ==
  ASSUME ~Overtaking, TypeInv, TypeInv', OrderInv, NEW c \in Clients, Receive(c)
  PROVE  OrderInv' /\ (UNCHANGED <<log, shown>> \/ \E b \in SUBSET Fruits : Abstract!Commit(b))
<1> DEFINE m == Head(up[c])
<1>1. m \in Ups
  BY HeadTyped DEF Receive, TypeInv, PagesTyped
<1>2. ServerTyped /\ NetTyped /\ page' = page /\ shown' = shown
      /\ srv \in Servers /\ srv.here \in SUBSET Clients
  BY DEF TypeInv, ServerTyped, Servers, Receive
<1>3. \/ TakeSeat(c, m)
      \/ m \in BoardsUp /\ TakeBoard(c, m)
      \/ TakeResync(c)
  BY <1>1, UpCases DEF Receive
<1> HIDE DEF m
<1>4. CASE TakeSeat(c, m) \/ (m \in BoardsUp /\ TakeBoard(c, m) /\ ~Accepts(c, m))
  <2>1. UNCHANGED <<flight, down, log>> /\ srv'.gen = srv.gen
    BY <1>2, <1>4 DEF TakeSeat, TakeBoard, Servers
  <2>2. OrderInv'
    BY <1>2, <2>1, SameLog, QuietOrdered
  <2> QED BY <1>2, <2>1, <2>2
<1>5. CASE TakeResync(c)
  <2>1. UNCHANGED <<srv, log>> /\ Emit({c}, ReplayBatch)
    BY <1>2, <1>5, TakeResyncTyped DEF TakeResync
  <2>2. LogGrows /\ Now' = Now
    BY <1>2, <2>1, SameLog
  <2>3. BatchOK(ReplayBatch, Now, log)
    <3>1. ReplayBatch \in Seq(Downs)
      BY <1>2, ReplayBatchTyped
    <3>2. CASE ~srv.on
      BY <3>1, <3>2 DEF ReplayBatch, BatchOK, Placed, Committed
    <3>3. CASE srv.on /\ ~srv.ready
      BY <3>1, <3>3 DEF ReplayBatch, ReplayHead, BatchOK, Placed, Committed, Now
    <3>4. CASE srv.on /\ srv.ready
      <4>1. InLog(log, srv.gen, BoardRev, Last(log[srv.gen]).board)
        BY <1>2, <3>4, LogFacts DEF InLog, ServerTyped, Gens
      <4> DEFINE b == ReplayBatch
      <4>2. /\ DOMAIN b = 1 .. 4 /\ b[1] = ReplayHead /\ b[2] = ReplayBoard
            /\ b[3] = ReplayReady /\ b[4] = [type |-> "ROSTER"]
        BY <3>4 DEF ReplayBatch
      <4> HIDE DEF b
      <4>3. Committed(b, log)
        BY <4>1, <4>2 DEF Committed, ReplayHead, ReplayBoard, ReplayReady
      <4>4. /\ \A i \in DOMAIN b : Placed(b[i]) => b[i].gen = Now.gen /\ b[i].rev = Now.rev
            /\ \A i \in DOMAIN b : b[i].type = "READY" => i > 1 /\ Partner(b[i - 1], b[i])
        BY <4>2 DEF Placed, Now, Partner, ReplayHead, ReplayBoard, ReplayReady
      <4> QED BY <3>1, <4>3, <4>4 DEF BatchOK, b
    <3> QED BY <3>2, <3>3, <3>4
  <2>4. OrderInv'
    BY <1>2, <2>1, <2>2, <2>3, EmitOrdered
  <2> QED BY <1>2, <2>1, <2>4
<1>6. CASE m \in BoardsUp /\ TakeBoard(c, m) /\ Accepts(c, m)
  <2>1. /\ LogGrows /\ Now'.gen = srv.gen /\ Now'.rev = BoardRev + 1
        /\ InLog(log', srv.gen, BoardRev + 1, m.eaten)
        /\ Abstract!Commit(m.eaten)
    BY <1>2, <1>6, BoardLogged
  <2>2. /\ Emit(srv.here, BoardBatch(m)) /\ srv.on
        /\ m.eaten \in SUBSET Fruits
    BY <1>2, <1>6, BoardTaken DEF BoardsUp
  <2>3. BatchOK(BoardBatch(m), Now', log')
    <3>1. BoardBatch(m) \in Seq(Downs)
      BY <1>2, <1>6, <2>2, BoardBatchTyped
    <3> DEFINE board == [type |-> "BOARD", gen |-> srv.gen, rev |-> BoardRev + 1,
                         eaten |-> m.eaten]
               ready == [type |-> "READY", gen |-> srv.gen, rev |-> BoardRev + 1]
               b == BoardBatch(m)
    <3>2. /\ b[1] = board
          /\ \/ DOMAIN b = {1}
             \/ DOMAIN b = {1, 2} /\ b[2] = ready
      BY DEF BoardBatch
    <3>3. Committed(b, log')
      <4> HIDE DEF b
      <4> QED BY <2>1, <3>2 DEF Committed
    <3>4. /\ \A i \in DOMAIN b : Placed(b[i]) => b[i].gen = Now'.gen /\ b[i].rev = Now'.rev
          /\ \A i \in DOMAIN b : b[i].type = "READY" => i > 1 /\ Partner(b[i - 1], b[i])
      <4> HIDE DEF b
      <4> QED BY <2>1, <3>2 DEF Partner
    <3> QED BY <3>1, <3>3, <3>4 DEF BatchOK
  <2>4. OrderInv'
    BY <1>2, <2>1, <2>2, <2>3, EmitOrdered
  <2> QED BY <2>1, <2>2, <2>4
<1> QED BY <1>3, <1>4, <1>5, <1>6

\* What the handlers make of the relay and of the staged replay.
LEMMA HelpersKeep ==
  ASSUME NEW p \in Pages
  PROVE  /\ \A g, b : BindGeneration(p, g, b).stage = p.stage
         /\ \A r : /\ MarkBoardReady(p, r).stage = p.stage
                   /\ MarkBoardReady(p, r).relay = p.relay
         /\ \A me : /\ PublishInitial(p, me).page.stage = p.stage
                    /\ PublishInitial(p, me).page.relay = p.relay
<1>1. \A g, b : BindGeneration(p, g, b).stage = p.stage
  BY DEF BindGeneration, Pages
<1>2. \A r : MarkBoardReady(p, r).stage = p.stage /\ MarkBoardReady(p, r).relay = p.relay
  BY DEF MarkBoardReady, Pages
<1>3. \A me : /\ PublishInitial(p, me).page.stage = p.stage
              /\ PublishInitial(p, me).page.relay = p.relay
  BY DEF PublishInitial, Quiet, Pages
<1> QED BY <1>1, <1>2, <1>3

LEMMA QuietPage == \A d : Quiet(d).page = d
BY DEF Quiet

LEMMA StartStage ==
  ASSUME NEW p \in Pages, NEW m \in Starts
  PROVE  OnStart(p, m).stage \in {None, p.stage}
<1> DEFINE d == [p EXCEPT !.gen = m.gen, !.rev = 0, !.ready = FALSE,
                   !.owner = m.owner, !.stage = None, !.relay = TRUE,
                   !.over = FALSE, !.initReq = FALSE, !.spawn = FALSE,
                   !.eaten = {}]
<1>1. m.gen \in 0 .. MaxGen /\ m.owner \in Clients
  BY Bounds DEF Starts, Gens
<1>2. d \in Pages
  BY <1>1, NoStage DEF Pages
<1>3. d.stage = None
  BY DEF Pages
<1> HIDE DEF d
<1>4. BindGeneration(d, m.gen, FALSE).stage = None
  BY <1>2, <1>3, HelpersKeep
<1> QED BY <1>4 DEF OnStart, d

LEMMA RosterStage ==
  ASSUME NEW p \in Pages
  PROVE  OnRoster(p).stage = IF p.relay THEN None ELSE p.stage
<1> DEFINE s == p.stage
           d0 == [p EXCEPT !.gen = s.gen, !.rev = s.rev, !.ready = s.ready,
                           !.owner = s.owner, !.stage = None]
           b == BindGeneration(d0, s.gen, s.ready)
           d == [b EXCEPT !.eaten = IF s.board = None THEN @ ELSE s.board]
<1> SUFFICES ASSUME s # None, p.relay PROVE OnRoster(p).stage = None
  BY DEF OnRoster, Pages
<1>1. /\ s.gen \in 0 .. MaxGen /\ s.gen \in Nat /\ s.rev \in Nat /\ s.ready \in BOOLEAN
      /\ s.owner \in Clients \cup {None} /\ s.board \in {None} \cup SUBSET Fruits
  BY StageTyped, Bounds
<1>2. d0 \in Pages /\ d0.stage = None
  <2> HIDE DEF s
  <2> QED BY <1>1, NoStage DEF Pages
<1>3. b \in Pages /\ b.stage = None
  <2> HIDE DEF d0, s
  <2> QED BY <1>1, <1>2, BindTyped, HelpersKeep
<1>4. d \in Pages /\ d.stage = None
  <2> HIDE DEF b, s
  <2> QED BY <1>1, <1>3 DEF Pages
<1>5. MarkBoardReady(d, s.rev).stage = None
  <2> HIDE DEF d, s
  <2> QED BY <1>4, HelpersKeep
<1> QED BY <1>4, <1>5 DEF OnRoster

LEMMA QuietStage ==
  ASSUME NEW p \in Pages, NEW me, NEW m \in Downs,
         m.type \in {"START", "PLAY", "INIT", "ROSTER", "END"}
  PROVE  /\ Handle(p, me, m).page.stage \in {None, p.stage}
         /\ m.type = "ROSTER" /\ p.relay => Handle(p, me, m).page.stage = None
<1>1. CASE m.type = "START"
  BY <1>1, HandleCases, QuietPage, StartStage
<1>2. CASE m.type = "PLAY"
  <2>1. OnPlaySync(p).stage = p.stage
    BY DEF OnPlaySync, Pages
  <2> QED BY <1>2, <2>1, HandleCases, QuietPage
<1>3. CASE m.type = "INIT"
  <2> DEFINE d == [p EXCEPT !.owner = m.owner, !.initReq = TRUE]
  <2>1. m \in Inits /\ Handle(p, me, m) = OnBoardInit(p, me, m)
    BY <1>3, HandleCases
  <2>2. d \in Pages /\ d.stage = p.stage
    BY <2>1 DEF Pages, Inits
  <2> HIDE DEF d
  <2>3. PublishInitial(d, me).page.stage = p.stage
    BY <2>2, HelpersKeep
  <2> QED BY <1>3, <2>1, <2>3, QuietPage DEF OnBoardInit, d
<1>4. CASE m.type = "ROSTER"
  BY <1>4, HandleCases, QuietPage, RosterStage
<1>5. CASE m.type = "END"
  <2>1. OnEnd(p).stage \in {None, p.stage}
    BY DEF OnEnd, EnterLobby, Pages
  <2> QED BY <1>5, <2>1, HandleCases, QuietPage
<1> QED BY <1>1, <1>2, <1>3, <1>4, <1>5

LEMMA ReplayStage ==
  ASSUME NEW p \in Pages, NEW me, NEW m \in Downs, m.type = "REPLAY"
  PROVE  LET s == Handle(p, me, m).page.stage
         IN s = p.stage \/ (s.gen = m.gen /\ s.rev = m.rev /\ s.board = None)
<1>1. Handle(p, me, m).page = OnReplay(p, m)
  BY HandleCases, QuietPage
<1>2. \/ OnReplay(p, m).stage = p.stage
      \/ OnReplay(p, m).stage = [gen |-> m.gen, rev |-> m.rev, ready |-> m.ready,
                                 owner |-> m.owner, board |-> None]
  BY DEF OnReplay, Pages
<1> QED BY <1>1, <1>2

LEMMA BoardStage ==
  ASSUME NEW p \in Pages, NEW me, NEW m \in Downs, m.type = "BOARD"
  PROVE  LET d == Handle(p, me, m).page
         IN /\ d.relay = p.relay
            /\ p.stage = None \/ ~AcceptsRev(p, m) => d.stage = p.stage
            /\ p.stage # None /\ AcceptsRev(p, m) =>
                 d.stage.gen = p.stage.gen /\ d.stage.rev = m.rev /\ d.stage.board = m.eaten
<1>1. m \in BoardsDown /\ Handle(p, me, m).page = OnBoard(p, m)
  BY HandleCases, QuietPage
<1> DEFINE st == [p.stage EXCEPT !.rev = m.rev, !.board = m.eaten]
<1>2. ASSUME p.stage # None
      PROVE  /\ [p EXCEPT !.stage.rev = m.rev, !.stage.board = m.eaten] = [p EXCEPT !.stage = st]
             /\ st.gen = p.stage.gen /\ st.rev = m.rev /\ st.board = m.eaten
  BY <1>2, StageTyped DEF Pages
<1>3. \/ OnBoard(p, m).stage = p.stage /\ OnBoard(p, m).relay = p.relay
          /\ (p.stage = None \/ ~AcceptsRev(p, m))
      \/ p.stage # None /\ AcceptsRev(p, m) /\ OnBoard(p, m) = [p EXCEPT !.stage = st]
  <2> HIDE DEF st
  <2>1. CASE AppliesBoard(p, m)
    BY <2>1 DEF OnBoard, AppliesBoard, Pages
  <2>2. CASE ~AppliesBoard(p, m)
    BY <1>2, <2>2 DEF OnBoard, Pages
  <2> QED BY <2>1, <2>2
<1> HIDE DEF st
<1>4. [p EXCEPT !.stage = st].stage = st /\ [p EXCEPT !.stage = st].relay = p.relay
  BY DEF Pages
<1> QED BY <1>1, <1>2, <1>3, <1>4

LEMMA ReadyStage ==
  ASSUME NEW p \in Pages, NEW me, NEW m \in Downs, m.type = "READY"
  PROVE  LET d == Handle(p, me, m).page
         IN /\ d.relay = p.relay
            /\ p.stage = None \/ ~AcceptsRev(p, m) => d.stage = p.stage
            /\ p.stage # None /\ AcceptsRev(p, m) =>
                 d.stage.gen = p.stage.gen /\ d.stage.rev = m.rev
                 /\ d.stage.board = p.stage.board
<1>1. m \in Readies /\ Handle(p, me, m).page = OnBoardReady(p, m)
  BY HandleCases, QuietPage
<1> DEFINE st == [p.stage EXCEPT !.rev = m.rev, !.ready = TRUE]
           e == [p EXCEPT !.rev = m.rev, !.ready = TRUE]
<1>2. ASSUME p.stage # None
      PROVE  /\ [p EXCEPT !.stage.rev = m.rev, !.stage.ready = TRUE] = [p EXCEPT !.stage = st]
             /\ st.gen = p.stage.gen /\ st.rev = m.rev /\ st.board = p.stage.board
  BY <1>2, StageTyped DEF Pages
<1>3. e \in Pages /\ e.stage = p.stage /\ e.relay = p.relay
  BY <1>1 DEF Pages, Readies
<1>4. MarkBoardReady(e, m.rev).stage = p.stage /\ MarkBoardReady(e, m.rev).relay = p.relay
  <2> HIDE DEF e
  <2> QED BY <1>3, HelpersKeep
<1>5. \/ OnBoardReady(p, m).stage = p.stage /\ OnBoardReady(p, m).relay = p.relay
          /\ (p.stage = None \/ ~AcceptsRev(p, m))
      \/ p.stage # None /\ AcceptsRev(p, m) /\ OnBoardReady(p, m) = [p EXCEPT !.stage = st]
  <2> HIDE DEF st
  <2> QED BY <1>2, <1>4 DEF OnBoardReady
<1> HIDE DEF st
<1>6. [p EXCEPT !.stage = st].stage = st /\ [p EXCEPT !.stage = st].relay = p.relay
  BY DEF Pages
<1> QED BY <1>1, <1>2, <1>5, <1>6

\* What a page takes over when it handles a message.
LEMMA TakenCases ==
  ASSUME NEW p \in Pages, NEW me, NEW m \in Downs,
         NEW t, t = Taken(p, m), t # NoShown
  PROVE  /\ Handle(p, me, m).page.stage = None
         /\ \/ /\ m.type = "BOARD" /\ p.stage = None
               /\ t = [gen |-> m.gen, rev |-> m.rev, board |-> m.eaten]
            \/ /\ m.type = "ROSTER" /\ p.stage # None /\ p.stage.board # None
               /\ t = [gen |-> p.stage.gen, rev |-> p.stage.rev, board |-> p.stage.board]
<1>1. CASE m.type = "BOARD" /\ AppliesBoard(p, m)
  <2>1. p.stage = None /\ t = [gen |-> m.gen, rev |-> m.rev, board |-> m.eaten]
    BY <1>1 DEF Taken, AppliesBoard
  <2> QED BY <1>1, <2>1, BoardStage
<1>2. CASE ~(m.type = "BOARD" /\ AppliesBoard(p, m))
  <2>1. /\ m.type = "ROSTER" /\ p.relay /\ p.stage # None /\ p.stage.board # None
        /\ t = [gen |-> p.stage.gen, rev |-> p.stage.rev, board |-> p.stage.board]
    BY <1>2 DEF Taken
  <2> QED BY <2>1, QuietStage
<1> QED BY <1>1, <1>2

\* The orders of the rest of a queue, from its head.
LEMMA TailOrdered ==
  ASSUME NEW q \in Seq(Downs), q # <<>>, NEW p, NEW now, NEW lg, NEW pg
  PROVE  LET m == Head(q)
             t == Tail(q)
         IN /\ t \in Seq(Downs) /\ m \in Downs
            /\ Sorted(q) => Sorted(t) /\ (Placed(m) => AllFrom(m, t))
            /\ AllFrom(p, q) => AllFrom(p, t) /\ (Placed(m) => AtMost(p, m))
            /\ AllUpTo(q, now) => AllUpTo(t, now) /\ (Placed(m) => AtMost(m, now))
            /\ Committed(q, lg) =>
                 /\ Committed(t, lg)
                 /\ m.type = "BOARD" => InLog(lg, m.gen, m.rev, m.eaten)
            /\ Paired(q, pg) =>
                 /\ m.type = "READY" => Absorbed(pg, m)
                 /\ \A i \in DOMAIN t :
                      t[i].type = "READY" =>
                        IF i = 1 THEN Partner(m, t[i]) ELSE Partner(t[i - 1], t[i])
<1> DEFINE m == Head(q)
           t == Tail(q)
<1>1. /\ 1 \in DOMAIN q /\ m = q[1] /\ t \in Seq(Downs)
      /\ \A i \in DOMAIN t : i \in Nat /\ i > 0 /\ i + 1 \in DOMAIN q /\ t[i] = q[i + 1]
  BY TailIndex
<1>2. m \in Downs
  BY <1>1, QueueTyped
<1>3. DOMAIN t = 1 .. Len(t) /\ Len(t) \in Nat
  BY <1>1, LenProperties
<1> HIDE DEF m, t
<1>4. ASSUME Sorted(q) PROVE Sorted(t) /\ (Placed(m) => AllFrom(m, t))
  <2>1. Sorted(t)
    <3> SUFFICES ASSUME NEW i \in DOMAIN t, NEW j \in DOMAIN t, i < j,
                        Placed(t[i]), Placed(t[j])
                 PROVE  AtMost(t[i], t[j])
      BY DEF Sorted
    <3>1. i + 1 \in DOMAIN q /\ j + 1 \in DOMAIN q /\ i + 1 < j + 1
      BY <1>1
    <3> QED BY <1>1, <1>4, <3>1 DEF Sorted
  <2>2. ASSUME Placed(m) PROVE AllFrom(m, t)
    <3> SUFFICES ASSUME NEW i \in DOMAIN t, Placed(t[i]) PROVE AtMost(m, t[i])
      BY DEF AllFrom
    <3>1. i + 1 \in DOMAIN q /\ 1 < i + 1
      BY <1>1
    <3> QED BY <1>1, <1>4, <2>2, <3>1 DEF Sorted
  <2> QED BY <2>1, <2>2
<1>5. ASSUME AllFrom(p, q) PROVE AllFrom(p, t) /\ (Placed(m) => AtMost(p, m))
  BY <1>1, <1>5 DEF AllFrom
<1>6. ASSUME AllUpTo(q, now) PROVE AllUpTo(t, now) /\ (Placed(m) => AtMost(m, now))
  BY <1>1, <1>6 DEF AllUpTo
<1>7. ASSUME Committed(q, lg)
      PROVE  /\ Committed(t, lg)
             /\ m.type = "BOARD" => InLog(lg, m.gen, m.rev, m.eaten)
  BY <1>1, <1>7 DEF Committed
<1>8. ASSUME Paired(q, pg)
      PROVE  /\ m.type = "READY" => Absorbed(pg, m)
             /\ \A i \in DOMAIN t :
                  t[i].type = "READY" =>
                    IF i = 1 THEN Partner(m, t[i]) ELSE Partner(t[i - 1], t[i])
  <2>1. m.type = "READY" => Absorbed(pg, m)
    BY <1>1, <1>8 DEF Paired
  <2>2. ASSUME NEW i \in DOMAIN t, t[i].type = "READY"
        PROVE  IF i = 1 THEN Partner(m, t[i]) ELSE Partner(t[i - 1], t[i])
    <3>1. i \in Nat /\ i > 0 /\ i + 1 \in DOMAIN q /\ t[i] = q[i + 1] /\ i + 1 # 1
          /\ (i + 1) - 1 = i
      BY <1>1
    <3>2. Partner(q[i], t[i])
      BY <1>8, <2>2, <3>1 DEF Paired
    <3>3. CASE i = 1
      BY <1>1, <3>2, <3>3
    <3>4. CASE i # 1
      <4>1. i - 1 \in DOMAIN t /\ (i - 1) + 1 = i
        BY <1>3, <3>1, <3>4
      <4> QED BY <1>1, <3>2, <3>4, <4>1
    <3> QED BY <3>3, <3>4
  <2> QED BY <2>1, <2>2
<1> QED BY <1>1, <1>2, <1>4, <1>5, <1>6, <1>7, <1>8 DEF m, t

\* The READY after a board is about the board the page has staged.
LEMMA PairedTail ==
  ASSUME NEW p \in Pages, NEW me, NEW m \in Downs, NEW q,
         p.stage # None => (Placed(m) => AtMost(p.stage, m)),
         \A i \in DOMAIN q :
           q[i].type = "READY" =>
             IF i = 1 THEN Partner(m, q[i]) ELSE Partner(q[i - 1], q[i])
  PROVE  Paired(q, Handle(p, me, m).page)
<1> DEFINE d == Handle(p, me, m).page
<1>0. m.type = "BOARD" =>
        /\ d.relay = p.relay
        /\ p.stage = None \/ ~AcceptsRev(p, m) => d.stage = p.stage
        /\ p.stage # None /\ AcceptsRev(p, m) =>
             d.stage.gen = p.stage.gen /\ d.stage.rev = m.rev
  BY BoardStage
<1> HIDE DEF d
<1> SUFFICES ASSUME NEW i \in DOMAIN q, q[i].type = "READY", i = 1
             PROVE  Absorbed(d, q[i])
  BY DEF Paired, d
<1>1. m.type = "BOARD" /\ q[i].gen = m.gen /\ q[i].rev = m.rev
  BY DEF Partner
<1>2. m.gen \in Nat /\ m.gen # 0 /\ m.rev \in Nat
  BY <1>1, HandleCases DEF BoardsDown, Gens
<1> SUFFICES ASSUME d.relay, d.stage # None, d.stage.gen = m.gen
             PROVE  d.stage.rev = m.rev
  BY <1>1 DEF Absorbed
<1>3. /\ d.relay = p.relay
      /\ p.stage = None \/ ~AcceptsRev(p, m) => d.stage = p.stage
      /\ p.stage # None /\ AcceptsRev(p, m) =>
           d.stage.gen = p.stage.gen /\ d.stage.rev = m.rev
  BY <1>0, <1>1
<1>4. p.stage # None /\ p.stage.gen = m.gen
  BY <1>3
<1>5. p.stage.rev <= m.rev
  <2>1. AtMost(p.stage, m)
    BY <1>1, <1>4 DEF Placed
  <2> QED BY <1>2, <1>4, <2>1 DEF AtMost
<1>6. AcceptsRev(p, m)
  <2>1. p.stage.rev \in Nat
    BY <1>4, StageTyped
  <2> QED BY <1>2, <1>3, <1>4, <1>5, <2>1 DEF AcceptsRev, AcceptGeneration, TargetRev
<1> QED BY <1>3, <1>4, <1>6

\* The staged replay after a message: still none that the rest of the queue
\* precedes, and still a board of the log.
LEMMA StageAfter ==
  ASSUME NEW p \in Pages, NEW me, NEW m \in Downs, NEW q \in Seq(Downs),
         NEW sh, NEW now, NEW lg,
         p.stage # None =>
           /\ AtMost(sh, p.stage) /\ AtMost(p.stage, now) /\ AllFrom(p.stage, q)
           /\ p.stage.board # None => InLog(lg, p.stage.gen, p.stage.rev, p.stage.board),
         Placed(m) => AtMost(sh, m) /\ AtMost(m, now) /\ AllFrom(m, q),
         m.type = "BOARD" => InLog(lg, m.gen, m.rev, m.eaten),
         m.type = "READY" => Absorbed(p, m)
  PROVE  LET s == Handle(p, me, m).page.stage
         IN s # None =>
              /\ AtMost(sh, s) /\ AtMost(s, now) /\ AllFrom(s, q)
              /\ s.board # None => InLog(lg, s.gen, s.rev, s.board)
<1> DEFINE s == Handle(p, me, m).page.stage
           OK(x) == x # None =>
                      /\ AtMost(sh, x) /\ AtMost(x, now) /\ AllFrom(x, q)
                      /\ x.board # None => InLog(lg, x.gen, x.rev, x.board)
<1>1. OK(p.stage) /\ OK(None)
  OBVIOUS
<1>2. ASSUME NEW x, Placed(m), x.gen = m.gen, x.rev = m.rev,
             x.board # None => InLog(lg, x.gen, x.rev, x.board)
      PROVE  OK(x)
  BY <1>2 DEF AtMost, AllFrom
<1>3. CASE m.type \in {"START", "PLAY", "INIT", "ROSTER", "END"}
  <2>1. s \in {None, p.stage}
    BY <1>3, QuietStage
  <2> HIDE DEF s
  <2>2. OK(s)
    BY <1>1, <2>1
  <2> QED BY <2>2 DEF s
<1>4. CASE m.type = "REPLAY"
  <2>1. s = p.stage \/ (s.gen = m.gen /\ s.rev = m.rev /\ s.board = None)
    BY <1>4, ReplayStage
  <2> HIDE DEF s, OK
  <2>2. OK(s)
    BY <1>1, <1>2, <1>4, <2>1 DEF Placed
  <2> QED BY <2>2 DEF s, OK
<1>5. CASE m.type = "BOARD"
  <2>1. /\ p.stage = None \/ ~AcceptsRev(p, m) => s = p.stage
        /\ p.stage # None /\ AcceptsRev(p, m) =>
             s.gen = p.stage.gen /\ s.rev = m.rev /\ s.board = m.eaten
    BY <1>5, BoardStage
  <2>2. p.stage # None /\ AcceptsRev(p, m) => p.stage.gen = m.gen
    BY DEF AcceptsRev, AcceptGeneration
  <2> HIDE DEF s, OK
  <2>3. OK(s)
    BY <1>1, <1>2, <1>5, <2>1, <2>2 DEF Placed
  <2> QED BY <2>3 DEF s, OK
<1>6. CASE m.type = "READY"
  <2>1. /\ p.stage = None \/ ~AcceptsRev(p, m) => s = p.stage
        /\ p.stage # None /\ AcceptsRev(p, m) =>
             s.gen = p.stage.gen /\ s.rev = m.rev /\ s.board = p.stage.board
    BY <1>6, ReadyStage
  <2>2. p.stage # None /\ AcceptsRev(p, m) =>
          /\ p.stage.gen = m.gen
          /\ p.stage.board # None =>
               p.stage.rev = m.rev /\ InLog(lg, p.stage.gen, p.stage.rev, p.stage.board)
    BY <1>6 DEF AcceptsRev, AcceptGeneration, Absorbed
  <2> HIDE DEF s, OK
  <2>3. OK(s)
    BY <1>1, <1>2, <1>6, <2>1, <2>2 DEF Placed
  <2> QED BY <2>3 DEF s, OK
<1> QED BY <1>3, <1>4, <1>5, <1>6, HandleCases

LEMMA DeliverOrdered ==
  ASSUME TypeInv, OrderInv, NEW c \in Clients, Deliver(c)
  PROVE  OrderInv' /\ (UNCHANGED <<log, shown>> \/ Abstract!Show(c))
<1> DEFINE q == down[c]
           m == Head(q)
           p == page[c]
           d == Handle(p, c, m).page
           t == Taken(p, m)
           sh == shown[c]
<1>1. /\ q \in Seq(Downs) /\ q # <<>> /\ p \in Pages /\ p.stage \in Stages
      /\ down \in [Clients -> Seq(Downs)] /\ page \in [Clients -> Pages]
  BY DEF Deliver, TypeInv, NetTyped, PagesTyped, Pages
<1>2. /\ page' = [page EXCEPT ![c] = d] /\ down' = [down EXCEPT ![c] = Tail(q)]
      /\ shown' = IF t = NoShown THEN shown ELSE [shown EXCEPT ![c] = t]
      /\ UNCHANGED <<srv, flight, log>>
  BY DEF Deliver, Sends
<1>3. /\ Sorted(q) /\ AllFrom(sh, q) /\ AllUpTo(q, Now) /\ Committed(q, log)
      /\ Paired(q, p) /\ sh \in [gen : Nat, rev : Nat, board : SUBSET Fruits]
      /\ AtMost(sh, Now)
      /\ sh # NoShown => InLog(log, sh.gen, sh.rev, sh.board)
      /\ p.stage # None =>
           /\ AtMost(sh, p.stage) /\ AtMost(p.stage, Now) /\ AllFrom(p.stage, q)
           /\ p.stage.board # None => InLog(log, p.stage.gen, p.stage.rev, p.stage.board)
  BY DEF OrderInv, Ordered, StageOK
<1>4. /\ Tail(q) \in Seq(Downs) /\ m \in Downs
      /\ Sorted(Tail(q)) /\ AllUpTo(Tail(q), Now) /\ Committed(Tail(q), log)
      /\ AllFrom(sh, Tail(q))
      /\ Placed(m) => AllFrom(m, Tail(q)) /\ AtMost(sh, m) /\ AtMost(m, Now)
      /\ m.type = "BOARD" => InLog(log, m.gen, m.rev, m.eaten)
      /\ m.type = "READY" => Absorbed(p, m)
      /\ \A i \in DOMAIN Tail(q) :
           Tail(q)[i].type = "READY" =>
             IF i = 1 THEN Partner(m, Tail(q)[i]) ELSE Partner(Tail(q)[i - 1], Tail(q)[i])
  <2> HIDE DEF q, p, sh
  <2> QED BY <1>1, <1>3, TailOrdered DEF m
<1>5. p.stage # None => AllFrom(p.stage, Tail(q)) /\ (Placed(m) => AtMost(p.stage, m))
  <2> HIDE DEF q, p, sh
  <2> QED BY <1>1, <1>3, TailOrdered DEF m
<1> HIDE DEF m
<1>6. Paired(Tail(q), d)
  <2> HIDE DEF q, p, sh
  <2> QED BY <1>1, <1>4, <1>5, PairedTail DEF d
<1>7. d.stage # None =>
        /\ AtMost(sh, d.stage) /\ AtMost(d.stage, Now) /\ AllFrom(d.stage, Tail(q))
        /\ d.stage.board # None => InLog(log, d.stage.gen, d.stage.rev, d.stage.board)
  <2> HIDE DEF q, p, sh
  <2> QED BY <1>1, <1>3, <1>4, <1>5, StageAfter DEF d
<1>8. ASSUME t # NoShown
      PROVE  /\ d.stage = None
             /\ t \in [gen : Nat, rev : Nat, board : SUBSET Fruits]
             /\ AtMost(sh, t) /\ AtMost(t, Now) /\ AllFrom(t, Tail(q))
             /\ InLog(log, t.gen, t.rev, t.board)
  <2>1. /\ d.stage = None
        /\ \/ /\ m.type = "BOARD" /\ p.stage = None
              /\ t = [gen |-> m.gen, rev |-> m.rev, board |-> m.eaten]
           \/ /\ m.type = "ROSTER" /\ p.stage # None /\ p.stage.board # None
              /\ t = [gen |-> p.stage.gen, rev |-> p.stage.rev, board |-> p.stage.board]
    <3> HIDE DEF p, t
    <3> QED BY <1>1, <1>4, <1>8, TakenCases DEF d, t
  <2> HIDE DEF d, t
  <2>2. CASE m.type = "BOARD" /\ t = [gen |-> m.gen, rev |-> m.rev, board |-> m.eaten]
    <3>1. m \in BoardsDown
      BY <1>4, <2>2 DEF Downs, Starts, Inits, Plain, BoardsDown, Readies, Replays
    <3>2. m.gen \in Nat /\ m.rev \in Nat /\ m.eaten \in SUBSET Fruits /\ Placed(m)
      BY <2>2, <3>1, Bounds DEF BoardsDown, Gens, Placed
    <3> HIDE DEF q, p, sh
    <3> QED BY <1>4, <2>1, <2>2, <3>2 DEF AtMost, AllFrom
  <2>3. CASE /\ p.stage # None /\ p.stage.board # None
             /\ t = [gen |-> p.stage.gen, rev |-> p.stage.rev, board |-> p.stage.board]
    <3>1. p.stage.gen \in Nat /\ p.stage.rev \in Nat /\ p.stage.board \in SUBSET Fruits
      BY <1>1, <2>3, Bounds DEF Stages
    <3> HIDE DEF q, p, sh
    <3> QED BY <1>3, <1>5, <2>1, <2>3, <3>1 DEF AtMost, AllFrom
  <2> QED BY <2>1, <2>2, <2>3
<1> HIDE DEF d, t
<1>9. /\ DOMAIN shown = Clients /\ shown = [x \in Clients |-> shown[x]]
      /\ \A x \in Clients : Ordered(x)
  BY DEF OrderInv
<1>10. UNCHANGED <<log, shown>> \/ Abstract!Show(c)
  <2>1. CASE t = NoShown
    BY <1>2, <2>1
  <2>2. CASE t # NoShown
    <3>1. CASE t.gen = sh.gen /\ t.rev = sh.rev
      <4>1. sh # NoShown
        BY <1>8, <2>2, <3>1, LogFacts DEF InLog, NoShown, TypeInv
      <4>2. t.board = sh.board
        BY <1>3, <1>8, <2>2, <3>1, <4>1 DEF InLog
      <4>3. t = sh
        BY <1>3, <1>8, <2>2, <3>1, <4>2
      <4>4. shown' = shown
        BY <1>2, <1>9, <2>2, <4>3
      <4> QED BY <1>2, <4>4
    <3>2. CASE ~(t.gen = sh.gen /\ t.rev = sh.rev)
      <4>1. t.gen > sh.gen \/ (t.gen = sh.gen /\ t.rev > sh.rev)
        BY <1>3, <1>8, <2>2, <3>2 DEF AtMost
      <4>2. /\ t.gen \in DOMAIN log /\ t.rev \in DOMAIN log[t.gen]
            /\ t = [gen |-> t.gen, rev |-> t.rev, board |-> log[t.gen][t.rev].board]
        BY <1>8, <2>2 DEF InLog
      <4> QED BY <1>2, <2>2, <4>1, <4>2 DEF Abstract!Show, Abstract!Later
    <3> QED BY <3>1, <3>2
  <2> QED BY <2>1, <2>2
<1>11. Now' = Now
  BY <1>2 DEF Now, BoardRev
<1>12. DOMAIN shown' = Clients /\ shown' = [x \in Clients |-> shown'[x]] /\ flight' = <<>>
  BY <1>2, <1>9 DEF OrderInv
<1>13. Ordered(c)'
  <2>1. page'[c] = d /\ down'[c] = Tail(q)
    BY <1>1, <1>2
  <2>2. CASE t = NoShown
    <3>1. shown'[c] = sh /\ log' = log
      BY <1>2, <2>2
    <3> QED BY <1>3, <1>4, <1>6, <1>7, <1>11, <2>1, <3>1 DEF Ordered, StageOK
  <2>3. CASE t # NoShown
    <3>1. shown'[c] = t /\ log' = log
      BY <1>2, <1>9, <2>3
    <3> QED BY <1>4, <1>6, <1>8, <1>11, <2>1, <2>3, <3>1 DEF Ordered, StageOK
  <2> QED BY <2>2, <2>3
<1>14. ASSUME NEW x \in Clients, x # c PROVE Ordered(x)'
  <2>1. page'[x] = page[x] /\ down'[x] = down[x] /\ shown'[x] = shown[x] /\ log' = log
    BY <1>1, <1>2, <1>9, <1>14
  <2> QED BY <1>9, <1>11, <2>1 DEF Ordered, StageOK
<1> QED BY <1>10, <1>12, <1>13, <1>14 DEF OrderInv

\* What a page does on its own leaves relay and stage.
LEMMA OwnKeeps ==
  ASSUME NEW p \in Pages, NEW me
  PROVE  /\ Begun(p).stage = p.stage /\ Begun(p).relay = p.relay
         /\ Seat(p, me).page.stage = p.stage /\ Seat(p, me).page.relay = p.relay
         /\ p.pub > 0 => /\ PublishEaten(p, me).page.stage = p.stage
                         /\ PublishEaten(p, me).page.relay = p.relay
         /\ \A f : Ate(p, f).stage = p.stage /\ Ate(p, f).relay = p.relay
<1>1. ASSUME NEW d \in Pages
      PROVE  Publish(d, me).page.stage = d.stage /\ Publish(d, me).page.relay = d.relay
  <2>1. [d EXCEPT !.srev = @ + 1].stage = d.stage /\ [d EXCEPT !.srev = @ + 1].relay = d.relay
    BY DEF Pages
  <2> QED BY <2>1, HelpersKeep, QuietPage DEF Publish
<1>2. Begun(p).stage = p.stage /\ Begun(p).relay = p.relay
  BY DEF Begun, EnterSeating, Pages
<1>3. Seat(p, me).page.stage = p.stage /\ Seat(p, me).page.relay = p.relay
  <2> DEFINE d == [p EXCEPT !.spawn = TRUE]
             s == MarkSeated(d)
  <2>1. d \in Pages /\ d.stage = p.stage /\ d.relay = p.relay
    BY DEF Pages
  <2>2. s \in Pages /\ s.stage = p.stage /\ s.relay = p.relay
    <3> HIDE DEF d
    <3>1. s \in Pages
      BY <2>1, MarkSeatedTyped
    <3>2. s.stage = d.stage /\ s.relay = d.relay
      BY <2>1 DEF MarkSeated, Pages
    <3> QED BY <2>1, <3>1, <3>2
  <2>3. Publish(s, me).page.stage = p.stage /\ Publish(s, me).page.relay = p.relay
    <3> HIDE DEF s
    <3> QED BY <1>1, <2>2
  <2>4. Seat(p, me).page = Publish(s, me).page
    BY DEF Seat, Publish, PublishInitial, Quiet
  <2> QED BY <2>3, <2>4
<1>4. ASSUME p.pub > 0
      PROVE  PublishEaten(p, me).page.stage = p.stage /\ PublishEaten(p, me).page.relay = p.relay
  <2> DEFINE d == [p EXCEPT !.pub = @ - 1]
  <2>1. d \in Pages /\ d.stage = p.stage /\ d.relay = p.relay
    BY <1>4 DEF Pages
  <2> HIDE DEF d
  <2> QED BY <1>1, <2>1 DEF PublishEaten, d
<1>5. \A f : Ate(p, f).stage = p.stage /\ Ate(p, f).relay = p.relay
  BY DEF Ate, Pages
<1> QED BY <1>2, <1>3, <1>4, <1>5

LEMMA OwnOrdered ==
  ASSUME TypeInv, TypeInv', OrderInv, NEW c \in Clients,
         \/ Begin(c) \/ TakePlace(c) \/ PublishTimer(c) \/ Resync(c)
         \/ \E f \in Fruits : Eat(c, f)
  PROVE  OrderInv' /\ UNCHANGED <<log, shown>>
<1>1. Local(c) /\ page \in [Clients -> Pages] /\ page[c] \in Pages /\ ServerTyped
  BY DEF Begin, TakePlace, PublishTimer, Resync, Eat, TypeInv, PagesTyped
<1>2. PICK d : /\ page' = [page EXCEPT ![c] = d]
               /\ d.stage = page[c].stage /\ d.relay = page[c].relay
  <2>1. CASE Begin(c)
    BY <1>1, <2>1, OwnKeeps, QuietPage DEF Begin, Sends
  <2>2. CASE TakePlace(c)
    <3>1. page' = [page EXCEPT ![c] = Seat(page[c], c).page]
      BY <2>2 DEF TakePlace, Sends
    <3>2. /\ Seat(page[c], c).page.stage = page[c].stage
          /\ Seat(page[c], c).page.relay = page[c].relay
      BY <1>1, OwnKeeps
    <3> QED BY <3>1, <3>2
  <2>3. CASE PublishTimer(c)
    <3>1. page[c].pub > 0 /\ page' = [page EXCEPT ![c] = PublishEaten(page[c], c).page]
      BY <2>3 DEF PublishTimer, Sends
    <3>2. /\ PublishEaten(page[c], c).page.stage = page[c].stage
          /\ PublishEaten(page[c], c).page.relay = page[c].relay
      BY <1>1, <3>1, OwnKeeps
    <3> QED BY <3>1, <3>2
  <2>4. CASE Resync(c)
    BY <2>4 DEF Resync, Sends
  <2>5. ASSUME NEW f \in Fruits, Eat(c, f)
        PROVE  \E d : /\ page' = [page EXCEPT ![c] = d]
                      /\ d.stage = page[c].stage /\ d.relay = page[c].relay
    <3>1. page' = [page EXCEPT ![c] = Ate(page[c], f)]
      BY <2>5, QuietPage DEF Eat, Sends
    <3>2. Ate(page[c], f).stage = page[c].stage /\ Ate(page[c], f).relay = page[c].relay
      BY <1>1, OwnKeeps
    <3> QED BY <3>1, <3>2
  <2> QED BY <2>1, <2>2, <2>3, <2>4, <2>5
<1>3. \A x \in Clients : page'[x].stage = page[x].stage /\ page'[x].relay = page[x].relay
  BY <1>1, <1>2
<1>4. UNCHANGED <<srv, flight, down, log, shown>>
  BY <1>1 DEF Local
<1>5. LogGrows
  BY <1>1, <1>4, SameLog
<1> QED BY <1>3, <1>4, <1>5, QuietOrdered

LEMMA InitOrdered == Init => OrderInv
<1> SUFFICES ASSUME Init PROVE OrderInv
  OBVIOUS
<1>1. /\ flight = <<>> /\ down = [c \in Clients |-> <<>>]
      /\ shown = [c \in Clients |-> NoShown] /\ srv.gen = 0
  BY DEF Init
<1>2. ASSUME NEW c \in Clients PROVE page[c].stage = None
  BY DEF Init, NewPage
<1>3. Now = [gen |-> 0, rev |-> 0]
  BY <1>1 DEF Now, BoardRev
<1>4. ASSUME NEW c \in Clients PROVE Ordered(c)
  <2>1. down[c] = <<>> /\ shown[c] = NoShown /\ page[c].stage = None
    BY <1>1, <1>2
  <2>2. Sorted(<<>>) /\ AllFrom(NoShown, <<>>) /\ AllUpTo(<<>>, Now)
        /\ Committed(<<>>, log) /\ Paired(<<>>, page[c])
    BY DEF Sorted, AllFrom, AllUpTo, Committed, Paired
  <2>3. NoShown \in [gen : Nat, rev : Nat, board : SUBSET Fruits] /\ AtMost(NoShown, Now)
    BY <1>3 DEF NoShown, AtMost
  <2> QED BY <2>1, <2>2, <2>3 DEF Ordered, StageOK
<1> QED BY <1>1, <1>4 DEF OrderInv

LEMMA OrderStep ==
  ASSUME ~Overtaking, TypeInv, OrderInv, [Next]_vars
  PROVE  /\ OrderInv'
         /\ [Abstract!Next]_(Abstract!vars)
<1>1. TypeInv'
  BY TypeStep
<1>2. CASE UNCHANGED vars
  BY <1>2 DEF vars, OrderInv, Ordered, StageOK, Now, BoardRev, Abstract!vars
<1>3. CASE StartMatch
  BY <1>1, <1>3, StartOrdered DEF Abstract!Next
<1>4. CASE EndMatch
  BY <1>1, <1>4, EndOrdered DEF Abstract!vars
<1>5. CASE SendBatch
  BY <1>5 DEF SendBatch, OrderInv
<1>6. ASSUME NEW c \in Clients, Leave(c)
      PROVE  OrderInv' /\ [Abstract!Next]_(Abstract!vars)
  BY <1>1, <1>6, EndOrdered DEF Abstract!vars
<1>7. ASSUME NEW c \in Clients, Receive(c)
      PROVE  OrderInv' /\ [Abstract!Next]_(Abstract!vars)
  BY <1>1, <1>7, ReceiveOrdered DEF Abstract!vars, Abstract!Next
<1>8. ASSUME NEW c \in Clients, Deliver(c)
      PROVE  OrderInv' /\ [Abstract!Next]_(Abstract!vars)
  BY <1>1, <1>8, DeliverOrdered DEF Abstract!vars, Abstract!Next
<1>9. ASSUME NEW c \in Clients,
             \/ Begin(c) \/ TakePlace(c) \/ PublishTimer(c) \/ Resync(c)
             \/ \E f \in Fruits : Eat(c, f)
      PROVE  OrderInv' /\ [Abstract!Next]_(Abstract!vars)
  BY <1>1, <1>9, OwnOrdered DEF Abstract!vars
<1> QED BY <1>2, <1>3, <1>4, <1>5, <1>6, <1>7, <1>8, <1>9 DEF Next

(***************************************************************************)
(* BoardsFollowLog: when batches do not overtake each other, what pages    *)
(* take over are boards the server has committed, each of a later match or *)
(* of a later revision than the one before, through replays, handovers and *)
(* leaving clients.  (OvertakenBoardsRefine is about those that do.)       *)
(***************************************************************************)
THEOREM BoardsRefine ==
  ASSUME ~Overtaking
  PROVE  Spec => BoardsFollowLog
<1>1. Init => Abstract!Init
  BY DEF Init, NoShown, Abstract!Init, Abstract!Nothing
<1>2. TypeInv /\ OrderInv /\ [Next]_vars =>
        (TypeInv /\ OrderInv)' /\ [Abstract!Next]_(Abstract!vars)
  BY TypeStep, OrderStep
<1>3. Init => TypeInv /\ OrderInv
  BY InitTyped, InitOrdered
<1> QED BY <1>1, <1>2, <1>3, PTL DEF Spec, BoardsFollowLog, Abstract!Spec

-----------------------------------------------------------------------------
(***************************************************************************)
(* The negotiated generation.  The page, and after it each message on its  *)
(* way, knows of one match at a time: a START comes where no match is      *)
(* known, an END where one is, and what they leave at the end of the queue *)
(* is the match that the server runs.                                      *)
(***************************************************************************)
After(g, m) == IF m.type = "START" THEN m.gen ELSE IF m.type = "END" THEN 0 ELSE g

Legal(g, m) ==
  /\ m.type = "START" => g = 0
  /\ m.type = "END" => g # 0
  /\ m.type = "REPLAY" => m.gen = g

Told(g, q, e) ==
  \E f \in [1 .. Len(q) + 1 -> Nat] :
    /\ f[1] = g /\ f[Len(q) + 1] = e
    /\ \A i \in 1 .. Len(q) : f[i + 1] = After(f[i], q[i]) /\ Legal(f[i], q[i])

Running(s) == IF s.on THEN s.gen ELSE 0

\* The matches that are on the way to a page are new to it.
New(s, g) == s \in EarlierGens \/ s < g

Rising(q, s, n) ==
  \A i \in DOMAIN q :
    q[i].type = "START" =>
      /\ New(s, q[i].gen) /\ q[i].gen <= n
      /\ \A j \in DOMAIN q : i < j /\ q[j].type = "START" => q[i].gen < q[j].gen

\* The PLAY comes directly after the START of its match.
MayPlay(p) == p.gen # 0 /\ ~p.active /\ ~p.play

Plays(q, p) ==
  \A i \in DOMAIN q :
    q[i].type = "PLAY" => IF i = 1 THEN MayPlay(p) ELSE q[i - 1].type = "START"

PageInv(p) ==
  /\ p.gen = 0 => ~p.active /\ ~p.play /\ ~p.relay
  /\ p.gen # 0 => /\ p.relay /\ p.sgen = p.gen /\ ~p.over
                  /\ ~p.active => p.state = "Seating" /\ ~p.seated
  /\ p.play => ~p.active
  /\ p.stage # None => p.stage.gen = p.gen

Negotiated(c) ==
  /\ Told(page[c].gen, down[c], Running(srv))
  /\ Rising(down[c], page[c].sgen, srv.gen)
  /\ Plays(down[c], page[c])
  /\ PageInv(page[c])
  /\ page[c].sgen \in EarlierGens \/ page[c].sgen <= srv.gen

NegInv == flight = <<>> /\ \A c \in srv.here : Negotiated(c)

LEMMA NegImplies == TypeInv /\ NegInv => NegotiatedGen
BY DEF NegInv, Negotiated, PageInv, NegotiatedGen, Runs

LEMMA ToldConcat ==
  ASSUME NEW q \in Seq(Downs), NEW b \in Seq(Downs), NEW g, NEW e, NEW e2,
         Told(g, q, e), Told(e, b, e2)
  PROVE  Told(g, q \o b, e2)
<1>1. PICK f \in [1 .. Len(q) + 1 -> Nat] :
        /\ f[1] = g /\ f[Len(q) + 1] = e
        /\ \A i \in 1 .. Len(q) : f[i + 1] = After(f[i], q[i]) /\ Legal(f[i], q[i])
  BY DEF Told
<1>2. PICK h \in [1 .. Len(b) + 1 -> Nat] :
        /\ h[1] = e /\ h[Len(b) + 1] = e2
        /\ \A i \in 1 .. Len(b) : h[i + 1] = After(h[i], b[i]) /\ Legal(h[i], b[i])
  BY DEF Told
<1> DEFINE m == Len(q)
           n == Len(b)
           t == q \o b
           k == [i \in 1 .. m + n + 1 |-> IF i <= m THEN f[i] ELSE h[i - m]]
<1>3. /\ m \in Nat /\ n \in Nat /\ Len(t) = m + n
      /\ \A i \in 1 .. m + n : t[i] = IF i <= m THEN q[i] ELSE b[i - m]
  BY ConcatProperties, LenProperties
<1> HIDE DEF m, n, t
<1>4. k \in [1 .. Len(t) + 1 -> Nat]
  <2>1. ASSUME NEW i \in 1 .. m + n + 1
        PROVE  (IF i <= m THEN f[i] ELSE h[i - m]) \in Nat
    <3>1. i <= m => i \in 1 .. m + 1
      BY <1>3
    <3>2. ~(i <= m) => i - m \in 1 .. n + 1
      BY <1>3
    <3> QED BY <1>1, <1>2, <3>1, <3>2 DEF m, n
  <2> QED BY <1>3, <2>1
<1>5. k[1] = g /\ k[Len(t) + 1] = e2
  <2>1. k[1] = IF 1 <= m THEN f[1] ELSE h[1 - m]
    BY <1>3
  <2>2. k[1] = g
    <3>1. CASE m = 0
      BY <1>1, <1>2, <2>1, <3>1 DEF m
    <3>2. CASE m # 0
      BY <1>1, <1>3, <2>1, <3>2
    <3> QED BY <3>1, <3>2
  <2>3. k[m + n + 1] = h[n + 1]
    <3>1. m + n + 1 \in 1 .. m + n + 1 /\ ~(m + n + 1 <= m) /\ (m + n + 1) - m = n + 1
      BY <1>3
    <3> QED BY <3>1
  <2> QED BY <1>2, <1>3, <2>2, <2>3 DEF n
<1>6. ASSUME NEW i \in 1 .. Len(t)
      PROVE  k[i + 1] = After(k[i], t[i]) /\ Legal(k[i], t[i])
  <2>0. i \in 1 .. m + n + 1 /\ i + 1 \in 1 .. m + n + 1 /\ i \in 1 .. m + n
    BY <1>3
  <2>1. CASE i <= m
    <3>1. k[i] = f[i] /\ t[i] = q[i] /\ i \in 1 .. m
      BY <1>3, <2>0, <2>1
    <3>2. k[i + 1] = f[i + 1]
      <4>1. CASE i + 1 <= m
        BY <2>0, <4>1
      <4>2. CASE ~(i + 1 <= m)
        <5>1. i = m /\ (i + 1) - m = 1
          BY <1>3, <2>0, <2>1, <4>2
        <5>2. k[i + 1] = h[1] /\ f[i + 1] = e
          BY <1>1, <2>0, <4>2, <5>1 DEF m
        <5> QED BY <1>2, <5>2
      <4> QED BY <4>1, <4>2
    <3> QED BY <1>1, <3>1, <3>2 DEF m
  <2>2. CASE ~(i <= m)
    <3>1. i - m \in 1 .. n /\ (i + 1) - m = (i - m) + 1 /\ ~(i + 1 <= m)
      BY <1>3, <2>0, <2>2
    <3>2. k[i] = h[i - m] /\ t[i] = b[i - m] /\ k[i + 1] = h[(i - m) + 1]
      BY <1>3, <2>0, <2>2, <3>1
    <3> QED BY <1>2, <3>1, <3>2 DEF n
  <2> QED BY <2>1, <2>2
<1> HIDE DEF k
<1>7. Told(g, t, e2)
  BY <1>4, <1>5, <1>6 DEF Told
<1> QED BY <1>7 DEF t

LEMMA ToldTail ==
  ASSUME NEW q \in Seq(Downs), q # <<>>, NEW g, NEW e, Told(g, q, e)
  PROVE  Legal(g, Head(q)) /\ Told(After(g, Head(q)), Tail(q), e)
<1>1. PICK f \in [1 .. Len(q) + 1 -> Nat] :
        /\ f[1] = g /\ f[Len(q) + 1] = e
        /\ \A i \in 1 .. Len(q) : f[i + 1] = After(f[i], q[i]) /\ Legal(f[i], q[i])
  BY DEF Told
<1> DEFINE n == Len(q)
           t == Tail(q)
           k == [i \in 1 .. n |-> f[i + 1]]
<1>2. /\ n \in Nat /\ n > 0 /\ Len(t) = n - 1 /\ Head(q) = q[1]
      /\ DOMAIN t = 1 .. Len(t)
      /\ \A i \in DOMAIN t : t[i] = q[i + 1]
  BY TailIndex, LenProperties
<1> HIDE DEF n, t
<1>3. k \in [1 .. Len(t) + 1 -> Nat] /\ k[1] = After(g, Head(q)) /\ k[Len(t) + 1] = e
      /\ Legal(g, Head(q))
  <2>1. \A i \in 1 .. n : i + 1 \in 1 .. n + 1
    BY <1>2
  <2>2. 1 \in 1 .. n /\ n \in 1 .. n /\ Len(t) + 1 = n
    BY <1>2
  <2> QED BY <1>1, <1>2, <2>1, <2>2 DEF n
<1>4. ASSUME NEW i \in 1 .. Len(t)
      PROVE  k[i + 1] = After(k[i], t[i]) /\ Legal(k[i], t[i])
  <2>1. i \in 1 .. n /\ i + 1 \in 1 .. n
    BY <1>2
  <2>2. k[i] = f[i + 1] /\ k[i + 1] = f[(i + 1) + 1] /\ t[i] = q[i + 1]
    BY <1>2, <2>1
  <2> QED BY <1>1, <2>1, <2>2 DEF n
<1> HIDE DEF k
<1>5. Told(After(g, Head(q)), t, e)
  BY <1>3, <1>4 DEF Told
<1> QED BY <1>3, <1>5 DEF t

\* What the handlers keep of a page.
Same(p, d) ==
  /\ d.gen = p.gen /\ d.sgen = p.sgen /\ d.active = p.active /\ d.play = p.play
  /\ d.relay = p.relay /\ d.over = p.over /\ d.seated = p.seated

LEMMA SameInv ==
  ASSUME NEW p, NEW d, PageInv(p), Same(p, d),
         d.state = p.state \/ p.active,
         d.stage # None => d.stage.gen = p.gen
  PROVE  PageInv(d)
BY DEF PageInv, Same

LEMMA HelpersSame ==
  ASSUME NEW p \in Pages
  PROVE  /\ \A r : LET d == MarkBoardReady(p, r)
                   IN Same(p, d) /\ (d.state = p.state \/ p.seated)
         /\ \A b : LET d == BindGeneration(p, p.sgen, b)
                   IN Same(p, d) /\ d.state = p.state
         /\ \A me : LET d == PublishInitial(p, me).page
                    IN Same(p, d) /\ d.state = p.state
<1>1. \A r : LET d == MarkBoardReady(p, r)
             IN Same(p, d) /\ (d.state = p.state \/ p.seated)
  BY DEF MarkBoardReady, Same, Pages
<1>2. \A b : LET d == BindGeneration(p, p.sgen, b)
             IN Same(p, d) /\ d.state = p.state
  BY DEF BindGeneration, Same, Pages
<1>3. \A me : LET d == PublishInitial(p, me).page
              IN Same(p, d) /\ d.state = p.state
  BY DEF PublishInitial, Quiet, Same, Pages
<1> QED BY <1>1, <1>2, <1>3

LEMMA StartNeg ==
  ASSUME NEW p \in Pages, PageInv(p), NEW m \in Starts, p.gen = 0,
         New(p.sgen, m.gen), EarlierGens \cap Gens = {}
  PROVE  LET d == OnStart(p, m)
         IN PageInv(d) /\ d.gen = m.gen /\ d.sgen = m.gen /\ MayPlay(d)
<1> DEFINE e == [p EXCEPT !.gen = m.gen, !.rev = 0, !.ready = FALSE,
                   !.owner = m.owner, !.stage = None, !.relay = TRUE,
                   !.over = FALSE, !.initReq = FALSE, !.spawn = FALSE,
                   !.eaten = {}]
           d == BindGeneration(e, m.gen, FALSE)
<1>1. m.gen \in Gens /\ m.gen \in 0 .. MaxGen /\ m.gen \in Nat /\ m.gen # 0
      /\ m.owner \in Clients /\ p.sgen \in Nat
  BY Bounds DEF Starts, Gens, Pages
<1>2. /\ e \in Pages /\ e.gen = m.gen /\ e.sgen = p.sgen /\ e.active = p.active
      /\ e.play = p.play /\ e.relay /\ ~e.over /\ e.stage = None
  BY <1>1, NoStage DEF Pages
<1> HIDE DEF e
<1>3. e.sgen # m.gen
  BY <1>1, <1>2 DEF New
<1>4. /\ d.gen = m.gen /\ d.sgen = m.gen /\ d.active = p.active /\ d.play = p.play
      /\ d.relay /\ ~d.over /\ d.stage = None /\ d.state = "Seating" /\ ~d.seated
  BY <1>2, <1>3 DEF BindGeneration, Pages
<1>5. OnStart(p, m) = d
  <2>1. ~(m.gen < p.gen)
    BY <1>1
  <2> QED BY <2>1, Zenon DEF OnStart, e
<1> HIDE DEF d
<1>6. ~p.active /\ ~p.play
  BY DEF PageInv
<1> QED BY <1>1, <1>4, <1>5, <1>6 DEF PageInv, MayPlay

LEMMA RosterNeg ==
  ASSUME NEW p \in Pages, PageInv(p)
  PROVE  Same(p, OnRoster(p)) /\ PageInv(OnRoster(p))
<1> DEFINE s == p.stage
           d0 == [p EXCEPT !.gen = s.gen, !.rev = s.rev, !.ready = s.ready,
                           !.owner = s.owner, !.stage = None]
           b == BindGeneration(d0, s.gen, s.ready)
           d == [b EXCEPT !.eaten = IF s.board = None THEN @ ELSE s.board]
           r == IF s.ready THEN MarkBoardReady(d, s.rev) ELSE d
<1>0. CASE s = None \/ ~p.relay
  BY <1>0 DEF OnRoster, Same
<1>1. CASE s # None /\ p.relay
  <2>1. /\ s.gen \in 0 .. MaxGen /\ s.gen \in Nat /\ s.gen # 0 /\ s.rev \in Nat
        /\ s.ready \in BOOLEAN /\ s.owner \in Clients \cup {None}
        /\ s.board \in {None} \cup SUBSET Fruits
    BY <1>1, StageTyped, Bounds
  <2>2. p.gen = s.gen /\ p.sgen = s.gen
    BY <1>1, <2>1 DEF PageInv
  <2>3. d0 \in Pages /\ d0.stage = None /\ Same(p, d0) /\ d0.state = p.state
    <3> HIDE DEF s
    <3> QED BY <2>1, <2>2, NoStage DEF Same, Pages
  <2>4. b \in Pages /\ b.stage = None /\ Same(p, b) /\ b.state = p.state
    <3>1. d0.sgen = s.gen
      BY <2>2, <2>3 DEF Same
    <3> HIDE DEF d0, s
    <3>2. b \in Pages /\ b.stage = None /\ Same(d0, b) /\ b.state = d0.state
      <4>1. b = BindGeneration(d0, d0.sgen, s.ready)
        BY <3>1
      <4>2. b \in Pages /\ b.stage = None
        BY <2>1, <2>3, BindTyped, HelpersKeep
      <4>3. LET x == BindGeneration(d0, d0.sgen, s.ready)
            IN Same(d0, x) /\ x.state = d0.state
        BY <2>3, HelpersSame
      <4> HIDE DEF b
      <4> QED BY <4>1, <4>2, <4>3
    <3> HIDE DEF b
    <3> QED BY <2>3, <3>2 DEF Same
  <2>5. d \in Pages /\ d.stage = None /\ Same(p, d) /\ d.state = p.state
    <3> HIDE DEF b, s
    <3>1. d \in Pages /\ d.stage = None /\ d.state = b.state
      BY <2>1, <2>4 DEF Pages
    <3>2. Same(b, d)
      BY <2>1, <2>4 DEF Pages, Same
    <3> HIDE DEF d
    <3> QED BY <2>4, <3>1, <3>2 DEF Same
  <2>6. r.stage = None /\ Same(p, r) /\ (r.state = p.state \/ p.seated)
    <3> HIDE DEF d, s
    <3>1. /\ MarkBoardReady(d, s.rev).stage = None
          /\ Same(d, MarkBoardReady(d, s.rev))
          /\ MarkBoardReady(d, s.rev).state = d.state \/ d.seated
      BY <2>5, HelpersKeep, HelpersSame
    <3> QED BY <2>5, <3>1 DEF Same
  <2>7. OnRoster(p) = r
    BY <1>1 DEF OnRoster
  <2> HIDE DEF r, s
  <2>8. r.state = p.state \/ p.active
    BY <2>1, <2>2, <2>6 DEF PageInv
  <2> QED BY <2>6, <2>7, <2>8, SameInv
<1> QED BY <1>0, <1>1

LEMMA EndNeg ==
  ASSUME NEW p \in Pages, PageInv(p), p.gen # 0
  PROVE  PageInv(OnEnd(p)) /\ OnEnd(p).gen = 0 /\ OnEnd(p).sgen = p.sgen
<1>1. ~p.over
  BY DEF PageInv
<1> DEFINE e == EnterLobby(p)
<1>2. e \in Pages /\ e.sgen = p.sgen
  BY DEF EnterLobby, Pages
<1>3. OnEnd(p) = [e EXCEPT !.over = TRUE, !.play = FALSE,
                     !.active = FALSE, !.relay = FALSE, !.spawn = FALSE, !.gen = 0,
                     !.rev = 0, !.ready = FALSE, !.owner = None, !.stage = None,
                     !.eaten = {}]
  BY <1>1 DEF OnEnd
<1> HIDE DEF e
<1>4. /\ OnEnd(p).gen = 0 /\ OnEnd(p).sgen = p.sgen /\ ~OnEnd(p).active
      /\ ~OnEnd(p).play /\ ~OnEnd(p).relay /\ OnEnd(p).stage = None
  BY <1>2, <1>3 DEF Pages
<1> QED BY <1>4 DEF PageInv

\* Each message moves the page as After says.
LEMMA HandleNeg ==
  ASSUME NEW p \in Pages, NEW me, NEW m \in Downs, PageInv(p), Legal(p.gen, m),
         m.type = "START" => New(p.sgen, m.gen),
         m.type = "PLAY" => MayPlay(p),
         EarlierGens \cap Gens = {}
  PROVE  LET d == Handle(p, me, m).page
         IN /\ PageInv(d) /\ d.gen = After(p.gen, m)
            /\ d.sgen = IF m.type = "START" THEN m.gen ELSE p.sgen
            /\ m.type = "START" => MayPlay(d)
<1> DEFINE Kept(d) == PageInv(d) /\ Same(p, d)
<1>0. ASSUME NEW d, Kept(d), m.type \notin {"START", "END"}, Handle(p, me, m).page = d
      PROVE  LET x == Handle(p, me, m).page
             IN /\ PageInv(x) /\ x.gen = After(p.gen, m)
                /\ x.sgen = IF m.type = "START" THEN m.gen ELSE p.sgen
                /\ m.type = "START" => MayPlay(x)
  BY <1>0 DEF Same, After
<1>1. CASE m.type = "START"
  <2>1. m \in Starts /\ Handle(p, me, m).page = OnStart(p, m)
    BY <1>1, HandleCases, QuietPage
  <2>2. LET d == OnStart(p, m)
        IN PageInv(d) /\ d.gen = m.gen /\ d.sgen = m.gen /\ MayPlay(d)
    BY <1>1, <2>1, StartNeg DEF Legal
  <2> QED BY <1>1, <2>1, <2>2 DEF After
<1>2. CASE m.type = "END"
  <2>1. Handle(p, me, m).page = OnEnd(p)
    BY <1>2, HandleCases, QuietPage
  <2>2. PageInv(OnEnd(p)) /\ OnEnd(p).gen = 0 /\ OnEnd(p).sgen = p.sgen
    BY <1>2, EndNeg DEF Legal
  <2> QED BY <1>2, <2>1, <2>2 DEF After
<1>3. CASE m.type = "PLAY"
  <2>1. Handle(p, me, m).page = OnPlaySync(p)
    BY <1>3, HandleCases, QuietPage
  <2>2. PageInv(OnPlaySync(p)) /\ OnPlaySync(p).gen = p.gen /\ OnPlaySync(p).sgen = p.sgen
    BY <1>3 DEF OnPlaySync, Pages, PageInv, MayPlay
  <2> QED BY <1>3, <2>1, <2>2 DEF After
<1>4. CASE m.type = "INIT"
  <2> DEFINE e == [p EXCEPT !.owner = m.owner, !.initReq = TRUE]
             d == OnBoardInit(p, me, m).page
  <2>1. m \in Inits /\ Handle(p, me, m).page = d
    BY <1>4, HandleCases
  <2>2. e \in Pages /\ e.stage = p.stage /\ Same(p, e) /\ e.state = p.state
    BY <2>1 DEF Pages, Inits, Same
  <2>3. LET x == PublishInitial(e, me).page
        IN x.stage = p.stage /\ Same(p, x) /\ x.state = p.state
    <3> DEFINE x == PublishInitial(e, me).page
    <3>1. x.stage = e.stage /\ Same(e, x) /\ x.state = e.state
      <4> HIDE DEF e
      <4> QED BY <2>2, HelpersKeep, HelpersSame
    <3> HIDE DEF x, e
    <3>2. x.stage = p.stage /\ Same(p, x) /\ x.state = p.state
      BY <2>2, <3>1 DEF Same
    <3> QED BY <3>2 DEF x
  <2>4. d.stage = p.stage /\ Same(p, d) /\ d.state = p.state
    <3>1. d = PublishInitial(e, me).page \/ d = p
      BY QuietPage DEF OnBoardInit
    <3> HIDE DEF d, e
    <3> QED BY <2>3, <3>1 DEF Same
  <2> HIDE DEF d
  <2>5. Kept(d)
    <3>1. d.stage # None => d.stage.gen = p.gen
      BY <2>4 DEF PageInv
    <3> QED BY <2>4, <3>1, SameInv
  <2> QED BY <1>0, <1>4, <2>1, <2>5
<1>5. CASE m.type = "BOARD"
  <2> DEFINE d == OnBoard(p, m)
  <2>1. m \in BoardsDown /\ Handle(p, me, m).page = d
    BY <1>5, HandleCases, QuietPage
  <2>2. Same(p, d) /\ d.state = p.state
    BY DEF OnBoard, Same, Pages
  <2>3. /\ p.stage = None \/ ~AcceptsRev(p, m) => d.stage = p.stage
        /\ p.stage # None /\ AcceptsRev(p, m) => d.stage.gen = p.stage.gen
    BY <1>5, <2>1, BoardStage
  <2> HIDE DEF d
  <2>4. d.stage # None => d.stage.gen = p.gen
    BY <2>3 DEF PageInv
  <2>5. Kept(d)
    BY <2>2, <2>4, SameInv
  <2> QED BY <1>0, <1>5, <2>1, <2>5
<1>6. CASE m.type = "READY"
  <2> DEFINE d == OnBoardReady(p, m)
             e == [p EXCEPT !.rev = m.rev, !.ready = TRUE]
  <2>1. m \in Readies /\ Handle(p, me, m).page = d
    BY <1>6, HandleCases, QuietPage
  <2>2. Same(p, d) /\ (d.state = p.state \/ (p.seated /\ p.relay))
    <3>1. e \in Pages /\ Same(p, e) /\ e.state = p.state
      BY <2>1 DEF Readies, Pages, Same
    <3>2. LET x == MarkBoardReady(e, m.rev)
          IN Same(p, x) /\ (x.state = p.state \/ p.seated)
      <4> DEFINE x == MarkBoardReady(e, m.rev)
      <4>1. Same(e, x) /\ (x.state = e.state \/ e.seated)
        <5> HIDE DEF e
        <5> QED BY <3>1, HelpersSame
      <4> HIDE DEF x, e
      <4>2. Same(p, x) /\ (x.state = p.state \/ p.seated)
        BY <3>1, <4>1 DEF Same
      <4> QED BY <4>2 DEF x
    <3>3. ~AcceptsRev(p, m) => d = p
      BY DEF OnBoardReady
    <3>4. AcceptsRev(p, m) /\ p.stage = None => d = MarkBoardReady(e, m.rev)
      BY DEF OnBoardReady
    <3>5. ASSUME AcceptsRev(p, m), p.stage # None
          PROVE  Same(p, d) /\ d.state = p.state
      BY <3>5 DEF OnBoardReady, Same, Pages
    <3> HIDE DEF d, e
    <3> QED BY <3>2, <3>3, <3>4, <3>5 DEF Same, AcceptsRev
  <2>3. /\ p.stage = None \/ ~AcceptsRev(p, m) => d.stage = p.stage
        /\ p.stage # None /\ AcceptsRev(p, m) => d.stage.gen = p.stage.gen
    BY <1>6, <2>1, ReadyStage
  <2> HIDE DEF d
  <2>4. d.stage # None => d.stage.gen = p.gen
    BY <2>3 DEF PageInv
  <2>5. Kept(d)
    <3>1. d.state = p.state \/ p.active
      BY <2>2 DEF PageInv
    <3> QED BY <2>2, <2>4, <3>1, SameInv
  <2> QED BY <1>0, <1>6, <2>1, <2>5
<1>7. CASE m.type = "REPLAY"
  <2> DEFINE d == OnReplay(p, m)
  <2>1. m \in Replays /\ Handle(p, me, m).page = d /\ m.gen = p.gen
    BY <1>7, HandleCases, QuietPage DEF Legal
  <2>2. p.gen # 0 /\ p.relay
    BY <2>1, Bounds DEF Replays, Gens, PageInv
  <2>3. Same(p, d) /\ d.state = p.state
    BY <2>2 DEF OnReplay, Same, Pages
  <2>4. d.stage = p.stage \/ d.stage.gen = m.gen
    BY <1>7, <2>1, ReplayStage
  <2> HIDE DEF d
  <2>5. d.stage # None => d.stage.gen = p.gen
    BY <2>1, <2>4 DEF PageInv
  <2>6. Kept(d)
    BY <2>3, <2>5, SameInv
  <2> QED BY <1>0, <1>7, <2>1, <2>6
<1>8. CASE m.type = "ROSTER"
  <2>1. Handle(p, me, m).page = OnRoster(p)
    BY <1>8, HandleCases, QuietPage
  <2> QED BY <1>0, <1>8, <2>1, RosterNeg
<1> QED BY <1>1, <1>2, <1>3, <1>4, <1>5, <1>6, <1>7, <1>8, HandleCases

\* A batch that takes the room from match e to match e2.
BatchNeg(b, e, e2, n, n2) ==
  /\ b \in Seq(Downs) /\ Told(e, b, e2)
  /\ \A i \in DOMAIN b : b[i].type = "START" => i = 1 /\ b[i].gen = n2 /\ n < n2
  /\ \A i \in DOMAIN b : b[i].type = "PLAY" => i > 1 /\ b[i - 1].type = "START"

LEMMA NegGrows ==
  ASSUME NEW q \in Seq(Downs), NEW b, NEW e, NEW e2, NEW n \in Nat, NEW n2 \in Nat,
         NEW p, p.gen \in Nat, p.sgen \in Nat, n <= n2,
         BatchNeg(b, e, e2, n, n2), Told(p.gen, q, e), Rising(q, p.sgen, n),
         Plays(q, p), p.sgen \in EarlierGens \/ p.sgen <= n
  PROVE  Told(p.gen, q \o b, e2) /\ Rising(q \o b, p.sgen, n2) /\ Plays(q \o b, p)
<1> DEFINE t == q \o b
<1>0. b \in Seq(Downs) /\ Told(e, b, e2)
  BY DEF BatchNeg
<1>1. /\ t \in Seq(Downs) /\ Len(q) \in Nat
      /\ \A i \in DOMAIN t :
           /\ i \in Nat /\ i > 0
           /\ i <= Len(q) => i \in DOMAIN q /\ t[i] = q[i]
           /\ i > Len(q) => i - Len(q) \in DOMAIN b /\ t[i] = b[i - Len(q)]
      /\ \A i \in DOMAIN q : i \in DOMAIN t /\ t[i] = q[i]
      /\ \A i \in DOMAIN b : i + Len(q) \in DOMAIN t /\ t[i + Len(q)] = b[i]
      /\ DOMAIN b = 1 .. Len(b) /\ DOMAIN q = 1 .. Len(q) /\ Len(b) \in Nat
  BY <1>0, ConcatIndex, LenProperties
<1>2. Told(p.gen, t, e2)
  BY <1>0, ToldConcat
<1> HIDE DEF t
<1>3. ASSUME NEW i \in DOMAIN t, t[i].type = "START"
      PROVE  /\ t[i].gen \in Nat
             /\ i <= Len(q) => /\ i \in DOMAIN q /\ t[i] = q[i]
                               /\ New(p.sgen, t[i].gen) /\ t[i].gen <= n
             /\ i > Len(q) => /\ i = Len(q) + 1 /\ t[i].gen = n2 /\ n < n2
                              /\ New(p.sgen, t[i].gen)
  <2>1. t[i].gen \in Nat
    <3>1. t[i] \in Downs
      BY <1>1, QueueTyped
    <3>2. t[i] \in Starts
      BY <1>3, <3>1 DEF Downs, Starts, Inits, Plain, BoardsDown, Readies, Replays
    <3> QED BY <3>2, Bounds DEF Starts, Gens
  <2>2. CASE i <= Len(q)
    BY <1>1, <1>3, <2>1, <2>2 DEF Rising
  <2>3. CASE i > Len(q)
    <3>1. i - Len(q) \in DOMAIN b /\ t[i] = b[i - Len(q)] /\ i \in Nat
      BY <1>1, <2>3
    <3>2. i - Len(q) = 1 /\ t[i].gen = n2 /\ n < n2
      BY <1>3, <3>1 DEF BatchNeg
    <3>3. New(p.sgen, t[i].gen)
      BY <3>2 DEF New
    <3> QED BY <1>1, <2>1, <2>3, <3>1, <3>2, <3>3
  <2> QED BY <1>1, <2>2, <2>3
<1>4. Rising(t, p.sgen, n2)
  <2> SUFFICES ASSUME NEW i \in DOMAIN t, t[i].type = "START"
               PROVE  /\ New(p.sgen, t[i].gen) /\ t[i].gen <= n2
                      /\ \A j \in DOMAIN t : i < j /\ t[j].type = "START"
                           => t[i].gen < t[j].gen
    BY DEF Rising
  <2>1. i \in Nat /\ (i <= Len(q) \/ i > Len(q))
    BY <1>1
  <2>2. New(p.sgen, t[i].gen) /\ t[i].gen <= n2
    BY <1>3, <2>1
  <2>3. ASSUME NEW j \in DOMAIN t, i < j, t[j].type = "START"
        PROVE  t[i].gen < t[j].gen
    <3>0. j \in Nat /\ (j <= Len(q) \/ j > Len(q))
      BY <1>1
    <3>1. CASE j <= Len(q)
      <4>1. i <= Len(q)
        BY <1>1, <2>1, <2>3, <3>0, <3>1
      <4>2. i \in DOMAIN q /\ j \in DOMAIN q /\ t[i] = q[i] /\ t[j] = q[j]
        BY <1>1, <3>1, <4>1
      <4> QED BY <2>3, <4>2 DEF Rising
    <3>2. CASE j > Len(q)
      <4>1. j = Len(q) + 1 /\ t[j].gen = n2 /\ n < n2
        BY <1>3, <2>3, <3>2
      <4>2. i <= Len(q)
        BY <1>1, <2>1, <2>3, <3>0, <4>1
      <4> QED BY <1>3, <4>1, <4>2
    <3> QED BY <3>0, <3>1, <3>2
  <2> QED BY <2>2, <2>3
<1>5. Plays(t, p)
  <2> SUFFICES ASSUME NEW i \in DOMAIN t, t[i].type = "PLAY"
               PROVE  IF i = 1 THEN MayPlay(p) ELSE t[i - 1].type = "START"
    BY DEF Plays
  <2>1. CASE i <= Len(q)
    <3>1. i \in DOMAIN q /\ t[i] = q[i] /\ i \in Nat /\ i > 0
      BY <1>1, <2>1
    <3>2. i # 1 => i - 1 \in DOMAIN q /\ t[i - 1] = q[i - 1]
      BY <1>1, <2>1, <3>1
    <3> QED BY <3>1, <3>2 DEF Plays
  <2>2. CASE i > Len(q)
    <3> DEFINE k == i - Len(q)
    <3>1. k \in DOMAIN b /\ t[i] = b[k] /\ i \in Nat
      BY <1>1, <2>2
    <3>2. k > 1 /\ b[k - 1].type = "START"
      <4> HIDE DEF k
      <4> QED BY <3>1 DEF BatchNeg
    <3>3. k - 1 \in DOMAIN b
      BY <1>1, <3>1, <3>2
    <3>4. t[(k - 1) + Len(q)] = b[k - 1] /\ (k - 1) + Len(q) = i - 1 /\ i # 1
      <4>1. (k - 1) + Len(q) = i - 1 /\ i # 1
        <5>1. Len(q) \in Nat /\ i \in Nat /\ i - Len(q) > 1
          BY <1>1, <3>1, <3>2
        <5> QED BY <5>1
      <4> HIDE DEF k
      <4>2. t[(k - 1) + Len(q)] = b[k - 1]
        BY <1>1, <3>3
      <4> QED BY <4>1, <4>2
    <3> QED BY <3>1, <3>2, <3>4
  <2> QED BY <1>1, <2>1, <2>2
<1> QED BY <1>2, <1>4, <1>5 DEF t

LEMMA ToldNothing ==
  ASSUME NEW e \in Nat PROVE Told(e, <<>>, e)
<1> DEFINE f == [i \in 1 .. 1 |-> e]
<1>1. f \in [1 .. 1 -> Nat] /\ f[1] = e
  OBVIOUS
<1>2. Len(<<>>) = 0 /\ 1 .. 0 = {}
  BY SMT
<1> HIDE DEF f
<1> QED BY <1>1, <1>2 DEF Told

\* What the handlers of the server put on the way, for the rooms it leaves.
LEMMA NegEmit ==
  ASSUME ~Overtaking, TypeInv, NegInv, page' = page,
         srv'.here \subseteq srv.here, srv'.gen \in Nat, srv.gen <= srv'.gen,
         NEW to, NEW msgs, Emit(to, msgs),
         BatchNeg(msgs, Running(srv), Running(srv)', srv.gen, srv'.gen),
         srv'.here \subseteq to \/ Running(srv)' = Running(srv)
  PROVE  NegInv'
<1>0. down' = Delivered(to, msgs) /\ flight' = flight
  BY DEF Emit
<1> SUFFICES ASSUME NEW c \in srv'.here PROVE Negotiated(c)'
  BY <1>0 DEF NegInv
<1> DEFINE q == down[c]
           p == page[c]
<1>1. /\ c \in Clients /\ c \in srv.here /\ q \in Seq(Downs) /\ p \in Pages
      /\ srv.gen \in Nat /\ p.gen \in Nat /\ p.sgen \in Nat
      /\ Running(srv) \in Nat
  BY Bounds DEF TypeInv, NetTyped, PagesTyped, ServerTyped, Servers, Pages, Running
<1>2. /\ Told(p.gen, q, Running(srv)) /\ Rising(q, p.sgen, srv.gen) /\ Plays(q, p)
      /\ PageInv(p) /\ (p.sgen \in EarlierGens \/ p.sgen <= srv.gen)
  BY <1>1 DEF NegInv, Negotiated
<1>3. PICK b : /\ down'[c] = q \o b
               /\ BatchNeg(b, Running(srv), Running(srv)', srv.gen, srv'.gen)
  <2>1. CASE c \in to
    BY <1>0, <1>1, <2>1 DEF Delivered
  <2>2. CASE c \notin to
    <3>1. down'[c] = q /\ Running(srv)' = Running(srv)
      BY <1>0, <1>1, <2>2 DEF Delivered
    <3>2. BatchNeg(<<>>, Running(srv), Running(srv)', srv.gen, srv'.gen)
      BY <1>1, <3>1, ToldNothing DEF BatchNeg
    <3>3. q \o <<>> = q
      BY <1>1, ConcatEmptySeq
    <3> QED BY <3>1, <3>2, <3>3
  <2> QED BY <2>1, <2>2
<1>4. /\ Told(p.gen, q \o b, Running(srv)') /\ Rising(q \o b, p.sgen, srv'.gen)
      /\ Plays(q \o b, p)
  <2> HIDE DEF q, p
  <2> QED BY <1>1, <1>2, <1>3, NegGrows
<1>5. p.sgen \in EarlierGens \/ p.sgen <= srv'.gen
  BY <1>1, <1>2
<1> QED BY <1>2, <1>3, <1>4, <1>5 DEF Negotiated

\* Nothing is sent, and pages keep what the matches are about.
LEMMA NegQuiet ==
  ASSUME NegInv, UNCHANGED <<down, flight>>, srv'.here \subseteq srv.here,
         Running(srv)' = Running(srv), srv'.gen = srv.gen,
         \A c \in srv.here : page'[c] = page[c]
  PROVE  NegInv'
BY DEF NegInv, Negotiated

LEMMA ToldQuiet ==
  ASSUME NEW b \in Seq(Downs), NEW e \in Nat,
         \A i \in DOMAIN b : /\ b[i].type \notin {"START", "END"}
                             /\ b[i].type = "REPLAY" => b[i].gen = e
  PROVE  Told(e, b, e)
<1> DEFINE f == [i \in 1 .. Len(b) + 1 |-> e]
<1>1. Len(b) \in Nat /\ DOMAIN b = 1 .. Len(b)
  BY LenProperties
<1>2. f \in [1 .. Len(b) + 1 -> Nat] /\ \A i \in 1 .. Len(b) + 1 : f[i] = e
  OBVIOUS
<1>3. 1 \in 1 .. Len(b) + 1 /\ Len(b) + 1 \in 1 .. Len(b) + 1
      /\ \A i \in 1 .. Len(b) : i \in 1 .. Len(b) + 1 /\ i + 1 \in 1 .. Len(b) + 1
  BY <1>1
<1> HIDE DEF f
<1>4. \A i \in 1 .. Len(b) : f[i + 1] = After(f[i], b[i]) /\ Legal(f[i], b[i])
  BY <1>1, <1>2, <1>3 DEF After, Legal
<1> QED BY <1>2, <1>3, <1>4 DEF Told

LEMMA ToldEnd ==
  ASSUME NEW e \in Nat, e # 0
  PROVE  Told(e, <<[type |-> "END"]>>, 0)
<1> DEFINE f == [i \in 1 .. 2 |-> IF i = 1 THEN e ELSE 0]
           b == <<[type |-> "END"]>>
<1>1. f \in [1 .. 2 -> Nat] /\ f[1] = e /\ f[2] = 0
  OBVIOUS
<1>2. Len(b) = 1 /\ b[1].type = "END" /\ \A i \in 1 .. 1 : i = 1 /\ i + 1 = 2
  OBVIOUS
<1>3. 1 + 1 = 2
  OBVIOUS
<1> HIDE DEF f, b
<1>4. \A i \in 1 .. Len(b) : f[i + 1] = After(f[i], b[i]) /\ Legal(f[i], b[i])
  BY <1>1, <1>2 DEF After, Legal
<1>5. Told(e, b, 0)
  BY <1>1, <1>2, <1>3, <1>4 DEF Told
<1> QED BY <1>5 DEF b

LEMMA ToldStart ==
  ASSUME NEW o, srv.gen \in Nat
  PROVE  Told(0, StartBatch(o), srv.gen + 1)
<1> DEFINE n == srv.gen + 1
           f == [i \in 1 .. 4 |-> IF i = 1 THEN 0 ELSE n]
           b == StartBatch(o)
<1>1. f \in [1 .. 4 -> Nat] /\ f[1] = 0 /\ f[2] = n /\ f[3] = n /\ f[4] = n
  OBVIOUS
<1>2. /\ Len(b) = 3 /\ b[1].type = "START" /\ b[1].gen = n
      /\ b[2].type = "PLAY" /\ b[3].type = "INIT"
  BY DEF StartBatch
<1>3. 1 .. 3 = {1, 2, 3} /\ 1 + 1 = 2 /\ 2 + 1 = 3 /\ 3 + 1 = 4
  OBVIOUS
<1> HIDE DEF f, b
<1>4. \A i \in 1 .. Len(b) : f[i + 1] = After(f[i], b[i]) /\ Legal(f[i], b[i])
  BY <1>1, <1>2, <1>3 DEF After, Legal
<1>5. Told(0, b, n)
  BY <1>1, <1>2, <1>3, <1>4 DEF Told
<1> QED BY <1>5 DEF b

LEMMA RunningIs ==
  ASSUME ServerTyped
  PROVE  Running(srv) \in Nat /\ srv.gen \in Nat /\ srv.here \in SUBSET Clients
         /\ (srv.on => Running(srv) = srv.gen /\ Running(srv) # 0)
         /\ (~srv.on => Running(srv) = 0)
BY Bounds DEF ServerTyped, Servers, Running, Gens

\* A batch that changes no match.
LEMMA QuietBatch ==
  ASSUME NEW b \in Seq(Downs), NEW e \in Nat, NEW n,
         \A i \in DOMAIN b : /\ b[i].type \notin {"START", "END", "PLAY"}
                             /\ b[i].type = "REPLAY" => b[i].gen = e
  PROVE  BatchNeg(b, e, e, n, n)
BY ToldQuiet DEF BatchNeg

LEMMA StartNegotiated ==
  ASSUME ~Overtaking, TypeInv, NegInv, StartMatch
  PROVE  NegInv'
<1>1. PICK o \in srv.here :
        /\ srv' = [srv EXCEPT !.gen = @ + 1, !.on = TRUE, !.owner = o,
                              !.ready = FALSE, !.slots = srv.here, !.seated = {}]
        /\ Emit(srv.here, StartBatch(o))
  BY DEF StartMatch, StartBatch
<1>2. ~srv.on /\ srv.gen < MaxGen /\ ServerTyped /\ srv \in Servers /\ page' = page
  BY DEF StartMatch, TypeInv, ServerTyped
<1>3. srv.gen \in Nat /\ srv.here \in SUBSET Clients /\ Running(srv) = 0 /\ o \in Clients
  BY <1>2, RunningIs
<1>4. srv'.gen = srv.gen + 1 /\ srv'.here = srv.here /\ srv'.on
  BY <1>1, <1>2 DEF Servers
<1>5. Running(srv)' = srv.gen + 1
  BY <1>4 DEF Running
<1>6. BatchNeg(StartBatch(o), 0, srv.gen + 1, srv.gen, srv.gen + 1)
  <2> DEFINE b == StartBatch(o)
  <2>1. b \in Seq(Downs) /\ Told(0, b, srv.gen + 1)
    BY <1>2, <1>3, StartBatchTyped, ToldStart
  <2>2. /\ DOMAIN b = {1, 2, 3} /\ b[1].type = "START" /\ b[1].gen = srv.gen + 1
        /\ b[2].type = "PLAY" /\ b[3].type = "INIT"
    BY DEF StartBatch
  <2>3. 2 - 1 = 1 /\ 2 > 1 /\ srv.gen < srv.gen + 1
    BY <1>3
  <2> HIDE DEF b
  <2>4. \A i \in DOMAIN b : b[i].type = "START" => i = 1
    BY <2>2
  <2>5. \A i \in DOMAIN b : b[i].type = "PLAY" => i = 2
    BY <2>2
  <2>6. BatchNeg(b, 0, srv.gen + 1, srv.gen, srv.gen + 1)
    BY <2>1, <2>2, <2>3, <2>4, <2>5 DEF BatchNeg
  <2> QED BY <2>6 DEF b
<1>7. srv'.gen \in Nat /\ srv.gen <= srv'.gen /\ srv'.here \subseteq srv.here
  BY <1>3, <1>4
<1> QED BY <1>1, <1>2, <1>3, <1>4, <1>5, <1>6, <1>7, NegEmit

LEMMA EndNegotiated ==
  ASSUME ~Overtaking, TypeInv, TypeInv', NegInv,
         EndMatch \/ \E c \in Clients : Leave(c)
  PROVE  NegInv'
<1>0. page' = page /\ srv \in Servers /\ ServerTyped /\ ServerTyped'
  BY DEF EndMatch, Leave, TypeInv, ServerTyped
<1>1. /\ Running(srv) \in Nat /\ srv.gen \in Nat /\ srv.here \in SUBSET Clients
      /\ (srv.on => Running(srv) = srv.gen /\ Running(srv) # 0)
      /\ (~srv.on => Running(srv) = 0)
  BY <1>0, RunningIs
<1>2. ASSUME srv'.gen = srv.gen, srv'.here \subseteq srv.here, srv.on, ~srv'.on,
             NEW to, srv'.here \subseteq to, Emit(to, <<[type |-> "END"]>>)
      PROVE  NegInv'
  <2>1. Running(srv)' = 0
    BY <1>2 DEF Running
  <2>2. BatchNeg(<<[type |-> "END"]>>, Running(srv), 0, srv.gen, srv.gen)
    BY <1>1, <1>2, EndIn, ToldEnd DEF BatchNeg
  <2> QED BY <1>0, <1>1, <1>2, <2>1, <2>2, NegEmit
<1>3. ASSUME NEW h \in SUBSET Clients, NEW o
      PROVE  LET s == [srv EXCEPT !.here = h]
             IN  /\ s.gen = srv.gen /\ s.on = srv.on /\ s.here = h
                 /\ NoMatch(s).gen = srv.gen /\ ~NoMatch(s).on /\ NoMatch(s).here = h
                 /\ [s EXCEPT !.owner = o].gen = srv.gen
                 /\ [s EXCEPT !.owner = o].on = srv.on
                 /\ [s EXCEPT !.owner = o].here = h
                 /\ NoMatch(srv).gen = srv.gen /\ ~NoMatch(srv).on
                 /\ NoMatch(srv).here = srv.here
  BY <1>0 DEF Servers, NoMatch
<1>4. CASE EndMatch
  <2>1. srv.on /\ srv' = NoMatch(srv) /\ Emit(srv.here, <<[type |-> "END"]>>)
    BY <1>4 DEF EndMatch
  <2>2. NoMatch(srv).gen = srv.gen /\ ~NoMatch(srv).on /\ NoMatch(srv).here = srv.here
    BY <1>1, <1>3
  <2> QED BY <1>2, <2>1, <2>2
<1>5. ASSUME NEW c \in Clients, Leave(c) PROVE NegInv'
  <2> DEFINE rest == srv.here \ {c}
             s == [srv EXCEPT !.here = rest]
  <2>0. rest \in SUBSET Clients /\ rest \subseteq srv.here
    BY <1>1
  <2>1. ASSUME srv' = s, UNCHANGED <<flight, down>> PROVE NegInv'
    <3>1. s.gen = srv.gen /\ s.on = srv.on /\ s.here = rest
      BY <1>3, <2>0
    <3> HIDE DEF s, rest
    <3>2. srv'.gen = srv.gen /\ Running(srv)' = Running(srv) /\ srv'.here \subseteq srv.here
      BY <2>0, <2>1, <3>1 DEF Running
    <3> QED BY <1>0, <2>1, <3>2, NegQuiet
  <2>2. ASSUME srv.on, srv' = NoMatch(s), Emit(rest, <<[type |-> "END"]>>) PROVE NegInv'
    <3>1. NoMatch(s).gen = srv.gen /\ ~NoMatch(s).on /\ NoMatch(s).here = rest
      BY <1>3, <2>0
    <3> HIDE DEF s, rest
    <3> QED BY <1>2, <2>0, <2>2, <3>1
  <2>3. ASSUME NEW o \in rest \cap srv.slots, srv.on, srv' = [s EXCEPT !.owner = o],
               Emit(rest, <<[type |-> "INIT", gen |-> srv.gen, owner |-> o]>>)
        PROVE  NegInv'
    <3> DEFINE msg == [type |-> "INIT", gen |-> srv.gen, owner |-> o]
               e == [s EXCEPT !.owner = o]
    <3>1. e.gen = srv.gen /\ e.on = srv.on /\ e.here = rest
      BY <1>3, <2>0
    <3>2. msg \in Downs /\ msg.type = "INIT" /\ Emit(rest, <<msg>>)
      <4>1. srv.gen \in Gens /\ o \in Clients
        BY <1>0, <2>0, <2>3 DEF ServerTyped
      <4> QED BY <2>3, <4>1 DEF Downs, Inits
    <3> HIDE DEF msg
    <3>3. BatchNeg(<<msg>>, Running(srv), Running(srv), srv.gen, srv.gen)
      <4>1. <<msg>> \in Seq(Downs) /\ \A i \in DOMAIN <<msg>> : <<msg>>[i] = msg
        BY <3>2
      <4> QED BY <1>1, <3>2, <4>1, QuietBatch
    <3> HIDE DEF s, rest, e
    <3>4. srv' = e
      BY <2>3 DEF e
    <3>5. srv'.gen = srv.gen /\ Running(srv)' = Running(srv) /\ srv'.here = rest
      BY <3>1, <3>4 DEF Running
    <3> QED BY <1>0, <1>1, <2>0, <3>2, <3>3, <3>5, NegEmit
  <2> QED BY <1>5, <2>1, <2>2, <2>3 DEF Leave
<1> QED BY <1>4, <1>5

LEMMA ReceiveNegotiated ==
  ASSUME ~Overtaking, TypeInv, NegInv, NEW c \in Clients, Receive(c)
  PROVE  NegInv'
<1> DEFINE m == Head(up[c])
<1>1. m \in Ups
  BY HeadTyped DEF Receive, TypeInv, PagesTyped
<1>2. ServerTyped /\ NetTyped /\ page' = page /\ srv \in Servers
  BY DEF TypeInv, ServerTyped, Receive
<1>3. \/ TakeSeat(c, m)
      \/ m \in BoardsUp /\ TakeBoard(c, m)
      \/ TakeResync(c)
  BY <1>1, UpCases DEF Receive
<1>4. /\ Running(srv) \in Nat /\ srv.gen \in Nat /\ srv.here \in SUBSET Clients
      /\ (srv.on => Running(srv) = srv.gen)
  BY <1>2, RunningIs
<1> HIDE DEF m
<1>5. srv'.gen = srv.gen /\ srv'.on = srv.on /\ srv'.here = srv.here
  BY <1>2, <1>3 DEF TakeSeat, TakeBoard, TakeResync, Servers
<1>6. Running(srv)' = Running(srv)
  BY <1>5 DEF Running
<1>7. CASE UNCHANGED <<flight, down>>
  BY <1>2, <1>5, <1>6, <1>7, NegQuiet
<1>8. ASSUME NEW to, NEW b \in Seq(Downs), Emit(to, b),
             \A i \in DOMAIN b : /\ b[i].type \notin {"START", "END", "PLAY"}
                                 /\ b[i].type = "REPLAY" => b[i].gen = Running(srv)
      PROVE  NegInv'
  <2>1. BatchNeg(b, Running(srv), Running(srv), srv.gen, srv.gen)
    BY <1>4, <1>8, QuietBatch
  <2> QED BY <1>2, <1>4, <1>5, <1>6, <1>8, <2>1, NegEmit
<1>9. CASE m \in BoardsUp /\ TakeBoard(c, m) /\ Accepts(c, m)
  <2>1. srv.on /\ Emit(srv.here, BoardBatch(m))
    BY <1>2, <1>9, BoardTaken
  <2> DEFINE b == BoardBatch(m)
  <2>2. b \in Seq(Downs)
    BY <1>2, <1>9, <2>1, BoardBatchTyped
  <2>3. /\ DOMAIN b \subseteq {1, 2} /\ (1 \in DOMAIN b => b[1].type = "BOARD")
        /\ (2 \in DOMAIN b => b[2].type = "READY")
    BY DEF BoardBatch
  <2> HIDE DEF b
  <2>4. \A i \in DOMAIN b : b[i].type \in {"BOARD", "READY"}
    BY <2>3
  <2> QED BY <1>8, <2>1, <2>2, <2>4 DEF b
<1>10. CASE TakeResync(c)
  <2>1. Emit({c}, ReplayBatch)
    BY <1>2, <1>10, TakeResyncTyped
  <2> DEFINE b == ReplayBatch
  <2>2. b \in Seq(Downs)
    BY <1>2, ReplayBatchTyped
  <2>3. \A i \in DOMAIN b : /\ b[i].type \notin {"START", "END", "PLAY"}
                            /\ b[i].type = "REPLAY" => b[i].gen = Running(srv)
    <3>1. CASE ~srv.on
      BY <3>1 DEF ReplayBatch
    <3>2. CASE srv.on /\ ~srv.ready
      <4>1. /\ DOMAIN b = {1, 2} /\ b[1].type = "REPLAY" /\ b[1].gen = srv.gen
            /\ b[2].type = "ROSTER"
        BY <3>2 DEF ReplayBatch, ReplayHead
      <4> HIDE DEF b
      <4> QED BY <1>4, <3>2, <4>1
    <3>3. CASE srv.on /\ srv.ready
      <4>1. /\ DOMAIN b = {1, 2, 3, 4} /\ b[1].type = "REPLAY" /\ b[1].gen = srv.gen
            /\ b[2].type = "BOARD" /\ b[3].type = "READY" /\ b[4].type = "ROSTER"
        BY <3>3 DEF ReplayBatch, ReplayHead, ReplayBoard, ReplayReady
      <4> HIDE DEF b
      <4> QED BY <1>4, <3>3, <4>1
    <3> QED BY <3>1, <3>2, <3>3
  <2> HIDE DEF b
  <2> QED BY <1>8, <2>1, <2>2, <2>3 DEF b
<1> QED BY <1>3, <1>7, <1>9, <1>10 DEF TakeSeat, TakeBoard

\* PLAY comes after START, or first to a page that may play.
LEMMA PlaysTail ==
  ASSUME NEW q \in Seq(Downs), q # <<>>, NEW p, Plays(q, p)
  PROVE  LET m == Head(q)
             t == Tail(q)
         IN /\ m.type = "PLAY" => MayPlay(p)
            /\ \A i \in DOMAIN t :
                 t[i].type = "PLAY" =>
                   IF i = 1 THEN m.type = "START" ELSE t[i - 1].type = "START"
<1> DEFINE m == Head(q)
           t == Tail(q)
<1>1. /\ 1 \in DOMAIN q /\ m = q[1] /\ t \in Seq(Downs)
      /\ \A i \in DOMAIN t : i \in Nat /\ i > 0 /\ i + 1 \in DOMAIN q /\ t[i] = q[i + 1]
  BY TailIndex
<1>2. DOMAIN t = 1 .. Len(t) /\ Len(t) \in Nat
  BY <1>1, LenProperties
<1> HIDE DEF m, t
<1>3. m.type = "PLAY" => MayPlay(p)
  BY <1>1 DEF Plays
<1>4. ASSUME NEW i \in DOMAIN t, t[i].type = "PLAY"
      PROVE  IF i = 1 THEN m.type = "START" ELSE t[i - 1].type = "START"
  <2>1. i \in Nat /\ i > 0 /\ i + 1 \in DOMAIN q /\ t[i] = q[i + 1] /\ i + 1 # 1
        /\ (i + 1) - 1 = i
    BY <1>1
  <2>2. q[i].type = "START"
    BY <1>4, <2>1 DEF Plays
  <2>3. CASE i = 1
    BY <1>1, <2>2, <2>3
  <2>4. CASE i # 1
    <3>1. i - 1 \in DOMAIN t /\ (i - 1) + 1 = i
      BY <1>2, <2>1, <2>4
    <3> QED BY <1>1, <2>2, <2>4, <3>1
  <2> QED BY <2>3, <2>4
<1> QED BY <1>3, <1>4 DEF m, t

LEMMA RisingTail ==
  ASSUME NEW q \in Seq(Downs), q # <<>>, NEW s, NEW n, Rising(q, s, n), NEW p, Plays(q, p)
  PROVE  LET m == Head(q)
             t == Tail(q)
         IN /\ m.type = "START" => New(s, m.gen) /\ m.gen <= n /\ Rising(t, m.gen, n)
            /\ Rising(t, s, n)
            /\ m.type = "PLAY" => MayPlay(p)
            /\ \A i \in DOMAIN t :
                 t[i].type = "PLAY" =>
                   IF i = 1 THEN m.type = "START" ELSE t[i - 1].type = "START"
<1> DEFINE m == Head(q)
           t == Tail(q)
<1>1. /\ 1 \in DOMAIN q /\ m = q[1] /\ t \in Seq(Downs)
      /\ \A i \in DOMAIN t : i \in Nat /\ i > 0 /\ i + 1 \in DOMAIN q /\ t[i] = q[i + 1]
  BY TailIndex
<1> HIDE DEF m, t
<1>3. ASSUME NEW i \in DOMAIN t, t[i].type = "START"
      PROVE  /\ New(s, t[i].gen) /\ t[i].gen <= n
             /\ m.type = "START" => m.gen < t[i].gen
             /\ \A j \in DOMAIN t : i < j /\ t[j].type = "START" => t[i].gen < t[j].gen
  <2>1. i + 1 \in DOMAIN q /\ t[i] = q[i + 1] /\ 1 < i + 1 /\ i \in Nat
    BY <1>1
  <2>2. \A j \in DOMAIN t : i < j => j + 1 \in DOMAIN q /\ t[j] = q[j + 1] /\ i + 1 < j + 1
    BY <1>1, <2>1
  <2> QED BY <1>1, <1>3, <2>1, <2>2 DEF Rising
<1>4. Rising(t, s, n)
  BY <1>3 DEF Rising
<1>5. ASSUME m.type = "START"
      PROVE  New(s, m.gen) /\ m.gen <= n /\ Rising(t, m.gen, n)
  <2>1. New(s, m.gen) /\ m.gen <= n
    BY <1>1, <1>5 DEF Rising
  <2>2. Rising(t, m.gen, n)
    BY <1>3, <1>5 DEF Rising, New
  <2> QED BY <2>1, <2>2
<1>6. /\ m.type = "PLAY" => MayPlay(p)
      /\ \A i \in DOMAIN t :
           t[i].type = "PLAY" =>
             IF i = 1 THEN m.type = "START" ELSE t[i - 1].type = "START"
  BY PlaysTail DEF m, t
<1> QED BY <1>4, <1>5, <1>6 DEF m, t

LEMMA DeliverNegotiated ==
  ASSUME EarlierGens \cap Gens = {}, TypeInv, NegInv, NEW c \in Clients, Deliver(c)
  PROVE  NegInv'
<1> DEFINE q == down[c]
           m == Head(q)
           p == page[c]
           d == Handle(p, c, m).page
<1>1. /\ q \in Seq(Downs) /\ q # <<>> /\ p \in Pages /\ c \in srv.here
      /\ down \in [Clients -> Seq(Downs)] /\ page \in [Clients -> Pages]
      /\ ServerTyped
  BY DEF Deliver, TypeInv, NetTyped, PagesTyped
<1>2. /\ page' = [page EXCEPT ![c] = d] /\ down' = [down EXCEPT ![c] = Tail(q)]
      /\ UNCHANGED <<srv, flight>>
  BY DEF Deliver, Sends
<1>3. /\ Told(p.gen, q, Running(srv)) /\ Rising(q, p.sgen, srv.gen) /\ Plays(q, p)
      /\ PageInv(p) /\ (p.sgen \in EarlierGens \/ p.sgen <= srv.gen)
  BY <1>1 DEF NegInv, Negotiated
<1>4. m \in Downs
  BY <1>1, HeadTyped
<1>5. /\ m.type = "START" => /\ New(p.sgen, m.gen) /\ m.gen <= srv.gen
                             /\ Rising(Tail(q), m.gen, srv.gen)
      /\ Rising(Tail(q), p.sgen, srv.gen)
      /\ m.type = "PLAY" => MayPlay(p)
      /\ \A i \in DOMAIN Tail(q) :
           Tail(q)[i].type = "PLAY" =>
             IF i = 1 THEN m.type = "START" ELSE Tail(q)[i - 1].type = "START"
  <2> HIDE DEF q, p
  <2> QED BY <1>1, <1>3, RisingTail DEF m
<1>6. Legal(p.gen, m) /\ Told(After(p.gen, m), Tail(q), Running(srv))
  <2> HIDE DEF q, p
  <2> QED BY <1>1, <1>3, ToldTail DEF m
<1> HIDE DEF m
<1>7. /\ PageInv(d) /\ d.gen = After(p.gen, m)
      /\ d.sgen = IF m.type = "START" THEN m.gen ELSE p.sgen
      /\ m.type = "START" => MayPlay(d)
  <2> HIDE DEF q, p
  <2> QED BY <1>1, <1>3, <1>4, <1>5, <1>6, HandleNeg DEF d
<1> HIDE DEF d
<1>8. Plays(Tail(q), d)
  BY <1>5, <1>7 DEF Plays
<1>9. Rising(Tail(q), d.sgen, srv.gen) /\ (d.sgen \in EarlierGens \/ d.sgen <= srv.gen)
  BY <1>3, <1>5, <1>7
<1>10. Negotiated(c)'
  <2>1. page'[c] = d /\ down'[c] = Tail(q) /\ srv' = srv
    BY <1>1, <1>2
  <2> QED BY <1>6, <1>7, <1>8, <1>9, <2>1 DEF Negotiated
<1>11. ASSUME NEW x \in srv.here, x # c PROVE Negotiated(x)'
  <2>1. page'[x] = page[x] /\ down'[x] = down[x] /\ srv' = srv
    BY <1>1, <1>2, <1>11
  <2> QED BY <2>1 DEF NegInv, Negotiated
<1> QED BY <1>2, <1>10, <1>11 DEF NegInv

\* A page on its own begins the match it knows of, and changes nothing else
\* that NegInv is about.
LEMMA OwnSame ==
  ASSUME NEW p \in Pages, NEW me
  PROVE  /\ LET d == Seat(p, me).page
            IN Same([p EXCEPT !.seated = d.seated], d) /\ d.stage = p.stage
         /\ p.pub > 0 => LET d == PublishEaten(p, me).page
                         IN Same(p, d) /\ d.state = p.state /\ d.stage = p.stage
         /\ \A f : LET d == Ate(p, f)
                   IN Same(p, d) /\ d.state = p.state /\ d.stage = p.stage
<1>1. ASSUME NEW d \in Pages
      PROVE  LET x == Publish(d, me).page
             IN Same(d, x) /\ x.state = d.state /\ x.stage = d.stage
  <2>1. LET x == [d EXCEPT !.srev = @ + 1]
        IN Same(d, x) /\ x.state = d.state /\ x.stage = d.stage
    BY DEF Pages, Same
  <2>2. Same(d, d)
    BY DEF Same
  <2> QED BY <2>1, <2>2, HelpersKeep, HelpersSame, QuietPage DEF Publish
<1>2. LET d == Seat(p, me).page
      IN Same([p EXCEPT !.seated = d.seated], d) /\ d.stage = p.stage
  <2> DEFINE e == [p EXCEPT !.spawn = TRUE]
             s == MarkSeated(e)
             d == Publish(s, me).page
  <2>1. e \in Pages
    BY DEF Pages
  <2>2. s \in Pages
    <3> HIDE DEF e
    <3> QED BY <2>1, MarkSeatedTyped
  <2>3. /\ s.gen = p.gen /\ s.sgen = p.sgen /\ s.active = p.active /\ s.play = p.play
        /\ s.relay = p.relay /\ s.over = p.over /\ s.stage = p.stage
    BY DEF MarkSeated, Pages
  <2>4. Same(s, d) /\ d.stage = s.stage
    <3> HIDE DEF s
    <3> QED BY <1>1, <2>2
  <2>5. Seat(p, me).page = d
    BY DEF Seat, Publish, PublishInitial, Quiet
  <2> HIDE DEF d, s, e
  <2>6. Same([p EXCEPT !.seated = d.seated], d)
    BY <2>3, <2>4 DEF Same, Pages
  <2> QED BY <2>3, <2>4, <2>5, <2>6
<1>3. ASSUME p.pub > 0
      PROVE  LET d == PublishEaten(p, me).page
             IN Same(p, d) /\ d.state = p.state /\ d.stage = p.stage
  <2> DEFINE e == [p EXCEPT !.pub = @ - 1]
             d == Publish(e, me).page
  <2>1. e \in Pages /\ Same(p, e) /\ e.state = p.state /\ e.stage = p.stage
    BY <1>3 DEF Pages, Same
  <2>2. Same(e, d) /\ d.state = e.state /\ d.stage = e.stage
    <3> HIDE DEF e
    <3> QED BY <1>1, <2>1
  <2>3. PublishEaten(p, me).page = d
    BY DEF PublishEaten
  <2> HIDE DEF d, e
  <2>4. Same(p, d) /\ d.state = p.state /\ d.stage = p.stage
    BY <2>1, <2>2 DEF Same
  <2> QED BY <2>3, <2>4
<1>4. \A f : LET d == Ate(p, f)
             IN Same(p, d) /\ d.state = p.state /\ d.stage = p.stage
  BY DEF Ate, Same, Pages
<1> QED BY <1>2, <1>3, <1>4

LEMMA OwnNegotiated ==
  ASSUME TypeInv, NegInv, NEW c \in Clients,
         \/ Begin(c) \/ TakePlace(c) \/ PublishTimer(c) \/ Resync(c)
         \/ \E f \in Fruits : Eat(c, f)
  PROVE  NegInv'
<1> DEFINE p == page[c]
<1>1. /\ Local(c) /\ page \in [Clients -> Pages] /\ p \in Pages /\ c \in srv.here
      /\ p.gen \in Nat
  BY Bounds DEF Begin, TakePlace, PublishTimer, Resync, Eat, TypeInv, PagesTyped, Local, Pages
<1>2. UNCHANGED <<srv, flight, down>>
  BY <1>1 DEF Local
<1>3. Negotiated(c)
  BY <1>1 DEF NegInv
<1>4. PICK d : /\ page' = [page EXCEPT ![c] = d] /\ PageInv(d)
               /\ d.gen = p.gen /\ d.sgen = p.sgen
               /\ Plays(down[c], d)
  <2>1. PageInv(p) /\ Plays(down[c], p)
    BY <1>3 DEF Negotiated
  <2>2. ASSUME NEW d, Same(p, d), d.stage = p.stage, d.state = p.state
        PROVE  PageInv(d) /\ d.gen = p.gen /\ d.sgen = p.sgen /\ Plays(down[c], d)
    BY <2>1, <2>2 DEF PageInv, Same, Plays, MayPlay
  <2>3. CASE Begin(c)
    <3> DEFINE d == Begun(p)
    <3>1. p.play /\ ~p.over /\ page' = [page EXCEPT ![c] = d]
      BY <2>3, QuietPage DEF Begin, Sends, CanBegin
    <3>2. p.gen # 0 /\ p.state = "Seating" /\ p.sgen = p.gen /\ p.relay
      BY <2>1, <3>1 DEF PageInv
    <3>3. d = [p EXCEPT !.play = FALSE, !.active = TRUE, !.spawn = FALSE]
      BY <3>2 DEF Begun
    <3>4. /\ d.gen = p.gen /\ d.sgen = p.sgen /\ ~d.play /\ d.active /\ d.relay = p.relay
          /\ d.over = p.over /\ d.stage = p.stage
      BY <1>1, <3>3 DEF Pages
    <3> HIDE DEF d
    <3>5. PageInv(d)
      BY <2>1, <3>2, <3>4 DEF PageInv
    <3>6. Plays(down[c], d)
      BY <2>1, <3>1 DEF Plays, MayPlay
    <3> QED BY <3>1, <3>4, <3>5, <3>6
  <2>4. CASE TakePlace(c)
    <3> DEFINE d == Seat(p, c).page
    <3>1. p.active /\ page' = [page EXCEPT ![c] = d]
      BY <2>4 DEF TakePlace, Sends, CanSeat
    <3>2. Same([p EXCEPT !.seated = d.seated], d) /\ d.stage = p.stage
      BY <1>1, OwnSame
    <3> HIDE DEF d, p
    <3>3. /\ d.gen = p.gen /\ d.sgen = p.sgen /\ d.active = p.active /\ d.play = p.play
          /\ d.relay = p.relay /\ d.over = p.over
      BY <1>1, <3>2 DEF Same, Pages
    <3>4. PageInv(d) /\ Plays(down[c], d)
      BY <2>1, <3>1, <3>2, <3>3 DEF PageInv, Plays, MayPlay, p
    <3> QED BY <3>1, <3>3, <3>4
  <2>5. CASE PublishTimer(c)
    <3>1. p.pub > 0 /\ page' = [page EXCEPT ![c] = PublishEaten(p, c).page]
      BY <2>5 DEF PublishTimer, Sends
    <3>2. LET d == PublishEaten(p, c).page
          IN Same(p, d) /\ d.state = p.state /\ d.stage = p.stage
      BY <1>1, <3>1, OwnSame
    <3> HIDE DEF p
    <3> QED BY <2>2, <3>1, <3>2
  <2>6. CASE Resync(c)
    <3>1. page' = [page EXCEPT ![c] = p] /\ Same(p, p)
      BY <2>6 DEF Resync, Sends, Same
    <3> HIDE DEF p
    <3> QED BY <2>2, <3>1
  <2>7. ASSUME NEW f \in Fruits, Eat(c, f)
        PROVE  \E d : /\ page' = [page EXCEPT ![c] = d] /\ PageInv(d)
                      /\ d.gen = p.gen /\ d.sgen = p.sgen /\ Plays(down[c], d)
    <3>1. page' = [page EXCEPT ![c] = Ate(p, f)]
      BY <2>7, QuietPage DEF Eat, Sends
    <3>2. LET d == Ate(p, f)
          IN Same(p, d) /\ d.state = p.state /\ d.stage = p.stage
      BY <1>1, OwnSame
    <3> HIDE DEF p
    <3> QED BY <2>2, <3>1, <3>2
  <2> QED BY <2>3, <2>4, <2>5, <2>6, <2>7
<1> HIDE DEF p
<1>5. Negotiated(c)'
  <2>1. page'[c] = d /\ down' = down /\ srv' = srv
    BY <1>1, <1>2, <1>4
  <2> QED BY <1>3, <1>4, <2>1 DEF Negotiated, p
<1>6. ASSUME NEW x \in srv.here, x # c PROVE Negotiated(x)'
  <2>1. page'[x] = page[x] /\ down' = down /\ srv' = srv
    BY <1>2, <1>4, <1>6
  <2> QED BY <2>1 DEF NegInv, Negotiated
<1> QED BY <1>2, <1>5, <1>6 DEF NegInv

LEMMA InitNegotiated == Init => NegInv
<1> SUFFICES ASSUME Init, NEW c \in Clients PROVE NegInv /\ Negotiated(c)
  <2>1. CASE Clients = {}
    BY <2>1 DEF Init, NegInv
  <2> QED BY <2>1 DEF Init, NegInv
<1>1. PICK g \in [Clients -> EarlierGens] : page = [x \in Clients |-> NewPage(g[x])]
  BY DEF Init
<1>2. ASSUME NEW x \in Clients PROVE Negotiated(x)
  <2>1. page[x] = NewPage(g[x]) /\ g[x] \in EarlierGens /\ down[x] = <<>>
        /\ ~srv.on /\ srv.gen = 0
    BY <1>1 DEF Init
  <2>2. /\ page[x].gen = 0 /\ page[x].sgen = g[x] /\ ~page[x].active /\ ~page[x].play
        /\ ~page[x].relay /\ page[x].stage = None
    BY <2>1 DEF NewPage
  <2>3. Told(0, <<>>, 0)
    BY ToldNothing
  <2>4. Rising(<<>>, g[x], 0) /\ Plays(<<>>, page[x])
    BY DEF Rising, Plays
  <2>5. PageInv(page[x])
    BY <2>2 DEF PageInv
  <2>6. Running(srv) = 0
    BY <2>1 DEF Running
  <2> QED BY <2>1, <2>2, <2>3, <2>4, <2>5, <2>6 DEF Negotiated
<1> QED BY <1>2 DEF Init, NegInv

LEMMA NegStep ==
  ASSUME ~Overtaking, EarlierGens \cap Gens = {}, TypeInv, NegInv, [Next]_vars
  PROVE  NegInv'
<1>1. TypeInv'
  BY TypeStep
<1>2. CASE UNCHANGED vars
  BY <1>2 DEF vars, NegInv, Negotiated
<1>3. CASE SendBatch
  BY <1>3 DEF SendBatch, NegInv
<1> QED BY <1>1, <1>2, <1>3, StartNegotiated, EndNegotiated, ReceiveNegotiated,
           DeliverNegotiated, OwnNegotiated DEF Next

(***************************************************************************)
(* NegotiatedGen: a page that plays counts its events, seats and revisions *)
(* for the generation that the server has told it of, when batches do not  *)
(* overtake each other and no match of this room has the number of one     *)
(* that the page has played in another room (src/coop/session.js keeps the *)
(* number from room to room; with the same number the property fails).     *)
(***************************************************************************)
THEOREM NegotiatedSafe ==
  ASSUME ~Overtaking, EarlierGens \cap (1 .. MaxGen) = {}
  PROVE  Spec => []NegotiatedGen
<1>1. Init => TypeInv /\ NegInv
  BY InitTyped, InitNegotiated
<1>2. TypeInv /\ NegInv /\ [Next]_vars => (TypeInv /\ NegInv)'
  BY TypeStep, NegStep DEF Gens
<1>3. TypeInv /\ NegInv => NegotiatedGen
  BY NegImplies
<1> QED BY <1>1, <1>2, <1>3, PTL DEF Spec

-----------------------------------------------------------------------------
(***************************************************************************)
(* The count of revisions.  Of the match that the server runs, each        *)
(* revision that a page has counted and the server has not is the base of  *)
(* a board of the page on its way; these boards come in the order of their *)
(* bases, and after the pose that seats the page, so that the server       *)
(* refuses only those that it has passed.                                  *)
(***************************************************************************)
IsSeat(m, g) == m.type = "SEAT" /\ m.gen = g

\* Boards on the way are of no match to come.
Old(u, q, g) ==
  \A i \in DOMAIN u :
    u[i].type = "BOARD" =>
      /\ u[i].gen <= srv.gen
      /\ g # 0 => u[i].gen <= g
      /\ \A j \in DOMAIN q : q[j].type = "START" => u[i].gen < q[j].gen

Climbing(u, g, n) ==
  \A i \in DOMAIN u :
    IsUpdate(u[i], g) =>
      /\ u[i].base < n
      /\ \A j \in DOMAIN u : i < j /\ IsUpdate(u[j], g) => u[i].base < u[j].base

Covered(u, lo, hi) ==
  \A r \in Nat :
    lo <= r /\ r < hi => \E i \in DOMAIN u : IsUpdate(u[i], srv.gen) /\ u[i].base = r

\* c plays for the server when it handles what comes after u.
PlaysAfter(c, u) == c \in srv.seated \/ \E k \in DOMAIN u : IsSeat(u[k], srv.gen)

UpdatesOK(u, c) ==
  \A i \in DOMAIN u :
    IsUpdate(u[i], srv.gen) =>
      /\ srv.ready
      /\ c \in srv.seated \/ \E k \in DOMAIN u : k < i /\ IsSeat(u[k], srv.gen)

TellsReady(m) == m.type = "READY" \/ (m.type = "REPLAY" /\ m.ready)

ReadyTold(q) ==
  \A i \in DOMAIN q : TellsReady(q[i]) /\ q[i].gen = srv.gen => srv.ready

Count(p, u, q, c) ==
  /\ p.active /\ ~p.spawn => p.pub = 0
  /\ Old(u, q, p.gen)
  /\ p.gen # 0 => Climbing(u, p.gen, p.srev)
  /\ srv.on =>
       /\ c \in srv.slots /\ UpdatesOK(u, c) /\ ReadyTold(q)
       /\ p.gen = srv.gen =>
            /\ p.ready => srv.ready
            /\ p.stage # None /\ p.stage.ready => srv.ready
            /\ p.active /\ p.spawn => PlaysAfter(c, u)
            /\ Covered(u, BoardRev, p.srev)

CountInv == \A c \in srv.here : Count(page[c], up[c], down[c], c)

\* The page changes.
LEMMA CountPage ==
  ASSUME NEW p, NEW d, NEW u, NEW q, NEW c, Count(p, u, q, c),
         u \in Seq(Ups), p.srev \in Nat, d.srev \in Nat,
         d.gen = p.gen, d.srev >= p.srev, d.active /\ ~d.spawn => d.pub = 0,
         srv.on /\ p.gen = srv.gen =>
           /\ d.ready => srv.ready
           /\ d.stage # None /\ d.stage.ready => srv.ready
           /\ d.active /\ d.spawn => (p.active /\ p.spawn) \/ PlaysAfter(c, u)
           /\ d.srev = p.srev \/ d.srev <= BoardRev,
         ServerTyped
  PROVE  Count(d, u, q, c)
<1>1. BoardRev \in Nat
  BY LogFacts
<1>2. p.gen # 0 => Climbing(u, d.gen, d.srev)
  <2> SUFFICES ASSUME p.gen # 0, NEW i \in DOMAIN u, IsUpdate(u[i], p.gen)
               PROVE  u[i].base < d.srev
    BY DEF Count, Climbing
  <2>1. u[i].base < p.srev
    BY DEF Count, Climbing
  <2>2. u[i].base \in Nat
    <3>1. u[i] \in Ups /\ u[i].type = "BOARD"
      BY ElementOfSeq, LenProperties DEF IsUpdate
    <3>2. u[i] \in BoardsUp
      BY <3>1, UpCases
    <3> QED BY <3>2 DEF BoardsUp
  <2> QED BY <2>1, <2>2
<1>3. srv.on /\ p.gen = srv.gen => Covered(u, BoardRev, d.srev)
  BY <1>1 DEF Count, Covered
<1> QED BY <1>2, <1>3 DEF Count

\* The page says something.
LEMMA SayIndex ==
  ASSUME NEW u \in Seq(Ups), NEW x \in Ups
  PROVE  LET t == u \o <<x>>
             n == Len(u) + 1
         IN /\ t \in Seq(Ups) /\ DOMAIN t = DOMAIN u \cup {n} /\ t[n] = x
            /\ n \in Nat
            /\ \A i \in DOMAIN u : i \in Nat /\ i < n /\ t[i] = u[i]
<1> DEFINE b == <<x>>
           t == u \o b
<1>1. b \in Seq(Ups) /\ DOMAIN b = {1} /\ Len(b) = 1 /\ b[1] = x
  OBVIOUS
<1> HIDE DEF b
<1>2. /\ t \in Seq(Ups) /\ Len(t) = Len(u) + 1 /\ Len(u) \in Nat
      /\ \A i \in DOMAIN u : i \in DOMAIN t /\ t[i] = u[i]
      /\ \A i \in DOMAIN b : i + Len(u) \in DOMAIN t /\ t[i + Len(u)] = b[i]
  BY <1>1, ConcatIndex
<1>3. DOMAIN u = 1 .. Len(u) /\ DOMAIN t = 1 .. Len(u) + 1
  BY <1>2, LenProperties
<1>4. t[1 + Len(u)] = x /\ 1 + Len(u) = Len(u) + 1
  BY <1>1, <1>2
<1> HIDE DEF t
<1>5. DOMAIN t = DOMAIN u \cup {Len(u) + 1}
  BY <1>2, <1>3
<1> QED BY <1>2, <1>3, <1>4, <1>5 DEF t, b

\* What the page may say: nothing that the server counts, or the next
\* update.
Fresh(p, q) ==
  /\ p.gen <= srv.gen
  /\ p.gen # 0 => \A j \in DOMAIN q : q[j].type = "START" => p.gen < q[j].gen

LEMMA CountSay ==
  ASSUME NEW p, NEW u \in Seq(Ups), NEW q, NEW c, Count(p, u, q, c), Fresh(p, q),
         NEW x \in Ups,
         x.type = "BOARD" => x.initial /\ x.gen = p.gen /\ p.gen # 0
  PROVE  Count(p, u \o <<x>>, q, c)
<1> DEFINE t == u \o <<x>>
           n == Len(u) + 1
<1>1. /\ t \in Seq(Ups) /\ DOMAIN t = DOMAIN u \cup {n} /\ t[n] = x /\ n \in Nat
      /\ \A i \in DOMAIN u : i \in Nat /\ i < n /\ t[i] = u[i]
  BY SayIndex
<1> HIDE DEF t, n
<1>2. \A g : ~IsUpdate(t[n], g)
  BY <1>1 DEF IsUpdate
<1>3. Old(t, q, p.gen)
  <2>1. x.type = "BOARD" => p.gen <= p.gen
    <3>1. x.type = "BOARD" => p.gen \in Nat
      BY UpCases, Bounds DEF BoardsUp
    <3> QED BY <3>1
  <2> QED BY <1>1, <2>1 DEF Count, Old, Fresh
<1>4. p.gen # 0 => Climbing(t, p.gen, p.srev)
  BY <1>1, <1>2 DEF Count, Climbing
<1>5. srv.on => UpdatesOK(t, c)
  BY <1>1, <1>2 DEF Count, UpdatesOK
<1>6. PlaysAfter(c, u) => PlaysAfter(c, t)
  BY <1>1 DEF PlaysAfter
<1>7. Covered(u, BoardRev, p.srev) => Covered(t, BoardRev, p.srev)
  BY <1>1 DEF Covered
<1>8. Count(p, t, q, c)
  BY <1>3, <1>4, <1>5, <1>6, <1>7 DEF Count
<1> QED BY <1>8 DEF t

LEMMA CountUpdate ==
  ASSUME NEW p, NEW d, NEW u \in Seq(Ups), NEW q, NEW c, Count(p, u, q, c), Fresh(p, q),
         NEW x \in Ups, ServerTyped,
         x.type = "BOARD", ~x.initial, x.gen = p.gen, p.gen # 0, x.base = p.srev,
         p.srev \in Nat, d.srev = p.srev + 1, d.gen = p.gen, d.stage = p.stage,
         d.ready = p.ready, d.active = p.active, d.spawn = p.spawn, d.pub = p.pub,
         p.active, p.spawn, p.ready
  PROVE  Count(d, u \o <<x>>, q, c)
<1> DEFINE t == u \o <<x>>
           n == Len(u) + 1
<1>1. /\ t \in Seq(Ups) /\ DOMAIN t = DOMAIN u \cup {n} /\ t[n] = x /\ n \in Nat
      /\ \A i \in DOMAIN u : i \in Nat /\ i < n /\ t[i] = u[i]
  BY SayIndex
<1> HIDE DEF t, n
<1>2. p.gen \in Nat /\ BoardRev \in Nat
  BY UpCases, Bounds, LogFacts DEF BoardsUp
<1>3. Old(t, q, d.gen)
  BY <1>1, <1>2 DEF Count, Old, Fresh
<1>4. Climbing(t, d.gen, d.srev)
  <2> SUFFICES ASSUME NEW i \in DOMAIN t, IsUpdate(t[i], p.gen)
               PROVE  /\ t[i].base < d.srev
                      /\ \A j \in DOMAIN t : i < j /\ IsUpdate(t[j], p.gen)
                           => t[i].base < t[j].base
    BY DEF Climbing
  <2>1. CASE i \in DOMAIN u
    <3>1. t[i] = u[i] /\ u[i].base < p.srev
      BY <1>1, <2>1 DEF Count, Climbing
    <3>2. u[i].base \in Nat
      <4>1. u[i] \in Ups /\ u[i].type = "BOARD"
        BY <2>1, <3>1, ElementOfSeq, LenProperties DEF IsUpdate
      <4>2. u[i] \in BoardsUp
        BY <4>1, UpCases
      <4> QED BY <4>2 DEF BoardsUp
    <3>3. t[i].base < d.srev
      BY <3>1, <3>2
    <3>4. ASSUME NEW j \in DOMAIN t, i < j, IsUpdate(t[j], p.gen)
          PROVE  t[i].base < t[j].base
      <4>1. CASE j \in DOMAIN u
        BY <1>1, <2>1, <3>1, <3>4, <4>1 DEF Count, Climbing
      <4>2. CASE j = n
        BY <1>1, <3>1, <4>2
      <4> QED BY <1>1, <4>1, <4>2
    <3> QED BY <3>3, <3>4
  <2>2. CASE i = n
    <3>1. t[i].base < d.srev
      BY <1>1, <2>2
    <3>2. \A j \in DOMAIN t : ~(i < j)
      BY <1>1, <2>2
    <3> QED BY <3>1, <3>2
  <2> QED BY <1>1, <2>1, <2>2
<1>5. ASSUME srv.on
      PROVE  /\ UpdatesOK(t, c)
             /\ p.gen = srv.gen => PlaysAfter(c, t) /\ Covered(t, BoardRev, d.srev)
  <2>1. p.gen = srv.gen => srv.ready /\ PlaysAfter(c, u) /\ Covered(u, BoardRev, p.srev)
    BY <1>5 DEF Count
  <2>2. UpdatesOK(t, c)
    <3> SUFFICES ASSUME NEW i \in DOMAIN t, IsUpdate(t[i], srv.gen)
                 PROVE  /\ srv.ready
                        /\ \/ c \in srv.seated
                           \/ \E k \in DOMAIN t : k < i /\ IsSeat(t[k], srv.gen)
      BY DEF UpdatesOK
    <3>1. CASE i \in DOMAIN u
      BY <1>1, <1>5, <3>1 DEF Count, UpdatesOK
    <3>2. CASE i = n
      <4>1. p.gen = srv.gen
        BY <1>1, <3>2 DEF IsUpdate
      <4> QED BY <1>1, <2>1, <3>2, <4>1 DEF PlaysAfter
    <3> QED BY <1>1, <3>1, <3>2
  <2>3. PlaysAfter(c, u) => PlaysAfter(c, t)
    BY <1>1 DEF PlaysAfter
  <2>4. ASSUME p.gen = srv.gen PROVE Covered(t, BoardRev, d.srev)
    <3> SUFFICES ASSUME NEW r \in Nat, BoardRev <= r, r < d.srev
                 PROVE  \E i \in DOMAIN t : IsUpdate(t[i], srv.gen) /\ t[i].base = r
      BY DEF Covered
    <3>1. CASE r = p.srev
      <4>1. IsUpdate(t[n], srv.gen) /\ t[n].base = r /\ n \in DOMAIN t
        BY <1>1, <2>4, <3>1 DEF IsUpdate
      <4> QED BY <4>1
    <3>2. CASE r # p.srev
      <4>1. r < p.srev
        BY <3>2
      <4>2. PICK i \in DOMAIN u : IsUpdate(u[i], srv.gen) /\ u[i].base = r
        BY <2>1, <2>4, <4>1 DEF Covered
      <4> QED BY <1>1, <4>2
    <3> QED BY <3>1, <3>2
  <2> QED BY <2>1, <2>2, <2>3, <2>4
<1>6. Count(d, t, q, c)
  BY <1>3, <1>4, <1>5 DEF Count
<1> QED BY <1>6 DEF t

LEMMA NegFresh ==
  ASSUME EarlierGens \cap Gens = {}, TypeInv, NEW c \in Clients, Negotiated(c)
  PROVE  Fresh(page[c], down[c])
<1> DEFINE p == page[c]
           q == down[c]
<1>1. /\ p.gen \in 0 .. MaxGen /\ p.gen \in Nat /\ srv.gen \in Nat /\ q \in Seq(Downs)
      /\ (p.gen # 0 => p.sgen = p.gen) /\ (p.sgen \in EarlierGens \/ p.sgen <= srv.gen)
      /\ Rising(q, p.sgen, srv.gen)
  BY Bounds DEF TypeInv, PagesTyped, NetTyped, ServerTyped, Servers, Pages, Negotiated,
                PageInv
<1>2. p.gen # 0 => p.gen \in Gens
  BY <1>1, Bounds DEF Gens
<1> HIDE DEF p, q
<1>3. p.gen <= srv.gen
  BY <1>1, <1>2
<1>4. ASSUME p.gen # 0, NEW j \in DOMAIN q, q[j].type = "START" PROVE p.gen < q[j].gen
  BY <1>1, <1>2, <1>4 DEF Rising, New
<1>5. Fresh(p, q)
  BY <1>3, <1>4 DEF Fresh
<1> QED BY <1>5 DEF p, q

\* The rest of the queue.
LEMMA CountTail ==
  ASSUME NEW p, NEW u, NEW q \in Seq(Downs), q # <<>>, NEW c, Count(p, u, q, c)
  PROVE  LET m == Head(q)
         IN /\ Count(p, u, Tail(q), c)
            /\ m.type = "START" =>
                 \A i \in DOMAIN u : u[i].type = "BOARD" => u[i].gen < m.gen
            /\ srv.on /\ TellsReady(m) /\ m.gen = srv.gen => srv.ready
            /\ Fresh(p, q) => Fresh(p, Tail(q))
<1> DEFINE m == Head(q)
           t == Tail(q)
<1>1. /\ 1 \in DOMAIN q /\ m = q[1]
      /\ \A i \in DOMAIN t : i \in Nat /\ i > 0 /\ i + 1 \in DOMAIN q /\ t[i] = q[i + 1]
  BY TailIndex
<1> HIDE DEF m, t
<1>2. Old(u, q, p.gen)
  BY DEF Count
<1>3. Old(u, t, p.gen)
  BY <1>1, <1>2 DEF Old
<1>4. m.type = "START" =>
        \A i \in DOMAIN u : u[i].type = "BOARD" => u[i].gen < m.gen
  BY <1>1, <1>2 DEF Old
<1>5. srv.on => ReadyTold(t) /\ (TellsReady(m) /\ m.gen = srv.gen => srv.ready)
  BY <1>1 DEF Count, ReadyTold
<1>6. Count(p, u, t, c)
  BY <1>3, <1>5 DEF Count
<1>7. Fresh(p, q) => Fresh(p, t)
  BY <1>1 DEF Fresh
<1> QED BY <1>4, <1>5, <1>6, <1>7 DEF m, t

\* Fields that the count is about.
Uncounted(p, d) ==
  /\ d.gen = p.gen /\ d.srev = p.srev /\ d.active = p.active /\ d.spawn = p.spawn
  /\ d.pub = p.pub /\ d.ready = p.ready /\ d.stage = p.stage

LEMMA CountSame ==
  ASSUME NEW p, NEW d, NEW u, NEW q, NEW c, Count(p, u, q, c), Uncounted(p, d)
  PROVE  Count(d, u, q, c)
BY DEF Uncounted, Count

LEMMA PublishInitialCount ==
  ASSUME NEW p \in Pages, NEW me, NEW u \in Seq(Ups), NEW q, NEW c, Count(p, u, q, c),
         Fresh(p, q), p.relay => p.gen # 0
  PROVE  LET r == PublishInitial(p, me) IN Count(r.page, u \o r.out, q, c)
<1> DEFINE x == [type |-> "BOARD", gen |-> p.gen, base |-> 0, initial |-> TRUE,
                 eaten |-> p.eaten]
           d == [p EXCEPT !.initReq = FALSE]
           r == PublishInitial(p, me)
<1>1. x \in Ups /\ x.type = "BOARD" /\ x.initial /\ x.gen = p.gen
  BY DEF Pages, Ups, BoardsUp
<1>2. Uncounted(p, d)
  BY DEF Uncounted, Pages
<1>3. \/ p.relay /\ r.page = d /\ r.out = <<x>>
      \/ r.page = p /\ r.out = <<>>
  BY DEF PublishInitial, Quiet
<1> HIDE DEF x, d, r
<1>4. CASE p.relay /\ r.page = d /\ r.out = <<x>>
  <2>1. Count(p, u \o <<x>>, q, c)
    BY <1>1, <1>4, CountSay
  <2>2. Count(d, u \o <<x>>, q, c)
    BY <1>2, <2>1, CountSame
  <2> QED BY <1>4, <2>2 DEF r
<1>5. CASE r.page = p /\ r.out = <<>>
  <2>1. u \o <<>> = u
    BY ConcatEmptySeq
  <2> QED BY <1>5, <2>1 DEF r
<1> QED BY <1>3, <1>4, <1>5

LEMMA PublishCount ==
  ASSUME NEW p \in Pages, NEW me, NEW u \in Seq(Ups), NEW q, NEW c, Count(p, u, q, c),
         Fresh(p, q), p.relay => p.gen # 0, p.active => p.spawn, ServerTyped
  PROVE  LET r == Publish(p, me) IN Count(r.page, u \o r.out, q, c)
<1> DEFINE x == [type |-> "BOARD", gen |-> p.gen, base |-> p.srev, initial |-> FALSE,
                 eaten |-> p.eaten]
           d == [p EXCEPT !.srev = @ + 1]
           r == Publish(p, me)
<1>1. /\ x \in Ups /\ x.type = "BOARD" /\ ~x.initial /\ x.gen = p.gen /\ x.base = p.srev
      /\ p.srev \in Nat
  BY DEF Pages, Ups, BoardsUp
<1>2. /\ d.srev = p.srev + 1 /\ d.gen = p.gen /\ d.stage = p.stage /\ d.ready = p.ready
      /\ d.active = p.active /\ d.spawn = p.spawn /\ d.pub = p.pub
  BY DEF Pages
<1>3. \/ r.page = p /\ r.out = <<>>
      \/ p.relay /\ ~p.ready /\ r = PublishInitial(p, me)
      \/ p.relay /\ p.ready /\ p.active /\ r.page = d /\ r.out = <<x>>
  BY DEF Publish, Quiet
<1> HIDE DEF x, d, r
<1>4. CASE r.page = p /\ r.out = <<>>
  <2>1. u \o <<>> = u
    BY ConcatEmptySeq
  <2> QED BY <1>4, <2>1 DEF r
<1>5. CASE r = PublishInitial(p, me)
  <2>1. LET y == PublishInitial(p, me) IN Count(y.page, u \o y.out, q, c)
    BY PublishInitialCount
  <2> QED BY <1>5, <2>1 DEF r
<1>6. CASE p.relay /\ p.ready /\ p.active /\ r.page = d /\ r.out = <<x>>
  <2>1. Count(d, u \o <<x>>, q, c)
    BY <1>1, <1>2, <1>6, CountUpdate
  <2> QED BY <1>6, <2>1 DEF r
<1> QED BY <1>3, <1>4, <1>5, <1>6

\* What the other handlers change of what is counted.
Moves(p, m, d) ==
  /\ d.gen = p.gen /\ d.active = p.active /\ d.spawn = p.spawn /\ d.pub = p.pub
  /\ d.srev \in Nat /\ d.srev >= p.srev
  /\ \/ d.srev = p.srev
     \/ m.type \in {"BOARD", "READY"} /\ m.gen = p.gen /\ d.srev = m.rev
     \/ p.stage # None /\ d.srev = p.stage.rev
  /\ d.ready => \/ p.ready
                \/ m.type = "READY" /\ m.gen = p.gen
                \/ p.stage # None /\ p.stage.ready
  /\ d.stage # None /\ d.stage.ready =>
       \/ p.stage # None /\ p.stage.ready
       \/ TellsReady(m) /\ m.gen = p.gen

LEMMA MarkReadyMoves ==
  ASSUME NEW p \in Pages, NEW r \in Nat
  PROVE  LET d == MarkBoardReady(p, r)
         IN /\ d.gen = p.gen /\ d.active = p.active /\ d.spawn = p.spawn /\ d.pub = p.pub
            /\ d.ready = p.ready /\ d.srev \in Nat /\ d.srev >= p.srev
            /\ d.srev = p.srev \/ d.srev = r
BY DEF MarkBoardReady, Pages

LEMMA BoardMoves ==
  ASSUME NEW p \in Pages, PageInv(p), NEW m \in BoardsDown
  PROVE  Moves(p, m, OnBoard(p, m))
<1> DEFINE d == OnBoard(p, m)
<1>0. p.srev \in Nat /\ m.rev \in Nat /\ m.type = "BOARD"
  BY DEF Pages, BoardsDown
<1>1. CASE AppliesBoard(p, m)
  <2>1. /\ d.gen = p.gen /\ d.active = p.active /\ d.spawn = p.spawn /\ d.pub = p.pub
        /\ d.ready = p.ready /\ d.stage = p.stage /\ d.srev = m.rev
    BY <1>1 DEF OnBoard, Pages
  <2>2. m.rev > p.srev /\ m.gen = p.gen
    BY <1>1 DEF AppliesBoard, AcceptsRev, AcceptGeneration, CanApplyBoard
  <2> HIDE DEF d
  <2>3. Moves(p, m, d)
    BY <1>0, <2>1, <2>2 DEF Moves
  <2> QED BY <2>3 DEF d
<1>2. CASE ~AppliesBoard(p, m) /\ (p.stage = None \/ ~AcceptsRev(p, m))
  <2>1. /\ d.gen = p.gen /\ d.active = p.active /\ d.spawn = p.spawn /\ d.pub = p.pub
        /\ d.ready = p.ready /\ d.stage = p.stage /\ d.srev = p.srev
    BY <1>2 DEF OnBoard, Pages
  <2> HIDE DEF d
  <2>2. Moves(p, m, d)
    BY <1>0, <2>1 DEF Moves
  <2> QED BY <2>2 DEF d
<1>3. CASE ~AppliesBoard(p, m) /\ p.stage # None /\ AcceptsRev(p, m)
  <2> DEFINE st == [p.stage EXCEPT !.rev = m.rev, !.board = m.eaten]
  <2>1. /\ [p EXCEPT !.stage.rev = m.rev, !.stage.board = m.eaten] = [p EXCEPT !.stage = st]
        /\ st.ready = p.stage.ready
    BY <1>3, StageTyped DEF Pages
  <2>2. d = [p EXCEPT !.stage = st]
    BY <1>3, <2>1 DEF OnBoard
  <2> HIDE DEF st
  <2>3. /\ d.gen = p.gen /\ d.active = p.active /\ d.spawn = p.spawn /\ d.pub = p.pub
        /\ d.ready = p.ready /\ d.stage = st /\ d.srev = p.srev
    BY <2>2 DEF Pages
  <2> HIDE DEF d
  <2>4. Moves(p, m, d)
    BY <1>0, <1>3, <2>1, <2>3 DEF Moves
  <2> QED BY <2>4 DEF d
<1> QED BY <1>1, <1>2, <1>3

LEMMA ReadyMoves ==
  ASSUME NEW p \in Pages, PageInv(p), NEW m \in Readies
  PROVE  Moves(p, m, OnBoardReady(p, m))
<1> DEFINE d == OnBoardReady(p, m)
<1>0. p.srev \in Nat /\ m.rev \in Nat /\ m.type = "READY" /\ TellsReady(m)
  BY DEF Pages, Readies, TellsReady
<1>1. CASE ~AcceptsRev(p, m)
  <2>1. d = p
    BY <1>1 DEF OnBoardReady
  <2> HIDE DEF d
  <2>2. Moves(p, m, d)
    BY <1>0, <2>1 DEF Moves
  <2> QED BY <2>2 DEF d
<1>2. AcceptsRev(p, m) => m.gen = p.gen
  BY DEF AcceptsRev, AcceptGeneration, PageInv
<1>3. CASE AcceptsRev(p, m) /\ p.stage # None
  <2> DEFINE st == [p.stage EXCEPT !.rev = m.rev, !.ready = TRUE]
  <2>1. [p EXCEPT !.stage.rev = m.rev, !.stage.ready = TRUE] = [p EXCEPT !.stage = st]
    BY <1>3, StageTyped DEF Pages
  <2>2. d = [p EXCEPT !.stage = st]
    BY <1>3, <2>1 DEF OnBoardReady
  <2> HIDE DEF st
  <2>3. /\ d.gen = p.gen /\ d.active = p.active /\ d.spawn = p.spawn /\ d.pub = p.pub
        /\ d.ready = p.ready /\ d.srev = p.srev
    BY <2>2 DEF Pages
  <2> HIDE DEF d
  <2>4. Moves(p, m, d)
    BY <1>0, <1>2, <1>3, <2>3 DEF Moves
  <2> QED BY <2>4 DEF d
<1>4. CASE AcceptsRev(p, m) /\ p.stage = None
  <2> DEFINE e == [p EXCEPT !.rev = m.rev, !.ready = TRUE]
             x == MarkBoardReady(e, m.rev)
  <2>1. /\ e \in Pages /\ e.gen = p.gen /\ e.active = p.active /\ e.spawn = p.spawn
        /\ e.pub = p.pub /\ e.srev = p.srev
    BY <1>0 DEF Pages
  <2>2. /\ x.gen = e.gen /\ x.active = e.active /\ x.spawn = e.spawn /\ x.pub = e.pub
        /\ x.srev \in Nat /\ x.srev >= e.srev /\ (x.srev = e.srev \/ x.srev = m.rev)
    <3> HIDE DEF e
    <3> QED BY <1>0, <2>1, MarkReadyMoves
  <2>3. d = x
    BY <1>4 DEF OnBoardReady
  <2> HIDE DEF d, x, e
  <2>4. Moves(p, m, d)
    BY <1>0, <1>2, <1>4, <2>1, <2>2, <2>3 DEF Moves
  <2> QED BY <2>4 DEF d
<1> QED BY <1>1, <1>3, <1>4

LEMMA ReplayMoves ==
  ASSUME NEW p \in Pages, NEW m \in Replays, m.gen = p.gen
  PROVE  Moves(p, m, OnReplay(p, m))
<1> DEFINE d == OnReplay(p, m)
<1>1. /\ d.gen = p.gen /\ d.active = p.active /\ d.spawn = p.spawn /\ d.pub = p.pub
      /\ d.ready = p.ready /\ d.srev = p.srev /\ p.srev \in Nat
  BY DEF OnReplay, Pages
<1>2. \/ d.stage = p.stage
      \/ d.stage.ready = m.ready /\ m.type = "REPLAY"
  BY DEF OnReplay, Pages, Replays
<1> HIDE DEF d
<1>3. Moves(p, m, d)
  BY <1>1, <1>2 DEF Moves, TellsReady
<1> QED BY <1>3 DEF d

LEMMA RosterMoves ==
  ASSUME NEW p \in Pages, PageInv(p), NEW m
  PROVE  Moves(p, m, OnRoster(p))
<1> DEFINE s == p.stage
           d0 == [p EXCEPT !.gen = s.gen, !.rev = s.rev, !.ready = s.ready,
                           !.owner = s.owner, !.stage = None]
           b == BindGeneration(d0, s.gen, s.ready)
           d == [b EXCEPT !.eaten = IF s.board = None THEN @ ELSE s.board]
           r == IF s.ready THEN MarkBoardReady(d, s.rev) ELSE d
<1>0. p.srev \in Nat
  BY DEF Pages
<1>1. CASE s = None \/ ~p.relay
  <2>1. OnRoster(p) = p
    BY <1>1 DEF OnRoster
  <2> QED BY <1>0, <2>1 DEF Moves
<1>2. CASE s # None /\ p.relay
  <2>1. /\ s.gen \in 0 .. MaxGen /\ s.gen \in Nat /\ s.gen # 0 /\ s.rev \in Nat
        /\ s.ready \in BOOLEAN /\ s.owner \in Clients \cup {None}
        /\ s.board \in {None} \cup SUBSET Fruits
    BY <1>2, StageTyped, Bounds
  <2>2. p.gen = s.gen /\ p.sgen = s.gen
    BY <1>2, <2>1 DEF PageInv
  <2>3. /\ d0 \in Pages /\ d0.gen = p.gen /\ d0.active = p.active /\ d0.spawn = p.spawn
        /\ d0.pub = p.pub /\ d0.srev = p.srev /\ d0.sgen = s.gen /\ d0.stage = None
        /\ d0.ready = s.ready
    <3> HIDE DEF s
    <3> QED BY <2>1, <2>2, NoStage DEF Pages
  <2>4. b = [d0 EXCEPT !.sready = s.ready]
    <3> HIDE DEF d0, s
    <3> QED BY <2>3 DEF BindGeneration
  <2>5. /\ b \in Pages /\ b.gen = p.gen /\ b.active = p.active /\ b.spawn = p.spawn
        /\ b.pub = p.pub /\ b.srev = p.srev /\ b.ready = s.ready /\ b.stage = None
    <3> HIDE DEF d0, s, b
    <3> QED BY <2>1, <2>3, <2>4 DEF Pages
  <2>6. /\ d \in Pages /\ d.gen = p.gen /\ d.active = p.active /\ d.spawn = p.spawn
        /\ d.pub = p.pub /\ d.srev = p.srev /\ d.ready = s.ready /\ d.stage = None
    <3> HIDE DEF b, s
    <3> QED BY <2>1, <2>5 DEF Pages
  <2>7. /\ r.gen = p.gen /\ r.active = p.active /\ r.spawn = p.spawn /\ r.pub = p.pub
        /\ r.srev \in Nat /\ r.srev >= p.srev /\ (r.srev = p.srev \/ r.srev = s.rev)
        /\ r.ready = s.ready /\ r.stage = None
    <3> HIDE DEF d, s
    <3>1. LET x == MarkBoardReady(d, s.rev)
          IN /\ x.gen = d.gen /\ x.active = d.active /\ x.spawn = d.spawn /\ x.pub = d.pub
             /\ x.ready = d.ready /\ x.srev \in Nat /\ x.srev >= d.srev
             /\ x.srev = d.srev \/ x.srev = s.rev
             /\ x.stage = d.stage
      BY <2>1, <2>6, MarkReadyMoves, HelpersKeep
    <3> QED BY <1>0, <2>6, <3>1
  <2>8. OnRoster(p) = r
    BY <1>2 DEF OnRoster
  <2> HIDE DEF r
  <2>9. Moves(p, m, r)
    BY <1>2, <2>7 DEF Moves
  <2> QED BY <2>8, <2>9
<1> QED BY <1>1, <1>2

LEMMA MovesCount ==
  ASSUME NEW p \in Pages, NEW d, NEW m, NEW u \in Seq(Ups), NEW q, NEW c,
         Count(p, u, q, c), Moves(p, m, d), PageInv(p), ServerTyped,
         Placed(m) => AtMost(m, Now) /\ m.gen \in Nat /\ m.rev \in Nat,
         p.stage # None => AtMost(p.stage, Now),
         srv.on /\ TellsReady(m) /\ m.gen = srv.gen => srv.ready
  PROVE  Count(d, u, q, c)
<1>1. /\ p.srev \in Nat /\ d.srev \in Nat /\ d.gen = p.gen /\ d.srev >= p.srev
      /\ d.active /\ ~d.spawn => d.pub = 0
  BY DEF Moves, Count, Pages
<1>2. ASSUME srv.on, p.gen = srv.gen
      PROVE  /\ d.ready => srv.ready
             /\ d.stage # None /\ d.stage.ready => srv.ready
             /\ d.active /\ d.spawn => p.active /\ p.spawn
             /\ d.srev = p.srev \/ d.srev <= BoardRev
  <2>1. (p.ready => srv.ready) /\ (p.stage # None /\ p.stage.ready => srv.ready)
    BY <1>2 DEF Count
  <2>2. d.ready => srv.ready
    BY <1>2, <2>1 DEF Moves, TellsReady
  <2>3. d.stage # None /\ d.stage.ready => srv.ready
    BY <1>2, <2>1 DEF Moves
  <2>4. d.srev = p.srev \/ d.srev <= BoardRev
    <3>1. Now.gen = srv.gen /\ Now.rev = BoardRev /\ srv.gen \in Nat
      BY RunningIs DEF Now
    <3>2. ASSUME m.type \in {"BOARD", "READY"}, m.gen = p.gen, d.srev = m.rev
          PROVE  d.srev <= BoardRev
      BY <1>2, <3>1, <3>2 DEF Placed, AtMost
    <3>3. ASSUME p.stage # None, d.srev = p.stage.rev PROVE d.srev <= BoardRev
      <4>1. p.stage.gen = srv.gen
        BY <1>2, <3>3 DEF PageInv
      <4> QED BY <3>1, <3>3, <4>1 DEF AtMost
    <3> QED BY <3>2, <3>3 DEF Moves
  <2> QED BY <2>2, <2>3, <2>4 DEF Moves
<1> QED BY <1>1, <1>2, CountPage

LEMMA StartCount ==
  ASSUME NEW p \in Pages, NEW m \in Starts, NEW u \in Seq(Ups), NEW q, NEW c,
         Count(p, u, q, c), PageInv(p), p.gen = 0, New(p.sgen, m.gen),
         EarlierGens \cap Gens = {},
         \A i \in DOMAIN u : u[i].type = "BOARD" => u[i].gen < m.gen,
         ServerTyped
  PROVE  Count(OnStart(p, m), u, q, c)
<1> DEFINE e == [p EXCEPT !.gen = m.gen, !.rev = 0, !.ready = FALSE,
                   !.owner = m.owner, !.stage = None, !.relay = TRUE,
                   !.over = FALSE, !.initReq = FALSE, !.spawn = FALSE,
                   !.eaten = {}]
           d == BindGeneration(e, m.gen, FALSE)
<1>1. m.gen \in Gens /\ m.gen \in 0 .. MaxGen /\ m.gen \in Nat /\ m.gen # 0
      /\ m.owner \in Clients /\ p.sgen \in Nat /\ BoardRev \in Nat
  BY Bounds, LogFacts DEF Starts, Gens, Pages
<1>2. /\ e \in Pages /\ e.gen = m.gen /\ e.sgen = p.sgen /\ e.active = p.active
      /\ e.stage = None /\ ~e.ready
  BY <1>1, NoStage DEF Pages
<1> HIDE DEF e
<1>3. e.sgen # m.gen
  BY <1>1, <1>2 DEF New
<1>4. /\ d.gen = m.gen /\ ~d.active /\ d.stage = None /\ ~d.ready /\ d.srev = 0
  BY <1>2, <1>3 DEF BindGeneration, Pages, PageInv
<1>5. OnStart(p, m) = d
  <2>1. ~(m.gen < p.gen)
    BY <1>1
  <2> QED BY <2>1, Zenon DEF OnStart, e
<1> HIDE DEF d
<1>6. \A i \in DOMAIN u : u[i].type = "BOARD" => u[i].gen \in Nat /\ u[i].gen < m.gen
  <2> SUFFICES ASSUME NEW i \in DOMAIN u, u[i].type = "BOARD" PROVE u[i].gen \in Nat
    OBVIOUS
  <2>1. u[i] \in Ups
    BY ElementOfSeq, LenProperties
  <2>2. u[i] \in BoardsUp
    BY <2>1, UpCases
  <2> QED BY <2>2, Bounds DEF BoardsUp
<1>7. Old(u, q, d.gen)
  BY <1>1, <1>4, <1>6 DEF Count, Old
<1>8. Climbing(u, d.gen, d.srev)
  BY <1>1, <1>4, <1>6 DEF Climbing, IsUpdate
<1>9. Covered(u, BoardRev, d.srev)
  BY <1>1, <1>4 DEF Covered
<1>10. Count(d, u, q, c)
  BY <1>4, <1>7, <1>8, <1>9 DEF Count
<1> QED BY <1>5, <1>10

LEMMA EndCount ==
  ASSUME NEW p \in Pages, NEW u, NEW q, NEW c, Count(p, u, q, c),
         PageInv(p), p.gen # 0, ServerTyped
  PROVE  Count(OnEnd(p), u, q, c)
<1>1. ~p.over
  BY DEF PageInv
<1> DEFINE e == EnterLobby(p)
<1>2. e \in Pages
  BY DEF EnterLobby, Pages
<1>3. OnEnd(p) = [e EXCEPT !.over = TRUE, !.play = FALSE,
                     !.active = FALSE, !.relay = FALSE, !.spawn = FALSE, !.gen = 0,
                     !.rev = 0, !.ready = FALSE, !.owner = None, !.stage = None,
                     !.eaten = {}]
  BY <1>1 DEF OnEnd
<1> HIDE DEF e
<1>4. OnEnd(p).gen = 0 /\ ~OnEnd(p).active
  BY <1>2, <1>3 DEF Pages
<1>5. srv.on => srv.gen # 0
  BY Bounds DEF ServerTyped, Gens
<1>6. Old(u, q, 0)
  BY DEF Count, Old
<1> QED BY <1>4, <1>5, <1>6 DEF Count

LEMMA DeliverCount ==
  ASSUME EarlierGens \cap Gens = {}, TypeInv, OrderInv, NegInv, CountInv,
         NEW c \in Clients, Deliver(c)
  PROVE  Count(page'[c], up'[c], down'[c], c)
<1> DEFINE q == down[c]
           u == up[c]
           m == Head(q)
           t == Tail(q)
           p == page[c]
           res == Handle(p, c, m)
<1>1. /\ q \in Seq(Downs) /\ q # <<>> /\ p \in Pages /\ c \in srv.here
      /\ u \in Seq(Ups) /\ down \in [Clients -> Seq(Downs)]
      /\ page \in [Clients -> Pages] /\ up \in [Clients -> Seq(Ups)] /\ ServerTyped
  BY DEF Deliver, TypeInv, NetTyped, PagesTyped
<1>2. page'[c] = res.page /\ down'[c] = t /\ up'[c] = u \o res.out
  BY <1>1 DEF Deliver, Sends
<1>3. /\ Told(p.gen, q, Running(srv)) /\ Rising(q, p.sgen, srv.gen) /\ Plays(q, p)
      /\ PageInv(p) /\ Fresh(p, q) /\ Count(p, u, q, c)
  BY <1>1, NegFresh DEF NegInv, Negotiated, CountInv
<1>4. /\ AllUpTo(q, Now) /\ (p.stage # None => AtMost(p.stage, Now))
  BY DEF OrderInv, Ordered, StageOK
<1>5. m \in Downs /\ 1 \in DOMAIN q /\ m = q[1]
  BY <1>1, HeadTyped, TailIndex
<1>6. /\ Count(p, u, t, c) /\ Fresh(p, t)
      /\ m.type = "START" => \A i \in DOMAIN u : u[i].type = "BOARD" => u[i].gen < m.gen
      /\ srv.on /\ TellsReady(m) /\ m.gen = srv.gen => srv.ready
  <2> HIDE DEF q, p, u
  <2> QED BY <1>1, <1>3, CountTail DEF m, t
<1>7. Legal(p.gen, m) /\ (m.type = "START" => New(p.sgen, m.gen))
  <2> HIDE DEF q, p
  <2> QED BY <1>1, <1>3, ToldTail, RisingTail DEF m
<1>8. Placed(m) => AtMost(m, Now) /\ m.gen \in Nat /\ m.rev \in Nat
  BY <1>4, <1>5, PlacedTyped DEF AllUpTo
<1> HIDE DEF m, t, p, u, q
<1>9. u \o <<>> = u
  BY <1>1, ConcatEmptySeq
<1>10. ASSUME NEW d, res = Quiet(d), Count(d, u, t, c) PROVE Count(res.page, u \o res.out, t, c)
  BY <1>9, <1>10 DEF Quiet
<1>11. ASSUME NEW d, res = Quiet(d), Moves(p, m, d) PROVE Count(res.page, u \o res.out, t, c)
  <2>1. Count(d, u, t, c)
    BY <1>1, <1>3, <1>4, <1>6, <1>8, <1>11, MovesCount
  <2> QED BY <1>10, <1>11, <2>1
<1>12. Count(res.page, u \o res.out, t, c)
  <2>1. CASE m.type = "START"
    <3>1. m \in Starts /\ res = Quiet(OnStart(p, m)) /\ p.gen = 0
      BY <1>1, <1>5, <1>7, <2>1, HandleCases DEF Legal
    <3>2. Count(OnStart(p, m), u, t, c)
      BY <1>1, <1>3, <1>6, <1>7, <2>1, <3>1, StartCount
    <3> HIDE DEF res
    <3> QED BY <1>10, <3>1, <3>2
  <2>2. CASE m.type = "END"
    <3>1. res = Quiet(OnEnd(p)) /\ p.gen # 0
      BY <1>1, <1>5, <1>7, <2>2, HandleCases DEF Legal
    <3>2. Count(OnEnd(p), u, t, c)
      BY <1>1, <1>3, <1>6, <3>1, EndCount
    <3> HIDE DEF res
    <3> QED BY <1>10, <3>1, <3>2
  <2>3. CASE m.type = "PLAY"
    <3>1. res = Quiet(OnPlaySync(p))
      BY <1>1, <1>5, <2>3, HandleCases
    <3>2. Uncounted(p, OnPlaySync(p))
      BY <1>1 DEF OnPlaySync, Uncounted, Pages
    <3>3. Count(OnPlaySync(p), u, t, c)
      BY <1>6, <3>2, CountSame
    <3> HIDE DEF res
    <3> QED BY <1>10, <3>1, <3>3
  <2>4. CASE m.type = "INIT"
    <3> DEFINE e == [p EXCEPT !.owner = m.owner, !.initReq = TRUE]
    <3>1. m \in Inits /\ res = OnBoardInit(p, c, m)
      BY <1>1, <1>5, <2>4, HandleCases
    <3>2. e \in Pages /\ Uncounted(p, e) /\ e.relay = p.relay
      BY <1>1, <3>1 DEF Pages, Inits, Uncounted
    <3>3. res = PublishInitial(e, c) \/ res = Quiet(p)
      BY <3>1 DEF OnBoardInit
    <3> HIDE DEF e, res
    <3>4. /\ Count(e, u, t, c) /\ Fresh(e, t) /\ (e.relay => e.gen # 0)
      BY <1>3, <1>6, <3>2, CountSame DEF Fresh, PageInv, Uncounted
    <3>5. CASE res = PublishInitial(e, c)
      <4>1. LET r == PublishInitial(e, c) IN Count(r.page, u \o r.out, t, c)
        BY <1>1, <3>2, <3>4, PublishInitialCount
      <4> QED BY <3>5, <4>1
    <3>6. CASE res = Quiet(p)
      BY <1>6, <1>10, <3>6
    <3> QED BY <3>3, <3>5, <3>6
  <2>5. CASE m.type = "BOARD"
    <3>1. m \in BoardsDown /\ res = Quiet(OnBoard(p, m))
      BY <1>1, <1>5, <2>5, HandleCases
    <3>2. Moves(p, m, OnBoard(p, m))
      BY <1>1, <1>3, <3>1, BoardMoves
    <3> HIDE DEF res
    <3> QED BY <1>11, <3>1, <3>2
  <2>6. CASE m.type = "READY"
    <3>1. m \in Readies /\ res = Quiet(OnBoardReady(p, m))
      BY <1>1, <1>5, <2>6, HandleCases
    <3>2. Moves(p, m, OnBoardReady(p, m))
      BY <1>1, <1>3, <3>1, ReadyMoves
    <3> HIDE DEF res
    <3> QED BY <1>11, <3>1, <3>2
  <2>7. CASE m.type = "REPLAY"
    <3>1. m \in Replays /\ res = Quiet(OnReplay(p, m)) /\ m.gen = p.gen
      BY <1>1, <1>5, <1>7, <2>7, HandleCases DEF Legal
    <3>2. Moves(p, m, OnReplay(p, m))
      BY <1>1, <3>1, ReplayMoves
    <3> HIDE DEF res
    <3> QED BY <1>11, <3>1, <3>2
  <2>8. CASE m.type = "ROSTER"
    <3>1. res = Quiet(OnRoster(p))
      BY <1>1, <1>5, <2>8, HandleCases
    <3>2. Moves(p, m, OnRoster(p))
      BY <1>1, <1>3, RosterMoves
    <3> HIDE DEF res
    <3> QED BY <1>11, <3>1, <3>2
  <2> QED BY <1>1, <1>5, <2>1, <2>2, <2>3, <2>4, <2>5, <2>6, <2>7, <2>8, HandleCases
<1> QED BY <1>2, <1>12 DEF t, u

\* A step of one page leaves the count of the others.
LEMMA PageStepCount ==
  ASSUME CountInv, NEW c \in Clients, UNCHANGED <<srv, log>>,
         \A x \in srv.here \ {c} :
           page'[x] = page[x] /\ up'[x] = up[x] /\ down'[x] = down[x],
         Count(page'[c], up'[c], down'[c], c)
  PROVE  CountInv'
<1>1. BoardRev' = BoardRev
  BY DEF BoardRev
<1>2. ASSUME NEW x \in srv.here PROVE Count(page'[x], up'[x], down'[x], x)
  BY <1>2 DEF CountInv
<1>3. ASSUME NEW x \in srv.here, Count(page'[x], up'[x], down'[x], x)
      PROVE  Count(page[x], up[x], down[x], x)'
  BY <1>1, <1>3 DEF Count, Old, UpdatesOK, ReadyTold, PlaysAfter, Covered
<1> QED BY <1>2, <1>3 DEF CountInv

LEMMA SeatCount ==
  ASSUME NEW p \in Pages, NEW u \in Seq(Ups), NEW q, NEW c, Count(p, u, q, c),
         Fresh(p, q), p.relay, p.gen # 0, p.active, ~p.spawn, ServerTyped
  PROVE  LET r == Seat(p, c) IN Count(r.page, u \o r.out, q, c)
<1> DEFINE e == [p EXCEPT !.spawn = TRUE]
           s == MarkSeated(e)
           x == [type |-> "SEAT", gen |-> p.gen]
           v == u \o <<x>>
           n == Len(u) + 1
           o == Publish(s, c).out
           r == Seat(p, c)
<1>1. r.page = Publish(s, c).page /\ r.out = <<x>> \o o
  BY DEF Seat, Publish, PublishInitial, Quiet
<1>2. x \in Ups /\ IsSeat(x, p.gen) /\ x.type = "SEAT"
  BY DEF Pages, Ups, Seats, IsSeat
<1>3. e \in Pages
  BY DEF Pages
<1>4. s \in Pages
  <2> HIDE DEF e
  <2> QED BY <1>3, MarkSeatedTyped
<1>5. /\ s.gen = p.gen /\ s.srev = p.srev /\ s.active /\ s.spawn /\ s.relay = p.relay
      /\ s.ready = p.ready /\ s.stage = p.stage
  BY DEF MarkSeated, Pages
<1>6. o \in Seq(Ups)
  <2> HIDE DEF s
  <2> QED BY <1>4, PublishTyped
<1> HIDE DEF s, o, e, r, x
<1>7. Count(p, v, q, c)
  BY <1>2, CountSay
<1>8. v \in Seq(Ups) /\ n \in DOMAIN v /\ v[n] = x
  BY <1>2, SayIndex
<1> HIDE DEF v, n
<1>9. p.gen = srv.gen => PlaysAfter(c, v)
  BY <1>2, <1>8 DEF PlaysAfter
<1>10. p.srev \in Nat /\ s.srev >= p.srev
  BY <1>5 DEF Pages
<1>11. srv.on /\ p.gen = srv.gen =>
         (p.ready => srv.ready) /\ (p.stage # None /\ p.stage.ready => srv.ready)
  BY DEF Count
<1>12. Count(s, v, q, c)
  BY <1>5, <1>7, <1>8, <1>9, <1>10, <1>11, CountPage
<1>13. Fresh(s, q)
  BY <1>5 DEF Fresh
<1>14. LET y == Publish(s, c) IN Count(y.page, v \o y.out, q, c)
  BY <1>4, <1>5, <1>8, <1>12, <1>13, PublishCount
<1>15. v \o o = u \o (<<x>> \o o)
  <2>1. <<x>> \in Seq(Ups)
    BY <1>2
  <2> QED BY <1>6, <2>1, ConcatAssociative DEF v
<1> QED BY <1>1, <1>14, <1>15 DEF r, o

LEMMA OwnCount ==
  ASSUME EarlierGens \cap Gens = {}, TypeInv, NegInv, CountInv, NEW c \in Clients,
         \/ Begin(c) \/ TakePlace(c) \/ PublishTimer(c) \/ Resync(c)
         \/ \E f \in Fruits : Eat(c, f)
  PROVE  CountInv'
<1> DEFINE p == page[c]
           u == up[c]
           q == down[c]
<1>1. /\ Local(c) /\ page \in [Clients -> Pages] /\ p \in Pages /\ c \in srv.here
      /\ up \in [Clients -> Seq(Ups)] /\ u \in Seq(Ups) /\ ServerTyped
  BY DEF Begin, TakePlace, PublishTimer, Resync, Eat, TypeInv, PagesTyped, Local
<1>2. UNCHANGED <<srv, flight, down, log>>
  BY <1>1 DEF Local
<1>3. PageInv(p) /\ Fresh(p, q) /\ Count(p, u, q, c)
  BY <1>1, NegFresh DEF NegInv, Negotiated, CountInv
<1>4. PICK r : Sends(c, r) /\ Count(r.page, u \o r.out, q, c)
  <2>1. u \o <<>> = u
    BY <1>1, ConcatEmptySeq
  <2>2. ASSUME NEW d, Count(d, u, q, c)
        PROVE  LET r == Quiet(d) IN Count(r.page, u \o r.out, q, c)
    <3> HIDE DEF u, q
    <3> QED BY <2>1, <2>2 DEF Quiet
  <2>3. CASE Begin(c)
    <3> DEFINE d == Begun(p)
    <3>1. p.play /\ p.pub = 0 /\ Sends(c, Quiet(d))
      BY <2>3 DEF Begin, CanBegin
    <3>2. p.gen # 0 /\ p.state = "Seating"
      BY <1>3, <3>1 DEF PageInv
    <3>3. d = [p EXCEPT !.play = FALSE, !.active = TRUE, !.spawn = FALSE]
      BY <3>2 DEF Begun
    <3>4. /\ d.gen = p.gen /\ ~d.spawn /\ d.pub = 0 /\ d.srev = p.srev /\ p.srev \in Nat
          /\ d.srev >= p.srev /\ d.ready = p.ready /\ d.stage = p.stage
      BY <1>1, <3>1, <3>3 DEF Pages
    <3> HIDE DEF d, p, u, q
    <3>5. srv.on /\ p.gen = srv.gen =>
            (p.ready => srv.ready) /\ (p.stage # None /\ p.stage.ready => srv.ready)
      BY <1>3 DEF Count
    <3>6. Count(d, u, q, c)
      BY <1>1, <1>3, <3>4, <3>5, CountPage
    <3> QED BY <2>2, <3>1, <3>6
  <2>4. CASE TakePlace(c)
    <3>1. p.active /\ ~p.spawn /\ Sends(c, Seat(p, c))
      BY <2>4 DEF TakePlace, CanSeat
    <3>2. p.gen # 0 /\ p.relay
      BY <1>3, <3>1 DEF PageInv
    <3> HIDE DEF p, u, q
    <3>3. LET r == Seat(p, c) IN Count(r.page, u \o r.out, q, c)
      BY <1>1, <1>3, <3>1, <3>2, SeatCount
    <3> QED BY <3>1, <3>3
  <2>5. CASE PublishTimer(c)
    <3> DEFINE e == [p EXCEPT !.pub = @ - 1]
    <3>1. p.pub > 0 /\ Sends(c, PublishEaten(p, c))
      BY <2>5 DEF PublishTimer
    <3>2. /\ e \in Pages /\ e.gen = p.gen /\ e.srev = p.srev /\ e.active = p.active
          /\ e.spawn = p.spawn /\ e.ready = p.ready /\ e.stage = p.stage
          /\ e.relay = p.relay
      <4> HIDE DEF p
      <4>1. p.pub - 1 \in Nat
        BY <1>1, <3>1 DEF Pages
      <4>2. ASSUME NEW n \in Nat
            PROVE  LET x == [p EXCEPT !.pub = n]
                   IN /\ x \in Pages /\ x.gen = p.gen /\ x.srev = p.srev
                      /\ x.active = p.active /\ x.spawn = p.spawn /\ x.ready = p.ready
                      /\ x.stage = p.stage /\ x.relay = p.relay
        BY <1>1 DEF Pages
      <4> QED BY <4>1, <4>2
    <3>3. PublishEaten(p, c) = Publish(e, c)
      BY DEF PublishEaten
    <3> HIDE DEF e, p, u, q
    <3>4. p.active => p.spawn
      BY <1>1, <1>3, <3>1 DEF Count, Pages
    <3>5. Count(e, u, q, c) /\ Fresh(e, q) /\ (e.relay => e.gen # 0)
      BY <1>3, <3>2, <3>4 DEF Count, Fresh, PageInv
    <3>6. LET r == Publish(e, c) IN Count(r.page, u \o r.out, q, c)
      BY <1>1, <3>2, <3>4, <3>5, PublishCount
    <3> QED BY <3>1, <3>3, <3>6
  <2>6. CASE Resync(c)
    <3> DEFINE r == [page |-> p, out |-> <<[type |-> "RESYNC"]>>]
               x == [type |-> "RESYNC"]
    <3>1. Sends(c, r) /\ r.page = p /\ r.out = <<x>> /\ x \in Ups /\ x.type # "BOARD"
      BY <2>6 DEF Resync, Ups, Resyncs
    <3> HIDE DEF r, x, p, u, q
    <3>2. Count(p, u \o <<x>>, q, c)
      BY <1>1, <1>3, <3>1, CountSay
    <3> QED BY <3>1, <3>2
  <2>7. ASSUME NEW f \in Fruits, Eat(c, f)
        PROVE  \E r : Sends(c, r) /\ Count(r.page, u \o r.out, q, c)
    <3> DEFINE d == Ate(p, f)
    <3>1. p.active /\ p.spawn /\ Sends(c, Quiet(d))
      BY <2>7 DEF Eat, CanEat
    <3>2. /\ d.gen = p.gen /\ d.spawn = p.spawn /\ d.active = p.active /\ d.srev = p.srev
          /\ d.ready = p.ready /\ d.stage = p.stage
      BY <1>1 DEF Ate, Pages
    <3> HIDE DEF d, p, u, q
    <3>3. Count(d, u, q, c)
      BY <1>3, <3>1, <3>2 DEF Count
    <3> QED BY <2>2, <3>1, <3>3
  <2> QED BY <2>3, <2>4, <2>5, <2>6, <2>7
<1> HIDE DEF p, u, q
<1>5. page'[c] = r.page /\ up'[c] = u \o r.out /\ down'[c] = q
  BY <1>1, <1>2, <1>4 DEF Sends, u, q
<1>6. \A x \in srv.here \ {c} : page'[x] = page[x] /\ up'[x] = up[x] /\ down'[x] = down[x]
  <2>1. srv.here \subseteq Clients
    BY <1>1 DEF ServerTyped, Servers
  <2> QED BY <1>1, <1>2, <1>4, <2>1 DEF Sends
<1> QED BY <1>2, <1>4, <1>5, <1>6, PageStepCount

LEMMA DeliverCounted ==
  ASSUME EarlierGens \cap Gens = {}, TypeInv, OrderInv, NegInv, CountInv,
         NEW c \in Clients, Deliver(c)
  PROVE  CountInv'
<1>1. Count(page'[c], up'[c], down'[c], c)
  BY DeliverCount
<1>2. UNCHANGED <<srv, log>>
  BY DEF Deliver
<1>3. \A x \in srv.here \ {c} : page'[x] = page[x] /\ up'[x] = up[x] /\ down'[x] = down[x]
  BY DEF Deliver, Sends, TypeInv, PagesTyped, NetTyped, ServerTyped, Servers
<1> QED BY <1>1, <1>2, <1>3, PageStepCount

\* What is left of u when the server has taken the first s messages.
Rest(u, w, s) ==
  /\ s \in {0, 1}
  /\ \A i \in DOMAIN w : i \in Nat /\ i > 0 /\ i + s \in DOMAIN u /\ w[i] = u[i + s]
  /\ \A k \in DOMAIN u : k \in Nat /\ k > 0 /\ (k > s => k - s \in DOMAIN w)

LEMMA RestCases ==
  ASSUME NEW u \in Seq(Ups)
  PROVE  Rest(u, u, 0) /\ (u # <<>> => Rest(u, Tail(u), 1))
<1>1. DOMAIN u = 1 .. Len(u) /\ Len(u) \in Nat
  BY LenProperties
<1>2. Rest(u, u, 0)
  <2>1. \A i \in DOMAIN u : i + 0 = i /\ i - 0 = i /\ i \in Nat /\ i > 0
    BY <1>1
  <2> QED BY <2>1 DEF Rest
<1>3. ASSUME u # <<>> PROVE Rest(u, Tail(u), 1)
  <2> DEFINE w == Tail(u)
  <2>1. /\ \A i \in DOMAIN w : i \in Nat /\ i > 0 /\ i + 1 \in DOMAIN u /\ w[i] = u[i + 1]
        /\ w \in Seq(Ups) /\ Len(w) = Len(u) - 1
    BY <1>3, TailIndex
  <2>2. DOMAIN w = 1 .. Len(u) - 1
    <3> HIDE DEF w
    <3> QED BY <2>1, LenProperties
  <2> HIDE DEF w
  <2>3. \A k \in DOMAIN u : k \in Nat /\ k > 0 /\ (k > 1 => k - 1 \in DOMAIN w)
    BY <1>1, <2>2
  <2>4. Rest(u, w, 1)
    BY <2>1, <2>3 DEF Rest
  <2> QED BY <2>4 DEF w
<1> QED BY <1>2, <1>3

\* The queue grows by at most b, without a match.
Grows(q, t, b) ==
  \A j \in DOMAIN t :
    \/ \E i \in DOMAIN q : t[j] = q[i]
    \/ \E i \in DOMAIN b : t[j] = b[i]

LEMMA GrowsCases ==
  ASSUME NEW q \in Seq(Downs), NEW b \in Seq(Downs)
  PROVE  Grows(q, q, b) /\ Grows(q, q \o b, b)
<1>1. Grows(q, q, b)
  BY DEF Grows
<1> DEFINE t == q \o b
<1>2. \A i \in DOMAIN t : /\ i \in Nat /\ Len(q) \in Nat
                          /\ i <= Len(q) => i \in DOMAIN q /\ t[i] = q[i]
                          /\ i > Len(q) => i - Len(q) \in DOMAIN b /\ t[i] = b[i - Len(q)]
  BY ConcatIndex
<1> HIDE DEF t
<1>3. ASSUME NEW i \in DOMAIN t
      PROVE  (\E j \in DOMAIN q : t[i] = q[j]) \/ (\E j \in DOMAIN b : t[i] = b[j])
  <2>1. i <= Len(q) \/ i > Len(q)
    BY <1>2
  <2> QED BY <1>2, <2>1
<1>4. Grows(q, t, b)
  BY <1>3 DEF Grows
<1> QED BY <1>1, <1>4 DEF t

\* The server goes on with its match, or ends it, and sends b.
GoesOn(b) ==
  /\ \A j \in DOMAIN b :
       /\ b[j].type # "START"
       /\ TellsReady(b[j]) /\ srv'.on /\ b[j].gen = srv.gen => srv'.ready
  /\ srv'.gen = srv.gen /\ BoardRev' >= BoardRev
  /\ srv'.on => /\ srv.on /\ srv'.slots = srv.slots /\ srv.seated \subseteq srv'.seated
                /\ srv.ready => srv'.ready

\* What it takes from page p of client x.
Takes(x, p, u, s) ==
  srv.on /\ s = 1 /\ 1 \in DOMAIN u =>
    /\ IsSeat(u[1], srv.gen) => x \in srv'.seated
    /\ IsUpdate(u[1], srv.gen) /\ p.gen = srv.gen => u[1].base < BoardRev'

LEMMA ServerCount ==
  ASSUME ServerTyped, ServerTyped', NEW x, NEW p \in Pages, NEW u \in Seq(Ups), NEW q,
         Count(p, u, q, x),
         NEW w, NEW s, Rest(u, w, s), NEW b, NEW t, Grows(q, t, b),
         page'[x] = p, up'[x] = w, down'[x] = t,
         GoesOn(b), Takes(x, p, u, s)
  PROVE  Count(page[x], up[x], down[x], x)'
<1>0. /\ \A j \in DOMAIN b :
           /\ b[j].type # "START"
           /\ TellsReady(b[j]) /\ srv'.on /\ b[j].gen = srv.gen => srv'.ready
      /\ srv'.gen = srv.gen /\ BoardRev' >= BoardRev
      /\ srv'.on => /\ srv.on /\ srv'.slots = srv.slots /\ srv.seated \subseteq srv'.seated
                    /\ srv.ready => srv'.ready
      /\ srv.on /\ s = 1 /\ 1 \in DOMAIN u =>
           /\ IsSeat(u[1], srv.gen) => x \in srv'.seated
           /\ IsUpdate(u[1], srv.gen) /\ p.gen = srv.gen => u[1].base < BoardRev'
  BY DEF GoesOn, Takes
<1>1. BoardRev \in Nat /\ BoardRev' \in Nat /\ p.srev \in Nat
  <2>1. BoardRev' \in Nat
    <3>1. DOMAIN log' = 1 .. srv'.gen /\ srv'.gen \in Nat
      BY LenProperties DEF ServerTyped, Servers
    <3>2. srv'.gen # 0 => log'[srv'.gen] \in Seq(Entries)
      BY <3>1, ElementOfSeq DEF ServerTyped
    <3> QED BY <3>2, LenProperties DEF BoardRev
  <2> QED BY <1>0, <2>1, LogFacts DEF Pages
<1>2. ASSUME NEW i \in DOMAIN w
      PROVE  /\ w[i].type = "BOARD" => /\ w[i].gen <= srv.gen
                                       /\ p.gen # 0 => w[i].gen <= p.gen
             /\ w[i].type = "BOARD" =>
                  \A j \in DOMAIN t : t[j].type = "START" => w[i].gen < t[j].gen
  BY <1>0 DEF Count, Old, Rest, Grows
<1>3. p.gen # 0 => Climbing(w, p.gen, p.srev)
  <2> SUFFICES ASSUME p.gen # 0, NEW i \in DOMAIN w, IsUpdate(w[i], p.gen)
               PROVE  /\ w[i].base < p.srev
                      /\ \A j \in DOMAIN w : i < j /\ IsUpdate(w[j], p.gen)
                           => w[i].base < w[j].base
    BY <1>0 DEF Climbing
  <2>1. Climbing(u, p.gen, p.srev)
    BY <1>0 DEF Count
  <2>2. \A j \in DOMAIN w : j \in Nat /\ s \in Nat /\ j + s \in DOMAIN u /\ w[j] = u[j + s]
    BY <1>0 DEF Rest
  <2>3. \A j \in DOMAIN w : i < j => i + s < j + s
    BY <1>0, <2>2
  <2> QED BY <1>0, <2>1, <2>2, <2>3 DEF Climbing
<1>4. ASSUME srv'.on, NEW k \in DOMAIN u, IsSeat(u[k], srv.gen), x \notin srv'.seated
      PROVE  k - s \in DOMAIN w /\ w[k - s] = u[k] /\ k \in Nat /\ s \in Nat
  <2>1. k > s
    BY <1>0, <1>4 DEF Rest
  <2> QED BY <1>0, <2>1 DEF Rest
<1>5. ASSUME srv'.on PROVE UpdatesOK(up[x], x)'
  <2> SUFFICES ASSUME NEW i \in DOMAIN w, IsUpdate(w[i], srv.gen), x \notin srv'.seated
               PROVE  srv'.ready /\ \E k \in DOMAIN w : k < i /\ IsSeat(w[k], srv.gen)
    <3>1. ASSUME NEW i \in DOMAIN w, IsUpdate(w[i], srv.gen)
          PROVE  srv'.ready
      BY <1>0, <1>5, <3>1 DEF Count, UpdatesOK, Rest
    <3> QED BY <1>0, <3>1 DEF UpdatesOK
  <2>1. i + s \in DOMAIN u /\ w[i] = u[i + s] /\ i \in Nat /\ s \in Nat
    BY <1>0 DEF Rest
  <2>2. srv.ready /\ (x \in srv.seated \/ \E k \in DOMAIN u : k < i + s /\ IsSeat(u[k], srv.gen))
    BY <1>0, <1>5, <2>1 DEF Count, UpdatesOK
  <2>3. PICK k \in DOMAIN u : k < i + s /\ IsSeat(u[k], srv.gen)
    BY <1>0, <1>5, <2>2
  <2>4. k - s \in DOMAIN w /\ w[k - s] = u[k] /\ k \in Nat
    BY <1>0, <1>4, <1>5, <2>3
  <2>5. k - s < i
    BY <1>0, <2>1, <2>3, <2>4
  <2> QED BY <1>0, <1>5, <2>2, <2>3, <2>4, <2>5
<1>6. ASSUME srv'.on PROVE ReadyTold(down[x])'
  <2>1. \A j \in DOMAIN t : TellsReady(t[j]) /\ t[j].gen = srv.gen => srv'.ready
    BY <1>0, <1>6 DEF Count, ReadyTold, Grows
  <2> QED BY <1>0, <2>1 DEF ReadyTold
<1>7. ASSUME srv'.on, PlaysAfter(x, u) PROVE PlaysAfter(x, up[x])'
  BY <1>0, <1>4, <1>7 DEF PlaysAfter
<1>8. ASSUME srv'.on, p.gen = srv.gen PROVE Covered(up[x], BoardRev, p.srev)'
  <2> SUFFICES ASSUME NEW r \in Nat, BoardRev' <= r, r < p.srev
               PROVE  \E i \in DOMAIN w : IsUpdate(w[i], srv.gen) /\ w[i].base = r
    BY <1>0 DEF Covered
  <2>1. BoardRev <= r
    BY <1>0, <1>1
  <2>2. PICK i \in DOMAIN u : IsUpdate(u[i], srv.gen) /\ u[i].base = r
    BY <1>0, <1>8, <2>1 DEF Count, Covered
  <2>3. CASE i > s
    <3>1. i - s \in DOMAIN w /\ w[i - s] = u[(i - s) + s] /\ i \in Nat /\ s \in Nat
      BY <1>0, <2>3 DEF Rest
    <3> QED BY <1>0, <2>2, <3>1
  <2>4. CASE ~(i > s)
    <3>1. s = 1 /\ i = 1
      BY <1>0, <2>4 DEF Rest
    <3>2. r < BoardRev'
      BY <1>0, <1>8, <2>2, <3>1
    <3> QED BY <1>0, <1>1, <3>2
  <2> QED BY <1>0, <2>3, <2>4
<1>9. srv'.on => srv.on /\ x \in srv'.slots
  BY <1>0 DEF Count
<1>10. Old(up[x], down[x], page[x].gen)'
  BY <1>0, <1>2 DEF Old
<1> QED BY <1>0, <1>3, <1>5, <1>6, <1>7, <1>8, <1>9, <1>10 DEF Count

LEMMA EmitGrows ==
  ASSUME ~Overtaking, NetTyped, NEW to, NEW b \in Seq(Downs), Emit(to, b),
         NEW x \in Clients
  PROVE  Grows(down[x], down'[x], b)
<1>1. down'[x] = down[x] \o b \/ down'[x] = down[x]
  BY DEF Emit, Delivered
<1>2. down[x] \in Seq(Downs)
  BY DEF NetTyped
<1> QED BY <1>1, <1>2, GrowsCases

LEMMA StartCounted ==
  ASSUME ~Overtaking, EarlierGens \cap Gens = {}, TypeInv, OrderInv, NegInv, CountInv,
         StartMatch
  PROVE  CountInv'
<1>1. PICK o \in srv.here :
        /\ srv' = [srv EXCEPT !.gen = @ + 1, !.on = TRUE, !.owner = o,
                              !.ready = FALSE, !.slots = srv.here, !.seated = {}]
        /\ Emit(srv.here, StartBatch(o))
  BY DEF StartMatch, StartBatch
<1>2. /\ srv.gen < MaxGen /\ ServerTyped /\ NetTyped /\ srv \in Servers
      /\ page' = page /\ up' = up
  BY DEF StartMatch, TypeInv, ServerTyped
<1>3. srv.gen \in Nat /\ srv.here \in SUBSET Clients /\ o \in Clients
  BY <1>2, RunningIs
<1>4. /\ srv'.gen = srv.gen + 1 /\ srv'.here = srv.here /\ srv'.slots = srv.here
  BY <1>1, <1>2 DEF Servers
<1> DEFINE b == StartBatch(o)
<1>5. b \in Seq(Downs)
  BY <1>2, <1>3, StartBatchTyped
<1>6. \A j \in DOMAIN b : ~TellsReady(b[j]) /\ (b[j].type = "START" => b[j].gen = srv.gen + 1)
  <2>1. /\ DOMAIN b = {1, 2, 3} /\ b[1].type = "START" /\ b[1].gen = srv.gen + 1
        /\ b[2].type = "PLAY" /\ b[3].type = "INIT"
    BY DEF StartBatch
  <2> HIDE DEF b
  <2> QED BY <2>1 DEF TellsReady
<1> SUFFICES ASSUME NEW x \in srv.here PROVE Count(page[x], up[x], down[x], x)'
  BY <1>4 DEF CountInv
<1> DEFINE p == page[x]
           u == up[x]
           q == down[x]
           t == down'[x]
<1>7. /\ x \in Clients /\ u \in Seq(Ups) /\ q \in Seq(Downs) /\ p \in Pages /\ p.gen \in Nat
  BY <1>3, Bounds DEF TypeInv, PagesTyped, NetTyped, Pages
<1>8. Count(p, u, q, x) /\ Fresh(p, q) /\ AllUpTo(q, Now)
  BY <1>7, NegFresh DEF NegInv, CountInv, OrderInv, Ordered
<1>9. Grows(q, t, b)
  BY <1>1, <1>2, <1>5, <1>7, EmitGrows
<1>10. page'[x] = p /\ up'[x] = u /\ down'[x] = t
  BY <1>2
<1> HIDE DEF p, u, q, t, b
<1>11. ASSUME NEW i \in DOMAIN u, u[i].type = "BOARD"
       PROVE  u[i].gen \in Nat /\ u[i].gen <= srv.gen
  <2>1. u[i] \in Ups
    BY <1>7, ElementOfSeq, LenProperties
  <2>2. u[i] \in BoardsUp
    BY <1>11, <2>1, UpCases
  <2> QED BY <1>8, <1>11, <2>2, Bounds DEF BoardsUp, Count, Old
<1>12. Old(u, q, p.gen)
  BY <1>8 DEF Count
<1>13. ASSUME NEW i \in DOMAIN u, u[i].type = "BOARD", NEW j \in DOMAIN t,
              t[j].type = "START"
       PROVE  u[i].gen < t[j].gen
  <2>1. CASE \E k \in DOMAIN q : t[j] = q[k]
    BY <1>12, <1>13, <2>1 DEF Old
  <2>2. CASE \E k \in DOMAIN b : t[j] = b[k]
    <3>1. t[j].gen = srv.gen + 1
      BY <1>6, <1>13, <2>2
    <3> QED BY <1>3, <1>11, <1>13, <3>1
  <2> QED BY <1>9, <2>1, <2>2 DEF Grows
<1>14. Old(up[x], down[x], page[x].gen)'
  <2>1. \A i \in DOMAIN u : u[i].type = "BOARD" => u[i].gen <= srv'.gen
    BY <1>3, <1>4, <1>11
  <2> QED BY <1>10, <1>12, <1>13, <2>1 DEF Old
<1>15. p.gen # srv'.gen
  BY <1>3, <1>4, <1>7, <1>8 DEF Fresh
<1>16. UpdatesOK(up[x], x)'
  <2>1. \A i \in DOMAIN u : ~IsUpdate(u[i], srv'.gen)
    BY <1>3, <1>4, <1>11 DEF IsUpdate
  <2> QED BY <1>10, <2>1 DEF UpdatesOK
<1>17. ReadyTold(down[x])'
  <2>1. ASSUME NEW k \in DOMAIN q, TellsReady(q[k]) PROVE q[k].gen # srv'.gen
    <3>1. Placed(q[k]) /\ q[k] \in Downs
      BY <1>7, <2>1, ElementOfSeq, LenProperties DEF TellsReady, Placed
    <3>2. q[k].gen \in Nat /\ q[k].rev \in Nat
      BY <3>1, PlacedTyped
    <3>3. AtMost(q[k], Now) /\ Now.gen = srv.gen
      BY <1>8, <3>1 DEF AllUpTo, Now
    <3> QED BY <1>3, <1>4, <3>2, <3>3 DEF AtMost
  <2>2. \A j \in DOMAIN t : TellsReady(t[j]) => t[j].gen # srv'.gen
    BY <1>6, <1>9, <2>1 DEF Grows
  <2> QED BY <1>10, <2>2 DEF ReadyTold
<1>18. x \in srv'.slots
  BY <1>4
<1> QED BY <1>8, <1>10, <1>14, <1>15, <1>16, <1>17, <1>18 DEF Count

LEMMA EndCounted ==
  ASSUME ~Overtaking, TypeInv, TypeInv', CountInv,
         EndMatch \/ \E c \in Clients : Leave(c)
  PROVE  CountInv'
<1>1. page' = page /\ log' = log /\ ServerTyped /\ ServerTyped' /\ NetTyped /\ srv \in Servers
  BY DEF EndMatch, Leave, TypeInv, ServerTyped
<1>2. srv.here \in SUBSET Clients
  BY <1>1, RunningIs
<1>3. ASSUME NEW h \in SUBSET srv.here, NEW o
      PROVE  LET s == [srv EXCEPT !.here = h]
             IN  /\ s.gen = srv.gen /\ s.on = srv.on /\ s.here = h /\ s.slots = srv.slots
                 /\ s.seated = srv.seated /\ s.ready = srv.ready
                 /\ NoMatch(s).gen = srv.gen /\ ~NoMatch(s).on /\ NoMatch(s).here = h
                 /\ LET e == [s EXCEPT !.owner = o]
                    IN  /\ e.gen = srv.gen /\ e.on = srv.on /\ e.here = h
                        /\ e.slots = srv.slots /\ e.seated = srv.seated
                        /\ e.ready = srv.ready
                 /\ NoMatch(srv).gen = srv.gen /\ ~NoMatch(srv).on
                 /\ NoMatch(srv).here = srv.here
  BY <1>1, <1>2 DEF Servers, NoMatch
<1>4. ASSUME NEW b \in Seq(Downs), \A x \in Clients : Grows(down[x], down'[x], b),
             \A j \in DOMAIN b : b[j].type # "START" /\ ~TellsReady(b[j]),
             srv'.gen = srv.gen, srv'.here \subseteq srv.here,
             srv'.on => /\ srv.on /\ srv'.slots = srv.slots /\ srv'.seated = srv.seated
                        /\ srv'.ready = srv.ready,
             \A x \in srv'.here : up'[x] = up[x]
      PROVE  CountInv'
  <2> SUFFICES ASSUME NEW x \in srv'.here PROVE Count(page[x], up[x], down[x], x)'
    BY DEF CountInv
  <2>1. /\ x \in srv.here /\ x \in Clients /\ page[x] \in Pages /\ up[x] \in Seq(Ups)
        /\ Count(page[x], up[x], down[x], x)
    BY <1>2, <1>4 DEF TypeInv, PagesTyped, CountInv
  <2>2. BoardRev' = BoardRev /\ BoardRev \in Nat
    BY <1>1, <1>4, LogFacts DEF BoardRev
  <2>3. BoardRev' >= BoardRev
    BY <2>2
  <2>4. Rest(up[x], up[x], 0)
    BY <2>1, RestCases
  <2>5. page'[x] = page[x] /\ up'[x] = up[x] /\ Grows(down[x], down'[x], b)
    BY <1>1, <1>4, <2>1
  <2>6. GoesOn(b)
    BY <1>4, <2>3 DEF GoesOn
  <2>7. Takes(x, page[x], up[x], 0)
    BY DEF Takes
  <2> QED BY <1>1, <2>1, <2>4, <2>5, <2>6, <2>7, ServerCount
<1>5. ASSUME NEW to, NEW m \in Downs, m.type \in {"END", "INIT"}, Emit(to, <<m>>)
      PROVE  \E b \in Seq(Downs) :
               /\ \A x \in Clients : Grows(down[x], down'[x], b)
               /\ \A j \in DOMAIN b : b[j].type # "START" /\ ~TellsReady(b[j])
  <2> DEFINE b == <<m>>
  <2>1. b \in Seq(Downs) /\ \A j \in DOMAIN b : b[j] = m
    OBVIOUS
  <2>2. ~TellsReady(m)
    BY <1>5 DEF TellsReady
  <2> HIDE DEF b
  <2>3. \A x \in Clients : Grows(down[x], down'[x], b)
    BY <1>1, <1>5, <2>1, EmitGrows DEF b
  <2> QED BY <1>5, <2>1, <2>2, <2>3
<1>6. [type |-> "END"] \in Downs
  BY DEF Downs, Plain
<1>7. CASE EndMatch
  <2>1. srv' = NoMatch(srv) /\ Emit(srv.here, <<[type |-> "END"]>>) /\ up' = up
    BY <1>7 DEF EndMatch
  <2>2. NoMatch(srv).gen = srv.gen /\ ~NoMatch(srv).on /\ NoMatch(srv).here = srv.here
    BY <1>2, <1>3
  <2> QED BY <1>4, <1>5, <1>6, <2>1, <2>2
<1>8. ASSUME NEW c \in Clients, Leave(c) PROVE CountInv'
  <2> DEFINE rest == srv.here \ {c}
             s == [srv EXCEPT !.here = rest]
  <2>0. rest \in SUBSET srv.here /\ c \notin rest
    OBVIOUS
  <2>1. \A x \in rest : up'[x] = up[x]
    BY <1>2, <1>8 DEF Leave, TypeInv, PagesTyped
  <2>2. ASSUME srv' = s, UNCHANGED <<flight, down>> PROVE CountInv'
    <3>1. /\ s.gen = srv.gen /\ s.on = srv.on /\ s.here = rest /\ s.slots = srv.slots
          /\ s.seated = srv.seated /\ s.ready = srv.ready
      BY <1>3, <2>0
    <3> HIDE DEF s, rest
    <3> DEFINE b == <<>>
    <3>2. b \in Seq(Downs) /\ DOMAIN b = {}
      OBVIOUS
    <3>3. \A x \in Clients : Grows(down[x], down'[x], b)
      BY <2>2 DEF Grows
    <3> HIDE DEF b
    <3> QED BY <1>4, <2>0, <2>1, <2>2, <3>1, <3>2, <3>3
  <2>3. ASSUME srv.on, srv' = NoMatch(s), Emit(rest, <<[type |-> "END"]>>) PROVE CountInv'
    <3>1. NoMatch(s).gen = srv.gen /\ ~NoMatch(s).on /\ NoMatch(s).here = rest
      BY <1>3, <2>0
    <3> HIDE DEF s, rest
    <3> QED BY <1>4, <1>5, <1>6, <2>0, <2>1, <2>3, <3>1
  <2>4. ASSUME NEW o \in rest \cap srv.slots, srv.on, srv' = [s EXCEPT !.owner = o],
               Emit(rest, <<[type |-> "INIT", gen |-> srv.gen, owner |-> o]>>)
        PROVE  CountInv'
    <3> DEFINE msg == [type |-> "INIT", gen |-> srv.gen, owner |-> o]
               e == [s EXCEPT !.owner = o]
    <3>1. /\ e.gen = srv.gen /\ e.on = srv.on /\ e.here = rest /\ e.slots = srv.slots
          /\ e.seated = srv.seated /\ e.ready = srv.ready
      BY <1>3, <2>0
    <3>2. msg \in Downs /\ msg.type = "INIT" /\ Emit(rest, <<msg>>)
      <4>1. srv.gen \in Gens /\ o \in Clients
        BY <1>1, <1>2, <2>0, <2>4 DEF ServerTyped
      <4> QED BY <2>4, <4>1 DEF Downs, Inits
    <3> HIDE DEF msg, s, rest, e
    <3>3. srv' = e
      BY <2>4 DEF e
    <3> QED BY <1>4, <1>5, <2>0, <2>1, <2>4, <3>1, <3>2, <3>3
  <2> QED BY <1>8, <2>2, <2>3, <2>4 DEF Leave
<1> QED BY <1>7, <1>8

\* An update that the server has not passed is one it takes.
LEMMA PassedOrTaken ==
  ASSUME ServerTyped, NEW c, NEW p \in Pages, NEW u \in Seq(Ups), NEW q, Count(p, u, q, c),
         srv.on, u # <<>>, IsUpdate(u[1], srv.gen), p.gen = srv.gen, ~Accepts(c, u[1])
  PROVE  u[1].base < BoardRev
<1>1. /\ BoardRev \in Nat /\ p.gen # 0 /\ 1 \in DOMAIN u /\ p.srev \in Nat
      /\ \A i \in DOMAIN u : i \in Nat /\ i > 0
  <2>1. 1 \in DOMAIN u /\ DOMAIN u = 1 .. Len(u) /\ Len(u) \in Nat
    BY TailIndex, LenProperties
  <2>2. BoardRev \in Nat /\ p.gen # 0 /\ p.srev \in Nat
    BY LogFacts DEF ServerTyped, Gens, Pages
  <2> QED BY <2>1, <2>2
<1>2. u[1].base \in Nat
  <2>1. u[1] \in Ups
    BY <1>1, ElementOfSeq, LenProperties
  <2>2. u[1] \in BoardsUp
    BY <2>1, UpCases DEF IsUpdate
  <2> QED BY <2>2 DEF BoardsUp
<1>3. srv.ready /\ c \in srv.seated /\ c \in srv.slots
  BY <1>1 DEF Count, UpdatesOK
<1>4. u[1].base # BoardRev
  BY <1>3 DEF Accepts, FromSeat, IsUpdate
<1>5. Climbing(u, srv.gen, p.srev) /\ Covered(u, BoardRev, p.srev)
  BY <1>1 DEF Count
<1>6. ASSUME BoardRev < u[1].base PROVE FALSE
  <2>1. u[1].base < p.srev
    BY <1>1, <1>5 DEF Climbing
  <2>2. BoardRev <= BoardRev /\ BoardRev < p.srev
    BY <1>1, <1>2, <1>6, <2>1
  <2>3. PICK i \in DOMAIN u : IsUpdate(u[i], srv.gen) /\ u[i].base = BoardRev
    BY <1>1, <1>5, <2>2 DEF Covered
  <2>4. CASE i = 1
    BY <1>4, <2>3, <2>4
  <2>5. CASE i # 1
    <3>1. 1 < i
      BY <1>1, <2>5
    <3>2. u[1].base < u[i].base
      BY <1>1, <1>5, <2>3, <3>1 DEF Climbing
    <3> QED BY <1>1, <1>2, <1>6, <2>3, <3>2
  <2> QED BY <2>4, <2>5
<1> QED BY <1>1, <1>2, <1>4, <1>6

LEMMA ReceiveCounted ==
  ASSUME ~Overtaking, TypeInv, TypeInv', CountInv, NEW c \in Clients, Receive(c)
  PROVE  CountInv'
<1> DEFINE m == Head(up[c])
<1>1. /\ m \in Ups /\ up[c] \in Seq(Ups) /\ up[c] # <<>>
      /\ 1 \in DOMAIN up[c] /\ m = up[c][1]
  <2>1. up[c] \in Seq(Ups) /\ up[c] # <<>>
    BY DEF Receive, TypeInv, PagesTyped
  <2> QED BY <2>1, HeadTyped, TailIndex
<1>2. /\ ServerTyped /\ ServerTyped' /\ NetTyped /\ page' = page /\ srv \in Servers
      /\ up \in [Clients -> Seq(Ups)] /\ page \in [Clients -> Pages]
      /\ srv.here \in SUBSET Clients /\ up' = [up EXCEPT ![c] = Tail(@)]
  BY RunningIs DEF TypeInv, PagesTyped, ServerTyped, Receive
<1>3. \/ m.type = "SEAT" /\ TakeSeat(c, m)
      \/ m.type = "BOARD" /\ m \in BoardsUp /\ TakeBoard(c, m)
      \/ m.type = "RESYNC" /\ TakeResync(c)
  BY <1>1, UpCases DEF Receive
<1> HIDE DEF m
<1>4. /\ srv'.gen = srv.gen /\ srv'.on = srv.on /\ srv'.here = srv.here
      /\ srv'.slots = srv.slots /\ srv.seated \subseteq srv'.seated
      /\ srv.ready => srv'.ready
  BY <1>2, <1>3 DEF TakeSeat, TakeBoard, TakeResync, Servers
<1>5. BoardRev \in Nat
  BY <1>2, LogFacts
<1>6. m.type = "BOARD" /\ Accepts(c, m) =>
        /\ srv.on /\ m.gen = srv.gen /\ srv'.ready /\ BoardRev' = BoardRev + 1
        /\ Emit(srv.here, BoardBatch(m))
  <2> SUFFICES ASSUME m.type = "BOARD", Accepts(c, m)
               PROVE  /\ srv.on /\ m.gen = srv.gen /\ srv'.ready
                      /\ BoardRev' = BoardRev + 1 /\ Emit(srv.here, BoardBatch(m))
    OBVIOUS
  <2> DEFINE e == [gen |-> m.gen, board |-> m.eaten]
  <2>1. /\ srv.on /\ m.gen = srv.gen /\ srv' = [srv EXCEPT !.ready = TRUE]
        /\ Emit(srv.here, BoardBatch(m)) /\ e \in Entries
        /\ log' = [log EXCEPT ![srv.gen] = Append(@, e)]
    BY <1>2, <1>3, BoardTaken
  <2> HIDE DEF e
  <2>2. /\ srv.gen \in DOMAIN log /\ srv.gen # 0 /\ log[srv.gen] \in Seq(Entries)
        /\ BoardRev = Len(log[srv.gen])
    BY <1>2, <2>1, LogFacts DEF ServerTyped, Gens
  <2>3. /\ log'[srv.gen] = Append(log[srv.gen], e)
        /\ Len(Append(log[srv.gen], e)) = Len(log[srv.gen]) + 1
    BY <2>1, <2>2, AppendProperties
  <2>4. BoardRev' = BoardRev + 1
    BY <1>4, <2>2, <2>3 DEF BoardRev
  <2> QED BY <1>2, <2>1, <2>4 DEF Servers
<1>7. ~(m.type = "BOARD" /\ Accepts(c, m)) => log' = log
  BY <1>3 DEF TakeSeat, TakeBoard, TakeResync
<1>8. BoardRev' >= BoardRev /\ (BoardRev' = BoardRev \/ BoardRev' = BoardRev + 1)
  BY <1>4, <1>5, <1>6, <1>7 DEF BoardRev
<1>9. PICK b \in Seq(Downs) :
        /\ \A x \in Clients : Grows(down[x], down'[x], b)
        /\ \A j \in DOMAIN b : b[j].type # "START" /\ (TellsReady(b[j]) => srv'.ready)
  <2>1. CASE UNCHANGED <<flight, down>>
    <3> DEFINE b == <<>>
    <3>1. b \in Seq(Downs) /\ DOMAIN b = {}
      OBVIOUS
    <3>2. \A x \in Clients : Grows(down[x], down'[x], b)
      BY <2>1 DEF Grows
    <3> HIDE DEF b
    <3> QED BY <3>1, <3>2
  <2>2. CASE m.type = "BOARD" /\ Accepts(c, m)
    <3> DEFINE b == BoardBatch(m)
    <3>1. b \in Seq(Downs) /\ Emit(srv.here, b) /\ srv'.ready
      BY <1>2, <1>3, <1>6, <2>2, BoardBatchTyped
    <3>2. /\ DOMAIN b \subseteq {1, 2} /\ (1 \in DOMAIN b => b[1].type = "BOARD")
          /\ (2 \in DOMAIN b => b[2].type = "READY")
      BY DEF BoardBatch
    <3> HIDE DEF b
    <3>3. \A j \in DOMAIN b : b[j].type # "START"
      BY <3>2
    <3>4. \A x \in Clients : Grows(down[x], down'[x], b)
      BY <1>2, <3>1, EmitGrows
    <3> QED BY <3>1, <3>3, <3>4
  <2>3. CASE TakeResync(c)
    <3> DEFINE b == ReplayBatch
    <3>1. b \in Seq(Downs) /\ Emit({c}, b) /\ srv' = srv
      BY <1>2, <2>3, ReplayBatchTyped, TakeResyncTyped DEF TakeResync
    <3>2. \A j \in DOMAIN b : b[j].type # "START" /\ (TellsReady(b[j]) => srv.ready)
      <4>1. CASE ~srv.on
        BY <4>1 DEF ReplayBatch, TellsReady
      <4>2. CASE srv.on /\ ~srv.ready
        <5>1. /\ DOMAIN b = {1, 2} /\ b[1].type = "REPLAY" /\ ~b[1].ready
              /\ b[2].type = "ROSTER"
          BY <4>2 DEF ReplayBatch, ReplayHead
        <5> HIDE DEF b
        <5> QED BY <5>1 DEF TellsReady
      <4>3. CASE srv.on /\ srv.ready
        <5>1. /\ DOMAIN b = {1, 2, 3, 4} /\ b[1].type = "REPLAY" /\ b[2].type = "BOARD"
              /\ b[3].type = "READY" /\ b[4].type = "ROSTER"
          BY <4>3 DEF ReplayBatch, ReplayHead, ReplayBoard, ReplayReady
        <5> HIDE DEF b
        <5> QED BY <4>3, <5>1
      <4> QED BY <4>1, <4>2, <4>3
    <3> HIDE DEF b
    <3>3. \A x \in Clients : Grows(down[x], down'[x], b)
      BY <1>2, <3>1, EmitGrows
    <3> QED BY <3>1, <3>2, <3>3
  <2> QED BY <1>3, <2>1, <2>2, <2>3 DEF TakeSeat, TakeBoard
<1> SUFFICES ASSUME NEW x \in srv.here PROVE Count(page[x], up[x], down[x], x)'
  BY <1>4 DEF CountInv
<1>10. /\ x \in Clients /\ page[x] \in Pages /\ up[x] \in Seq(Ups) /\ page'[x] = page[x]
       /\ Count(page[x], up[x], down[x], x) /\ Grows(down[x], down'[x], b)
  BY <1>2, <1>9 DEF CountInv
<1>11. GoesOn(b)
  BY <1>4, <1>8, <1>9 DEF GoesOn
<1>12. CASE x # c
  <2>1. up'[x] = up[x] /\ Rest(up[x], up[x], 0)
    BY <1>2, <1>10, <1>12, RestCases
  <2>2. Takes(x, page[x], up[x], 0)
    BY DEF Takes
  <2> QED BY <1>2, <1>10, <1>11, <2>1, <2>2, ServerCount
<1>13. CASE x = c
  <2> DEFINE u == up[c]
             p == page[c]
  <2>1. up'[x] = Tail(u) /\ Rest(u, Tail(u), 1)
    BY <1>1, <1>2, <1>13, RestCases
  <2>2. ASSUME srv.on, IsSeat(m, srv.gen) PROVE c \in srv'.seated
    <3>1. FromSeat(c, m) /\ TakeSeat(c, m)
      BY <1>3, <1>10, <1>13, <2>2 DEF IsSeat, FromSeat, Count
    <3>2. srv' = [srv EXCEPT !.seated = @ \cup {c}]
      BY <3>1 DEF TakeSeat
    <3> QED BY <1>2, <3>2 DEF Servers
  <2>3. ASSUME srv.on, IsUpdate(m, srv.gen), p.gen = srv.gen PROVE m.base < BoardRev'
    <3>1. CASE Accepts(c, m)
      <4>1. BoardRev' = BoardRev + 1
        BY <1>6, <2>3, <3>1 DEF IsUpdate
      <4>2. srv.ready
        BY <1>1, <1>10, <1>13, <2>3 DEF Count, UpdatesOK
      <4>3. m.base = BoardRev
        BY <3>1, <4>2 DEF Accepts
      <4> QED BY <1>5, <4>1, <4>3
    <3>2. CASE ~Accepts(c, m)
      <4>1. m.base < BoardRev
        <5> HIDE DEF p
        <5> QED BY <1>1, <1>2, <1>10, <1>13, <2>3, <3>2, PassedOrTaken DEF p
      <4>2. m.base \in Nat
        BY <1>3, <2>3 DEF IsUpdate, BoardsUp
      <4> QED BY <1>5, <1>8, <4>1, <4>2
    <3> QED BY <3>1, <3>2
  <2>4. Takes(x, p, u, 1)
    BY <1>1, <1>13, <2>2, <2>3 DEF Takes
  <2>5. p \in Pages /\ u \in Seq(Ups) /\ Count(p, u, down[x], x) /\ page'[x] = p
    BY <1>10, <1>13
  <2> HIDE DEF u, p
  <2>6. Count(page[x], up[x], down[x], x)'
    BY <1>2, <1>10, <1>11, <2>1, <2>4, <2>5, ServerCount
  <2> QED BY <2>6
<1> QED BY <1>12, <1>13

\* As many boards of the page are on the way as it has counted revisions
\* that the server has not.
LEMMA CoveredCount ==
  ASSUME NEW u \in Seq(Ups), NEW lo \in Nat, NEW hi \in Nat, Covered(u, lo, hi)
  PROVE  LET I == {i \in DOMAIN u : IsUpdate(u[i], srv.gen)}
         IN hi <= lo + Cardinality(I)
<1> DEFINE I == {i \in DOMAIN u : IsUpdate(u[i], srv.gen)}
           R == lo .. (hi - 1)
           f == [r \in R |-> CHOOSE i \in I : u[i].base = r]
<1> SUFFICES hi <= lo + Cardinality(I)
  OBVIOUS
<1>1. IsFiniteSet(I) /\ Cardinality(I) \in Nat
  <2>1. DOMAIN u = 1 .. Len(u) /\ Len(u) \in Nat /\ I \in SUBSET DOMAIN u
    BY LenProperties
  <2>2. 1 \in Int /\ Len(u) \in Int
    BY <2>1
  <2>3. IsFiniteSet(DOMAIN u)
    BY <2>1, <2>2, FS_Interval
  <2> HIDE DEF I
  <2> QED BY <2>1, <2>3, FS_Subset, FS_CardinalityType
<1>2. CASE hi <= lo
  <2> HIDE DEF I
  <2> QED BY <1>1, <1>2
<1>3. CASE ~(hi <= lo)
  <2>1. IsFiniteSet(R) /\ Cardinality(R) = hi - lo
    <3>1. lo \in Int /\ hi - 1 \in Int
      OBVIOUS
    <3>2. IsFiniteSet(R) /\ Cardinality(R) = IF lo > hi - 1 THEN 0 ELSE (hi - 1) - lo + 1
      BY <3>1, FS_Interval
    <3> HIDE DEF R
    <3> QED BY <1>3, <3>2
  <2>2. \A r \in R : \E i \in I : u[i].base = r
    BY DEF Covered
  <2> HIDE DEF R, I
  <2>3. f \in [R -> I] /\ \A r \in R : u[f[r]].base = r
    BY <2>2
  <2> HIDE DEF f
  <2>4. ~(Cardinality(I) < Cardinality(R))
    <3> SUFFICES ASSUME Cardinality(I) < Cardinality(R) PROVE FALSE
      OBVIOUS
    <3>1. \E x, y \in R : x # y /\ f[x] = f[y]
      BY <1>1, <2>1, <2>3, FS_PigeonHole
    <3> QED BY <2>3, <3>1
  <2> QED BY <1>1, <2>1, <2>4
<1> QED BY <1>2, <1>3

LEMMA CountImplies == TypeInv /\ NegInv /\ CountInv => NeverAhead
<1> SUFFICES ASSUME TypeInv, NegInv, CountInv, NEW c \in Clients, Runs(c), srv.on,
                    page[c].gen = srv.gen
             PROVE  page[c].srev <= BoardRev + OwnUpdates(c)
  BY DEF NeverAhead
<1>1. /\ up[c] \in Seq(Ups) /\ page[c].srev \in Nat /\ BoardRev \in Nat
  BY LogFacts DEF TypeInv, PagesTyped, Pages
<1>2. Covered(up[c], BoardRev, page[c].srev)
  BY DEF CountInv, Count, Runs
<1> DEFINE u == up[c]
<1>3. LET I == {i \in DOMAIN u : IsUpdate(u[i], srv.gen)}
      IN page[c].srev <= BoardRev + Cardinality(I)
  <2> HIDE DEF u
  <2> QED BY <1>1, <1>2, CoveredCount DEF u
<1> QED BY <1>3 DEF OwnUpdates

LEMMA InitCounted == Init => CountInv
<1> SUFFICES ASSUME Init, NEW c \in srv.here PROVE Count(page[c], up[c], down[c], c)
  BY DEF CountInv
<1>0. c \in Clients
  BY DEF Init
<1>1. PICK g \in [Clients -> EarlierGens] : page = [x \in Clients |-> NewPage(g[x])]
  BY DEF Init
<1>2. /\ page[c].gen = 0 /\ ~page[c].active /\ up[c] = <<>> /\ down[c] = <<>> /\ ~srv.on
  BY <1>0, <1>1 DEF Init, NewPage
<1> QED BY <1>2 DEF Count, Old

LEMMA CountStep ==
  ASSUME ~Overtaking, EarlierGens \cap Gens = {}, TypeInv, OrderInv, NegInv, CountInv,
         [Next]_vars
  PROVE  CountInv'
<1>1. TypeInv'
  BY TypeStep
<1>2. CASE UNCHANGED vars
  BY <1>2 DEF vars, CountInv, Count, Old, UpdatesOK, ReadyTold, PlaysAfter, Covered, BoardRev
<1>3. CASE SendBatch
  BY <1>3 DEF SendBatch, NegInv
<1> QED BY <1>1, <1>2, <1>3, StartCounted, EndCounted, ReceiveCounted, DeliverCounted,
           OwnCount DEF Next

(***************************************************************************)
(* NeverAhead: a page that plays the match of the server has counted no    *)
(* further than the server's revision and its own boards on the way; so    *)
(* every base that it publishes for is one that the server reaches         *)
(* (publishCoopCollectables, src/mod.js, counts its revision at once,      *)
(* before the server has taken the board).  Under the conditions of        *)
(* NegotiatedSafe.                                                         *)
(***************************************************************************)
THEOREM NeverAheadSafe ==
  ASSUME ~Overtaking, EarlierGens \cap (1 .. MaxGen) = {}
  PROVE  Spec => []NeverAhead
<1> DEFINE Inv == TypeInv /\ OrderInv /\ NegInv /\ CountInv
<1>1. Init => Inv
  BY InitTyped, InitOrdered, InitNegotiated, InitCounted
<1>2. Inv /\ [Next]_vars => Inv'
  BY TypeStep, OrderStep, NegStep, CountStep DEF Gens
<1>3. Inv => NeverAhead
  BY CountImplies
<1> HIDE DEF Inv
<1> QED BY <1>1, <1>2, <1>3, PTL DEF Spec

-----------------------------------------------------------------------------
(***************************************************************************)
(* Batches that overtake each other, in one match and without replays.     *)
(* READY may now come before its board and INIT before START, and the      *)
(* queue of a page is in no order; but a page does not go back below the   *)
(* revision it has counted, and what it has shown is not above it.         *)
(***************************************************************************)
StartIn(q) == \E i \in DOMAIN q : q[i].type = "START"

NoReplay(q) == \A i \in DOMAIN q : q[i].type \notin {"REPLAY", "ROSTER"}

Played == Seats \cup BoardsUp

ShownBoards == [gen : Nat, rev : Nat, board : SUBSET Fruits]

\* START is the first of its batch, PLAY comes after it.
LateBatch(b, lg) ==
  /\ b \in Seq(Downs) /\ NoReplay(b) /\ Committed(b, lg)
  /\ \A i \in DOMAIN b :
       /\ b[i].type = "START" => i = 1
       /\ b[i].type = "PLAY" => i > 1 /\ b[i - 1].type = "START"

\* A page that has shown a board has counted to it, and will not count anew.
LatePage(p, s, lg) ==
  /\ p.stage = None /\ s \in ShownBoards
  /\ p.gen = 0 => ~p.active /\ ~p.play
  /\ p.play => ~p.active
  /\ ~p.active => ~p.seated /\ p.state # "Live"
  /\ s # NoShown => InLog(lg, s.gen, s.rev, s.board)
  /\ s # NoShown /\ p.gen # 0 => s.rev <= p.srev /\ (p.active \/ p.state # "Lobby")

LateQueue(q, p, s, lg) ==
  /\ NoReplay(q) /\ Committed(q, lg) /\ Plays(q, p)
  /\ \A i, j \in DOMAIN q : q[i].type = "START" /\ q[j].type = "START" => i = j
  /\ StartIn(q) => p.gen = 0 /\ s = NoShown

LateClient(c) ==
  /\ up[c] \in Seq(Played)
  /\ LatePage(page[c], shown[c], log)
  /\ LateQueue(down[c], page[c], shown[c], log)

LateFlight(f, lg) ==
  /\ \A k \in DOMAIN f : LateBatch(f[k].msgs, lg)
  /\ \A j, k \in DOMAIN f : StartIn(f[j].msgs) /\ StartIn(f[k].msgs) => j = k

Starting(f) == \E k \in DOMAIN f : StartIn(f[k].msgs)

\* The page does not know of the match yet.
Untold(c) == page[c].gen = 0 /\ shown[c] = NoShown /\ ~StartIn(down[c])

LateInv ==
  /\ DOMAIN shown = Clients
  /\ \A c \in Clients : LateClient(c)
  /\ LateFlight(flight, log)
  /\ Starting(flight) => srv.gen # 0
  /\ Starting(flight) \/ srv.gen = 0 => \A c \in Clients : Untold(c)

LEMMA LateGrows ==
  ASSUME NEW lg, NEW lg2,
         \A g, r, b : InLog(lg, g, r, b) => InLog(lg2, g, r, b)
  PROVE  /\ \A b : LateBatch(b, lg) => LateBatch(b, lg2)
         /\ \A f : LateFlight(f, lg) => LateFlight(f, lg2)
         /\ \A p, s : LatePage(p, s, lg) => LatePage(p, s, lg2)
         /\ \A q, p, s : LateQueue(q, p, s, lg) => LateQueue(q, p, s, lg2)
<1>1. \A b : Committed(b, lg) => Committed(b, lg2)
  BY DEF Committed
<1>2. \A b : LateBatch(b, lg) => LateBatch(b, lg2)
  BY <1>1 DEF LateBatch
<1>3. \A f : LateFlight(f, lg) => LateFlight(f, lg2)
  BY <1>2 DEF LateFlight
<1>4. \A p, s : LatePage(p, s, lg) => LatePage(p, s, lg2)
  BY DEF LatePage
<1>5. \A q, p, s : LateQueue(q, p, s, lg) => LateQueue(q, p, s, lg2)
  BY <1>1 DEF LateQueue
<1> QED BY <1>2, <1>3, <1>4, <1>5

\* A batch comes to the end of a queue.
LEMMA LatePush ==
  ASSUME NEW q \in Seq(Downs), NEW b, NEW p, NEW s, NEW lg,
         LateQueue(q, p, s, lg), LateBatch(b, lg),
         StartIn(b) => ~StartIn(q) /\ p.gen = 0 /\ s = NoShown
  PROVE  /\ LateQueue(q \o b, p, s, lg)
         /\ StartIn(q \o b) => StartIn(q) \/ StartIn(b)
<1> DEFINE z == q \o b
           n == Len(q)
<1>0. b \in Seq(Downs)
  BY DEF LateBatch
<1>1. /\ n \in Nat
      /\ \A i \in DOMAIN z :
           /\ i \in Nat /\ i > 0
           /\ i <= n => i \in DOMAIN q /\ z[i] = q[i]
           /\ i > n => i - n \in DOMAIN b /\ z[i] = b[i - n]
      /\ \A i \in DOMAIN q : i \in DOMAIN z /\ z[i] = q[i]
  BY <1>0, ConcatIndex
<1>2. /\ DOMAIN q = 1 .. n
      /\ \A i \in DOMAIN b : i \in Nat /\ i > 0 /\ (i > 1 => i - 1 \in DOMAIN b)
  BY <1>0, LenProperties
<1>3. \A i \in DOMAIN b : i + n \in DOMAIN z /\ z[i + n] = b[i]
  BY <1>0, ConcatIndex
<1> HIDE DEF z, n
<1>4. \A i \in DOMAIN z :
        z[i].type = "START" =>
          \/ i \in DOMAIN q /\ q[i].type = "START"
          \/ i = n + 1 /\ StartIn(b)
  <2> SUFFICES ASSUME NEW i \in DOMAIN z, z[i].type = "START"
               PROVE  \/ i \in DOMAIN q /\ q[i].type = "START"
                      \/ i = n + 1 /\ StartIn(b)
    OBVIOUS
  <2>1. CASE i <= n
    BY <1>1, <2>1
  <2>2. CASE ~(i <= n)
    <3>1. i > n /\ i \in Nat /\ i - n \in DOMAIN b /\ b[i - n].type = "START"
      BY <1>1, <2>2
    <3>2. i - n = 1
      BY <3>1 DEF LateBatch
    <3> QED BY <1>1, <3>1, <3>2 DEF StartIn
  <2> QED BY <2>1, <2>2
<1>5. StartIn(z) => StartIn(q) \/ StartIn(b)
  BY <1>4 DEF StartIn
<1>6. \A i, j \in DOMAIN z : z[i].type = "START" /\ z[j].type = "START" => i = j
  BY <1>4 DEF StartIn, LateQueue
<1>7. NoReplay(z)
  <2>1. \A i \in DOMAIN z : i <= n \/ i > n
    BY <1>1
  <2> QED BY <1>1, <2>1 DEF NoReplay, LateQueue, LateBatch
<1>8. Committed(z, lg)
  <2>1. \A i \in DOMAIN z : i <= n \/ i > n
    BY <1>1
  <2> QED BY <1>1, <2>1 DEF Committed, LateQueue, LateBatch
<1>9. ASSUME NEW i \in DOMAIN z, z[i].type = "PLAY"
      PROVE  IF i = 1 THEN MayPlay(p) ELSE z[i - 1].type = "START"
  <2>1. CASE i <= n
    <3>1. i \in DOMAIN q /\ q[i].type = "PLAY" /\ i \in Nat /\ i > 0
      BY <1>1, <1>9, <2>1
    <3>2. i # 1 => i - 1 \in DOMAIN q
      BY <1>1, <1>2, <2>1, <3>1
    <3> QED BY <1>1, <3>1, <3>2 DEF LateQueue, Plays
  <2>2. CASE ~(i <= n)
    <3> DEFINE j == i - n
    <3>1. i > n /\ i \in Nat /\ j \in DOMAIN b /\ b[j].type = "PLAY"
      BY <1>1, <1>9, <2>2
    <3>2. j > 1 /\ b[j - 1].type = "START" /\ j - 1 \in DOMAIN b /\ j \in Nat
      BY <1>2, <3>1 DEF LateBatch
    <3>3. (j - 1) + n = i - 1 /\ i # 1
      BY <1>1, <3>1, <3>2
    <3> HIDE DEF j
    <3> QED BY <1>3, <3>2, <3>3
  <2> QED BY <2>1, <2>2
<1> QED BY <1>5, <1>6, <1>7, <1>8, <1>9 DEF LateQueue, Plays, z

\* The head of a queue is handled; d and t are the page and its board then.
LEMMA LatePop ==
  ASSUME NEW q \in Seq(Downs), q # <<>>, NEW p, NEW s, NEW lg, LateQueue(q, p, s, lg)
  PROVE  LET m == Head(q)
         IN /\ m \in Downs /\ m.type \notin {"REPLAY", "ROSTER"}
            /\ m.type = "BOARD" => InLog(lg, m.gen, m.rev, m.eaten)
            /\ m.type = "PLAY" => MayPlay(p)
            /\ m.type = "START" => p.gen = 0 /\ s = NoShown /\ ~StartIn(Tail(q))
            /\ StartIn(Tail(q)) => StartIn(q)
            /\ StartIn(q) => StartIn(Tail(q)) \/ m.type = "START"
            /\ \A d, t : /\ m.type = "START" => MayPlay(d)
                         /\ StartIn(Tail(q)) => d.gen = 0 /\ t = NoShown
                         => LateQueue(Tail(q), d, t, lg)
<1> DEFINE m == Head(q)
           z == Tail(q)
<1>1. /\ 1 \in DOMAIN q /\ m = q[1] /\ z \in Seq(Downs) /\ Len(q) \in Nat
      /\ \A i \in DOMAIN z : i \in Nat /\ i > 0 /\ i + 1 \in DOMAIN q /\ z[i] = q[i + 1]
  BY TailIndex
<1>2. /\ \A i \in DOMAIN q : i \in Nat /\ i > 0 /\ (i # 1 => i - 1 \in DOMAIN z)
      /\ m \in Downs
  <2>1. DOMAIN q = 1 .. Len(q) /\ DOMAIN z = 1 .. Len(z) /\ Len(z) = Len(q) - 1
    BY <1>1, TailIndex, LenProperties
  <2> QED BY <1>1, <2>1, HeadTyped
<1>3. \A i \in DOMAIN z :
        z[i].type = "PLAY" => IF i = 1 THEN m.type = "START" ELSE z[i - 1].type = "START"
  BY PlaysTail DEF LateQueue
<1> HIDE DEF m, z
<1>4. StartIn(z) => StartIn(q)
  BY <1>1 DEF StartIn
<1>5. ASSUME StartIn(q) PROVE StartIn(z) \/ m.type = "START"
  <2>1. PICK i \in DOMAIN q : q[i].type = "START"
    BY <1>5 DEF StartIn
  <2>2. CASE i = 1
    BY <1>1, <2>1, <2>2
  <2>3. CASE i # 1
    <3>1. i - 1 \in DOMAIN z /\ (i - 1) + 1 = i
      BY <1>2, <2>3
    <3> QED BY <1>1, <2>1, <3>1 DEF StartIn
  <2> QED BY <2>2, <2>3
<1>6. ASSUME m.type = "START"
      PROVE  p.gen = 0 /\ s = NoShown /\ ~StartIn(z)
  <2>1. p.gen = 0 /\ s = NoShown
    BY <1>1, <1>6 DEF LateQueue, StartIn
  <2>2. ASSUME NEW i \in DOMAIN z, z[i].type = "START" PROVE FALSE
    <3>1. i + 1 \in DOMAIN q /\ q[i + 1].type = "START" /\ i + 1 # 1
      BY <1>1, <2>2
    <3> QED BY <1>1, <1>6, <3>1 DEF LateQueue
  <2> QED BY <2>1, <2>2 DEF StartIn
<1>7. \A i, j \in DOMAIN z : z[i].type = "START" /\ z[j].type = "START" => i = j
  <2> SUFFICES ASSUME NEW i \in DOMAIN z, NEW j \in DOMAIN z,
                      z[i].type = "START", z[j].type = "START"
               PROVE  i = j
    OBVIOUS
  <2>1. /\ i + 1 \in DOMAIN q /\ j + 1 \in DOMAIN q /\ i \in Nat /\ j \in Nat
        /\ q[i + 1].type = "START" /\ q[j + 1].type = "START"
    BY <1>1
  <2>2. i + 1 = j + 1
    BY <2>1 DEF LateQueue
  <2> QED BY <2>1, <2>2
<1>8. NoReplay(z) /\ Committed(z, lg)
  BY <1>1 DEF LateQueue, NoReplay, Committed
<1>9. /\ m.type \notin {"REPLAY", "ROSTER"}
      /\ m.type = "BOARD" => InLog(lg, m.gen, m.rev, m.eaten)
      /\ m.type = "PLAY" => MayPlay(p)
  BY <1>1 DEF LateQueue, NoReplay, Committed, Plays
<1>10. ASSUME NEW d, NEW t, m.type = "START" => MayPlay(d),
              StartIn(z) => d.gen = 0 /\ t = NoShown
       PROVE  LateQueue(z, d, t, lg)
  <2>1. Plays(z, d)
    BY <1>3, <1>10 DEF Plays
  <2> QED BY <1>7, <1>8, <1>10, <2>1 DEF LateQueue
<1> QED BY <1>2, <1>4, <1>5, <1>6, <1>9, <1>10 DEF m, z

\* Fields that a board, READY or INIT leaves.
LEMMA LateSoft ==
  ASSUME NEW p \in Pages, NEW d \in Pages, NEW s, NEW lg, LatePage(p, s, lg),
         Same(p, d), d.stage = None, d.state = p.state \/ p.seated \/ p.active,
         d.srev >= p.srev
  PROVE  LatePage(d, s, lg)
<1>1. p.srev \in Nat /\ d.srev \in Nat
  BY DEF Pages
<1>2. s # NoShown => s.rev \in Nat
  BY DEF LatePage, ShownBoards
<1> QED BY <1>1, <1>2 DEF LatePage, Same

\* Without a stage, what the other messages do to the page.
LEMMA BoardSoft ==
  ASSUME NEW p \in Pages, NEW m \in BoardsDown, p.stage = None
  PROVE  LET d == OnBoard(p, m)
         IN /\ Same(p, d) /\ d.stage = None /\ d.state = p.state /\ d.srev >= p.srev
            /\ AppliesBoard(p, m) => /\ d.srev = m.rev /\ m.rev > p.srev
                                     /\ p.gen # 0 /\ p.state # "Lobby"
<1> DEFINE d == OnBoard(p, m)
<1>0. p.srev \in Nat /\ m.rev \in Nat
  BY DEF Pages, BoardsDown
<1>1. CASE AppliesBoard(p, m)
  <2>1. Same(p, d) /\ d.stage = None /\ d.state = p.state /\ d.srev = m.rev
    BY <1>1 DEF OnBoard, Pages, Same
  <2>2. m.rev > p.srev /\ p.gen # 0 /\ p.state # "Lobby"
    BY <1>1 DEF AppliesBoard, AcceptsRev, AcceptGeneration, CanApplyBoard, InMatch
  <2> HIDE DEF d
  <2>3. d.srev >= p.srev
    BY <1>0, <2>1, <2>2
  <2> QED BY <2>1, <2>2, <2>3 DEF d
<1>2. CASE ~AppliesBoard(p, m)
  <2>1. Same(p, d) /\ d.stage = None /\ d.state = p.state /\ d.srev = p.srev
    BY <1>2 DEF OnBoard, Pages, Same
  <2> HIDE DEF d
  <2>2. d.srev >= p.srev
    BY <1>0, <2>1
  <2> QED BY <1>2, <2>1, <2>2 DEF d
<1> QED BY <1>1, <1>2

LEMMA ReadySoft ==
  ASSUME NEW p \in Pages, NEW m \in Readies, p.stage = None
  PROVE  LET d == OnBoardReady(p, m)
         IN /\ Same(p, d) /\ d.stage = None /\ (d.state = p.state \/ p.seated)
            /\ d.srev >= p.srev
<1> DEFINE d == OnBoardReady(p, m)
           e == [p EXCEPT !.rev = m.rev, !.ready = TRUE]
           x == MarkBoardReady(e, m.rev)
<1>0. p.srev \in Nat /\ m.rev \in Nat
  BY DEF Pages, Readies
<1>1. e \in Pages /\ Same(p, e) /\ e.state = p.state /\ e.stage = None /\ e.srev = p.srev
  BY <1>0 DEF Pages, Same
<1>2. x.stage = e.stage /\ Same(e, x) /\ (x.state = e.state \/ e.seated) /\ x.srev >= e.srev
  <2> HIDE DEF e
  <2> QED BY <1>0, <1>1, HelpersKeep, HelpersSame, MarkReadyMoves
<1>3. d = p \/ d = x
  BY DEF OnBoardReady
<1> HIDE DEF d, e, x
<1>4. /\ Same(p, d) /\ d.stage = None /\ (d.state = p.state \/ p.seated)
      /\ d.srev >= p.srev
  BY <1>0, <1>1, <1>2, <1>3 DEF Same
<1> QED BY <1>4 DEF d

LEMMA InitSoft ==
  ASSUME NEW p \in Pages, NEW me, NEW m \in Inits, p.stage = None
  PROVE  LET d == OnBoardInit(p, me, m).page
         IN Same(p, d) /\ d.stage = None /\ d.state = p.state /\ d.srev >= p.srev
<1> DEFINE d == OnBoardInit(p, me, m).page
           e == [p EXCEPT !.owner = m.owner, !.initReq = TRUE]
           f == [e EXCEPT !.initReq = FALSE]
<1>0. p.srev \in Nat
  BY DEF Pages
<1>1. e \in Pages /\ Same(p, e) /\ e.state = p.state /\ e.stage = None /\ e.srev = p.srev
  BY DEF Pages, Inits, Same
<1>2. Same(e, f) /\ f.state = e.state /\ f.stage = e.stage /\ f.srev = e.srev
  <2> HIDE DEF e
  <2> QED BY <1>1 DEF Pages, Same
<1>3. d = p \/ d = e \/ d = f
  BY DEF OnBoardInit, PublishInitial, Quiet
<1> HIDE DEF d, e, f
<1>4. Same(p, d) /\ d.stage = None /\ d.state = p.state /\ d.srev >= p.srev
  BY <1>0, <1>1, <1>2, <1>3 DEF Same
<1> QED BY <1>4 DEF d

LEMMA StartSoft ==
  ASSUME NEW p \in Pages, NEW m \in Starts, NEW lg, LatePage(p, NoShown, lg), p.gen = 0
  PROVE  LatePage(OnStart(p, m), NoShown, lg) /\ MayPlay(OnStart(p, m))
<1> DEFINE e == [p EXCEPT !.gen = m.gen, !.rev = 0, !.ready = FALSE,
                   !.owner = m.owner, !.stage = None, !.relay = TRUE,
                   !.over = FALSE, !.initReq = FALSE, !.spawn = FALSE,
                   !.eaten = {}]
           d == BindGeneration(e, m.gen, FALSE)
<1>1. m.gen \in 0 .. MaxGen /\ m.gen # 0 /\ ~(m.gen < 0) /\ m.owner \in Clients
  BY Bounds DEF Starts, Gens
<1>2. /\ e \in Pages /\ e.gen = m.gen /\ e.active = p.active /\ e.play = p.play
      /\ e.stage = None /\ e.seated = p.seated /\ e.state = p.state
  BY <1>1, NoStage DEF Pages
<1>3. OnStart(p, m) = d
  BY <1>1, Zenon DEF OnStart
<1> HIDE DEF e
<1>4. /\ d.gen = m.gen /\ d.active = p.active /\ d.play = p.play /\ d.stage = None
      /\ d.seated \in {p.seated, FALSE} /\ d.state \in {p.state, "Seating"}
  BY <1>2 DEF BindGeneration, Pages
<1> HIDE DEF d
<1>5. ~p.active /\ ~p.play /\ ~p.seated /\ p.state # "Live"
  BY DEF LatePage
<1>6. LatePage(d, NoShown, lg) /\ MayPlay(d)
  BY <1>1, <1>4, <1>5 DEF LatePage, MayPlay
<1> QED BY <1>3, <1>6

LEMMA EndSoft ==
  ASSUME NEW p \in Pages, NEW s, NEW lg, LatePage(p, s, lg)
  PROVE  LatePage(OnEnd(p), s, lg) /\ (p.gen = 0 => OnEnd(p).gen = 0)
<1> DEFINE d == OnEnd(p)
<1>1. CASE p.over
  <2>1. d = p
    BY <1>1 DEF OnEnd
  <2> QED BY <2>1
<1>2. CASE ~p.over
  <2>1. /\ d.gen = 0 /\ ~d.active /\ ~d.play /\ d.stage = None /\ ~d.seated
        /\ d.state = "Lobby"
    BY <1>2 DEF OnEnd, EnterLobby, Pages
  <2> HIDE DEF d
  <2>2. LatePage(d, s, lg)
    BY <2>1 DEF LatePage
  <2> QED BY <2>1, <2>2 DEF d
<1> QED BY <1>1, <1>2

\* A page takes over only a board above the one it has shown.
LEMMA LateHandle ==
  ASSUME NEW p \in Pages, NEW me, NEW m \in Downs, NEW s, NEW lg, LatePage(p, s, lg),
         m.type \notin {"REPLAY", "ROSTER"},
         m.type = "BOARD" => InLog(lg, m.gen, m.rev, m.eaten),
         m.type = "PLAY" => MayPlay(p),
         m.type = "START" => p.gen = 0 /\ s = NoShown
  PROVE  LET d == Handle(p, me, m).page
             t == Taken(p, m)
         IN /\ LatePage(d, IF t = NoShown THEN s ELSE t, lg)
            /\ m.type = "START" => t = NoShown /\ MayPlay(d)
            /\ p.gen = 0 /\ m.type # "START" => d.gen = 0 /\ t = NoShown
            /\ t # NoShown => /\ t \in ShownBoards /\ InLog(lg, t.gen, t.rev, t.board)
                              /\ s # NoShown => s.rev < t.rev
<1> DEFINE d == Handle(p, me, m).page
           t == Taken(p, m)
           Good(x, y) ==
             /\ LatePage(x, IF y = NoShown THEN s ELSE y, lg)
             /\ m.type = "START" => y = NoShown /\ MayPlay(x)
             /\ p.gen = 0 /\ m.type # "START" => x.gen = 0 /\ y = NoShown
             /\ y # NoShown => /\ y \in ShownBoards /\ InLog(lg, y.gen, y.rev, y.board)
                               /\ s # NoShown => s.rev < y.rev
<1> SUFFICES Good(d, t)
  OBVIOUS
<1>0. d \in Pages /\ p.stage = None
  BY HandleTyped DEF LatePage
<1>1. m.type # "BOARD" => t = NoShown
  BY <1>0 DEF Taken
<1>2. ASSUME m.type \notin {"START", "PLAY", "END"}, t = NoShown, Same(p, d),
             d.stage = None, d.state = p.state \/ p.seated \/ p.active, d.srev >= p.srev
      PROVE  Good(d, t)
  <2>1. LatePage(d, s, lg)
    <3> HIDE DEF d
    <3> QED BY <1>0, <1>2, LateSoft
  <2> QED BY <1>2, <2>1 DEF Same
<1>3. CASE m.type = "START"
  <2>1. m \in Starts /\ d = OnStart(p, m)
    BY <1>3, HandleCases, QuietPage
  <2>2. LatePage(OnStart(p, m), NoShown, lg) /\ MayPlay(OnStart(p, m))
    BY <1>3, <2>1, StartSoft
  <2> HIDE DEF d, t
  <2> QED BY <1>1, <1>3, <2>1, <2>2
<1>4. CASE m.type = "END"
  <2>1. d = OnEnd(p)
    BY <1>4, HandleCases, QuietPage
  <2>2. LatePage(OnEnd(p), s, lg) /\ (p.gen = 0 => OnEnd(p).gen = 0)
    BY EndSoft
  <2> HIDE DEF d, t
  <2> QED BY <1>1, <1>4, <2>1, <2>2
<1>5. CASE m.type = "PLAY"
  <2>1. d = OnPlaySync(p)
    BY <1>5, HandleCases, QuietPage
  <2>2. LatePage(OnPlaySync(p), s, lg) /\ p.gen # 0
    BY <1>5 DEF OnPlaySync, Pages, LatePage, MayPlay
  <2> HIDE DEF d, t
  <2> QED BY <1>1, <1>5, <2>1, <2>2
<1>6. CASE m.type = "INIT"
  <2>1. m \in Inits /\ d = OnBoardInit(p, me, m).page
    BY <1>6, HandleCases
  <2>2. LET x == OnBoardInit(p, me, m).page
        IN Same(p, x) /\ x.stage = None /\ x.state = p.state /\ x.srev >= p.srev
    BY <1>0, <2>1, InitSoft
  <2> HIDE DEF d, t, Good
  <2> QED BY <1>1, <1>2, <1>6, <2>1, <2>2
<1>7. CASE m.type = "READY"
  <2>1. m \in Readies /\ d = OnBoardReady(p, m)
    BY <1>7, HandleCases, QuietPage
  <2>2. LET x == OnBoardReady(p, m)
        IN /\ Same(p, x) /\ x.stage = None /\ (x.state = p.state \/ p.seated)
           /\ x.srev >= p.srev
    BY <1>0, <2>1, ReadySoft
  <2> HIDE DEF d, t, Good
  <2> QED BY <1>1, <1>2, <1>7, <2>1, <2>2
<1>8. CASE m.type = "BOARD"
  <2>1. m \in BoardsDown /\ d = OnBoard(p, m)
    BY <1>8, HandleCases, QuietPage
  <2>2. /\ Same(p, d) /\ d.stage = None /\ d.state = p.state /\ d.srev >= p.srev
        /\ AppliesBoard(p, m) => /\ d.srev = m.rev /\ m.rev > p.srev
                                 /\ p.gen # 0 /\ p.state # "Lobby"
    <3>1. LET x == OnBoard(p, m)
          IN /\ Same(p, x) /\ x.stage = None /\ x.state = p.state /\ x.srev >= p.srev
             /\ AppliesBoard(p, m) => /\ x.srev = m.rev /\ m.rev > p.srev
                                      /\ p.gen # 0 /\ p.state # "Lobby"
      BY <1>0, <2>1, BoardSoft
    <3> HIDE DEF d
    <3> QED BY <2>1, <3>1
  <2>3. CASE ~AppliesBoard(p, m)
    <3>1. t = NoShown
      BY <1>0, <2>3 DEF Taken
    <3> HIDE DEF d, t, Good
    <3> QED BY <1>2, <1>8, <2>2, <3>1
  <2>4. CASE AppliesBoard(p, m)
    <3> DEFINE y == [gen |-> m.gen, rev |-> m.rev, board |-> m.eaten]
    <3>1. t = y
      BY <1>8, <2>4 DEF Taken
    <3>2. y \in ShownBoards /\ InLog(lg, y.gen, y.rev, y.board) /\ y.rev = m.rev
      BY <1>8, <2>1, Bounds DEF ShownBoards, BoardsDown, Gens
    <3> HIDE DEF d, t, y
    <3>3. s # NoShown => s.rev < y.rev
      <4>1. s # NoShown => s.rev <= p.srev /\ s.rev \in Nat
        BY <2>2, <2>4 DEF LatePage, ShownBoards
      <4>2. p.srev \in Nat /\ y.rev \in Nat
        BY <3>2 DEF Pages, ShownBoards
      <4> QED BY <2>2, <2>4, <3>2, <4>1, <4>2
    <3>4. LatePage(d, y, lg)
      <4>1. y.rev <= d.srev
        BY <2>2, <2>4, <3>2 DEF ShownBoards
      <4> QED BY <2>2, <2>4, <3>2, <4>1 DEF LatePage, Same
    <3>5. t # NoShown => LatePage(d, t, lg)
      BY <3>1, <3>4
    <3>6. t = NoShown => LatePage(d, s, lg)
      <4>1. LatePage(d, s, lg)
        BY <1>0, <2>2, LateSoft
      <4> QED BY <4>1
    <3> QED BY <1>8, <2>2, <2>4, <3>1, <3>2, <3>3, <3>5, <3>6
  <2> QED BY <2>3, <2>4
<1> HIDE DEF Good
<1> QED BY <1>3, <1>4, <1>5, <1>6, <1>7, <1>8, HandleCases

\* Without resyncs pages send seats and boards.
LEMMA OutPlayed ==
  ASSUME NEW p \in Pages, NEW me
  PROVE  /\ \A m \in Downs : Handle(p, me, m).out \in Seq(Played)
         /\ Seat(p, me).out \in Seq(Played)
         /\ p.pub > 0 => PublishEaten(p, me).out \in Seq(Played)
<1>1. ASSUME NEW d PROVE Quiet(d).out \in Seq(Played)
  BY DEF Quiet
<1>2. ASSUME NEW d \in Pages PROVE PublishInitial(d, me).out \in Seq(Played)
  <2>1. [type |-> "BOARD", gen |-> d.gen, base |-> 0, initial |-> TRUE,
         eaten |-> d.eaten] \in Played
    BY DEF Pages, Played, BoardsUp
  <2> QED BY <2>1 DEF PublishInitial, Quiet
<1>3. ASSUME NEW d \in Pages PROVE Publish(d, me).out \in Seq(Played)
  <2>1. [type |-> "BOARD", gen |-> d.gen, base |-> d.srev, initial |-> FALSE,
         eaten |-> d.eaten] \in Played
    BY DEF Pages, Played, BoardsUp
  <2> QED BY <1>1, <1>2, <2>1 DEF Publish
<1>4. ASSUME NEW m \in Downs PROVE Handle(p, me, m).out \in Seq(Played)
  <2>1. CASE m.type = "INIT"
    <3> DEFINE e == [p EXCEPT !.owner = m.owner, !.initReq = TRUE]
    <3>1. m \in Inits /\ Handle(p, me, m) = OnBoardInit(p, me, m)
      BY <2>1, HandleCases
    <3>2. e \in Pages
      BY <3>1 DEF Pages, Inits
    <3>3. Handle(p, me, m) = PublishInitial(e, me) \/ Handle(p, me, m) = Quiet(p)
      BY <3>1 DEF OnBoardInit
    <3> HIDE DEF e
    <3> QED BY <1>1, <1>2, <3>2, <3>3
  <2>2. CASE m.type # "INIT"
    <3>1. \E d : Handle(p, me, m) = Quiet(d)
      BY <2>2, HandleCases
    <3> QED BY <1>1, <3>1
  <2> QED BY <2>1, <2>2
<1>5. Seat(p, me).out \in Seq(Played)
  <2> DEFINE e == [p EXCEPT !.spawn = TRUE]
             z == MarkSeated(e)
             pose == IF p.relay THEN <<[type |-> "SEAT", gen |-> p.gen]>> ELSE <<>>
  <2>1. e \in Pages
    BY DEF Pages
  <2>2. z \in Pages
    <3> HIDE DEF e
    <3> QED BY <2>1, MarkSeatedTyped
  <2>3. Publish(z, me).out \in Seq(Played)
    <3> HIDE DEF z
    <3> QED BY <1>3, <2>2
  <2>4. pose \in Seq(Played)
    <3>1. [type |-> "SEAT", gen |-> p.gen] \in Played
      BY DEF Pages, Played, Seats
    <3> QED BY <3>1
  <2>5. Seat(p, me).out = pose \o Publish(z, me).out
    BY DEF Seat, Publish, PublishInitial, Quiet
  <2> HIDE DEF pose, z
  <2> QED BY <2>3, <2>4, <2>5, ConcatProperties
<1>6. ASSUME p.pub > 0 PROVE PublishEaten(p, me).out \in Seq(Played)
  <2> DEFINE e == [p EXCEPT !.pub = @ - 1]
  <2>1. e \in Pages
    BY <1>6 DEF Pages
  <2> HIDE DEF e
  <2> QED BY <1>3, <2>1 DEF PublishEaten, e
<1> QED BY <1>4, <1>5, <1>6

\* What is left when batch i is sent: the others, once each.
LEMMA RemoveIndex ==
  ASSUME NEW S, NEW s \in Seq(S), NEW i \in 1 .. Len(s)
  PROVE  \A k \in DOMAIN RemoveAt(s, i) :
           LET j == IF k < i THEN k ELSE k + 1
           IN k \in Nat /\ j \in DOMAIN s /\ j # i /\ RemoveAt(s, i)[k] = s[j]
<1>1. i \in Nat /\ Len(s) \in Nat /\ DOMAIN s = 1 .. Len(s)
      /\ \A k \in 1 .. Len(s) : s[k] \in S
  BY LenProperties
<1> DEFINE a == SubSeq(s, 1, i - 1)
           b == SubSeq(s, i + 1, Len(s))
<1>2. /\ a \in Seq(S) /\ Len(a) = i - 1
      /\ \A k \in 1 .. i - 1 : a[k] = s[k]
  <2>1. \A k \in 1 .. i - 1 : s[k] \in S
    BY <1>1
  <2>2. /\ a \in Seq(S)
        /\ Len(a) = IF 1 <= i - 1 THEN i - 1 - 1 + 1 ELSE 0
        /\ \A k \in 1 .. i - 1 - 1 + 1 : a[k] = s[1 + k - 1]
    BY <1>1, <2>1, SubSeqProperties
  <2> HIDE DEF a
  <2> QED BY <1>1, <2>2
<1>3. /\ b \in Seq(S) /\ Len(b) = Len(s) - i
      /\ \A k \in 1 .. Len(s) - i : b[k] = s[i + k]
  <2>1. \A k \in i + 1 .. Len(s) : s[k] \in S
    BY <1>1
  <2>2. /\ b \in Seq(S)
        /\ Len(b) = IF i + 1 <= Len(s) THEN Len(s) - (i + 1) + 1 ELSE 0
        /\ \A k \in 1 .. Len(s) - (i + 1) + 1 : b[k] = s[i + 1 + k - 1]
    BY <1>1, <2>1, SubSeqProperties
  <2> HIDE DEF b
  <2>3. /\ i <= Len(s) /\ Len(s) - (i + 1) + 1 = Len(s) - i
        /\ \A k \in 1 .. Len(s) - i : i + 1 + k - 1 = i + k
    BY <1>1
  <2>4. Len(b) = Len(s) - i
    <3>1. Len(b) = IF i + 1 <= Len(s) THEN Len(s) - (i + 1) + 1 ELSE 0
      BY <2>2
    <3>2. i \in Nat /\ Len(s) \in Nat /\ i <= Len(s)
      BY <1>1
    <3> QED BY <3>1, <3>2
  <2>5. \A k \in 1 .. Len(s) - i : b[k] = s[i + k]
    BY <2>2, <2>3
  <2> QED BY <2>2, <2>4, <2>5
<1>4. RemoveAt(s, i) = a \o b
  BY DEF RemoveAt
<1> HIDE DEF a, b
<1>5. /\ a \o b \in Seq(S) /\ Len(a \o b) = Len(a) + Len(b)
      /\ \A k \in 1 .. Len(a) + Len(b) : (a \o b)[k] = IF k <= Len(a) THEN a[k] ELSE b[k - Len(a)]
  BY <1>2, <1>3, ConcatProperties
<1>6. DOMAIN (a \o b) = 1 .. Len(s) - 1
  <2>1. Len(a) + Len(b) = Len(s) - 1
    BY <1>1, <1>2, <1>3
  <2> QED BY <1>5, <2>1, LenProperties
<1> DEFINE z == a \o b
<1>7. ASSUME NEW k \in 1 .. Len(s) - 1
      PROVE  LET j == IF k < i THEN k ELSE k + 1
             IN k \in Nat /\ j \in DOMAIN s /\ j # i /\ z[k] = s[j]
  <2>1. z[k] = IF k <= i - 1 THEN a[k] ELSE b[k - (i - 1)]
    BY <1>1, <1>2, <1>3, <1>5
  <2> HIDE DEF z
  <2>2. CASE k < i
    BY <1>1, <1>2, <2>1, <2>2
  <2>3. CASE ~(k < i)
    <3>1. /\ k - (i - 1) \in 1 .. Len(s) - i /\ i + (k - (i - 1)) = k + 1
          /\ ~(k <= i - 1)
      BY <1>1, <2>3
    <3>2. z[k] = s[k + 1]
      BY <1>3, <2>1, <3>1
    <3> QED BY <1>1, <2>3, <3>2
  <2> QED BY <2>2, <2>3
<1> QED BY <1>4, <1>6, <1>7

\* What the server puts in the outbox.
LEMMA LateEmit ==
  ASSUME Overtaking, TypeInv, LateInv, NEW to \in SUBSET Clients, NEW b, Emit(to, b),
         LateBatch(b, log'), UNCHANGED <<page, shown>>,
         \A g, r, x : InLog(log, g, r, x) => InLog(log', g, r, x),
         \A c \in Clients : up'[c] \in Seq(Played),
         srv'.gen = 0 => srv.gen = 0,
         StartIn(b) => srv.gen = 0 /\ srv'.gen # 0
  PROVE  LateInv'
<1> DEFINE e == [to |-> to, msgs |-> b]
<1>1. /\ flight' = Append(flight, e) /\ down' = down /\ flight \in Seq(Batches)
      /\ e.msgs = b /\ e \in Batches
  BY DEF Emit, TypeInv, NetTyped, LateBatch, Batches
<1> HIDE DEF e
<1>2. /\ DOMAIN flight = 1 .. Len(flight) /\ Len(flight) \in Nat
      /\ DOMAIN flight' = 1 .. Len(flight) + 1 /\ flight'[Len(flight) + 1] = e
      /\ \A k \in 1 .. Len(flight) : flight'[k] = flight[k]
  BY <1>1, AppendProperties, LenProperties
<1>3. \A k \in DOMAIN flight' :
        \/ k \in DOMAIN flight /\ flight'[k] = flight[k]
        \/ k = Len(flight) + 1 /\ flight'[k].msgs = b
  BY <1>1, <1>2
<1>4. LateFlight(flight, log') /\ (Starting(flight) => ~StartIn(b))
  BY LateGrows DEF LateInv
<1>5. LateFlight(flight', log')
  <2>1. \A k \in DOMAIN flight' : LateBatch(flight'[k].msgs, log')
    BY <1>3, <1>4 DEF LateFlight
  <2>2. \A j, k \in DOMAIN flight' :
          StartIn(flight'[j].msgs) /\ StartIn(flight'[k].msgs) => j = k
    BY <1>3, <1>4 DEF LateFlight, Starting
  <2> QED BY <2>1, <2>2 DEF LateFlight
<1>6. Starting(flight') => Starting(flight) \/ StartIn(b)
  BY <1>3 DEF Starting
<1>7. ASSUME NEW c \in Clients PROVE LateClient(c)'
  <2>1. LatePage(page[c], shown[c], log) /\ LateQueue(down[c], page[c], shown[c], log)
    BY DEF LateInv, LateClient
  <2>2. LatePage(page[c], shown[c], log') /\ LateQueue(down[c], page[c], shown[c], log')
    BY <2>1, LateGrows
  <2> QED BY <1>1, <2>2 DEF LateClient
<1>8. DOMAIN shown' = Clients
  BY DEF LateInv
<1>9. Starting(flight') => srv'.gen # 0
  BY <1>6 DEF LateInv
<1>10. Starting(flight') \/ srv'.gen = 0 => \A c \in Clients : Untold(c)'
  BY <1>1, <1>6 DEF LateInv, Untold
<1> QED BY <1>5, <1>7, <1>8, <1>9, <1>10 DEF LateInv

\* Nothing is put in the outbox.
LEMMA LateQuiet ==
  ASSUME LateInv, UNCHANGED <<page, flight, down, shown, log>>, srv'.gen = srv.gen,
         \A c \in Clients : up'[c] \in Seq(Played)
  PROVE  LateInv'
<1>1. ASSUME NEW c \in Clients PROVE LateClient(c)' /\ (Untold(c) => Untold(c)')
  BY DEF LateInv, LateClient, Untold
<1> QED BY <1>1 DEF LateInv

LEMMA LateSend ==
  ASSUME TypeInv, LateInv, SendBatch
  PROVE  LateInv'
<1>1. PICK i \in DOMAIN flight :
        /\ down' = Delivered(flight[i].to \cap srv.here, flight[i].msgs)
        /\ flight' = RemoveAt(flight, i)
  BY DEF SendBatch
<1>2. i \in 1 .. Len(flight) /\ flight \in Seq(Batches) /\ UNCHANGED <<page, up, srv, shown, log>>
  BY LenProperties DEF SendBatch, TypeInv, NetTyped
<1> DEFINE b == flight[i].msgs
           From(k) == IF k < i THEN k ELSE k + 1
<1>3. \A k \in DOMAIN flight' :
        /\ k \in Nat /\ From(k) \in DOMAIN flight /\ From(k) # i
        /\ flight'[k] = flight[From(k)]
  BY <1>1, <1>2, RemoveIndex
<1>4. \A j, k \in DOMAIN flight' : From(j) = From(k) => j = k
  BY <1>2, <1>3, LenProperties
<1> HIDE DEF From
<1>5. LateFlight(flight', log)
  BY <1>3, <1>4 DEF LateInv, LateFlight
<1>6. Starting(flight') => Starting(flight) /\ ~StartIn(b)
  <2> SUFFICES ASSUME NEW k \in DOMAIN flight', StartIn(flight'[k].msgs)
               PROVE  Starting(flight) /\ ~StartIn(b)
    BY DEF Starting
  <2>1. StartIn(flight[From(k)].msgs) /\ From(k) \in DOMAIN flight /\ From(k) # i
    BY <1>3
  <2> QED BY <2>1 DEF LateInv, LateFlight, Starting
<1>7. StartIn(b) => srv.gen # 0 /\ \A c \in Clients : Untold(c)
  BY DEF LateInv, Starting
<1>8. LateBatch(b, log)
  BY DEF LateInv, LateFlight
<1> HIDE DEF b
<1>9. ASSUME NEW c \in Clients
      PROVE  LateClient(c)' /\ (~StartIn(b) /\ Untold(c) => Untold(c)')
  <2>1. /\ LatePage(page[c], shown[c], log) /\ LateQueue(down[c], page[c], shown[c], log)
        /\ up[c] \in Seq(Played) /\ down[c] \in Seq(Downs)
    BY DEF LateInv, LateClient, TypeInv, NetTyped
  <2>2. down'[c] = down[c] \o b \/ down'[c] = down[c]
    BY <1>1 DEF Delivered, b
  <2>3. /\ LateQueue(down[c] \o b, page[c], shown[c], log)
        /\ StartIn(down[c] \o b) => StartIn(down[c]) \/ StartIn(b)
    BY <1>7, <1>8, <2>1, LatePush DEF Untold
  <2> QED BY <1>2, <2>1, <2>2, <2>3 DEF LateClient, Untold
<1> QED BY <1>2, <1>5, <1>6, <1>7, <1>9 DEF LateInv

LEMMA LateStart ==
  ASSUME Overtaking, MaxGen <= 1, TypeInv, LateInv, StartMatch
  PROVE  LateInv' /\ Abstract!Open
<1>1. PICK o \in srv.here :
        /\ srv' = [srv EXCEPT !.gen = @ + 1, !.on = TRUE, !.owner = o,
                              !.ready = FALSE, !.slots = srv.here, !.seated = {}]
        /\ Emit(srv.here, StartBatch(o))
  BY DEF StartMatch, StartBatch
<1>2. /\ srv.here \in SUBSET Clients /\ o \in Clients /\ srv \in Servers /\ ServerTyped
      /\ srv.gen = 0 /\ srv.gen < MaxGen /\ srv'.gen = 1
      /\ UNCHANGED <<page, up, shown>>
  BY <1>1, Bounds DEF TypeInv, ServerTyped, Servers, StartMatch
<1>3. LogGrows /\ Abstract!Open
  BY <1>2, StartLogged
<1>4. LateBatch(StartBatch(o), log')
  <2> DEFINE b == StartBatch(o)
  <2>1. /\ DOMAIN b = 1 .. 3 /\ b[1].type = "START" /\ b[2].type = "PLAY"
        /\ b[3].type = "INIT"
    BY DEF StartBatch
  <2>2. b \in Seq(Downs)
    BY <1>2, StartBatchTyped
  <2> HIDE DEF b
  <2>3. NoReplay(b) /\ Committed(b, log')
    BY <2>1 DEF NoReplay, Committed
  <2> QED BY <2>1, <2>2, <2>3 DEF LateBatch, b
<1>5. \A c \in Clients : up'[c] \in Seq(Played)
  BY <1>2 DEF LateInv, LateClient
<1> QED BY <1>1, <1>2, <1>3, <1>4, <1>5, LateEmit DEF LogGrows

LEMMA LateEnd ==
  ASSUME Overtaking, TypeInv, LateInv, EndMatch \/ \E c \in Clients : Leave(c)
  PROVE  LateInv' /\ UNCHANGED <<log, shown>>
<1>0. UNCHANGED <<page, log, shown>>
  BY DEF EndMatch, Leave
<1>1. /\ ServerTyped /\ srv \in Servers /\ srv.here \in SUBSET Clients
      /\ srv.on => srv.gen \in Gens
      /\ srv.slots \in SUBSET Clients
  BY DEF TypeInv, ServerTyped, Servers
<1>2. ASSUME NEW h \in SUBSET Clients, NEW x
      PROVE  LET s == [srv EXCEPT !.here = h]
             IN  s.gen = srv.gen /\ NoMatch(s).gen = srv.gen
                 /\ [s EXCEPT !.owner = x].gen = srv.gen /\ NoMatch(srv).gen = srv.gen
  BY <1>1 DEF Servers, NoMatch
<1>3. ASSUME srv'.gen = srv.gen, NEW to \in SUBSET Clients, NEW m \in Downs,
             m.type \in {"END", "INIT"}, Emit(to, <<m>>),
             \A c \in Clients : up'[c] \in Seq(Played)
      PROVE  LateInv'
  <2>1. LateBatch(<<m>>, log') /\ ~StartIn(<<m>>)
    BY <1>3 DEF LateBatch, NoReplay, Committed, StartIn
  <2> QED BY <1>0, <1>3, <2>1, LateEmit
<1>4. [type |-> "END"] \in Downs
  BY DEF Downs, Plain
<1>5. \A c \in Clients : up[c] \in Seq(Played)
  BY DEF LateInv, LateClient
<1>6. CASE EndMatch
  BY <1>1, <1>2, <1>3, <1>4, <1>5, <1>6 DEF EndMatch
<1>7. ASSUME NEW c \in Clients, Leave(c) PROVE LateInv'
  <2> DEFINE rest == srv.here \ {c}
             s == [srv EXCEPT !.here = rest]
  <2>0. rest \in SUBSET Clients
    BY <1>1
  <2>1. \A x \in Clients : up'[x] \in Seq(Played)
    <3>1. \A x \in Clients : up'[x] = up[x] \/ up'[x] = <<>>
      BY <1>7 DEF Leave, TypeInv, PagesTyped
    <3>2. <<>> \in Seq(Played)
      OBVIOUS
    <3> QED BY <1>5, <3>1, <3>2
  <2>2. CASE srv' = s /\ UNCHANGED <<flight, down>>
    <3>1. srv'.gen = srv.gen
      BY <1>2, <2>0, <2>2
    <3> QED BY <1>0, <2>1, <2>2, <3>1, LateQuiet
  <2>3. CASE srv' = NoMatch(s) /\ Emit(rest, <<[type |-> "END"]>>)
    <3>1. srv'.gen = srv.gen
      BY <1>1, <2>3 DEF Servers, NoMatch
    <3> QED BY <1>3, <1>4, <2>0, <2>1, <2>3, <3>1
  <2>4. ASSUME NEW o \in rest \cap srv.slots, srv.on, srv' = [s EXCEPT !.owner = o],
               Emit(rest, <<[type |-> "INIT", gen |-> srv.gen, owner |-> o]>>)
        PROVE  LateInv'
    <3> DEFINE msg == [type |-> "INIT", gen |-> srv.gen, owner |-> o]
    <3>1. msg \in Downs /\ msg.type = "INIT" /\ Emit(rest, <<msg>>)
      BY <1>1, <2>0, <2>4 DEF Downs, Inits
    <3>2. srv'.gen = srv.gen
      BY <1>2, <2>0, <2>4
    <3> HIDE DEF msg, rest
    <3> QED BY <1>3, <2>0, <2>1, <3>1, <3>2
  <2> QED BY <1>7, <2>2, <2>3, <2>4 DEF Leave
<1> QED BY <1>0, <1>6, <1>7

LEMMA LateReceive ==
  ASSUME Overtaking, TypeInv, LateInv, NEW c \in Clients, Receive(c)
  PROVE  LateInv' /\ (UNCHANGED <<log, shown>> \/ \E b \in SUBSET Fruits : Abstract!Commit(b))
<1> DEFINE m == Head(up[c])
<1>0. up[c] \in Seq(Played) /\ up[c] # <<>> /\ up' = [up EXCEPT ![c] = Tail(@)]
      /\ up \in [Clients -> Seq(Ups)]
  BY DEF LateInv, LateClient, Receive, TypeInv, PagesTyped
<1>1. m \in Played /\ Tail(up[c]) \in Seq(Played)
  BY <1>0, HeadTyped
<1>2. \A x \in Clients : up'[x] \in Seq(Played)
  <2>1. \A x \in Clients : up'[x] = up[x] \/ (x = c /\ up'[x] = Tail(up[c]))
    BY <1>0
  <2> QED BY <1>1, <2>1 DEF LateInv, LateClient
<1>3. ServerTyped /\ page' = page /\ shown' = shown
      /\ srv \in Servers /\ srv.here \in SUBSET Clients
  BY DEF TypeInv, ServerTyped, Servers, Receive
<1>4. TakeSeat(c, m) \/ (m \in BoardsUp /\ TakeBoard(c, m))
  <2>1. m.type # "RESYNC" /\ (m.type = "BOARD" => m \in BoardsUp)
    BY <1>1 DEF Played, Seats, BoardsUp
  <2> QED BY <2>1 DEF Receive
<1> HIDE DEF m
<1>5. CASE TakeSeat(c, m) \/ (m \in BoardsUp /\ TakeBoard(c, m) /\ ~Accepts(c, m))
  <2>1. UNCHANGED <<flight, down, log>> /\ srv'.gen = srv.gen
    BY <1>3, <1>5 DEF TakeSeat, TakeBoard, Servers
  <2> QED BY <1>2, <1>3, <2>1, LateQuiet
<1>6. CASE m \in BoardsUp /\ TakeBoard(c, m) /\ Accepts(c, m)
  <2>1. /\ LogGrows /\ srv'.gen = srv.gen /\ InLog(log', srv.gen, BoardRev + 1, m.eaten)
        /\ Abstract!Commit(m.eaten)
    BY <1>3, <1>6, BoardLogged
  <2>2. Emit(srv.here, BoardBatch(m)) /\ srv.on
    BY <1>3, <1>6, BoardTaken
  <2>3. LateBatch(BoardBatch(m), log') /\ ~StartIn(BoardBatch(m))
    <3> DEFINE board == [type |-> "BOARD", gen |-> srv.gen, rev |-> BoardRev + 1,
                         eaten |-> m.eaten]
               ready == [type |-> "READY", gen |-> srv.gen, rev |-> BoardRev + 1]
               b == BoardBatch(m)
    <3>1. b \in Seq(Downs)
      BY <1>3, <1>6, <2>2, BoardBatchTyped
    <3>2. /\ b[1] = board
          /\ \/ DOMAIN b = {1}
             \/ DOMAIN b = {1, 2} /\ b[2] = ready
      BY DEF BoardBatch
    <3> HIDE DEF b
    <3>3. Committed(b, log')
      BY <2>1, <3>2 DEF Committed
    <3>4. \A i \in DOMAIN b : b[i].type \in {"BOARD", "READY"}
      BY <3>2
    <3> QED BY <3>1, <3>3, <3>4 DEF LateBatch, NoReplay, StartIn, b
  <2>4. LateInv'
    BY <1>2, <1>3, <2>1, <2>2, <2>3, LateEmit DEF LogGrows
  <2>5. m.eaten \in SUBSET Fruits
    BY <1>6 DEF BoardsUp
  <2> QED BY <2>1, <2>4, <2>5
<1> QED BY <1>4, <1>5, <1>6

LEMMA LateDeliver ==
  ASSUME MaxGen <= 1, TypeInv, LateInv, NEW c \in Clients, Deliver(c)
  PROVE  LateInv' /\ (UNCHANGED <<log, shown>> \/ Abstract!Show(c))
<1> DEFINE q == down[c]
           p == page[c]
           s == shown[c]
           m == Head(q)
           d == Handle(p, c, m).page
           t == Taken(p, m)
           s2 == IF t = NoShown THEN s ELSE t
<1>1. /\ q \in Seq(Downs) /\ q # <<>> /\ p \in Pages
      /\ down \in [Clients -> Seq(Downs)] /\ page \in [Clients -> Pages]
      /\ up \in [Clients -> Seq(Ups)] /\ DOMAIN shown = Clients
  BY DEF Deliver, TypeInv, NetTyped, PagesTyped, LateInv
<1>2. /\ page' = [page EXCEPT ![c] = d] /\ down' = [down EXCEPT ![c] = Tail(q)]
      /\ up' = [up EXCEPT ![c] = @ \o Handle(p, c, m).out]
      /\ shown' = IF t = NoShown THEN shown ELSE [shown EXCEPT ![c] = t]
      /\ UNCHANGED <<srv, flight, log>>
  BY DEF Deliver, Sends
<1>3. LatePage(p, s, log) /\ LateQueue(q, p, s, log) /\ up[c] \in Seq(Played)
  BY DEF LateInv, LateClient
<1>4. /\ m \in Downs /\ m.type \notin {"REPLAY", "ROSTER"}
      /\ m.type = "BOARD" => InLog(log, m.gen, m.rev, m.eaten)
      /\ m.type = "PLAY" => MayPlay(p)
      /\ m.type = "START" => p.gen = 0 /\ s = NoShown /\ ~StartIn(Tail(q))
      /\ StartIn(Tail(q)) => StartIn(q)
      /\ StartIn(q) => StartIn(Tail(q)) \/ m.type = "START"
      /\ \A x, y : /\ m.type = "START" => MayPlay(x)
                   /\ StartIn(Tail(q)) => x.gen = 0 /\ y = NoShown
                   => LateQueue(Tail(q), x, y, log)
  <2> HIDE DEF q, p, s
  <2> QED BY <1>1, <1>3, LatePop DEF m
<1>5. StartIn(q) => p.gen = 0 /\ s = NoShown
  BY <1>3 DEF LateQueue
<1>6. m.type = "START" => StartIn(q)
  <2>1. 1 \in DOMAIN q /\ m = q[1]
    BY <1>1, TailIndex
  <2> QED BY <2>1 DEF StartIn
<1> HIDE DEF m
<1>7. /\ LatePage(d, s2, log)
      /\ m.type = "START" => t = NoShown /\ MayPlay(d)
      /\ p.gen = 0 /\ m.type # "START" => d.gen = 0 /\ t = NoShown
      /\ t # NoShown => /\ t \in ShownBoards /\ InLog(log, t.gen, t.rev, t.board)
                        /\ s # NoShown => s.rev < t.rev
  <2> HIDE DEF q, p, s
  <2> QED BY <1>1, <1>3, <1>4, LateHandle DEF d, t
<1>8. Handle(p, c, m).out \in Seq(Played)
  <2> HIDE DEF p
  <2> QED BY <1>1, <1>4, OutPlayed
<1> HIDE DEF d, t, s2
<1>9. LateQueue(Tail(q), d, s2, log)
  <2>1. StartIn(Tail(q)) => d.gen = 0 /\ s2 = NoShown
    BY <1>4, <1>5, <1>7 DEF s2
  <2> QED BY <1>4, <1>7, <2>1
<1>10. /\ page'[c] = d /\ down'[c] = Tail(q) /\ shown'[c] = s2 /\ DOMAIN shown' = Clients
       /\ up'[c] = up[c] \o Handle(p, c, m).out
       /\ \A x \in Clients : x # c => /\ page'[x] = page[x] /\ down'[x] = down[x]
                                      /\ shown'[x] = shown[x] /\ up'[x] = up[x]
  BY <1>1, <1>2 DEF s2
<1>11. ASSUME NEW x \in Clients PROVE LateClient(x)'
  <2>1. CASE x = c
    <3>1. up'[c] \in Seq(Played)
      BY <1>3, <1>8, <1>10, ConcatProperties
    <3> QED BY <1>2, <1>7, <1>9, <1>10, <2>1, <3>1 DEF LateClient
  <2>2. CASE x # c
    BY <1>2, <1>10, <2>2 DEF LateInv, LateClient
  <2> QED BY <2>1, <2>2
<1>12. ASSUME NEW x \in Clients, Untold(x) PROVE Untold(x)'
  <2>1. CASE x = c
    <3>1. p.gen = 0 /\ s = NoShown /\ ~StartIn(q)
      BY <1>12, <2>1 DEF Untold
    <3>2. d.gen = 0 /\ s2 = NoShown /\ ~StartIn(Tail(q))
      BY <1>4, <1>6, <1>7, <3>1 DEF s2
    <3> QED BY <1>10, <2>1, <3>2 DEF Untold
  <2>2. CASE x # c
    BY <1>10, <1>12, <2>2 DEF Untold
  <2> QED BY <2>1, <2>2
<1>13. LateInv'
  BY <1>2, <1>10, <1>11, <1>12 DEF LateInv
<1>14. UNCHANGED <<log, shown>> \/ Abstract!Show(c)
  <2>1. CASE t = NoShown
    BY <1>2, <2>1
  <2>2. CASE t # NoShown
    <3>1. \A g \in DOMAIN log : g = 1
      BY LogFacts, Bounds DEF TypeInv, ServerTyped, Servers
    <3>2. /\ t.gen \in DOMAIN log /\ t.rev \in DOMAIN log[t.gen] /\ t.gen = 1
          /\ t = [gen |-> t.gen, rev |-> t.rev, board |-> log[t.gen][t.rev].board]
      BY <1>7, <2>2, <3>1 DEF InLog, ShownBoards
    <3>3. t.gen > s.gen \/ (t.gen = s.gen /\ t.rev > s.rev)
      <4>1. CASE s = NoShown
        BY <3>2, <4>1 DEF NoShown
      <4>2. CASE s # NoShown
        <5>1. s.gen = 1 /\ s.rev < t.rev /\ s.rev \in Nat /\ t.rev \in Nat
          BY <1>3, <1>7, <2>2, <3>1, <4>2 DEF LatePage, InLog, ShownBoards
        <5> QED BY <3>2, <5>1
      <4> QED BY <4>1, <4>2
    <3> QED BY <1>2, <2>2, <3>2, <3>3 DEF Abstract!Show, Abstract!Later
  <2> QED BY <2>1, <2>2
<1> QED BY <1>13, <1>14

\* A page on its own counts on, and does not count anew.
LEMMA OwnCounts ==
  ASSUME NEW p \in Pages, NEW me
  PROVE  /\ Seat(p, me).page.srev >= p.srev
         /\ p.pub > 0 => PublishEaten(p, me).page.srev >= p.srev
         /\ \A f : Ate(p, f).srev = p.srev
<1>0. p.srev \in Nat
  BY DEF Pages
<1>1. ASSUME NEW d \in Pages, d.srev = p.srev PROVE Publish(d, me).page.srev >= p.srev
  <2>1. \/ Publish(d, me).page = d
        \/ Publish(d, me).page = [d EXCEPT !.initReq = FALSE]
        \/ Publish(d, me).page = [d EXCEPT !.srev = @ + 1]
    BY DEF Publish, PublishInitial, Quiet
  <2>2. [d EXCEPT !.initReq = FALSE].srev = d.srev /\ [d EXCEPT !.srev = @ + 1].srev = d.srev + 1
    BY DEF Pages
  <2>3. Publish(d, me).page.srev \in {p.srev, p.srev + 1}
    BY <1>1, <2>1, <2>2
  <2> QED BY <1>0, <2>3
<1>2. Seat(p, me).page.srev >= p.srev
  <2> DEFINE e == [p EXCEPT !.spawn = TRUE]
             z == MarkSeated(e)
  <2>1. e \in Pages /\ e.srev = p.srev
    BY DEF Pages
  <2>2. z \in Pages /\ z.srev = e.srev
    <3> HIDE DEF e
    <3>1. z.srev = e.srev
      BY <2>1 DEF MarkSeated, Pages
    <3> QED BY <2>1, <3>1, MarkSeatedTyped
  <2>3. Seat(p, me).page = Publish(z, me).page
    BY DEF Seat, Publish, PublishInitial, Quiet
  <2> HIDE DEF z, e
  <2> QED BY <1>1, <2>1, <2>2, <2>3
<1>3. ASSUME p.pub > 0 PROVE PublishEaten(p, me).page.srev >= p.srev
  <2> DEFINE e == [p EXCEPT !.pub = @ - 1]
  <2>1. e \in Pages /\ e.srev = p.srev
    BY <1>3 DEF Pages
  <2> HIDE DEF e
  <2> QED BY <1>1, <2>1 DEF PublishEaten, e
<1>4. \A f : Ate(p, f).srev = p.srev
  BY DEF Ate, Pages
<1> QED BY <1>2, <1>3, <1>4

LEMMA LateOwn ==
  ASSUME MaxResync = 0, TypeInv, LateInv, NEW c \in Clients,
         \/ Begin(c) \/ TakePlace(c) \/ PublishTimer(c) \/ Resync(c)
         \/ \E f \in Fruits : Eat(c, f)
  PROVE  LateInv' /\ UNCHANGED <<log, shown>>
<1> DEFINE p == page[c]
           s == shown[c]
<1>1. /\ Local(c) /\ page \in [Clients -> Pages] /\ p \in Pages /\ up \in [Clients -> Seq(Ups)]
  BY DEF Begin, TakePlace, PublishTimer, Resync, Eat, TypeInv, PagesTyped
<1>2. UNCHANGED <<srv, flight, down, log, shown>>
  BY <1>1 DEF Local
<1>3. LatePage(p, s, log) /\ LateQueue(down[c], p, s, log) /\ up[c] \in Seq(Played)
  BY DEF LateInv, LateClient
<1> HIDE DEF s
<1>4. PICK res : /\ Sends(c, res) /\ res.out \in Seq(Played)
                 /\ LatePage(res.page, s, log) /\ res.page.gen = p.gen
                 /\ MayPlay(p) => MayPlay(res.page)
  <2>1. ASSUME NEW d \in Pages, Same(p, d), d.stage = p.stage, d.state = p.state,
               d.srev >= p.srev
        PROVE  /\ LatePage(d, s, log) /\ d.gen = p.gen /\ (MayPlay(p) => MayPlay(d))
    <3> HIDE DEF p
    <3>1. LatePage(d, s, log)
      BY <1>1, <1>3, <2>1, LateSoft DEF LatePage
    <3> QED BY <2>1, <3>1 DEF Same, MayPlay
  <2>2. CASE Begin(c)
    <3> DEFINE d == Begun(p)
    <3>1. p.play /\ Sends(c, Quiet(d))
      BY <2>2 DEF Begin, CanBegin
    <3>2. p.gen # 0 /\ ~p.active /\ p.state # "Live" /\ p.srev \in Nat
          /\ (s # NoShown => p.state # "Lobby")
      BY <1>1, <1>3, <3>1 DEF LatePage, Pages
    <3>3. /\ d.gen = p.gen /\ ~d.play /\ d.active /\ d.stage = p.stage
          /\ p.state = "Seating" => d.srev = p.srev
      BY <1>1 DEF Begun, EnterSeating, Pages
    <3>4. s # NoShown => d.srev = p.srev
      BY <1>1, <3>2, <3>3 DEF Pages
    <3> HIDE DEF d, p
    <3>5. LatePage(d, s, log)
      BY <1>3, <3>2, <3>3, <3>4 DEF LatePage
    <3>6. Quiet(d).out \in Seq(Played) /\ Quiet(d).page = d
      BY DEF Quiet
    <3> QED BY <3>1, <3>3, <3>5, <3>6 DEF MayPlay
  <2>3. CASE TakePlace(c)
    <3> DEFINE d == Seat(p, c).page
    <3>1. p.active /\ Sends(c, Seat(p, c))
      BY <2>3 DEF TakePlace, CanSeat
    <3>2. /\ Same([p EXCEPT !.seated = d.seated], d) /\ d.stage = p.stage
          /\ d \in Pages /\ d.srev >= p.srev
      BY <1>1, OwnSame, OwnCounts, SeatTyped
    <3> HIDE DEF d, p
    <3>3. /\ d.gen = p.gen /\ d.active = p.active /\ d.play = p.play
      BY <1>1, <3>2 DEF Same, Pages
    <3>4. p.srev \in Nat /\ d.srev \in Nat /\ (s # NoShown => s.rev \in Nat)
      BY <1>1, <1>3, <3>2 DEF Pages, LatePage, ShownBoards
    <3>5. LatePage(d, s, log)
      BY <1>3, <3>1, <3>2, <3>3, <3>4 DEF LatePage
    <3>6. Seat(p, c).out \in Seq(Played)
      BY <1>1, OutPlayed
    <3> QED BY <3>1, <3>3, <3>5, <3>6 DEF MayPlay, d
  <2>4. CASE PublishTimer(c)
    <3> DEFINE d == PublishEaten(p, c).page
    <3>1. p.pub > 0 /\ Sends(c, PublishEaten(p, c))
      BY <2>4 DEF PublishTimer
    <3>2. /\ Same(p, d) /\ d.state = p.state /\ d.stage = p.stage
          /\ d \in Pages /\ d.srev >= p.srev
      BY <1>1, <3>1, OwnSame, OwnCounts, PublishEatenTyped
    <3>3. PublishEaten(p, c).out \in Seq(Played)
      BY <1>1, <3>1, OutPlayed
    <3> HIDE DEF p
    <3> QED BY <2>1, <3>1, <3>2, <3>3
  <2>5. CASE Resync(c)
    BY <2>5 DEF Resync, TypeInv
  <2>6. ASSUME NEW f \in Fruits, Eat(c, f)
        PROVE  \E res : /\ Sends(c, res) /\ res.out \in Seq(Played)
                        /\ LatePage(res.page, s, log) /\ res.page.gen = p.gen
                        /\ MayPlay(p) => MayPlay(res.page)
    <3> DEFINE d == Ate(p, f)
    <3>1. Sends(c, Quiet(d)) /\ Quiet(d).out \in Seq(Played) /\ Quiet(d).page = d
      BY <2>6 DEF Eat, Quiet
    <3>2. /\ Same(p, d) /\ d.state = p.state /\ d.stage = p.stage /\ d \in Pages
          /\ d.srev = p.srev /\ p.srev \in Nat
      BY <1>1, OwnSame, OwnCounts, AteTyped DEF Pages
    <3> HIDE DEF p, d
    <3>3. d.srev >= p.srev
      BY <3>2
    <3> QED BY <2>1, <3>1, <3>2, <3>3
  <2> QED BY <2>2, <2>3, <2>4, <2>5, <2>6
<1>5. /\ page' = [page EXCEPT ![c] = res.page] /\ up' = [up EXCEPT ![c] = @ \o res.out]
  BY <1>4 DEF Sends
<1>6. LateQueue(down[c], res.page, s, log)
  BY <1>3, <1>4 DEF LateQueue, Plays
<1> HIDE DEF p
<1>7. ASSUME NEW x \in Clients PROVE LateClient(x)' /\ (Untold(x) => Untold(x)')
  <2>1. CASE x = c
    <3>1. up'[c] = up[c] \o res.out /\ page'[c] = res.page
      BY <1>1, <1>5
    <3>2. up'[c] \in Seq(Played)
      BY <1>3, <1>4, <3>1, ConcatProperties
    <3> QED BY <1>2, <1>4, <1>6, <2>1, <3>1, <3>2 DEF LateClient, Untold, p, s
  <2>2. CASE x # c
    <3>1. page'[x] = page[x] /\ up'[x] = up[x]
      BY <1>1, <1>5, <2>2
    <3> QED BY <1>2, <3>1 DEF LateInv, LateClient, Untold
  <2> QED BY <2>1, <2>2
<1> QED BY <1>2, <1>7 DEF LateInv

LEMMA LateInit == Init => LateInv
<1> SUFFICES ASSUME Init PROVE LateInv
  OBVIOUS
<1>1. PICK g \in [Clients -> EarlierGens] : page = [c \in Clients |-> NewPage(g[c])]
  BY DEF Init
<1>2. /\ flight = <<>> /\ down = [c \in Clients |-> <<>>] /\ up = [c \in Clients |-> <<>>]
      /\ shown = [c \in Clients |-> NoShown] /\ log = <<>>
  BY DEF Init
<1>3. ASSUME NEW c \in Clients PROVE LateClient(c) /\ Untold(c)
  <2>1. /\ page[c] = NewPage(g[c]) /\ down[c] = <<>> /\ up[c] = <<>> /\ shown[c] = NoShown
    BY <1>1, <1>2
  <2>2. LatePage(page[c], NoShown, log) /\ page[c].gen = 0
    BY <2>1 DEF NewPage, LatePage, ShownBoards, NoShown
  <2>3. LateQueue(<<>>, page[c], NoShown, log) /\ ~StartIn(<<>>)
    BY DEF LateQueue, NoReplay, Committed, Plays, StartIn
  <2>4. <<>> \in Seq(Played)
    OBVIOUS
  <2> QED BY <2>1, <2>2, <2>3, <2>4 DEF LateClient, Untold
<1>4. LateFlight(<<>>, log) /\ ~Starting(<<>>)
  BY DEF LateFlight, Starting
<1> QED BY <1>2, <1>3, <1>4 DEF LateInv

LEMMA LateStep ==
  ASSUME Overtaking, MaxGen <= 1, MaxResync = 0, TypeInv, LateInv, [Next]_vars
  PROVE  /\ LateInv'
         /\ [Abstract!Next]_(Abstract!vars)
<1>1. CASE UNCHANGED vars
  BY <1>1, LateQuiet DEF vars, LateInv, LateClient, Abstract!vars
<1>2. CASE StartMatch
  BY <1>2, LateStart DEF Abstract!Next
<1>3. CASE EndMatch
  BY <1>3, LateEnd DEF Abstract!vars
<1>4. CASE SendBatch
  BY <1>4, LateSend DEF SendBatch, Abstract!vars
<1>5. ASSUME NEW c \in Clients, Leave(c)
      PROVE  LateInv' /\ [Abstract!Next]_(Abstract!vars)
  BY <1>5, LateEnd DEF Abstract!vars
<1>6. ASSUME NEW c \in Clients, Receive(c)
      PROVE  LateInv' /\ [Abstract!Next]_(Abstract!vars)
  BY <1>6, LateReceive DEF Abstract!vars, Abstract!Next
<1>7. ASSUME NEW c \in Clients, Deliver(c)
      PROVE  LateInv' /\ [Abstract!Next]_(Abstract!vars)
  BY <1>7, LateDeliver DEF Abstract!vars, Abstract!Next
<1>8. ASSUME NEW c \in Clients,
             \/ Begin(c) \/ TakePlace(c) \/ PublishTimer(c) \/ Resync(c)
             \/ \E f \in Fruits : Eat(c, f)
      PROVE  LateInv' /\ [Abstract!Next]_(Abstract!vars)
  BY <1>8, LateOwn DEF Abstract!vars
<1> QED BY <1>1, <1>2, <1>3, <1>4, <1>5, <1>6, <1>7, <1>8 DEF Next

(***************************************************************************)
(* BoardsFollowLog, with batches that overtake each other, for the first   *)
(* match of a room and clients that do not resync: a page that compares    *)
(* revisions (canApplyBoard, session.js) takes over only later boards of   *)
(* the log, in whatever order the tasks of the server send them.  (With a  *)
(* resync this fails: the run board_stale.)                                *)
(***************************************************************************)
THEOREM OvertakenBoardsRefine ==
  ASSUME MaxGen <= 1, MaxResync = 0
  PROVE  Spec => BoardsFollowLog
<1>1. CASE ~Overtaking
  BY <1>1, BoardsRefine
<1>2. CASE Overtaking
  <2>1. Init => Abstract!Init
    BY DEF Init, NoShown, Abstract!Init, Abstract!Nothing
  <2>2. TypeInv /\ LateInv /\ [Next]_vars =>
          (TypeInv /\ LateInv)' /\ [Abstract!Next]_(Abstract!vars)
    BY <1>2, TypeStep, LateStep
  <2>3. Init => TypeInv /\ LateInv
    BY InitTyped, LateInit
  <2> QED BY <2>1, <2>2, <2>3, PTL DEF Spec, BoardsFollowLog, Abstract!Spec
<1> QED BY <1>1, <1>2
=============================================================================
