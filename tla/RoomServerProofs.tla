-------------------------- MODULE RoomServerProofs --------------------------
(***************************************************************************)
(* What holds of the three maps of the server and of the tasks that share  *)
(* them, for any number of sockets, rooms and messages.                    *)
(***************************************************************************)
EXTENDS RoomServer, FiniteSetTheorems, TLAPS

-----------------------------------------------------------------------------
(* Type correctness                                                        *)

(* The places between two sections where a task works on the room at.      *)
InARoom == {"join", "enroll", "greet", "greetSend", "take", "send", "snap",
            "find", "unlist", "unplug"}

(***************************************************************************)
(* TypeOK is inductive once it is known where a task has chosen its room   *)
(* and where a socket's task has one of its own.                           *)
(***************************************************************************)
TasksKnow ==
  /\ \A t \in Tasks : pc[t] \in InARoom => at[t] \in Codes
  /\ \A c \in Sockets :
       /\ pc[c] = "read" => at[c] = home[c]
       /\ pc[c] \in {"greet", "greetSend", "leave", "recheck"} => home[c] # None

TypeInv == TypeOK /\ TasksKnow

LEMMA Moves ==
  ASSUME TypeOK, NEW t \in Tasks, NEW from, NEW to \in Labels,
         t = Ticker => to \in TickLabels, t # Ticker => to # "idle",
         Goto(t, from, to)
  PROVE  /\ pc' \in [Tasks -> Labels]
         /\ pc'[Ticker] \in TickLabels /\ \A c \in Sockets : pc'[c] # "idle"
         /\ pc[t] = from /\ pc'[t] = to
         /\ \A u \in Tasks \ {t} : pc'[u] = pc[u]
BY ServerAssumption DEF TypeOK, Goto, Tasks

(***************************************************************************)
(* The shared sections: a task t takes an outbox, sends it, reaps, or      *)
(* collects the empty rooms.                                               *)
(***************************************************************************)
LEMMA SharedTyped ==
  ASSUME TypeInv, NEW t \in Tasks
  PROVE  /\ Flush(t) /\ (t = Ticker => pc[t] \in TickLabels) => TypeInv'
         /\ Reap(t) => TypeInv'
         /\ t # Ticker /\ Collect(t, "gc", "drop") => TypeInv'
         /\ t = Ticker /\ Collect(t, "idle", "idle") => TypeInv'
<1> USE DEF TypeInv
<1>0. Resume(t) \in Labels /\ (t = Ticker => Resume(t) \in TickLabels)
      /\ (t # Ticker => Resume(t) # "idle" /\ Resume(t) \in {"forget", "recheck"})
      /\ (t # Ticker /\ Resume(t) = "recheck" => home[t] # None)
  BY DEF Resume, Labels, TickLabels
<1>1. ASSUME NEW from, NEW to, TakeOutbox(t, from, to),
             \/ from = "greet" /\ to = "greetSend"
             \/ from = "take" /\ to = "send",
             t = Ticker => from \in TickLabels
      PROVE  TypeInv'
  <2>0. pc[t] = from /\ at[t] \in Codes
    BY <1>1 DEF TakeOutbox, Goto, TasksKnow, InARoom
  <2>1. /\ pc' \in [Tasks -> Labels]
        /\ pc'[Ticker] \in TickLabels /\ \A c \in Sockets : pc'[c] # "idle"
        /\ pc'[t] = to /\ \A u \in Tasks \ {t} : pc'[u] = pc[u]
    BY <1>1, Moves DEF TakeOutbox, Labels, TickLabels
  <2>2. /\ rooms' \in [Codes -> [open : BOOLEAN, clients : SUBSET Sockets,
                                 out : SUBSET (Sockets \cup {"roster"})]]
        /\ batch' \in [Tasks -> SUBSET (Sockets \cup {"roster"})]
    <3>1. rooms[at[t]].out \in SUBSET (Sockets \cup {"roster"})
      BY <2>0 DEF TypeOK
    <3>2. batch' \in [Tasks -> SUBSET (Sockets \cup {"roster"})]
      BY <1>1, <3>1 DEF TakeOutbox, TypeOK
    <3> DEFINE r == [rooms[at[t]] EXCEPT !.out = {}]
               Rooms == [open : BOOLEAN, clients : SUBSET Sockets,
                         out : SUBSET (Sockets \cup {"roster"})]
    <3>3. rooms' = [rooms EXCEPT ![at[t]] = r]
      BY <1>1 DEF TakeOutbox
    <3>4. rooms \in [Codes -> Rooms]
      BY DEF TypeOK
    <3>5. r \in Rooms
      BY <2>0, <3>4
    <3>6. rooms' \in [Codes -> Rooms]
      <4> HIDE DEF r, Rooms
      <4> QED BY <2>0, <3>3, <3>4, <3>5
    <3> QED BY <3>2, <3>6
  <2>3. TypeOK'
    BY <1>1, <2>1, <2>2 DEF TakeOutbox, TypeOK
  <2>4. TasksKnow'
    BY <1>1, <2>0, <2>1 DEF TakeOutbox, TasksKnow, InARoom, Tasks
  <2> QED BY <2>3, <2>4
<1>2. ASSUME NEW from, NEW to, Send(t, from, to),
             \/ from = "greetSend" /\ to = "loop"
             \/ from = "send" /\ to = "snap",
             t = Ticker => from \in TickLabels
      PROVE  TypeInv'
  <2>0. pc[t] = from /\ at[t] \in Codes
    BY <1>2 DEF Send, Goto, TasksKnow, InARoom
  <2>1. /\ pc' \in [Tasks -> Labels]
        /\ pc'[Ticker] \in TickLabels /\ \A c \in Sockets : pc'[c] # "idle"
        /\ pc'[t] = to /\ \A u \in Tasks \ {t} : pc'[u] = pc[u]
    BY <1>2, Moves DEF Send, Labels, TickLabels
  <2>2. /\ heard' \subseteq Sockets
        /\ batch' \in [Tasks -> SUBSET (Sockets \cup {"roster"})]
    BY <1>2 DEF Send, TypeOK
  <2>3. TypeOK'
    BY <1>2, <2>1, <2>2 DEF Send, TypeOK, shared
  <2>4. TasksKnow'
    BY <1>2, <2>0, <2>1 DEF Send, TasksKnow, InARoom, Tasks
  <2> QED BY <2>3, <2>4
<1>3. CASE SnapRoom(t)
  <2>0. pc[t] = "snap" /\ at[t] \in Codes
    BY <1>3 DEF SnapRoom, Goto, TasksKnow, InARoom
  <2>1. /\ pc' \in [Tasks -> Labels]
        /\ pc'[Ticker] \in TickLabels /\ \A c \in Sockets : pc'[c] # "idle"
        /\ pc'[t] = "find" /\ \A u \in Tasks \ {t} : pc'[u] = pc[u]
    BY <1>3, Moves DEF SnapRoom, Labels, TickLabels
  <2>2. inRoom' \in [Tasks -> SUBSET Sockets]
    BY <1>3, <2>0 DEF SnapRoom, TypeOK
  <2>3. TypeOK'
    BY <1>3, <2>1, <2>2 DEF SnapRoom, TypeOK, shared
  <2>4. TasksKnow'
    BY <1>3, <2>0, <2>1 DEF SnapRoom, TasksKnow, InARoom, Tasks
  <2> QED BY <2>3, <2>4
<1>4. CASE FindOrphans(t)
  <2> DEFINE found == {c \in Sockets : enrolled[c] = at[t]} \ inRoom[t]
             to    == IF found = {} THEN Resume(t) ELSE "unlist"
  <2>0. pc[t] = "find" /\ at[t] \in Codes
    BY <1>4 DEF FindOrphans, Goto, TasksKnow, InARoom
  <2>1. /\ Goto(t, "find", to) /\ to \in Labels /\ to \in {Resume(t), "unlist"}
        /\ (t = Ticker => to \in TickLabels) /\ (t # Ticker => to # "idle")
    BY <1>0, <1>4 DEF FindOrphans, Labels, TickLabels
  <2>2. /\ orphans' \in [Tasks -> SUBSET Sockets]
        /\ inRoom' \in [Tasks -> SUBSET Sockets]
    BY <1>4 DEF FindOrphans, TypeOK
  <2> HIDE DEF to
  <2>3. /\ pc' \in [Tasks -> Labels]
        /\ pc'[Ticker] \in TickLabels /\ \A c \in Sockets : pc'[c] # "idle"
        /\ pc'[t] = to /\ \A u \in Tasks \ {t} : pc'[u] = pc[u]
    BY <2>1, Moves
  <2>4. TypeOK'
    BY <1>4, <2>2, <2>3 DEF FindOrphans, TypeOK, shared
  <2>5. TasksKnow'
    BY <1>0, <1>4, <2>0, <2>1, <2>3, ServerAssumption
    DEF FindOrphans, TasksKnow, InARoom, Tasks
  <2> QED BY <2>4, <2>5
<1>5. CASE UnlistOrphans(t)
  <2>0. pc[t] = "unlist" /\ at[t] \in Codes
    BY <1>5 DEF UnlistOrphans, Goto, TasksKnow, InARoom
  <2>1. /\ pc' \in [Tasks -> Labels]
        /\ pc'[Ticker] \in TickLabels /\ \A c \in Sockets : pc'[c] # "idle"
        /\ pc'[t] = "unplug" /\ \A u \in Tasks \ {t} : pc'[u] = pc[u]
    BY <1>5, Moves DEF UnlistOrphans, Labels, TickLabels
  <2>2. enrolled' \in [Sockets -> Codes \cup {None}]
    BY <1>5 DEF UnlistOrphans, TypeOK
  <2>3. TypeOK'
    BY <1>5, <2>1, <2>2 DEF UnlistOrphans, TypeOK, locals
  <2>4. TasksKnow'
    BY <1>5, <2>0, <2>1 DEF UnlistOrphans, TasksKnow, InARoom, Tasks, locals
  <2> QED BY <2>3, <2>4
<1>6. CASE UnplugOrphans(t)
  <2>0. pc[t] = "unplug" /\ at[t] \in Codes
    BY <1>6 DEF UnplugOrphans, Goto, TasksKnow, InARoom
  <2>1. /\ pc' \in [Tasks -> Labels]
        /\ pc'[Ticker] \in TickLabels /\ \A c \in Sockets : pc'[c] # "idle"
        /\ pc'[t] = Resume(t) /\ \A u \in Tasks \ {t} : pc'[u] = pc[u]
    BY <1>0, <1>6, Moves DEF UnplugOrphans
  <2>2. writers' \subseteq Sockets /\ orphans' \in [Tasks -> SUBSET Sockets]
    BY <1>6 DEF UnplugOrphans, TypeOK
  <2>3. TypeOK'
    BY <1>6, <2>1, <2>2 DEF UnplugOrphans, TypeOK
  <2>4. TasksKnow'
    BY <1>0, <1>6, <2>0, <2>1, ServerAssumption
    DEF UnplugOrphans, TasksKnow, InARoom, Tasks
  <2> QED BY <2>3, <2>4
<1>7. ASSUME NEW from, NEW to, Collect(t, from, to),
             \/ t # Ticker /\ from = "gc" /\ to = "drop"
             \/ t = Ticker /\ from = "idle" /\ to = "idle"
      PROVE  TypeInv'
  <2>1. /\ pc' \in [Tasks -> Labels]
        /\ pc'[Ticker] \in TickLabels /\ \A c \in Sockets : pc'[c] # "idle"
        /\ pc'[t] = to /\ \A u \in Tasks \ {t} : pc'[u] = pc[u]
    BY <1>7, Moves DEF Collect, Labels, TickLabels
  <2>2. rooms' \in [Codes -> [open : BOOLEAN, clients : SUBSET Sockets,
                              out : SUBSET (Sockets \cup {"roster"})]]
    BY <1>7 DEF Collect, Closed, TypeOK
  <2>3. TypeOK'
    BY <1>7, <2>1, <2>2 DEF Collect, TypeOK, locals
  <2>4. TasksKnow'
    BY <1>7, <2>1 DEF Collect, TasksKnow, InARoom, Tasks, locals
  <2> QED BY <2>3, <2>4
<1>8. Reap(t) => TypeInv'
  BY <1>3, <1>4, <1>5, <1>6 DEF Reap
<1>9. Flush(t) /\ (t = Ticker => pc[t] \in TickLabels) => TypeInv'
  BY <1>1, <1>2 DEF Flush, TakeOutbox, Send, Goto
<1> QED BY <1>7, <1>8, <1>9

RoomRec == [open : BOOLEAN, clients : SUBSET Sockets,
            out : SUBSET (Sockets \cup {"roster"})]

(***************************************************************************)
(* What the sections of a socket's task do to the clients of the rooms.    *)
(***************************************************************************)
LEMMA RoomsEffect ==
  ASSUME rooms \in [Codes -> RoomRec], NEW c \in Sockets
  PROVE  /\ \A k \in Codes : Hello(c, k) =>
              /\ rooms' \in [Codes -> RoomRec]
              /\ \A j \in Codes : rooms'[j].clients = rooms[j].clients
         /\ at[c] \in Codes /\ Join(c) =>
              /\ rooms' \in [Codes -> RoomRec]
              /\ rooms'[at[c]].clients = rooms[at[c]].clients \cup {c}
              /\ \A j \in Codes \ {at[c]} : rooms'[j].clients = rooms[j].clients
         /\ home[c] \in Codes /\ Command(c) =>
              /\ rooms' \in [Codes -> RoomRec]
              /\ \A j \in Codes : rooms'[j].clients = rooms[j].clients
         /\ home[c] \in Codes /\ (LeaveRoom(c) \/ \E d \in Sockets : KickOut(c, d)) =>
              /\ rooms' \in [Codes -> RoomRec]
              /\ \A j \in Codes : rooms'[j].clients \subseteq rooms[j].clients
         /\ home[c] \in Codes /\ LeaveRoom(c) => c \notin rooms'[home[c]].clients
<1>0. \A k \in Codes : rooms[k] \in RoomRec /\ rooms[k].clients \in SUBSET Sockets
        /\ rooms[k].out \in SUBSET (Sockets \cup {"roster"})
  BY DEF RoomRec
<1>1. ASSUME NEW k \in Codes, Hello(c, k)
      PROVE  /\ rooms' \in [Codes -> RoomRec]
             /\ \A j \in Codes : rooms'[j].clients = rooms[j].clients
  <2>1. rooms' = [rooms EXCEPT ![k].open = TRUE]
    BY <1>1 DEF Hello
  <2>2. [rooms[k] EXCEPT !.open = TRUE] \in RoomRec
    BY <1>0 DEF RoomRec
  <2>3. rooms' = [rooms EXCEPT ![k] = [rooms[k] EXCEPT !.open = TRUE]]
    BY <2>1
  <2>4. [rooms[k] EXCEPT !.open = TRUE].clients = rooms[k].clients
    BY <1>0 DEF RoomRec
  <2> QED BY <2>2, <2>3, <2>4
<1>2. ASSUME at[c] \in Codes, Join(c)
      PROVE  /\ rooms' \in [Codes -> RoomRec]
             /\ rooms'[at[c]].clients = rooms[at[c]].clients \cup {c}
             /\ \A j \in Codes \ {at[c]} : rooms'[j].clients = rooms[j].clients
  <2> DEFINE k  == at[c]
             S  == rooms[k].clients \cup {c}
             r1 == [rooms[k] EXCEPT !.clients = S]
             f  == [rooms EXCEPT ![k].clients = S]
             r2 == [r1 EXCEPT !.out = @ \cup {c, "roster"}]
  <2>1. rooms[k] \in RoomRec /\ S \in SUBSET Sockets
    BY <1>0, <1>2
  <2>2. r1 \in RoomRec /\ r1.clients = S
    <3> HIDE DEF S
    <3> QED BY <2>1 DEF RoomRec
  <2>3. f = [rooms EXCEPT ![k] = r1]
    BY <1>2
  <2>4. rooms' = [f EXCEPT ![k].out = @ \cup {c, "roster"}]
    BY <1>2 DEF Join
  <2> HIDE DEF r1
  <2>5. r2 \in RoomRec /\ r2.clients = S
    <3> HIDE DEF S
    <3> QED BY <2>2 DEF RoomRec
  <2>6. /\ f \in [Codes -> RoomRec] /\ f[k] = r1
        /\ \A j \in Codes \ {k} : f[j] = rooms[j]
    BY <1>2, <2>2, <2>3
  <2>7. rooms' = [f EXCEPT ![k] = r2]
    <3> HIDE DEF f
    <3> QED BY <2>4, <2>6
  <2> HIDE DEF r2, f
  <2> QED BY <1>2, <2>5, <2>6, <2>7
<1>3. ASSUME home[c] \in Codes, Command(c)
      PROVE  /\ rooms' \in [Codes -> RoomRec]
             /\ \A j \in Codes : rooms'[j].clients = rooms[j].clients
  <2>1. CASE rooms[home[c]].open
    <3> DEFINE r == [rooms[home[c]] EXCEPT !.out = @ \cup {"roster"}]
    <3>1. r \in RoomRec /\ r.clients = rooms[home[c]].clients
      BY <1>0, <1>3 DEF RoomRec
    <3>2. rooms' = [rooms EXCEPT ![home[c]] = r]
      BY <1>3, <2>1 DEF Command
    <3> HIDE DEF r
    <3> QED BY <1>3, <3>1, <3>2
  <2>2. CASE ~rooms[home[c]].open
    BY <1>3, <2>2 DEF Command
  <2> QED BY <2>1, <2>2
<1>4. ASSUME home[c] \in Codes, NEW d \in Sockets, KickOut(c, d)
      PROVE  /\ rooms' \in [Codes -> RoomRec]
             /\ \A j \in Codes : rooms'[j].clients \subseteq rooms[j].clients
  <2> DEFINE k  == home[c]
             S  == rooms[k].clients \ {d}
             r1 == [rooms[k] EXCEPT !.clients = S]
             f  == [rooms EXCEPT ![k].clients = S]
             r2 == [r1 EXCEPT !.out = @ \cup {"roster"}]
  <2>1. rooms[k] \in RoomRec /\ S \in SUBSET Sockets
    BY <1>0, <1>4
  <2>2. r1 \in RoomRec /\ r1.clients = S
    <3> HIDE DEF S
    <3> QED BY <2>1 DEF RoomRec
  <2>3. f = [rooms EXCEPT ![k] = r1]
    BY <1>4
  <2>4. rooms' = [f EXCEPT ![k].out = @ \cup {"roster"}]
    BY <1>4 DEF KickOut
  <2> HIDE DEF r1
  <2>5. r2 \in RoomRec /\ r2.clients = S
    <3> HIDE DEF S
    <3> QED BY <2>2 DEF RoomRec
  <2>6. /\ f \in [Codes -> RoomRec] /\ f[k] = r1
        /\ \A j \in Codes \ {k} : f[j] = rooms[j]
    BY <1>4, <2>2, <2>3
  <2>7. rooms' = [f EXCEPT ![k] = r2]
    <3> HIDE DEF f
    <3> QED BY <2>4, <2>6
  <2> HIDE DEF r2, f
  <2> QED BY <1>4, <2>5, <2>6, <2>7
<1>5. ASSUME home[c] \in Codes, LeaveRoom(c)
      PROVE  /\ rooms' \in [Codes -> RoomRec]
             /\ \A j \in Codes : rooms'[j].clients \subseteq rooms[j].clients
             /\ c \notin rooms'[home[c]].clients
  <2> DEFINE k  == home[c]
             b  == c \in rooms[k].clients /\ rooms[k].clients \ {c} # {}
             S  == rooms[k].clients \ {c}
             r1 == [rooms[k] EXCEPT !.clients = S]
             f  == [rooms EXCEPT ![k].clients = S]
             r2 == [r1 EXCEPT !.out = IF b THEN @ \cup {"roster"} ELSE @]
  <2>1. rooms[k] \in RoomRec /\ S \in SUBSET Sockets
    BY <1>0, <1>5
  <2>2. r1 \in RoomRec /\ r1.clients = S
    <3> HIDE DEF S
    <3> QED BY <2>1 DEF RoomRec
  <2>3. f = [rooms EXCEPT ![k] = r1]
    BY <1>5
  <2>4. rooms' = [f EXCEPT ![k].out = IF b THEN @ \cup {"roster"} ELSE @]
    BY <1>5 DEF LeaveRoom
  <2> HIDE DEF r1
  <2>5. r2 \in RoomRec /\ r2.clients = S
    <3> HIDE DEF S
    <3> QED BY <2>2 DEF RoomRec
  <2>6. /\ f \in [Codes -> RoomRec] /\ f[k] = r1
        /\ \A j \in Codes \ {k} : f[j] = rooms[j]
    BY <1>5, <2>2, <2>3
  <2>7. rooms' = [f EXCEPT ![k] = r2]
    <3> HIDE DEF f
    <3> QED BY <2>4, <2>6
  <2> HIDE DEF r2, f
  <2> QED BY <1>5, <2>5, <2>6, <2>7
<1> QED BY <1>1, <1>2, <1>3, <1>4, <1>5
(***************************************************************************)
(* The sections of a socket's task alone.                                  *)
(***************************************************************************)
LEMMA SocketTyped ==
  ASSUME TypeInv, NEW c \in Sockets
  PROVE  Own(c) \/ Peer(c) => TypeInv'
<1> USE DEF TypeInv
<1>0. /\ c \in Tasks /\ c # Ticker /\ Ticker \in Tasks /\ None \notin Codes
      /\ home[c] \in Codes \cup {None}
  BY ServerAssumption DEF Tasks, TypeOK
<1>00. rooms \in [Codes -> RoomRec]
  BY DEF TypeOK, RoomRec
<1>01. Receive => inputs' \in 0..MaxInputs
  BY ServerAssumption DEF TypeOK, Receive
<1> DEFINE MovesTo(to) ==
             /\ pc' \in [Tasks -> Labels]
             /\ pc'[Ticker] \in TickLabels /\ \A d \in Sockets : pc'[d] # "idle"
             /\ pc'[c] = to /\ \A u \in Tasks \ {c} : pc'[u] = pc[u]
<1>1. CASE Accept(c)
  <2>1. pc[c] = "new" /\ MovesTo("loop")
    BY <1>0, <1>1, Moves DEF Accept, Labels
  <2>3. TypeOK'
    BY <1>0, <1>1, <2>1 DEF Accept, TypeOK, locals
  <2>4. TasksKnow'
    BY <1>0, <1>1, <2>1 DEF Accept, TypeOK, TasksKnow, InARoom, Tasks, locals
  <2> QED BY <2>3, <2>4
<1>2. CASE CheckRoom(c)
  <2>1. pc[c] = "loop" /\ MovesTo(IF home[c] # None /\ ~IsMember(c) THEN "leave" ELSE "read")
    BY <1>0, <1>2, Moves DEF CheckRoom, Labels
  <2>3. TypeOK'
    BY <1>0, <1>2, <2>1 DEF CheckRoom, TypeOK, shared
  <2>4. TasksKnow'
    BY <1>0, <1>2, <2>1 DEF CheckRoom, TypeOK, TasksKnow, InARoom, Tasks, shared
  <2> QED BY <2>3, <2>4
<1>3. CASE Timeout(c)
  <2>1. pc[c] = "read" /\ MovesTo("loop")
    BY <1>0, <1>3, Moves DEF Timeout, Labels
  <2>3. TypeOK'
    BY <1>0, <1>3, <2>1 DEF Timeout, TypeOK, shared, locals
  <2>4. TasksKnow'
    BY <1>0, <1>3, <2>1 DEF Timeout, TypeOK, TasksKnow, InARoom, Tasks, shared, locals
  <2> QED BY <2>3, <2>4
<1>4. CASE Close(c)
  <2>1. pc[c] = "read" /\ MovesTo(IF home[c] = None THEN "drop" ELSE "leave")
    BY <1>0, <1>4, Moves DEF Close, Labels
  <2>3. TypeOK'
    BY <1>0, <1>4, <2>1 DEF Close, TypeOK, shared, locals
  <2>4. TasksKnow'
    BY <1>0, <1>4, <2>1 DEF Close, TypeOK, TasksKnow, InARoom, Tasks, shared, locals
  <2> QED BY <2>3, <2>4
<1>5. ASSUME NEW k \in Codes, Hello(c, k) PROVE TypeInv'
  <2>1. pc[c] = "read" /\ MovesTo("join")
    BY <1>0, <1>5, Moves DEF Hello, Labels
  <2>2. /\ rooms' \in [Codes -> RoomRec] /\ inputs' \in 0..MaxInputs
        /\ k \in Codes
    <3>1. inputs' \in 0..MaxInputs
      BY <1>5, <1>01 DEF Hello
    <3>2. home[c] # None => home[c] \in Codes
      BY <1>0
    <3> QED BY <1>0, <1>00, <1>5, <2>1, <3>1, <3>2, RoomsEffect
        DEF Hello, TasksKnow, InARoom, IsMember
  <2>3. TypeOK'
    BY <1>0, <1>5, <2>1, <2>2 DEF Hello, TypeOK, RoomRec
  <2>4. TasksKnow'
    BY <1>0, <1>5, <2>1, <2>2 DEF Hello, TypeOK, TasksKnow, InARoom, Tasks
  <2> QED BY <2>3, <2>4
<1>6. CASE UnwrapFails(c)
  <2>1. pc[c] = "join" /\ MovesTo("panic")
    BY <1>0, <1>6, Moves DEF UnwrapFails, Labels
  <2>3. TypeOK'
    BY <1>0, <1>6, <2>1 DEF UnwrapFails, TypeOK, shared, locals
  <2>4. TasksKnow'
    BY <1>0, <1>6, <2>1 DEF UnwrapFails, TypeOK, TasksKnow, InARoom, Tasks, shared, locals
  <2> QED BY <2>3, <2>4
<1>7. CASE RoomFull(c)
  <2>1. pc[c] = "join" /\ MovesTo("loop")
    BY <1>0, <1>7, Moves DEF RoomFull, Labels
  <2>3. TypeOK'
    BY <1>0, <1>7, <2>1 DEF RoomFull, TypeOK, shared, locals
  <2>4. TasksKnow'
    BY <1>0, <1>7, <2>1 DEF RoomFull, TypeOK, TasksKnow, InARoom, Tasks, shared, locals
  <2> QED BY <2>3, <2>4
<1>8. CASE Join(c)
  <2>1. pc[c] = "join" /\ MovesTo("enroll")
    BY <1>0, <1>8, Moves DEF Join, Labels
  <2>2. /\ rooms' \in [Codes -> RoomRec] /\ inputs' \in 0..MaxInputs
        /\ at[c] \in Codes
    <3>1. inputs' \in 0..MaxInputs
      BY <1>8 DEF Join, TypeOK, locals
    <3>2. home[c] # None => home[c] \in Codes
      BY <1>0
    <3> QED BY <1>0, <1>00, <1>8, <2>1, <3>1, <3>2, RoomsEffect
        DEF Join, TasksKnow, InARoom, IsMember
  <2>3. TypeOK'
    BY <1>0, <1>8, <2>1, <2>2 DEF Join, TypeOK, locals, RoomRec
  <2>4. TasksKnow'
    BY <1>0, <1>8, <2>1, <2>2 DEF Join, TypeOK, TasksKnow, InARoom, Tasks, locals
  <2> QED BY <2>3, <2>4
<1>9. CASE Enroll(c)
  <2>1. pc[c] = "enroll" /\ MovesTo("greet")
    BY <1>0, <1>9, Moves DEF Enroll, Labels
  <2>2. at[c] \in Codes
    BY <1>0, <2>1 DEF TasksKnow, InARoom
  <2>3. TypeOK'
    BY <1>0, <1>9, <2>1, <2>2 DEF Enroll, TypeOK, RoomRec
  <2>4. TasksKnow'
    BY <1>0, <1>9, <2>1, <2>2 DEF Enroll, TypeOK, TasksKnow, InARoom, Tasks
  <2> QED BY <2>3, <2>4
<1>10. CASE Command(c)
  <2>1. pc[c] = "read" /\ MovesTo("take")
    BY <1>0, <1>10, Moves DEF Command, Labels
  <2>2. /\ rooms' \in [Codes -> RoomRec] /\ inputs' \in 0..MaxInputs
        /\ at[c] \in Codes
    <3>1. inputs' \in 0..MaxInputs
      BY <1>10, <1>01 DEF Command
    <3>2. home[c] # None => home[c] \in Codes
      BY <1>0
    <3> QED BY <1>0, <1>00, <1>10, <2>1, <3>1, <3>2, RoomsEffect
        DEF Command, TasksKnow, InARoom, IsMember
  <2>3. TypeOK'
    BY <1>0, <1>10, <2>1, <2>2 DEF Command, TypeOK, locals, RoomRec
  <2>4. TasksKnow'
    BY <1>0, <1>10, <2>1, <2>2 DEF Command, TypeOK, TasksKnow, InARoom, Tasks, locals
  <2> QED BY <2>3, <2>4
<1>11. ASSUME NEW d \in Sockets, KickOut(c, d) PROVE TypeInv'
  <2>1. pc[c] = "read" /\ MovesTo("take")
    BY <1>0, <1>11, Moves DEF KickOut, Labels
  <2>2. /\ rooms' \in [Codes -> RoomRec] /\ inputs' \in 0..MaxInputs
        /\ at[c] \in Codes
    <3>1. inputs' \in 0..MaxInputs
      BY <1>11, <1>01 DEF KickOut
    <3>2. home[c] # None => home[c] \in Codes
      BY <1>0
    <3> QED BY <1>0, <1>00, <1>11, <2>1, <3>1, <3>2, RoomsEffect
        DEF KickOut, TasksKnow, InARoom, IsMember
  <2>3. TypeOK'
    BY <1>0, <1>11, <2>1, <2>2 DEF KickOut, TypeOK, locals, RoomRec
  <2>4. TasksKnow'
    BY <1>0, <1>11, <2>1, <2>2 DEF KickOut, TypeOK, TasksKnow, InARoom, Tasks, locals
  <2> QED BY <2>3, <2>4
<1>12. CASE Recheck(c)
  <2>1. pc[c] = "recheck" /\ MovesTo(IF IsMember(c) THEN "loop" ELSE "leave")
    BY <1>0, <1>12, Moves DEF Recheck, Labels
  <2>3. TypeOK'
    BY <1>0, <1>12, <2>1 DEF Recheck, TypeOK, locals
  <2>4. TasksKnow'
    BY <1>0, <1>12, <2>1 DEF Recheck, TypeOK, TasksKnow, InARoom, Tasks, locals
  <2> QED BY <2>3, <2>4
<1>13. CASE LeaveRoom(c)
  <2>1. pc[c] = "leave" /\ MovesTo("take")
    BY <1>0, <1>13, Moves DEF LeaveRoom, Labels
  <2>2. /\ rooms' \in [Codes -> RoomRec] /\ inputs' \in 0..MaxInputs
        /\ home[c] \in Codes
    <3>1. inputs' \in 0..MaxInputs
      BY <1>13 DEF LeaveRoom, TypeOK
    <3>2. home[c] # None => home[c] \in Codes
      BY <1>0
    <3> QED BY <1>0, <1>00, <1>13, <2>1, <3>1, <3>2, RoomsEffect
        DEF LeaveRoom, TasksKnow, InARoom, IsMember
  <2>3. TypeOK'
    BY <1>0, <1>13, <2>1, <2>2 DEF LeaveRoom, TypeOK, RoomRec
  <2>4. TasksKnow'
    BY <1>0, <1>13, <2>1, <2>2 DEF LeaveRoom, TypeOK, TasksKnow, InARoom, Tasks
  <2> QED BY <2>3, <2>4
<1>14. CASE Forget(c)
  <2>1. pc[c] = "forget" /\ MovesTo("gc")
    BY <1>0, <1>14, Moves DEF Forget, Labels
  <2>3. TypeOK'
    BY <1>0, <1>14, <2>1 DEF Forget, TypeOK, locals
  <2>4. TasksKnow'
    BY <1>0, <1>14, <2>1 DEF Forget, TypeOK, TasksKnow, InARoom, Tasks, locals
  <2> QED BY <2>3, <2>4
<1>15. CASE Drop(c)
  <2>1. pc[c] = "drop" /\ MovesTo("done")
    BY <1>0, <1>15, Moves DEF Drop, Labels
  <2>3. TypeOK'
    BY <1>0, <1>15, <2>1 DEF Drop, TypeOK, locals
  <2>4. TasksKnow'
    BY <1>0, <1>15, <2>1 DEF Drop, TypeOK, TasksKnow, InARoom, Tasks, locals
  <2> QED BY <2>3, <2>4
<1> HIDE DEF TypeInv
<1>16. Own(c) => TypeInv'
  BY <1>0, <1>2, <1>3, <1>6, <1>7, <1>8, <1>9, <1>12, <1>13, <1>14, <1>15,
     SharedTyped DEF Own
<1>17. Peer(c) => TypeInv'
  BY <1>1, <1>4, <1>5, <1>10, <1>11 DEF Peer
<1> QED BY <1>16, <1>17

LEMMA TypeStep ==
  ASSUME TypeInv, [Next]_vars
  PROVE  TypeInv'
<1>0. Ticker \in Tasks /\ pc[Ticker] \in TickLabels
  BY DEF Tasks, TypeInv, TypeOK
<1>1. ASSUME NEW k \in Codes, TickRoom(k) PROVE TypeInv'
  <2>1. /\ pc' \in [Tasks -> Labels]
        /\ pc'[Ticker] \in TickLabels /\ \A c \in Sockets : pc'[c] # "idle"
        /\ pc'[Ticker] = "take" /\ \A u \in Tasks \ {Ticker} : pc'[u] = pc[u]
    BY <1>0, <1>1, Moves DEF TickRoom, Labels, TickLabels, TypeInv
  <2>2. TypeOK'
    BY <1>0, <1>1, <2>1 DEF TickRoom, TypeInv, TypeOK, shared
  <2>3. TasksKnow'
    BY <1>0, <1>1, <2>1, ServerAssumption
    DEF TickRoom, TypeInv, TypeOK, TasksKnow, InARoom, Tasks
  <2> QED BY <2>2, <2>3 DEF TypeInv
<1>2. Tick => TypeInv'
  BY <1>0, <1>1, SharedTyped DEF Tick
<1>3. CASE UNCHANGED vars
  BY <1>3 DEF vars, shared, locals, TypeInv, TypeOK, TasksKnow
<1> QED BY <1>2, <1>3, SocketTyped DEF Next

LEMMA TypeAlways == Spec => []TypeInv
<1>1. Init => TypeInv
  <2> SUFFICES ASSUME Init PROVE TypeInv
    OBVIOUS
  <2>1. rooms \in [Codes -> [open : BOOLEAN, clients : SUBSET Sockets,
                             out : SUBSET (Sockets \cup {"roster"})]]
    BY DEF Init, Closed
  <2>2. TypeOK
    BY <2>1, ServerAssumption DEF Init, TypeOK, Tasks, Labels, TickLabels
  <2>3. TasksKnow
    BY ServerAssumption DEF Init, TasksKnow, InARoom, Tasks
  <2> QED BY <2>2, <2>3 DEF TypeInv
<1>2. TypeInv /\ [Next]_vars => TypeInv'
  BY TypeStep
<1> QED BY <1>1, <1>2, PTL DEF Spec

(***************************************************************************)
(* The maps and the tasks keep their types: a task never works on a room   *)
(* without having one, wherever the other tasks interrupt it               *)
(* (handle_socket, the tick task).                                         *)
(***************************************************************************)
THEOREM TypeCorrect == Spec => []TypeOK
<1>1. TypeInv => TypeOK
  BY DEF TypeInv
<1> QED BY <1>1, TypeAlways, PTL

-----------------------------------------------------------------------------
(* The clients of the rooms                                                *)

(* The shared sections add nobody to a room.                               *)
LEMMA SharedClients ==
  ASSUME TypeInv, NEW t \in Tasks,
         \/ Flush(t) \/ Reap(t)
         \/ \E from, to \in Labels : Collect(t, from, to)
  PROVE  \A k \in Codes : rooms'[k].clients \subseteq rooms[k].clients
<1>1. ASSUME NEW from, NEW to, TakeOutbox(t, from, to), at[t] \in Codes
      PROVE  \A k \in Codes : rooms'[k].clients \subseteq rooms[k].clients
  <2> DEFINE r == [rooms[at[t]] EXCEPT !.out = {}]
  <2>1. rooms \in [Codes -> RoomRec]
    BY DEF TypeInv, TypeOK, RoomRec
  <2>2. r.clients = rooms[at[t]].clients
    <3>1. rooms[at[t]] \in RoomRec
      BY <1>1, <2>1
    <3> QED BY <3>1 DEF RoomRec
  <2>3. rooms' = [rooms EXCEPT ![at[t]] = r]
    BY <1>1 DEF TakeOutbox
  <2> HIDE DEF r
  <2> QED BY <1>1, <2>1, <2>2, <2>3
<1>2. TakeOutbox(t, "greet", "greetSend") \/ TakeOutbox(t, "take", "send")
        => at[t] \in Codes
  BY DEF TypeInv, TasksKnow, InARoom, TakeOutbox, Goto
<1>3. ASSUME \/ Send(t, "greetSend", "loop") \/ Send(t, "send", "snap")
             \/ Reap(t)
      PROVE  \A k \in Codes : rooms'[k].clients \subseteq rooms[k].clients
  <2>1. rooms' = rooms
    BY <1>3 DEF Send, Reap, SnapRoom, FindOrphans, UnlistOrphans, UnplugOrphans,
       shared
  <2> QED BY <2>1
<1>4. ASSUME NEW from, NEW to, Collect(t, from, to)
      PROVE  \A k \in Codes : rooms'[k].clients \subseteq rooms[k].clients
  BY <1>4 DEF Collect, Closed
<1> QED BY <1>1, <1>2, <1>3, <1>4 DEF Flush

(* A socket's task adds its own client, by Join, and nobody else.          *)
LEMMA SocketClients ==
  ASSUME TypeInv, NEW c \in Sockets, Own(c) \/ Peer(c)
  PROVE  \A k \in Codes :
           \/ rooms'[k].clients \subseteq rooms[k].clients
           \/ /\ Join(c) /\ k = at[c]
              /\ rooms'[k].clients = rooms[k].clients \cup {c}
<1>0. c \in Tasks /\ home[c] \in Codes \cup {None} /\ rooms \in [Codes -> RoomRec]
  BY DEF Tasks, TypeInv, TypeOK, RoomRec
<1>1. CASE Join(c)
  <2>1. at[c] \in Codes
    BY <1>0, <1>1 DEF Join, Goto, TypeInv, TasksKnow, InARoom
  <2> QED BY <1>0, <1>1, <2>1, RoomsEffect
<1>2. ASSUME NEW k \in Codes, Hello(c, k)
      PROVE  \A j \in Codes : rooms'[j].clients \subseteq rooms[j].clients
  BY <1>0, <1>2, RoomsEffect
<1>3. ASSUME Command(c) \/ LeaveRoom(c) \/ \E d \in Sockets : KickOut(c, d)
      PROVE  \A k \in Codes : rooms'[k].clients \subseteq rooms[k].clients
  <2>1. home[c] \in Codes
    BY <1>0, <1>3 DEF Command, LeaveRoom, KickOut, IsMember, Goto, TypeInv,
       TasksKnow
  <2> QED BY <1>0, <1>3, <2>1, RoomsEffect
<1>4. ASSUME \/ Accept(c) \/ CheckRoom(c) \/ Timeout(c) \/ Close(c)
             \/ UnwrapFails(c) \/ RoomFull(c) \/ Enroll(c) \/ Recheck(c)
             \/ Forget(c) \/ Drop(c)
      PROVE  \A k \in Codes : rooms'[k].clients \subseteq rooms[k].clients
  <2>1. rooms' = rooms
    BY <1>4 DEF Accept, CheckRoom, Timeout, Close, UnwrapFails, RoomFull,
       Enroll, Recheck, Forget, Drop, shared
  <2> QED BY <2>1
<1>5. "gc" \in Labels /\ "drop" \in Labels
  BY DEF Labels
<1> QED BY <1>0, <1>1, <1>2, <1>3, <1>4, <1>5, SharedClients DEF Own, Peer

LEMMA TickClients ==
  ASSUME TypeInv, Tick
  PROVE  \A k \in Codes : rooms'[k].clients \subseteq rooms[k].clients
<1>1. Ticker \in Tasks /\ "idle" \in Labels
  BY DEF Tasks, Labels
<1>2. ASSUME NEW k \in Codes, TickRoom(k)
      PROVE  \A j \in Codes : rooms'[j].clients \subseteq rooms[j].clients
  BY <1>2 DEF TickRoom, shared
<1> QED BY <1>1, <1>2, SharedClients DEF Tick

LEMMA LimitKept == [Next]_vars => limit' = limit
BY DEF Next, Tick, Own, Peer, Flush, Reap, TickRoom, TakeOutbox, Send, SnapRoom,
   FindOrphans, UnlistOrphans, UnplugOrphans, Collect, Accept, CheckRoom,
   Timeout, Close, Hello, UnwrapFails, RoomFull, Join, Enroll, Command, KickOut,
   Recheck, LeaveRoom, Forget, Drop, vars, shared

(* The clients of a room are finitely many, so that they can be counted.   *)
WithinInv ==
  \A k \in Codes : /\ IsFiniteSet(rooms[k].clients)
                   /\ Cardinality(rooms[k].clients) <= limit

LEMMA WithinStep ==
  ASSUME TypeInv, WithinInv, [Next]_vars
  PROVE  WithinInv'
<1>0. limit \in Nat /\ limit' = limit
  BY LimitKept, ServerAssumption DEF TypeInv, TypeOK
<1>1. ASSUME NEW k \in Codes, rooms'[k].clients \subseteq rooms[k].clients
      PROVE  /\ IsFiniteSet(rooms'[k].clients)
             /\ Cardinality(rooms'[k].clients) <= limit'
  <2>1. IsFiniteSet(rooms[k].clients) /\ Cardinality(rooms[k].clients) <= limit
    BY DEF WithinInv
  <2>2. /\ IsFiniteSet(rooms'[k].clients)
        /\ Cardinality(rooms'[k].clients) <= Cardinality(rooms[k].clients)
    BY <1>1, <2>1, FS_Subset
  <2>3. Cardinality(rooms'[k].clients) \in Nat /\ Cardinality(rooms[k].clients) \in Nat
    BY <2>1, <2>2, FS_CardinalityType
  <2> QED BY <1>0, <2>1, <2>2, <2>3
<1>2. ASSUME NEW c \in Sockets, NEW k \in Codes, Join(c), k = at[c],
             rooms'[k].clients = rooms[k].clients \cup {c}
      PROVE  /\ IsFiniteSet(rooms'[k].clients)
             /\ Cardinality(rooms'[k].clients) <= limit'
  <2>1. IsFiniteSet(rooms[k].clients) /\ Cardinality(rooms[k].clients) < limit
    BY <1>2 DEF WithinInv, Join, HasSpace
  <2>2. /\ IsFiniteSet(rooms'[k].clients)
        /\ Cardinality(rooms'[k].clients)
             \in {Cardinality(rooms[k].clients), Cardinality(rooms[k].clients) + 1}
    BY <1>2, <2>1, FS_AddElement
  <2>3. Cardinality(rooms[k].clients) \in Nat
    BY <2>1, FS_CardinalityType
  <2> QED BY <1>0, <2>1, <2>2, <2>3
<1>3. ASSUME NEW c \in Sockets, Own(c) \/ Peer(c) PROVE WithinInv'
  <2>1. SUFFICES ASSUME NEW k \in Codes
                 PROVE  /\ IsFiniteSet(rooms'[k].clients)
                        /\ Cardinality(rooms'[k].clients) <= limit'
    BY DEF WithinInv
  <2> QED BY <1>1, <1>2, <1>3, SocketClients
<1>4. CASE Tick
  BY <1>1, <1>4, TickClients DEF WithinInv
<1>5. CASE UNCHANGED vars
  BY <1>5 DEF vars, shared, WithinInv
<1> QED BY <1>3, <1>4, <1>5 DEF Next

(***************************************************************************)
(* A room never holds more clients than its limit: Room.join looks again   *)
(* under the lock under which it adds the client (HELLO, Room.join).       *)
(***************************************************************************)
THEOREM LimitSafe == Spec => []RoomWithinLimit
<1>1. Init => WithinInv
  <2> SUFFICES ASSUME Init, NEW k \in Codes
               PROVE  IsFiniteSet(rooms[k].clients)
                        /\ Cardinality(rooms[k].clients) <= limit
    BY DEF WithinInv
  <2>1. rooms[k].clients = {} /\ limit \in Nat
    BY ServerAssumption DEF Init, Closed
  <2> QED BY <2>1, FS_EmptySet
<1>2. TypeInv /\ WithinInv /\ [Next]_vars => WithinInv'
  BY WithinStep
<1>3. WithinInv => RoomWithinLimit
  BY DEF WithinInv, RoomWithinLimit
<1> QED BY <1>1, <1>2, <1>3, TypeAlways, PTL DEF Spec

-----------------------------------------------------------------------------
(* The end of a socket                                                     *)

(***************************************************************************)
(* Where a task is tells what its client can still have in the maps: only  *)
(* its own task adds the client to a room or to enrolled, and each way to  *)
(* the end passes Room.leave, if the task has a room, and forgets it.      *)
(***************************************************************************)
AccountedFor(c) ==
  /\ pc[c] \in {"new", "join", "enroll", "panic", "forget", "gc", "drop", "done"}
       => home[c] = None
  /\ home[c] = None /\ pc[c] \in {"new", "loop", "read", "join", "enroll",
                                  "panic", "gc", "drop", "done"}
       => enrolled[c] = None
  /\ \A k \in Codes : c \in rooms[k].clients =>
       home[c] = k \/ (pc[c] = "enroll" /\ at[c] = k)
  /\ pc[c] = "done" => c \notin writers

Accounted == \A c \in Sockets : AccountedFor(c)

(* What the step of another task does to a socket: it may only take away.  *)
Untouched(c) ==
  /\ pc'[c] = pc[c] /\ home'[c] = home[c] /\ at'[c] = at[c]
  /\ enrolled'[c] \in {enrolled[c], None}
  /\ c \in writers' => c \in writers
  /\ \A k \in Codes : c \in rooms'[k].clients => c \in rooms[k].clients

LEMMA UntouchedKeeps ==
  ASSUME NEW c \in Sockets, AccountedFor(c), Untouched(c)
  PROVE  AccountedFor(c)'
BY DEF AccountedFor, Untouched

LEMMA SharedUntouched ==
  ASSUME TypeInv, NEW t \in Tasks, NEW c \in Sockets, c # t,
         \/ Flush(t) \/ Reap(t)
         \/ \E from, to \in Labels : Collect(t, from, to)
  PROVE  Untouched(c)
<1>0. /\ pc \in [Tasks -> Labels] /\ c \in Tasks
      /\ enrolled \in [Sockets -> Codes \cup {None}]
  BY DEF TypeInv, TypeOK, Tasks
<1>1. pc'[c] = pc[c] /\ home'[c] = home[c] /\ at'[c] = at[c]
  BY <1>0 DEF Flush, Reap, TakeOutbox, Send, SnapRoom, FindOrphans,
     UnlistOrphans, UnplugOrphans, Collect, Goto, locals
<1>2. enrolled'[c] \in {enrolled[c], None} /\ (c \in writers' => c \in writers)
  BY <1>0 DEF Flush, Reap, TakeOutbox, Send, SnapRoom, FindOrphans,
     UnlistOrphans, UnplugOrphans, Collect, shared
<1> QED BY <1>1, <1>2, SharedClients DEF Untouched

LEMMA SocketUntouched ==
  ASSUME TypeInv, NEW d \in Sockets, NEW c \in Sockets, c # d, Own(d) \/ Peer(d)
  PROVE  Untouched(c)
<1>0. /\ pc \in [Tasks -> Labels] /\ c \in Tasks /\ d \in Tasks
      /\ at \in [Tasks -> Codes \cup {None}]
      /\ home \in [Sockets -> Codes \cup {None}]
      /\ enrolled \in [Sockets -> Codes \cup {None}]
      /\ "gc" \in Labels /\ "drop" \in Labels
  BY DEF TypeInv, TypeOK, Tasks, Labels
<1>1. ASSUME Flush(d) \/ Reap(d) \/ Collect(d, "gc", "drop") PROVE Untouched(c)
  BY <1>0, <1>1, SharedUntouched
<1>2. ASSUME \/ CheckRoom(d) \/ Timeout(d) \/ UnwrapFails(d) \/ RoomFull(d)
             \/ Join(d) \/ Enroll(d) \/ Recheck(d) \/ LeaveRoom(d)
             \/ Forget(d) \/ Drop(d) \/ Accept(d) \/ Close(d) \/ Command(d)
             \/ (\E k \in Codes : Hello(d, k))
             \/ (\E e \in Sockets : KickOut(d, e))
      PROVE  Untouched(c)
  <2>1. pc'[c] = pc[c] /\ home'[c] = home[c] /\ at'[c] = at[c]
    BY <1>0, <1>2 DEF CheckRoom, Timeout, UnwrapFails, RoomFull, Join, Enroll,
       Recheck, LeaveRoom, Forget, Drop, Accept, Close, Command, Hello, KickOut,
       Goto, locals
  <2>2. enrolled'[c] \in {enrolled[c], None} /\ (c \in writers' => c \in writers)
    BY <1>0, <1>2 DEF CheckRoom, Timeout, UnwrapFails, RoomFull, Join, Enroll,
       Recheck, LeaveRoom, Forget, Drop, Accept, Close, Command, Hello, KickOut,
       shared
  <2>3. \A k \in Codes : c \in rooms'[k].clients => c \in rooms[k].clients
    BY SocketClients
  <2> QED BY <2>1, <2>2, <2>3 DEF Untouched
<1> QED BY <1>1, <1>2 DEF Own, Peer

LEMMA TickUntouched ==
  ASSUME TypeInv, NEW c \in Sockets, Tick
  PROVE  Untouched(c)
<1>0. /\ Ticker \in Tasks /\ c # Ticker /\ c \in Tasks /\ "idle" \in Labels
      /\ pc \in [Tasks -> Labels] /\ at \in [Tasks -> Codes \cup {None}]
  BY ServerAssumption DEF TypeInv, TypeOK, Tasks, Labels
<1>1. ASSUME NEW k \in Codes, TickRoom(k) PROVE Untouched(c)
  BY <1>0, <1>1 DEF TickRoom, Goto, shared, Untouched
<1> QED BY <1>0, <1>1, SharedUntouched DEF Tick

(***************************************************************************)
(* The steps of the socket's own task.                                     *)
(***************************************************************************)
LEMMA OwnAccounted ==
  ASSUME ~RepeatHello, TypeInv, NEW c \in Sockets, AccountedFor(c),
         Own(c) \/ Peer(c)
  PROVE  AccountedFor(c)'
<1> USE DEF AccountedFor
<1>0. /\ c \in Tasks /\ c # Ticker /\ None \notin Codes
      /\ pc \in [Tasks -> Labels] /\ at \in [Tasks -> Codes \cup {None}]
      /\ home \in [Sockets -> Codes \cup {None}]
      /\ enrolled \in [Sockets -> Codes \cup {None}]
      /\ rooms \in [Codes -> RoomRec]
  BY ServerAssumption DEF TypeInv, TypeOK, Tasks, RoomRec
<1>1. /\ pc[c] \in {"greet", "greetSend", "leave", "recheck"} => home[c] # None
      /\ pc[c] \in InARoom => at[c] \in Codes
  BY <1>0 DEF TypeInv, TasksKnow
<1>2. ASSUME NEW from, NEW to, TakeOutbox(c, from, to),
             \/ from = "greet" /\ to = "greetSend"
             \/ from = "take" /\ to = "send"
      PROVE  AccountedFor(c)'
  <2>1. \A k \in Codes : rooms'[k].clients \subseteq rooms[k].clients
    BY <1>0, <1>2, SharedClients DEF Flush
  <2> QED BY <1>0, <1>1, <1>2, <2>1 DEF TakeOutbox, Goto
<1>3. ASSUME \/ Send(c, "greetSend", "loop") \/ Send(c, "send", "snap")
      PROVE  AccountedFor(c)'
  BY <1>0, <1>1, <1>3 DEF Send, Goto, shared
<1>4. CASE SnapRoom(c)
  BY <1>0, <1>4 DEF SnapRoom, Goto, shared
<1>5. Resume(c) = IF home[c] = None THEN "forget" ELSE "recheck"
  BY <1>0 DEF Resume
<1>6. CASE FindOrphans(c)
  <2>1. /\ pc'[c] \in {"unlist", Resume(c)} /\ pc[c] = "find"
        /\ UNCHANGED <<rooms, writers, enrolled, home, at>>
    BY <1>0, <1>6 DEF FindOrphans, Goto, shared
  <2> QED BY <1>5, <2>1
<1>7. CASE UnlistOrphans(c)
  <2>1. /\ pc'[c] = "unplug" /\ pc[c] = "unlist"
        /\ UNCHANGED <<rooms, writers, home, at>>
    BY <1>0, <1>7 DEF UnlistOrphans, Goto, locals
  <2> QED BY <2>1
<1>8. CASE UnplugOrphans(c)
  <2>1. /\ pc'[c] = Resume(c) /\ pc[c] = "unplug"
        /\ UNCHANGED <<rooms, enrolled, home, at>>
    BY <1>0, <1>8 DEF UnplugOrphans, Goto
  <2> QED BY <1>5, <2>1
<1>9. CASE Collect(c, "gc", "drop")
  <2>1. "gc" \in Labels /\ "drop" \in Labels
    BY DEF Labels
  <2>2. \A k \in Codes : rooms'[k].clients \subseteq rooms[k].clients
    BY <1>0, <1>9, <2>1, SharedClients
  <2>3. /\ pc[c] = "gc" /\ pc'[c] = "drop"
        /\ UNCHANGED <<writers, enrolled, home, at>>
    BY <1>0, <1>9 DEF Collect, Goto, locals
  <2> QED BY <2>2, <2>3
<1>10. CASE Accept(c)
  BY <1>0, <1>10 DEF Accept, Goto, locals
<1>11. CASE CheckRoom(c)
  BY <1>0, <1>11 DEF CheckRoom, Goto, shared
<1>12. CASE Timeout(c) \/ Close(c) \/ UnwrapFails(c) \/ RoomFull(c)
  BY <1>0, <1>12 DEF Timeout, Close, UnwrapFails, RoomFull, Goto, shared, locals
<1>13. ASSUME NEW k \in Codes, Hello(c, k) PROVE AccountedFor(c)'
  <2>1. \A j \in Codes : rooms'[j].clients = rooms[j].clients
    BY <1>0, <1>13, RoomsEffect
  <2>2. /\ home[c] = None /\ pc[c] = "read" /\ pc'[c] = "join"
        /\ UNCHANGED <<writers, enrolled, home>>
    BY <1>0, <1>13 DEF Hello, Goto
  <2> QED BY <2>1, <2>2
<1>14. CASE Join(c)
  <2>1. /\ pc[c] = "join" /\ pc'[c] = "enroll" /\ at[c] \in Codes
        /\ UNCHANGED <<writers, enrolled, home, at>>
    BY <1>0, <1>1, <1>14 DEF Join, Goto, locals, InARoom
  <2>2. \A j \in Codes \ {at[c]} : rooms'[j].clients = rooms[j].clients
    BY <1>0, <1>14, <2>1, RoomsEffect
  <2> QED BY <2>1, <2>2
<1>15. CASE Enroll(c)
  <2>1. /\ pc[c] = "enroll" /\ pc'[c] = "greet" /\ at[c] \in Codes
        /\ home'[c] = at[c] /\ UNCHANGED <<rooms, writers, at>>
    BY <1>0, <1>1, <1>15 DEF Enroll, Goto, InARoom
  <2> QED BY <1>0, <2>1
<1>16. ASSUME Command(c) \/ \E d \in Sockets : KickOut(c, d)
       PROVE  AccountedFor(c)'
  <2>1. /\ pc[c] = "read" /\ pc'[c] = "take" /\ home[c] # None
        /\ UNCHANGED <<writers, enrolled, home, at>>
    BY <1>0, <1>16 DEF Command, KickOut, IsMember, Goto, locals
  <2>2. \A k \in Codes : rooms'[k].clients \subseteq rooms[k].clients
    BY <1>0, <1>16, <2>1, RoomsEffect
  <2> QED BY <2>1, <2>2
<1>17. CASE Recheck(c)
  <2>1. /\ pc[c] = "recheck" /\ pc'[c] \in {"loop", "leave"}
        /\ UNCHANGED <<rooms, writers, home, at>>
    BY <1>0, <1>17 DEF Recheck, Goto, locals
  <2> QED BY <1>1, <2>1
<1>18. CASE LeaveRoom(c)
  <2>1. /\ pc[c] = "leave" /\ pc'[c] = "take" /\ home[c] \in Codes
        /\ UNCHANGED <<writers, enrolled>>
    BY <1>0, <1>1, <1>18 DEF LeaveRoom, Goto
  <2>2. /\ \A k \in Codes : rooms'[k].clients \subseteq rooms[k].clients
        /\ c \notin rooms'[home[c]].clients
    BY <1>0, <1>18, <2>1, RoomsEffect
  <2> QED BY <2>1, <2>2
<1>19. CASE Forget(c)
  <2>1. /\ pc[c] = "forget" /\ pc'[c] = "gc" /\ enrolled'[c] = None
        /\ UNCHANGED <<rooms, writers, home, at>>
    BY <1>0, <1>19 DEF Forget, Goto, locals
  <2> QED BY <2>1
<1>20. CASE Drop(c)
  <2>1. /\ pc[c] = "drop" /\ pc'[c] = "done" /\ c \notin writers'
        /\ UNCHANGED <<rooms, enrolled, home, at>>
    BY <1>0, <1>20 DEF Drop, Goto, locals
  <2> QED BY <2>1
<1> HIDE DEF AccountedFor
<1>21. Own(c) => AccountedFor(c)'
  BY <1>2, <1>3, <1>4, <1>6, <1>7, <1>8, <1>9, <1>11, <1>12, <1>14, <1>15,
     <1>17, <1>18, <1>19, <1>20 DEF Own, Flush, Reap
<1>22. Peer(c) => AccountedFor(c)'
  BY <1>10, <1>12, <1>13, <1>16 DEF Peer
<1> QED BY <1>21, <1>22

(***************************************************************************)
(* A socket that has ended is in no room, not enrolled and has no writer,  *)
(* however its end interleaves with kicks and with the reaping of other    *)
(* tasks.  With a repeated HELLO it would stay in its first room (end of   *)
(* handle_socket).                                                         *)
(***************************************************************************)
THEOREM EndSafe ==
  ASSUME ~RepeatHello
  PROVE  Spec => []EndedLeavesNothing
<1>1. Init => Accounted
  BY DEF Init, Accounted, AccountedFor, Closed, Tasks
<1>2. TypeInv /\ Accounted /\ [Next]_vars => Accounted'
  <2> SUFFICES ASSUME TypeInv, Accounted, [Next]_vars, NEW c \in Sockets
               PROVE  AccountedFor(c)'
    BY DEF Accounted
  <2>1. AccountedFor(c)
    BY DEF Accounted
  <2>2. ASSUME NEW d \in Sockets, Own(d) \/ Peer(d) PROVE AccountedFor(c)'
    <3>1. CASE d = c
      BY <2>1, <2>2, <3>1, OwnAccounted
    <3>2. CASE d # c
      BY <2>1, <2>2, <3>2, SocketUntouched, UntouchedKeeps
    <3> QED BY <3>1, <3>2
  <2>3. CASE Tick
    BY <2>1, <2>3, TickUntouched, UntouchedKeeps
  <2>4. CASE UNCHANGED vars
    BY <2>1, <2>4 DEF vars, shared, locals, AccountedFor
  <2> QED BY <2>2, <2>3, <2>4 DEF Next
<1>3. TypeInv /\ Accounted => EndedLeavesNothing
  <2> SUFFICES ASSUME TypeInv, Accounted, NEW c \in Sockets, pc[c] = "done"
               PROVE  /\ c \notin writers /\ enrolled[c] = None
                      /\ \A k \in Codes : c \notin rooms[k].clients
    BY DEF EndedLeavesNothing
  <2>1. AccountedFor(c) /\ None \notin Codes
    BY ServerAssumption DEF Accounted
  <2> QED BY <2>1 DEF AccountedFor
<1> QED BY <1>1, <1>2, <1>3, TypeAlways, PTL DEF Spec
=============================================================================
