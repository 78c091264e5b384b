----------------------------- MODULE RoomServer -----------------------------
(***************************************************************************)
(* The server around the rooms (server/src/main.rs): one task per socket   *)
(* and the tick task share three maps, each behind a mutex of its own:     *)
(*   rooms       code   -> room     (here: its clients and its outbox),    *)
(*   writers     client -> sender   (AppState.clients),                    *)
(*   enrolled    client -> code     (AppState.membership).                 *)
(* No code path holds the lock of rooms while it takes another one, so an  *)
(* action is the section between two locks and the tasks interleave there. *)
(*                                                                         *)
(* Of a room, a handler's effect is abstracted to who leaves and to what   *)
(* is queued: a WELCOME for one client (the client's id stands for it) and *)
(* broadcasts ("roster").  An empty room runs no session (EmptyRoomIsIdle  *)
(* of Room.tla), so the collector looks at the clients only.               *)
(***************************************************************************)
EXTENDS Naturals, FiniteSets

CONSTANTS
  Sockets,        \* sockets, each with the client id it was given
  Codes,          \* room codes
  Ticker,         \* the tick task
  None,
  Limits,         \* values of MAX_CONNECTIONS to check
  RepeatHello,    \* may a client that has joined send HELLO again?
  MaxInputs       \* bound of the messages that clients send

ASSUME ServerAssumption ==
  /\ Ticker \notin Sockets /\ None \notin Sockets \cup Codes
  /\ Limits \subseteq Nat \ {0}
  /\ RepeatHello \in BOOLEAN
  /\ MaxInputs \in Nat

Tasks == Sockets \cup {Ticker}

VARIABLES
  rooms,    \* AppState.rooms
  writers,  \* keys of AppState.clients
  enrolled, \* AppState.membership
  heard,    \* sockets that a roster has reached
  pc,       \* where each task is between two locked sections
  home,     \* room_code of a socket's task
  at,       \* the room a task works on
  batch,    \* messages taken from an outbox and not sent yet
  inRoom,   \* reap_orphans: the clients seen in the room
  orphans,  \* reap_orphans: the clients to drop
  inputs,   \* messages received so far, bounded by MaxInputs
  limit     \* MAX_CONNECTIONS, a constant of the program

shared == <<rooms, writers, enrolled, limit>>
locals == <<home, at, batch, inRoom, orphans>>
vars == <<shared, heard, pc, locals, inputs>>

Closed == [open |-> FALSE, clients |-> {}, out |-> {}]

Labels == {"new", "loop", "read", "join", "enroll", "greet", "greetSend", "take",
           "send", "snap",
           "find", "unlist", "unplug", "recheck", "leave", "forget", "gc",
           "drop", "done", "panic", "idle"}

TickLabels == {"idle", "take", "send", "snap", "find", "unlist", "unplug"}

TypeOK ==
  /\ rooms \in [Codes -> [open : BOOLEAN, clients : SUBSET Sockets,
                          out : SUBSET (Sockets \cup {"roster"})]]
  /\ writers \subseteq Sockets
  /\ enrolled \in [Sockets -> Codes \cup {None}]
  /\ heard \subseteq Sockets
  /\ pc \in [Tasks -> Labels]
  /\ pc[Ticker] \in TickLabels /\ \A c \in Sockets : pc[c] # "idle"
  /\ home \in [Sockets -> Codes \cup {None}]
  /\ at \in [Tasks -> Codes \cup {None}]
  /\ batch \in [Tasks -> SUBSET (Sockets \cup {"roster"})]
  /\ inRoom \in [Tasks -> SUBSET Sockets]
  /\ orphans \in [Tasks -> SUBSET Sockets]
  /\ inputs \in 0..MaxInputs
  /\ limit \in Limits

Init ==
  /\ rooms = [k \in Codes |-> Closed]
  /\ writers = {}
  /\ enrolled = [c \in Sockets |-> None]
  /\ heard = {}
  /\ pc = [t \in Tasks |-> IF t = Ticker THEN "idle" ELSE "new"]
  /\ home = [c \in Sockets |-> None]
  /\ at = [t \in Tasks |-> None]
  /\ batch = [t \in Tasks |-> {}]
  /\ inRoom = [t \in Tasks |-> {}]
  /\ orphans = [t \in Tasks |-> {}]
  /\ inputs = 0
  /\ limit \in Limits

Goto(t, from, to) == pc[t] = from /\ pc' = [pc EXCEPT ![t] = to]

Receive == inputs < MaxInputs /\ inputs' = inputs + 1

(* c is in the room of its task.                                           *)
IsMember(c) == home[c] # None /\ c \in rooms[home[c]].clients

-----------------------------------------------------------------------------
(* The socket's task (handle_socket)                                       *)

Accept(c) ==
  /\ Goto(c, "new", "loop")
  /\ writers' = writers \cup {c}
  /\ UNCHANGED <<limit, rooms, enrolled, heard, locals, inputs>>

(* Mutant: the loop does not look whether the client was kicked.           *)
CheckRoom_Skipped(c) ==
  /\ Goto(c, "loop", "read")
  /\ at' = [at EXCEPT ![c] = home[c]]
  /\ UNCHANGED <<shared, heard, home, batch, inRoom, orphans, inputs>>

(* Top of the loop: a client that is no longer in its room stops.          *)
CheckRoom(c) ==
  /\ Goto(c, "loop",
          IF home[c] # None /\ ~IsMember(c) THEN "leave" ELSE "read")
  /\ at' = [at EXCEPT ![c] = home[c]]
  /\ UNCHANGED <<shared, heard, home, batch, inRoom, orphans, inputs>>

(* Nothing arrives for 250 ms.                                             *)
Timeout(c) ==
  /\ Goto(c, "read", "loop")
  /\ UNCHANGED <<shared, heard, locals, inputs>>

(* The peer closes, or sends what ends the connection.                     *)
Close(c) ==
  /\ Goto(c, "read", IF home[c] = None THEN "drop" ELSE "leave")
  /\ UNCHANGED <<shared, heard, locals, inputs>>

(***************************************************************************)
(* HELLO: get_or_create_room(k), then in a second section                  *)
(* rooms.get_mut(&code).unwrap() and join, then membership.insert.  The    *)
(* early answer "room is full" in between only gives up sooner.            *)
(***************************************************************************)
Hello(c, k) ==
  /\ home[c] = None \/ RepeatHello
  /\ Receive
  /\ Goto(c, "read", "join")
  /\ rooms' = [rooms EXCEPT ![k].open = TRUE]
  /\ at' = [at EXCEPT ![c] = k]
  /\ UNCHANGED <<limit, writers, enrolled, heard, home, batch, inRoom, orphans>>

UnwrapFails(c) ==
  /\ Goto(c, "join", "panic")
  /\ ~rooms[at[c]].open
  /\ UNCHANGED <<shared, heard, locals, inputs>>

(* Mutant: the check before the join, in a section of its own, is enough.  *)
HasSpace_Trusted(k) == TRUE

(* Room.join checks again, under the lock under which it adds the client.  *)
HasSpace(k) == Cardinality(rooms[k].clients) < limit

RoomFull(c) ==
  /\ Goto(c, "join", "loop")
  /\ rooms[at[c]].open
  /\ ~HasSpace(at[c])
  /\ UNCHANGED <<shared, heard, locals, inputs>>

Join(c) ==
  /\ Goto(c, "join", "enroll")
  /\ rooms[at[c]].open
  /\ HasSpace(at[c])
  /\ rooms' = [rooms EXCEPT ![at[c]].clients = @ \cup {c},
                            ![at[c]].out = @ \cup {c, "roster"}]
  /\ UNCHANGED <<limit, writers, enrolled, heard, locals, inputs>>

Enroll(c) ==
  /\ Goto(c, "enroll", "greet")
  /\ enrolled' = [enrolled EXCEPT ![c] = at[c]]
  /\ home' = [home EXCEPT ![c] = at[c]]
  /\ UNCHANGED <<limit, rooms, writers, heard, at, batch, inRoom, orphans, inputs>>

(* Any other message of a joined client: the room broadcasts an answer.    *)
Command(c) ==
  /\ home[c] # None
  /\ Receive
  /\ Goto(c, "read", "take")
  /\ rooms' = IF rooms[home[c]].open
              THEN [rooms EXCEPT ![home[c]].out = @ \cup {"roster"}]
              ELSE rooms
  /\ UNCHANGED <<limit, writers, enrolled, heard, locals>>

(* KICK by an admin: the room drops the client, its task finds out later.  *)
KickOut(c, d) ==
  /\ IsMember(c)
  /\ d \in rooms[home[c]].clients \ {c}
  /\ Receive
  /\ Goto(c, "read", "take")
  /\ rooms' = [rooms EXCEPT ![home[c]].clients = @ \ {d},
                            ![home[c]].out = @ \cup {"roster"}]
  /\ UNCHANGED <<limit, writers, enrolled, heard, locals>>

(* After a command: a client that the command removed stops.  Only its own *)
(* task adds a client to a room, so the two sections of this are one.      *)
Recheck(c) ==
  /\ Goto(c, "recheck", IF IsMember(c) THEN "loop" ELSE "leave")
  /\ enrolled' = IF IsMember(c) THEN enrolled
                 ELSE [enrolled EXCEPT ![c] = None]
  /\ UNCHANGED <<limit, rooms, writers, heard, locals, inputs>>

(* The end of a joined socket: Room.leave, flush, reap, forget, collect.   *)
LeaveRoom(c) ==
  /\ Goto(c, "leave", "take")
  /\ LET k    == home[c]
         rest == rooms[k].clients \ {c}
     IN  rooms' = [rooms EXCEPT ![k].clients = rest,
                     ![k].out = IF c \in rooms[k].clients /\ rest # {}
                                THEN @ \cup {"roster"} ELSE @]
  /\ at' = [at EXCEPT ![c] = home[c]]
  /\ home' = [home EXCEPT ![c] = None]
  /\ UNCHANGED <<limit, writers, enrolled, heard, batch, inRoom, orphans, inputs>>

Forget(c) ==
  /\ Goto(c, "forget", "gc")
  /\ enrolled' = [enrolled EXCEPT ![c] = None]
  /\ UNCHANGED <<limit, rooms, writers, heard, locals, inputs>>

(* Mutant: an ended socket relies on the others to reap its writer.        *)
Drop_NoRemove(c) ==
  /\ Goto(c, "drop", "done")
  /\ UNCHANGED <<shared, heard, locals, inputs>>

Drop(c) ==
  /\ Goto(c, "drop", "done")
  /\ writers' = writers \ {c}
  /\ UNCHANGED <<limit, rooms, enrolled, heard, locals, inputs>>

-----------------------------------------------------------------------------
(* flush_outbox: take the outbox under the lock of rooms, send it under    *)
(* those of clients and membership.                                        *)

(* Mutant: the outbox is cleared before it is copied.                      *)
TakeOutbox_Cleared(t, from, to) ==
  /\ Goto(t, from, to)
  /\ batch' = [batch EXCEPT ![t] = {}]
  /\ rooms' = [rooms EXCEPT ![at[t]].out = {}]
  /\ UNCHANGED <<limit, writers, enrolled, heard, home, at, inRoom, orphans, inputs>>

TakeOutbox(t, from, to) ==
  /\ Goto(t, from, to)
  /\ batch' = [batch EXCEPT ![t] = rooms[at[t]].out]
  /\ rooms' = [rooms EXCEPT ![at[t]].out = {}]
  /\ UNCHANGED <<limit, writers, enrolled, heard, home, at, inRoom, orphans, inputs>>

(* A broadcast reaches the writers that are enrolled in the room by now.   *)
Send(t, from, to) ==
  /\ Goto(t, from, to)
  /\ heard' = heard \cup
       IF "roster" \in batch[t]
       THEN {c \in writers : enrolled[c] = at[t]} ELSE {}
  /\ batch' = [batch EXCEPT ![t] = {}]
  /\ UNCHANGED <<shared, home, at, inRoom, orphans, inputs>>

-----------------------------------------------------------------------------
(* reap_orphans                                                            *)

SnapRoom(t) ==
  /\ Goto(t, "snap", "find")
  /\ inRoom' = [inRoom EXCEPT ![t] = rooms[at[t]].clients]
  /\ UNCHANGED <<shared, heard, home, at, batch, orphans, inputs>>

(* Where a task goes on: the tick, the end of a socket, or its next turn.  *)
(* Mutant: a socket's task stops as the tick does.                         *)
Resume_Idle(t) == "idle"

Resume(t) ==
  IF t = Ticker THEN "idle" ELSE IF home[t] = None THEN "forget" ELSE "recheck"

FindOrphans(t) ==
  LET found == {c \in Sockets : enrolled[c] = at[t]} \ inRoom[t]
  IN
  /\ Goto(t, "find", IF found = {} THEN Resume(t) ELSE "unlist")
  /\ orphans' = [orphans EXCEPT ![t] = found]
  /\ inRoom' = [inRoom EXCEPT ![t] = {}]
  /\ UNCHANGED <<shared, heard, home, at, batch, inputs>>

UnlistOrphans(t) ==
  /\ Goto(t, "unlist", "unplug")
  /\ enrolled' = [c \in Sockets |-> IF c \in orphans[t] THEN None
                                    ELSE enrolled[c]]
  /\ UNCHANGED <<limit, rooms, writers, heard, locals, inputs>>

UnplugOrphans(t) ==
  /\ Goto(t, "unplug", Resume(t))
  /\ writers' = writers \ orphans[t]
  /\ orphans' = [orphans EXCEPT ![t] = {}]
  /\ UNCHANGED <<limit, rooms, enrolled, heard, home, at, batch, inRoom, inputs>>

-----------------------------------------------------------------------------
(* gc_empty_rooms, and the tick task                                       *)

Collect(t, from, to) ==
  /\ Goto(t, from, to)
  /\ rooms' = [k \in Codes |-> IF rooms[k].clients = {} THEN Closed
                               ELSE rooms[k]]
  /\ UNCHANGED <<limit, writers, enrolled, heard, locals, inputs>>

(* One open room of a tick; Room.tick broadcasts only while a session is   *)
(* active, which adds no interleaving to those of the commands.            *)
TickRoom(k) ==
  /\ Goto(Ticker, "idle", "take")
  /\ rooms[k].open
  /\ at' = [at EXCEPT ![Ticker] = k]
  /\ UNCHANGED <<shared, heard, home, batch, inRoom, orphans, inputs>>

-----------------------------------------------------------------------------
(* A step that a task takes by itself, whatever its peer does.             *)
Flush(t) ==
  \/ TakeOutbox(t, "greet", "greetSend") \/ Send(t, "greetSend", "loop")
  \/ TakeOutbox(t, "take", "send") \/ Send(t, "send", "snap")

Reap(t) ==
  SnapRoom(t) \/ FindOrphans(t) \/ UnlistOrphans(t) \/ UnplugOrphans(t)

Own(c) ==
  \/ CheckRoom(c) \/ Timeout(c)
  \/ UnwrapFails(c) \/ RoomFull(c) \/ Join(c) \/ Enroll(c)
  \/ Flush(c) \/ Reap(c) \/ Recheck(c)
  \/ LeaveRoom(c) \/ Forget(c) \/ Collect(c, "gc", "drop") \/ Drop(c)

Peer(c) ==
  \/ Accept(c) \/ Close(c) \/ Command(c)
  \/ \E k \in Codes : Hello(c, k)
  \/ \E d \in Sockets : KickOut(c, d)

Tick ==
  \/ \E k \in Codes : TickRoom(k)
  \/ Flush(Ticker) \/ Reap(Ticker)
  \/ Collect(Ticker, "idle", "idle")

Next == Tick \/ \E c \in Sockets : Own(c) \/ Peer(c)

Spec == Init /\ [][Next]_vars

(***************************************************************************)
(* The runtime schedules every task that can go on, a socket that hears    *)
(* nothing times out, and the tick visits every room.  Nothing is assumed  *)
(* of the peers.                                                           *)
(***************************************************************************)
Fairness ==
  /\ \A c \in Sockets : WF_vars(Own(c))
  /\ WF_vars(Flush(Ticker) \/ Reap(Ticker))
  /\ \A k \in Codes : SF_vars(TickRoom(k))

FairSpec == Spec /\ Fairness

-----------------------------------------------------------------------------
(***************************************************************************)
(* A socket that has ended has left nothing behind in any of the three     *)
(* maps, however its end interleaves with kicks, with the reaping of other *)
(* tasks and with the collection of its room (end of handle_socket).       *)
(***************************************************************************)
EndedLeavesNothing ==
  \A c \in Sockets : pc[c] = "done" =>
    /\ c \notin writers
    /\ enrolled[c] = None
    /\ \A k \in Codes : c \notin rooms[k].clients

(***************************************************************************)
(* A room never holds more clients than its limit, although the socket's   *)
(* task looks at the number of clients, creates the room and joins in      *)
(* different critical sections (HELLO, Room.join).                         *)
(***************************************************************************)
RoomWithinLimit == \A k \in Codes : Cardinality(rooms[k].clients) <= limit

(***************************************************************************)
(* A client that its room has dropped is disconnected, even if it never    *)
(* sends again ("Exit promptly after kick"): its task ends.                *)
(***************************************************************************)
KickedSocketEnds ==
  \A c \in Sockets : (home[c] # None /\ ~IsMember(c)) ~> (pc[c] = "done")

(***************************************************************************)
(* A roster queued while a client is enrolled reaches it, or the client    *)
(* goes: whichever task takes the batch, it is sent (flush_outbox).        *)
(***************************************************************************)
RosterReaches ==
  \A c \in Sockets, k \in Codes :
    (enrolled[c] = k /\ c \in writers /\ "roster" \in rooms[k].out)
      ~> (c \in heard \/ enrolled[c] # k \/ c \notin writers)
=============================================================================
