----------------------------- MODULE NetClient -----------------------------
(***************************************************************************)
(* The connection of the client (src/net/client.js): one MultiplayerClient *)
(* object, the sockets it opens one after the other, and the timers and    *)
(* event handlers through which they share its fields.  The application    *)
(* makes a new object for each connect, so Connect happens once here.      *)
(*                                                                         *)
(* Every action is one task of the browser's event loop.  A rejected       *)
(* promise runs its catch in a microtask, before the next task; when a     *)
(* connection fails the browser fires its error event and then its close   *)
(* event, with the microtasks of the first in between.                     *)
(*                                                                         *)
(* Left out: the delays of the back-off and the ping's contents (data),    *)
(* sequence numbers and the resync they ask for, the roster (a message of  *)
(* CoopBoard), and a URL the constructor of WebSocket throws on.           *)
(***************************************************************************)
EXTENDS Naturals

CONSTANTS
  Sockets,      \* WebSocket objects; one that has closed is used again
  None,         \* no socket, a null handle
  MaxOutages    \* how often the network may go down

ASSUME NoneIsNoSocket == None \notin Sockets
ASSUME OutagesNat == MaxOutages \in Nat

VARIABLES
  st,        \* the fields of the object, its sockets, and pending catches
  due,       \* a socket whose error event has fired: its close event is next
  up,        \* whether the server can be reached
  outages    \* outages so far

vars == <<st, due, up, outages>>

(***************************************************************************)
(* A socket with the closure of _openSocket: is it a reconnect, has the    *)
(* promise settled; and what the server knows: was HELLO sent on it, was   *)
(* it answered by WELCOME.  Phase "failing" stands for a connection that   *)
(* was refused, lost, or closed while connecting (error and close event    *)
(* to come), "closing" for one that only gets its close event.             *)
(***************************************************************************)
Phases == {"idle", "connecting", "open", "closing", "failing"}

SocketType == [phase : Phases, retry : BOOLEAN, settled : BOOLEAN,
               hello : BOOLEAN, welcomed : BOOLEAN]

IdleSocket == [phase |-> "idle", retry |-> FALSE, settled |-> TRUE,
               hello |-> FALSE, welcomed |-> FALSE]

StType == [ws : Sockets \cup {None}, connected : BOOLEAN, joined : BOOLEAN,
           want : BOOLEAN, user : BOOLEAN, retryT : BOOLEAN, pingT : BOOLEAN,
           helloT : Sockets \cup {None}, live : SUBSET Sockets,
           catch : BOOLEAN, sock : [Sockets -> SocketType]]

TypeOK ==
  /\ st \in StType
  /\ due \in Sockets \cup {None}
  /\ up \in BOOLEAN
  /\ outages \in 0..MaxOutages

\* helloT is the handle _helloTimer, the socket whose closure set it; live
\* are the hello timers that will fire, held by the handle or not.
Init ==
  /\ st = [ws |-> None, connected |-> FALSE, joined |-> FALSE,
           want |-> FALSE, user |-> FALSE, retryT |-> FALSE, pingT |-> FALSE,
           helloT |-> None, live |-> {}, catch |-> FALSE,
           sock |-> [s \in Sockets |-> IdleSocket]]
  /\ due = None
  /\ up = TRUE
  /\ outages = 0

----------------------------------------------------------------------------
(***************************************************************************)
(* The methods and closures, on the record m of the object's state.        *)
(***************************************************************************)
ClearHello(m) == [m EXCEPT !.live = @ \ {m.helloT}, !.helloT = None]

\* Mutant: the retry and the heartbeat are cleared, the hello timer is not.
ClearTimers_NoHello(m) == [m EXCEPT !.retryT = FALSE, !.pingT = FALSE]

ClearTimers(m) == [ClearHello(m) EXCEPT !.retryT = FALSE, !.pingT = FALSE]

\* Mutant: only a disconnect by the user stops the retries.
ScheduleReconnect_Unwanted(m) ==
  IF m.user THEN m ELSE [m EXCEPT !.retryT = TRUE]

ScheduleReconnect(m) ==
  IF m.user \/ ~m.want THEN m ELSE [m EXCEPT !.retryT = TRUE]

\* Mutant: an open socket counts as closed at once.
CloseSocket_AtOnce(m) ==
  IF m.ws # None /\ m.sock[m.ws].phase = "open"
  THEN [m EXCEPT !.sock[m.ws].phase = "closed"] ELSE m

\* Mutant: a socket that is still connecting is left alone.
CloseSocket_OnlyOpen(m) ==
  IF m.ws # None /\ m.sock[m.ws].phase = "open"
  THEN [m EXCEPT !.sock[m.ws].phase = "closing"] ELSE m

\* ws.close() of the browser: open sockets get a close event, connecting
\* ones fail.
CloseSocket(m) ==
  LET closed == [connecting |-> "failing", open |-> "closing"]
  IN IF m.ws # None /\ m.sock[m.ws].phase \in DOMAIN closed
     THEN [m EXCEPT !.sock[m.ws].phase = closed[@]]
     ELSE m

OpenSocket(m, s, retry) ==
  [m EXCEPT !.ws = s, !.joined = FALSE, !.helloT = s, !.live = @ \cup {s},
            !.sock[s] = [IdleSocket EXCEPT !.phase = "connecting",
                                           !.retry = retry,
                                           !.settled = FALSE]]

SettleOk(m, s) ==
  IF m.sock[s].settled THEN m
  ELSE [ClearHello(m) EXCEPT !.sock[s].settled = TRUE]

\* Only the promise of a reconnect has a catch that changes the object.
SettleFail(m, s, fatal) ==
  IF m.sock[s].settled THEN m
  ELSE CloseSocket([ClearHello(m) EXCEPT
         !.sock[s].settled = TRUE,
         !.want = @ /\ m.sock[s].retry /\ ~fatal,
         !.joined = FALSE, !.connected = FALSE,
         !.catch = @ \/ m.sock[s].retry])

\* send(HELLO) goes to the current socket, if that one is open.
OnOpen(m, s) ==
  LET c == [m EXCEPT !.connected = TRUE, !.sock[s].phase = "open"]
  IN IF c.ws # None /\ c.sock[c.ws].phase = "open"
     THEN [c EXCEPT !.sock[c.ws].hello = TRUE] ELSE c

\* Mutant: joined is read after it was reset.
OnClose_JoinedReset(m, s) ==
  LET c == [ClearTimers(m) EXCEPT !.connected = FALSE, !.joined = FALSE]
  IN IF ~c.sock[s].settled THEN SettleFail(c, s, FALSE)
     ELSE IF ~c.user /\ c.want /\ c.joined THEN ScheduleReconnect(c)
     ELSE c

\* Mutant: a connection closed before it was welcomed is not settled.
OnClose_Unsettled(m, s) ==
  LET c == [ClearTimers(m) EXCEPT !.connected = FALSE, !.joined = FALSE]
  IN IF ~m.user /\ m.want /\ m.joined THEN ScheduleReconnect(c) ELSE c

OnClose(m, s) ==
  LET c == [ClearTimers(m) EXCEPT !.connected = FALSE, !.joined = FALSE]
  IN IF ~m.sock[s].settled THEN SettleFail(c, s, FALSE)
     ELSE IF ~m.user /\ m.want /\ m.joined THEN ScheduleReconnect(c)
     ELSE c

OnWelcome(m, s) ==
  SettleOk([m EXCEPT !.joined = TRUE, !.pingT = TRUE,
                     !.sock[s].welcomed = TRUE], s)

\* An ERROR before WELCOME: bad_room or room_full, both fatal; after it the
\* closure does nothing.
OnRefusal(m, s) == IF m.joined THEN m ELSE SettleFail(m, s, TRUE)

\* Mutant: hello_timeout is missing from HELLO_FAIL_CODES.
OnHelloTimer_NotFatal(m, s) ==
  LET c == [m EXCEPT !.live = @ \ {s}]
  IN IF m.joined \/ m.sock[s].settled THEN c ELSE SettleFail(c, s, FALSE)

OnHelloTimer(m, s) ==
  LET c == [m EXCEPT !.live = @ \ {s}]
  IN IF m.joined \/ m.sock[s].settled THEN c ELSE SettleFail(c, s, TRUE)

----------------------------------------------------------------------------
(***************************************************************************)
(* The tasks.  None runs while a catch is pending or a close event is due. *)
(***************************************************************************)
NextTask == ~st.catch /\ due = None

Fresh(s) == st.sock[s].phase = "idle" /\ s \notin st.live

Connect ==
  /\ NextTask /\ ~st.user /\ st.ws = None
  /\ \E s \in Sockets :
       st' = OpenSocket([st EXCEPT !.want = TRUE], s, FALSE)
  /\ UNCHANGED <<due, up, outages>>

\* disconnect(), from the user, from KICKED, or before the next connect.
Disconnect ==
  /\ NextTask /\ ~st.user /\ st.ws # None
  /\ st' = [CloseSocket(ClearTimers([st EXCEPT !.user = TRUE,
                                               !.want = FALSE]))
              EXCEPT !.ws = None, !.connected = FALSE, !.joined = FALSE]
  /\ UNCHANGED <<due, up, outages>>

Opened(s) ==
  /\ NextTask /\ up /\ st.sock[s].phase = "connecting"
  /\ st' = OnOpen(st, s)
  /\ UNCHANGED <<due, up, outages>>

\* onerror: of a failed connection, or of one the outage cuts.
ErrorEvent(s) ==
  /\ NextTask
  /\ \/ st.sock[s].phase = "failing"
     \/ ~up /\ st.sock[s].phase \in {"connecting", "open"}
  /\ st' = SettleFail([st EXCEPT !.sock[s].phase = "failing"], s, FALSE)
  /\ due' = s
  /\ UNCHANGED <<up, outages>>

\* onclose: after onerror, of a socket that was closed, of one the outage
\* cuts, and of a joined one the server closes.
CloseEvent(s) ==
  /\ ~st.catch
  /\ \/ due = s
     \/ /\ due = None
        /\ \/ st.sock[s].phase = "closing"
           \/ st.sock[s].phase = "open" /\ (~up \/ st.sock[s].welcomed)
  /\ LET c == OnClose([st EXCEPT !.sock[s].phase = "closing"], s)
     IN st' = [c EXCEPT !.sock[s] =
                 [IdleSocket EXCEPT !.settled = c.sock[s].settled]]
  /\ due' = None
  /\ UNCHANGED <<up, outages>>

RunCatch ==
  /\ st.catch
  /\ st' = [ScheduleReconnect(st) EXCEPT !.catch = FALSE]
  /\ UNCHANGED <<due, up, outages>>

RetryTimer ==
  /\ NextTask /\ st.retryT
  /\ \E s \in Sockets :
       Fresh(s) /\ st' = OpenSocket([st EXCEPT !.retryT = FALSE], s, TRUE)
  /\ UNCHANGED <<due, up, outages>>

HelloTimer(s) ==
  /\ NextTask /\ s \in st.live
  /\ st' = OnHelloTimer(st, s)
  /\ UNCHANGED <<due, up, outages>>

\* The server answers a HELLO once; messages reach open sockets only.
Answer(s) ==
  /\ NextTask
  /\ st.sock[s].phase = "open" /\ st.sock[s].hello /\ ~st.sock[s].welcomed
  /\ st' \in {OnWelcome(st, s), OnRefusal(st, s)}
  /\ UNCHANGED <<due, up, outages>>

Outage ==
  /\ up /\ outages < MaxOutages
  /\ up' = FALSE /\ outages' = outages + 1
  /\ UNCHANGED <<st, due>>

Recovery == ~up /\ up' = TRUE /\ UNCHANGED <<st, due, outages>>

SocketTask(s) ==
  Opened(s) \/ ErrorEvent(s) \/ CloseEvent(s) \/ HelloTimer(s) \/ Answer(s)

Next ==
  \/ Connect \/ Disconnect \/ RunCatch \/ RetryTimer
  \/ Outage \/ Recovery
  \/ \E s \in Sockets : SocketTask(s)

Spec == Init /\ [][Next]_vars

(***************************************************************************)
(* Timers fire, microtasks run, a closed or failed socket gets its events, *)
(* a reachable server accepts and answers, and outages end.  Neither the   *)
(* user nor an outage is ever obliged to come.                             *)
(***************************************************************************)
FairSpec ==
  /\ Spec
  /\ WF_vars(RunCatch) /\ WF_vars(RetryTimer) /\ WF_vars(Recovery)
  /\ \A s \in Sockets :
       /\ WF_vars(Opened(s)) /\ WF_vars(Answer(s)) /\ WF_vars(HelloTimer(s))
       /\ WF_vars(ErrorEvent(s) /\ st.sock[s].phase = "failing")
       /\ WF_vars(CloseEvent(s) /\ (due = s \/ st.sock[s].phase = "closing"))

----------------------------------------------------------------------------
(***************************************************************************)
(* Properties.                                                             *)
(***************************************************************************)

\* Client and server agree on the connection: a socket the server has
\* welcomed and that is open is the current one, the client counts as
\* joined, and its heartbeat runs (onclose of another socket would reset
\* the shared flags and timers and the server would reap the client).
ViewAgrees ==
  \A s \in Sockets :
    st.sock[s].phase = "open" /\ st.sock[s].welcomed =>
      st.ws = s /\ st.connected /\ st.joined /\ st.pingT

\* At most one socket is connecting or open, and it is the current one:
\* the client never joins a room twice.
OneLiveSocket ==
  \A s \in Sockets :
    st.sock[s].phase \in {"connecting", "open"} => st.ws = s

\* After disconnect() nothing of the client comes back: no timer is armed,
\* no socket is live, and it is neither connected nor joined.
QuietAfterDisconnect ==
  st.user => /\ ~st.retryT /\ ~st.pingT /\ st.live = {}
             /\ ~st.connected /\ ~st.joined /\ st.ws = None
             /\ \A s \in Sockets :
                  st.sock[s].phase \in {"idle", "closing", "failing"}

\* A socket is opened only while a connection is wanted: a refused HELLO, a
\* failed first connect and disconnect() end the attempts for good
\* ("Failed HELLO must not loop forever on a dead/missing room").
NoUnwantedSocket ==
  [][\A s \in Sockets :
       st.sock[s].phase = "idle" /\ st'.sock[s].phase = "connecting"
         => st'.want /\ ~st'.user]_vars

\* Losing a joined connection that nobody asked to end arms the retry, even
\* when an error event came before the close event.
LossIsRetried ==
  [][st.joined /\ ~st'.joined /\ ~st'.user => st'.want /\ st'.retryT]_vars

\* The promise of every connection attempt settles: connect() never leaves
\* its caller waiting.
AttemptSettles ==
  \A s \in Sockets : ~st.sock[s].settled ~> st.sock[s].settled

\* While a connection is wanted the client goes on trying until it has
\* joined or was refused (the back-off of _scheduleReconnect).
RetriesUntilJoined == st.want ~> (st.joined \/ ~st.want)
=============================================================================
