--------------------------- MODULE NetClientProofs ---------------------------
(***************************************************************************)
(* Proofs about NetClient, for any set of sockets and any number of        *)
(* outages.  First what each method does to the object, as lemmas about a  *)
(* record m; then one lemma per task of the event loop, which shows that   *)
(* the task keeps the invariant and makes no forbidden move; then the      *)
(* theorems.                                                               *)
(***************************************************************************)
EXTENDS NetClient, TLAPS

Idle(s) == st.sock[s].phase = "idle"

(***************************************************************************)
(* What the handlers of a socket rely on.  Only the current socket is in   *)
(* use, until disconnect() gives it up; its timer is the one the handle    *)
(* holds.  The last conjunct is what makes a retry safe: while a retry is  *)
(* armed or about to be armed no socket is in use but one whose close      *)
(* event is due, so that no close event can hit the socket that the retry  *)
(* will open.                                                              *)
(***************************************************************************)
SocketInv(s) ==
  /\ ~Idle(s) => st.ws = s \/ st.user
  /\ st.sock[s].phase \in {"connecting", "open"} => st.want
  /\ st.sock[s].phase = "connecting" => ~st.sock[s].welcomed
  /\ st.sock[s].phase = "open" => st.connected
  /\ st.sock[s].phase = "open" /\ st.sock[s].welcomed => st.joined /\ st.pingT
  /\ s \in st.live => st.helloT = s /\ st.ws = s
  /\ due = s => st.sock[s].phase = "failing"
  /\ (st.retryT \/ (st.catch /\ st.want)) /\ ~Idle(s) => due = s

\* What holds of the object: a client that retries or has no socket waits
\* for no answer, and one that has joined did so on the current socket.
ClientInv ==
  /\ st.retryT => st.want
  /\ st.retryT \/ st.catch \/ st.ws = None => st.live = {} /\ ~st.joined
  /\ st.ws = None => ~st.want
  /\ st.joined => st.want /\ st.ws # None /\ st.sock[st.ws].settled
  /\ st.user => ~st.want

IInv ==
  /\ TypeOK
  /\ \A s \in Sockets : SocketInv(s)
  /\ ClientInv
  /\ QuietAfterDisconnect

\* A step opens a socket only if a connection is wanted, and arms the retry
\* if it takes a join from a client that has not disconnected.
StepOK ==
  /\ \A s \in Sockets :
       st.sock[s].phase = "idle" /\ st'.sock[s].phase = "connecting"
         => st'.want /\ ~st'.user
  /\ st.joined /\ ~st'.joined /\ ~st'.user => st'.want /\ st'.retryT

----------------------------------------------------------------------------
(***************************************************************************)
(* The effects of the methods.                                             *)
(***************************************************************************)
\* The fields of the object are those of m; the sockets may differ.
Same(n, m) ==
  /\ n.ws = m.ws /\ n.user = m.user /\ n.want = m.want
  /\ n.retryT = m.retryT /\ n.pingT = m.pingT
  /\ n.live = m.live /\ n.helloT = m.helloT
  /\ n.joined = m.joined /\ n.connected = m.connected
  /\ n.catch = m.catch

\* m with the record k for socket s.
Put(m, s, k) == [m EXCEPT !.sock = [m.sock EXCEPT ![s] = k]]

\* Replacing a socket's record changes nothing else.
LEMMA PutEffect ==
  ASSUME NEW m \in StType, NEW s \in Sockets, NEW k \in SocketType
  PROVE  /\ Put(m, s, k) \in StType
         /\ Same(Put(m, s, k), m)
         /\ Put(m, s, k).sock[s] = k
         /\ \A t \in Sockets : t # s => Put(m, s, k).sock[t] = m.sock[t]
<1> DEFINE f == [m.sock EXCEPT ![s] = k]
<1>1. m.sock \in [Sockets -> SocketType]
  BY DEF StType
<1>2. f \in [Sockets -> SocketType]
  BY <1>1
<1>3. f[s] = k /\ \A t \in Sockets : t # s => f[t] = m.sock[t]
  BY <1>1
<1>4. Put(m, s, k) = [m EXCEPT !.sock = f]
  BY DEF Put
<1> HIDE DEF f
<1>5. Put(m, s, k) \in StType /\ Put(m, s, k).sock = f /\ Same(Put(m, s, k), m)
  BY <1>2, <1>4 DEF StType, Same
<1> QED BY <1>3, <1>5

\* m with phase p for socket s.
Phased(m, s, p) == [m EXCEPT !.sock[s].phase = p]

\* Changing a socket's phase changes nothing else.
LEMMA PhaseEffect ==
  ASSUME NEW m \in StType, NEW s \in Sockets, NEW p \in Phases
  PROVE  /\ Phased(m, s, p) \in StType
         /\ Same(Phased(m, s, p), m)
         /\ Phased(m, s, p).sock[s].phase = p
         /\ \A t \in Sockets :
              /\ t # s => Phased(m, s, p).sock[t].phase = m.sock[t].phase
              /\ Phased(m, s, p).sock[t].welcomed = m.sock[t].welcomed
              /\ Phased(m, s, p).sock[t].settled = m.sock[t].settled
              /\ Phased(m, s, p).sock[t].retry = m.sock[t].retry
<1> DEFINE k == [m.sock[s] EXCEPT !.phase = p]
<1>1. /\ k \in SocketType /\ k.phase = p /\ k.settled = m.sock[s].settled
      /\ k.welcomed = m.sock[s].welcomed /\ k.retry = m.sock[s].retry
  BY DEF StType, SocketType
<1>2. Phased(m, s, p) = Put(m, s, k)
  BY DEF Phased, Put
<1> HIDE DEF k
<1> QED BY <1>1, <1>2, PutEffect

\* The phase of a socket after CloseSocket.
ClosedPhase(m, t) ==
  IF t = m.ws /\ m.sock[t].phase = "open" THEN "closing"
  ELSE IF t = m.ws /\ m.sock[t].phase = "connecting" THEN "failing"
  ELSE m.sock[t].phase

\* CloseSocket changes the phase of the current socket, if that is in use.
LEMMA CloseEffect ==
  ASSUME NEW m \in StType
  PROVE  /\ CloseSocket(m) \in StType
         /\ Same(CloseSocket(m), m)
         /\ \A t \in Sockets :
              /\ CloseSocket(m).sock[t].phase =
                   ClosedPhase(m, t)
              /\ CloseSocket(m).sock[t].welcomed = m.sock[t].welcomed
              /\ CloseSocket(m).sock[t].settled = m.sock[t].settled
<1>1. m.ws \in Sockets \cup {None}
  BY DEF StType
<1>2. CASE m.ws # None /\ m.sock[m.ws].phase = "open"
  <2>1. CloseSocket(m) = Phased(m, m.ws, "closing")
    BY <1>2 DEF CloseSocket, Phased
  <2>2. m.ws \in Sockets /\ "closing" \in Phases
    BY <1>1, <1>2 DEF Phases
  <2> QED BY <1>2, <2>1, <2>2, PhaseEffect DEF ClosedPhase
<1>3. CASE m.ws # None /\ m.sock[m.ws].phase = "connecting"
  <2>1. CloseSocket(m) = Phased(m, m.ws, "failing")
    BY <1>3 DEF CloseSocket, Phased
  <2>2. m.ws \in Sockets /\ "failing" \in Phases
    BY <1>1, <1>3 DEF Phases
  <2> QED BY <1>3, <2>1, <2>2, PhaseEffect DEF ClosedPhase
<1>4. CASE m.ws = None \/ m.sock[m.ws].phase \notin {"open", "connecting"}
  <2>1. CloseSocket(m) = m
    BY <1>4 DEF CloseSocket
  <2> QED BY <1>4, <2>1, NoneIsNoSocket DEF ClosedPhase, Same
<1> QED BY <1>2, <1>3, <1>4

\* n is m after OpenSocket has made s the current socket.
Opening(n, m, s) ==
  /\ n.ws = s /\ n.user = m.user /\ n.want = m.want
  /\ n.retryT = m.retryT /\ n.pingT = m.pingT
  /\ n.live = m.live \cup {s} /\ n.helloT = s
  /\ n.joined = FALSE /\ n.connected = m.connected
  /\ n.catch = m.catch
  /\ n.sock[s].phase = "connecting" /\ n.sock[s].settled = FALSE
  /\ n.sock[s].welcomed = FALSE
  /\ \A t \in Sockets \ {s} : n.sock[t] = m.sock[t]

\* OpenSocket makes s the current socket and arms its hello timer.
LEMMA OpenEffect ==
  ASSUME NEW m \in StType, NEW s \in Sockets, NEW b \in BOOLEAN
  PROVE  /\ OpenSocket(m, s, b) \in StType
         /\ Opening(OpenSocket(m, s, b), m, s)
<1> DEFINE k == [IdleSocket EXCEPT !.phase = "connecting", !.retry = b,
                                   !.settled = FALSE]
           f == [m.sock EXCEPT ![s] = k]
           l == m.live \cup {s}
           n == [m EXCEPT !.ws = s, !.joined = FALSE, !.helloT = s,
                          !.live = l, !.sock = f]
<1>1. m.sock \in [Sockets -> SocketType] /\ m.live \in SUBSET Sockets
  BY DEF StType
<1>2. /\ k \in SocketType
      /\ k.phase = "connecting" /\ k.settled = FALSE /\ k.welcomed = FALSE
  BY DEF SocketType, Phases, IdleSocket
<1>3. OpenSocket(m, s, b) = n
  BY DEF OpenSocket, StType
<1> HIDE DEF k
<1>4. f \in [Sockets -> SocketType]
  BY <1>1, <1>2
<1>5. f[s] = k /\ \A t \in Sockets \ {s} : f[t] = m.sock[t]
  BY <1>1
<1>6. l \in SUBSET Sockets
  BY <1>1
<1> HIDE DEF f, l
<1>7. n \in StType /\ n.sock = f /\ n.live = l
  BY <1>4, <1>6 DEF StType
<1>8. /\ n.ws = s /\ n.user = m.user /\ n.want = m.want
      /\ n.retryT = m.retryT /\ n.pingT = m.pingT
      /\ n.helloT = s /\ n.joined = FALSE /\ n.connected = m.connected
      /\ n.catch = m.catch
  BY DEF StType
<1>9. n.live = m.live \cup {s}
  BY <1>7 DEF l
<1> HIDE DEF n
<1> QED BY <1>2, <1>3, <1>5, <1>7, <1>8, <1>9 DEF Opening

\* SettleFail without the closing of the socket.
Settled(m, s, fatal) ==
  [m EXCEPT !.live = @ \ {m.helloT}, !.helloT = None,
            !.sock[s].settled = TRUE,
            !.want = @ /\ m.sock[s].retry /\ ~fatal,
            !.joined = FALSE, !.connected = FALSE,
            !.catch = @ \/ m.sock[s].retry]

\* n is m after the promise of s has failed; the sockets are compared apart.
Failed(n, m, s, fatal) ==
  /\ n.ws = m.ws /\ n.user = m.user
  /\ n.want = (m.want /\ m.sock[s].retry /\ ~fatal)
  /\ n.retryT = m.retryT /\ n.pingT = m.pingT
  /\ n.live = m.live \ {m.helloT} /\ n.helloT = None
  /\ n.joined = FALSE /\ n.connected = FALSE
  /\ n.catch = (m.catch \/ m.sock[s].retry)

\* The sockets of n are those of m after a promise of s has failed.
Shut(n, m, s) ==
  \A t \in Sockets :
    /\ n.sock[t].phase = ClosedPhase(m, t)
    /\ n.sock[t].welcomed = m.sock[t].welcomed
    /\ n.sock[t].settled = (m.sock[t].settled \/ t = s)

\* SettleFail before it closes the socket.
LEMMA SettledEffect ==
  ASSUME NEW m \in StType, NEW s \in Sockets, NEW fatal \in BOOLEAN
  PROVE  /\ Settled(m, s, fatal) \in StType
         /\ Failed(Settled(m, s, fatal), m, s, fatal)
         /\ \A t \in Sockets :
              /\ Settled(m, s, fatal).sock[t].phase = m.sock[t].phase
              /\ Settled(m, s, fatal).sock[t].welcomed = m.sock[t].welcomed
              /\ Settled(m, s, fatal).sock[t].settled =
                   (m.sock[t].settled \/ t = s)
<1> DEFINE k == [m.sock[s] EXCEPT !.settled = TRUE]
           f == [m.sock EXCEPT ![s] = k]
           w == m.want /\ m.sock[s].retry /\ ~fatal
           c == m.catch \/ m.sock[s].retry
           l == m.live \ {m.helloT}
           n == [m EXCEPT !.live = l, !.helloT = None, !.sock = f,
                          !.want = w, !.joined = FALSE, !.connected = FALSE,
                          !.catch = c]
<1>1. /\ m.sock \in [Sockets -> SocketType] /\ m.live \in SUBSET Sockets
      /\ m.want \in BOOLEAN /\ m.catch \in BOOLEAN
  BY DEF StType
<1>2. /\ k \in SocketType /\ k.settled = TRUE /\ k.phase = m.sock[s].phase
      /\ k.welcomed = m.sock[s].welcomed
  BY <1>1 DEF SocketType
<1>3. Settled(m, s, fatal) = n
  BY DEF Settled, StType
<1> HIDE DEF k
<1>4. f \in [Sockets -> SocketType]
  BY <1>1, <1>2
<1>5. f[s] = k /\ \A t \in Sockets : t # s => f[t] = m.sock[t]
  BY <1>1
<1>6. w \in BOOLEAN /\ c \in BOOLEAN /\ l \in SUBSET Sockets
  BY <1>1
<1> HIDE DEF f, w, c, l
<1>7. /\ n \in StType /\ n.sock = f /\ n.live = l /\ n.want = w
      /\ n.catch = c
  BY <1>4, <1>6 DEF StType
<1>8. /\ n.ws = m.ws /\ n.user = m.user
      /\ n.retryT = m.retryT /\ n.pingT = m.pingT
      /\ n.helloT = None /\ n.joined = FALSE /\ n.connected = FALSE
  BY DEF StType
<1>9. \A t \in Sockets : m.sock[t].settled \in BOOLEAN
  BY <1>1 DEF SocketType
<1>10. \A t \in Sockets :
         /\ f[t].phase = m.sock[t].phase
         /\ f[t].welcomed = m.sock[t].welcomed
         /\ f[t].settled = (m.sock[t].settled \/ t = s)
  <2> TAKE t \in Sockets
  <2>1. CASE t = s
    BY <1>2, <1>5, <2>1
  <2>2. CASE t # s
    BY <1>5, <1>9, <2>2
  <2> QED BY <2>1, <2>2
<1> HIDE DEF n
<1>11. /\ n.live = m.live \ {m.helloT}
       /\ n.want = (m.want /\ m.sock[s].retry /\ ~fatal)
       /\ n.catch = (m.catch \/ m.sock[s].retry)
  BY <1>7 DEF w, c, l
<1> QED BY <1>3, <1>7, <1>8, <1>10, <1>11 DEF Failed

\* A failed attempt stops the hello timer of the handle, closes the current
\* socket, and leaves the retry to the catch of a reconnect.
LEMMA SettleFailEffect ==
  ASSUME NEW m \in StType, NEW s \in Sockets, NEW fatal \in BOOLEAN,
         ~m.sock[s].settled
  PROVE  /\ SettleFail(m, s, fatal) \in StType
         /\ Failed(SettleFail(m, s, fatal), m, s, fatal)
         /\ Shut(SettleFail(m, s, fatal), m, s)
<1> DEFINE k == Settled(m, s, fatal)
           n == CloseSocket(k)
<1>1. SettleFail(m, s, fatal) = n
  BY DEF SettleFail, Settled, ClearHello, StType
<1>2. /\ k \in StType /\ Failed(k, m, s, fatal)
      /\ \A t \in Sockets :
           /\ k.sock[t].phase = m.sock[t].phase
           /\ k.sock[t].welcomed = m.sock[t].welcomed
           /\ k.sock[t].settled = (m.sock[t].settled \/ t = s)
  BY SettledEffect
<1> HIDE DEF k
<1>3. /\ n \in StType /\ Same(n, k)
      /\ \A t \in Sockets :
           /\ n.sock[t].phase = ClosedPhase(k, t)
           /\ n.sock[t].welcomed = k.sock[t].welcomed
           /\ n.sock[t].settled = k.sock[t].settled
  BY <1>2, CloseEffect
<1> HIDE DEF n
<1>4. Failed(n, m, s, fatal)
  BY <1>2, <1>3 DEF Failed, Same
<1>5. k.ws = m.ws
  BY <1>2 DEF Failed
<1>6. Shut(n, m, s)
  BY <1>2, <1>3, <1>5 DEF ClosedPhase, Shut
<1> QED BY <1>1, <1>3, <1>4, <1>6

\* ClearTimers stops the three timers the handles hold.
LEMMA ClearEffect ==
  ASSUME NEW m \in StType
  PROVE  /\ ClearTimers(m) \in StType
         /\ ClearTimers(m).ws = m.ws /\ ClearTimers(m).user = m.user
         /\ ClearTimers(m).want = m.want
         /\ ClearTimers(m).retryT = FALSE /\ ClearTimers(m).pingT = FALSE
         /\ ClearTimers(m).live = m.live \ {m.helloT}
         /\ ClearTimers(m).helloT = None
         /\ ClearTimers(m).joined = m.joined
         /\ ClearTimers(m).connected = m.connected
         /\ ClearTimers(m).catch = m.catch
         /\ ClearTimers(m).sock = m.sock
<1> DEFINE l == m.live \ {m.helloT}
<1>1. ClearTimers(m) = [m EXCEPT !.live = l, !.helloT = None, !.retryT = FALSE,
                                 !.pingT = FALSE]
  BY DEF ClearTimers, ClearHello, StType
<1>2. l \in SUBSET Sockets
  BY DEF StType
<1> HIDE DEF l
<1>3. /\ ClearTimers(m) \in StType
      /\ ClearTimers(m).live = l
      /\ ClearTimers(m).ws = m.ws /\ ClearTimers(m).user = m.user
      /\ ClearTimers(m).want = m.want
      /\ ClearTimers(m).retryT = FALSE /\ ClearTimers(m).pingT = FALSE
      /\ ClearTimers(m).helloT = None
      /\ ClearTimers(m).joined = m.joined
      /\ ClearTimers(m).connected = m.connected
      /\ ClearTimers(m).catch = m.catch
      /\ ClearTimers(m).sock = m.sock
  BY <1>1, <1>2 DEF StType
<1> QED BY <1>3 DEF l

----------------------------------------------------------------------------
(***************************************************************************)
(* The tasks.                                                              *)
(***************************************************************************)
\* connect() finds an object that has no socket in use.
LEMMA ConnectStep ==
  ASSUME IInv, Connect
  PROVE  IInv' /\ StepOK
<1> DEFINE m == [st EXCEPT !.want = TRUE]
<1>1. PICK s \in Sockets : st' = OpenSocket(m, s, FALSE)
  BY DEF Connect
<1>2. m \in StType /\ m.want = TRUE /\ m.user = st.user /\ m.retryT = st.retryT
      /\ m.pingT = st.pingT /\ m.live = st.live /\ m.connected = st.connected
      /\ m.catch = st.catch /\ m.sock = st.sock
  BY DEF IInv, TypeOK, StType
<1> HIDE DEF m
<1>3. /\ st' \in StType /\ st'.ws = s /\ st'.user = st.user /\ st'.want = TRUE
      /\ st'.retryT = st.retryT /\ st'.pingT = st.pingT
      /\ st'.live = st.live \cup {s} /\ st'.helloT = s
      /\ st'.joined = FALSE /\ st'.connected = st.connected
      /\ st'.catch = st.catch
      /\ st'.sock[s].phase = "connecting" /\ st'.sock[s].settled = FALSE
      /\ st'.sock[s].welcomed = FALSE
      /\ \A t \in Sockets \ {s} : st'.sock[t] = st.sock[t]
  <2>1. st' \in StType /\ Opening(st', m, s)
    BY <1>1, <1>2, OpenEffect
  <2> QED BY <1>2, <2>1 DEF Opening
<1>4. /\ st.user = FALSE /\ st.ws = None /\ st.catch = FALSE /\ due = None
      /\ due' = due /\ up' = up /\ outages' = outages
      /\ st.retryT = FALSE /\ st.live = {} /\ st.joined = FALSE
      /\ \A t \in Sockets : Idle(t)
  <2>1. /\ st.user = FALSE /\ st.ws = None /\ st.catch = FALSE /\ due = None
        /\ due' = due /\ up' = up /\ outages' = outages
    BY DEF Connect, NextTask, IInv, TypeOK, StType
  <2>2. st.retryT = FALSE /\ st.live = {} /\ st.joined = FALSE
    BY <2>1 DEF IInv, ClientInv, TypeOK, StType
  <2>3. \A t \in Sockets : Idle(t)
    BY <2>1, NoneIsNoSocket DEF IInv, SocketInv
  <2> QED BY <2>1, <2>2, <2>3
<1>5. TypeOK'
  BY <1>3, <1>4 DEF IInv, TypeOK
<1>6. \A t \in Sockets : SocketInv(t)'
  BY <1>3, <1>4, NoneIsNoSocket DEF SocketInv, Idle
<1>7. ClientInv' /\ QuietAfterDisconnect' /\ StepOK
  BY <1>3, <1>4, NoneIsNoSocket DEF ClientInv, QuietAfterDisconnect, StepOK
<1> QED BY <1>5, <1>6, <1>7 DEF IInv

\* The retry finds every socket idle, so that it opens the only one.
LEMMA RetryStep ==
  ASSUME IInv, RetryTimer
  PROVE  IInv' /\ StepOK
<1> DEFINE m == [st EXCEPT !.retryT = FALSE]
<1>1. PICK s \in Sockets : Fresh(s) /\ st' = OpenSocket(m, s, TRUE)
  BY DEF RetryTimer
<1>2. m \in StType /\ m.want = st.want /\ m.user = st.user /\ m.retryT = FALSE
      /\ m.pingT = st.pingT /\ m.live = st.live /\ m.connected = st.connected
      /\ m.catch = st.catch /\ m.sock = st.sock
  BY DEF IInv, TypeOK, StType
<1> HIDE DEF m
<1>3. /\ st' \in StType /\ st'.ws = s /\ st'.user = st.user
      /\ st'.want = st.want
      /\ st'.retryT = FALSE /\ st'.pingT = st.pingT
      /\ st'.live = st.live \cup {s} /\ st'.helloT = s
      /\ st'.joined = FALSE /\ st'.connected = st.connected
      /\ st'.catch = st.catch
      /\ st'.sock[s].phase = "connecting" /\ st'.sock[s].settled = FALSE
      /\ st'.sock[s].welcomed = FALSE
      /\ \A t \in Sockets \ {s} : st'.sock[t] = st.sock[t]
  <2>1. st' \in StType /\ Opening(st', m, s)
    BY <1>1, <1>2, OpenEffect
  <2> QED BY <1>2, <2>1 DEF Opening
<1>4. /\ st.want = TRUE /\ st.user = FALSE /\ st.catch = FALSE /\ due = None
      /\ due' = due /\ up' = up /\ outages' = outages
      /\ st.live = {} /\ st.joined = FALSE
      /\ \A t \in Sockets : Idle(t)
  <2>1. /\ st.retryT = TRUE /\ st.catch = FALSE /\ due = None
        /\ due' = due /\ up' = up /\ outages' = outages
    BY DEF RetryTimer, NextTask, IInv, TypeOK, StType
  <2>2. /\ st.want = TRUE /\ st.user = FALSE /\ st.live = {}
        /\ st.joined = FALSE
    BY <2>1 DEF IInv, ClientInv, TypeOK, StType
  <2>3. \A t \in Sockets : Idle(t)
    BY <2>1, NoneIsNoSocket DEF IInv, SocketInv
  <2> QED BY <2>1, <2>2, <2>3
<1>5. TypeOK'
  BY <1>3, <1>4 DEF IInv, TypeOK
<1>6. \A t \in Sockets : SocketInv(t)'
  BY <1>3, <1>4, NoneIsNoSocket DEF SocketInv, Idle
<1>7. ClientInv' /\ QuietAfterDisconnect' /\ StepOK
  BY <1>3, <1>4, NoneIsNoSocket DEF ClientInv, QuietAfterDisconnect, StepOK
<1> QED BY <1>5, <1>6, <1>7 DEF IInv

\* The catch of a failed reconnect arms the retry, unless disconnected.
LEMMA CatchStep ==
  ASSUME IInv, RunCatch
  PROVE  IInv' /\ StepOK
<1>1. /\ st' \in StType /\ st'.ws = st.ws /\ st'.user = st.user
      /\ st'.want = st.want
      /\ st'.retryT = (st.retryT \/ (~st.user /\ st.want))
      /\ st'.pingT = st.pingT
      /\ st'.live = st.live /\ st'.helloT = st.helloT
      /\ st'.joined = st.joined /\ st'.connected = st.connected
      /\ st'.catch = FALSE /\ st'.sock = st.sock
  <2>1. CASE st.user \/ ~st.want
    BY <2>1 DEF RunCatch, ScheduleReconnect, IInv, TypeOK, StType
  <2>2. CASE ~(st.user \/ ~st.want)
    BY <2>2 DEF RunCatch, ScheduleReconnect, IInv, TypeOK, StType
  <2> QED BY <2>1, <2>2
<1>2. /\ st.catch = TRUE /\ due' = due /\ up' = up /\ outages' = outages
      /\ st.live = {} /\ st.joined = FALSE
  <2>1. st.catch = TRUE /\ due' = due /\ up' = up /\ outages' = outages
    BY DEF RunCatch, IInv, TypeOK, StType
  <2> QED BY <2>1 DEF IInv, ClientInv, TypeOK, StType
<1>3. TypeOK'
  BY <1>1, <1>2 DEF IInv, TypeOK
<1>4. \A t \in Sockets : SocketInv(t)'
  BY <1>1, <1>2 DEF SocketInv, Idle, IInv
<1>5. ClientInv'
  BY <1>1, <1>2 DEF ClientInv, IInv, TypeOK, StType
<1>6. QuietAfterDisconnect'
  <2>1. st.user => ~st.want
    BY DEF IInv, ClientInv
  <2> QED BY <1>1, <1>2, <2>1 DEF QuietAfterDisconnect, IInv
<1>7. StepOK
  BY <1>1, <1>2 DEF StepOK
<1> QED BY <1>3, <1>4, <1>5, <1>6, <1>7 DEF IInv

\* disconnect() leaves no timer and no socket that could still open.
LEMMA DisconnectStep ==
  ASSUME IInv, Disconnect
  PROVE  IInv' /\ StepOK
<1> DEFINE m == [st EXCEPT !.user = TRUE, !.want = FALSE]
           c == ClearTimers(m)
           k == CloseSocket(c)
<1>1. st' = [k EXCEPT !.ws = None, !.connected = FALSE, !.joined = FALSE]
  BY DEF Disconnect
<1>2. /\ m \in StType /\ m.ws = st.ws /\ m.user = TRUE /\ m.want = FALSE
      /\ m.live = st.live /\ m.helloT = st.helloT /\ m.catch = st.catch
      /\ m.sock = st.sock
  BY DEF IInv, TypeOK, StType
<1> HIDE DEF m
<1>3. /\ c \in StType /\ c.ws = st.ws /\ c.user = TRUE /\ c.want = FALSE
      /\ c.retryT = FALSE /\ c.pingT = FALSE
      /\ c.live = st.live \ {st.helloT} /\ c.helloT = None
      /\ c.catch = st.catch /\ c.sock = st.sock
  BY <1>2, ClearEffect
<1> HIDE DEF c
<1>4. /\ k \in StType /\ Same(k, c)
      /\ \A t \in Sockets :
           /\ k.sock[t].phase = ClosedPhase(st, t)
           /\ k.sock[t].welcomed = st.sock[t].welcomed
           /\ k.sock[t].settled = st.sock[t].settled
  <2>1. \A t \in Sockets : ClosedPhase(c, t) = ClosedPhase(st, t)
    BY <1>3 DEF ClosedPhase
  <2> QED BY <1>3, <2>1, CloseEffect
<1> HIDE DEF k
<1>5. /\ st' \in StType /\ st'.ws = None /\ st'.joined = FALSE
      /\ st'.connected = FALSE /\ st'.user = k.user /\ st'.want = k.want
      /\ st'.retryT = k.retryT /\ st'.pingT = k.pingT
      /\ st'.live = k.live /\ st'.helloT = k.helloT /\ st'.catch = k.catch
      /\ st'.sock = k.sock
  BY <1>1, <1>4 DEF StType
<1>6. /\ st'.user = TRUE /\ st'.want = FALSE
      /\ st'.retryT = FALSE /\ st'.pingT = FALSE
      /\ st'.live = st.live \ {st.helloT} /\ st'.catch = st.catch
      /\ \A t \in Sockets :
           /\ st'.sock[t].phase = ClosedPhase(st, t)
           /\ st'.sock[t].welcomed = st.sock[t].welcomed
  BY <1>3, <1>4, <1>5 DEF Same
<1>7. /\ st.user = FALSE /\ due = None
      /\ due' = due /\ up' = up /\ outages' = outages
  BY DEF Disconnect, NextTask, IInv, TypeOK, StType
<1>8. st'.live = {}
  BY <1>6 DEF IInv, SocketInv, TypeOK, StType
<1>9. \A t \in Sockets : st.sock[t].phase \in Phases
  BY DEF IInv, TypeOK, StType, SocketType
<1>10. \A t \in Sockets : st'.sock[t].phase \in {"idle", "closing", "failing"}
  BY <1>6, <1>7, <1>9 DEF ClosedPhase, IInv, SocketInv, Idle, Phases
<1>11. TypeOK'
  BY <1>5, <1>7 DEF IInv, TypeOK
<1>12. \A t \in Sockets : SocketInv(t)'
  BY <1>6, <1>7, <1>8, <1>10, NoneIsNoSocket DEF SocketInv
<1>13. ClientInv' /\ QuietAfterDisconnect' /\ StepOK
  BY <1>5, <1>6, <1>8, <1>10 DEF ClientInv, QuietAfterDisconnect, StepOK
<1> QED BY <1>11, <1>12, <1>13 DEF IInv

\* A connection that opens is the current one.
LEMMA OpenedStep ==
  ASSUME IInv, NEW s \in Sockets, Opened(s)
  PROVE  IInv' /\ StepOK
<1> DEFINE m == [st EXCEPT !.connected = TRUE]
           c == [st EXCEPT !.connected = TRUE, !.sock[s].phase = "open"]
<1>1. /\ m \in StType /\ m.connected = TRUE /\ m.ws = st.ws
      /\ m.user = st.user /\ m.want = st.want /\ m.retryT = st.retryT
      /\ m.pingT = st.pingT /\ m.live = st.live /\ m.helloT = st.helloT
      /\ m.joined = st.joined /\ m.catch = st.catch /\ m.sock = st.sock
  BY DEF IInv, TypeOK, StType
<1>2. c = Phased(m, s, "open")
  BY DEF Phased, IInv, TypeOK, StType
<1>3. st' = IF c.ws # None /\ c.sock[c.ws].phase = "open"
            THEN [c EXCEPT !.sock[c.ws].hello = TRUE] ELSE c
  BY Zenon DEF Opened, OnOpen
<1> HIDE DEF m, c
<1>4. /\ c \in StType /\ Same(c, m) /\ c.sock[s].phase = "open"
      /\ \A t \in Sockets :
           /\ t # s => c.sock[t].phase = st.sock[t].phase
           /\ c.sock[t].welcomed = st.sock[t].welcomed
           /\ c.sock[t].settled = st.sock[t].settled
  <2>1. "open" \in Phases
    BY DEF Phases
  <2> QED BY <1>1, <1>2, <2>1, PhaseEffect
<1>5. /\ st' \in StType /\ Same(st', c)
      /\ \A t \in Sockets :
           /\ st'.sock[t].phase = c.sock[t].phase
           /\ st'.sock[t].welcomed = c.sock[t].welcomed
           /\ st'.sock[t].settled = c.sock[t].settled
  <2>1. CASE c.ws # None /\ c.sock[c.ws].phase = "open"
    <3> DEFINE k == [c.sock[c.ws] EXCEPT !.hello = TRUE]
    <3>1. c.ws \in Sockets /\ c.sock[c.ws] \in SocketType
      BY <1>4, <2>1 DEF StType
    <3>2. /\ k \in SocketType /\ k.phase = c.sock[c.ws].phase
          /\ k.welcomed = c.sock[c.ws].welcomed
          /\ k.settled = c.sock[c.ws].settled
      BY <3>1 DEF SocketType
    <3>3. st' = Put(c, c.ws, k)
      BY <1>3, <2>1 DEF Put
    <3> HIDE DEF k
    <3>4. /\ st' \in StType /\ Same(st', c)
          /\ st'.sock[c.ws] = k
          /\ \A t \in Sockets : t # c.ws => st'.sock[t] = c.sock[t]
      BY <1>4, <3>1, <3>2, <3>3, PutEffect
    <3> QED BY <3>2, <3>4
  <2>2. CASE ~(c.ws # None /\ c.sock[c.ws].phase = "open")
    BY <1>3, <1>4, <2>2 DEF Same
  <2> QED BY <2>1, <2>2
<1>6. /\ st'.connected = TRUE /\ st'.ws = st.ws
      /\ st'.user = st.user /\ st'.want = st.want /\ st'.retryT = st.retryT
      /\ st'.pingT = st.pingT /\ st'.live = st.live /\ st'.helloT = st.helloT
      /\ st'.joined = st.joined /\ st'.catch = st.catch
      /\ st'.sock[s].phase = "open"
      /\ \A t \in Sockets :
           /\ t # s => st'.sock[t].phase = st.sock[t].phase
           /\ st'.sock[t].welcomed = st.sock[t].welcomed
           /\ st'.sock[t].settled = st.sock[t].settled
  BY <1>1, <1>4, <1>5 DEF Same
<1>7. /\ st.catch = FALSE /\ due = None /\ st.sock[s].phase = "connecting"
      /\ due' = due /\ up' = up /\ outages' = outages
  BY DEF Opened, NextTask, IInv, TypeOK, StType
<1>8. /\ st.want = TRUE /\ st.user = FALSE /\ st.ws = s
      /\ st.sock[s].welcomed = FALSE
  BY <1>7 DEF IInv, SocketInv, ClientInv, Idle, TypeOK, StType, SocketType
<1>9. TypeOK'
  BY <1>5, <1>7 DEF IInv, TypeOK
<1>10. \A t \in Sockets : SocketInv(t)'
  <2> TAKE t \in Sockets
  <2>1. CASE t = s
    BY <1>6, <1>7, <1>8, <2>1 DEF SocketInv, Idle, IInv
  <2>2. CASE t # s
    BY <1>6, <1>7, <1>8, <2>2 DEF SocketInv, Idle, IInv
  <2> QED BY <2>1, <2>2
<1>11. ClientInv'
  BY <1>6, <1>7, <1>8, NoneIsNoSocket DEF ClientInv, IInv
<1>12. QuietAfterDisconnect' /\ StepOK
  BY <1>6, <1>7, <1>8 DEF QuietAfterDisconnect, StepOK
<1> QED BY <1>9, <1>10, <1>11, <1>12 DEF IInv

\* An error event settles the attempt; the close event is to come.
LEMMA ErrorStep ==
  ASSUME IInv, NEW s \in Sockets, ErrorEvent(s)
  PROVE  IInv' /\ StepOK
<1> DEFINE m == Phased(st, s, "failing")
<1>1. /\ st' = SettleFail(m, s, FALSE) /\ due' = s
      /\ up' = up /\ outages' = outages
  BY DEF ErrorEvent, Phased
<1>2. /\ st \in StType /\ st.catch = FALSE /\ due = None
      /\ st.sock[s].phase \in {"failing", "connecting", "open"}
  BY DEF ErrorEvent, NextTask, IInv, TypeOK, StType
<1>3. /\ m \in StType /\ Same(m, st) /\ m.sock[s].phase = "failing"
      /\ \A t \in Sockets :
           /\ t # s => m.sock[t].phase = st.sock[t].phase
           /\ m.sock[t].welcomed = st.sock[t].welcomed
           /\ m.sock[t].settled = st.sock[t].settled
           /\ m.sock[t].retry = st.sock[t].retry
  <2>1. "failing" \in Phases
    BY DEF Phases
  <2> QED BY <1>2, <2>1, PhaseEffect
<1> HIDE DEF m
<1>4. \A t \in Sockets : t # s /\ ~Idle(t) => st.user
  BY <1>2 DEF IInv, SocketInv, Idle
<1>5. st.retryT = FALSE
  BY <1>2, NoneIsNoSocket DEF IInv, SocketInv, Idle, TypeOK, StType
<1>6. st.joined => st.ws = s /\ st.sock[s].settled
  BY <1>2 DEF IInv, ClientInv, SocketInv, Idle
<1>7. CASE st.sock[s].settled
  <2>1. st' = m
    BY <1>1, <1>3, <1>7 DEF SettleFail
  <2>2. TypeOK'
    BY <1>1, <1>3, <2>1 DEF IInv, TypeOK
  <2>3. \A t \in Sockets : SocketInv(t)'
    <3> TAKE t \in Sockets
    <3>1. CASE t = s
      BY <1>1, <1>2, <1>3, <2>1, <3>1 DEF SocketInv, Idle, IInv, Same
    <3>2. CASE t # s
      <4>1. ~Idle(t) => st.user
        BY <1>4, <3>2
      <4>2. st.user => ~st.want
        BY DEF IInv, ClientInv
      <4>3. /\ st'.sock[t].phase = st.sock[t].phase
            /\ st'.sock[t].welcomed = st.sock[t].welcomed
        BY <1>3, <2>1, <3>2
      <4>4. Same(st', st)
        BY <1>3, <2>1
      <4> QED BY <1>1, <1>2, <1>5, <3>2, <4>1, <4>2, <4>3, <4>4
            DEF SocketInv, Idle, IInv, Same
    <3> QED BY <3>1, <3>2
  <2>4. ClientInv'
    BY <1>2, <1>3, <1>6, <2>1 DEF ClientInv, IInv, Same
  <2>5. QuietAfterDisconnect'
    BY <1>3, <2>1 DEF QuietAfterDisconnect, IInv, Same
  <2>6. StepOK
    BY <1>3, <2>1 DEF StepOK, Same
  <2> QED BY <2>2, <2>3, <2>4, <2>5, <2>6 DEF IInv
<1>8. CASE ~st.sock[s].settled
  <2>1. /\ st' \in StType /\ Failed(st', m, s, FALSE) /\ Shut(st', m, s)
    <3>1. ~m.sock[s].settled /\ FALSE \in BOOLEAN
      BY <1>3, <1>8
    <3> QED BY <1>3, <3>1, <1>1, SettleFailEffect, Zenon
  <2>2. /\ st'.ws = st.ws /\ st'.user = st.user
        /\ st'.want = (st.want /\ st.sock[s].retry)
        /\ st'.retryT = FALSE /\ st'.pingT = st.pingT
        /\ st'.live = st.live \ {st.helloT}
        /\ st'.joined = FALSE /\ st'.connected = FALSE
        /\ st.joined = FALSE
    BY <1>2, <1>3, <1>5, <1>6, <1>8, <2>1 DEF Failed, Same, StType
  <2>3. st'.live = {}
    BY <1>2, <2>2 DEF IInv, SocketInv, StType
  <2>4. /\ st'.sock[s].phase = "failing"
        /\ \A t \in Sockets : t # s /\ (t # st.ws \/ Idle(t)) =>
             st'.sock[t].phase = st.sock[t].phase
    BY <1>3, <2>1 DEF Shut, ClosedPhase, Same, Idle
  <2>5. st.user => st.ws = None
    BY DEF IInv, QuietAfterDisconnect
  <2>6. \A t \in Sockets : t # s => st'.sock[t].phase = st.sock[t].phase
    BY <1>4, <2>4, <2>5, NoneIsNoSocket
  <2>7. TypeOK'
    BY <1>1, <2>1 DEF IInv, TypeOK
  <2>8. \A t \in Sockets : SocketInv(t)'
    <3> TAKE t \in Sockets
    <3>1. CASE t = s
      BY <1>1, <1>2, <2>2, <2>3, <2>4, <3>1 DEF SocketInv, Idle, IInv
    <3>2. CASE t # s
      <4>1. ~Idle(t) => st.user
        BY <1>4, <3>2
      <4>2. st.user => /\ ~st.want
                       /\ st.sock[t].phase \in {"idle", "closing", "failing"}
        BY DEF IInv, ClientInv, QuietAfterDisconnect
      <4> QED BY <1>1, <2>2, <2>3, <2>6, <3>2, <4>1, <4>2 DEF SocketInv, Idle
    <3> QED BY <3>1, <3>2
  <2>9. ClientInv'
    BY <2>2, <2>3 DEF ClientInv, IInv
  <2>10. QuietAfterDisconnect'
    BY <2>2, <2>3, <2>4, <2>6 DEF QuietAfterDisconnect, IInv
  <2>11. StepOK
    BY <2>2, <2>4, <2>6 DEF StepOK
  <2> QED BY <2>7, <2>8, <2>9, <2>10, <2>11 DEF IInv
<1> QED BY <1>7, <1>8

\* The hello timer that fires is the current socket's.
LEMMA HelloStep ==
  ASSUME IInv, NEW s \in Sockets, HelloTimer(s)
  PROVE  IInv' /\ StepOK
<1> DEFINE l == st.live \ {s}
           m == [st EXCEPT !.live = l]
<1>1. /\ st' = IF st.joined \/ st.sock[s].settled THEN m
               ELSE SettleFail(m, s, TRUE)
      /\ due' = due /\ up' = up /\ outages' = outages
  BY DEF HelloTimer, OnHelloTimer
<1>2. /\ st \in StType /\ st.catch = FALSE /\ due = None /\ s \in st.live
  BY DEF HelloTimer, NextTask, IInv, TypeOK, StType
<1>3. l \in SUBSET Sockets
  BY <1>2 DEF StType
<1> HIDE DEF l
<1>4. /\ m \in StType /\ m.live = l
      /\ m.ws = st.ws /\ m.user = st.user /\ m.want = st.want
      /\ m.retryT = st.retryT /\ m.pingT = st.pingT /\ m.helloT = st.helloT
      /\ m.joined = st.joined /\ m.connected = st.connected
      /\ m.catch = st.catch /\ m.sock = st.sock
  BY <1>2, <1>3 DEF StType
<1> HIDE DEF m
<1>5. st.helloT = s /\ st.ws = s
  BY <1>2 DEF IInv, SocketInv
<1>6. l = {}
  BY <1>2, <1>5 DEF l, IInv, SocketInv, StType
<1>7. st.retryT = FALSE /\ st.user = FALSE
  BY <1>2 DEF IInv, ClientInv, QuietAfterDisconnect, StType
<1>8. \A t \in Sockets : t # s => Idle(t)
  BY <1>5, <1>7 DEF IInv, SocketInv
<1>9. CASE st.joined \/ st.sock[s].settled
  <2>1. st' = m
    BY <1>1, <1>9
  <2>2. TypeOK'
    BY <1>1, <1>4, <2>1 DEF IInv, TypeOK
  <2>3. \A t \in Sockets : SocketInv(t)'
    BY <1>1, <1>4, <1>6, <2>1 DEF SocketInv, Idle, IInv
  <2>4. ClientInv' /\ QuietAfterDisconnect' /\ StepOK
    BY <1>4, <1>6, <1>7, <2>1 DEF ClientInv, QuietAfterDisconnect, StepOK, IInv
  <2> QED BY <2>2, <2>3, <2>4 DEF IInv
<1>10. CASE ~(st.joined \/ st.sock[s].settled)
  <2>1. /\ st' \in StType /\ Failed(st', m, s, TRUE) /\ Shut(st', m, s)
    <3>1. ~m.sock[s].settled /\ st' = SettleFail(m, s, TRUE)
      BY <1>1, <1>4, <1>10
    <3>2. TRUE \in BOOLEAN
      OBVIOUS
    <3> QED BY <1>4, <3>1, <3>2, SettleFailEffect, Zenon
  <2>2. /\ st'.ws = st.ws /\ st'.user = FALSE /\ st'.want = FALSE
        /\ st'.retryT = FALSE /\ st'.pingT = st.pingT /\ st'.live = {}
        /\ st'.joined = FALSE /\ st'.connected = FALSE /\ st.joined = FALSE
    BY <1>2, <1>4, <1>6, <1>7, <1>10, <2>1 DEF Failed, StType
  <2>3. \A t \in Sockets :
          /\ st'.sock[t].phase \notin {"open", "connecting"}
          /\ t # s => st'.sock[t].phase = "idle"
    <3> TAKE t \in Sockets
    <3>1. CASE t = s
      BY <1>4, <1>5, <2>1, <3>1 DEF Shut, ClosedPhase
    <3>2. CASE t # s
      BY <1>4, <1>5, <1>8, <2>1, <3>2 DEF Shut, ClosedPhase, Idle
    <3> QED BY <3>1, <3>2
  <2>4. TypeOK'
    BY <1>1, <2>1 DEF IInv, TypeOK
  <2>5. \A t \in Sockets : SocketInv(t)'
    BY <1>1, <1>2, <1>5, <2>2, <2>3, NoneIsNoSocket DEF SocketInv, Idle
  <2>6. ClientInv' /\ QuietAfterDisconnect' /\ StepOK
    BY <2>2, <2>3 DEF ClientInv, QuietAfterDisconnect, StepOK
  <2> QED BY <2>4, <2>5, <2>6 DEF IInv
<1> QED BY <1>9, <1>10

\* What both answers find: the socket is the current one, and nothing else
\* is under way.
LEMMA AnswerContext ==
  ASSUME IInv, NEW s \in Sockets, Answer(s)
  PROVE  /\ st \in StType /\ st.catch = FALSE /\ due = None
         /\ due' = due /\ up' = up /\ outages' = outages
         /\ st.sock[s].phase = "open" /\ st.ws = s
         /\ st.want = TRUE /\ st.user = FALSE /\ st.retryT = FALSE
         /\ \A t \in Sockets : t # s => Idle(t)
<1>1. /\ st \in StType /\ st.catch = FALSE /\ due = None
      /\ due' = due /\ up' = up /\ outages' = outages
      /\ st.sock[s].phase = "open"
  BY DEF Answer, NextTask, IInv, TypeOK, StType
<1>2. st.want = TRUE
  BY <1>1 DEF IInv, SocketInv, StType
<1>3. st.user = FALSE
  BY <1>1, <1>2 DEF IInv, ClientInv, StType
<1>4. st.ws = s /\ \A t \in Sockets : t # s => Idle(t)
  BY <1>1, <1>3 DEF IInv, SocketInv, Idle
<1>5. st.retryT = FALSE
  BY <1>1, NoneIsNoSocket DEF IInv, SocketInv, Idle, StType
<1> QED BY <1>1, <1>2, <1>3, <1>4, <1>5

\* WELCOME reaches the current socket and settles its attempt.
LEMMA WelcomeStep ==
  ASSUME IInv, NEW s \in Sockets, Answer(s), st' = OnWelcome(st, s)
  PROVE  IInv' /\ StepOK
<1> DEFINE k == [st.sock[s] EXCEPT !.welcomed = TRUE]
           p == Put(st, s, k)
           m == [p EXCEPT !.joined = TRUE, !.pingT = TRUE]
           l == m.live \ {m.helloT}
           h == [m EXCEPT !.live = l, !.helloT = None]
           f == [h.sock[s] EXCEPT !.settled = TRUE]
<1>1. /\ st \in StType /\ st.catch = FALSE /\ due = None
      /\ due' = due /\ up' = up /\ outages' = outages
      /\ st.sock[s].phase = "open" /\ st.ws = s
      /\ st.want = TRUE /\ st.user = FALSE /\ st.retryT = FALSE
      /\ \A t \in Sockets : t # s => Idle(t)
  BY AnswerContext
<1>2. m = [st EXCEPT !.joined = TRUE, !.pingT = TRUE, !.sock[s].welcomed = TRUE]
  BY <1>1 DEF Put, StType
<1>3. st' = SettleOk(m, s)
  BY <1>2 DEF OnWelcome
<1>4. st' = IF m.sock[s].settled THEN m ELSE Put(h, s, f)
  BY <1>3 DEF SettleOk, ClearHello, Put
<1>5. k \in SocketType /\ k.phase = "open"
  BY <1>1 DEF StType, SocketType
<1> HIDE DEF k
<1>6. /\ p \in StType /\ Same(p, st) /\ p.sock[s] = k
      /\ \A t \in Sockets : t # s => p.sock[t] = st.sock[t]
  BY <1>1, <1>5, PutEffect
<1> HIDE DEF p
<1>7. /\ m \in StType /\ m.ws = s /\ m.user = FALSE /\ m.want = TRUE
      /\ m.retryT = FALSE /\ m.pingT = TRUE /\ m.joined = TRUE
      /\ m.live = st.live /\ m.helloT = st.helloT
      /\ m.connected = st.connected /\ m.catch = FALSE /\ m.sock = p.sock
  BY <1>1, <1>6 DEF StType, Same
<1> HIDE DEF m
<1>8. l \in SUBSET Sockets
  BY <1>7 DEF StType
<1> HIDE DEF l
<1>9. /\ h \in StType /\ h.ws = s /\ h.user = FALSE /\ h.want = TRUE
      /\ h.retryT = FALSE /\ h.pingT = TRUE /\ h.joined = TRUE
      /\ h.live = l /\ h.helloT = None
      /\ h.connected = st.connected /\ h.catch = FALSE /\ h.sock = p.sock
  BY <1>7, <1>8 DEF StType
<1>10. f \in SocketType /\ f.phase = "open" /\ f.settled = TRUE
  BY <1>5, <1>6, <1>9 DEF SocketType
<1> HIDE DEF h, f
<1>11. /\ Put(h, s, f) \in StType /\ Same(Put(h, s, f), h)
       /\ Put(h, s, f).sock[s] = f
       /\ \A t \in Sockets : t # s => Put(h, s, f).sock[t] = h.sock[t]
  BY <1>9, <1>10, PutEffect
<1>12. l = {}
  BY <1>1, <1>7 DEF l, IInv, SocketInv, StType
<1>13. st.connected = TRUE /\ \A t \in st.live : t = st.helloT /\ t = s
  BY <1>1 DEF IInv, SocketInv, StType
<1>14. /\ st' \in StType /\ st'.ws = s /\ st'.user = FALSE /\ st'.want = TRUE
       /\ st'.retryT = FALSE /\ st'.pingT = TRUE /\ st'.joined = TRUE
       /\ st'.connected = TRUE /\ st'.catch = FALSE
       /\ st'.sock[s].phase = "open" /\ st'.sock[s].settled
       /\ \A t \in Sockets : t # s => st'.sock[t].phase = "idle"
       /\ \A t \in st'.live : t = st'.helloT /\ t = s
  <2>1. CASE m.sock[s].settled
    <3>1. st' = m
      BY <1>4, <2>1
    <3> QED BY <1>1, <1>5, <1>6, <1>7, <1>13, <2>1, <3>1 DEF Idle
  <2>2. CASE ~m.sock[s].settled
    <3>1. st' = Put(h, s, f)
      BY <1>4, <2>2
    <3> QED BY <1>1, <1>6, <1>9, <1>10, <1>11, <1>12, <1>13, <3>1 DEF Idle, Same
  <2> QED BY <2>1, <2>2
<1>15. TypeOK'
  BY <1>1, <1>14 DEF IInv, TypeOK
<1>16. \A t \in Sockets : SocketInv(t)'
  BY <1>1, <1>14, NoneIsNoSocket DEF SocketInv, Idle
<1>17. ClientInv' /\ QuietAfterDisconnect' /\ StepOK
  BY <1>14, NoneIsNoSocket DEF ClientInv, QuietAfterDisconnect, StepOK
<1> QED BY <1>15, <1>16, <1>17 DEF IInv

\* A refusal ends the attempts; one after WELCOME changes nothing.
LEMMA RefusalStep ==
  ASSUME IInv, NEW s \in Sockets, Answer(s), st' = OnRefusal(st, s)
  PROVE  IInv' /\ StepOK
<1>1. /\ st \in StType /\ st.catch = FALSE /\ due = None
      /\ due' = due /\ up' = up /\ outages' = outages
      /\ st.sock[s].phase = "open" /\ st.ws = s
      /\ st.want = TRUE /\ st.user = FALSE /\ st.retryT = FALSE
      /\ \A t \in Sockets : t # s => Idle(t)
  BY AnswerContext
<1>2. CASE st.joined \/ st.sock[s].settled
  <2>1. st' = st
    BY <1>2 DEF OnRefusal, SettleFail
  <2>2. TypeOK' /\ (\A t \in Sockets : SocketInv(t)')
    BY <1>1, <2>1 DEF IInv, TypeOK, SocketInv, Idle
  <2>3. ClientInv' /\ QuietAfterDisconnect'
    BY <2>1 DEF IInv, ClientInv, QuietAfterDisconnect
  <2>4. StepOK
    BY <2>1 DEF StepOK
  <2> QED BY <2>2, <2>3, <2>4 DEF IInv
<1>3. CASE ~st.joined /\ ~st.sock[s].settled
  <2>1. /\ st' \in StType /\ Failed(st', st, s, TRUE) /\ Shut(st', st, s)
    <3>1. st' = SettleFail(st, s, TRUE)
      BY <1>3 DEF OnRefusal
    <3>2. TRUE \in BOOLEAN
      OBVIOUS
    <3> QED BY <1>1, <1>3, <3>1, <3>2, SettleFailEffect, Zenon
  <2>2. /\ st'.ws = s /\ st'.user = FALSE /\ st'.want = FALSE
        /\ st'.retryT = FALSE /\ st'.live = st.live \ {st.helloT}
        /\ st'.joined = FALSE /\ st'.connected = FALSE /\ st.joined = FALSE
    BY <1>1, <1>3, <2>1 DEF Failed, StType
  <2>3. st'.live = {}
    BY <1>1, <2>2 DEF IInv, SocketInv, StType
  <2>4. /\ st'.sock[s].phase = "closing"
        /\ \A t \in Sockets : t # s => st'.sock[t].phase = "idle"
    BY <1>1, <2>1 DEF Shut, ClosedPhase, Idle
  <2>5. TypeOK'
    BY <1>1, <2>1 DEF IInv, TypeOK
  <2>6. \A t \in Sockets : SocketInv(t)'
    BY <1>1, <2>2, <2>3, <2>4, NoneIsNoSocket DEF SocketInv, Idle
  <2>7. ClientInv' /\ QuietAfterDisconnect' /\ StepOK
    BY <2>2, <2>3, <2>4 DEF ClientInv, QuietAfterDisconnect, StepOK
  <2> QED BY <2>5, <2>6, <2>7 DEF IInv
<1> QED BY <1>2, <1>3

\* A close event leaves its socket idle, and arms the retry of a client that
\* was joined.
LEMMA CloseStep ==
  ASSUME IInv, NEW s \in Sockets, CloseEvent(s)
  PROVE  IInv' /\ StepOK
<1> DEFINE m == Phased(st, s, "closing")
           q == ClearTimers(m)
           c == [q EXCEPT !.connected = FALSE, !.joined = FALSE]
           r == OnClose(m, s)
           e == [IdleSocket EXCEPT !.settled = r.sock[s].settled]
<1>1. /\ st' = Put(r, s, e)
      /\ due' = None /\ up' = up /\ outages' = outages
  BY DEF CloseEvent, Phased, Put
<1>2. /\ st \in StType /\ st.catch = FALSE /\ st.sock[s].phase # "idle"
  <2>1. st \in StType /\ st.catch = FALSE
    BY DEF CloseEvent, IInv, TypeOK, StType
  <2>2. due = s => st.sock[s].phase = "failing"
    BY DEF IInv, SocketInv
  <2> QED BY <2>1, <2>2 DEF CloseEvent
<1>3. /\ r = IF ~m.sock[s].settled THEN SettleFail(c, s, FALSE)
              ELSE IF ~m.user /\ m.want /\ m.joined
              THEN ScheduleReconnect(c) ELSE c
  BY Zenon DEF OnClose
<1>4. /\ m \in StType /\ Same(m, st)
      /\ \A t \in Sockets :
           /\ t # s => m.sock[t].phase = st.sock[t].phase
           /\ m.sock[t].welcomed = st.sock[t].welcomed
           /\ m.sock[t].settled = st.sock[t].settled
           /\ m.sock[t].retry = st.sock[t].retry
  <2>1. "closing" \in Phases
    BY DEF Phases
  <2> QED BY <1>2, <2>1, PhaseEffect
<1> HIDE DEF m
<1>5. /\ q \in StType /\ q.ws = st.ws /\ q.user = st.user
      /\ q.want = st.want /\ q.retryT = FALSE /\ q.pingT = FALSE
      /\ q.live = st.live \ {st.helloT} /\ q.helloT = None
      /\ q.catch = FALSE /\ q.sock = m.sock
  BY <1>2, <1>4, ClearEffect DEF Same
<1> HIDE DEF q
<1>6. q.live = {}
  BY <1>2, <1>5 DEF IInv, SocketInv, StType
<1>7. /\ c \in StType /\ c.ws = st.ws /\ c.user = st.user
      /\ c.want = st.want /\ c.retryT = FALSE /\ c.pingT = FALSE
      /\ c.live = {} /\ c.helloT = None /\ c.catch = FALSE
      /\ c.joined = FALSE /\ c.connected = FALSE /\ c.sock = m.sock
  BY <1>5, <1>6 DEF StType
<1> HIDE DEF c, r
<1>8. \A t \in Sockets : t # s /\ ~Idle(t) => st.user
  BY <1>2 DEF IInv, SocketInv, Idle
<1>9. /\ (st.user => /\ st.want = FALSE /\ st.ws = None
                     /\ \A t \in Sockets :
                          st.sock[t].phase \in {"idle", "closing", "failing"})
      /\ (st.want => st.ws # None)
  BY <1>2 DEF IInv, ClientInv, QuietAfterDisconnect, StType
<1>10. /\ r \in StType /\ r.ws = st.ws /\ r.user = st.user
       /\ (r.want => st.want)
       /\ r.pingT = FALSE /\ r.live = {}
       /\ r.joined = FALSE /\ r.connected = FALSE
       /\ (r.retryT => r.want)
       /\ (st.sock[s].settled /\ ~st.user /\ st.want /\ st.joined => r.retryT)
       /\ \A t \in Sockets : t # s => r.sock[t].phase = st.sock[t].phase
  <2>1. CASE ~st.sock[s].settled
    <3>1. r = SettleFail(c, s, FALSE) /\ ~c.sock[s].settled
      BY <1>3, <1>4, <1>7, <2>1
    <3>2. FALSE \in BOOLEAN
      OBVIOUS
    <3>3. /\ r \in StType /\ Failed(r, c, s, FALSE) /\ Shut(r, c, s)
      BY <1>7, <3>1, <3>2, SettleFailEffect, Zenon
    <3>4. /\ r.ws = st.ws /\ r.user = st.user /\ (r.want => st.want)
          /\ r.pingT = FALSE /\ r.live = {} /\ r.joined = FALSE
          /\ r.connected = FALSE /\ r.retryT = FALSE
      BY <1>7, <3>3 DEF Failed
    <3>5. \A t \in Sockets : t # s => r.sock[t].phase = st.sock[t].phase
      <4> SUFFICES ASSUME NEW t \in Sockets, t # s
                   PROVE  r.sock[t].phase = st.sock[t].phase
        OBVIOUS
      <4>1. c.sock[t].phase = st.sock[t].phase
        BY <1>4, <1>7
      <4>2. r.sock[t].phase = ClosedPhase(c, t)
        BY <3>3 DEF Shut
      <4>3. CASE Idle(t)
        BY <4>1, <4>2, <4>3 DEF ClosedPhase, Idle
      <4>4. CASE ~Idle(t)
        BY <1>7, <1>8, <1>9, <4>1, <4>2, <4>4, NoneIsNoSocket DEF ClosedPhase
      <4> QED BY <4>3, <4>4
    <3> QED BY <2>1, <3>3, <3>4, <3>5
  <2>2. CASE st.sock[s].settled /\ ~st.user /\ st.want /\ st.joined
    <3>1. r = [c EXCEPT !.retryT = TRUE]
      BY <1>3, <1>4, <1>7, <2>2 DEF ScheduleReconnect, Same
    <3> QED BY <1>4, <1>7, <2>2, <3>1 DEF StType
  <2>3. CASE st.sock[s].settled /\ ~(~st.user /\ st.want /\ st.joined)
    <3>1. r = c
      BY <1>3, <1>4, <2>3 DEF Same
    <3> QED BY <1>4, <1>7, <2>3, <3>1
  <2> QED BY <2>1, <2>2, <2>3
<1>11. e \in SocketType /\ e.phase = "idle"
  <2>1. r.sock[s].settled \in BOOLEAN
    BY <1>10 DEF StType, SocketType
  <2> QED BY <2>1 DEF IdleSocket, SocketType, Phases
<1> HIDE DEF e
<1>12. /\ st' \in StType /\ Same(st', r) /\ st'.sock[s].phase = "idle"
       /\ \A t \in Sockets : t # s => st'.sock[t].phase = st.sock[t].phase
  BY <1>1, <1>10, <1>11, PutEffect
<1>13. /\ st'.ws = st.ws /\ st'.user = st.user
       /\ (st'.want => st.want)
       /\ st'.pingT = FALSE /\ st'.live = {} /\ st'.joined = FALSE
       /\ st'.connected = FALSE /\ (st'.retryT => st'.want)
       /\ (st.sock[s].settled /\ ~st.user /\ st.want /\ st.joined => st'.retryT)
  BY <1>10, <1>12 DEF Same
<1>14. TypeOK'
  BY <1>1, <1>12 DEF IInv, TypeOK
<1>15. \A t \in Sockets : SocketInv(t)'
  <2> TAKE t \in Sockets
  <2>1. CASE t = s
    BY <1>1, <1>12, <1>13, <2>1, NoneIsNoSocket DEF SocketInv, Idle
  <2>2. CASE t # s
    BY <1>1, <1>8, <1>9, <1>12, <1>13, <2>2, NoneIsNoSocket DEF SocketInv, Idle
  <2> QED BY <2>1, <2>2
<1>16. ClientInv'
  BY <1>9, <1>13 DEF ClientInv
<1>17. QuietAfterDisconnect'
  BY <1>9, <1>12, <1>13 DEF QuietAfterDisconnect
<1>18. StepOK
  <2>1. st.joined /\ ~st.user => st.want /\ st.sock[s].settled
    BY <1>2 DEF IInv, ClientInv, SocketInv, Idle
  <2> QED BY <1>12, <1>13, <2>1 DEF StepOK
<1> QED BY <1>14, <1>15, <1>16, <1>17, <1>18 DEF IInv

----------------------------------------------------------------------------
(***************************************************************************)
(* The theorems.                                                           *)
(***************************************************************************)
\* A new object satisfies the invariant.
LEMMA InitSafe == Init => IInv
<1> SUFFICES ASSUME Init PROVE IInv
  OBVIOUS
<1>1. IdleSocket \in SocketType /\ IdleSocket.phase = "idle"
  BY DEF IdleSocket, SocketType, Phases
<1>2. /\ st.sock = [s \in Sockets |-> IdleSocket]
      /\ st.ws = None /\ st.connected = FALSE /\ st.joined = FALSE
      /\ st.want = FALSE /\ st.user = FALSE /\ st.retryT = FALSE
      /\ st.pingT = FALSE /\ st.helloT = None /\ st.live = {}
      /\ st.catch = FALSE
      /\ due = None /\ up = TRUE /\ outages = 0
  BY DEF Init
<1>3. st.sock \in [Sockets -> SocketType]
  BY <1>1, <1>2
<1>4. st \in StType
  BY <1>3 DEF Init, StType
<1>5. TypeOK
  BY <1>2, <1>4, OutagesNat DEF TypeOK
<1>6. \A s \in Sockets : st.sock[s].phase = "idle"
  BY <1>1, <1>2
<1>7. \A s \in Sockets : SocketInv(s)
  BY <1>2, <1>6, NoneIsNoSocket DEF SocketInv, Idle
<1>8. ClientInv /\ QuietAfterDisconnect
  BY <1>2 DEF ClientInv, QuietAfterDisconnect
<1> QED BY <1>5, <1>7, <1>8 DEF IInv

\* Every step keeps the invariant and is allowed by StepOK.
LEMMA StepSafe == IInv /\ [Next]_vars => IInv' /\ [StepOK]_vars
<1> SUFFICES ASSUME IInv, [Next]_vars PROVE IInv' /\ [StepOK]_vars
  OBVIOUS
<1>1. CASE Connect
  BY <1>1, ConnectStep
<1>2. CASE Disconnect
  BY <1>2, DisconnectStep
<1>3. CASE RunCatch
  BY <1>3, CatchStep
<1>4. CASE RetryTimer
  BY <1>4, RetryStep
<1>5. CASE Outage \/ Recovery
  <2>1. st' = st /\ due' = due
    BY <1>5 DEF Outage, Recovery
  <2>2. up' \in BOOLEAN /\ outages' \in 0..MaxOutages
    <3>1. up \in BOOLEAN /\ outages \in 0..MaxOutages
      BY DEF IInv, TypeOK
    <3>2. CASE Outage
      <4>1. outages' \in 0..MaxOutages
        BY <3>1, <3>2, OutagesNat DEF Outage
      <4>2. up' \in BOOLEAN
        BY <3>2 DEF Outage
      <4> QED BY <4>1, <4>2
    <3>3. CASE Recovery
      BY <3>1, <3>3 DEF Recovery
    <3> QED BY <1>5, <3>2, <3>3
  <2>3. TypeOK'
    BY <2>1, <2>2 DEF IInv, TypeOK
  <2>4. (\A s \in Sockets : SocketInv(s)') /\ ClientInv' /\ QuietAfterDisconnect'
    BY <2>1 DEF IInv, SocketInv, Idle, ClientInv, QuietAfterDisconnect
  <2>5. StepOK
    BY <2>1 DEF StepOK
  <2> QED BY <2>3, <2>4, <2>5 DEF IInv
<1>6. CASE \E s \in Sockets : SocketTask(s)
  <2>1. PICK s \in Sockets : SocketTask(s)
    BY <1>6
  <2>2. CASE Opened(s)
    BY <2>2, OpenedStep
  <2>3. CASE ErrorEvent(s)
    BY <2>3, ErrorStep
  <2>4. CASE CloseEvent(s)
    BY <2>4, CloseStep
  <2>5. CASE HelloTimer(s)
    BY <2>5, HelloStep
  <2>6. CASE Answer(s)
    <3>1. st' = OnWelcome(st, s) \/ st' = OnRefusal(st, s)
      BY <2>6 DEF Answer
    <3> QED BY <2>6, <3>1, WelcomeStep, RefusalStep
  <2> QED BY <2>1, <2>2, <2>3, <2>4, <2>5, <2>6 DEF SocketTask
<1>7. CASE UNCHANGED vars
  <2>1. st' = st /\ due' = due /\ up' = up /\ outages' = outages
    BY <1>7 DEF vars
  <2>2. IInv'
    BY <2>1 DEF IInv, TypeOK, SocketInv, Idle, ClientInv, QuietAfterDisconnect
  <2> QED BY <1>7, <2>2
<1> QED BY <1>1, <1>2, <1>3, <1>4, <1>5, <1>6, <1>7 DEF Next

\* The invariant holds in every state.
THEOREM Inductive == Spec => []IInv
<1>1. Init => IInv
  BY InitSafe
<1>2. IInv /\ [Next]_vars => IInv'
  BY StepSafe
<1> QED BY <1>1, <1>2, PTL DEF Spec

\* Every step is allowed by StepOK.
THEOREM StepsSafe == Spec => [][StepOK]_vars
<1>1. IInv /\ [Next]_vars => [StepOK]_vars
  BY StepSafe
<1> QED BY <1>1, Inductive, PTL DEF Spec

\* TypeOK: every handler leaves the fields of the client, the sockets and
\* the timer handles of their types, for any number of sockets.
THEOREM TypeCorrect == Spec => []TypeOK
<1>1. IInv => TypeOK
  BY DEF IInv
<1> QED BY <1>1, Inductive, PTL

\* OneLiveSocket: however connects, retries, failures and disconnects
\* interleave, no socket but the current one is connecting or open.
THEOREM OneLive == Spec => []OneLiveSocket
<1>1. IInv => OneLiveSocket
  BY DEF IInv, SocketInv, Idle, QuietAfterDisconnect, OneLiveSocket
<1> QED BY <1>1, Inductive, PTL

\* ViewAgrees: a socket the server has welcomed and that is open is the one
\* the client counts as joined and sends its heartbeat on.
THEOREM ViewsAgree == Spec => []ViewAgrees
<1>1. IInv => ViewAgrees
  BY DEF IInv, SocketInv, Idle, QuietAfterDisconnect, ViewAgrees
<1> QED BY <1>1, Inductive, PTL

\* QuietAfterDisconnect: after disconnect() no late event of an old socket
\* arms a timer or marks the client as connected.
THEOREM QuietSafe == Spec => []QuietAfterDisconnect
<1>1. IInv => QuietAfterDisconnect
  BY DEF IInv
<1> QED BY <1>1, Inductive, PTL

\* NoUnwantedSocket: a refusal, a failed first connect and disconnect() end
\* the attempts: no later step of any timer opens a socket.
THEOREM NoUnwanted == Spec => NoUnwantedSocket
<1>1. [StepOK]_vars =>
        [\A s \in Sockets :
           st.sock[s].phase = "idle" /\ st'.sock[s].phase = "connecting"
             => st'.want /\ ~st'.user]_vars
  BY DEF StepOK
<1> QED BY <1>1, StepsSafe, PTL DEF NoUnwantedSocket

\* LossIsRetried: a joined client that loses its connection, by a close or
\* by an error and then a close, has its retry armed in the same step.
THEOREM LossRetried == Spec => LossIsRetried
<1>1. [StepOK]_vars =>
        [st.joined /\ ~st'.joined /\ ~st'.user => st'.want /\ st'.retryT]_vars
  BY DEF StepOK
<1> QED BY <1>1, StepsSafe, PTL DEF LossIsRetried
=============================================================================
