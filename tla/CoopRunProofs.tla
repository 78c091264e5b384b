---------------------------- MODULE CoopRunProofs ----------------------------
(***************************************************************************)
(* Lemmas about the operators of CoopRun: what each handler's effect on a  *)
(* run preserves, for every number of clients.  RoomProofs cites them.     *)
(***************************************************************************)
EXTENDS CoopRun, FiniteSetTheorems, WellFoundedInduction, TLAPS

(* A nonempty set of naturals has a least element.                         *)
LEMMA LeastNatural ==
  ASSUME NEW T, T \subseteq Nat, T # {}
  PROVE  \E m \in T : \A n \in T : m <= n
<1>1. \E m \in T : \A n \in T : ~(<<n, m>> \in OpToRel(<, Nat))
  BY NatLessThanWellFounded, WFMin, Zenon
<1>2. PICK m \in T : \A n \in T : ~(<<n, m>> \in OpToRel(<, Nat))
  BY <1>1, Zenon
<1>3. \A n \in T : ~(n < m)
  BY <1>2, Zenon DEF OpToRel
<1> QED
  BY <1>3

(* FirstBy finds a client of a nonempty set (min_by_key, first).           *)
LEMMA FirstByIn ==
  ASSUME NEW S, NEW f, \A c \in S : f[c] \in Nat, S # {}
  PROVE  FirstBy(S, f) \in S
<1> DEFINE T == {f[c] : c \in S}
<1>1. PICK m \in T : \A n \in T : m <= n
  BY LeastNatural
<1>2. \E c \in S : \A d \in S : f[c] <= f[d]
  BY <1>1
<1> QED
  BY <1>2 DEF FirstBy

LEMMA FirstByTyped ==
  ASSUME NEW S \in SUBSET Clients, NEW f, \A c \in S : f[c] \in Nat
  PROVE  FirstBy(S, f) \in Clients \cup {NoClient}
BY FirstByIn DEF FirstBy

-----------------------------------------------------------------------------
(* Types                                                                   *)

LEMMA NoRunTyped == NoRun \in Runs
BY CoopRunAssumption DEF NoRun, Runs, Authorities, Life

LEMMA EndIfAllDeadTyped ==
  ASSUME NEW r \in Runs
  PROVE  EndIfAllDead(r) \in Runs
BY NoRunTyped DEF EndIfAllDead

LEMMA NextInitializerTyped ==
  ASSUME NEW r \in Runs, NEW members
  PROVE  NextInitializer(r, members) \in Clients \cup {NoClient}
<1>1. \A c \in Clients : r.slot[c] \in Nat
  BY CoopRunAssumption DEF Runs
<1> QED
  BY <1>1, FirstByTyped DEF NextInitializer, LiveSeats, Seats

LEMMA HandOffTyped ==
  ASSUME NEW r \in Runs, NEW c \in Clients, NEW members
  PROVE  HandOff(r, c, members) \in Runs
BY NextInitializerTyped DEF HandOff, Runs

LEMMA MarkNativeDeadTyped ==
  ASSUME NEW r \in Runs, NEW c \in Clients, NEW members
  PROVE  MarkNativeDead(r, c, members) \in Runs
<1>1. [r EXCEPT !.life[c] = "dead"] \in Runs
  BY DEF Runs, Life
<1> QED
  BY <1>1, HandOffTyped, EndIfAllDeadTyped DEF MarkNativeDead

LEMMA MarkSimDeadTyped ==
  ASSUME NEW r \in Runs, NEW c \in Clients
  PROVE  MarkSimDead(r, c) \in Runs
<1>1. [r EXCEPT !.life[c] = "dead", !.snake[c] = "dead"] \in Runs
  BY DEF Runs, Life
<1> QED
  BY <1>1, EndIfAllDeadTyped DEF MarkSimDead

LEMMA KillSeatTyped ==
  ASSUME NEW r \in Runs, NEW c \in Clients, NEW members
  PROVE  KillSeat(r, c, members) \in Runs
BY MarkNativeDeadTyped, MarkSimDeadTyped DEF KillSeat

LEMMA LeaveSeatTyped ==
  ASSUME NEW r \in Runs, NEW c \in Clients, NEW members,
         NEW heir \in Clients \cup {NoClient}
  PROVE  LeaveSeat(r, c, members, heir) \in Runs
<1> DEFINE simSeat == /\ r.authority = "sim"
                      /\ r.slot[c] # 0
                      /\ r.life[c] = "alive"
           gone == IF simSeat
                   THEN [r EXCEPT !.life[c] = "dead", !.snake[c] = "dead"]
                   ELSE [r EXCEPT !.life[c] = "none"]
           left == [gone EXCEPT !.owner = IF @ = c THEN heir ELSE @]
<1>1. gone \in Runs
  BY DEF Runs, Life
<1>2. left \in Runs
  <2> HIDE DEF gone
  <2> QED BY <1>1 DEF Runs
<1>3. LeaveSeat(r, c, members, heir) =
        IF r.authority = "native" /\ r.slot[c] # 0
        THEN EndIfAllDead(MarkNativeDead(r, c, members))
        ELSE EndIfAllDead(left)
  BY DEF LeaveSeat
<1> QED
  <2> HIDE DEF left
  <2> QED BY <1>2, <1>3, MarkNativeDeadTyped, EndIfAllDeadTyped

LEMMA SlotTyped ==
  ASSUME NEW players \in SUBSET Clients, NEW order, NEW c
  PROVE  SlotOf(players, order, c) \in 0..MaxCoopPlayers
<1> DEFINE ahead == {p \in players : order[p] <= order[c]}
<1>1. Cardinality(ahead) \in Nat
  <2>1. IsFiniteSet(ahead)
    BY CoopRunAssumption, FS_Subset
  <2> QED BY <2>1, FS_CardinalityType
<1> QED
  BY <1>1, CoopRunAssumption DEF SlotOf

LEMMA NewRunTyped ==
  ASSUME NEW players \in SUBSET Clients, NEW order, NEW native \in BOOLEAN,
         NEW admin \in Clients \cup {NoClient}
  PROVE  NewRun(players, order, native, admin) \in Runs
<1> DEFINE slot  == [c \in Clients |-> SlotOf(players, order, c)]
           seats == {c \in Clients : slot[c] # 0}
           owner == IF admin \in seats THEN admin ELSE FirstBy(seats, slot)
           lives == [c \in Clients |-> IF c \in seats THEN "alive" ELSE "none"]
<1>1. slot \in [Clients -> 0..MaxCoopPlayers]
  BY SlotTyped
<1>2. owner \in Clients \cup {NoClient}
  <2>1. \A c \in seats : slot[c] \in Nat
    BY <1>1, CoopRunAssumption
  <2> HIDE DEF slot
  <2> QED BY <2>1, FirstByTyped
<1>3. lives \in [Clients -> Life] /\ seats \subseteq Clients
  BY DEF Life
<1>4. NewRun(players, order, native, admin) =
        [NoRun EXCEPT
           !.authority   = IF native THEN "native" ELSE "sim",
           !.slot        = slot,
           !.life        = lives,
           !.owner       = owner,
           !.initializer = IF native THEN owner ELSE NoClient,
           !.seated      = IF native THEN {} ELSE seats,
           !.snake       = IF native THEN NoRun.snake ELSE lives]
  BY DEF NewRun
<1> HIDE DEF slot, seats, owner, lives
<1> QED
  BY <1>1, <1>2, <1>3, <1>4, NoRunTyped DEF Runs, Authorities
-----------------------------------------------------------------------------
(* Who lives                                                               *)

(***************************************************************************)
(* What keeps a native run going: no seat lost its coop_alive entry, the   *)
(* living seats are among the clients M and there is one, and the client   *)
(* that must commit the board is one of them.                              *)
(***************************************************************************)
NativeSafe(r, M) ==
  r.authority = "native" =>
    /\ \A c \in Seats(r) : r.life[c] # "none"
    /\ LiveSeats(r) \subseteq M
    /\ LiveSeats(r) # {}
    /\ ~r.boardReady => r.initializer \in LiveSeats(r)

(* The room's coop_alive and the flags of the simulation say the same.     *)
SimSafe(r) ==
  /\ \A c \in Clients : r.snake[c] = "alive" =>
       r.authority = "sim" /\ c \in LiveSeats(r)
  /\ r.authority = "sim" => \A c \in LiveSeats(r) : r.snake[c] = "alive"

LEMMA NoRunSafe == \A M : NativeSafe(NoRun, M) /\ SimSafe(NoRun)
BY DEF NativeSafe, SimSafe, NoRun

LEMMA EndIfAllDeadSafe ==
  ASSUME NEW r, NEW M, NativeSafe(r, M)
  PROVE  NativeSafe(EndIfAllDead(r), M)
BY NoRunSafe DEF EndIfAllDead

(* A native death leaves a run that the others can go on with.             *)
LEMMA MarkNativeDeadSafe ==
  ASSUME NEW r \in Runs, NEW c \in Clients, NEW M \in SUBSET Clients,
         NativeSafe(r, M), r.authority = "native"
  PROVE  NativeSafe(MarkNativeDead(r, c, M), M \ {c})
<1>1. CASE c \in LiveSeats(r)
  <2> DEFINE d == [r EXCEPT !.life[c] = "dead"]
             h == HandOff(d, c, M)
  <2>1. d \in Runs /\ d.authority = "native" /\ LiveSeats(d) = LiveSeats(r) \ {c}
        /\ d.boardReady = r.boardReady /\ d.initializer = r.initializer
        /\ \A x \in Seats(d) : d.life[x] # "none"
    BY <1>1 DEF Runs, Life, LiveSeats, Seats, NativeSafe
  <2> HIDE DEF d
  <2>2. h.authority = "native" /\ LiveSeats(h) = LiveSeats(d)
        /\ h.boardReady = d.boardReady
        /\ \A x \in Seats(h) : h.life[x] # "none"
    BY <2>1 DEF HandOff, Runs, LiveSeats, Seats
  <2>3. ~h.boardReady /\ LiveSeats(h) # {} => h.initializer \in LiveSeats(h)
    <3>1. \A x \in LiveSeats(d) : d.slot[x] \in Nat
      BY <2>1, CoopRunAssumption DEF LiveSeats, Seats, Runs
    <3>2. LiveSeats(d) \subseteq M
      BY <2>1 DEF NativeSafe
    <3>3. LiveSeats(d) # {} => NextInitializer(d, M) \in LiveSeats(d)
      BY <3>1, <3>2, FirstByIn DEF NextInitializer
    <3>4. CASE d.boardReady
      BY <2>2, <3>4
    <3>5. CASE ~d.boardReady /\ d.initializer = c
      BY <3>3, <3>5, <2>1, <2>2 DEF HandOff, Runs
    <3>6. CASE ~d.boardReady /\ d.initializer # c
      BY <2>1, <2>2, <3>6 DEF HandOff, NativeSafe
    <3> QED BY <3>4, <3>5, <3>6
  <2>4. LiveSeats(h) \subseteq M \ {c}
    BY <2>1, <2>2 DEF NativeSafe
  <2>5. h \in Runs
    BY <2>1, HandOffTyped
  <2>6. MarkNativeDead(r, c, M) = EndIfAllDead(h)
    BY <1>1 DEF MarkNativeDead, LiveSeats, Seats, d
  <2> HIDE DEF h
  <2>7. ~AllDead(h) => LiveSeats(h) # {}
    BY <2>2, <2>5 DEF AllDead, LiveSeats, Seats, Runs, Life
  <2>8. CASE AllDead(h)
    BY <2>2, <2>6, <2>8, NoRunSafe DEF EndIfAllDead, InRun
  <2>9. CASE ~AllDead(h)
    BY <2>2, <2>3, <2>4, <2>6, <2>7, <2>9 DEF EndIfAllDead, NativeSafe
  <2> QED BY <2>8, <2>9
<1>2. CASE c \notin LiveSeats(r)
  <2>1. MarkNativeDead(r, c, M) = r
    BY <1>2 DEF MarkNativeDead, LiveSeats, Seats
  <2> QED BY <1>2, <2>1 DEF NativeSafe
<1> QED BY <1>1, <1>2

(* KILL and demotion: the others of the run go on without c.               *)
LEMMA KillSeatSafe ==
  ASSUME NEW r \in Runs, NEW c \in Clients, NEW M \in SUBSET Clients,
         NativeSafe(r, M)
  PROVE  NativeSafe(KillSeat(r, c, M), M \ {c})
<1>1. CASE r.authority = "native"
  BY <1>1, MarkNativeDeadSafe DEF KillSeat
<1>2. CASE r.authority = "sim"
  <2>1. MarkSimDead(r, c).authority # "native"
    BY <1>2 DEF MarkSimDead, EndIfAllDead, NoRun, Runs
  <2> QED BY <1>2, <2>1 DEF KillSeat, NativeSafe
<1>3. CASE r.authority = "none"
  BY <1>3 DEF KillSeat, NativeSafe
<1> QED BY <1>1, <1>2, <1>3 DEF Runs, Authorities

LEMMA NativeSafeMore ==
  ASSUME NEW r, NEW M, NEW N, M \subseteq N, NativeSafe(r, M)
  PROVE  NativeSafe(r, N)
BY DEF NativeSafe

(* The same for a departure.                                               *)
LEMMA LeaveSeatSafe ==
  ASSUME NEW r \in Runs, NEW c \in Clients, NEW M \in SUBSET Clients,
         NEW heir, NativeSafe(r, M)
  PROVE  NativeSafe(LeaveSeat(r, c, M, heir), M \ {c})
<1>1. CASE r.authority = "native" /\ r.slot[c] # 0
  BY <1>1, MarkNativeDeadSafe, EndIfAllDeadSafe DEF LeaveSeat
<1>2. CASE r.authority = "native" /\ r.slot[c] = 0
  <2> DEFINE left == [[r EXCEPT !.life[c] = "none"]
                        EXCEPT !.owner = IF @ = c THEN heir ELSE @]
  <2>1. left.authority = "native" /\ Seats(left) = Seats(r)
        /\ LiveSeats(left) = LiveSeats(r) /\ c \notin LiveSeats(r)
        /\ left.boardReady = r.boardReady /\ left.initializer = r.initializer
        /\ \A x \in Seats(r) : left.life[x] = r.life[x]
    BY <1>2 DEF Runs, Seats, LiveSeats
  <2>2. LeaveSeat(r, c, M, heir) = EndIfAllDead(left)
    BY <1>2 DEF LeaveSeat
  <2> HIDE DEF left
  <2>3. NativeSafe(left, M \ {c})
    BY <1>2, <2>1 DEF NativeSafe
  <2> QED BY <2>2, <2>3, EndIfAllDeadSafe
<1>3. CASE r.authority # "native"
  <2>1. LeaveSeat(r, c, M, heir).authority # "native"
    BY <1>3 DEF LeaveSeat, EndIfAllDead, NoRun, Runs
  <2> QED BY <2>1 DEF NativeSafe
<1> QED BY <1>1, <1>2, <1>3

(***************************************************************************)
(* A death changes nothing else in a run, and nobody comes back to life.   *)
(***************************************************************************)
Advances(r, s) ==
  InRun(s) =>
    /\ s.authority = r.authority /\ s.slot = r.slot
    /\ s.seated = r.seated /\ s.timer = r.timer
    /\ s.boardReady = r.boardReady /\ s.revision = r.revision
    /\ s.sources = r.sources /\ s.epoch = r.epoch
    /\ \A c \in Clients : s.life[c] = "alive" => r.life[c] = "alive"
    /\ \A c \in Clients : s.snake[c] = "alive" => r.snake[c] = "alive"

LEMMA AdvancesTransitive ==
  ASSUME NEW r, NEW s, NEW t, Advances(r, s), Advances(s, t)
  PROVE  Advances(r, t)
BY DEF Advances, InRun

LEMMA EndIfAllDeadAdvances ==
  ASSUME NEW r
  PROVE  Advances(r, EndIfAllDead(r))
BY DEF Advances, EndIfAllDead, InRun, NoRun

LEMMA MarkNativeDeadAdvances ==
  ASSUME NEW r \in Runs, NEW c \in Clients, NEW M
  PROVE  Advances(r, MarkNativeDead(r, c, M))
<1> DEFINE d == [r EXCEPT !.life[c] = "dead"]
           h == HandOff(d, c, M)
<1>1. d \in Runs /\ Advances(r, d)
  BY DEF Runs, Life, Advances
<1> HIDE DEF d
<1>2. Advances(d, h)
  BY <1>1 DEF HandOff, Runs, Advances
<1>3. Advances(h, EndIfAllDead(h))
  BY EndIfAllDeadAdvances
<1>4. MarkNativeDead(r, c, M) = EndIfAllDead(h) \/ MarkNativeDead(r, c, M) = r
  BY DEF MarkNativeDead, d
<1>5. Advances(r, EndIfAllDead(h))
  <2> HIDE DEF h
  <2> QED BY <1>1, <1>2, <1>3, AdvancesTransitive
<1>6. Advances(r, r)
  BY DEF Advances
<1> HIDE DEF h
<1> QED BY <1>4, <1>5, <1>6

LEMMA MarkSimDeadAdvances ==
  ASSUME NEW r \in Runs, NEW c \in Clients
  PROVE  Advances(r, MarkSimDead(r, c))
<1> DEFINE d == [r EXCEPT !.life[c] = "dead", !.snake[c] = "dead"]
<1>1. d \in Runs /\ Advances(r, d)
  BY DEF Runs, Life, Advances
<1>2. MarkSimDead(r, c) = EndIfAllDead(d) \/ MarkSimDead(r, c) = r
  BY DEF MarkSimDead
<1> HIDE DEF d
<1>3. Advances(r, EndIfAllDead(d))
  BY <1>1, EndIfAllDeadAdvances, AdvancesTransitive
<1>4. Advances(r, r)
  BY DEF Advances
<1> QED BY <1>2, <1>3, <1>4

LEMMA KillSeatAdvances ==
  ASSUME NEW r \in Runs, NEW c \in Clients, NEW M
  PROVE  Advances(r, KillSeat(r, c, M))
<1>1. Advances(r, r)
  BY DEF Advances
<1> QED BY <1>1, MarkNativeDeadAdvances, MarkSimDeadAdvances DEF KillSeat

LEMMA LeaveSeatAdvances ==
  ASSUME NEW r \in Runs, NEW c \in Clients, NEW M, NEW heir
  PROVE  Advances(r, LeaveSeat(r, c, M, heir))
<1> DEFINE simSeat == /\ r.authority = "sim"
                      /\ r.slot[c] # 0
                      /\ r.life[c] = "alive"
           gone == IF simSeat
                   THEN [r EXCEPT !.life[c] = "dead", !.snake[c] = "dead"]
                   ELSE [r EXCEPT !.life[c] = "none"]
           left == [gone EXCEPT !.owner = IF @ = c THEN heir ELSE @]
           mark == MarkNativeDead(r, c, M)
<1>1. Advances(r, left)
  BY DEF Runs, Life, Advances
<1>2. Advances(r, mark)
  BY MarkNativeDeadAdvances
<1>3. LeaveSeat(r, c, M, heir) \in {EndIfAllDead(mark), EndIfAllDead(left)}
  BY DEF LeaveSeat
<1> HIDE DEF left, mark
<1> QED BY <1>1, <1>2, <1>3, EndIfAllDeadAdvances, AdvancesTransitive

(* Whoever is kicked, demoted or leaves is dead for the others.            *)
Departed(r, c) == c \notin LiveSeats(r) /\ r.snake[c] # "alive"

LEMMA KillSeatDeparted ==
  ASSUME NEW r \in Runs, NEW c \in Clients, NEW M, SimSafe(r)
  PROVE  SimSafe(KillSeat(r, c, M)) /\ (InRun(r) => Departed(KillSeat(r, c, M), c))
<1>1. CASE r.authority = "native" /\ c \in LiveSeats(r)
  <2> DEFINE d == [r EXCEPT !.life[c] = "dead"]
             h == HandOff(d, c, M)
  <2>1. d \in Runs /\ d.authority = "native" /\ d.life[c] = "dead"
        /\ d.snake = r.snake
    BY <1>1 DEF Runs, Life
  <2>2. KillSeat(r, c, M) = EndIfAllDead(h)
    BY <1>1 DEF KillSeat, MarkNativeDead, LiveSeats, Seats
  <2> HIDE DEF d
  <2>3. h.authority = "native" /\ h.life[c] = "dead" /\ h.snake = r.snake
    BY <2>1 DEF HandOff, Runs
  <2> HIDE DEF h
  <2>4. SimSafe(h) /\ Departed(h, c)
    BY <1>1, <2>3 DEF SimSafe, Departed, LiveSeats
  <2>5. Departed(NoRun, c)
    BY DEF Departed, NoRun, LiveSeats, Seats
  <2> QED BY <2>2, <2>4, <2>5, NoRunSafe DEF EndIfAllDead
<1>2. CASE r.authority = "sim" /\ c \in LiveSeats(r)
  <2> DEFINE d == [r EXCEPT !.life[c] = "dead", !.snake[c] = "dead"]
  <2>1. KillSeat(r, c, M) = EndIfAllDead(d)
    BY <1>2 DEF KillSeat, MarkSimDead, LiveSeats, Seats
  <2>2. SimSafe(d) /\ Departed(d, c)
    BY <1>2 DEF SimSafe, Departed, LiveSeats, Seats, Runs
  <2> HIDE DEF d
  <2>3. Departed(NoRun, c)
    BY DEF Departed, NoRun, LiveSeats, Seats
  <2> QED BY <2>1, <2>2, <2>3, NoRunSafe DEF EndIfAllDead
<1>3. CASE ~InRun(r) \/ c \notin LiveSeats(r)
  <2>1. KillSeat(r, c, M) = r
    BY <1>3 DEF KillSeat, MarkNativeDead, MarkSimDead, LiveSeats, Seats, InRun
  <2>2. c \notin LiveSeats(r) => Departed(r, c)
    BY DEF Departed, SimSafe
  <2> QED BY <1>3, <2>1, <2>2
<1> QED BY <1>1, <1>2, <1>3 DEF InRun, Runs, Authorities

LEMMA LeaveSeatDeparted ==
  ASSUME NEW r \in Runs, NEW c \in Clients, NEW M, NEW heir, SimSafe(r)
  PROVE  /\ SimSafe(LeaveSeat(r, c, M, heir))
         /\ Departed(LeaveSeat(r, c, M, heir), c)
<1>0. Departed(NoRun, c) /\ SimSafe(NoRun)
  BY NoRunSafe DEF Departed, NoRun, LiveSeats, Seats
<1>1. CASE r.authority = "native" /\ r.slot[c] # 0
  <2>1. MarkNativeDead(r, c, M) = KillSeat(r, c, M)
    BY <1>1 DEF KillSeat
  <2>2. LeaveSeat(r, c, M, heir) = EndIfAllDead(KillSeat(r, c, M))
    BY <1>1, <2>1 DEF LeaveSeat
  <2> QED BY <1>0, <1>1, <2>2, KillSeatDeparted DEF EndIfAllDead, InRun
<1>2. CASE ~(r.authority = "native" /\ r.slot[c] # 0)
  <2> DEFINE simSeat == /\ r.authority = "sim"
                        /\ r.slot[c] # 0
                        /\ r.life[c] = "alive"
             gone == IF simSeat
                     THEN [r EXCEPT !.life[c] = "dead", !.snake[c] = "dead"]
                     ELSE [r EXCEPT !.life[c] = "none"]
             left == [gone EXCEPT !.owner = IF @ = c THEN heir ELSE @]
  <2>1. LeaveSeat(r, c, M, heir) = EndIfAllDead(left)
    BY <1>2 DEF LeaveSeat
  <2>2. SimSafe(left) /\ Departed(left, c)
    <3>1. CASE simSeat
      BY <3>1 DEF SimSafe, Departed, LiveSeats, Seats, Runs
    <3>2. CASE ~simSeat
      BY <1>2, <3>2 DEF SimSafe, Departed, LiveSeats, Seats, Runs
    <3> QED BY <3>1, <3>2
  <2> HIDE DEF left
  <2> QED BY <1>0, <2>1, <2>2 DEF EndIfAllDead
<1> QED BY <1>1, <1>2

(***************************************************************************)
(* A run starts with a living seat: the first player is seated, because    *)
(* the promotion order tells the players apart.                            *)
(***************************************************************************)
LEMMA NewRunSafe ==
  ASSUME NEW players \in SUBSET Clients, players # {},
         NEW order \in [Clients -> Nat],
         \A p, q \in players : order[p] = order[q] => p = q,
         NEW native \in BOOLEAN, NEW admin \in Clients \cup {NoClient}
  PROVE  LET r == NewRun(players, order, native, admin)
         IN  NativeSafe(r, players) /\ SimSafe(r)
<1> DEFINE slot  == [c \in Clients |-> SlotOf(players, order, c)]
           seats == {c \in Clients : slot[c] # 0}
           owner == IF admin \in seats THEN admin ELSE FirstBy(seats, slot)
           r == NewRun(players, order, native, admin)
<1>1. PICK p \in players : \A q \in players : order[p] <= order[q]
  <2> DEFINE T == {order[q] : q \in players}
  <2>1. T \subseteq Nat /\ T # {}
    OBVIOUS
  <2> HIDE DEF T
  <2>2. PICK m \in T : \A n \in T : m <= n
    BY <2>1, LeastNatural
  <2> QED BY <2>2 DEF T
<1>2. {q \in players : order[q] <= order[p]} = {p}
  BY <1>1
<1>3. slot[p] = 1
  <2>1. Cardinality({q \in players : order[q] <= order[p]}) = 1
    BY <1>2, FS_Singleton
  <2>2. SlotOf(players, order, p) = 1
    BY <2>1, CoopRunAssumption DEF SlotOf
  <2> QED BY <2>2
<1>4. \A c \in Clients : slot[c] \in Nat
  BY SlotTyped, CoopRunAssumption
<1>5. seats \subseteq players
  BY DEF SlotOf
<1> HIDE DEF slot
<1>6. p \in seats /\ owner \in seats
  BY <1>3, <1>4, FirstByIn
<1>7. /\ r.slot = slot /\ r.authority = (IF native THEN "native" ELSE "sim")
      /\ r.life = [c \in Clients |-> IF c \in seats THEN "alive" ELSE "none"]
      /\ r.initializer = (IF native THEN owner ELSE NoClient)
      /\ r.snake = IF native THEN NoRun.snake ELSE r.life
  BY DEF NewRun, NoRun, slot
<1> HIDE DEF r, owner
<1>8. Seats(r) = seats /\ LiveSeats(r) = seats
  BY <1>7 DEF Seats, LiveSeats
<1>9. NativeSafe(r, players)
  BY <1>5, <1>6, <1>7, <1>8 DEF NativeSafe
<1>10. SimSafe(r)
  BY <1>7, <1>8 DEF SimSafe, NoRun
<1> QED BY <1>9, <1>10 DEF r
=============================================================================
