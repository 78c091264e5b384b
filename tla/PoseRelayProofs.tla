-------------------------- MODULE PoseRelayProofs --------------------------
(***************************************************************************)
(* What holds of the poses of a seat, of their journals of turns and of    *)
(* the death of its snake, for any number of pages, events, turns,         *)
(* batches and resyncs and for any length of a journal.                    *)
(***************************************************************************)
EXTENDS PoseRelay, FiniteSetTheorems, SequenceTheorems, TLAPS

-----------------------------------------------------------------------------
(* Journals                                                                *)

LEMMA MaxOf ==
  ASSUME NEW S \in SUBSET Nat, NEW m \in S, \A t \in S : t <= m
  PROVE  Max(S) = m /\ Newest(S) = m
<1>1. \A x \in S : (\A y \in S : x >= y) => x = m
  OBVIOUS
<1>2. (CHOOSE x \in S : \A y \in S : x >= y) = m
  BY <1>1
<1>3. Max(S) = m
  BY <1>2 DEF Max
<1> QED BY <1>3 DEF Newest

\* The newest turn of the last turns up to n is n; they are at most Window.
LEMMA LastTurnsFacts ==
  ASSUME NEW n \in Nat
  PROVE  /\ LastTurns(n) \subseteq 1 .. n
         /\ n > 0 => n \in LastTurns(n)
         /\ LastTurns(n) = {} <=> n = 0
         /\ Newest(LastTurns(n)) = n
<1>1. LastTurns(n) \subseteq 1 .. n /\ (n > 0 => n \in LastTurns(n))
  BY WindowNat DEF LastTurns
<1>2. LastTurns(n) = {} <=> n = 0
  BY <1>1
<1>3. CASE n = 0
  BY <1>1, <1>2, <1>3 DEF Newest
<1>4. CASE n > 0
  BY <1>1, <1>4, MaxOf
<1> QED BY <1>1, <1>2, <1>3, <1>4

LEMMA CountAbove ==
  ASSUME NEW n \in Nat, NEW T \in SUBSET (1 .. n), NEW t \in T,
         (t .. n) \subseteq T
  PROVE  /\ {u \in T : u > t} = (t + 1) .. n
         /\ Cardinality({u \in T : u > t}) = n - t
<1>1. {u \in T : u > t} = (t + 1) .. n
  <2>0. t \in Nat
    OBVIOUS
  <2>1. \A u \in T : u > t => u \in (t + 1) .. n
    BY <2>0
  <2>2. \A u \in (t + 1) .. n : u \in T /\ u > t
    BY <2>0
  <2> QED BY <2>1, <2>2, Zenon
<1>2. Cardinality((t + 1) .. n) = IF t + 1 > n THEN 0 ELSE n - (t + 1) + 1
  BY FS_Interval
<1>3. Cardinality((t + 1) .. n) = n - t
  <2>1. t \in 1 .. n
    OBVIOUS
  <2> QED BY <1>2, <2>1
<1> QED BY <1>1, <1>3, Zenon

\* What is left of turns without a gap up to n when the journal is cut.
LEMMA CutOfRun ==
  ASSUME NEW n \in Nat, NEW T \in SUBSET (1 .. n),
         \A t \in T : (t .. n) \subseteq T
  PROVE  LastOf(T) = {t \in T : t + Window > n}
<1>1. ASSUME NEW t \in T
      PROVE  Cardinality({u \in T : u > t}) < Window <=> t + Window > n
  <2>1. Cardinality({u \in T : u > t}) = n - t
    BY CountAbove
  <2> QED BY <2>1, WindowNat
<1> QED BY <1>1 DEF LastOf

LEMMA CutIsLast ==
  ASSUME NEW n \in Nat, NEW T \in SUBSET (1 .. n),
         \A t \in T : (t .. n) \subseteq T, LastTurns(n) \subseteq T
  PROVE  LastOf(T) = LastTurns(n)
<1>1. LastOf(T) = {t \in T : t + Window > n}
  BY CutOfRun
<1> QED BY <1>1 DEF LastTurns

\* A journal that is not newer adds nothing to the last turns up to a.
LEMMA MergeNewer ==
  ASSUME NEW a \in Nat, NEW n \in 0 .. a
  PROVE  Merge(LastTurns(n), LastTurns(a)) = LastTurns(a)
<1> DEFINE S == LastTurns(n) \cup LastTurns(a)
           T == {t \in S : (t .. Newest(S)) \subseteq S}
<1>1. S \in SUBSET (1 .. a) /\ (a > 0 => a \in S) /\ (a = 0 => S = {})
  BY LastTurnsFacts
<1>2. Newest(S) = a
  <2>1. CASE a = 0
    BY <1>1, <2>1 DEF Newest
  <2>2. CASE a > 0
    BY <1>1, <2>2, MaxOf
  <2> QED BY <2>1, <2>2
<1>3. T = {t \in S : (t .. a) \subseteq S}
  BY <1>2
<1> HIDE DEF T
<1>4. \A t \in LastTurns(a) : (t .. a) \subseteq LastTurns(a)
  BY WindowNat DEF LastTurns
<1>5. LastTurns(a) \subseteq T
  BY <1>3, <1>4
<1>6. T \in SUBSET (1 .. a)
  BY <1>1, <1>3
<1>7. \A t \in T : (t .. a) \subseteq T
  <2> SUFFICES ASSUME NEW t \in T, NEW u \in t .. a PROVE u \in T
    OBVIOUS
  <2>1. (t .. a) \subseteq S /\ t \in 1 .. a
    BY <1>3, <1>6
  <2>2. u \in S /\ (u .. a) \subseteq (t .. a)
    BY <2>1
  <2> QED BY <2>1, <2>2, <1>3
<1>8. LastOf(T) = LastTurns(a)
  BY <1>5, <1>6, <1>7, CutIsLast
<1> QED BY <1>8 DEF Merge, T

LEMMA MergeNothing == Merge({}, {}) = {}
BY DEF Merge, LastOf

\* What the page keeps after one more turn: the turns not acknowledged.
Suffix(n, a) == {t \in LastTurns(n) : t > a}

LEMMA OneMoreTurn ==
  ASSUME NEW n \in Nat, NEW a \in 0 .. n
  PROVE  LastOf(Suffix(n, a) \cup {n + 1}) = Suffix(n + 1, a)
<1> DEFINE T == Suffix(n, a) \cup {n + 1}
<1>1. T \in SUBSET (1 .. n + 1)
  BY DEF Suffix, LastTurns
<1>2. \A t \in T : (t .. n + 1) \subseteq T
  BY WindowNat DEF Suffix, LastTurns
<1>3. LastOf(T) = {t \in T : t + Window > n + 1}
  BY <1>1, <1>2, CutOfRun
<1>4. {t \in T : t + Window > n + 1} = Suffix(n + 1, a)
  BY WindowNat DEF Suffix, LastTurns
<1> QED BY <1>3, <1>4

\* What the server keeps when the suffix of a pose fits its journal.
LEMMA ServerTakes ==
  ASSUME NEW high \in Nat, NEW n \in Nat, NEW a \in 0 .. high, high <= n,
         \A t \in Suffix(n, a) : ((high + 1) .. t) \subseteq Suffix(n, a)
  PROVE  LastOf(LastTurns(high) \cup {t \in Suffix(n, a) : t > high})
           = LastTurns(n)
<1> DEFINE T == LastTurns(high) \cup {t \in Suffix(n, a) : t > high}
<1>1. T \in SUBSET (1 .. n)
  BY DEF Suffix, LastTurns
<1>2. ((high + 1) .. n) \subseteq T
  <2>1. CASE n = high
    BY <2>1
  <2>2. CASE n > high
    <3>1. n \in Suffix(n, a)
      BY <2>2, LastTurnsFacts DEF Suffix
    <3> QED BY <3>1
  <2> QED BY <2>1, <2>2
<1>3. \A t \in T : (t .. n) \subseteq T
  <2> SUFFICES ASSUME NEW t \in T, NEW u \in t .. n PROVE u \in T
    OBVIOUS
  <2>1. u \in Nat /\ t \in Nat
    BY <1>1
  <2>2. CASE u > high
    BY <1>2, <2>1, <2>2
  <2>3. CASE u <= high
    BY <2>1, <2>3, WindowNat DEF LastTurns
  <2> QED BY <2>1, <2>2, <2>3
<1>4. LastTurns(n) \subseteq T
  <2> SUFFICES ASSUME NEW t \in LastTurns(n) PROVE t \in T
    OBVIOUS
  <2>1. t \in 1 .. n /\ t + Window > n
    BY DEF LastTurns
  <2>2. CASE t > high
    BY <1>2, <2>1, <2>2
  <2>3. CASE t <= high
    BY <2>1, <2>3, WindowNat DEF LastTurns
  <2> QED BY <2>1, <2>2, <2>3
<1> QED BY <1>1, <1>3, <1>4, CutIsLast

LEMMA SuffixBounded ==
  ASSUME NEW n \in 0 .. MaxTurns, NEW a \in Nat
  PROVE  /\ LastTurns(n) \in Turns /\ Suffix(n, a) \in Turns
         /\ Cardinality(Suffix(n, a)) <= Window
<1>1. LastTurns(n) \in Turns /\ Suffix(n, a) \in Turns
  BY BoundsNat DEF Turns, LastTurns, Suffix
<1>2. n \in Nat /\ Window \in Nat /\ Window > 0
  BY BoundsNat, WindowNat
<1>3. Suffix(n, a) \in SUBSET ((n - Window + 1) .. n)
  BY <1>2 DEF Suffix, LastTurns
<1>4. /\ IsFiniteSet((n - Window + 1) .. n)
      /\ Cardinality((n - Window + 1) .. n) = Window
  BY <1>2, FS_Interval
<1>5. Cardinality(Suffix(n, a)) <= Window
  BY <1>3, <1>4, FS_Subset
<1> QED BY <1>1, <1>5
-----------------------------------------------------------------------------
(* The invariant                                                           *)

(***************************************************************************)
(* A history h says how many turns the player had made at each of its      *)
(* events.  The invariant is that there is one that explains every pose in *)
(* the system: at event s the body had h[s] turns, so a pose of event s    *)
(* has that many, and its journal is that of the last of them.  The page   *)
(* itself keeps only where it is now; the journals of the server and of    *)
(* the pages connect because a later event has no fewer turns.             *)
(***************************************************************************)
Histories ==
  {h \in [Nat -> 0 .. MaxTurns] : \A i, j \in Nat : i <= j => h[i] <= h[j]}

PoseAt(h, s) == [seq |-> s, turns |-> LastTurns(h[s]), at |-> h[s]]

\* The poses the server may have taken.
Taken(h) == {PoseAt(h, s) : s \in {i \in 1 .. me.seq : h[i] <= srv.high}}

Corpses == {NoSeq(n) : n \in 0 .. MaxTurns}

Buried(h) == IF srv.alive THEN {} ELSE Taken(h) \cup Corpses

\* What the page may have sent: a pose leaves out the turns up to one that
\* the server has.
Offered(h) ==
  {[type |-> "POSE", seq |-> s, turns |-> Suffix(h[s], a), at |-> h[s]] :
     s \in 1 .. me.seq, a \in 0 .. srv.high}

Sent(h) ==
  Offered(h) \cup [type : {"BOARD"}, seq : 1 .. me.seq]
    \cup [type : {"DEAD"}, seq : 1 .. me.seq, at : 0 .. MaxTurns]

\* What may be on the way to a page.
News(h) ==
  [type : {"SNAKE"}, pose : Taken(h)] \cup [type : {"DEAD"}, pose : Buried(h)]
    \cup [type : {"REPLAY"}, pose : {None} \cup Taken(h) \cup Buried(h)]
    \cup [type : {"READY"}]

Batches(h) == [to : SUBSET Pages, msg : News(h)]

Snakes == [at : 0 .. MaxTurns, turns : Turns, dead : BOOLEAN]

Views(h) ==
  {v \in [seen : 0 .. me.seq, turns : Turns, native : Nat,
          remote : {None} \cup Snakes, pending : {None} \cup Taken(h)] :
     /\ \E n \in 0 .. h[v.seen] : v.turns = LastTurns(n)
     /\ \/ v.remote = None \/ v.remote.dead \/ ~srv.alive
        \/ v.remote.turns = LastTurns(v.remote.at)}

PageOK(h) ==
  /\ me \in [seq : Nat, made : 0 .. MaxTurns, acked : Nat, turns : Turns,
             moved : BOOLEAN, queued : {None} \cup Offered(h),
             ready : BOOLEAN, dead : BOOLEAN, here : BOOLEAN]
  /\ me.acked <= srv.high /\ me.acked <= me.made
  /\ me.turns = Suffix(me.made, me.acked)
  /\ \A s \in Nat : s >= me.seq => h[s] = me.made

ServerOK(h) ==
  /\ srv \in [high : 0 .. MaxTurns, journal : Turns, last : 0 .. me.seq,
              pose : {None} \cup Taken(h) \cup Buried(h),
              alive : BOOLEAN, ready : BOOLEAN]
  /\ srv.journal = LastTurns(srv.high) /\ srv.high <= h[srv.last]

Consistent(h) ==
  /\ PageOK(h) /\ ServerOK(h)
  /\ up \in Seq(Sent(h))
  /\ flight \in Seq(Batches(h))
  /\ down \in [Pages -> Seq(News(h))]
  /\ view \in [Pages -> Views(h)]

Inv == \E h \in Histories : Consistent(h)

(***************************************************************************)
(* What was explained stays explained: a step may add events with their    *)
(* turns, raise high and bury the snake, and does not undo any of it.      *)
(***************************************************************************)
Grows(h, g) ==
  /\ \A s \in 0 .. me.seq : g[s] = h[s]
  /\ me.seq \in Nat /\ me.seq' \in Nat /\ me.seq <= me.seq'
  /\ srv.high \in Nat /\ srv.high' \in Nat /\ srv.high <= srv.high'
  /\ srv.alive' => srv.alive

LEMMA HistoryOrder ==
  ASSUME NEW h \in Histories, NEW i \in Nat, NEW j \in Nat, i <= j
  PROVE  h[i] \in 0 .. MaxTurns /\ h[i] \in Nat /\ h[j] \in Nat /\ h[i] <= h[j]
<1>1. h \in [Nat -> 0 .. MaxTurns] /\ h[i] <= h[j]
  BY DEF Histories
<1>2. h[i] \in 0 .. MaxTurns /\ h[j] \in 0 .. MaxTurns
  BY <1>1
<1> QED BY <1>1, <1>2, BoundsNat

LEMMA PosesGrow ==
  ASSUME NEW h \in Histories, NEW g \in Histories, Grows(h, g)
  PROVE  /\ Taken(h) \subseteq Taken(g)'
         /\ Buried(h) \subseteq Buried(g)'
         /\ Offered(h) \subseteq Offered(g)'
<1>1. ASSUME NEW p \in Taken(h) PROVE p \in Taken(g)'
  <2>1. PICK s \in 1 .. me.seq : h[s] <= srv.high /\ p = PoseAt(h, s)
    BY <1>1 DEF Taken
  <2>2. s \in 1 .. me.seq' /\ g[s] = h[s] /\ h[s] \in Nat
    BY BoundsNat DEF Grows, Histories
  <2>3. PoseAt(g, s) = PoseAt(h, s) /\ g[s] <= srv.high'
    BY <2>1, <2>2 DEF PoseAt, Grows
  <2> QED BY <2>1, <2>2, <2>3 DEF Taken
<1>2. Buried(h) \subseteq Buried(g)'
  BY <1>1 DEF Buried, Grows
<1>3. ASSUME NEW m \in Offered(h) PROVE m \in Offered(g)'
  <2>1. PICK s \in 1 .. me.seq, a \in 0 .. srv.high :
          m = [type |-> "POSE", seq |-> s, turns |-> Suffix(h[s], a), at |-> h[s]]
    BY <1>3 DEF Offered
  <2>2. s \in 1 .. me.seq' /\ a \in 0 .. srv.high' /\ g[s] = h[s]
    BY DEF Grows
  <2> QED BY <2>1, <2>2 DEF Offered
<1> QED BY <1>1, <1>2, <1>3

LEMMA MessagesGrow ==
  ASSUME NEW h \in Histories, NEW g \in Histories, Grows(h, g)
  PROVE  /\ Sent(h) \subseteq Sent(g)'
         /\ News(h) \subseteq News(g)'
         /\ Batches(h) \subseteq Batches(g)'
<1>1. Sent(h) \subseteq Sent(g)'
  <2>1. 1 .. me.seq \subseteq 1 .. me.seq'
    BY DEF Grows
  <2> QED BY <2>1, PosesGrow DEF Sent
<1>2. News(h) \subseteq News(g)'
  BY PosesGrow DEF News
<1>3. Batches(h) \subseteq Batches(g)'
  BY <1>2 DEF Batches
<1> QED BY <1>1, <1>2, <1>3

LEMMA ViewsGrow ==
  ASSUME NEW h \in Histories, NEW g \in Histories, Grows(h, g)
  PROVE  Views(h) \subseteq Views(g)'
<1> SUFFICES ASSUME NEW v \in Views(h) PROVE v \in Views(g)'
  OBVIOUS
<1>1. 0 .. me.seq \subseteq 0 .. me.seq' /\ g[v.seen] = h[v.seen]
  BY DEF Views, Grows
<1>2. {None} \cup Taken(h) \subseteq {None} \cup Taken(g)'
  BY PosesGrow
<1>3. v \in [seen : 0 .. me.seq', turns : Turns, native : Nat,
             remote : {None} \cup Snakes, pending : {None} \cup Taken(g)']
  BY <1>1, <1>2 DEF Views
<1> QED BY <1>1, <1>3 DEF Views, Grows

LEMMA Kept ==
  ASSUME NEW h \in Histories, NEW g \in Histories, Grows(h, g), Consistent(h)
  PROVE  /\ up \in Seq(Sent(g)')
         /\ flight \in Seq(Batches(g)')
         /\ down \in [Pages -> Seq(News(g)')]
         /\ view \in [Pages -> Views(g)']
<1>1. up \in Seq(Sent(g)')
  BY MessagesGrow, SeqMonotonic DEF Consistent
<1>2. flight \in Seq(Batches(g)')
  BY MessagesGrow, SeqMonotonic DEF Consistent
<1>3. ASSUME NEW q \in Seq(News(h)) PROVE q \in Seq(News(g)')
  BY MessagesGrow, SeqMonotonic
<1>4. down \in [Pages -> Seq(News(g)')]
  BY <1>3 DEF Consistent
<1>5. view \in [Pages -> Views(g)']
  BY ViewsGrow DEF Consistent
<1> QED BY <1>1, <1>2, <1>4, <1>5

LEMMA InitConsistent == Init => Inv
<1> SUFFICES ASSUME Init PROVE Inv
  OBVIOUS
<1> DEFINE h == [s \in Nat |-> 0]
<1>0. 0 \in 0 .. MaxTurns /\ {} \in Turns /\ LastTurns(0) = {}
  BY BoundsNat DEF Turns, LastTurns
<1>1. h \in Histories
  BY <1>0 DEF Histories
<1>2. PageOK(h)
  BY <1>0 DEF Init, PageOK, Suffix
<1>3. ServerOK(h)
  BY <1>0 DEF Init, ServerOK
<1>4. NoView \in Views(h)
  <2>1. me.seq = 0 /\ h[0] = 0
    BY DEF Init
  <2>2. NoView \in [seen : 0 .. me.seq, turns : Turns, native : Nat,
                    remote : {None} \cup Snakes, pending : {None} \cup Taken(h)]
    BY <1>0, <2>1 DEF NoView
  <2>3. 0 \in 0 .. h[NoView.seen] /\ NoView.turns = LastTurns(0)
    BY <1>0, <2>1 DEF NoView
  <2> QED BY <2>2, <2>3 DEF Views, NoView
<1>5. Consistent(h)
  BY <1>2, <1>3, <1>4, EmptySeq DEF Init, Consistent
<1> QED BY <1>1, <1>5 DEF Inv

-----------------------------------------------------------------------------
(* The page of the seat                                                    *)

\* The page goes on to its next event: the history is unchanged, or has one
\* more turn from that event on.
LEMMA NextEvent ==
  ASSUME NEW h \in Histories, Consistent(h), NEW n \in {me.made, me.made + 1},
         n <= MaxTurns, me'.seq = me.seq + 1, UNCHANGED srv
  PROVE  \E g \in Histories :
           /\ Grows(h, g)
           /\ \A s \in Nat : s >= me.seq + 1 => g[s] = n
<1> DEFINE g == [s \in Nat |-> IF s > me.seq THEN n ELSE h[s]]
<1>0. /\ me.seq \in Nat /\ me.made \in 0 .. MaxTurns /\ srv.high \in 0 .. MaxTurns
      /\ h[me.seq] = me.made
      /\ \A i, j \in Nat : i <= j => h[i] <= h[j]
      /\ h \in [Nat -> 0 .. MaxTurns]
  <2>1. me.seq \in Nat /\ me.made \in 0 .. MaxTurns
    BY DEF Consistent, PageOK
  <2>2. srv.high \in 0 .. MaxTurns
    BY DEF Consistent, ServerOK
  <2>3. h[me.seq] = me.made
    BY <2>1 DEF Consistent, PageOK
  <2>4. /\ \A i, j \in Nat : i <= j => h[i] <= h[j]
        /\ h \in [Nat -> 0 .. MaxTurns]
    BY DEF Histories
  <2> QED BY <2>1, <2>2, <2>3, <2>4
<1>1. \A i \in Nat : i <= me.seq => h[i] <= n
  BY <1>0, BoundsNat
<1>2. g \in [Nat -> 0 .. MaxTurns]
  BY <1>0, BoundsNat
<1>3. ASSUME NEW i \in Nat, NEW j \in Nat, i <= j PROVE g[i] <= g[j]
  <2>1. h[i] <= h[j] /\ n \in Nat /\ n <= n
    BY <1>0, <1>3
  <2>2. CASE j <= me.seq
    BY <1>0, <1>3, <2>1, <2>2
  <2>3. CASE i > me.seq
    BY <1>0, <1>3, <2>1, <2>3
  <2>4. CASE i <= me.seq /\ j > me.seq
    BY <1>0, <1>1, <2>4
  <2> QED BY <1>0, <2>2, <2>3, <2>4
<1>4. g \in Histories
  BY <1>2, <1>3 DEF Histories
<1>5. Grows(h, g)
  BY <1>0, BoundsNat DEF Grows
<1>6. \A s \in Nat : s >= me.seq + 1 => g[s] = n
  BY <1>0
<1> QED BY <1>4, <1>5, <1>6

LEMMA ServerKept ==
  ASSUME NEW h \in Histories, NEW g \in Histories, Grows(h, g), Consistent(h),
         UNCHANGED srv
  PROVE  ServerOK(g)'
<1>1. {None} \cup Taken(h) \cup Buried(h) \subseteq {None} \cup Taken(g)' \cup Buried(g)'
  BY PosesGrow
<1>2. 0 .. me.seq \subseteq 0 .. me.seq' /\ g[srv.last] = h[srv.last]
  BY DEF Grows, Consistent, ServerOK
<1>3. /\ srv.pose \in {None} \cup Taken(g)' \cup Buried(g)'
      /\ srv.last \in 0 .. me.seq' /\ srv.high <= g[srv.last]
  BY <1>1, <1>2 DEF Consistent, ServerOK
<1>4. srv' \in [high : 0 .. MaxTurns, journal : Turns, last : 0 .. me.seq',
               pose : {None} \cup Taken(g)' \cup Buried(g)',
               alive : BOOLEAN, ready : BOOLEAN]
  BY <1>3 DEF Consistent, ServerOK
<1> QED BY <1>3, <1>4 DEF Consistent, ServerOK

LEMMA TickConsistent ==
  ASSUME NEW h \in Histories, Consistent(h), Tick
  PROVE  \E g \in Histories : Consistent(g)'
<1>1. PICK moves \in BOOLEAN, turns \in BOOLEAN :
        /\ turns => moves /\ me.made < MaxTurns
        /\ LET p == Observe(me, moves, turns)
           IN IF p.moved /\ ~p.ready
              THEN me' = [p EXCEPT !.queued = Pose(p)] /\ UNCHANGED up
              ELSE me' = p /\ up' = Append(up, Pose(p))
  BY DEF Tick
<1> DEFINE p == Observe(me, moves, turns)
           n == IF turns THEN me.made + 1 ELSE me.made
<1>2. /\ me \in [seq : Nat, made : 0 .. MaxTurns, acked : Nat, turns : Turns,
                 moved : BOOLEAN, queued : {None} \cup Offered(h),
                 ready : BOOLEAN, dead : BOOLEAN, here : BOOLEAN]
      /\ me.acked <= srv.high /\ me.acked <= me.made
      /\ me.turns = Suffix(me.made, me.acked)
      /\ srv.high \in Nat
      /\ UNCHANGED <<srv, flight, down, view>>
  BY DEF Consistent, PageOK, ServerOK, Tick
<1>3. n \in 0 .. MaxTurns /\ n \in {me.made, me.made + 1}
  BY <1>1, <1>2, BoundsNat
<1> DEFINE T == IF turns THEN LastOf(me.turns \cup {me.made + 1}) ELSE me.turns
<1>4. T = Suffix(n, me.acked)
  <2>1. LastOf(Suffix(me.made, me.acked) \cup {me.made + 1})
          = Suffix(me.made + 1, me.acked)
    BY <1>2, OneMoreTurn
  <2> QED BY <1>2, <2>1
<1>5. T \in Turns
  BY <1>2, <1>3, <1>4, SuffixBounded
<1> HIDE DEF T, n
<1>6. /\ p.seq = me.seq + 1 /\ p.made = n /\ p.acked = me.acked
      /\ p.turns = Suffix(n, p.acked) /\ p.queued = me.queued
      /\ p.moved \in BOOLEAN /\ p.ready = me.ready
      /\ p.dead = me.dead /\ p.here = me.here
      /\ p \in [seq : Nat, made : 0 .. MaxTurns, acked : Nat,
                turns : Turns, moved : BOOLEAN,
                queued : {None} \cup Offered(h),
                ready : BOOLEAN, dead : BOOLEAN, here : BOOLEAN]
  <2> DEFINE m == me.moved \/ moves
  <2>1. p = [me EXCEPT !.seq = me.seq + 1, !.moved = m, !.made = n, !.turns = T]
    BY DEF Observe, T, n
  <2>2. m \in BOOLEAN
    OBVIOUS
  <2> HIDE DEF p, m
  <2>3. me.seq + 1 \in Nat
    BY <1>2
  <2>4. /\ p.seq = me.seq + 1 /\ p.made = n /\ p.acked = me.acked
        /\ p.turns = T /\ p.queued = me.queued /\ p.moved = m
        /\ p.ready = me.ready /\ p.dead = me.dead /\ p.here = me.here
    BY <1>2, <2>1
  <2>5. p \in [seq : Nat, made : 0 .. MaxTurns, acked : Nat,
                turns : Turns, moved : BOOLEAN,
                queued : {None} \cup Offered(h),
                ready : BOOLEAN, dead : BOOLEAN, here : BOOLEAN]
    BY <1>2, <1>3, <1>5, <2>1, <2>2, <2>3
  <2> QED BY <1>4, <2>2, <2>4, <2>5
<1> HIDE DEF p
<1>7. /\ me'.seq = p.seq /\ me'.made = p.made /\ me'.acked = p.acked
      /\ me'.turns = p.turns /\ me'.moved = p.moved /\ me'.ready = p.ready
      /\ me'.dead = p.dead /\ me'.here = p.here
      /\ me' \in [seq : Nat, made : 0 .. MaxTurns, acked : Nat, turns : Turns,
                  moved : BOOLEAN, queued : {p.queued, Pose(p)},
                  ready : BOOLEAN, dead : BOOLEAN, here : BOOLEAN]
      /\ Pose(me') = Pose(p)
      /\ up' = up \/ up' = Append(up, Pose(p))
  BY <1>1, <1>6 DEF p, Pose
<1>8. PICK g \in Histories :
        Grows(h, g) /\ \A s \in Nat : s >= me.seq + 1 => g[s] = n
  BY <1>2, <1>3, <1>6, <1>7, NextEvent
<1>9. Pose(p) \in Offered(g)'
  <2>1. p.seq \in 1 .. me'.seq /\ g[p.seq] = n
    BY <1>2, <1>6, <1>7, <1>8
  <2>2. p.acked \in 0 .. srv'.high
    BY <1>2, <1>6
  <2>3. Pose(p) = [type |-> "POSE", seq |-> p.seq,
                   turns |-> Suffix(g[p.seq], p.acked), at |-> g[p.seq]]
    BY <1>6, <2>1 DEF Pose
  <2> QED BY <2>1, <2>2, <2>3 DEF Offered
<1>10. PageOK(g)'
  <2>1. me'.queued \in {None} \cup Offered(g)'
    BY <1>6, <1>7, <1>8, <1>9, PosesGrow, <1>2
  <2>2. me' \in [seq : Nat, made : 0 .. MaxTurns, acked : Nat, turns : Turns,
                 moved : BOOLEAN, queued : {None} \cup Offered(g)',
                 ready : BOOLEAN, dead : BOOLEAN, here : BOOLEAN]
    BY <1>7, <2>1
  <2>3. \A s \in Nat : s >= me'.seq => g[s] = me'.made
    BY <1>6, <1>7, <1>8
  <2>4. me'.acked <= srv'.high /\ me'.acked <= me'.made
        /\ me'.turns = Suffix(me'.made, me'.acked)
    BY <1>2, <1>3, <1>6, <1>7 DEF n
  <2> QED BY <2>2, <2>3, <2>4 DEF PageOK
<1>11. up' \in Seq(Sent(g)')
  <2>1. up \in Seq(Sent(g)') /\ Pose(p) \in Sent(g)'
    BY <1>8, <1>9, Kept DEF Sent
  <2> QED BY <1>7, <2>1, AppendProperties
<1>12. ServerOK(g)'
  BY <1>2, <1>8, ServerKept
<1>13. Consistent(g)'
  BY <1>2, <1>8, <1>10, <1>11, <1>12, Kept DEF Consistent
<1> QED BY <1>8, <1>13

\* A step that makes no turn and acknowledges none.
LEMMA PageKept ==
  ASSUME NEW h \in Histories, Grows(h, h), Consistent(h),
         me' \in [seq : Nat, made : {me.made}, acked : {me.acked},
                  turns : {me.turns}, moved : BOOLEAN,
                  queued : {None} \cup Offered(h),
                  ready : BOOLEAN, dead : BOOLEAN, here : BOOLEAN]
  PROVE  PageOK(h)'
<1>1. {None} \cup Offered(h) \subseteq {None} \cup Offered(h)'
  BY PosesGrow
<1>2. /\ me.made \in 0 .. MaxTurns /\ me.acked \in Nat /\ me.turns \in Turns
      /\ me.acked <= srv.high /\ me.acked <= me.made
      /\ me.turns = Suffix(me.made, me.acked) /\ srv.high <= srv'.high
      /\ srv.high \in Nat /\ srv'.high \in Nat /\ me.seq <= me'.seq
      /\ me.seq \in Nat /\ me'.seq \in Nat
      /\ \A s \in Nat : s >= me.seq => h[s] = me.made
  BY DEF Grows, Consistent, PageOK
<1>3. me'.made = me.made /\ me'.acked = me.acked /\ me'.turns = me.turns
  OBVIOUS
<1>4. me' \in [seq : Nat, made : 0 .. MaxTurns, acked : Nat, turns : Turns,
               moved : BOOLEAN, queued : {None} \cup Offered(h)',
               ready : BOOLEAN, dead : BOOLEAN, here : BOOLEAN]
  BY <1>1, <1>2
<1>5. /\ me'.acked <= srv'.high /\ me'.acked <= me'.made
      /\ me'.turns = Suffix(me'.made, me'.acked)
      /\ \A s \in Nat : s >= me'.seq => h[s] = me'.made
  BY <1>2, <1>3
<1> QED BY <1>4, <1>5 DEF PageOK

\* What the proofs use of the two records.
LEMMA Records ==
  ASSUME NEW h \in Histories, Consistent(h)
  PROVE  /\ me \in [seq : Nat, made : {me.made}, acked : {me.acked},
                    turns : {me.turns}, moved : BOOLEAN,
                    queued : {None} \cup Offered(h),
                    ready : BOOLEAN, dead : BOOLEAN, here : BOOLEAN]
         /\ me.seq \in Nat /\ me.made \in 0 .. MaxTurns /\ me.acked \in Nat
         /\ srv.high \in Nat /\ srv.high \in 0 .. MaxTurns
         /\ srv.alive \in BOOLEAN /\ srv.last \in 0 .. me.seq
BY BoundsNat DEF Consistent, PageOK, ServerOK

LEMMA PublishBoardConsistent ==
  ASSUME NEW h \in Histories, Consistent(h), PublishBoard
  PROVE  Consistent(h)'
<1>0. me'.seq = me.seq + 1 /\ UNCHANGED <<srv, flight, down, view>>
  BY Records DEF PublishBoard
<1>1. Grows(h, h)
  BY <1>0, Records DEF Grows
<1>2. PageOK(h)'
  <2>1. me' \in [seq : Nat, made : {me.made}, acked : {me.acked},
                 turns : {me.turns}, moved : BOOLEAN,
                 queued : {None} \cup Offered(h),
                 ready : BOOLEAN, dead : BOOLEAN, here : BOOLEAN]
    <3>1. me' = [me EXCEPT !.seq = me.seq + 1]
      BY DEF PublishBoard
    <3>2. me.seq + 1 \in Nat
      BY Records
    <3> QED BY <3>1, <3>2, Records
  <2> QED BY <1>1, <2>1, PageKept
<1>3. up' \in Seq(Sent(h)')
  <2>1. [type |-> "BOARD", seq |-> me.seq + 1] \in Sent(h)'
    BY <1>0, Records DEF Sent
  <2> QED BY <1>1, <2>1, Kept, AppendProperties DEF PublishBoard
<1>4. ServerOK(h)'
  BY <1>0, <1>1, ServerKept
<1> QED BY <1>0, <1>1, <1>2, <1>3, <1>4, Kept DEF Consistent

LEMMA DieConsistent ==
  ASSUME NEW h \in Histories, Consistent(h), Die
  PROVE  Consistent(h)'
<1>0. me'.seq = me.seq + 1 /\ UNCHANGED <<srv, flight, down, view>>
  BY Records DEF Die
<1>1. Grows(h, h)
  BY <1>0, Records DEF Grows
<1>2. PageOK(h)'
  <2>1. me' \in [seq : Nat, made : {me.made}, acked : {me.acked},
                 turns : {me.turns}, moved : BOOLEAN,
                 queued : {None} \cup Offered(h),
                 ready : BOOLEAN, dead : BOOLEAN, here : BOOLEAN]
    <3>1. me' = [me EXCEPT !.dead = TRUE, !.seq = me.seq + 1]
      BY DEF Die
    <3>2. me.seq + 1 \in Nat
      BY Records
    <3> QED BY <3>1, <3>2, Records
  <2> QED BY <1>1, <2>1, PageKept
<1>3. up' \in Seq(Sent(h)')
  <2>1. [type |-> "DEAD", seq |-> me.seq + 1, at |-> me.made] \in Sent(h)'
    BY <1>0, Records DEF Sent
  <2> QED BY <1>1, <2>1, Kept, AppendProperties DEF Die
<1>4. ServerOK(h)'
  BY <1>0, <1>1, ServerKept
<1> QED BY <1>0, <1>1, <1>2, <1>3, <1>4, Kept DEF Consistent

-----------------------------------------------------------------------------
(* The server                                                              *)

LEMMA Emits ==
  ASSUME NEW h \in Histories, Grows(h, h), Consistent(h),
         NEW to \in SUBSET Pages, NEW m \in News(h)', Emit(to, m)
  PROVE  flight' \in Seq(Batches(h)')
<1>1. [to |-> to, msg |-> m] \in Batches(h)'
  BY DEF Batches
<1>2. flight \in Seq(Batches(h)')
  BY Kept
<1> QED BY <1>1, <1>2, AppendProperties DEF Emit

LEMMA PresentPages == Present \in SUBSET Pages
BY DEF Present, Pages

\* A step of the server that the page and the views are not part of.
LEMMA ServerStep ==
  ASSUME NEW h \in Histories, Consistent(h), UNCHANGED <<me, down, view>>,
         Grows(h, h), ServerOK(h)',
         up' \in Seq(Sent(h)'), flight' \in Seq(Batches(h)')
  PROVE  Consistent(h)'
<1>1. PageOK(h)'
  BY Records, PageKept
<1> QED BY <1>1, Kept DEF Consistent

LEMMA OtherBoardConsistent ==
  ASSUME NEW h \in Histories, Consistent(h), OtherBoard
  PROVE  Consistent(h)'
<1>1. /\ srv' = [srv EXCEPT !.ready = TRUE, !.pose = None]
      /\ UNCHANGED <<me, up, down, view>>
      /\ Emit(Present, [type |-> "READY"])
  BY DEF OtherBoard, CommitBoard
<1>2. /\ srv'.high = srv.high /\ srv'.alive = srv.alive
      /\ srv'.last = srv.last /\ srv'.journal = srv.journal /\ srv'.pose = None
      /\ srv' \in [high : 0 .. MaxTurns, journal : Turns, last : 0 .. me'.seq,
                   pose : {None}, alive : BOOLEAN, ready : BOOLEAN]
  BY <1>1 DEF Consistent, ServerOK
<1>3. Grows(h, h)
  BY <1>1, <1>2, Records DEF Grows
<1>4. ServerOK(h)'
  BY <1>2 DEF ServerOK, Consistent
<1>5. flight' \in Seq(Batches(h)')
  <2>1. [type |-> "READY"] \in News(h)'
    BY DEF News
  <2> QED BY <1>1, <1>3, <2>1, Emits, PresentPages
<1>6. up' \in Seq(Sent(h)')
  BY <1>1, <1>3, Kept
<1> QED BY <1>1, <1>3, <1>4, <1>5, <1>6, ServerStep

\* The corpse is the last pose, or a payload without poseSeq.
LEMMA BuryConsistent ==
  ASSUME NEW h \in Histories, Consistent(h), NEW corpse \in Taken(h) \cup Corpses,
         srv.alive, Bury(corpse), me'.seq = me.seq
  PROVE  /\ Grows(h, h) /\ ServerOK(h)' /\ flight' \in Seq(Batches(h)')
<1>1. srv' = [srv EXCEPT !.alive = FALSE, !.pose = corpse]
  BY DEF Bury
<1>2. /\ srv'.high = srv.high /\ srv'.alive = FALSE
      /\ srv'.last = srv.last /\ srv'.journal = srv.journal
      /\ srv' \in [high : 0 .. MaxTurns, journal : Turns, last : 0 .. me'.seq,
                   pose : {corpse}, alive : BOOLEAN, ready : BOOLEAN]
  BY <1>1 DEF Consistent, ServerOK
<1>3. Grows(h, h)
  BY <1>2, Records DEF Grows
<1>4. corpse \in Buried(h)'
  <2>1. corpse \in Taken(h)' \cup Corpses'
    BY <1>3, PosesGrow DEF Corpses
  <2> QED BY <1>2, <2>1 DEF Buried
<1>5. ServerOK(h)'
  BY <1>2, <1>4 DEF ServerOK, Consistent
<1>6. flight' \in Seq(Batches(h)')
  <2>1. [type |-> "DEAD", pose |-> corpse] \in News(h)'
    BY <1>4 DEF News
  <2> QED BY <1>3, <2>1, Emits, PresentPages DEF Bury
<1> QED BY <1>3, <1>5, <1>6

LEMMA LeaveConsistent ==
  ASSUME NEW h \in Histories, Consistent(h), Leave
  PROVE  Consistent(h)'
<1>1. /\ me' = [me EXCEPT !.here = FALSE] /\ me'.seq = me.seq
      /\ up' = <<>> /\ down' = [down EXCEPT ![Player] = <<>>]
      /\ UNCHANGED view
  BY Records DEF Leave
<1>2. Grows(h, h) /\ ServerOK(h)' /\ flight' \in Seq(Batches(h)')
  <2>1. CASE srv.alive
    <3> DEFINE corpse == IF srv.pose = None THEN NoSeq(0) ELSE srv.pose
    <3>1. corpse \in Taken(h) \cup Corpses
      <4>1. NoSeq(0) \in Corpses
        BY BoundsNat DEF Corpses
      <4>2. srv.pose \in {None} \cup Taken(h)
        BY <2>1 DEF Consistent, ServerOK, Buried
      <4> QED BY <4>1, <4>2
    <3>2. Bury(corpse)
      BY <2>1 DEF Leave
    <3> HIDE DEF corpse
    <3> QED BY <1>1, <2>1, <3>1, <3>2, BuryConsistent
  <2>2. CASE ~srv.alive
    <3>1. UNCHANGED <<srv, flight>>
      BY <2>2 DEF Leave
    <3>2. Grows(h, h)
      BY <1>1, <3>1, Records DEF Grows
    <3> QED BY <3>1, <3>2, ServerKept, Kept
  <2> QED BY <2>1, <2>2
<1>3. PageOK(h)'
  <2>1. me' \in [seq : Nat, made : {me.made}, acked : {me.acked},
                 turns : {me.turns}, moved : BOOLEAN,
                 queued : {None} \cup Offered(h),
                 ready : BOOLEAN, dead : BOOLEAN, here : BOOLEAN]
    BY <1>1, Records
  <2> QED BY <1>2, <2>1, PageKept
<1>4. down' \in [Pages -> Seq(News(h)')]
  BY <1>1, <1>2, Kept, EmptySeq
<1> QED BY <1>1, <1>2, <1>3, <1>4, Kept, EmptySeq DEF Consistent

\* A pose that is taken: its event is newer than the last one, and its
\* turns continue the journal.
LEMMA TakePoseConsistent ==
  ASSUME NEW h \in Histories, Consistent(h), NEW m \in Offered(h), TakePose(m),
         UNCHANGED me
  PROVE  /\ Grows(h, h) /\ ServerOK(h)' /\ flight' \in Seq(Batches(h)')
<1>1. CASE UNCHANGED <<srv, flight>>
  <2>1. Grows(h, h)
    BY <1>1, Records DEF Grows
  <2> QED BY <1>1, <2>1, ServerKept, Kept
<1>2. CASE m.seq > srv.last /\ srv.alive /\ TurnsFit(m.turns)
           /\ LET j == LastOf(srv.journal \cup {t \in m.turns : t > srv.high})
                  p == [seq |-> m.seq, turns |-> j, at |-> m.at]
              IN /\ srv' = [srv EXCEPT !.last = m.seq, !.journal = j,
                              !.high = IF j = {} THEN @ ELSE Newest(j),
                              !.pose = p]
                 /\ Emit(Present, [type |-> "SNAKE", pose |-> p])
  <2> DEFINE j == LastOf(srv.journal \cup {t \in m.turns : t > srv.high})
             p == [seq |-> m.seq, turns |-> j, at |-> m.at]
  <2>1. PICK s \in 1 .. me.seq, a \in 0 .. srv.high :
          m = [type |-> "POSE", seq |-> s, turns |-> Suffix(h[s], a), at |-> h[s]]
    BY DEF Offered
  <2>2. /\ h[s] \in 0 .. MaxTurns /\ h[s] \in Nat
        /\ srv.high \in Nat /\ srv.last \in 0 .. me.seq
        /\ srv.journal = LastTurns(srv.high)
        /\ srv.high <= h[srv.last]
    <3>1. h \in [Nat -> 0 .. MaxTurns] /\ s \in Nat
      BY Records DEF Histories
    <3>2. h[s] \in 0 .. MaxTurns /\ h[s] \in Nat
      BY <3>1, BoundsNat
    <3> QED BY <3>2, Records DEF Consistent, ServerOK
  <2>3. srv.high <= h[s]
    <3>1. srv.last \in Nat /\ s \in Nat /\ srv.last <= s
      BY <1>2, <2>1, <2>2, Records
    <3>2. h[srv.last] <= h[s] /\ h[srv.last] \in Nat
      BY <3>1, HistoryOrder
    <3> QED BY <2>2, <3>2
  <2>4. \A t \in Suffix(h[s], a) : ((srv.high + 1) .. t) \subseteq Suffix(h[s], a)
    BY <1>2, <2>1 DEF TurnsFit
  <2>5. j = LastTurns(h[s])
    BY <2>1, <2>2, <2>3, <2>4, ServerTakes
  <2> HIDE DEF j
  <2>6. p = PoseAt(h, s)
    BY <2>1, <2>5 DEF PoseAt
  <2>7. (IF j = {} THEN srv.high ELSE Newest(j)) = h[s]
    BY <2>2, <2>3, <2>5, LastTurnsFacts
  <2>8. srv' = [srv EXCEPT !.last = s, !.journal = j, !.high = h[s], !.pose = p]
    BY <1>2, <2>1, <2>7 DEF j
  <2> HIDE DEF p
  <2>9. /\ srv'.last = s /\ srv'.journal = j /\ srv'.high = h[s]
        /\ srv'.alive = srv.alive
        /\ srv' \in [high : 0 .. MaxTurns, journal : Turns, last : 0 .. me'.seq,
                     pose : {p}, alive : BOOLEAN, ready : BOOLEAN]
    <3>1. j \in Turns
      BY <2>2, <2>5, SuffixBounded
    <3>2. s \in 0 .. me'.seq
      BY Records
    <3> QED BY <2>2, <2>8, <3>1, <3>2 DEF Consistent, ServerOK
  <2>10. Grows(h, h)
    BY <2>2, <2>3, <2>9, Records DEF Grows
  <2>11. p \in Taken(h)'
    <3>1. s \in 1 .. me'.seq /\ h[s] <= srv'.high
      BY <2>2, <2>9
    <3> QED BY <2>6, <3>1 DEF Taken
  <2>12. ServerOK(h)'
    <3>1. h[s] <= h[s]
      BY <2>2
    <3> QED BY <2>5, <2>9, <2>11, <3>1 DEF ServerOK
  <2>13. flight' \in Seq(Batches(h)')
    <3>1. [type |-> "SNAKE", pose |-> p] \in News(h)'
      BY <2>11 DEF News
    <3>2. Emit(Present, [type |-> "SNAKE", pose |-> p])
      BY <1>2 DEF p, j
    <3> QED BY <2>10, <3>1, <3>2, Emits, PresentPages
  <2> QED BY <2>10, <2>12, <2>13
<1> QED BY <1>1, <1>2 DEF TakePose

LEMMA ReceiveConsistent ==
  ASSUME NEW h \in Histories, Consistent(h), Receive
  PROVE  Consistent(h)'
<1> DEFINE m == Head(up)
<1>1. /\ m \in Sent(h) /\ Tail(up) \in Seq(Sent(h))
      /\ up' = Tail(up) /\ UNCHANGED <<me, down, view>>
  BY HeadTailProperties DEF Receive, Consistent
<1> HIDE DEF m
<1>2. ASSUME Grows(h, h) PROVE up' \in Seq(Sent(h)')
  BY <1>1, <1>2, MessagesGrow, SeqMonotonic
<1>3. ASSUME UNCHANGED <<srv, flight>>
      PROVE  Grows(h, h) /\ ServerOK(h)' /\ flight' \in Seq(Batches(h)')
  <2>1. Grows(h, h)
    BY <1>1, <1>3, Records DEF Grows
  <2> QED BY <1>3, <2>1, ServerKept, Kept
<1>4. CASE m.type = "POSE" /\ TakePose(m)
  <2>1. m \in Offered(h)
    BY <1>1, <1>4 DEF Sent
  <2> QED BY <1>1, <1>2, <1>4, <2>1, TakePoseConsistent, ServerStep
<1>5. CASE m.type = "BOARD" /\ TakeBoard(m)
  <2>1. CASE UNCHANGED <<srv, flight>>
    BY <1>1, <1>2, <1>3, <2>1, ServerStep
  <2>2. CASE /\ m.seq > srv.last /\ CommitBoard
             /\ srv' = [srv EXCEPT !.last = m.seq, !.ready = TRUE, !.pose = None]
    <3>1. m.seq \in 1 .. me.seq
      BY <1>1, <1>5 DEF Sent, Offered
    <3>2. /\ srv'.high = srv.high /\ srv'.alive = srv.alive
          /\ srv'.last = m.seq /\ srv'.journal = srv.journal
          /\ srv' \in [high : 0 .. MaxTurns, journal : Turns,
                       last : 0 .. me'.seq, pose : {None},
                       alive : BOOLEAN, ready : BOOLEAN]
      <4>1. m.seq \in 0 .. me'.seq
        BY <1>1, <3>1, Records
      <4> QED BY <2>2, <4>1 DEF Consistent, ServerOK
    <3>3. Grows(h, h)
      BY <1>1, <3>2, Records DEF Grows
    <3>4. srv.high <= h[m.seq]
      <4>1. srv.last \in Nat /\ m.seq \in Nat /\ srv.last <= m.seq
        BY <2>2, <3>1, Records
      <4>2. h[srv.last] <= h[m.seq] /\ h[srv.last] \in Nat /\ h[m.seq] \in Nat
        BY <4>1, BoundsNat DEF Histories
      <4>3. srv.high <= h[srv.last] /\ srv.high \in Nat
        BY Records DEF Consistent, ServerOK
      <4> QED BY <4>2, <4>3
    <3>5. ServerOK(h)'
      BY <3>2, <3>4 DEF ServerOK, Consistent
    <3>6. flight' \in Seq(Batches(h)')
      <4>1. [type |-> "READY"] \in News(h)'
        BY DEF News
      <4> QED BY <2>2, <3>3, <4>1, Emits, PresentPages DEF CommitBoard
    <3> QED BY <1>1, <1>2, <3>3, <3>5, <3>6, ServerStep
  <2> QED BY <1>5, <2>1, <2>2 DEF TakeBoard
<1>6. CASE m.type = "DEAD" /\ TakeDead(m)
  <2>1. CASE UNCHANGED <<srv, flight>>
    BY <1>1, <1>2, <1>3, <2>1, ServerStep
  <2>2. CASE srv.alive /\ m.seq > srv.last /\ Bury(NoSeq(m.at))
    <3>1. m.at \in 0 .. MaxTurns
      BY <1>1, <1>6 DEF Sent, Offered
    <3>2. NoSeq(m.at) \in Corpses
      BY <3>1 DEF Corpses
    <3> QED BY <1>1, <1>2, <2>2, <3>2, BuryConsistent, ServerStep
  <2> QED BY <1>6, <2>1, <2>2 DEF TakeDead
<1> QED BY <1>4, <1>5, <1>6 DEF Receive, m

LEMMA RemoveTyped ==
  ASSUME NEW S, NEW s \in Seq(S), NEW i \in DOMAIN s
  PROVE  RemoveAt(s, i) \in Seq(S)
<1>1. i \in 1 .. Len(s) /\ Len(s) \in Nat /\ \A k \in 1 .. Len(s) : s[k] \in S
  BY LenProperties
<1>2. SubSeq(s, 1, i - 1) \in Seq(S) /\ SubSeq(s, i + 1, Len(s)) \in Seq(S)
  <2>1. \A k \in 1 .. i - 1 : s[k] \in S
    BY <1>1
  <2>2. \A k \in i + 1 .. Len(s) : s[k] \in S
    BY <1>1
  <2> QED BY <1>1, <2>1, <2>2, SubSeqProperties
<1> QED BY <1>2, ConcatProperties DEF RemoveAt

LEMMA SendBatchConsistent ==
  ASSUME NEW h \in Histories, Consistent(h), SendBatch
  PROVE  Consistent(h)'
<1>1. PICK i \in DOMAIN flight :
        /\ down' = [c \in Pages |->
                      IF c \in flight[i].to \cap Present
                      THEN Append(down[c], flight[i].msg) ELSE down[c]]
        /\ flight' = RemoveAt(flight, i)
  BY DEF SendBatch
<1>2. UNCHANGED <<me, up, srv, view>>
  BY DEF SendBatch
<1>3. Grows(h, h)
  BY <1>2, Records DEF Grows
<1>4. /\ up \in Seq(Sent(h)') /\ flight \in Seq(Batches(h)')
      /\ down \in [Pages -> Seq(News(h)')] /\ view \in [Pages -> Views(h)']
  BY <1>3, Kept
<1>5. flight' \in Seq(Batches(h)')
  BY <1>1, <1>4, RemoveTyped
<1>6. down' \in [Pages -> Seq(News(h)')]
  <2>1. flight[i] \in Batches(h)'
    <3>1. i \in 1 .. Len(flight)
      BY <1>4, LenProperties
    <3> QED BY <1>4, <3>1, ElementOfSeq
  <2>2. flight[i].msg \in News(h)'
    BY <2>1 DEF Batches
  <2>3. ASSUME NEW c \in Pages PROVE Append(down[c], flight[i].msg) \in Seq(News(h)')
    <3>1. down[c] \in Seq(News(h)')
      BY <1>4
    <3> QED BY <2>2, <3>1, AppendProperties
  <2> QED BY <1>1, <1>4, <2>3
<1>7. PageOK(h)' /\ ServerOK(h)'
  BY <1>2, <1>3, Records, PageKept, ServerKept
<1> QED BY <1>2, <1>4, <1>5, <1>6, <1>7 DEF Consistent

LEMMA ResyncConsistent ==
  ASSUME NEW h \in Histories, Consistent(h), NEW c \in Pages, Resync(c)
  PROVE  Consistent(h)'
<1>1. UNCHANGED <<me, up, srv, down, view>>
  BY DEF Resync
<1>2. Grows(h, h)
  BY <1>1, Records DEF Grows
<1>3. up' \in Seq(Sent(h)') /\ ServerOK(h)'
  BY <1>1, <1>2, Kept, ServerKept
<1>4. flight' \in Seq(Batches(h)')
  <2>1. srv.pose \in {None} \cup Taken(h)' \cup Buried(h)'
    BY <1>2, PosesGrow DEF Consistent, ServerOK
  <2>2. [type |-> "REPLAY", pose |-> srv.pose] \in News(h)'
    BY <2>1 DEF News
  <2> QED BY <1>2, <2>2, Emits DEF Resync
<1> QED BY <1>1, <1>2, <1>3, <1>4, ServerStep

-----------------------------------------------------------------------------
(* The pages                                                               *)

LEMMA TakenFacts ==
  ASSUME NEW h \in Histories, Consistent(h), NEW p \in Taken(h)
  PROVE  /\ p.seq \in 1 .. me.seq /\ p.seq \in Nat /\ p.seq > 0
         /\ p.at = h[p.seq] /\ p.at \in 0 .. MaxTurns /\ p.at \in Nat
         /\ p.at <= srv.high /\ p.at <= me.made
         /\ p.turns = LastTurns(p.at) /\ p.turns \in Turns
         /\ p = PoseAt(h, p.seq)
<1>1. PICK s \in 1 .. me.seq : h[s] <= srv.high /\ p = PoseAt(h, s)
  BY DEF Taken
<1>2. p.seq = s /\ p.at = h[s] /\ p.turns = LastTurns(h[s])
  BY <1>1 DEF PoseAt
<1>3. s \in Nat /\ s > 0 /\ me.seq \in Nat /\ s <= me.seq
  BY Records
<1>4. h[s] \in 0 .. MaxTurns /\ h[s] \in Nat
  BY <1>3, BoundsNat DEF Histories
<1>5. h[s] <= me.made
  <2>1. h[s] <= h[me.seq]
    BY <1>3 DEF Histories
  <2>2. h[me.seq] = me.made
    BY <1>3 DEF Consistent, PageOK
  <2> QED BY <2>1, <2>2
<1>6. LastTurns(h[s]) \in Turns
  BY <1>4, SuffixBounded
<1> QED BY <1>1, <1>2, <1>3, <1>4, <1>5, <1>6

LEMMA ViewFacts ==
  ASSUME NEW h \in Histories, Consistent(h), NEW v \in Views(h)
  PROVE  /\ v \in [seen : 0 .. me.seq, turns : Turns, native : Nat,
                   remote : {None} \cup Snakes, pending : {None} \cup Taken(h)]
         /\ v.seen \in Nat /\ h[v.seen] \in Nat
         /\ \E n \in 0 .. h[v.seen] : v.turns = LastTurns(n)
         /\ \/ v.remote = None \/ v.remote.dead \/ ~srv.alive
            \/ v.remote.turns = LastTurns(v.remote.at)
<1>1. v.seen \in Nat
  BY Records DEF Views
<1>2. h[v.seen] \in Nat
  BY <1>1, BoundsNat DEF Histories
<1> QED BY <1>1, <1>2 DEF Views

\* Taking a newer pose leaves a page with the journal of that pose.
LEMMA AcceptedView ==
  ASSUME NEW h \in Histories, Consistent(h), NEW v \in Views(h),
         NEW p \in Taken(h), p.seq > v.seen
  PROVE  /\ Accepted(v, p) \in Views(h)
         /\ Accepted(v, p).turns = p.turns
         /\ Accepted(v, p).remote = v.remote
<1>1. PICK n \in 0 .. h[v.seen] : v.turns = LastTurns(n)
  BY ViewFacts
<1>2. h[v.seen] <= h[p.seq]
  BY ViewFacts, TakenFacts DEF Histories
<1>3. n \in 0 .. p.at
  BY <1>2, ViewFacts, TakenFacts
<1>4. Merge(v.turns, p.turns) = p.turns
  BY <1>1, <1>3, MergeNewer, TakenFacts
<1>5. Accepted(v, p) = [v EXCEPT !.seen = p.seq, !.turns = p.turns]
  BY <1>4 DEF Accepted
<1> DEFINE w == Accepted(v, p)
<1> HIDE DEF w
<1>6. w = [v EXCEPT !.seen = p.seq, !.turns = p.turns]
  BY <1>5 DEF w
<1>7. p.seq \in 0 .. me.seq
  BY TakenFacts, Records
<1>8. /\ w \in [seen : 0 .. me.seq, turns : Turns, native : Nat,
                remote : {None} \cup Snakes, pending : {None} \cup Taken(h)]
      /\ w.seen = p.seq /\ w.turns = p.turns /\ w.remote = v.remote
  <2>1. v \in [seen : 0 .. me.seq, turns : Turns, native : Nat,
               remote : {None} \cup Snakes, pending : {None} \cup Taken(h)]
    BY ViewFacts
  <2>2. p.turns \in Turns
    BY TakenFacts
  <2>3. w.seen = p.seq /\ w.turns = p.turns /\ w.remote = v.remote
    BY <1>6, <2>1
  <2>4. w \in [seen : 0 .. me.seq, turns : Turns, native : Nat,
               remote : {None} \cup Snakes, pending : {None} \cup Taken(h)]
    BY <1>6, <1>7, <2>1, <2>2
  <2> QED BY <2>3, <2>4
<1>9. p.at \in 0 .. h[w.seen] /\ w.turns = LastTurns(p.at)
  BY <1>8, TakenFacts
<1>10. w \in Views(h)
  BY <1>8, <1>9, ViewFacts DEF Views
<1> QED BY <1>8, <1>10 DEF w

\* A body drawn from a pose has its turns; so it is for a corpse that has
\* none, as long as the seat is dead.
LEMMA ShownView ==
  ASSUME NEW h \in Histories, Consistent(h), NEW v \in Views(h), NEW p,
         \/ p \in Taken(h)
         \/ ~srv.alive /\ p \in Corpses
  PROVE  Shown(v, p) \in Views(h)
<1>1. /\ p.seq \in Nat /\ p.at \in 0 .. MaxTurns /\ p.turns \in Turns
      /\ srv.alive => p.turns = LastTurns(p.at)
  <2>1. CASE p \in Taken(h)
    BY <2>1, TakenFacts
  <2>2. CASE ~srv.alive /\ p \in Corpses
    BY <2>2, BoundsNat DEF Corpses, NoSeq, Turns
  <2> QED BY <2>1, <2>2
<1> DEFINE dead == v.remote # None /\ v.remote.dead
           r == [at |-> p.at, turns |-> p.turns, dead |-> dead]
           n == IF p.seq = 0 THEN v.native ELSE p.seq
           w == [v EXCEPT !.native = n, !.remote = r]
<1>2. dead \in BOOLEAN
  <2>1. v.remote \in {None} \cup Snakes
    BY ViewFacts
  <2> QED BY <2>1 DEF Snakes
<1> HIDE DEF dead
<1>3. r \in Snakes /\ n \in Nat
  BY <1>1, <1>2, ViewFacts DEF Snakes
<1>4. srv.alive => r.turns = LastTurns(r.at)
  BY <1>1
<1> HIDE DEF r, n
<1>5. /\ w \in [seen : 0 .. me.seq, turns : Turns, native : Nat,
                remote : {None} \cup Snakes, pending : {None} \cup Taken(h)]
      /\ w.seen = v.seen /\ w.turns = v.turns /\ w.remote = r
  BY <1>3, ViewFacts
<1> HIDE DEF w
<1>6. srv.alive \in BOOLEAN
  BY Records
<1>7. w \in Views(h)
  BY <1>4, <1>5, <1>6, ViewFacts DEF Views
<1>8. Shown(v, p) = v \/ Shown(v, p) = w
  BY DEF Shown, w, r, n, dead
<1> QED BY <1>7, <1>8

\* The turns a page has acknowledged are turns the server has.
LEMMA AckedPage ==
  ASSUME NEW h \in Histories, Consistent(h), NEW n \in Nat,
         n <= srv.high, n <= me.made, me' = Acked(me, n), UNCHANGED srv
  PROVE  Grows(h, h) /\ PageOK(h)'
<1>1. CASE n <= me.acked
  <2>1. me' = me
    BY <1>1 DEF Acked
  <2>2. Grows(h, h)
    BY <2>1, Records DEF Grows
  <2> QED BY <2>1, <2>2, Records, PageKept
<1>2. CASE n > me.acked
  <2>1. Min({n, me.made}) = n
    <3>1. \A x \in {n, me.made} : (\A y \in {n, me.made} : x <= y) => x = n
      BY Records
    <3>2. n \in {n, me.made} /\ \A y \in {n, me.made} : n <= y
      BY Records
    <3>3. (CHOOSE x \in {n, me.made} : \A y \in {n, me.made} : x <= y) = n
      BY <3>1, <3>2
    <3> QED BY <3>3 DEF Min
  <2> DEFINE t2 == {t \in me.turns : t > n}
  <2>2. t2 = Suffix(me.made, n)
    <3>1. me.turns = Suffix(me.made, me.acked)
      BY DEF Consistent, PageOK
    <3>2. \A t \in LastTurns(me.made) : t \in Nat
      BY DEF LastTurns
    <3>3. t2 = {t \in Suffix(me.made, me.acked) : t > n}
      BY <3>1
    <3> QED BY <1>2, <3>2, <3>3, Records DEF Suffix
  <2>3. ~(n <= me.acked)
    BY <1>2, Records
  <2>4. me' = [me EXCEPT !.acked = n, !.turns = t2]
    BY <2>1, <2>3 DEF Acked
  <2>5. t2 \in Turns
    BY <2>2, Records, SuffixBounded
  <2> HIDE DEF t2
  <2>6. /\ me'.seq = me.seq /\ me'.made = me.made /\ me'.acked = n
        /\ me'.turns = t2
        /\ me' \in [seq : Nat, made : 0 .. MaxTurns, acked : Nat, turns : Turns,
                    moved : BOOLEAN, queued : {None} \cup Offered(h),
                    ready : BOOLEAN, dead : BOOLEAN, here : BOOLEAN]
    BY <2>4, <2>5, Records
  <2>7. Grows(h, h)
    BY <2>6, Records DEF Grows
  <2>8. {None} \cup Offered(h) \subseteq {None} \cup Offered(h)'
    BY <2>7, PosesGrow
  <2>9. me' \in [seq : Nat, made : 0 .. MaxTurns, acked : Nat, turns : Turns,
                 moved : BOOLEAN, queued : {None} \cup Offered(h)',
                 ready : BOOLEAN, dead : BOOLEAN, here : BOOLEAN]
    BY <2>6, <2>8
  <2>10. \A s \in Nat : s >= me'.seq => h[s] = me'.made
    BY <2>6 DEF Consistent, PageOK
  <2>11. PageOK(h)'
    BY <2>2, <2>6, <2>9, <2>10 DEF PageOK
  <2> QED BY <2>7, <2>11
<1> QED BY <1>1, <1>2, Records

\* A step of page c: its messages and its view, and what it makes of them.
LEMMA PageStep ==
  ASSUME NEW h \in Histories, Consistent(h), NEW c \in Pages,
         NEW v \in Views(h), view' = [view EXCEPT ![c] = v],
         UNCHANGED <<up, srv, flight>>, Grows(h, h), PageOK(h)',
         down' \in [Pages -> Seq(News(h))]
  PROVE  Consistent(h)'
<1>1. view' \in [Pages -> Views(h)']
  <2>1. v \in Views(h)' /\ view \in [Pages -> Views(h)']
    BY ViewsGrow, Kept
  <2> QED BY <2>1
<1>2. down' \in [Pages -> Seq(News(h)')]
  <2>1. ASSUME NEW q \in Seq(News(h)) PROVE q \in Seq(News(h)')
    BY MessagesGrow, SeqMonotonic
  <2> QED BY <2>1
<1> QED BY <1>1, <1>2, ServerKept, Kept DEF Consistent

LEMMA OnSnakeConsistent ==
  ASSUME NEW h \in Histories, Consistent(h), NEW c \in Pages, NEW p \in Taken(h),
         OnSnake(c, p), UNCHANGED <<up, srv, flight>>,
         down' \in [Pages -> Seq(News(h))]
  PROVE  Consistent(h)'
<1> DEFINE v == Accepted(view[c], p)
           q == [p EXCEPT !.turns = v.turns]
<1>0. view \in [Pages -> Views(h)] /\ view[c] \in Views(h)
  BY DEF Consistent
<1>1. ASSUME UNCHANGED me PROVE Grows(h, h) /\ PageOK(h)'
  <2>1. Grows(h, h)
    BY <1>1, Records DEF Grows
  <2> QED BY <1>1, <2>1, Records, PageKept
<1>2. CASE ~Accepts(view[c], p)
  <2>1. UNCHANGED <<me, view>>
    BY <1>2 DEF OnSnake
  <2>2. view' = [view EXCEPT ![c] = view[c]]
    BY <1>0, <2>1
  <2> QED BY <1>0, <1>1, <2>1, <2>2, PageStep
<1>3. CASE Accepts(view[c], p)
  <2>1. p.seq > view[c].seen
    BY <1>3 DEF Accepts
  <2>2. v \in Views(h) /\ v.turns = p.turns
    BY <1>0, <2>1, AcceptedView
  <2>3. q = p
    BY <2>2, TakenFacts DEF PoseAt
  <2>4. CASE c = Player
    <3>1. /\ me' = Acked(me, Newest(q.turns))
          /\ view' = [view EXCEPT ![c] = v]
      BY <1>3, <2>4 DEF OnSnake
    <3>2. Newest(q.turns) = p.at
      BY <2>3, TakenFacts, LastTurnsFacts
    <3>3. Grows(h, h) /\ PageOK(h)'
      BY <3>1, <3>2, TakenFacts, AckedPage
    <3> HIDE DEF v, q
    <3> QED BY <2>2, <3>1, <3>3, PageStep
  <2>5. CASE c # Player
    <3>1. /\ \/ view' = [view EXCEPT ![c] = [v EXCEPT !.pending = q]]
             \/ view' = [view EXCEPT ![c] = Shown(v, q)]
          /\ UNCHANGED me
      BY <1>3, <2>5 DEF OnSnake
    <3> HIDE DEF v, q
    <3>2. [v EXCEPT !.pending = q] \in Views(h)
      <4> DEFINE w == [v EXCEPT !.pending = q]
      <4>1. /\ w \in [seen : 0 .. me.seq, turns : Turns, native : Nat,
                      remote : {None} \cup Snakes, pending : {None} \cup Taken(h)]
            /\ w.seen = v.seen /\ w.turns = v.turns /\ w.remote = v.remote
        BY <2>2, <2>3, ViewFacts
      <4> HIDE DEF w
      <4>2. w \in Views(h)
        BY <2>2, <4>1, ViewFacts DEF Views
      <4> QED BY <4>2 DEF w
    <3>3. Shown(v, q) \in Views(h)
      BY <2>2, <2>3, ShownView
    <3> QED BY <1>1, <3>1, <3>2, <3>3, PageStep
  <2> QED BY <2>4, <2>5
<1> QED BY <1>2, <1>3

LEMMA OnDeadConsistent ==
  ASSUME NEW h \in Histories, Consistent(h), NEW c \in Pages, NEW p \in Buried(h),
         OnDead(c, p), UNCHANGED <<up, srv, flight>>,
         down' \in [Pages -> Seq(News(h))]
  PROVE  Consistent(h)'
<1> DEFINE v == IF p.seq = 0 THEN view[c] ELSE Accepted(view[c], p)
           r == IF v.remote = None THEN [at |-> 0, turns |-> {}, dead |-> TRUE]
                ELSE [v.remote EXCEPT !.dead = TRUE]
           s == IF c = Player THEN v.remote ELSE r
           w == [v EXCEPT !.pending = None, !.remote = s]
<1>0. view \in [Pages -> Views(h)] /\ view[c] \in Views(h)
  BY DEF Consistent
<1>1. UNCHANGED me /\ Grows(h, h) /\ PageOK(h)'
  <2>1. UNCHANGED me
    BY DEF OnDead
  <2>2. Grows(h, h)
    BY <2>1, Records DEF Grows
  <2> QED BY <2>1, <2>2, Records, PageKept
<1>2. CASE p.seq # 0 /\ ~Accepts(view[c], p)
  <2>1. view' = [view EXCEPT ![c] = view[c]]
    BY <1>0, <1>2 DEF OnDead
  <2> QED BY <1>0, <1>1, <2>1, PageStep
<1>3. CASE ~(p.seq # 0 /\ ~Accepts(view[c], p))
  <2>1. v \in Views(h)
    <3>1. CASE p.seq = 0
      BY <1>0, <3>1
    <3>2. CASE p.seq # 0
      <4>1. p \in Taken(h)
        BY <3>2 DEF Buried, Corpses, NoSeq
      <4>2. p.seq > view[c].seen
        BY <1>3, <3>2 DEF Accepts
      <4> QED BY <1>0, <3>2, <4>1, <4>2, AcceptedView
    <3> QED BY <3>1, <3>2
  <2>2. view' = [view EXCEPT ![c] = w]
    BY <1>3 DEF OnDead
  <2> HIDE DEF v
  <2>3. v.remote \in {None} \cup Snakes
    BY <2>1, ViewFacts
  <2>4. r \in Snakes /\ r.dead
    <3>1. 0 \in 0 .. MaxTurns /\ {} \in Turns
      BY BoundsNat DEF Turns
    <3> QED BY <2>3, <3>1 DEF Snakes
  <2> HIDE DEF r
  <2>5. /\ s \in {None} \cup Snakes
        /\ s = v.remote \/ s.dead
    BY <2>3, <2>4
  <2> HIDE DEF s
  <2>6. /\ w \in [seen : 0 .. me.seq, turns : Turns, native : Nat,
                  remote : {None} \cup Snakes, pending : {None} \cup Taken(h)]
        /\ w.seen = v.seen /\ w.turns = v.turns /\ w.remote = s
    BY <2>1, <2>5, ViewFacts
  <2> HIDE DEF w
  <2>7. w \in Views(h)
    BY <2>1, <2>5, <2>6, ViewFacts DEF Views
  <2> QED BY <1>1, <2>2, <2>7, PageStep
<1> QED BY <1>2, <1>3

LEMMA OnReplayConsistent ==
  ASSUME NEW h \in Histories, Consistent(h), NEW c \in Pages,
         NEW p \in {None} \cup Taken(h) \cup Buried(h),
         OnReplay(c, p), UNCHANGED <<up, srv, flight>>,
         down' \in [Pages -> Seq(News(h))]
  PROVE  Consistent(h)'
<1> DEFINE new == [NoView EXCEPT !.pending = view[c].pending]
           v == Accepted(new, p)
           w == IF p = None THEN new
                ELSE IF c = Player THEN v
                ELSE Shown(v, [p EXCEPT !.turns = v.turns])
<1>0. view[c] \in Views(h) /\ view' = [view EXCEPT ![c] = w] /\ UNCHANGED me
  BY DEF Consistent, OnReplay
<1>1. Grows(h, h) /\ PageOK(h)'
  <2>1. Grows(h, h)
    BY <1>0, Records DEF Grows
  <2> QED BY <1>0, <2>1, Records, PageKept
<1>2. new \in Views(h) /\ new.seen = 0 /\ new.turns = {}
  <2>1. /\ new \in [seen : {0}, turns : {{}}, native : {0}, remote : {None},
                    pending : {view[c].pending}]
        /\ view[c].pending \in {None} \cup Taken(h)
    <3>1. view[c].pending \in {None} \cup Taken(h)
      BY <1>0, ViewFacts
    <3>2. NoView \in [seen : {0}, turns : {{}}, native : {0}, remote : {None},
                      pending : {None}]
      BY DEF NoView
    <3> QED BY <3>1, <3>2
  <2> HIDE DEF new
  <2>2. 0 \in 0 .. me.seq /\ {} \in Turns /\ 0 \in 0 .. h[0] /\ {} = LastTurns(0)
    <3>1. h[0] \in Nat
      BY BoundsNat DEF Histories
    <3> QED BY <3>1, Records, LastTurnsFacts DEF Turns
  <2>3. new.seen = 0 /\ new.turns = {} /\ new.remote = None
    BY <2>1
  <2>4. new \in [seen : 0 .. me.seq, turns : Turns, native : Nat,
                 remote : {None} \cup Snakes, pending : {None} \cup Taken(h)]
    <3>1. new.pending \in {None} \cup Taken(h) /\ new.native = 0 /\ 0 \in Nat
      BY <2>1
    <3>2. new = [seen |-> new.seen, turns |-> new.turns, native |-> new.native,
                 remote |-> new.remote, pending |-> new.pending]
      BY <2>1
    <3>3. new.seen \in 0 .. me.seq /\ new.turns \in Turns
      BY <2>2, <2>3
    <3> QED BY <2>3, <3>1, <3>2, <3>3
  <2> QED BY <2>2, <2>3, <2>4 DEF Views
<1> HIDE DEF new
<1>3. CASE p = None
  BY <1>0, <1>1, <1>2, <1>3, PageStep
<1>4. CASE p # None /\ p \in Taken(h)
  <2>1. v \in Views(h) /\ v.turns = p.turns
    BY <1>2, <1>4, TakenFacts, AcceptedView
  <2>2. [p EXCEPT !.turns = v.turns] = p
    BY <1>4, <2>1, TakenFacts DEF PoseAt
  <2> HIDE DEF v
  <2>3. w \in Views(h)
    BY <1>4, <2>1, <2>2, ShownView
  <2> QED BY <1>0, <1>1, <2>3, PageStep
<1>5. CASE p # None /\ ~srv.alive /\ p \in Corpses
  <2>1. p.seq = 0 /\ p.turns = {} /\ p = NoSeq(p.at)
    BY <1>5 DEF Corpses, NoSeq
  <2>2. v = new
    <3>1. v = [new EXCEPT !.seen = 0, !.turns = {}]
      BY <1>2, <2>1, MergeNothing DEF Accepted
    <3> QED BY <1>2, <3>1, ViewFacts
  <2>3. [p EXCEPT !.turns = v.turns] = p
    BY <1>2, <2>1, <2>2 DEF NoSeq
  <2> HIDE DEF v
  <2>4. Shown(v, [p EXCEPT !.turns = v.turns]) \in Views(h)
    BY <1>2, <1>5, <2>2, <2>3, ShownView
  <2>5. w \in Views(h)
    BY <1>2, <1>5, <2>2, <2>4
  <2> QED BY <1>0, <1>1, <2>5, PageStep
<1> QED BY <1>3, <1>4, <1>5 DEF Buried

LEMMA OnReadyConsistent ==
  ASSUME NEW h \in Histories, Consistent(h), NEW c \in Pages,
         OnReady(c), UNCHANGED <<srv, flight>>, down' \in [Pages -> Seq(News(h))]
  PROVE  Consistent(h)'
<1>0. UNCHANGED view
  BY DEF OnReady
<1>1. Grows(h, h) /\ PageOK(h)' /\ up' \in Seq(Sent(h)')
  <2>1. CASE c # Player
    <3>1. UNCHANGED <<me, up>>
      BY <2>1 DEF OnReady
    <3>2. Grows(h, h)
      BY <3>1, Records DEF Grows
    <3> QED BY <3>1, <3>2, Records, PageKept, Kept
  <2>2. CASE c = Player
    <3> DEFINE p == IF me.dead THEN me ELSE Observe(me, FALSE, FALSE)
               queued == IF me.queued = None THEN <<>> ELSE <<me.queued>>
               new == IF me.dead THEN <<>> ELSE <<Pose(p)>>
    <3>1. /\ me' = [p EXCEPT !.ready = TRUE, !.queued = None]
          /\ up' = up \o queued \o new
      BY <2>2 DEF OnReady
    <3>2. /\ p \in [seq : Nat, made : {me.made}, acked : {me.acked},
                    turns : {me.turns}, moved : BOOLEAN,
                    queued : {None} \cup Offered(h),
                    ready : BOOLEAN, dead : BOOLEAN, here : BOOLEAN]
          /\ p.seq >= me.seq /\ (~me.dead => p.seq = me.seq + 1)
      <4>1. CASE me.dead
        BY <4>1, Records
      <4>2. CASE ~me.dead
        <5> DEFINE m == me.moved \/ FALSE
        <5>1. p = [me EXCEPT !.seq = me.seq + 1, !.moved = m]
          <6>1. p = [me EXCEPT !.seq = me.seq + 1, !.moved = m,
                               !.made = me.made, !.turns = me.turns]
            BY <4>2 DEF Observe
          <6> HIDE DEF p, m
          <6> QED BY <6>1, Records
        <5>2. m \in BOOLEAN /\ me.seq + 1 \in Nat
          BY Records
        <5> HIDE DEF p, m
        <5>3. /\ p.seq = me.seq + 1
              /\ p \in [seq : {me.seq + 1}, made : {me.made}, acked : {me.acked},
                        turns : {me.turns}, moved : {m}, queued : {me.queued},
                        ready : {me.ready}, dead : {me.dead}, here : {me.here}]
          BY <5>1, Records
        <5>4. /\ me.queued \in {None} \cup Offered(h) /\ me.ready \in BOOLEAN
              /\ me.dead \in BOOLEAN /\ me.here \in BOOLEAN
          BY Records
        <5>5. me.seq + 1 >= me.seq
          BY Records
        <5> QED BY <4>2, <5>2, <5>3, <5>4, <5>5
      <4> QED BY <4>1, <4>2
    <3> HIDE DEF p
    <3>3. /\ me' \in [seq : Nat, made : {me.made}, acked : {me.acked},
                      turns : {me.turns}, moved : BOOLEAN,
                      queued : {None} \cup Offered(h),
                      ready : BOOLEAN, dead : BOOLEAN, here : BOOLEAN]
          /\ me'.seq = p.seq
      BY <3>1, <3>2
    <3>4. Grows(h, h)
      BY <3>2, <3>3, Records DEF Grows
    <3>5. PageOK(h)'
      BY <3>3, <3>4, PageKept
    <3>6. up \in Seq(Sent(h)')
      BY <3>4, Kept
    <3>7. queued \in Seq(Sent(h)')
      <4>1. me.queued \in {None} \cup Offered(h)'
        BY <3>4, Records, PosesGrow
      <4>2. me.queued # None => me.queued \in Sent(h)'
        BY <4>1 DEF Sent
      <4> QED BY <4>2
    <3>8. new \in Seq(Sent(h)')
      <4>1. ASSUME ~me.dead PROVE Pose(p) \in Sent(h)'
        <5>1. p.seq \in 1 .. me'.seq /\ p.seq \in Nat /\ p.seq >= me.seq
          BY <3>2, <3>3, <4>1, Records
        <5>2. /\ me.acked \in 0 .. srv'.high /\ me.turns = Suffix(me.made, me.acked)
              /\ h[p.seq] = me.made
          BY <5>1, Records DEF Consistent, PageOK
        <5>3. Pose(p) = [type |-> "POSE", seq |-> p.seq,
                         turns |-> Suffix(h[p.seq], me.acked), at |-> h[p.seq]]
          BY <3>2, <5>2 DEF Pose
        <5> QED BY <5>1, <5>2, <5>3 DEF Sent, Offered
      <4> QED BY <4>1
    <3> HIDE DEF queued, new
    <3>9. up' \in Seq(Sent(h)')
      <4>1. up \o queued \in Seq(Sent(h)')
        BY <3>6, <3>7, ConcatProperties
      <4> QED BY <3>1, <3>8, <4>1, ConcatProperties
    <3> QED BY <3>4, <3>5, <3>9
  <2> QED BY <2>1, <2>2
<1>2. down' \in [Pages -> Seq(News(h)')]
  <2>1. ASSUME NEW q \in Seq(News(h)) PROVE q \in Seq(News(h)')
    BY <1>1, MessagesGrow, SeqMonotonic
  <2> QED BY <2>1
<1> QED BY <1>0, <1>1, <1>2, ServerKept, Kept DEF Consistent

LEMMA DeliverConsistent ==
  ASSUME NEW h \in Histories, Consistent(h), NEW c \in Pages, Deliver(c)
  PROVE  Consistent(h)'
<1> DEFINE m == Head(down[c])
<1>1. m \in News(h) /\ down' \in [Pages -> Seq(News(h))]
  <2>1. down \in [Pages -> Seq(News(h))] /\ down[c] # <<>>
    BY DEF Consistent, Deliver
  <2>2. down[c] \in Seq(News(h))
    BY <2>1
  <2>3. m \in News(h) /\ Tail(down[c]) \in Seq(News(h))
    BY <2>1, <2>2, HeadTailProperties
  <2>4. down' = [down EXCEPT ![c] = Tail(down[c])]
    BY DEF Deliver
  <2> QED BY <2>1, <2>3, <2>4
<1>2. UNCHANGED <<srv, flight, resyncs>>
  BY DEF Deliver
<1> HIDE DEF m
<1>3. CASE m.type = "SNAKE" /\ OnSnake(c, m.pose) /\ UNCHANGED up
  <2>1. m.pose \in Taken(h)
    BY <1>1, <1>3 DEF News
  <2> QED BY <1>1, <1>2, <1>3, <2>1, OnSnakeConsistent
<1>4. CASE m.type = "DEAD" /\ OnDead(c, m.pose) /\ UNCHANGED up
  <2>1. m.pose \in Buried(h)
    BY <1>1, <1>4 DEF News
  <2> QED BY <1>1, <1>2, <1>4, <2>1, OnDeadConsistent
<1>5. CASE m.type = "REPLAY" /\ OnReplay(c, m.pose) /\ UNCHANGED up
  <2>1. m.pose \in {None} \cup Taken(h) \cup Buried(h)
    BY <1>1, <1>5 DEF News
  <2> QED BY <1>1, <1>2, <1>5, <2>1, OnReplayConsistent
<1>6. CASE m.type = "READY" /\ OnReady(c)
  BY <1>1, <1>2, <1>6, OnReadyConsistent
<1> QED BY <1>3, <1>4, <1>5, <1>6 DEF Deliver, m

LEMMA FlushConsistent ==
  ASSUME NEW h \in Histories, Consistent(h), NEW c \in Pages, Flush(c)
  PROVE  Consistent(h)'
<1> DEFINE v == [view[c] EXCEPT !.pending = None]
           p == view[c].pending
<1>1. view[c] \in Views(h) /\ p \in Taken(h)
  <2>1. view[c] \in Views(h)
    BY DEF Consistent
  <2> QED BY <2>1, ViewFacts DEF Flush
<1>2. v \in Views(h)
  <2>1. /\ v \in [seen : 0 .. me.seq, turns : Turns, native : Nat,
                  remote : {None} \cup Snakes, pending : {None} \cup Taken(h)]
        /\ v.seen = view[c].seen /\ v.turns = view[c].turns
        /\ v.remote = view[c].remote
    BY <1>1, ViewFacts
  <2> HIDE DEF v
  <2> QED BY <1>1, <2>1, ViewFacts DEF Views
<1>3. view' = [view EXCEPT ![c] = Shown(v, p)] /\ UNCHANGED <<me, up, srv, flight, down>>
  BY DEF Flush
<1> HIDE DEF v, p
<1>4. Shown(v, p) \in Views(h)
  BY <1>1, <1>2, ShownView
<1>5. Grows(h, h) /\ PageOK(h)'
  <2>1. Grows(h, h)
    BY <1>3, Records DEF Grows
  <2> QED BY <1>3, <2>1, Records, PageKept
<1>6. down' \in [Pages -> Seq(News(h))]
  BY <1>3 DEF Consistent
<1> QED BY <1>3, <1>4, <1>5, <1>6, PageStep

LEMMA StepConsistent == Inv /\ [Next]_vars => Inv'
<1> SUFFICES ASSUME Inv, [Next]_vars PROVE Inv'
  OBVIOUS
<1>1. PICK h \in Histories : Consistent(h)
  BY DEF Inv
<1>2. ASSUME Consistent(h)' PROVE Inv'
  BY <1>2 DEF Inv
<1>3. CASE Tick
  <2>1. PICK g \in Histories : Consistent(g)'
    BY <1>1, <1>3, TickConsistent
  <2> QED BY <2>1 DEF Inv
<1>4. CASE PublishBoard
  BY <1>1, <1>2, <1>4, PublishBoardConsistent
<1>5. CASE Die
  BY <1>1, <1>2, <1>5, DieConsistent
<1>6. CASE Leave
  BY <1>1, <1>2, <1>6, LeaveConsistent
<1>7. CASE Receive
  BY <1>1, <1>2, <1>7, ReceiveConsistent
<1>8. CASE OtherBoard
  BY <1>1, <1>2, <1>8, OtherBoardConsistent
<1>9. CASE SendBatch
  BY <1>1, <1>2, <1>9, SendBatchConsistent
<1>10. ASSUME NEW c \in Pages, Resync(c) PROVE Inv'
  BY <1>1, <1>2, <1>10, ResyncConsistent
<1>11. ASSUME NEW c \in Pages, Deliver(c) PROVE Inv'
  BY <1>1, <1>2, <1>11, DeliverConsistent
<1>12. ASSUME NEW c \in Pages, Flush(c) PROVE Inv'
  BY <1>1, <1>2, <1>12, FlushConsistent
<1>13. CASE UNCHANGED vars
  <2>1. UNCHANGED <<me, up, srv, flight, down, view>>
    BY <1>13 DEF vars
  <2>2. Grows(h, h)
    BY <1>1, <2>1, Records DEF Grows
  <2>3. up' \in Seq(Sent(h)') /\ flight' \in Seq(Batches(h)') /\ ServerOK(h)'
    BY <1>1, <2>1, <2>2, Kept, ServerKept
  <2> QED BY <1>1, <1>2, <2>1, <2>2, <2>3, ServerStep
<1> QED BY <1>3, <1>4, <1>5, <1>6, <1>7, <1>8, <1>9, <1>10, <1>11, <1>12, <1>13
        DEF Next

LEMMA InvHolds == Spec => []Inv
BY InitConsistent, StepConsistent, PTL DEF Spec

-----------------------------------------------------------------------------
(* What follows from it                                                    *)

\* The counters, journals and poses of the page, of the server and of the
\* other pages have their types, and the journal of the page never holds
\* more turns than MAX_NATIVE_TURNS (src/coop/session.js).
THEOREM TypeCorrect == Spec => []TypeOK
<1>1. Inv => TypeOK
  <2> SUFFICES ASSUME NEW h \in Histories, Consistent(h) PROVE TypeOK
    BY DEF Inv
  <2>1. /\ me.seq \in Nat /\ me.made \in 0 .. MaxTurns /\ me.acked \in 0 .. me.made
        /\ me.turns \in Turns
    BY Records DEF Consistent, PageOK
  <2>2. Cardinality(me.turns) <= Window
    BY Records, SuffixBounded DEF Consistent, PageOK
  <2>3. \A p \in Taken(h) \cup Corpses : p \in Poses
    <3>1. ASSUME NEW p \in Taken(h) PROVE p \in Poses
      BY TakenFacts DEF PoseAt, Poses
    <3>2. ASSUME NEW p \in Corpses PROVE p \in Poses
      BY BoundsNat DEF Corpses, NoSeq, Poses, Turns
    <3> QED BY <3>1, <3>2
  <2>4. /\ srv.high \in 0 .. MaxTurns /\ srv.journal \in Turns
        /\ srv.pose \in Poses \cup {None}
    BY <2>3 DEF Consistent, ServerOK, Buried
  <2>5. ASSUME NEW c \in Pages
        PROVE  /\ view[c].seen \in Nat /\ view[c].native \in Nat
               /\ view[c].turns \in Turns
               /\ view[c].pending \in Poses \cup {None}
               /\ view[c].remote \in {None} \cup
                    [at : 0 .. MaxTurns, turns : Turns, dead : BOOLEAN]
    <3>1. view[c] \in Views(h)
      BY DEF Consistent
    <3> QED BY <2>3, <3>1, ViewFacts DEF Snakes
  <2> QED BY <2>1, <2>2, <2>4, <2>5 DEF TypeOK
<1> QED BY <1>1, InvHolds, PTL

\* The journal of the server is that of the turns the player has made, and
\* no acknowledgement has made the player forget a turn that the server
\* still needs (ackTurns, validate_native_turns).
THEOREM JournalsSafe == Spec => []JournalsConnect
<1>1. Inv => JournalsConnect
  <2> SUFFICES ASSUME NEW h \in Histories, Consistent(h) PROVE JournalsConnect
    BY DEF Inv
  <2>1. srv.journal = LastTurns(srv.high)
    BY DEF Consistent, ServerOK
  <2>2. srv.high <= me.made
    <3>1. srv.last \in Nat /\ srv.last <= me.seq /\ me.seq \in Nat
      BY Records
    <3>2. h[srv.last] <= h[me.seq] /\ h[srv.last] \in Nat
      BY <3>1, HistoryOrder
    <3>3. h[me.seq] = me.made
      BY <3>1 DEF Consistent, PageOK
    <3>4. srv.high <= h[srv.last]
      BY DEF Consistent, ServerOK
    <3> QED BY <3>2, <3>3, <3>4, Records
  <2>3. LastTurns(me.made) \subseteq 1 .. srv.high \cup me.turns
    <3>1. me.turns = Suffix(me.made, me.acked) /\ me.acked <= srv.high
      BY DEF Consistent, PageOK
    <3>2. LastTurns(me.made) \subseteq 1 .. me.made
      BY Records, LastTurnsFacts
    <3> QED BY <3>1, <3>2, Records DEF Suffix
  <2> QED BY <2>1, <2>2, <2>3 DEF JournalsConnect
<1> QED BY <1>1, InvHolds, PTL

\* A pose that is in time and not more than a journal ahead of the server
\* is not refused for its turns (stale_turn_overlap,
\* turn_suffix_not_contiguous, turn_seq_regression).
THEOREM InTimeSafe == Spec => []InTimeTurnsFit
<1>1. Inv => InTimeTurnsFit
  <2> SUFFICES ASSUME NEW h \in Histories, Consistent(h),
                      up # <<>>, Head(up).type = "POSE",
                      Head(up).seq > srv.last, Head(up).at <= srv.high + Window
               PROVE  TurnsFit(Head(up).turns)
    BY DEF Inv, InTimeTurnsFit
  <2> DEFINE m == Head(up)
  <2>1. m \in Offered(h)
    <3>1. m \in Sent(h)
      BY HeadTailProperties DEF Consistent
    <3> QED BY <3>1 DEF Sent
  <2> HIDE DEF m
  <2>2. PICK s \in 1 .. me.seq, a \in 0 .. srv.high :
          m = [type |-> "POSE", seq |-> s, turns |-> Suffix(h[s], a), at |-> h[s]]
    BY <2>1 DEF Offered
  <2>3. m.seq = s /\ m.at = h[s] /\ m.turns = Suffix(h[s], a)
    BY <2>2
  <2>4. /\ h[s] \in Nat /\ srv.high \in Nat /\ a \in Nat /\ a <= srv.high
        /\ Window \in Nat /\ Window > 0 /\ h[s] <= srv.high + Window
        /\ srv.journal = LastTurns(srv.high)
    <3>1. h[s] \in Nat
      BY Records, HistoryOrder
    <3>2. h[s] <= srv.high + Window
      BY <2>3 DEF m
    <3>3. srv.journal = LastTurns(srv.high)
      BY DEF Consistent, ServerOK
    <3> QED BY <3>1, <3>2, <3>3, Records, WindowNat
  <2>5. srv.high <= h[s]
    <3>1. srv.last \in Nat /\ s \in Nat /\ srv.last <= s
      BY <2>3, Records DEF m
    <3>2. h[srv.last] <= h[s] /\ h[srv.last] \in Nat
      BY <3>1, HistoryOrder
    <3>3. srv.high <= h[srv.last]
      BY DEF Consistent, ServerOK
    <3> QED BY <2>4, <3>2, <3>3
  <2>6. \A t \in m.turns : t <= srv.high => t \in srv.journal
    BY <2>3, <2>4, <2>5 DEF Suffix, LastTurns
  <2>7. \A t \in m.turns : ((srv.high + 1) .. t) \subseteq m.turns
    BY <2>3, <2>4 DEF Suffix, LastTurns
  <2>8. m.turns = {} \/ Newest(m.turns) >= srv.high
    <3>1. SUFFICES ASSUME NEW t \in m.turns PROVE Newest(m.turns) >= srv.high
      OBVIOUS
    <3>2. m.turns \in SUBSET Nat /\ (\A u \in m.turns : u <= h[s]) /\ h[s] \in m.turns
      BY <2>3, <2>4, LastTurnsFacts DEF Suffix, LastTurns
    <3>3. Newest(m.turns) = h[s]
      BY <3>2, MaxOf
    <3> QED BY <2>5, <3>3
  <2> QED BY <2>6, <2>7, <2>8 DEF TurnsFit, m
<1> QED BY <1>1, InvHolds, PTL

\* The body a page draws and the turns it draws it with are of one pose,
\* whatever was dropped, coalesced, overtaken or replayed (applySnakeDelta,
\* mergePoseTurns).
THEOREM BodySafe == Spec => []BodyMatchesTurns
<1>1. Inv => BodyMatchesTurns
  <2> SUFFICES ASSUME NEW h \in Histories, Consistent(h), NEW c \in Watchers,
                      view[c].remote # None, ~view[c].remote.dead, srv.alive
               PROVE  view[c].remote.turns = LastTurns(view[c].remote.at)
    BY DEF Inv, BodyMatchesTurns
  <2>1. view[c] \in Views(h)
    BY DEF Consistent, Pages
  <2> QED BY <2>1, ViewFacts
<1> QED BY <1>1, InvHolds, PTL

-----------------------------------------------------------------------------
(* The death its own page has announced                                    *)

(***************************************************************************)
(* A corpse without poseSeq is never late: from its burial on each watcher *)
(* has it in a batch, on the way, or on its board, as long as no replay    *)
(* starts the watcher's view over.                                         *)
(***************************************************************************)
Tells(m) == m.type = "DEAD" /\ m.pose.seq = 0

Owed(c) ==
  \/ \E i \in 1 .. Len(flight) : c \in flight[i].to /\ Tells(flight[i].msg)
  \/ \E i \in 1 .. Len(down[c]) : Tells(down[c][i])
  \/ view[c].remote # None /\ view[c].remote.dead

Announced == srv.pose # None /\ srv.pose.seq = 0

NoReplay ==
  /\ \A i \in 1 .. Len(flight) : flight[i].msg.type # "REPLAY"
  /\ \A c \in Pages : \A i \in 1 .. Len(down[c]) : down[c][i].type # "REPLAY"

Told ==
  /\ resyncs \in Nat
  /\ resyncs = 0 => NoReplay /\ (Announced => \A c \in Watchers : Owed(c))

LEMMA RemoveAtIndex ==
  ASSUME NEW S, NEW s \in Seq(S), NEW i \in 1 .. Len(s)
  PROVE  /\ Len(s) \in Nat /\ Len(RemoveAt(s, i)) = Len(s) - 1
         /\ \A k \in 1 .. Len(s) - 1 :
              RemoveAt(s, i)[k] = IF k < i THEN s[k] ELSE s[k + 1]
<1> DEFINE a == SubSeq(s, 1, i - 1)
           b == SubSeq(s, i + 1, Len(s))
<1>1. Len(s) \in Nat /\ \A k \in 1 .. Len(s) : s[k] \in S
  BY LenProperties
<1>2. /\ a \in Seq(S) /\ Len(a) = i - 1
      /\ \A k \in 1 .. i - 1 : a[k] = s[k]
  <2>1. \A k \in 1 .. i - 1 : s[k] \in S
    BY <1>1
  <2>2. /\ a \in Seq(S)
        /\ Len(a) = IF 1 <= i - 1 THEN i - 1 - 1 + 1 ELSE 0
        /\ \A k \in 1 .. (i - 1) - 1 + 1 : a[k] = s[1 + k - 1]
    BY <1>1, <2>1, SubSeqProperties
  <2> HIDE DEF a
  <2> QED BY <1>1, <2>2
<1>3. /\ b \in Seq(S) /\ Len(b) = Len(s) - i
      /\ \A k \in 1 .. Len(s) - i : b[k] = s[i + k]
  <2>1. \A k \in i + 1 .. Len(s) : s[k] \in S
    BY <1>1
  <2>2. /\ b \in Seq(S)
        /\ Len(b) = IF i + 1 <= Len(s) THEN Len(s) - (i + 1) + 1 ELSE 0
        /\ \A k \in 1 .. Len(s) - (i + 1) + 1 : b[k] = s[i + 1 + k - 1]
    BY <1>1, <2>1, SubSeqProperties
  <2> HIDE DEF b
  <2>3. \A k \in 1 .. Len(s) - i : i + 1 + k - 1 = i + k
    OBVIOUS
  <2> QED BY <1>1, <2>2, <2>3
<1>4. RemoveAt(s, i) = a \o b
  BY DEF RemoveAt
<1> HIDE DEF a, b
<1>5. /\ Len(a \o b) = Len(a) + Len(b)
      /\ \A k \in 1 .. Len(a) + Len(b) :
           (a \o b)[k] = IF k <= Len(a) THEN a[k] ELSE b[k - Len(a)]
  BY <1>2, <1>3, ConcatProperties
<1>6. Len(a) + Len(b) = Len(s) - 1
  BY <1>1, <1>2, <1>3
<1>7. ASSUME NEW k \in 1 .. Len(s) - 1
      PROVE  (a \o b)[k] = IF k < i THEN s[k] ELSE s[k + 1]
  <2>0. i \in Nat /\ k \in Nat
    BY <1>1
  <2>1. ASSUME k < i PROVE (a \o b)[k] = s[k]
    BY <1>1, <1>2, <1>5, <1>6, <2>1
  <2>2. ASSUME ~(k < i) PROVE (a \o b)[k] = s[k + 1]
    <3>1. (a \o b)[k] = b[k - (i - 1)]
      BY <1>1, <1>2, <1>5, <1>6, <2>0, <2>2
    <3>2. k - (i - 1) \in 1 .. Len(s) - i /\ i + (k - (i - 1)) = k + 1
      BY <1>1, <2>0, <2>2
    <3>3. b[k - (i - 1)] = s[i + (k - (i - 1))]
      BY <1>3, <3>2
    <3> QED BY <3>1, <3>2, <3>3
  <2> QED BY <2>1, <2>2, Zenon
<1> QED BY <1>1, <1>4, <1>5, <1>6, <1>7

\* A batch more in flight is no batch less.
LEMMA EmitTold ==
  ASSUME NEW h \in Histories, Consistent(h), NEW to, NEW m, m.type # "REPLAY",
         Emit(to, m), NoReplay,
         \A c \in Pages : c # Player => down'[c] = down[c],
         \A i \in 1 .. Len(down'[Player]) : down'[Player][i].type # "REPLAY",
         UNCHANGED view
  PROVE  /\ NoReplay'
         /\ \A c \in Watchers :
              Owed(c) \/ (c \in to /\ Tells(m)) => Owed(c)'
<1> DEFINE e == [to |-> to, msg |-> m]
<1>1. e.to = to /\ e.msg = m /\ flight' = Append(flight, e)
  BY DEF Emit
<1> HIDE DEF e
<1>2. /\ Len(flight) \in Nat /\ Len(flight') = Len(flight) + 1
      /\ \A i \in 1 .. Len(flight) : flight'[i] = flight[i]
      /\ flight'[Len(flight) + 1] = e
  <2>1. flight \in Seq(Batches(h) \cup {e}) /\ e \in Batches(h) \cup {e}
    BY SeqMonotonic DEF Consistent
  <2> QED BY <1>1, <2>1, AppendProperties, LenProperties
<1>3. \A i \in 1 .. Len(flight') : i \in 1 .. Len(flight) \/ i = Len(flight) + 1
  BY <1>2
<1>4. NoReplay'
  <2>1. \A i \in 1 .. Len(flight') : flight'[i].msg.type # "REPLAY"
    BY <1>1, <1>2, <1>3 DEF NoReplay
  <2>2. \A c \in Pages : \A i \in 1 .. Len(down'[c]) : down'[c][i].type # "REPLAY"
    BY DEF NoReplay
  <2> QED BY <2>1, <2>2 DEF NoReplay
<1>5. ASSUME NEW c \in Watchers, Owed(c) \/ (c \in to /\ Tells(m)) PROVE Owed(c)'
  <2>1. down'[c] = down[c] /\ view'[c] = view[c]
    BY PlayerIsNoWatcher DEF Pages
  <2>2. 1 .. Len(flight) \subseteq 1 .. Len(flight') /\ Len(flight) + 1 \in 1 .. Len(flight')
    BY <1>2
  <2>3. CASE c \in to /\ Tells(m)
    BY <1>1, <1>2, <2>2, <2>3 DEF Owed
  <2>4. CASE \E i \in 1 .. Len(flight) : c \in flight[i].to /\ Tells(flight[i].msg)
    BY <1>2, <2>2, <2>4 DEF Owed
  <2>5. CASE \E i \in 1 .. Len(down[c]) : Tells(down[c][i])
    BY <2>1, <2>5 DEF Owed
  <2>6. CASE view[c].remote # None /\ view[c].remote.dead
    BY <2>1, <2>6 DEF Owed
  <2> QED BY <1>5, <2>3, <2>4, <2>5, <2>6 DEF Owed
<1> QED BY <1>4, <1>5

LEMMA ReplayCounted ==
  ASSUME Told, [Next]_vars
  PROVE  resyncs' \in Nat /\ (resyncs' = 0 => resyncs = 0 /\ UNCHANGED resyncs)
<1>1. \/ UNCHANGED resyncs
      \/ resyncs' = resyncs + 1
  BY DEF Next, vars, Tick, PublishBoard, Die, Leave, Receive, OtherBoard,
         SendBatch, Resync, Deliver, Flush
<1> QED BY <1>1 DEF Told

LEMMA LeaveTold ==
  ASSUME NEW h \in Histories, Consistent(h), Told, Leave, resyncs' = 0
  PROVE  Told'
<1>1. /\ down' = [down EXCEPT ![Player] = <<>>] /\ down \in [Pages -> Seq(News(h))]
      /\ UNCHANGED <<view, resyncs>>
  BY DEF Leave, Consistent
<1>2. NoReplay /\ resyncs = 0 /\ (Announced => \A c \in Watchers : Owed(c))
  BY <1>1 DEF Told
<1>3. /\ \A c \in Pages : c # Player => down'[c] = down[c]
      /\ \A i \in 1 .. Len(down'[Player]) : down'[Player][i].type # "REPLAY"
  BY <1>1 DEF Pages
<1>4. CASE srv.alive
  <2> DEFINE corpse == IF srv.pose = None THEN NoSeq(0) ELSE srv.pose
             m == [type |-> "DEAD", pose |-> corpse]
  <2>1. srv' = [srv EXCEPT !.alive = FALSE, !.pose = corpse] /\ Emit(Present, m)
    BY <1>4 DEF Leave, Bury
  <2>2. srv'.pose = corpse
    BY <2>1 DEF Consistent, ServerOK
  <2>3. m.type = "DEAD" /\ m.pose = corpse
    OBVIOUS
  <2> HIDE DEF m, corpse
  <2>4. /\ NoReplay'
        /\ \A c \in Watchers : Owed(c) \/ (c \in Present /\ Tells(m)) => Owed(c)'
    BY <1>1, <1>2, <1>3, <2>1, <2>3, EmitTold
  <2>5. Announced' => Tells(m)
    BY <2>2, <2>3 DEF Announced, Tells
  <2>6. Watchers \subseteq Present
    BY DEF Present, Pages
  <2> QED BY <1>1, <1>2, <2>4, <2>5, <2>6 DEF Told
<1>5. CASE ~srv.alive
  <2>1. UNCHANGED <<srv, flight>>
    BY <1>5 DEF Leave
  <2>2. NoReplay'
    BY <1>2, <1>3, <2>1 DEF NoReplay
  <2>3. ASSUME NEW c \in Watchers, Owed(c) PROVE Owed(c)'
    BY <1>1, <1>3, <2>1, <2>3, PlayerIsNoWatcher DEF Owed, Pages
  <2> QED BY <1>1, <1>2, <2>1, <2>2, <2>3 DEF Told, Announced
<1> QED BY <1>4, <1>5

\* The server takes a message of the page, or the board of another page.
LEMMA ServerTold ==
  ASSUME NEW h \in Histories, Consistent(h), Told, Receive \/ OtherBoard,
         resyncs' = 0
  PROVE  Told'
<1>1. UNCHANGED <<down, view, resyncs>>
  BY DEF Receive, OtherBoard
<1>2. NoReplay /\ resyncs = 0 /\ (Announced => \A c \in Watchers : Owed(c))
  BY <1>1 DEF Told
<1>3. ASSUME UNCHANGED <<srv, flight>> PROVE Told'
  BY <1>1, <1>2, <1>3 DEF Told, NoReplay, Announced, Owed
<1>4. ASSUME NEW m, m.type # "REPLAY", Emit(Present, m), Announced' => Tells(m)
      PROVE  Told'
  <2>1. \A i \in 1 .. Len(down'[Player]) : down'[Player][i].type # "REPLAY"
    BY <1>1, <1>2 DEF NoReplay, Pages
  <2>2. /\ NoReplay'
        /\ \A c \in Watchers : Owed(c) \/ (c \in Present /\ Tells(m)) => Owed(c)'
    BY <1>1, <1>2, <1>4, <2>1, EmitTold
  <2>3. Watchers \subseteq Present
    BY DEF Present, Pages
  <2> QED BY <1>1, <1>2, <1>4, <2>2, <2>3 DEF Told
<1>5. ASSUME CommitBoard, srv'.pose = None PROVE Told'
  <2> DEFINE m == [type |-> "READY"]
  <2>1. m.type # "REPLAY" /\ Emit(Present, m)
    BY <1>5 DEF CommitBoard
  <2> HIDE DEF m
  <2> QED BY <1>4, <1>5, <2>1 DEF Announced
<1>6. CASE OtherBoard
  <2>1. CommitBoard /\ srv'.pose = None
    BY <1>6 DEF OtherBoard, Consistent, ServerOK
  <2> QED BY <1>5, <2>1
<1>7. CASE Receive
  <2> DEFINE m == Head(up)
  <2>1. m \in Sent(h)
    BY <1>7, HeadTailProperties DEF Receive, Consistent
  <2> HIDE DEF m
  <2>2. CASE m.type = "POSE" /\ TakePose(m)
    <3>1. CASE UNCHANGED <<srv, flight>>
      BY <1>3, <3>1
    <3>2. ASSUME NEW p, p.seq = m.seq, srv'.pose = p,
                 Emit(Present, [type |-> "SNAKE", pose |-> p])
          PROVE  Told'
      <4>1. p.seq # 0
        BY <2>1, <2>2, <3>2 DEF Sent, Offered
      <4> DEFINE n == [type |-> "SNAKE", pose |-> p]
      <4>2. n.type # "REPLAY" /\ Emit(Present, n)
        BY <3>2
      <4> HIDE DEF n
      <4> QED BY <1>4, <3>2, <4>1, <4>2 DEF Announced
    <3>3. CASE ~UNCHANGED <<srv, flight>>
      <4> DEFINE j == LastOf(srv.journal \cup {t \in m.turns : t > srv.high})
                 p == [seq |-> m.seq, turns |-> j, at |-> m.at]
      <4>1. /\ srv' = [srv EXCEPT !.last = m.seq, !.journal = j,
                         !.high = IF j = {} THEN @ ELSE Newest(j), !.pose = p]
            /\ Emit(Present, [type |-> "SNAKE", pose |-> p])
        BY <2>2, <3>3 DEF TakePose
      <4>2. p.seq = m.seq
        OBVIOUS
      <4> HIDE DEF p, j
      <4>3. srv'.pose = p
        BY <4>1 DEF Consistent, ServerOK
      <4> QED BY <3>2, <4>1, <4>2, <4>3
    <3> QED BY <3>1, <3>3
  <2>3. CASE m.type = "BOARD" /\ TakeBoard(m)
    <3>1. CASE UNCHANGED <<srv, flight>>
      BY <1>3, <3>1
    <3>2. CASE /\ CommitBoard
               /\ srv' = [srv EXCEPT !.last = m.seq, !.ready = TRUE, !.pose = None]
      <4>1. srv'.pose = None
        BY <3>2 DEF Consistent, ServerOK
      <4> QED BY <1>5, <3>2, <4>1
    <3> QED BY <2>3, <3>1, <3>2 DEF TakeBoard
  <2>4. CASE m.type = "DEAD" /\ TakeDead(m)
    <3>1. CASE UNCHANGED <<srv, flight>>
      BY <1>3, <3>1
    <3>2. CASE Bury(NoSeq(m.at))
      <4> DEFINE n == [type |-> "DEAD", pose |-> NoSeq(m.at)]
      <4>1. n.type = "DEAD" /\ n.pose.seq = 0 /\ Emit(Present, n)
        BY <3>2 DEF Bury, NoSeq
      <4> HIDE DEF n
      <4>2. Tells(n)
        BY <4>1 DEF Tells
      <4> QED BY <1>4, <4>1, <4>2
    <3> QED BY <2>4, <3>1, <3>2 DEF TakeDead
  <2> QED BY <1>7, <2>2, <2>3, <2>4 DEF Receive, m
<1> QED BY <1>6, <1>7

\* A batch that is sent reaches every watcher it is addressed to.
LEMMA SendBatchTold ==
  ASSUME NEW h \in Histories, Consistent(h), Told, SendBatch
  PROVE  Told'
<1>1. PICK i \in DOMAIN flight :
        /\ down' = [c \in Pages |->
                      IF c \in flight[i].to \cap Present
                      THEN Append(down[c], flight[i].msg) ELSE down[c]]
        /\ flight' = RemoveAt(flight, i)
  BY DEF SendBatch
<1>2. UNCHANGED <<srv, view, resyncs>>
  BY DEF SendBatch
<1>3. /\ i \in 1 .. Len(flight) /\ Len(flight) \in Nat
      /\ Len(flight') = Len(flight) - 1
      /\ \A k \in 1 .. Len(flight) - 1 :
           flight'[k] = IF k < i THEN flight[k] ELSE flight[k + 1]
  <2>1. flight \in Seq(Batches(h)) /\ i \in 1 .. Len(flight)
    BY LenProperties DEF Consistent
  <2> QED BY <1>1, <2>1, RemoveAtIndex
<1>4. ASSUME NEW c \in Pages
      PROVE  \/ down'[c] = down[c] /\ c \notin flight[i].to \cap Present
             \/ /\ Len(down[c]) \in Nat /\ Len(down'[c]) = Len(down[c]) + 1
                /\ \A k \in 1 .. Len(down[c]) : down'[c][k] = down[c][k]
                /\ down'[c][Len(down[c]) + 1] = flight[i].msg
  <2>1. CASE c \notin flight[i].to \cap Present
    BY <1>1, <2>1
  <2>2. CASE c \in flight[i].to \cap Present
    <3>1. down'[c] = Append(down[c], flight[i].msg)
      BY <1>1, <2>2
    <3>2. down[c] \in Seq(News(h) \cup {flight[i].msg})
      <4>1. down[c] \in Seq(News(h))
        BY DEF Consistent
      <4> QED BY <4>1, SeqMonotonic
    <3> QED BY <3>1, <3>2, AppendProperties, LenProperties
  <2> QED BY <2>1, <2>2
<1>5. ASSUME NoReplay PROVE NoReplay'
  <2>1. ASSUME NEW k \in 1 .. Len(flight') PROVE flight'[k].msg.type # "REPLAY"
    <3>1. k \in 1 .. Len(flight) /\ k + 1 \in 1 .. Len(flight)
          /\ k \in 1 .. Len(flight) - 1
      BY <1>3
    <3>2. flight'[k] = flight[k] \/ flight'[k] = flight[k + 1]
      BY <1>3, <3>1
    <3> QED BY <1>5, <3>1, <3>2 DEF NoReplay
  <2>2. ASSUME NEW c \in Pages, NEW k \in 1 .. Len(down'[c])
        PROVE  down'[c][k].type # "REPLAY"
    <3>1. flight[i].msg.type # "REPLAY"
      BY <1>3, <1>5 DEF NoReplay
    <3>2. CASE down'[c] = down[c]
      BY <1>5, <3>2 DEF NoReplay
    <3>3. CASE /\ Len(down[c]) \in Nat /\ Len(down'[c]) = Len(down[c]) + 1
               /\ \A n \in 1 .. Len(down[c]) : down'[c][n] = down[c][n]
               /\ down'[c][Len(down[c]) + 1] = flight[i].msg
      <4>1. k \in 1 .. Len(down[c]) \/ k = Len(down[c]) + 1
        BY <3>3
      <4> QED BY <1>5, <3>1, <3>3, <4>1 DEF NoReplay
    <3> QED BY <1>4, <3>2, <3>3
  <2> QED BY <2>1, <2>2 DEF NoReplay
<1>6. ASSUME NEW c \in Watchers, Owed(c) PROVE Owed(c)'
  <2>0. c \in Pages /\ c \in Present
    BY DEF Pages, Present
  <2>1. CASE \E k \in 1 .. Len(flight) : c \in flight[k].to /\ Tells(flight[k].msg)
    <3>1. PICK k \in 1 .. Len(flight) : c \in flight[k].to /\ Tells(flight[k].msg)
      BY <2>1
    <3>2. CASE k = i
      <4>1. /\ Len(down[c]) \in Nat /\ Len(down'[c]) = Len(down[c]) + 1
            /\ down'[c][Len(down[c]) + 1] = flight[i].msg
        BY <1>4, <2>0, <3>1, <3>2
      <4>2. Len(down[c]) + 1 \in 1 .. Len(down'[c])
        BY <4>1
      <4> QED BY <3>1, <3>2, <4>1, <4>2 DEF Owed
    <3>3. CASE k < i
      <4>1. k \in 1 .. Len(flight) - 1 /\ k \in 1 .. Len(flight')
        BY <1>3, <3>3
      <4>2. flight'[k] = flight[k]
        BY <1>3, <3>3, <4>1
      <4> QED BY <3>1, <4>1, <4>2 DEF Owed
    <3>4. CASE k > i
      <4>1. /\ k - 1 \in 1 .. Len(flight) - 1 /\ k - 1 \in 1 .. Len(flight')
            /\ ~(k - 1 < i) /\ (k - 1) + 1 = k
        BY <1>3, <3>4
      <4>2. flight'[k - 1] = flight[k]
        BY <1>3, <4>1
      <4> QED BY <3>1, <4>1, <4>2 DEF Owed
    <3> QED BY <1>3, <3>2, <3>3, <3>4
  <2>2. CASE \E k \in 1 .. Len(down[c]) : Tells(down[c][k])
    <3>1. PICK k \in 1 .. Len(down[c]) : Tells(down[c][k])
      BY <2>2
    <3>2. k \in 1 .. Len(down'[c]) /\ down'[c][k] = down[c][k]
      BY <1>4, <2>0, <3>1
    <3> QED BY <3>1, <3>2 DEF Owed
  <2>3. CASE view[c].remote # None /\ view[c].remote.dead
    BY <1>2, <2>3 DEF Owed
  <2> QED BY <1>6, <2>1, <2>2, <2>3 DEF Owed
<1> QED BY <1>2, <1>5, <1>6 DEF Told, Announced

\* A snake that is dead on a page stays so, and a corpse makes it so.
LEMMA StaysDead ==
  ASSUME NEW h \in Histories, Consistent(h), NEW v \in Views(h), NEW p,
         \/ p \in Taken(h)
         \/ ~srv.alive /\ p \in Corpses,
         v.remote # None, v.remote.dead
  PROVE  Shown(v, p).remote # None /\ Shown(v, p).remote.dead
<1> DEFINE n == IF p.seq = 0 THEN v.native ELSE p.seq
           r == [at |-> p.at, turns |-> p.turns,
                 dead |-> v.remote # None /\ v.remote.dead]
<1>1. Shown(v, p) = v \/ Shown(v, p) = [v EXCEPT !.native = n, !.remote = r]
  BY DEF Shown
<1>2. r.dead /\ r # None
  <2>1. v.remote.dead = TRUE
    BY ViewFacts DEF Snakes
  <2>2. (v.remote # None /\ v.remote.dead) = TRUE
    BY <2>1
  <2>3. r = [at |-> p.at, turns |-> p.turns, dead |-> TRUE]
    BY <2>2
  <2> HIDE DEF r
  <2>4. p.at \in Nat /\ p.turns \in SUBSET Nat
    <3>1. CASE p \in Taken(h)
      BY <3>1, TakenFacts DEF Turns
    <3>2. CASE p \in Corpses
      BY <3>2, BoundsNat DEF Corpses, NoSeq
    <3> QED BY <3>1, <3>2
  <2>5. r \in [at : Nat, turns : SUBSET Nat, dead : BOOLEAN]
    BY <2>3, <2>4
  <2> QED BY <2>3, <2>5, NoneIsNoSnake
<1> HIDE DEF n, r
<1>3. [v EXCEPT !.native = n, !.remote = r].remote = r
  BY ViewFacts
<1> QED BY <1>1, <1>2, <1>3

DeadOn(c) == view[c].remote # None /\ view[c].remote.dead

LEMMA OnSnakeKeepsDead ==
  ASSUME NEW h \in Histories, Consistent(h), NEW c \in Watchers,
         NEW p \in Taken(h), OnSnake(c, p), DeadOn(c)
  PROVE  DeadOn(c)'
<1> DEFINE v == Accepted(view[c], p)
           q == [p EXCEPT !.turns = v.turns]
<1>0. c \in Pages /\ c # Player /\ view \in [Pages -> Views(h)] /\ view[c] \in Views(h)
  BY PlayerIsNoWatcher DEF Pages, Consistent
<1>1. CASE ~Accepts(view[c], p)
  BY <1>1 DEF OnSnake, DeadOn
<1>2. CASE Accepts(view[c], p)
  <2>1. v \in Views(h) /\ v.turns = p.turns /\ v.remote = view[c].remote
    BY <1>0, <1>2, AcceptedView DEF Accepts
  <2>2. q = p
    BY <2>1, TakenFacts DEF PoseAt
  <2>3. \/ view' = [view EXCEPT ![c] = [v EXCEPT !.pending = q]]
        \/ view' = [view EXCEPT ![c] = Shown(v, q)]
    BY <1>0, <1>2 DEF OnSnake
  <2> HIDE DEF v, q
  <2>4. [v EXCEPT !.pending = q].remote = v.remote
    BY <2>1, ViewFacts
  <2>5. Shown(v, q).remote # None /\ Shown(v, q).remote.dead
    BY <2>1, <2>2, StaysDead DEF DeadOn
  <2>6. \/ view'[c] = [v EXCEPT !.pending = q]
        \/ view'[c] = Shown(v, q)
    BY <1>0, <2>3
  <2> QED BY <2>1, <2>4, <2>5, <2>6 DEF DeadOn
<1> QED BY <1>1, <1>2

LEMMA OnDeadShows ==
  ASSUME NEW h \in Histories, Consistent(h), NEW c \in Watchers,
         NEW p \in Buried(h), OnDead(c, p), DeadOn(c) \/ p.seq = 0
  PROVE  DeadOn(c)'
<1> DEFINE v == IF p.seq = 0 THEN view[c] ELSE Accepted(view[c], p)
           r == IF v.remote = None THEN [at |-> 0, turns |-> {}, dead |-> TRUE]
                ELSE [v.remote EXCEPT !.dead = TRUE]
<1>0. c \in Pages /\ c # Player /\ view \in [Pages -> Views(h)] /\ view[c] \in Views(h)
  BY PlayerIsNoWatcher DEF Pages, Consistent
<1>1. CASE p.seq # 0 /\ ~Accepts(view[c], p)
  BY <1>1 DEF OnDead, DeadOn
<1>2. CASE ~(p.seq # 0 /\ ~Accepts(view[c], p))
  <2>1. v \in Views(h)
    <3>1. CASE p.seq = 0
      BY <1>0, <3>1
    <3>2. CASE p.seq # 0
      <4>1. p \in Taken(h)
        BY <3>2 DEF Buried, Corpses, NoSeq
      <4>2. p.seq > view[c].seen
        BY <1>2, <3>2 DEF Accepts
      <4> QED BY <1>0, <3>2, <4>1, <4>2, AcceptedView
    <3> QED BY <3>1, <3>2
  <2>2. view' = [view EXCEPT ![c] = [v EXCEPT !.pending = None, !.remote = r]]
    BY <1>0, <1>2 DEF OnDead
  <2> HIDE DEF v
  <2>3. r \in Snakes /\ r.dead
    <3>1. 0 \in 0 .. MaxTurns /\ {} \in Turns
      BY BoundsNat DEF Turns
    <3>2. v.remote \in {None} \cup Snakes
      BY <2>1, ViewFacts
    <3> QED BY <3>1, <3>2 DEF Snakes
  <2> HIDE DEF r
  <2>4. r # None
    <3>1. r \in [at : Nat, turns : SUBSET Nat, dead : BOOLEAN]
      BY <2>3, BoundsNat DEF Snakes, Turns
    <3> QED BY <3>1, NoneIsNoSnake
  <2>5. view'[c].remote = r
    BY <1>0, <2>1, <2>2, ViewFacts
  <2> QED BY <2>3, <2>4, <2>5 DEF DeadOn
<1> QED BY <1>1, <1>2

LEMMA DeliverTold ==
  ASSUME NEW h \in Histories, Consistent(h), Told, NEW c \in Pages, Deliver(c)
  PROVE  Told'
<1> DEFINE m == Head(down[c])
<1>1. /\ down \in [Pages -> Seq(News(h))] /\ down[c] \in Seq(News(h))
      /\ down[c] # <<>> /\ view \in [Pages -> Views(h)]
      /\ down' = [down EXCEPT ![c] = Tail(down[c])]
      /\ UNCHANGED <<srv, flight, resyncs>>
  BY DEF Deliver, Consistent
<1>2. /\ m \in News(h) /\ m = down[c][1] /\ Len(down[c]) \in Nat
      /\ 1 \in 1 .. Len(down[c])
      /\ Len(down'[c]) = Len(down[c]) - 1
      /\ \A k \in 1 .. Len(down'[c]) : down'[c][k] = down[c][k + 1]
  <2>1. /\ Len(down[c]) \in Nat /\ Len(down[c]) > 0 /\ down'[c] = Tail(down[c])
    BY <1>1, EmptySeq, LenProperties
  <2>2. m = down[c][1]
    BY <1>1
  <2> QED BY <1>1, <2>1, <2>2, HeadTailProperties
<1> HIDE DEF m
<1>3. \A d \in Pages : d # c => down'[d] = down[d]
  BY <1>1
<1>4. \A d \in Pages : d # c => view'[d] = view[d]
  BY <1>1 DEF Deliver, OnSnake, OnDead, OnReplay, OnReady
<1>5. ASSUME NoReplay PROVE NoReplay'
  <2>1. \A k \in 1 .. Len(down'[c]) : down'[c][k].type # "REPLAY"
    <3>1. \A k \in 1 .. Len(down'[c]) : k + 1 \in 1 .. Len(down[c])
      BY <1>2
    <3> QED BY <1>2, <1>5, <3>1 DEF NoReplay
  <2>2. \A i \in 1 .. Len(flight') : flight'[i].msg.type # "REPLAY"
    BY <1>1, <1>5 DEF NoReplay
  <2>3. \A d \in Pages : \A k \in 1 .. Len(down'[d]) : down'[d][k].type # "REPLAY"
    BY <1>3, <1>5, <2>1 DEF NoReplay
  <2> QED BY <2>2, <2>3 DEF NoReplay
<1>6. ASSUME NEW d \in Watchers, Owed(d), NoReplay PROVE Owed(d)'
  <2>0. d \in Pages
    BY DEF Pages
  <2>1. CASE \E i \in 1 .. Len(flight) : d \in flight[i].to /\ Tells(flight[i].msg)
    BY <1>1, <2>1 DEF Owed
  <2>2. CASE d # c
    <3>1. down'[d] = down[d] /\ view'[d] = view[d] /\ flight' = flight
      BY <1>1, <1>3, <1>4, <2>0, <2>2
    <3> QED BY <1>6, <3>1 DEF Owed
  <2>3. ASSUME d = c, DeadOn(c) \/ Tells(m) PROVE Owed(d)'
    <3>1. m.type # "REPLAY"
      BY <1>2, <1>6 DEF NoReplay
    <3>2. CASE m.type = "SNAKE"
      <4>1. OnSnake(c, m.pose) /\ m.pose \in Taken(h) /\ DeadOn(c)
        BY <1>2, <2>3, <3>2 DEF Deliver, m, News, Tells
      <4>2. DeadOn(c)'
        BY <2>3, <4>1, OnSnakeKeepsDead
      <4> QED BY <2>3, <4>2 DEF Owed, DeadOn
    <3>3. CASE m.type = "DEAD"
      <4>1. OnDead(c, m.pose) /\ m.pose \in Buried(h)
        BY <1>2, <3>3 DEF Deliver, m, News
      <4>2. DeadOn(c)'
        BY <2>3, <4>1, OnDeadShows DEF Tells
      <4> QED BY <2>3, <4>2 DEF Owed, DeadOn
    <3>4. CASE m.type = "READY"
      <4>1. view' = view /\ DeadOn(c)
        BY <2>3, <3>4 DEF Deliver, OnReady, m, Tells
      <4> QED BY <2>3, <4>1 DEF Owed, DeadOn
    <3> QED BY <1>2, <3>1, <3>2, <3>3, <3>4 DEF News
  <2>4. CASE d = c /\ \E k \in 1 .. Len(down[d]) : Tells(down[d][k])
    <3>1. PICK k \in 1 .. Len(down[c]) : Tells(down[c][k])
      BY <2>4
    <3>2. CASE k = 1
      BY <1>2, <2>3, <2>4, <3>1, <3>2
    <3>3. CASE k # 1
      <4>1. k - 1 \in 1 .. Len(down'[c]) /\ (k - 1) + 1 = k
        BY <1>2, <3>3
      <4>2. down'[c][k - 1] = down[c][k]
        BY <1>2, <4>1
      <4> QED BY <2>4, <3>1, <4>1, <4>2 DEF Owed
    <3> QED BY <3>2, <3>3
  <2>5. CASE d = c /\ view[d].remote # None /\ view[d].remote.dead
    BY <2>3, <2>5 DEF DeadOn
  <2> QED BY <1>6, <2>1, <2>2, <2>4, <2>5 DEF Owed
<1> QED BY <1>1, <1>5, <1>6 DEF Told, Announced

LEMMA FlushTold ==
  ASSUME NEW h \in Histories, Consistent(h), Told, NEW c \in Pages, Flush(c)
  PROVE  Told'
<1> DEFINE v == [view[c] EXCEPT !.pending = None]
           p == view[c].pending
<1>1. view \in [Pages -> Views(h)] /\ view[c] \in Views(h) /\ p \in Taken(h)
  <2>1. view \in [Pages -> Views(h)] /\ view[c] \in Views(h)
    BY DEF Consistent
  <2> QED BY <2>1, ViewFacts DEF Flush
<1>2. v \in Views(h) /\ v.remote = view[c].remote
  <2>1. /\ v \in [seen : 0 .. me.seq, turns : Turns, native : Nat,
                  remote : {None} \cup Snakes, pending : {None} \cup Taken(h)]
        /\ v.seen = view[c].seen /\ v.turns = view[c].turns
        /\ v.remote = view[c].remote
    BY <1>1, ViewFacts
  <2> HIDE DEF v
  <2> QED BY <1>1, <2>1, ViewFacts DEF Views
<1>3. /\ view' = [view EXCEPT ![c] = Shown(v, p)]
      /\ UNCHANGED <<srv, flight, down, resyncs>>
  BY DEF Flush
<1> HIDE DEF v, p
<1>4. ASSUME NEW d \in Watchers, DeadOn(d) PROVE DeadOn(d)'
  <2>1. d \in Pages
    BY DEF Pages
  <2>2. CASE d # c
    BY <1>1, <1>3, <1>4, <2>1, <2>2 DEF DeadOn
  <2>3. CASE d = c
    <3>1. Shown(v, p).remote # None /\ Shown(v, p).remote.dead
      BY <1>1, <1>2, <1>4, <2>3, StaysDead DEF DeadOn
    <3>2. view'[c] = Shown(v, p)
      BY <1>1, <1>3
    <3> QED BY <2>3, <3>1, <3>2 DEF DeadOn
  <2> QED BY <2>2, <2>3
<1>5. ASSUME NEW d \in Watchers, Owed(d) PROVE Owed(d)'
  BY <1>3, <1>4, <1>5 DEF Owed, DeadOn
<1> QED BY <1>3, <1>5 DEF Told, NoReplay, Announced

LEMMA StepTold == Inv /\ Told /\ [Next]_vars => Told'
<1> SUFFICES ASSUME Inv, Told, [Next]_vars PROVE Told'
  OBVIOUS
<1>1. PICK h \in Histories : Consistent(h)
  BY DEF Inv
<1>2. resyncs' \in Nat /\ (resyncs' = 0 => resyncs = 0 /\ UNCHANGED resyncs)
  BY ReplayCounted
<1>3. CASE resyncs' # 0
  BY <1>2, <1>3 DEF Told
<1>4. CASE resyncs' = 0
  <2>1. CASE \/ UNCHANGED vars
             \/ Tick \/ PublishBoard \/ Die
    <3>1. UNCHANGED <<srv, flight, down, view, resyncs>>
      BY <2>1 DEF vars, Tick, PublishBoard, Die
    <3> QED BY <3>1 DEF Told, NoReplay, Announced, Owed
  <2>2. CASE Leave
    BY <1>1, <1>4, <2>2, LeaveTold
  <2>3. CASE Receive \/ OtherBoard
    BY <1>1, <1>4, <2>3, ServerTold
  <2>4. CASE SendBatch
    BY <1>1, <2>4, SendBatchTold
  <2>5. ASSUME NEW c \in Pages, Resync(c) PROVE Told'
    BY <1>2, <1>4, <2>5 DEF Resync
  <2>6. ASSUME NEW c \in Pages, Deliver(c) PROVE Told'
    BY <1>1, <2>6, DeliverTold
  <2>7. ASSUME NEW c \in Pages, Flush(c) PROVE Told'
    BY <1>1, <2>7, FlushTold
  <2> QED BY <2>1, <2>2, <2>3, <2>4, <2>5, <2>6, <2>7 DEF Next
<1> QED BY <1>3, <1>4

\* A page that has got everything shows the death the seat's own page has
\* announced, when no replay was asked for: none of the poses that are
\* dropped, coalesced or overtaken on the way takes the corpse with it
\* (mark_native_seat_dead, stageDeath, applySnakeDelta).
THEOREM AnnouncedDeathSafe == Spec => []AnnouncedDeathShown
<1>1. Init => Told
  <2> SUFFICES ASSUME Init PROVE Told
    OBVIOUS
  <2>1. /\ flight = <<>> /\ down = [c \in Pages |-> <<>>] /\ resyncs = 0
        /\ srv.pose = None
    BY DEF Init
  <2>2. NoReplay
    BY <2>1 DEF NoReplay
  <2> QED BY <2>1, <2>2 DEF Told, Announced
<1>2. Told => AnnouncedDeathShown
  <2> SUFFICES ASSUME Told, Announced, resyncs = 0, NEW c \in Watchers,
                      flight = <<>>, down[c] = <<>>
               PROVE  view[c].remote # None /\ view[c].remote.dead
    BY DEF AnnouncedDeathShown, DeathShown, AtRest, Announced
  <2>1. Owed(c) /\ Len(flight) = 0 /\ Len(down[c]) = 0
    BY DEF Told
  <2> QED BY <2>1 DEF Owed
<1> QED BY <1>1, <1>2, InvHolds, StepTold, PTL DEF Spec
=============================================================================
