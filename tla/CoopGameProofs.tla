---------------------------- MODULE CoopGameProofs ----------------------------
(***************************************************************************)
(* Proofs about CoopGame, for any number of seats, board and number of     *)
(* fruits: first about the cells of a body that moves and about filling up *)
(* fruit, then that every step keeps the invariant, then the theorems.     *)
(***************************************************************************)
EXTENDS CoopGame, FiniteSetTheorems, TLAPS

\* What keeps a snake from turning back: it is longer than its neck, and as
\* long as it lives its head is ahead of the neck in its direction.  A snake
\* that has not been steered has no turn to take.
Headed ==
  \A i \in Snakes :
    /\ Len(body[i]) >= 3
    /\ alive[i] => body[i][1] = Ahead(body[i][2], dir[i])
    /\ ~started[i] => pending[i] = <<>>

IInv == TypeOK /\ CellsApart /\ Headed /\ FruitNeverRunsOut

----------------------------------------------------------------------------
(***************************************************************************)
(* Directions and bodies.                                                  *)
(***************************************************************************)

\* Two moves lead back only if the second is opposite to the first.
LEMMA NoWayBack ==
  ASSUME NEW p \in Board, NEW d \in Dirs, NEW e \in Dirs, e # Opposite(d)
  PROVE  Ahead(Ahead(p, d), e) # p
<1>1. p[1] \in Int /\ p[2] \in Int /\ p = <<p[1], p[2]>>
  BY BoardAssumption DEF Board
<1> QED BY <1>1 DEF Ahead, Dirs, Opposite

\* A step pops a buffered turn that does not turn back.
LEMMA FacingOK ==
  ASSUME TypeOK, NEW i \in Snakes
  PROVE  Facing(i) \in Dirs /\ Facing(i) # Opposite(dir[i])
<1>1. dir[i] \in Dirs /\ pending[i] \in Seq(Dirs)
  BY DEF TypeOK
<1>2. dir[i] # Opposite(dir[i])
  BY <1>1 DEF Dirs, Opposite
<1>3. pending[i] # <<>> => pending[i][1] \in Dirs
  BY <1>1
<1> QED BY <1>1, <1>2, <1>3 DEF Facing

\* The first k cells of a body b, pushed on by a head h.
Push(b, h, k) == <<h>> \o SubSeq(b, 1, k)

\* Where the cells of a body go that is pushed on.
LEMMA Pushed ==
  ASSUME NEW b \in Seq(Board), NEW h \in Board, NEW k \in 1..Len(b)
  PROVE  /\ Push(b, h, k) \in Seq(Board)
         /\ Len(Push(b, h, k)) = k + 1
         /\ Push(b, h, k)[1] = h
         /\ \A m \in 2..(k + 1) : Push(b, h, k)[m] = b[m - 1]
         /\ \A c \in Range(Push(b, h, k)) : c = h \/ \E m \in 1..k : b[m] = c
<1> DEFINE s == SubSeq(b, 1, k)  n == Push(b, h, k)
<1>1. s \in Seq(Board) /\ Len(s) = k /\ \A m \in 1..k : s[m] = b[m]
  OBVIOUS
<1>2. n = <<h>> \o s
  BY DEF Push
<1> HIDE DEF s, n
<1>3. n \in Seq(Board) /\ Len(n) = k + 1 /\ n[1] = h
  BY <1>1, <1>2
<1>4. \A m \in 2..(k + 1) : n[m] = b[m - 1]
  BY <1>1, <1>2
<1>5. ASSUME NEW c \in Range(n) PROVE c = h \/ \E m \in 1..k : b[m] = c
  <2>1. PICK m \in 1..(k + 1) : c = n[m]
    BY <1>3, <1>5 DEF Range
  <2>2. CASE m = 1
    BY <2>1, <2>2, <1>3
  <2>3. CASE m # 1
    <3>1. m - 1 \in 1..k /\ c = b[m - 1]
      BY <2>1, <2>3, <1>4
    <3> QED BY <3>1
  <2> QED BY <2>2, <2>3
<1> QED BY <1>3, <1>4, <1>5 DEF n

\* The new body of a snake that moves: which cells it covers.
LEMMA NewBodyCells ==
  ASSUME IInv, NEW i \in Snakes
  PROVE  /\ NewBody(i) \in Seq(Board)
         /\ IsInjective(NewBody(i))
         /\ Len(NewBody(i)) >= 3
         /\ Moves(i) => /\ NewBody(i)[1] = NewHead(i)
                        /\ NewBody(i)[2] = body[i][1]
         /\ \A c \in Range(NewBody(i)) :
              c \in Range(body[i]) \/ (Moves(i) /\ c = NewHead(i))
<1> DEFINE b == body[i]
<1>1. b \in Seq(Board) /\ Len(b) >= 3 /\ IsInjective(b)
  BY DEF IInv, TypeOK, Headed, CellsApart
<1>2. CASE ~Moves(i)
  BY <1>1, <1>2 DEF NewBody
<1>3. CASE Moves(i)
  <2> DEFINE h == NewHead(i)  k == IF Eats(i) THEN Len(b) ELSE Len(b) - 1
             n == Push(b, h, k)
  <2>1. h \in Board /\ k \in 1..Len(b) /\ k >= 2
    BY <1>1, <1>3 DEF Moves
  <2>2. NewBody(i) = n
    BY <1>3 DEF NewBody, Push
  <2>3. /\ n \in Seq(Board) /\ Len(n) = k + 1 /\ n[1] = h
        /\ \A m \in 2..(k + 1) : n[m] = b[m - 1]
        /\ \A c \in Range(n) : c = h \/ \E m \in 1..k : b[m] = c
    <3>1. b \in Seq(Board)
      BY <1>1
    <3> HIDE DEF h, k, b
    <3>2. /\ Push(b, h, k) \in Seq(Board)
          /\ Len(Push(b, h, k)) = k + 1
          /\ Push(b, h, k)[1] = h
          /\ \A m \in 2..(k + 1) : Push(b, h, k)[m] = b[m - 1]
          /\ \A c \in Range(Push(b, h, k)) :
               c = h \/ \E m \in 1..k : b[m] = c
      BY <2>1, <3>1, Pushed
    <3> QED BY <3>2
  <2>4. \A m \in 1..k : b[m] # h
    <3>1. CASE Eats(i)
      <4>1. h \notin Occupied(body)
        BY <3>1 DEF Eats, IInv, CellsApart
      <4>2. \A m \in 1..Len(b) : b[m] \in Range(b)
        BY <1>1 DEF Range
      <4> QED BY <4>1, <4>2, <3>1 DEF Occupied
    <3>2. CASE ~Eats(i)
      <4>1. SUFFICES ASSUME NEW m \in 1..(Len(b) - 1), b[m] = h PROVE FALSE
        BY <3>2
      <4>2. m \in DOMAIN b /\ Len(b) \in DOMAIN b /\ m # Len(b)
        BY <1>1
      <4>3. h \in Range(b)
        BY <4>1, <4>2 DEF Range
      <4>4. h = b[Len(b)]
        BY <4>3, <1>3 DEF Moves, HitsBody
      <4> QED BY <4>1, <4>2, <4>4, <1>1 DEF IsInjective
    <3> QED BY <3>1, <3>2
  <2> HIDE DEF n, h, k
  <2>5. IsInjective(n)
    <3>1. SUFFICES ASSUME NEW u \in 1..(k + 1), NEW v \in 1..(k + 1), n[u] = n[v]
                   PROVE  u = v
      BY <2>1, <2>3 DEF IsInjective
    <3>2. CASE u = 1 /\ v = 1
      BY <3>2
    <3>3. CASE u # 1 /\ v # 1
      <4>1. u \in 2..(k + 1) /\ v \in 2..(k + 1)
        BY <2>1, <3>1, <3>3
      <4>2. b[u - 1] = b[v - 1]
        BY <4>1, <2>3, <3>1
      <4>3. DOMAIN b = 1..Len(b) /\ Len(b) \in Nat
        BY <1>1
      <4>4. u - 1 \in DOMAIN b /\ v - 1 \in DOMAIN b
        BY <4>1, <4>3, <2>1
      <4>5. u - 1 = v - 1
        BY <4>2, <4>4, <1>1 DEF IsInjective
      <4> QED BY <4>1, <4>5
    <3>4. CASE u = 1 /\ v # 1
      <4>1. v - 1 \in 1..k /\ b[v - 1] = h
        BY <2>1, <2>3, <3>1, <3>4
      <4> QED BY <4>1, <2>4
    <3>5. CASE u # 1 /\ v = 1
      <4>1. u - 1 \in 1..k /\ b[u - 1] = h
        BY <2>1, <2>3, <3>1, <3>5
      <4> QED BY <4>1, <2>4
    <3> QED BY <3>2, <3>3, <3>4, <3>5
  <2>6. n[2] = b[1] /\ Len(n) >= 3
    BY <2>1, <2>3
  <2>7. \A c \in Range(n) : c \in Range(b) \/ c = h
    <3>1. \A m \in 1..k : b[m] \in Range(b)
      BY <1>1, <2>1 DEF Range
    <3> QED BY <2>3, <3>1
  <2> QED BY <1>3, <2>2, <2>3, <2>5, <2>6, <2>7 DEF h
<1> QED BY <1>2, <1>3

\* Bodies that were apart are apart after a step.
LEMMA NewBodiesApart ==
  ASSUME IInv, NEW i \in Snakes, NEW j \in Snakes, i # j
  PROVE  Range(NewBody(i)) \cap Range(NewBody(j)) = {}
<1>1. SUFFICES ASSUME NEW c, c \in Range(NewBody(i)), c \in Range(NewBody(j))
               PROVE  FALSE
  OBVIOUS
<1>2. c \in Range(body[i]) \/ (Moves(i) /\ c = NewHead(i))
  BY <1>1, NewBodyCells
<1>3. c \in Range(body[j]) \/ (Moves(j) /\ c = NewHead(j))
  BY <1>1, NewBodyCells
<1>4. ~(c \in Range(body[i]) /\ c \in Range(body[j]))
  BY DEF IInv, CellsApart
<1>5. ~(Moves(i) /\ c = NewHead(i) /\ c \in Range(body[j]))
  BY DEF Moves, HitsBody
<1>6. ~(Moves(j) /\ c = NewHead(j) /\ c \in Range(body[i]))
  BY DEF Moves, HitsBody
<1>7. ~(Moves(i) /\ Moves(j) /\ NewHead(i) = NewHead(j))
  BY DEF Moves, HeadOn
<1> QED BY <1>2, <1>3, <1>4, <1>5, <1>6, <1>7

----------------------------------------------------------------------------
(***************************************************************************)
(* Fruit, and the start of a run.                                          *)
(***************************************************************************)

LEMMA BoardFinite == IsFiniteSet(Board)
<1>1. IsFiniteSet(0 .. Width - 1) /\ IsFiniteSet(0 .. Height - 1)
  BY BoardAssumption, FS_Interval
<1> QED BY <1>1, FS_Product DEF Board

LEMMA TargetPositive == FruitTarget \in Nat /\ FruitTarget >= 1
<1>1. Count + 1 \in 1..7
  BY BoardAssumption
<1> QED BY <1>1 DEF FruitTarget

\* Filling up adds fruits on free cells only, and leaves the board without a
\* fruit only when no cell is free.
LEMMA FilledOK ==
  ASSUME NEW b, NEW f \in SUBSET Board, NEW g \in Filled(b, f)
  PROVE  /\ g \subseteq Board
         /\ \A c \in g : c \in f \/ c \notin Occupied(b)
         /\ g = {} => Board \subseteq Occupied(b)
<1> DEFINE F == Free(b, f)
           missing == FruitTarget - Cardinality(f)
           room == Cardinality(F)
           n == IF missing < room THEN missing ELSE room
<1>1. PICK m \in Injection(1..n, F) : g = f \cup Range(m)
  BY DEF Filled
<1>2. F \subseteq Board /\ F \cap Occupied(b) = {}
  BY DEF Free
<1>3. m \in [1..n -> F]
  BY <1>1 DEF Injection
<1> HIDE DEF n
<1>4. Range(m) \subseteq F
  BY <1>3 DEF Range
<1>5. g \subseteq Board /\ \A c \in g : c \in f \/ c \notin Occupied(b)
  BY <1>1, <1>2, <1>4
<1>6. ASSUME g = {} PROVE Board \subseteq Occupied(b)
  <2>1. f = {} /\ Range(m) = {}
    BY <1>1, <1>6
  <2>2. missing >= 1 /\ missing \in Nat
    BY <2>1, TargetPositive, FS_EmptySet
  <2>3. IsFiniteSet(F) /\ room \in Nat
    BY <1>2, BoardFinite, FS_Subset, FS_CardinalityType
  <2>4. n \in Nat /\ (n = 0 => room = 0)
    BY <2>2, <2>3 DEF n
  <2>5. n = 0
    <3>1. SUFFICES ASSUME n # 0 PROVE FALSE
      OBVIOUS
    <3>2. 1 \in DOMAIN m
      BY <3>1, <2>4, <1>3
    <3>3. m[1] \in Range(m)
      BY <3>2 DEF Range
    <3> QED BY <3>3, <2>1
  <2>6. F = {}
    BY <2>3, <2>4, <2>5, FS_EmptySet
  <2> QED BY <2>1, <2>6 DEF Free
<1> QED BY <1>5, <1>6

\* The snakes start in rows of their own, none of them at the edge.
LEMMA SpawnRows ==
  \E x \in 2 .. Width - 1, row \in [Snakes -> 1 .. Height - 2] :
    /\ \A i \in Snakes :
         Spawn(i) = <<<<x, row[i]>>, <<x - 1, row[i]>>, <<x - 2, row[i]>>>>
    /\ \A i, j \in Snakes : i # j => row[i] # row[j]
<1> DEFINE x == IF Width \div 2 < 2 THEN 2 ELSE Width \div 2
           mid == Height \div 2
           row == [i \in Snakes |-> mid + SpawnOffsets[i]]
<1>1. x \in 2 .. Width - 1
  BY BoardAssumption
<1>2. mid \in Int /\ mid >= Players /\ mid + Players <= Height - 1
  BY BoardAssumption
<1> HIDE DEF x, mid
<1>3. /\ \A i \in Snakes : row[i] \in 1 .. Height - 2
      /\ \A i, j \in Snakes : i # j => row[i] # row[j]
  <2>1. CASE Players = 1
    BY <2>1, <1>2, BoardAssumption DEF SpawnOffsets, Snakes
  <2>2. CASE Players = 2
    BY <2>2, <1>2, BoardAssumption DEF SpawnOffsets, Snakes
  <2>3. CASE Players = 3
    BY <2>3, <1>2, BoardAssumption DEF SpawnOffsets, Snakes
  <2>4. CASE Players = 4
    BY <2>4, <1>2, BoardAssumption DEF SpawnOffsets, Snakes
  <2> QED BY <2>1, <2>2, <2>3, <2>4, BoardAssumption
<1>4. \A i \in Snakes :
        Spawn(i) = <<<<x, row[i]>>, <<x - 1, row[i]>>, <<x - 2, row[i]>>>>
  <2> TAKE i \in Snakes
  <2>1. ~(row[i] < 1) /\ ~(row[i] >= Height - 1)
    BY <1>3, BoardAssumption
  <2>2. row[i] = mid + SpawnOffsets[i]
    OBVIOUS
  <2> QED BY <2>1, <2>2 DEF Spawn, x, mid
<1>5. row \in [Snakes -> 1 .. Height - 2]
  BY <1>3
<1> QED BY <1>1, <1>3, <1>4, <1>5

LEMMA InitSafe == Init => IInv
<1> SUFFICES ASSUME Init PROVE IInv
  OBVIOUS
<1>1. PICK x \in 2 .. Width - 1, row \in [Snakes -> 1 .. Height - 2] :
        /\ \A i \in Snakes :
             Spawn(i) = <<<<x, row[i]>>, <<x - 1, row[i]>>, <<x - 2, row[i]>>>>
        /\ \A i, j \in Snakes : i # j => row[i] # row[j]
  BY SpawnRows
<1>2. ASSUME NEW i \in Snakes
      PROVE  /\ body[i] \in Seq(Board) /\ Len(body[i]) = 3
             /\ IsInjective(body[i])
             /\ Range(body[i]) = {<<x, row[i]>>, <<x - 1, row[i]>>, <<x - 2, row[i]>>}
             /\ body[i][1] = Ahead(body[i][2], "right")
  <2>1. body[i] = <<<<x, row[i]>>, <<x - 1, row[i]>>, <<x - 2, row[i]>>>>
    BY <1>1 DEF Init
  <2>2. row[i] \in 1 .. Height - 2 /\ x \in Int
    OBVIOUS
  <2>3. \A k \in 0..2 : <<x - k, row[i]>> \in Board
    BY <2>2, BoardAssumption DEF Board
  <2>4. <<x, row[i]>> \in Board /\ <<x - 1, row[i]>> \in Board /\ <<x - 2, row[i]>> \in Board
    BY <2>3, <2>2
  <2> QED BY <2>1, <2>2, <2>4 DEF IsInjective, Range, Ahead
<1>3. \A i, j \in Snakes : i # j => Range(body[i]) \cap Range(body[j]) = {}
  <2>1. SUFFICES ASSUME NEW i \in Snakes, NEW j \in Snakes, i # j,
                        NEW c \in Range(body[i]), c \in Range(body[j])
                 PROVE  FALSE
    OBVIOUS
  <2>2. c[2] = row[i]
    BY <2>1, <1>2
  <2>3. c[2] = row[j]
    BY <2>1, <1>2
  <2> QED BY <2>1, <2>2, <2>3, <1>1
<1>4. <<0, 0>> \in Board /\ <<0, 0>> \notin Occupied(body)
  <2>1. <<0, 0>> \in Board
    BY BoardAssumption DEF Board, Snakes
  <2>2. \A i \in Snakes : <<0, 0>> \notin Range(body[i])
    BY <1>2
  <2> QED BY <2>1, <2>2 DEF Occupied
<1> DEFINE f == Stock \cap Free(body, {})
<1>5. f \in SUBSET Board /\ f \cap Occupied(body) = {} /\ fruit \in Filled(body, f)
  BY DEF Init, Free
<1> HIDE DEF f
<1>6. fruit \subseteq Board /\ fruit \cap Occupied(body) = {} /\ fruit # {}
  BY <1>4, <1>5, FilledOK
<1>7. TypeOK
  BY <1>2, <1>6, BoardAssumption DEF Init, TypeOK, Dirs
<1>8. CellsApart
  BY <1>2, <1>3, <1>6 DEF CellsApart
<1>9. Headed
  <2>1. \A i \in Snakes : dir[i] = "right" /\ pending[i] = <<>>
    BY DEF Init
  <2>2. ASSUME NEW i \in Snakes
        PROVE  Len(body[i]) >= 3 /\ body[i][1] = Ahead(body[i][2], dir[i])
    <3>1. Len(body[i]) = 3 /\ body[i][1] = Ahead(body[i][2], "right")
      BY <1>2
    <3>2. dir[i] = "right"
      BY <2>1
    <3>3. 3 >= 3
      OBVIOUS
    <3> QED BY <3>1, <3>2, <3>3, Zenon
  <2> QED BY <2>1, <2>2, Zenon DEF Headed
<1>10. FruitNeverRunsOut
  BY <1>6 DEF Init, FruitNeverRunsOut
<1> QED BY <1>7, <1>8, <1>9, <1>10 DEF IInv

----------------------------------------------------------------------------
(***************************************************************************)
(* The actions keep the invariant.                                         *)
(***************************************************************************)

\* The buffer holds at most two turns, and inputs keep it that way.
LEMMA BufferedOK ==
  ASSUME NEW p \in Seq(Dirs), Len(p) <= 2, NEW h \in Dirs, NEW d \in Dirs
  PROVE  Buffered(p, h, d) \in Seq(Dirs) /\ Len(Buffered(p, h, d)) <= 2
<1>1. Len(p) = 2 \/ Len(p) < 2
  <2>1. Len(p) \in Nat
    OBVIOUS
  <2>2. \A n \in Nat : n <= 2 => n = 2 \/ n < 2
    OBVIOUS
  <2> QED BY <2>1, <2>2
<1>2. CASE Len(p) = 2
  <2>1. 1 \in 1..Len(p)
    BY <1>2
  <2>2. p[1] \in Dirs
    BY <2>1
  <2>3. <<p[1], d>> \in Seq(Dirs) /\ Len(<<p[1], d>>) = 2
    BY <2>2
  <2> QED BY <1>2, <2>3 DEF Buffered
<1>3. CASE Len(p) < 2
  <2>1. Append(p, d) \in Seq(Dirs) /\ Len(Append(p, d)) <= 2
    BY <1>3
  <2>2. Buffered(p, h, d) = p \/ Buffered(p, h, d) = Append(p, d)
    BY <1>3 DEF Buffered
  <2> QED BY <2>1, <2>2
<1> QED BY <1>1, <1>2, <1>3

LEMMA InputSafe ==
  ASSUME IInv, NEW i \in Snakes, NEW d \in Dirs, SetInput(i, d)
  PROVE  IInv'
<1> USE DEF IInv
<1>1. pending[i] \in Seq(Dirs) /\ Len(pending[i]) <= 2 /\ dir[i] \in Dirs
  BY DEF TypeOK
<1> DEFINE p == Buffered(pending[i], dir[i], d)
<1>2. p \in Seq(Dirs) /\ Len(p) <= 2
  BY <1>1, BufferedOK
<1> HIDE DEF p
<1>3. /\ pending' = [pending EXCEPT ![i] = p]
      /\ started' = [started EXCEPT ![i] = TRUE]
      /\ UNCHANGED <<body, dir, alive, fruit, over, tick>>
  BY DEF SetInput, p
<1>4. TypeOK'
  <2>1. /\ pending' \in [Snakes -> Seq(Dirs)]
        /\ \A j \in Snakes : Len(pending'[j]) <= 2
    BY <1>2, <1>3 DEF TypeOK
  <2>2. started' \in [Snakes -> BOOLEAN]
    BY <1>3 DEF TypeOK
  <2> QED BY <1>3, <2>1, <2>2 DEF TypeOK
<1>5. CellsApart' /\ FruitNeverRunsOut'
  BY <1>3 DEF CellsApart, FruitNeverRunsOut, Occupied
<1>6. Headed'
  <2>1. \A j \in Snakes : j # i => pending'[j] = pending[j] /\ started'[j] = started[j]
    BY <1>3 DEF TypeOK
  <2>2. started'[i]
    BY <1>3 DEF TypeOK
  <2> QED BY <1>3, <2>1, <2>2 DEF Headed
<1> QED BY <1>4, <1>5, <1>6

LEMMA MarkDeadSafe ==
  ASSUME IInv, NEW i \in Snakes, MarkDead(i)
  PROVE  IInv'
<1>1. alive' \in [Snakes -> BOOLEAN] /\ \A j \in Snakes : alive'[j] => alive[j]
  BY DEF MarkDead, IInv, TypeOK
<1>2. UNCHANGED <<body, dir, pending, started, fruit, over, tick>>
  BY DEF MarkDead
<1>3. TypeOK'
  BY <1>1, <1>2 DEF IInv, TypeOK
<1>4. CellsApart' /\ FruitNeverRunsOut'
  BY <1>2 DEF IInv, CellsApart, FruitNeverRunsOut, Occupied
<1>5. Headed'
  BY <1>1, <1>2 DEF IInv, Headed
<1> QED BY <1>3, <1>4, <1>5 DEF IInv

\* What a step does to the bodies and the fruit.
LEMMA StepBoard ==
  ASSUME IInv, Step
  PROVE  /\ body' \in [Snakes -> Seq(Board)]
         /\ CellsApart'
         /\ fruit' \subseteq Board
         /\ FruitNeverRunsOut'
<1> DEFINE eaters == {i \in Snakes : Eats(i)}
           left == fruit \ {NewHead(i) : i \in eaters}
<1>1. \A i \in Snakes : body'[i] = NewBody(i)
  BY DEF Step
<1>2. body' \in [Snakes -> Seq(Board)]
  <2>1. \A i \in Snakes : NewBody(i) \in Seq(Board)
    BY NewBodyCells
  <2> QED BY <2>1 DEF Step
<1>3. \A i \in Snakes : IsInjective(body'[i])
  <2>1. \A i \in Snakes : IsInjective(NewBody(i))
    BY NewBodyCells
  <2> QED BY <1>1, <2>1
<1>4. \A i, j \in Snakes : i # j => Range(body'[i]) \cap Range(body'[j]) = {}
  BY <1>1, NewBodiesApart
<1>5. Occupied(body') \cap left = {}
  <2>1. SUFFICES ASSUME NEW i \in Snakes, NEW c \in Range(NewBody(i)), c \in left
                 PROVE  FALSE
    BY <1>1 DEF Occupied
  <2>2. c \in Range(body[i]) \/ (Moves(i) /\ c = NewHead(i))
    BY NewBodyCells
  <2>3. c \in fruit /\ c \notin Occupied(body)
    BY <2>1 DEF IInv, CellsApart
  <2>4. c \notin Range(body[i])
    BY <2>3 DEF Occupied
  <2>5. Eats(i) /\ c = NewHead(i)
    BY <2>2, <2>3, <2>4 DEF Eats
  <2> QED BY <2>1, <2>5
<1>6. fruit \subseteq Board /\ left \in SUBSET Board
  BY DEF IInv, TypeOK
<1>7. CASE eaters = {}
  <2>1. fruit' = fruit /\ left = fruit
    BY <1>7 DEF Step
  <2>2. over = "no" /\ over' # "ALL_APPLES" /\ fruit # {}
    BY <1>7 DEF Step, IInv, FruitNeverRunsOut
  <2>3. CellsApart'
    BY <1>3, <1>4, <1>5, <2>1 DEF CellsApart
  <2> QED BY <1>2, <1>6, <2>1, <2>2, <2>3 DEF FruitNeverRunsOut
<1>8. CASE eaters # {}
  <2>1. fruit' \in Filled(body', left)
    BY <1>8 DEF Step
  <2>2. /\ over' = "no" => fruit' # {}
        /\ over' = "ALL_APPLES" => fruit' = {}
    BY <1>8 DEF Step
  <2> HIDE DEF left, eaters
  <2>3. /\ fruit' \subseteq Board
        /\ \A c \in fruit' : c \in left \/ c \notin Occupied(body')
        /\ fruit' = {} => Board \subseteq Occupied(body')
    BY <2>1, <1>6, FilledOK
  <2>4. fruit' \cap Occupied(body') = {}
    BY <2>3, <1>5
  <2>5. CellsApart'
    BY <1>3, <1>4, <2>4 DEF CellsApart
  <2>6. Occupied(body') \subseteq Board
    BY <1>2 DEF Occupied, Range
  <2> QED BY <1>2, <2>2, <2>3, <2>5, <2>6 DEF FruitNeverRunsOut
<1> QED BY <1>7, <1>8

LEMMA StepSafe ==
  ASSUME IInv, Step
  PROVE  IInv'
<1>1. TypeOK'
  <2>1. dir' \in [Snakes -> Dirs]
    BY FacingOK DEF Step, IInv
  <2>2. pending' \in [Snakes -> Seq(Dirs)] /\ \A i \in Snakes : Len(pending'[i]) <= 2
    <3>1. \A i \in Snakes : pending[i] \in Seq(Dirs) /\ Len(pending[i]) <= 2
      BY DEF IInv, TypeOK
    <3>2. \A i \in Snakes :
            pending[i] # <<>> => Tail(pending[i]) \in Seq(Dirs) /\ Len(Tail(pending[i])) <= 2
      BY <3>1
    <3> QED BY <3>1, <3>2 DEF Step
  <2>3. alive' \in [Snakes -> BOOLEAN] /\ started' = started
    BY DEF Step
  <2>4. over' \in {"no", "ALL_APPLES", "ALL_DEAD"} /\ tick' \in 0..MaxTick
    BY BoardAssumption DEF Step, IInv, TypeOK
  <2>5. started \in [Snakes -> BOOLEAN]
    BY DEF IInv, TypeOK
  <2> QED BY <2>1, <2>2, <2>3, <2>4, <2>5, StepBoard DEF TypeOK
<1>2. Headed'
  <2>1. SUFFICES ASSUME NEW i \in Snakes
                 PROVE  /\ Len(body'[i]) >= 3
                        /\ alive'[i] => body'[i][1] = Ahead(body'[i][2], dir'[i])
                        /\ ~started'[i] => pending'[i] = <<>>
    BY DEF Headed
  <2>2. body'[i] = NewBody(i) /\ dir'[i] = Facing(i) /\ started'[i] = started[i]
    BY DEF Step
  <2>3. alive'[i] <=> (alive[i] /\ (Crawls(i) => Moves(i)))
    BY DEF Step
  <2>4. pending[i] = <<>> => pending'[i] = <<>>
    BY DEF Step
  <2>5. ~started[i] => pending[i] = <<>>
    BY DEF IInv, Headed
  <2>6. CASE Moves(i)
    <3>1. body'[i][1] = Ahead(body'[i][2], dir'[i])
      BY <2>2, <2>6, NewBodyCells DEF NewHead
    <3> QED BY <2>2, <2>4, <2>5, <3>1, NewBodyCells
  <2>7. CASE ~Moves(i)
    <3>1. body'[i] = body[i] /\ Len(body[i]) >= 3
      BY <2>2, <2>7 DEF NewBody, IInv, Headed
    <3>2. ASSUME alive'[i] PROVE body'[i][1] = Ahead(body'[i][2], dir'[i])
      <4>1. alive[i] /\ ~started[i]
        BY <2>3, <2>7, <3>2 DEF Crawls
      <4>2. dir'[i] = dir[i]
        BY <2>2, <2>5, <4>1 DEF Facing
      <4>3. body[i][1] = Ahead(body[i][2], dir[i])
        BY <4>1 DEF IInv, Headed
      <4> QED BY <3>1, <4>2, <4>3
    <3> QED BY <2>2, <2>4, <2>5, <3>1, <3>2
  <2> QED BY <2>6, <2>7
<1> QED BY <1>1, <1>2, StepBoard DEF IInv

LEMMA NextSafe == IInv /\ [Next]_vars => IInv'
<1> SUFFICES ASSUME IInv, [Next]_vars PROVE IInv'
  OBVIOUS
<1>1. CASE \E i \in Snakes, d \in Dirs : SetInput(i, d)
  BY <1>1, InputSafe
<1>2. CASE \E i \in Snakes : MarkDead(i)
  BY <1>2, MarkDeadSafe
<1>3. CASE Step
  BY <1>3, StepSafe
<1>4. CASE UNCHANGED vars
  BY <1>4 DEF vars, IInv, TypeOK, CellsApart, Headed, FruitNeverRunsOut, Occupied
<1> QED BY <1>1, <1>2, <1>3, <1>4 DEF Next

----------------------------------------------------------------------------
(***************************************************************************)
(* The theorems.                                                           *)
(***************************************************************************)

\* The invariant of the simulation.
THEOREM Inductive == Spec => []IInv
BY InitSafe, NextSafe, PTL DEF Spec

\* The variables keep their types, and two turns at most are buffered.
THEOREM TypeCorrect == Spec => []TypeOK
<1>1. IInv => TypeOK
  BY DEF IInv
<1> QED BY <1>1, Inductive, PTL

\* Whatever the snakes do in a step, no two of them share a cell, none bites
\* itself and lives on it, and no fruit lies under a snake.
THEOREM CellsSafe == Spec => []CellsApart
<1>1. IInv => CellsApart
  BY DEF IInv
<1> QED BY <1>1, Inductive, PTL

LEMMA HeadedNoReversal == IInv => NoReversal
<1> SUFFICES ASSUME IInv, NEW i \in Snakes, alive[i]
             PROVE  NewHead(i) # body[i][2]
  BY DEF NoReversal
<1>1. body[i][1] = Ahead(body[i][2], dir[i]) /\ Len(body[i]) >= 3
  BY DEF IInv, Headed
<1>2. body[i][2] \in Board /\ dir[i] \in Dirs
  BY <1>1 DEF IInv, TypeOK
<1>3. Facing(i) \in Dirs /\ Facing(i) # Opposite(dir[i])
  BY FacingOK DEF IInv
<1> QED BY <1>1, <1>2, <1>3, NoWayBack DEF NewHead

\* No snake can be made to turn into its neck.
THEOREM NoReversalSafe == Spec => []NoReversal
BY HeadedNoReversal, Inductive, PTL

\* A run that goes on has fruit, and ALL_APPLES means a full board.
THEOREM FruitSafe == Spec => []FruitNeverRunsOut
<1>1. IInv => FruitNeverRunsOut
  BY DEF IInv
<1> QED BY <1>1, Inductive, PTL

\* Cells, turns and fruit together: what the run checks on a small board.
THEOREM GameSafe == Spec => []GameSound
<1>1. IInv => GameSound
  BY HeadedNoReversal DEF IInv, GameSound
<1> QED BY <1>1, Inductive, PTL

\* The simulation is one of those that the room is modelled with.
THEOREM PromiseKept == Spec => KeepsPromise
<1>1. Init => Promise!Init
  BY DEF Init, Promise!Init
<1>2. IInv /\ [Next]_vars => [Promise!Next]_(Promise!vars)
  <2> SUFFICES ASSUME IInv, [Next]_vars
               PROVE  Promise!Next \/ UNCHANGED Promise!vars
    OBVIOUS
  <2>1. CASE \E i \in Snakes, d \in Dirs : SetInput(i, d)
    <3>1. PICK i \in Snakes, d \in Dirs : SetInput(i, d)
      BY <2>1
    <3>2. Promise!Steer(i)
      BY <3>1 DEF SetInput, Promise!Steer
    <3> QED BY <3>2 DEF Promise!Next
  <2>2. CASE \E i \in Snakes : MarkDead(i)
    <3>1. PICK i \in Snakes : MarkDead(i)
      BY <2>2
    <3>2. Promise!MarkDead(i)
      BY <3>1 DEF MarkDead, Promise!MarkDead
    <3> QED BY <3>2 DEF Promise!Next
  <2>3. CASE Step
    <3> DEFINE crawling == {i \in Snakes : alive[i] /\ started[i]}
               dying == {i \in Snakes : Crawls(i) /\ ~Moves(i)}
               eaters == {i \in Snakes : Eats(i)}
               cleared == eaters # {} /\ fruit' = {}
    <3>1. over = "no" /\ dying \in SUBSET Snakes /\ dying \subseteq crawling
      BY <2>3 DEF Step, Crawls
    <3>2. ASSUME cleared PROVE crawling \ dying # {}
      <4>1. PICK i \in Snakes : Eats(i)
        BY <3>2
      <4>2. i \in crawling /\ i \notin dying
        BY <4>1 DEF Eats, Moves, Crawls
      <4> QED BY <4>2
    <3>3. alive' = [i \in Snakes |-> alive[i] /\ i \notin dying]
      <4>1. \A i \in Snakes :
              (alive[i] /\ (Crawls(i) => Moves(i))) = (alive[i] /\ i \notin dying)
        OBVIOUS
      <4> QED BY <2>3, <4>1 DEF Step
    <3>4. (over' # "no") = (cleared \/ \A i \in Snakes : ~alive'[i])
      BY <2>3 DEF Step
    <3>5. started' = started /\ cleared \in BOOLEAN
      BY <2>3 DEF Step
    <3> HIDE DEF dying, cleared
    <3>6. Promise!Step(dying, cleared)
      BY <3>1, <3>2, <3>3, <3>4, <3>5 DEF Promise!Step
    <3> QED BY <3>1, <3>5, <3>6 DEF Promise!Next
  <2>4. CASE UNCHANGED vars
    BY <2>4 DEF vars, Promise!vars
  <2> QED BY <2>1, <2>2, <2>3, <2>4 DEF Next
<1> QED BY <1>1, <1>2, Inductive, PTL DEF Spec, KeepsPromise, Promise!Spec
=============================================================================
