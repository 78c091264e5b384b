------------------------------ MODULE BoardLog ------------------------------
(***************************************************************************)
(* What the board channel of native co-op promises, without queues,        *)
(* optimism or replays: each match has a log of boards, to which a board   *)
(* made for this match is appended; each page shows boards of the log,     *)
(* always a later one than before, of a later match or of a later          *)
(* revision.  It may skip some.                                            *)
(***************************************************************************)
EXTENDS Naturals, Sequences

CONSTANTS Clients, Boards

VARIABLES
  log,    \* log[g] is the sequence of boards of match g
  shown   \* shown[c] is the board of the log that page c took last

vars == <<log, shown>>

Nothing == [gen |-> 0, rev |-> 0, board |-> {}]

Later(p, q) == q.gen > p.gen \/ (q.gen = p.gen /\ q.rev > p.rev)

Init == log = <<>> /\ shown = [c \in Clients |-> Nothing]

Open == log' = Append(log, <<>>) /\ UNCHANGED shown

Commit(b) ==
  /\ log # <<>>
  /\ log' = [log EXCEPT ![Len(log)] = Append(@, [gen |-> Len(log), board |-> b])]
  /\ UNCHANGED shown

Show(c) ==
  \E g \in DOMAIN log : \E r \in DOMAIN log[g] :
    LET s == [gen |-> g, rev |-> r, board |-> log[g][r].board]
    IN /\ Later(shown[c], s)
       /\ shown' = [shown EXCEPT ![c] = s]
       /\ UNCHANGED log

Next ==
  \/ Open
  \/ \E b \in Boards : Commit(b)
  \/ \E c \in Clients : Show(c)

Spec == Init /\ [][Next]_vars
=============================================================================
