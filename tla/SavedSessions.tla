---------------------------- MODULE SavedSessions ----------------------------
(***************************************************************************)
(* What StatePersistence promises its callers: per session one envelope,   *)
(* replaced as a whole. InMemoryStateStore is this specification but for   *)
(* Lose; FileStore shows that the files implement it. What a power loss    *)
(* may bring back is the envelope of the last Settle or a later one.       *)
(***************************************************************************)
EXTENDS Naturals, Sequences

CONSTANTS
  Sessions,
  Envelope,    \* what a save may store
  None         \* nothing stored

VARIABLE line  \* per session, what a loss may leave of it; the last is what load returns

current(s) == line[s][Len(line[s])]

Init == line = [s \in Sessions |-> <<None>>]

Replace(s, e) == line' = [line EXCEPT ![s] = Append(@, e)]

\* A save; a delete is a save of nothing.
Put(s, e) == e \in Envelope /\ Replace(s, e)
Delete(s) == Replace(s, None)

\* Everything stored so far is safe.
Settle == line' = [s \in Sessions |-> <<current(s)>>]

Lose ==
  \E left \in [Sessions -> UNION {DOMAIN line[s] : s \in Sessions}] :
    /\ \A s \in Sessions : left[s] \in DOMAIN line[s]
    /\ line' = [s \in Sessions |-> <<line[s][left[s]]>>]

Next ==
  \/ \E s \in Sessions : Delete(s) \/ \E e \in Envelope : Put(s, e)
  \/ Settle \/ Lose

Spec == Init /\ [][Next]_line
=============================================================================
