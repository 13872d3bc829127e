--------------------------- MODULE OrderedSiblings ---------------------------
(* What an admin may expect of the order of categories: the children of each *)
(* parent are a list; a new one goes to its end, a move takes one out and    *)
(* puts it back somewhere, a removal closes the gap.  Category implements it *)
(* when admin requests run one at a time.                                    *)
EXTENDS Naturals, SequencesExt

CONSTANTS Ids, Parents

VARIABLE order   \* order[p]: the children of p, first to last

Listed == UNION {ToSet(order[p]) : p \in Parents}

Init == order = [p \in Parents |-> <<>>]

AddLast(p, c) == c \notin Listed /\ order' = [order EXCEPT ![p] = Append(@, c)]

Move(p, from, to) == order' = [order EXCEPT ![p] = InsertAt(RemoveAt(@, from), to, @[from])]

TakeOut(p, from) == order' = [order EXCEPT ![p] = RemoveAt(@, from)]

Next ==
  \E p \in Parents :
    \/ \E c \in Ids : AddLast(p, c)
    \/ \E from, to \in DOMAIN order[p] : Move(p, from, to)
    \/ \E from \in DOMAIN order[p] : TakeOut(p, from)

Spec == Init /\ [][Next]_order
=============================================================================
