-------------------------- MODULE SequentialBooks --------------------------
(* What the table of addresses promises to customers whose requests take     *)
(* effect at once, each in one step: a book has at most Limit rows, asking   *)
(* for a default resets the others of its book, and a default goes only      *)
(* when another row takes over or the table is left empty.  The row that     *)
(* takes over from a deleted one may be of any book.  AddressBook implements *)
(* it when requests run one at a time.                                       *)
EXTENDS Naturals, FiniteSets

CONSTANTS Owners, Ids, Limit, Nobody

VARIABLES owner,     \* owner[a]: whose address a is, Nobody when there is none
          defaults   \* the addresses that are defaults

vars == <<owner, defaults>>

BookOf(u) == {a \in Ids : owner[a] = u}
Rows == {a \in Ids : owner[a] # Nobody}

Init == owner = [a \in Ids |-> Nobody] /\ defaults = {}

\* The first address of a book is a default only if asked for as one.
Add(u, a, wanted) ==
  /\ a \notin Rows /\ Cardinality(BookOf(u)) < Limit
  /\ owner' = [owner EXCEPT ![a] = u]
  /\ defaults' = IF wanted THEN (defaults \ BookOf(u)) \cup {a} ELSE defaults

MakeDefault(a) ==
  /\ a \in Rows
  /\ defaults' = (defaults \ BookOf(owner[a])) \cup {a}
  /\ UNCHANGED owner

GiveUp(a, successor) ==
  /\ a \in defaults /\ successor # a /\ owner[successor] = owner[a]
  /\ defaults' = (defaults \ {a}) \cup {successor}
  /\ UNCHANGED owner

Remove(a) ==
  /\ a \in Rows
  /\ owner' = [owner EXCEPT ![a] = Nobody]
  /\ \/ a \notin defaults /\ UNCHANGED defaults
     \/ a \in defaults /\ Rows = {a} /\ defaults' = {}
     \/ a \in defaults /\ \E successor \in Rows \ {a} :
                            defaults' = (defaults \ {a}) \cup {successor}

Next ==
  \E a \in Ids :
    \/ \E u \in Owners, wanted \in BOOLEAN : Add(u, a, wanted)
    \/ MakeDefault(a)
    \/ \E successor \in Ids : GiveUp(a, successor)
    \/ Remove(a)

Spec == Init /\ [][Next]_vars
=============================================================================
