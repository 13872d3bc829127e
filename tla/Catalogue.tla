----------------------------- MODULE Catalogue -----------------------------
(* What the catalogue promises of its creates, whatever they race with: each *)
(* takes effect at one instant, at which it gets the first free candidate of *)
(* its name; it is refused at an instant when none is free; or it fails and  *)
(* leaves no trace.  Product, which searches a slug query by query and       *)
(* inserts later, implements it.                                             *)
EXTENDS Naturals

CONSTANTS Bases, Slugs, Candidates, Candidate, Clients, None

VARIABLES item,    \* item[s]: the product with slug s, or None
          client   \* client[c]: the create that client c waits for

vars == <<item, client>>

Waiting(base, published) == [state |-> "asked", base |-> base, published |-> published]
NotWaiting == [state |-> "idle", base |-> None, published |-> FALSE]

Init == /\ item = [s \in Slugs |-> None]
        /\ client = [c \in Clients |-> NotWaiting]

IsFree(b, i) == item[Candidate[b][i]] = None
FirstFree(b, i) == IsFree(b, i) /\ \A j \in 0 .. i - 1 : ~IsFree(b, j)

Ask(c, b, published) ==
  /\ client[c].state = "idle"
  /\ client' = [client EXCEPT ![c] = Waiting(b, published)]
  /\ UNCHANGED item

Create(c, i) ==
  LET q == client[c] IN
  /\ q.state = "asked"
  /\ FirstFree(q.base, i)
  /\ item' = [item EXCEPT ![Candidate[q.base][i]] = [published |-> q.published]]
  /\ client' = [client EXCEPT ![c].state = "created"]

Refuse(c) ==
  /\ client[c].state = "asked"
  /\ \A i \in 0 .. Candidates - 1 : ~IsFree(client[c].base, i)
  /\ client' = [client EXCEPT ![c].state = "refused"]
  /\ UNCHANGED item

\* The answer arrives, or the create fails before it takes effect.
End(c) ==
  /\ client[c].state # "idle"
  /\ client' = [client EXCEPT ![c] = NotWaiting]
  /\ UNCHANGED item

Next ==
  \E c \in Clients :
    \/ \E b \in Bases, published \in BOOLEAN : Ask(c, b, published)
    \/ \E i \in 0 .. Candidates - 1 : Create(c, i)
    \/ Refuse(c)
    \/ End(c)

Spec == Init /\ [][Next]_vars
=============================================================================
