---------------------------- MODULE SessionStore ----------------------------
(* What the session table promises, whatever handlers run: a session has one *)
(* user for all its life, each refresh gives it a new lease of at most a     *)
(* token's lifetime, and but for the flow of time only a request that found  *)
(* it lapsed ends it.  Sessions implements it.                               *)
EXTENDS Naturals

CONSTANTS Users, SessionIds, Lifetime, None

VARIABLES session,   \* session[s]: its user and the time left, or None
          lapsed     \* the sessions that a request found ended or expired

vars == <<session, lapsed>>

Init == /\ session = [s \in SessionIds |-> None]
        /\ lapsed = {}

\* A new id: no request remembers an ended session by it.
Issue(s, u, left) ==
  /\ session[s] = None /\ s \notin lapsed
  /\ session' = [session EXCEPT ![s] = [userId |-> u, left |-> left]]
  /\ UNCHANGED lapsed

\* Two refreshes may be done in the other order than they were started in, so
\* the new lease may be shorter than the old one.
Renew(s, left) ==
  /\ session[s] # None
  /\ session' = [session EXCEPT ![s].left = left]
  /\ UNCHANGED lapsed

Expired(s) == session[s] = None \/ session[s].left = 0

FindLapsed(s) ==
  /\ Expired(s)
  /\ lapsed' = lapsed \cup {s}
  /\ UNCHANGED session

\* Another request may have found it, too.
End(s) ==
  /\ s \in lapsed
  /\ session' = [session EXCEPT ![s] = None]
  /\ lapsed' \in {lapsed, lapsed \ {s}}

Forget(s) == lapsed' = lapsed \ {s} /\ UNCHANGED session

Age ==
  /\ session' = [s \in SessionIds |->
       IF Expired(s) THEN session[s] ELSE [session[s] EXCEPT !.left = @ - 1]]
  /\ UNCHANGED lapsed

Next ==
  \/ \E s \in SessionIds :
       \/ \E u \in Users, left \in 0 .. Lifetime : Issue(s, u, left)
       \/ \E left \in 0 .. Lifetime : Renew(s, left)
       \/ FindLapsed(s) \/ End(s) \/ Forget(s)
  \/ Age

Spec == Init /\ [][Next]_vars
=============================================================================
