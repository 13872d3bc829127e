--------------------------- MODULE ProductProofs ---------------------------
(* Theorems about Product, for any names, number of candidates and slots,   *)
(* and whatever the search for one name shares with another's.              *)
EXTENDS Product, TLAPS

USE ConstantsAssumption

\* A handler that refuses has seen its last candidate taken, too.
RefusedAtLast ==
  \A r \in Requests : req[r].pc = "refused" =>
    req[r].i = Candidates - 1 /\ Taken(req[r].base, req[r].i)

\* The inductive invariant.
IInv == TypeOK /\ ProbedTaken /\ RefusedAtLast

-----------------------------------------------------------------------------
(* Every step keeps the invariant. *)

LEMMA InitIInv == Init => IInv
  BY DEF Init, IInv, TypeOK, ProbedTaken, RefusedAtLast, Handler, Idle

\* Slugs in use stay in use, and a step changes the handler of one slot at most.
LEMMA TakenStays ==
  ASSUME TypeOK, \/ UNCHANGED product
                 \/ \E s \in Slugs, row \in Row : product' = [product EXCEPT ![s] = row],
         NEW b \in Bases, NEW i \in 0 .. Candidates - 1, Taken(b, i)
  PROVE  Taken(b, i)'
  BY DEF TypeOK, Taken

LEMMA MovedTyped ==
  ASSUME NEW q \in Handler, NEW pc \in {"insert", "refused", "del"}
  PROVE  [q EXCEPT !.pc = pc] \in Handler
  BY DEF Handler

LEMMA NextCandidateTyped ==
  ASSUME NEW q \in Handler, ~GivesUp(q.i)
  PROVE  [q EXCEPT !.i = @ + 1] \in Handler
  <1>1. q.i \in Nat /\ q.i + 1 \in 0 .. Candidates - 1
    BY DEF Handler, GivesUp
  <1> QED BY <1>1 DEF Handler

LEMMA StepTyped ==
  ASSUME IInv, Next
  PROVE  TypeOK'
  <1> USE DEF IInv, TypeOK, ProbedTaken
  <1>1. ASSUME NEW r \in Requests, NEW b \in Bases, NEW published \in BOOLEAN,
               NEW inCategory \in BOOLEAN, CheckCategory(r, b, published, inCategory)
        PROVE  TypeOK'
    BY <1>1 DEF CheckCategory, FirstCandidate, Handler
  <1>2. ASSUME NEW r \in Requests, UNCHANGED <<product, categoryOpen>>,
               Goto(r, "insert") \/ Goto(r, "refused") \/ Finish(r)
        PROVE  TypeOK'
    <2>1. req' \in [Requests -> Handler]
      <3>1. Idle \in Handler
        BY DEF Handler, Idle
      <3>2. CASE Finish(r)
        BY <3>1, <3>2 DEF Finish
      <3>3. ASSUME NEW pc \in {"insert", "refused", "del"}, Goto(r, pc)
            PROVE  req' \in [Requests -> Handler]
        BY <3>3, MovedTyped DEF Goto
      <3> QED BY <1>2, <3>2, <3>3
    <2> QED BY <1>2, <2>1
  <1>3. ASSUME NEW r \in Requests, ProbeSlug(r) PROVE TypeOK'
    <2>1. CASE ~GivesUp(req[r].i) /\ req' = [req EXCEPT ![r].i = @ + 1]
      <3>1. req[r] \in Handler /\ UNCHANGED <<product, categoryOpen>>
        BY <1>3 DEF ProbeSlug
      <3>2. [req[r] EXCEPT !.i = @ + 1] \in Handler
        BY <2>1, <3>1, NextCandidateTyped
      <3> QED BY <2>1, <3>1, <3>2
    <2> QED BY <1>2, <1>3, <2>1 DEF ProbeSlug
  <1>4. ASSUME NEW r \in Requests, Refuse(r) \/ DelPages(r) \/ Abort(r) PROVE TypeOK'
    BY <1>2, <1>4 DEF Refuse, DelPages, Abort
  <1>5. ASSUME NEW r \in Requests, InsertProduct(r) PROVE TypeOK'
    <2>1. req[r].base \in Bases /\ req[r].i \in 0 .. Candidates - 1
      <3>1. req[r] \in Handler /\ req[r].base \in Bases
        BY <1>5 DEF InsertProduct
      <3> QED BY <3>1 DEF Handler
    <2>2. CASE Finish(r) /\ UNCHANGED product
      BY <1>2, <1>5, <2>2 DEF InsertProduct
    <2>3. CASE /\ product' = [product EXCEPT ![Candidate[req[r].base][req[r].i]] =
                                [published |-> req[r].published]]
               /\ Goto(r, "del")
      <3>1. [published |-> req[r].published] \in Row
        <4>1. req[r] \in Handler
          OBVIOUS
        <4> QED BY <4>1 DEF Row, Handler
      <3>2. product' \in [Slugs -> Row \cup {None}]
        <4>1. PICK row \in Row : row = [published |-> req[r].published]
          BY <3>1
        <4>2. product' = [product EXCEPT ![Candidate[req[r].base][req[r].i]] = row]
          BY <2>3, <4>1
        <4>3. product \in [Slugs -> Row \cup {None}]
          OBVIOUS
        <4> QED BY <4>2, <4>3
      <3>3. req' \in [Requests -> Handler]
        BY <2>3, MovedTyped DEF Goto
      <3>4. categoryOpen' = categoryOpen
        BY <1>5 DEF InsertProduct
      <3> QED BY <3>2, <3>3, <3>4
    <2> QED BY <1>5, <2>2, <2>3 DEF InsertProduct
  <1>6. CASE ToggleCategory
    BY <1>6 DEF ToggleCategory
  <1> QED BY <1>1, <1>3, <1>4, <1>5, <1>6 DEF Next, HandlerStep

\* A step inserts a row or leaves the table alone.
LEMMA TableOnlyGrows ==
  ASSUME IInv, Next
  PROVE  \/ UNCHANGED product
         \/ \E s \in Slugs, row \in Row : product' = [product EXCEPT ![s] = row]
  <1> USE DEF IInv
  <1>1. ASSUME NEW r \in Requests, InsertProduct(r), ~UNCHANGED product
        PROVE  \E s \in Slugs, row \in Row : product' = [product EXCEPT ![s] = row]
    <2>1. /\ Candidate[req[r].base][req[r].i] \in Slugs
          /\ [published |-> req[r].published] \in Row
      BY <1>1 DEF InsertProduct, ProbedTaken, TypeOK, Handler, Row
    <2> QED BY <1>1, <2>1 DEF InsertProduct
  <1> QED BY <1>1 DEF Next, HandlerStep, CheckCategory, ProbeSlug, Refuse,
                      DelPages, Abort, ToggleCategory

\* What the invariant says of one handler.
SearchedTaken(q) ==
  /\ q.pc # "idle" => /\ q.base \in Bases /\ q.i < Candidates
                      /\ \A j \in 0 .. q.i - 1 : Taken(q.base, j)
  /\ q.pc = "refused" => q.i = Candidates - 1 /\ Taken(q.base, q.i)

LEMMA SearchesTaken ==
  /\ (ProbedTaken /\ RefusedAtLast) <=> \A r \in Requests : SearchedTaken(req[r])
  /\ (ProbedTaken' /\ RefusedAtLast') <=> \A r \in Requests : SearchedTaken(req[r])'
  BY DEF ProbedTaken, RefusedAtLast, SearchedTaken

LEMMA StepProbedTaken ==
  ASSUME IInv, Next
  PROVE  ProbedTaken' /\ RefusedAtLast'
  <1> USE DEF IInv
  <1>0. TypeOK
    OBVIOUS
  <1>1. \A b \in Bases : \A i \in 0 .. Candidates - 1 : Taken(b, i) => Taken(b, i)'
    BY <1>0, TableOnlyGrows, TakenStays
  <1> SUFFICES ASSUME NEW s \in Requests PROVE SearchedTaken(req[s])'
    BY SearchesTaken
  <1>3. SearchedTaken(req[s]) /\ req[s] \in Handler
    BY SearchesTaken DEF TypeOK
  <1> DEFINE Same == /\ req'[s].base = req[s].base /\ req'[s].i = req[s].i
                     /\ req[s].pc # "idle"
  <1>4. CASE Same /\ req'[s].pc # "refused"
    <2>1. \A j \in 0 .. req[s].i - 1 : j \in 0 .. Candidates - 1
      BY <1>3 DEF SearchedTaken, Handler
    <2> QED BY <1>1, <1>3, <1>4, <2>1 DEF SearchedTaken, Handler
  <1>5. CASE req'[s] = req[s]
    <2>1. \A j \in 0 .. req[s].i : j \in 0 .. Candidates - 1
      BY <1>3 DEF Handler
    <2>2. req[s].pc # "idle" => \A j \in 0 .. req[s].i - 1 : Taken(req[s].base, j)'
      <3>1. \A j \in 0 .. req[s].i - 1 : j \in 0 .. Candidates - 1
        BY <1>3, <2>1 DEF Handler
      <3> QED BY <1>1, <1>3, <3>1, <1>5 DEF SearchedTaken
    <2>3. req[s].pc = "refused" => Taken(req[s].base, req[s].i)'
      <3>1. req[s].i \in 0 .. Candidates - 1
        BY <1>3 DEF Handler
      <3> QED BY <1>1, <1>3, <1>5, <3>1 DEF SearchedTaken
    <2> QED BY <1>3, <1>5, <2>2, <2>3 DEF SearchedTaken
  <1>6. CASE req'[s].pc = "idle"
    BY <1>6 DEF SearchedTaken
  <1> USE DEF TypeOK
  <1>7. ASSUME NEW r \in Requests, NEW b \in Bases, NEW published \in BOOLEAN,
               NEW inCategory \in BOOLEAN, CheckCategory(r, b, published, inCategory)
        PROVE  SearchedTaken(req[s])'
    <2>1. CASE s = r
      BY <1>7, <2>1 DEF CheckCategory, FirstCandidate, SearchedTaken
    <2> QED BY <1>5, <1>7, <2>1 DEF CheckCategory
  <1>8. ASSUME NEW r \in Requests, HandlerStep(r), s # r
        PROVE  SearchedTaken(req[s])'
    BY <1>5, <1>8 DEF HandlerStep, ProbeSlug, Refuse, InsertProduct, DelPages, Abort,
                      Goto, Finish
  <1>9. ASSUME Finish(s) PROVE SearchedTaken(req[s])'
    BY <1>6, <1>9 DEF Finish, Idle
  <1>10. ASSUME Goto(s, "insert") \/ Goto(s, "del"), req[s].pc # "idle"
         PROVE  SearchedTaken(req[s])'
    BY <1>4, <1>10, <1>3 DEF Goto, Handler
  <1>11. CASE ProbeSlug(s)
    <2>1. UNCHANGED product /\ req[s].pc = "probe"
      BY <1>11 DEF ProbeSlug
    <2>2. CASE Taken(req[s].base, req[s].i) /\ ~GivesUp(req[s].i)
                 /\ req' = [req EXCEPT ![s].i = @ + 1]
      <3>1. /\ req'[s].base = req[s].base /\ req'[s].pc = "probe"
            /\ req'[s].i = req[s].i + 1 /\ req'[s].i < Candidates
        BY <1>3, <2>1, <2>2 DEF Handler, GivesUp
      <3>2. \A j \in 0 .. req'[s].i - 1 : j \in 0 .. req[s].i - 1 \/ j = req[s].i
        BY <1>3, <3>1 DEF Handler
      <3> QED BY <1>3, <2>1, <2>2, <3>1, <3>2 DEF SearchedTaken, Taken
    <2>3. CASE Taken(req[s].base, req[s].i) /\ GivesUp(req[s].i) /\ Goto(s, "refused")
      <3>1. /\ req'[s].base = req[s].base /\ req'[s].pc = "refused"
            /\ req'[s].i = req[s].i /\ req[s].i = Candidates - 1
        BY <1>3, <2>3 DEF Handler, GivesUp, Goto
      <3> QED BY <1>3, <2>1, <2>3, <3>1 DEF SearchedTaken, Taken
    <2> QED BY <1>10, <1>11, <2>1, <2>2, <2>3 DEF ProbeSlug
  <1>12. ASSUME HandlerStep(s) PROVE SearchedTaken(req[s])'
    <2>1. CASE InsertProduct(s)
      BY <1>9, <1>10, <2>1 DEF InsertProduct
    <2> QED BY <1>9, <1>11, <1>12, <2>1 DEF HandlerStep, Refuse, DelPages, Abort
  <1>13. CASE UNCHANGED req
    BY <1>5, <1>13
  <1> QED
    <2>1. ASSUME NEW r \in Requests, HandlerStep(r) PROVE SearchedTaken(req[s])'
      <3>1. CASE r = s
        BY <1>12, <2>1, <3>1
      <3> QED BY <1>8, <2>1, <3>1
    <2>2. ASSUME ToggleCategory PROVE UNCHANGED req
      BY <2>2 DEF ToggleCategory
    <2>3. ASSUME NEW r \in Requests,
                 \E b \in Bases, published, inCategory \in BOOLEAN :
                    CheckCategory(r, b, published, inCategory)
          PROVE  SearchedTaken(req[s])'
      <3>1. PICK b \in Bases, published \in BOOLEAN, inCategory \in BOOLEAN :
                    CheckCategory(r, b, published, inCategory)
        BY <2>3
      <3> QED BY <1>7, <3>1
    <2> QED BY <1>13, <2>1, <2>2, <2>3, Zenon DEF Next

LEMMA IInvPreserved == IInv /\ [Next]_vars => IInv'
  <1> SUFFICES ASSUME IInv, [Next]_vars PROVE IInv' OBVIOUS
  <1>1. CASE Next
    BY <1>1, StepTyped, StepProbedTaken DEF IInv
  <1>2. CASE UNCHANGED vars
    BY <1>2 DEF vars, IInv, TypeOK, ProbedTaken, RefusedAtLast, Taken
  <1> QED BY <1>1, <1>2

LEMMA InvariantHolds == Spec => []IInv
  BY InitIInv, IInvPreserved, PTL DEF Spec

\* Types: an insert is always of a slug that a search ended with.
THEOREM TypeCorrect == Spec => []TypeOK
  <1>1. IInv => TypeOK BY DEF IInv
  <1> QED BY InvariantHolds, <1>1, PTL

\* Whatever creates race, a search has every earlier candidate behind it taken.
THEOREM SearchesSeeTaken == Spec => []ProbedTaken
  <1>1. IInv => ProbedTaken BY DEF IInv
  <1> QED BY InvariantHolds, <1>1, PTL

\* A name is refused for want of a slug only when all its candidates are in use.
THEOREM RefusalsJustified == Spec => []RefusedOnlyWhenFull
  <1>1. ASSUME IInv PROVE RefusedOnlyWhenFull
    <2> SUFFICES ASSUME NEW r \in Requests, req[r].pc = "refused",
                        NEW i \in 0 .. Candidates - 1
                 PROVE  Taken(req[r].base, i)
      BY DEF RefusedOnlyWhenFull
    <2>1. i \in 0 .. req[r].i - 1 \/ i = req[r].i
      BY <1>1 DEF IInv, RefusedAtLast
    <2> QED BY <1>1, <2>1 DEF IInv, RefusedAtLast, ProbedTaken
  <1> QED BY InvariantHolds, <1>1, PTL

-----------------------------------------------------------------------------
(* The suffixes of a name.  A slug comes into use by an insert only, whose   *)
(* search has the candidates before it behind it.                            *)

LEMMA NewSlugsAreInserted ==
  ASSUME IInv, Next, NEW s \in Slugs, product[s] = None, product'[s] # None
  PROVE  \E r \in Requests : InsertProduct(r) /\ s = Candidate[req[r].base][req[r].i]
  <1>1. ASSUME NEW r \in Requests, InsertProduct(r)
        PROVE  s = Candidate[req[r].base][req[r].i]
    BY <1>1 DEF InsertProduct, IInv, TypeOK
  <1>2. UNCHANGED product => FALSE
    OBVIOUS
  <1> QED BY <1>1, <1>2 DEF Next, HandlerStep, CheckCategory, ProbeSlug, Refuse,
                                  DelPages, Abort, ToggleCategory

LEMMA StepNoGaps ==
  ASSUME IInv, NoGaps, Next
  PROVE  NoGaps'
  <1> SUFFICES ASSUME NEW b \in Bases, NEW i \in 1 .. Candidates - 1, Taken(b, i)',
                      \A c \in Bases \ {b} : \A j \in 0 .. Candidates - 1 :
                        Candidate[c][j] # Candidate[b][i]
               PROVE  Taken(b, i - 1)'
    BY DEF NoGaps
  <1>1. i \in 0 .. Candidates - 1 /\ i - 1 \in 0 .. Candidates - 1
    OBVIOUS
  <1>2. Taken(b, i - 1) => Taken(b, i - 1)'
    BY <1>1, TableOnlyGrows, TakenStays DEF IInv
  <1>3. CASE Taken(b, i)
    BY <1>2, <1>3 DEF NoGaps
  <1>4. CASE ~Taken(b, i)
    <2>1. PICK r \in Requests :
            InsertProduct(r) /\ Candidate[b][i] = Candidate[req[r].base][req[r].i]
      BY <1>1, <1>4, NewSlugsAreInserted DEF Taken
    <2>2. req[r].base \in Bases /\ req[r].i \in 0 .. Candidates - 1
      BY <2>1 DEF InsertProduct, IInv, TypeOK, ProbedTaken, Handler
    <2>3. req[r].base = b /\ req[r].i = i
      BY <1>1, <2>1, <2>2
    <2>4. Taken(b, i - 1)
      <3>1. \A j \in 0 .. req[r].i - 1 : Taken(req[r].base, j)
        BY <2>1 DEF InsertProduct, IInv, ProbedTaken
      <3>2. i - 1 \in 0 .. req[r].i - 1
        BY <1>1, <2>3
      <3> QED BY <2>3, <3>1, <3>2 DEF Taken
    <2> QED BY <1>2, <2>4
  <1> QED BY <1>3, <1>4

\* The suffixes in use of a name that shares no slug with another have no gaps,
\* although creates of that name race between search and insert.
THEOREM SuffixesHaveNoGaps == Spec => []NoGaps
  <1>1. Init => NoGaps
    BY DEF Init, NoGaps, Taken
  <1>2. IInv /\ NoGaps /\ [Next]_vars => NoGaps'
    <2>1. UNCHANGED vars /\ NoGaps => NoGaps'
      BY DEF vars, NoGaps, Taken
    <2> QED BY <2>1, StepNoGaps
  <1> QED BY InvariantHolds, <1>1, <1>2, PTL DEF Spec

\* A create that loses the race for a slug leaves the winner's row alone, and
\* nothing else changes a row.
THEOREM RowsAreKept == Spec => RowsKept
  <1> DEFINE Kept == \A s \in Slugs : product[s] # None => product'[s] = product[s]
  <1>1. ASSUME IInv, Next PROVE Kept
    <2> SUFFICES ASSUME NEW s \in Slugs, product[s] # None
                 PROVE  product'[s] = product[s]
      OBVIOUS
    <2>1. ASSUME NEW r \in Requests, InsertProduct(r) PROVE product'[s] = product[s]
      BY <1>1, <2>1 DEF IInv, TypeOK, InsertProduct, InsertConflicts, Taken
    <2> QED BY <1>1, <2>1 DEF Next, HandlerStep, CheckCategory, ProbeSlug, Refuse,
                              DelPages, Abort, ToggleCategory
  <1>2. IInv /\ [Next]_vars => [Kept]_vars
    BY <1>1
  <1> QED BY InvariantHolds, <1>2, PTL DEF Spec, RowsKept

-----------------------------------------------------------------------------
(* Creates look atomic: the insert of a slug and the last probe of a refused *)
(* search are the instants at which they take effect.                        *)

Client(q) == [state |-> ClientState(q.pc), base |-> q.base, published |-> q.published]
clients == [r \in Requests |-> Client(req[r])]

\* A step that replaces the handler of one slot is a step of one client.
LEMMA OneClientMoves ==
  ASSUME NEW r \in Requests, NEW q, TypeOK, req' = [req EXCEPT ![r] = q]
  PROVE  clients' = [clients EXCEPT ![r] = Client(q)]
  BY DEF clients, Client, TypeOK

LEMMA ClientOfHandler ==
  ASSUME NEW r \in Requests
  PROVE  /\ clients[r] = Client(req[r])
         /\ clients[r].state = ClientState(req[r].pc)
         /\ clients[r].base = req[r].base /\ clients[r].published = req[r].published
  BY DEF clients, Client

LEMMA ClientMoved ==
  ASSUME NEW q \in Handler, NEW pc \in {"probe", "insert", "refused", "del"}
  PROVE  /\ Client([q EXCEPT !.pc = pc]) = [Client(q) EXCEPT !.state = ClientState(pc)]
         /\ ClientState("idle") = "idle" /\ ClientState("refused") = "refused"
         /\ ClientState("probe") = "asked" /\ ClientState("insert") = "asked"
         /\ ClientState("del") = "created"
  BY DEF Client, ClientState, Handler

LEMMA ClientOfIdle == Client(Idle) = [state |-> "idle", base |-> None, published |-> FALSE]
  BY DEF Client, Idle, ClientState

LEMMA FinishEnds ==
  ASSUME IInv, NEW r \in Requests, req[r].pc # "idle", Finish(r), UNCHANGED product
  PROVE  Atomic!End(r)
  <1>1. clients' = [clients EXCEPT ![r] = Client(Idle)]
    BY OneClientMoves DEF IInv, Finish
  <1>2. clients[r].state # "idle"
    <2>1. req[r] \in Handler
      BY DEF IInv, TypeOK
    <2> QED BY <2>1, ClientOfHandler DEF ClientState, Handler
  <1> QED BY <1>1, <1>2, ClientOfIdle DEF Atomic!End, Atomic!NotWaiting, clients, Client

LEMMA ProbeIsStep ==
  ASSUME IInv, NEW r \in Requests, ProbeSlug(r)
  PROVE  Atomic!Next \/ UNCHANGED <<product, clients>>
  <1>1. req[r] \in Handler /\ TypeOK /\ UNCHANGED product /\ req[r].pc = "probe"
    BY DEF IInv, TypeOK, ProbeSlug
  <1>2. CASE Goto(r, "insert")
    <2>1. clients' = [clients EXCEPT ![r] = Client([req[r] EXCEPT !.pc = "insert"])]
      BY <1>1, <1>2, OneClientMoves DEF Goto
    <2>2. Client([req[r] EXCEPT !.pc = "insert"]) = Client(req[r])
      BY <1>1 DEF Client, ClientState, Handler
    <2> QED BY <1>1, <2>1, <2>2 DEF clients
  <1>3. CASE req' = [req EXCEPT ![r].i = @ + 1]
    <2>1. clients' = [clients EXCEPT ![r] = Client([req[r] EXCEPT !.i = @ + 1])]
      BY <1>1, <1>3, OneClientMoves
    <2>2. Client([req[r] EXCEPT !.i = @ + 1]) = Client(req[r])
      BY <1>1 DEF Client, ClientState, Handler
    <2> QED BY <1>1, <2>1, <2>2 DEF clients
  <1>4. CASE Taken(req[r].base, req[r].i) /\ GivesUp(req[r].i) /\ Goto(r, "refused")
    <2>1. clients' = [clients EXCEPT ![r] = Client([req[r] EXCEPT !.pc = "refused"])]
      BY <1>1, <1>4, OneClientMoves DEF Goto
    <2>2. clients' = [clients EXCEPT ![r].state = "refused"]
      BY <1>1, <2>1, ClientMoved, ClientOfHandler
    <2>3. ASSUME NEW i \in 0 .. Candidates - 1 PROVE Taken(req[r].base, i)
      <3>1. i \in 0 .. req[r].i - 1 \/ i = req[r].i
        BY <1>1, <1>4 DEF GivesUp, Handler
      <3> QED BY <1>1, <1>4, <3>1 DEF IInv, ProbedTaken
    <2>4. clients[r].state = "asked" /\ clients[r].base = req[r].base
      BY <1>1, ClientOfHandler, ClientMoved
    <2>5. Atomic!Refuse(r)
      BY <1>1, <2>2, <2>3, <2>4 DEF Atomic!Refuse, Atomic!IsFree, clients, Client, Taken
    <2> QED BY <2>5 DEF Atomic!Next
  <1> QED BY <1>1, <1>2, <1>3, <1>4 DEF ProbeSlug

LEMMA InsertIsStep ==
  ASSUME IInv, NEW r \in Requests, InsertProduct(r)
  PROVE  Atomic!Next
  <1> DEFINE b == req[r].base
             i == req[r].i
  <1>1. /\ req[r] \in Handler /\ TypeOK /\ req[r].pc = "insert" /\ b \in Bases
        /\ i \in 0 .. Candidates - 1 /\ \A j \in 0 .. i - 1 : Taken(b, j)
    BY DEF IInv, TypeOK, ProbedTaken, InsertProduct, Handler
  <1>2. CASE InsertConflicts(b, i)
    BY <1>1, <1>2, FinishEnds DEF InsertProduct, Atomic!Next
  <1>3. CASE ~InsertConflicts(b, i)
    <2>1. /\ product' = [product EXCEPT ![Candidate[b][i]] =
                           [published |-> req[r].published]]
          /\ Goto(r, "del")
      BY <1>3 DEF InsertProduct
    <2>2. clients' = [clients EXCEPT ![r] = Client([req[r] EXCEPT !.pc = "del"])]
      BY <1>1, <2>1, OneClientMoves DEF Goto
    <2>3. clients' = [clients EXCEPT ![r].state = "created"]
      BY <1>1, <2>2, ClientMoved, ClientOfHandler
    <2>4. /\ clients[r].state = "asked" /\ clients[r].base = b
          /\ clients[r].published = req[r].published
      BY <1>1, ClientOfHandler, ClientMoved
    <2>5. product[Candidate[b][i]] = None /\ \A j \in 0 .. i - 1 : product[Candidate[b][j]] # None
      BY <1>1, <1>3 DEF InsertConflicts, Taken
    <2>6. PICK k \in 0 .. Candidates - 1 : k = i
      BY <1>1
    <2> HIDE DEF b, i
    <2>7. Atomic!Create(r, k)
      BY <2>1, <2>3, <2>4, <2>5, <2>6
         DEF Atomic!Create, Atomic!FirstFree, Atomic!IsFree, clients, Client
    <2> QED BY <2>7, Zenon DEF Atomic!Next
  <1> QED BY <1>2, <1>3

LEMMA StepIsAtomic ==
  ASSUME IInv, Next
  PROVE  Atomic!Next \/ UNCHANGED <<product, clients>>
  <1>1. ASSUME NEW r \in Requests, NEW b \in Bases, NEW published \in BOOLEAN,
               NEW inCategory \in BOOLEAN, CheckCategory(r, b, published, inCategory)
        PROVE  Atomic!Next
    <2> DEFINE q == [pc |-> "probe", base |-> b, i |-> FirstCandidate, published |-> published]
    <2>1. clients' = [clients EXCEPT ![r] = Client(q)] /\ UNCHANGED product
      BY <1>1, OneClientMoves DEF CheckCategory, IInv
    <2>2. Client(q) = [state |-> "asked", base |-> b, published |-> published]
      BY DEF Client, ClientState
    <2>3. clients[r].state = "idle"
      BY <1>1, ClientOfHandler DEF CheckCategory, ClientState
    <2> HIDE DEF q
    <2>4. Atomic!Ask(r, b, published)
      BY <2>1, <2>2, <2>3 DEF Atomic!Ask, Atomic!Waiting, clients, Client
    <2> QED BY <2>4 DEF Atomic!Next
  <1>2. ASSUME NEW r \in Requests, HandlerStep(r)
        PROVE  Atomic!Next \/ UNCHANGED <<product, clients>>
    <2>1. CASE Refuse(r) \/ DelPages(r) \/ Abort(r)
      BY <2>1, FinishEnds DEF Refuse, DelPages, Abort, Atomic!Next
    <2> QED BY <1>2, <2>1, ProbeIsStep, InsertIsStep DEF HandlerStep
  <1>3. CASE UNCHANGED <<product, req>>
    BY <1>3 DEF clients
  <1>4. ASSUME NEW r \in Requests,
               \E b \in Bases, published, inCategory \in BOOLEAN :
                  CheckCategory(r, b, published, inCategory)
        PROVE  Atomic!Next
    <2>1. PICK b \in Bases, published \in BOOLEAN, inCategory \in BOOLEAN :
                  CheckCategory(r, b, published, inCategory)
      BY <1>4
    <2> QED BY <1>1, <2>1
  <1> QED BY <1>2, <1>3, <1>4 DEF Next, ToggleCategory

\* Every create takes effect at one instant, although it searches its slug in
\* many queries and inserts later: Product implements Catalogue.
THEOREM CreatesLookAtomic == Spec => CreatesAreAtomic
  <1>1. Init => Atomic!Init
    BY ClientOfIdle DEF Init, Atomic!Init, Atomic!NotWaiting, Client
  <1>2. IInv /\ [Next]_vars => [Atomic!Next]_Atomic!vars
    <2>1. UNCHANGED vars => UNCHANGED <<product, clients>>
      BY DEF vars, clients
    <2>2. UNCHANGED <<product, clients>> => UNCHANGED Atomic!vars
      BY DEF Atomic!vars, clients, Client
    <2> QED BY <2>1, <2>2, StepIsAtomic
  <1> QED BY InvariantHolds, <1>1, <1>2, PTL DEF Spec, CreatesAreAtomic, Atomic!Spec
=============================================================================
