------------------------- MODULE AddressPlacesProofs -------------------------
(* Theorems about AddressPlaces, for any provinces and wards that satisfy   *)
(* FilesAssumption, and any number of requests in flight.                   *)
EXTENDS AddressPlaces, AddressBookProofs

USE FilesAssumption, NoneIsNoPlace

\* The server's requests are requests of AddressBook: what is proved of its
\* specification holds of this one too, restarts included.
THEOREM BookIsInside == PlacesSpec => Spec
  <1>1. PlacesInit => Init
    BY DEF PlacesInit
  <1>2. [PlacesNext]_places => [Next]_vars
    <2> SUFFICES ASSUME [PlacesNext]_places PROVE [Next]_vars
      OBVIOUS
    <2>1. ASSUME NEW r \in Requests, Arrive(r) PROVE Next
      BY <2>1 DEF Arrive, CreateUserAddress, UpdateUserAddress, DeleteUserAddress, Next
    <2>2. ASSUME NEW r \in Requests, Continue(r) PROVE Next
      BY <2>2 DEF Continue, Insert, Commit, Delete, ChooseSuccessor, Next
    <2>3. ASSUME NEW r \in Requests, GiveUp(r) PROVE Next
      BY <2>3 DEF GiveUp, Next
    <2>4. CASE UNCHANGED book
      BY <2>4 DEF book, vars
    <2>5. CASE UNCHANGED places
      BY <2>5 DEF places, vars
    <2> QED BY <2>1, <2>2, <2>3, <2>4, <2>5 DEF PlacesNext
  <1> QED BY <1>1, <1>2, PTL DEF PlacesSpec, Spec

-----------------------------------------------------------------------------
(* The inductive invariant: names are checked before they are stored. *)

Loaded == server = "listening" => /\ provinceIndex = Provinces /\ wardIndex = Wards
                                  /\ wardsByProvince = [p \in Provinces |->
                                                          {w \in Wards : ParentCode[w] = p}]

NamesChecked ==
  /\ asked \in [Requests -> Places \cup {None}]
  /\ place \in [AddressIds -> Places \cup {None}]
  /\ \A r \in Requests : req[r].pc = "insert" => asked[r] \in Places
  /\ \A a \in AddressIds : owner[a] # None => place[a] \in Places

PInv == Loaded /\ NamesChecked

LEMMA ValidIsPlace ==
  ASSUME NEW p \in Provinces, NEW w \in Wards, IsValidLocation(p, w)
  PROVE  Names(p, w) \in Places
  BY DEF IsValidLocation, Places

\* What a step of one slot must leave for the invariant to hold.
LEMMA SlotStep ==
  ASSUME NEW r \in Requests, NamesChecked,
         NEW q, req' = [req EXCEPT ![r] = q], req \in [Requests -> Request],
         NEW names \in Places \cup {None}, asked' = [asked EXCEPT ![r] = names],
         q.pc = "insert" => names \in Places,
         place' \in [AddressIds -> Places \cup {None}],
         \A a \in AddressIds : owner'[a] # None => place'[a] \in Places
  PROVE  NamesChecked'
  <1>1. /\ asked' \in [Requests -> Places \cup {None}]
        /\ req'[r] = q /\ asked'[r] = names
        /\ \A t \in Requests : t # r => req'[t] = req[t] /\ asked'[t] = asked[t]
    BY DEF NamesChecked
  <1>2. \A t \in Requests : req'[t].pc = "insert" => asked'[t] \in Places
    BY <1>1 DEF NamesChecked
  <1> QED BY <1>1, <1>2 DEF NamesChecked

LEMMA ArriveChecked ==
  ASSUME NEW r \in Requests, TypeOK, NamesChecked, Arrive(r)
  PROVE  NamesChecked'
  <1>1. UNCHANGED <<owner, place>>
    BY DEF Arrive, CreateUserAddress, UpdateUserAddress, DeleteUserAddress, Ask,
           CreateCount, UpdateFind, DeleteFind
  <1>2. /\ place' \in [AddressIds -> Places \cup {None}]
        /\ \A a \in AddressIds : owner'[a] # None => place'[a] \in Places
        /\ req \in [Requests -> Request]
    BY <1>1 DEF NamesChecked, TypeOK
  <1>3. ASSUME NEW u \in Users, NEW flag \in Flags, CreateUserAddress(r, u, flag)
        PROVE  NamesChecked'
    <2>1. PICK p \in Provinces, w \in Wards :
            CreateCount(r, u, flag) /\ IsValidLocation(p, w) /\ Ask(r, Names(p, w))
      BY <1>3 DEF CreateUserAddress
    <2>2. Names(p, w) \in Places /\ asked' = [asked EXCEPT ![r] = Names(p, w)]
      BY <2>1, ValidIsPlace DEF Ask
    <2>3. PICK q : req' = [req EXCEPT ![r] = q]
      BY <2>1 DEF CreateCount
    <2> QED BY <1>2, <2>2, <2>3, SlotStep
  <1>4. ASSUME NEW u \in Users, NEW a \in AddressIds, NEW flag \in Flags,
               UpdateUserAddress(r, u, a, flag)
        PROVE  NamesChecked'
    <2>1. PICK names \in Places \cup {None} : asked' = [asked EXCEPT ![r] = names]
      BY <1>4, ValidIsPlace DEF UpdateUserAddress, Ask
    <2>2. PICK q : req' = [req EXCEPT ![r] = q] /\ q.pc \in {"fallback", "commit"}
      <3> DEFINE q == [Idle EXCEPT !.op = "update", !.user = u, !.id = a, !.flag = flag,
                         !.pc = IF flag = "clear" /\ a \in isDefault
                                  THEN "fallback" ELSE "commit"]
      <3>1. q.pc \in {"fallback", "commit"}
        BY DEF Idle
      <3>2. req' = [req EXCEPT ![r] = q]
        BY <1>4 DEF UpdateUserAddress, UpdateFind
      <3> QED BY <3>1, <3>2
    <2> QED BY <1>2, <2>1, <2>2, SlotStep
  <1>5. ASSUME NEW u \in Users, NEW a \in AddressIds, DeleteUserAddress(r, u, a)
        PROVE  NamesChecked'
    <2>1. asked' = [asked EXCEPT ![r] = None]
      BY <1>5 DEF DeleteUserAddress, Ask
    <2>2. PICK q : req' = [req EXCEPT ![r] = q] /\ q.pc \in {"fallback", "commit"}
      <3> DEFINE q == [Idle EXCEPT !.op = "delete", !.user = u, !.id = a,
                         !.pc = IF a \in isDefault THEN "fallback" ELSE "commit"]
      <3>1. q.pc \in {"fallback", "commit"}
        BY DEF Idle
      <3>2. req' = [req EXCEPT ![r] = q]
        BY <1>5 DEF DeleteUserAddress, DeleteFind
      <3> QED BY <3>1, <3>2
    <2> QED BY <1>2, <2>1, <2>2, SlotStep
  <1> QED BY <1>3, <1>4, <1>5 DEF Arrive

LEMMA IdleStays == Idle.pc = "idle"
  BY DEF Idle

\* A handler under way never turns into a create, and forgets when it ends.
LEMMA ContinueSlot ==
  ASSUME NEW r \in Requests, TypeOK, NamesChecked, Forget(r),
         \/ Finish(r)
         \/ \E f \in AddressIds : req' = [req EXCEPT ![r] = [req[r] EXCEPT !.pc = "commit",
                                                                           !.fallback = f]]
         \/ req' = [req EXCEPT ![r] = [req[r] EXCEPT !.pc = "commit"]],
         place' \in [AddressIds -> Places \cup {None}],
         \A a \in AddressIds : owner'[a] # None => place'[a] \in Places
  PROVE  NamesChecked'
  <1>1. req \in [Requests -> Request] /\ req[r] \in Request
    BY DEF TypeOK
  <1>2. PICK q : req' = [req EXCEPT ![r] = q] /\ q.pc \in {"idle", "commit"}
    <2>1. CASE Finish(r)
      BY <2>1, IdleStays DEF Finish
    <2>2. ASSUME NEW f \in AddressIds,
                 req' = [req EXCEPT ![r] = [req[r] EXCEPT !.pc = "commit", !.fallback = f]]
          PROVE  \E q : req' = [req EXCEPT ![r] = q] /\ q.pc \in {"idle", "commit"}
      <3> DEFINE q == [req[r] EXCEPT !.pc = "commit", !.fallback = f]
      <3>1. q.pc = "commit"
        BY <1>1 DEF Request
      <3> QED BY <2>2, <3>1
    <2>3. CASE req' = [req EXCEPT ![r] = [req[r] EXCEPT !.pc = "commit"]]
      <3> DEFINE q == [req[r] EXCEPT !.pc = "commit"]
      <3>1. q.pc = "commit"
        BY <1>1 DEF Request
      <3> QED BY <2>3, <3>1
    <2> QED BY <2>1, <2>2, <2>3
  <1>3. PICK names \in Places \cup {None} : asked' = [asked EXCEPT ![r] = names]
    BY DEF Forget, NamesChecked
  <1> QED BY <1>1, <1>2, <1>3, SlotStep

LEMMA ContinueChecked ==
  ASSUME NEW r \in Requests, TypeOK, NamesChecked, Continue(r)
  PROVE  NamesChecked'
  <1>1. owner \in [AddressIds -> Users \cup {None}] /\ Forget(r)
    BY DEF TypeOK, Continue
  <1>2. ASSUME NEW a \in AddressIds, Insert(r, a) PROVE NamesChecked'
    <2>1. /\ asked[r] \in Places /\ place' = [place EXCEPT ![a] = asked[r]]
          /\ owner' = [owner EXCEPT ![a] = req[r].user] /\ Finish(r)
      BY <1>2 DEF Insert, CreateInsert, NamesChecked
    <2>2. place' \in [AddressIds -> Places \cup {None}] /\ place'[a] \in Places
      BY <2>1 DEF NamesChecked
    <2>3. \A b \in AddressIds : b # a => owner'[b] = owner[b] /\ place'[b] = place[b]
      BY <1>1, <2>1 DEF NamesChecked
    <2>4. \A b \in AddressIds : owner'[b] # None => place'[b] \in Places
      BY <2>2, <2>3 DEF NamesChecked
    <2> QED BY <1>1, <2>1, <2>2, <2>4, ContinueSlot
  <1>3. CASE Commit(r)
    <2>1. owner' = owner /\ Finish(r)
      BY <1>3 DEF Commit, UpdateCommit
    <2>2. \/ place' = place
          \/ asked[r] \in Places /\ place' = [place EXCEPT ![req[r].id] = asked[r]]
      BY <1>3 DEF Commit, NamesChecked
    <2>3. place' \in [AddressIds -> Places \cup {None}]
      BY <2>2 DEF NamesChecked
    <2>4. \A b \in AddressIds : owner'[b] # None => place'[b] \in Places
      BY <2>1, <2>2 DEF NamesChecked
    <2> QED BY <1>1, <2>1, <2>3, <2>4, ContinueSlot
  <1>4. CASE Delete(r)
    <2>1. /\ Finish(r)
          /\ \/ UNCHANGED <<owner, place>>
             \/ /\ owner' = [owner EXCEPT ![req[r].id] = None]
                /\ place' = [place EXCEPT ![req[r].id] = None]
      BY <1>4 DEF Delete, DeleteCommit
    <2>2. place' \in [AddressIds -> Places \cup {None}]
      BY <2>1 DEF NamesChecked
    <2>3. \A b \in AddressIds : owner'[b] # None => owner[b] # None /\ place'[b] = place[b]
      BY <1>1, <2>1 DEF NamesChecked
    <2>4. \A b \in AddressIds : owner'[b] # None => place'[b] \in Places
      BY <2>3 DEF NamesChecked
    <2> QED BY <1>1, <2>1, <2>2, <2>4, ContinueSlot
  <1>5. CASE ChooseSuccessor(r)
    <2>1. UNCHANGED <<owner, place>>
      BY <1>5 DEF ChooseSuccessor, UpdateFallback, DeleteFallback
    <2>2. \/ Finish(r)
          \/ \E f \in AddressIds : req' = [req EXCEPT ![r] = [req[r] EXCEPT !.pc = "commit",
                                                                            !.fallback = f]]
          \/ req' = [req EXCEPT ![r] = [req[r] EXCEPT !.pc = "commit"]]
      <3>1. CASE UpdateFallback(r)
        BY <3>1 DEF UpdateFallback, Book
      <3>2. CASE DeleteFallback(r)
        <4>1. CASE FallbackCandidates(req[r]) = {}
          BY <3>2, <4>1 DEF DeleteFallback
        <4>2. ASSUME NEW f \in FallbackCandidates(req[r]),
                     req' = [req EXCEPT ![r] = [[req[r] EXCEPT !.pc = "commit"] EXCEPT !.fallback = f]]
              PROVE  f \in AddressIds /\ [[req[r] EXCEPT !.pc = "commit"] EXCEPT !.fallback = f]
                                           = [req[r] EXCEPT !.pc = "commit", !.fallback = f]
          BY DEF FallbackCandidates, Live
        <4> QED BY <3>2, <4>1, <4>2 DEF DeleteFallback
      <3> QED BY <1>5, <3>1, <3>2 DEF ChooseSuccessor
    <2>3. /\ place' \in [AddressIds -> Places \cup {None}]
          /\ \A b \in AddressIds : owner'[b] # None => place'[b] \in Places
      BY <2>1 DEF NamesChecked
    <2> QED BY <1>1, <2>2, <2>3, ContinueSlot
  <1> QED BY <1>2, <1>3, <1>4, <1>5 DEF Continue

LEMMA GiveUpChecked ==
  ASSUME NEW r \in Requests, TypeOK, NamesChecked, GiveUp(r)
  PROVE  NamesChecked'
  <1>1. Finish(r) /\ Forget(r) /\ UNCHANGED <<owner, place>>
    BY DEF GiveUp, Abort
  <1>2. /\ place' \in [AddressIds -> Places \cup {None}]
        /\ \A b \in AddressIds : owner'[b] # None => place'[b] \in Places
    BY <1>1 DEF NamesChecked
  <1> QED BY <1>1, <1>2, ContinueSlot

LEMMA PInvPreserved == TypeOK /\ PInv /\ [PlacesNext]_places => PInv'
  <1> SUFFICES ASSUME TypeOK, Loaded, NamesChecked, [PlacesNext]_places
               PROVE  Loaded' /\ NamesChecked'
    BY DEF PInv
  <1>1. CASE (\E r \in Requests : Arrive(r) \/ Continue(r) \/ GiveUp(r)) /\ UNCHANGED locations
    <2>1. Loaded'
      BY <1>1 DEF Loaded, locations
    <2> QED BY <1>1, <2>1, ArriveChecked, ContinueChecked, GiveUpChecked
  <1>2. CASE (Boot \/ LoadData \/ Stop) /\ UNCHANGED <<book, place, asked>>
    <2>1. Loaded'
      BY <1>2 DEF Loaded, Boot, LoadData, Stop
    <2>2. NamesChecked'
      BY <1>2 DEF NamesChecked, book
    <2> QED BY <2>1, <2>2
  <1>3. CASE UNCHANGED places
    BY <1>3 DEF places, Loaded, NamesChecked
  <1> QED BY <1>1, <1>2, <1>3 DEF PlacesNext

\* Every address names exactly one ward, and one that clients are offered,
\* whatever requests race and wherever the server restarts.
THEOREM AddressesNameOneWard == PlacesSpec => []PlacesNameOneWard
  <1>1. PlacesInit => PInv
    <2> SUFFICES ASSUME PlacesInit PROVE Loaded /\ NamesChecked
      BY DEF PInv
    <2>1. Loaded
      BY DEF PlacesInit, LocationsInit, Loaded
    <2>2. \A r \in Requests : req[r].pc = "idle"
      BY IdleStays DEF PlacesInit, Init
    <2> QED BY <2>1, <2>2 DEF PlacesInit, Init, NamesChecked
  <1>2. PInv => PlacesNameOneWard
    <2> SUFFICES ASSUME Loaded, NamesChecked, NEW a \in Live
                 PROVE  \E w \in Wards :
                          /\ {v \in Wards : Names(ParentCode[v], v) = place[a]} = {w}
                          /\ server = "listening" => w \in Offered
      BY DEF PInv, PlacesNameOneWard
    <2>1. place[a] \in Places
      BY DEF Live, NamesChecked
    <2>2. PICK w \in Wards : place[a] = Names(ParentCode[w], w)
      BY <2>1 DEF Places
    <2>3. ASSUME NEW v \in Wards, Names(ParentCode[v], v) = Names(ParentCode[w], w)
          PROVE  v = w
      <3>1. FullName[ParentCode[v]] = FullName[ParentCode[w]] /\ FullName[v] = FullName[w]
        BY <2>3 DEF Names
      <3> QED BY <3>1
    <2>4. server = "listening" => w \in Offered
      <3> SUFFICES ASSUME server = "listening" PROVE w \in Offered
        OBVIOUS
      <3>1. ParentCode[w] \in Provinces /\ w \in wardsByProvince[ParentCode[w]]
        BY DEF Loaded
      <3> QED BY <3>1 DEF Offered
    <2> QED BY <2>2, <2>3, <2>4
  <1>3. PlacesSpec => []TypeOK
    BY BookIsInside, TypeCorrect
  <1> QED BY <1>1, <1>2, <1>3, PInvPreserved, PTL DEF PlacesSpec
=============================================================================
