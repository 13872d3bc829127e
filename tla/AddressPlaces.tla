---------------------------- MODULE AddressPlaces ----------------------------
(***************************************************************************)
(* The address book with the places of its addresses: AddressService takes  *)
(* the codes of a province and a ward, asks VietnamLocationService about    *)
(* them, and stores their names.  Every step is one of AddressBook's, one   *)
(* of Locations', or both are left alone.                                   *)
(***************************************************************************)
EXTENDS AddressBook, Locations

VARIABLES place,   \* place[a]: the names in row a, or None
          asked    \* asked[r]: the names handler r is to store, or None

book == <<owner, isDefault, req>>
places == <<owner, isDefault, req, place, asked, server, provinceIndex, wardIndex, wardsByProvince>>

Names(p, w) == <<FullName[p], FullName[w]>>
Places == {Names(ParentCode[w], w) : w \in Wards}
ASSUME NoneIsNoPlace == None \notin Places

PlacesInit == /\ Init /\ LocationsInit
              /\ place = [a \in AddressIds |-> None]
              /\ asked = [r \in Requests |-> None]

-----------------------------------------------------------------------------
(* Requests that reach the handlers *)

Ask(r, names) == asked' = [asked EXCEPT ![r] = names] /\ UNCHANGED place

CreateUserAddress(r, u, flag) ==
  \E p \in Provinces, w \in Wards :
    CreateCount(r, u, flag) /\ IsValidLocation(p, w) /\ Ask(r, Names(p, w))

\* Both codes are given, or neither.
UpdateUserAddress(r, u, a, flag) ==
  /\ UpdateFind(r, u, a, flag)
  /\ \/ Ask(r, None)
     \/ \E p \in Provinces, w \in Wards : IsValidLocation(p, w) /\ Ask(r, Names(p, w))

DeleteUserAddress(r, u, a) == DeleteFind(r, u, a) /\ Ask(r, None)

Arrive(r) ==
  \E u \in Users :
    \/ \E flag \in Flags : CreateUserAddress(r, u, flag)
    \/ \E a \in AddressIds, flag \in Flags : UpdateUserAddress(r, u, a, flag)
    \/ \E a \in AddressIds : DeleteUserAddress(r, u, a)

-----------------------------------------------------------------------------
(* Handlers under way *)

Forget(r) == asked' = [asked EXCEPT ![r] = IF req'[r].pc = "idle" THEN None ELSE @]

Insert(r, a) == CreateInsert(r, a) /\ place' = [place EXCEPT ![a] = asked[r]]

Commit(r) ==
  /\ UpdateCommit(r)
  /\ place' = IF RowsPresent(req[r]) /\ asked[r] # None
                THEN [place EXCEPT ![req[r].id] = asked[r]] ELSE place

Delete(r) ==
  /\ DeleteCommit(r)
  /\ place' = IF RowsPresent(req[r]) THEN [place EXCEPT ![req[r].id] = None] ELSE place

ChooseSuccessor(r) == (UpdateFallback(r) \/ DeleteFallback(r)) /\ UNCHANGED place

Continue(r) ==
  /\ (\E a \in AddressIds : Insert(r, a)) \/ Commit(r) \/ Delete(r) \/ ChooseSuccessor(r)
  /\ Forget(r)

\* Handlers of a server that is down do nothing but end.
GiveUp(r) == Abort(r) /\ Forget(r) /\ UNCHANGED place

PlacesNext ==
  \/ /\ server = "listening"
     /\ \E r \in Requests : Arrive(r) \/ Continue(r)
     /\ UNCHANGED locations
  \/ (\E r \in Requests : GiveUp(r)) /\ UNCHANGED locations
  \/ /\ \/ Boot /\ \A r \in Requests : req[r].pc = "idle"
        \/ LoadData
        \/ Stop
     /\ UNCHANGED <<book, place, asked>>

PlacesSpec == PlacesInit /\ [][PlacesNext]_places

-----------------------------------------------------------------------------
Offered == UNION {wardsByProvince[p] : p \in Provinces}

\* The two names of an address, whatever requests and restarts changed, are
\* those of exactly one ward, in the list of wards a client is offered:
\* wards of different provinces share names, and only the pair tells them apart.
PlacesNameOneWard ==
  \A a \in Live : \E w \in Wards :
    /\ {v \in Wards : Names(ParentCode[v], v) = place[a]} = {w}
    /\ server = "listening" => w \in Offered
=============================================================================
