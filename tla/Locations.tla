------------------------------ MODULE Locations ------------------------------
(***************************************************************************)
(* VietnamLocationService (src/src/vietnam-location): two files read when   *)
(* the server starts, before it takes requests, into indexes that answer    *)
(* synchronously until it stops.                                            *)
(***************************************************************************)
CONSTANTS Provinces, Wards,    \* the codes in province.json and ward.json
          ParentCode,          \* the province of a ward
          FullName             \* name_with_type of provinces and wards

\* Of the files: wards of one province have different names.
ASSUME FilesAssumption ==
  /\ ParentCode \in [Wards -> Provinces]
  /\ \A p, q \in Provinces : FullName[p] = FullName[q] => p = q
  /\ \A v, w \in Wards :
       ParentCode[v] = ParentCode[w] /\ FullName[v] = FullName[w] => v = w

VARIABLES server,           \* "down", "loading" or "listening"
          provinceIndex,    \* the codes the service knows
          wardIndex,
          wardsByProvince   \* wardsByProvince[p]: what a client may choose from

locations == <<server, provinceIndex, wardIndex, wardsByProvince>>

NoWards == [p \in Provinces |-> {}]

LocationsInit == /\ server = "down" /\ provinceIndex = {} /\ wardIndex = {}
                 /\ wardsByProvince = NoWards

\* A new process, with empty maps.
Boot == /\ server = "down" /\ server' = "loading"
        /\ provinceIndex' = {} /\ wardIndex' = {} /\ wardsByProvince' = NoWards

\* Nest awaits onModuleInit before it listens.
LoadData == /\ server = "loading" /\ server' = "listening"
            /\ provinceIndex' = Provinces /\ wardIndex' = Wards
            /\ wardsByProvince' = [p \in Provinces |-> {w \in Wards : ParentCode[w] = p}]

\* A file that cannot be read or parsed ends bootstrap, and the process may be
\* stopped at any time.
Stop == /\ server # "down" /\ server' = "down"
        /\ UNCHANGED <<provinceIndex, wardIndex, wardsByProvince>>

\* Of a pair of codes in a request (isValidLocation checks the same).
AnyKnownPair(p, w) == p \in provinceIndex /\ w \in wardIndex   \* a mutant
IsValidLocation(p, w) == p \in provinceIndex /\ w \in wardIndex /\ ParentCode[w] = p
=============================================================================
