-------------------------- MODULE MCAddressPlaces --------------------------
(* An instance of AddressPlaces for TLC: two wards of one name in different *)
(* provinces, and a third of another name.                                  *)
EXTENDS AddressPlaces, TLC

CONSTANTS hn, hcm, ba, cd, td

TwoProvinces == {hn, hcm}
ThreeWards == {ba, cd, td}
Parents == ba :> hn @@ cd :> hcm @@ td :> hcm
FullNames == hn :> "Ha Noi" @@ hcm :> "Ho Chi Minh" @@ ba :> "Minh Chau" @@ cd :> "Minh Chau"
               @@ td :> "Thanh An"

\* Customers are all alike, and so are ids of addresses.
Symmetry == Permutations(Users) \cup Permutations(AddressIds)
=============================================================================
