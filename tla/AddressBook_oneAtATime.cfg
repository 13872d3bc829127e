SPECIFICATION PlacesSpec
CONSTANTS
  Users = {u1, u2}
  AddressIds = {a1, a2, a3, a4}
  Requests = {r1}
  MaxAddresses = 3
  None = None
  hn = hn
  hcm = hcm
  ba = ba
  cd = cd
  td = td
  Provinces <- TwoProvinces
  Wards <- ThreeWards
  ParentCode <- Parents
  FullName <- FullNames
SYMMETRY Symmetry
INVARIANT PlacesNameOneWard
PROPERTIES DefaultLostOnlyAcrossBooks SecondDefaultOnlyAcrossBooks TableIsSequential
