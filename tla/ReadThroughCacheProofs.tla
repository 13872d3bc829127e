----------------------- MODULE ReadThroughCacheProofs -----------------------
(* Lemmas about ReadThroughCache: every operation keeps the cache and what   *)
(* its readers hold typed.  Used for Category.                               *)
EXTENDS ReadThroughCache, TLAPS

LEMMA CacheInitTyped ==
  ASSUME NEW k \in Keys, CacheInit
  PROVE  CacheTypeOK
  <1>1. (CHOOSE l \in Keys : TRUE) \in Keys
    OBVIOUS
  <1> QED BY <1>1 DEF CacheInit, CacheTypeOK, Entry, Reader, NotReading

LEMMA OutdateTyped ==
  ASSUME CacheTypeOK, NEW changed, Outdate(changed)
  PROVE  CacheTypeOK'
  BY DEF CacheTypeOK, Outdate, Aged, Entry, Reader

LEMMA UnchangedCacheTyped ==
  ASSUME CacheTypeOK, UNCHANGED <<cache, reader>>
  PROVE  CacheTypeOK'
  BY DEF CacheTypeOK

LEMMA DelTyped ==
  ASSUME CacheTypeOK, NEW k \in Keys, Del(k)
  PROVE  CacheTypeOK'
  BY DEF CacheTypeOK, Del, Entry

LEMMA GetMissTyped ==
  ASSUME CacheTypeOK, NEW p \in Readers, NEW k \in Keys, GetMiss(p, k)
  PROVE  CacheTypeOK'
  BY DEF CacheTypeOK, GetMiss, Entry, Reader

LEMMA ExpireTyped ==
  ASSUME CacheTypeOK, NEW k \in Keys, Expire(k)
  PROVE  CacheTypeOK'
  BY DEF CacheTypeOK, Expire, Entry

LEMMA QueriedTyped ==
  ASSUME NEW q \in Reader
  PROVE  [q EXCEPT !.pc = "fill", !.value = "fresh"] \in Reader
  BY DEF Reader, Entry

LEMMA ReaderStepTyped ==
  ASSUME CacheTypeOK, NEW p \in Readers, ReaderStep(p)
  PROVE  CacheTypeOK'
  <1> USE DEF CacheTypeOK, Entry
  <1>1. CASE Query(p)
    <2> DEFINE q == [reader[p] EXCEPT !.pc = "fill", !.value = "fresh"]
    <2>1. q \in Reader
      BY QueriedTyped
    <2>2. reader' = [reader EXCEPT ![p] = q] /\ UNCHANGED cache
      BY <1>1 DEF Query
    <2> HIDE DEF q
    <2> QED BY <2>1, <2>2
  <1>2. CASE Fill(p)
    BY <1>2 DEF Fill, NotReading, Reader
  <1>3. CASE AbandonRead(p)
    BY <1>3 DEF AbandonRead, NotReading, Reader
  <1> QED BY <1>1, <1>2, <1>3 DEF ReaderStep
=============================================================================
