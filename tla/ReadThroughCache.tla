-------------------------- MODULE ReadThroughCache --------------------------
(***************************************************************************)
(* How CategoryService reads through Redis (ProductService, whose cached   *)
(* answers are not modelled, does the same): get the key, on a miss read   *)
(* the database, then setEx what was read with an hour to live.  The three *)
(* calls are three steps, so the table can change between the read and the *)
(* fill.  An entry, and a value a reader holds, is fresh while the table   *)
(* would still give the same answer and stale afterwards.                  *)
(***************************************************************************)
CONSTANTS Keys,      \* the keys of the cached answers
          Readers    \* slots for requests that read through the cache

VARIABLES cache,     \* cache[k]: whether k is cached, and up to date
          reader     \* reader[p]: the locals of the handler reading in slot p

Entry == {"absent", "fresh", "stale"}
Reader == [pc : {"idle", "query", "fill"}, key : Keys, value : Entry]
NotReading(k) == [pc |-> "idle", key |-> k, value |-> "absent"]

CacheTypeOK == cache \in [Keys -> Entry] /\ reader \in [Readers -> Reader]

CacheInit == /\ cache = [k \in Keys |-> "absent"]
             /\ reader = [p \in Readers |-> NotReading(CHOOSE k \in Keys : TRUE)]

\* A hit is answered from the cache and changes nothing.
GetMiss(p, k) ==
  /\ reader[p].pc = "idle" /\ cache[k] = "absent"
  /\ reader' = [reader EXCEPT ![p] = [pc |-> "query", key |-> k, value |-> "absent"]]
  /\ UNCHANGED cache

Query(p) ==
  /\ reader[p].pc = "query"
  /\ reader' = [reader EXCEPT ![p] = [@ EXCEPT !.pc = "fill", !.value = "fresh"]]
  /\ UNCHANGED cache

Fill(p) ==
  /\ reader[p].pc = "fill"
  /\ cache' = [cache EXCEPT ![reader[p].key] = reader[p].value]
  /\ reader' = [reader EXCEPT ![p] = NotReading(@.key)]

\* A handler that dies before its setEx.
AbandonRead(p) ==
  /\ reader[p].pc # "idle"
  /\ reader' = [reader EXCEPT ![p] = NotReading(@.key)]
  /\ UNCHANGED cache

\* setEx, never set: every entry has a time to live.
EntryWithoutTimeToLive(k) == FALSE   \* a mutant
Expires(k) == cache[k] # "absent"
Expire(k) == Expires(k) /\ cache' = [cache EXCEPT ![k] = "absent"] /\ UNCHANGED reader

ReaderStep(p) == Query(p) \/ Fill(p) \/ AbandonRead(p)

\* The answers under the keys in changed are no longer what the table gives.
Aged(v) == IF v = "fresh" THEN "stale" ELSE v
Outdate(changed) ==
  /\ cache' = [k \in Keys |-> IF k \in changed THEN Aged(cache[k]) ELSE cache[k]]
  /\ reader' = [p \in Readers |->
       IF reader[p].key \in changed THEN [reader[p] EXCEPT !.value = Aged(@)] ELSE reader[p]]

\* What a writer does after its write: del, which a reader's fill may follow.
Del(k) == cache' = [cache EXCEPT ![k] = "absent"] /\ UNCHANGED reader
=============================================================================
