------------------------------ MODULE Product ------------------------------
(***************************************************************************)
(* Creating products: ProductService (src/src/product/product.service.ts). *)
(* createProduct searches a free slug one query at a time and inserts      *)
(* later.  updateProduct only reads (its writes are to an object that does *)
(* not exist) and deleteProductById fails before it reads (its filter      *)
(* names no unique field at top level), so no handler changes or removes a *)
(* product.                                                                *)
(* The service is modelled as the module exports it: product.controller.ts *)
(* has GET routes only, and nothing in src/ calls createProduct,           *)
(* updateProduct or deleteProductById yet.  Left out are the answers it    *)
(* caches: the routes of a page refuse every request with 400 (they        *)
(* validate a string against a class), so no page is ever cached, and the  *)
(* lists show products that have a variant, which no code creates, and are *)
(* left to their hour to live (README.md).                                 *)
(***************************************************************************)
EXTENDS Naturals

CONSTANTS Bases,        \* slugifyStr of the names of products
          Slugs,
          Candidates,   \* ensureUniqueSlug tries this many slugs for a name
          Candidate,    \* Candidate[b][i]: the base for i = 0, then base-i
          Requests,     \* slots for create requests in flight
          None

Row == [published : BOOLEAN]

ASSUME ConstantsAssumption ==
  /\ Candidates \in Nat \ {0}
  /\ Candidate \in [Bases -> [0 .. Candidates - 1 -> Slugs]]
  /\ \A b \in Bases : \A i, j \in 0 .. Candidates - 1 :
       Candidate[b][i] = Candidate[b][j] => i = j
  /\ None \notin Slugs \cup Bases \cup Row

VARIABLES product,         \* product[s]: the row with slug s, or None
          categoryOpen,    \* the category that products are created in is live and active
          req              \* req[r]: the locals of a createProduct handler

vars == <<product, categoryOpen, req>>

Handler == [pc : {"idle", "probe", "refused", "insert", "del"}, base : Bases \cup {None},
            i : 0 .. Candidates - 1, published : BOOLEAN]
Idle == [pc |-> "idle", base |-> None, i |-> 0, published |-> FALSE]

Init == /\ product = [s \in Slugs |-> None]
        /\ categoryOpen = TRUE
        /\ req = [r \in Requests |-> Idle]

Goto(r, pc) == req' = [req EXCEPT ![r].pc = pc]
Finish(r) == req' = [req EXCEPT ![r] = Idle]
Taken(b, i) == product[Candidate[b][i]] # None

-----------------------------------------------------------------------------
(* createProduct *)

FirstCandidateSkipsBase == 1   \* a mutant
FirstCandidate == 0

\* A product named without a category is not checked.
CheckCategory(r, b, published, inCategory) ==
  /\ req[r].pc = "idle"
  /\ inCategory => categoryOpen
  /\ req' = [req EXCEPT ![r] = [pc |-> "probe", base |-> b, i |-> FirstCandidate,
                                  published |-> published]]
  /\ UNCHANGED <<product, categoryOpen>>

\* One query of the loop of ensureUniqueSlug, which gives up (400) after the
\* last candidate.
GivesUpLate(i) == i >= Candidates   \* a mutant
GivesUpEarly(i) == i + 2 >= Candidates   \* a mutant
GivesUp(i) == i + 1 >= Candidates

ProbeSlug(r) ==
  LET q == req[r] IN
  /\ q.pc = "probe"
  /\ \/ ~Taken(q.base, q.i) /\ Goto(r, "insert")
     \/ Taken(q.base, q.i) /\ ~GivesUp(q.i) /\ req' = [req EXCEPT ![r].i = @ + 1]
     \/ Taken(q.base, q.i) /\ GivesUp(q.i) /\ Goto(r, "refused")
  /\ UNCHANGED <<product, categoryOpen>>

Refuse(r) ==
  req[r].pc = "refused" /\ Finish(r) /\ UNCHANGED <<product, categoryOpen>>

\* Slugs are unique in the table: one taken since the query fails the insert
\* (P2002, 500).
InsertOverwrites(b, i) == FALSE   \* a mutant
InsertConflicts(b, i) == Taken(b, i)

InsertProduct(r) ==
  LET q == req[r] IN
  /\ q.pc = "insert"
  /\ IF InsertConflicts(q.base, q.i)
       THEN Finish(r) /\ UNCHANGED product
       ELSE /\ product' = [product EXCEPT ![Candidate[q.base][q.i]] = [published |-> q.published]]
            /\ Goto(r, "del")
  /\ UNCHANGED categoryOpen

\* Promise.allSettled: the dels of the two pages, which are never cached, may
\* fail; then the answer.
DelPages(r) == req[r].pc = "del" /\ Finish(r) /\ UNCHANGED <<product, categoryOpen>>

-----------------------------------------------------------------------------
(* The environment: the category is closed and opened elsewhere; a handler   *)
(* may die between two steps.                                                *)

ToggleCategory == categoryOpen' = ~categoryOpen /\ UNCHANGED <<product, req>>

Abort(r) == req[r].pc # "idle" /\ Finish(r) /\ UNCHANGED <<product, categoryOpen>>

HandlerStep(r) == ProbeSlug(r) \/ Refuse(r) \/ InsertProduct(r) \/ DelPages(r) \/ Abort(r)

Next ==
  \/ \E r \in Requests :
       \/ \E b \in Bases, published, inCategory \in BOOLEAN :
            CheckCategory(r, b, published, inCategory)
       \/ HandlerStep(r)
  \/ ToggleCategory

Spec == Init /\ [][Next]_vars

-----------------------------------------------------------------------------
\* Every variable has its type.
TypeOK == /\ product \in [Slugs -> Row \cup {None}]
          /\ categoryOpen \in BOOLEAN
          /\ req \in [Requests -> Handler]

\* The search has seen every earlier candidate taken, and taken it stays.
ProbedTaken ==
  \A r \in Requests : req[r].pc # "idle" =>
    req[r].base \in Bases /\ req[r].i < Candidates
      /\ \A j \in 0 .. req[r].i - 1 : Taken(req[r].base, j)

\* A product is refused for want of a slug only when every candidate of its name
\* is in use, whatever other creates did while it searched.
RefusedOnlyWhenFull ==
  \A r \in Requests : req[r].pc = "refused" =>
    \A i \in 0 .. Candidates - 1 : Taken(req[r].base, i)

\* The suffixes of a name have no gaps: a suffix is used only if all smaller
\* ones are, although search and insert are apart.
NoGaps ==
  \A b \in Bases : \A i \in 1 .. Candidates - 1 :
    Taken(b, i) /\ (\A c \in Bases \ {b} : \A j \in 0 .. Candidates - 1 :
                      Candidate[c][j] # Candidate[b][i]) => Taken(b, i - 1)

\* A create that loses the race for a slug does not touch the winner's row.
RowsKept == [][\A s \in Slugs : product[s] # None =>
                 product'[s] = product[s]]_vars

-----------------------------------------------------------------------------
(* Creates as their clients see them. *)

ClientState(pc) == CASE pc \in {"probe", "insert"} -> "asked"
                     [] pc = "del" -> "created"
                     [] OTHER -> pc

Atomic == INSTANCE Catalogue WITH
  item <- product,
  Clients <- Requests,
  client <- [r \in Requests |-> [state |-> ClientState(req[r].pc), base |-> req[r].base,
                                 published |-> req[r].published]]

\* Searching a slug in many queries and inserting later is as good as doing both
\* at once: every create gets the first candidate free at some instant between
\* its request and its answer, or is refused at one when none is free.
CreatesAreAtomic == Atomic!Spec
=============================================================================
