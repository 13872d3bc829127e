------------------------------ MODULE Category ------------------------------
(***************************************************************************)
(* The category tree: CategoryService                                      *)
(* (src/src/category/category.service.ts), its table and the two lists it  *)
(* caches in Redis.  Admin handlers (slots Requests) read, then write in   *)
(* one statement or transaction, then delete both lists; public handlers   *)
(* (slots Readers) read a list through the cache.  All interleave between  *)
(* their database and Redis calls.  Handlers that end without a write      *)
(* change nothing and are not steps.                                       *)
(*                                                                         *)
(* Rows are never removed (a delete sets deletedAt), so the check that a   *)
(* parent exists can be taken together with the read before it.  The       *)
(* parent sent to an update is checked but never written: left out.        *)
(***************************************************************************)
EXTENDS Integers, FiniteSets, SequencesExt, ReadThroughCache

CONSTANTS CategoryIds,
          Names,
          Slugs,
          SlugOf,        \* slugifyStr, a function from Names to Slugs
          Requests,      \* slots for admin requests in flight
          MaxPosition,   \* bound of the positions admins ask for
          MayFail,       \* TRUE: handlers may die between two steps
          EditDeleted,   \* TRUE: edits may name a category deleted before
          None

ASSUME ConstantsAssumption ==
  /\ IsFiniteSet(CategoryIds)
  /\ SlugOf \in [Names -> Slugs]
  /\ MaxPosition \in Nat /\ MayFail \in BOOLEAN /\ EditDeleted \in BOOLEAN
  /\ None \notin CategoryIds \cup Names \cup Slugs
  /\ Keys = {"tree", "select"}   \* categoryPublicTree, categorySelect

VARIABLES cat,      \* cat[c]: the row of c, or None
          req       \* req[r]: the locals of an admin handler

vars == <<cat, cache, req, reader>>

\* A deleted row's name and slug, "deleted-...-<time>", are None.
Row == [parent : CategoryIds \cup {None}, name : Names \cup {None},
        slug : Slugs \cup {None}, position : Int, active : BOOLEAN, deleted : BOOLEAN]
ASSUME NoneIsNoRow == None \notin Row

Handler == [op : {"none", "create", "update", "reorder", "activate", "delete"},
            pc : {"idle", "position", "range", "write", "delTree", "delSelect"},
            id : CategoryIds \cup {None},
            parent : CategoryIds \cup {None},
            name : Names \cup {None},
            active : {"on", "off", "keep"},
            position : Int,   \* the new position, 0 to keep the old one
            from : Int]       \* foundCategory.position

Idle == [op |-> "none", pc |-> "idle", id |-> None, parent |-> None, name |-> None,
         active |-> "keep", position |-> 0, from |-> 0]

Init == /\ cat = [c \in CategoryIds |-> None]
        /\ req = [r \in Requests |-> Idle]
        /\ CacheInit

Exists(c) == cat[c] # None
IsLive(c) == cat[c] # None /\ ~cat[c].deleted
\* What an edit names: a row, or with EditDeleted = FALSE a live one.
Named(c) == IF EditDeleted THEN Exists(c) ELSE IsLive(c)
LiveSiblings(p) == {c \in CategoryIds : IsLive(c) /\ cat[c].parent = p}
TopPosition(p) == IF LiveSiblings(p) = {} THEN 0
                  ELSE Max({cat[c].position : c \in LiveSiblings(p)})
SlugNotUnique(s, c) == FALSE   \* a mutant
SlugTaken(s, c) == \E d \in CategoryIds \ {c} : Exists(d) /\ cat[d].slug = s

\* The rows the public lists are made from.
PublicRows(t) == {<<c, t[c].name, t[c].parent, t[c].position>> :
                    c \in {d \in CategoryIds : t[d] # None /\ ~t[d].deleted /\ t[d].active}}

\* buildCategoryTree: a row is a root, a child of a row of the list, or dropped.
PublicIds == {row[1] : row \in PublicRows(cat)}
OrphansAsRoots == {c \in PublicIds : cat[c].parent \notin PublicIds}   \* a mutant
Roots == {c \in PublicIds : cat[c].parent = None}
Children(c) == {d \in PublicIds : cat[d].parent = c}
TreeLevels[n \in 0 .. Cardinality(CategoryIds)] ==
  IF n = 0 THEN Roots ELSE UNION {Children(c) : c \in TreeLevels[n - 1]}
InTree == UNION {TreeLevels[n] : n \in DOMAIN TreeLevels}

\* The table becomes t: lists cached or read before are out of date if it
\* changes a public row.
Commit(t) == cat' = t /\ Outdate(IF PublicRows(t) # PublicRows(cat) THEN Keys ELSE {})

Goto(r, pc) == req' = [req EXCEPT ![r].pc = pc]
Finish(r) == req' = [req EXCEPT ![r] = Idle]
Start(r, q) == req' = [req EXCEPT ![r] = q] /\ UNCHANGED <<cat, cache, reader>>
\* After the write the two lists are to be deleted, and no other local is read.
Wrote(r) == req' = [req EXCEPT ![r] = [Idle EXCEPT !.pc = "delTree"]]

-----------------------------------------------------------------------------
(* createCategory *)

\* Bound: no more creates in flight than keys of CategoryIds left.
KeysLeft == Cardinality({c \in CategoryIds : ~Exists(c)})
              > Cardinality({r \in Requests : req[r].op = "create"})

\* The parent may be a deleted row: it is looked up by its id alone.
CreateFind(r, n, p, act) ==
  /\ KeysLeft
  /\ \A c \in CategoryIds : IsLive(c) => cat[c].name # n
  /\ p # None => Exists(p)
  /\ Start(r, [Idle EXCEPT !.op = "create", !.pc = "position", !.name = n,
                           !.parent = p, !.active = act])

CreatePosition(r) ==
  LET q == req[r] IN
  /\ q.pc = "position"
  /\ req' = [req EXCEPT ![r] = [q EXCEPT !.pc = "write", !.position = TopPosition(q.parent) + 1]]
  /\ UNCHANGED <<cat, cache, reader>>

NewRowNotSlugified(q) ==   \* a mutant
  [parent |-> q.parent, name |-> q.name, slug |-> q.name,
   position |-> q.position, active |-> q.active = "on", deleted |-> FALSE]
NewRow(q) == [parent |-> q.parent, name |-> q.name, slug |-> SlugOf[q.name],
              position |-> q.position, active |-> q.active = "on", deleted |-> FALSE]

\* A slug in use fails the insert (P2002).  The lists are deleted only for an
\* active category: another is in none of them.
WriteCreate(r, c) ==
  LET q == req[r] IN
  /\ q.op = "create" /\ q.pc = "write"
  /\ ~Exists(c)
  /\ IF SlugTaken(SlugOf[q.name], c)
       THEN Finish(r) /\ UNCHANGED <<cat, cache, reader>>
       ELSE /\ Commit([cat EXCEPT ![c] = NewRow(q)])
            /\ IF q.active = "on" THEN Wrote(r) ELSE Finish(r)

-----------------------------------------------------------------------------
(* updateCategory and reorderCategory *)

\* An update finds deleted rows too.
UpdateFind(r, c, n, act, pos) ==
  /\ Named(c)
  /\ Start(r, [Idle EXCEPT !.op = "update", !.id = c, !.name = n, !.active = act,
                 !.position = pos, !.parent = cat[c].parent, !.from = cat[c].position,
                 !.pc = IF pos = 0 THEN "write" ELSE "range"])

ReorderFind(r, c, pos) ==
  /\ IsLive(c)
  /\ pos # cat[c].position
  /\ Start(r, [Idle EXCEPT !.op = "reorder", !.pc = "range", !.id = c, !.position = pos,
                 !.parent = cat[c].parent, !.from = cat[c].position])

\* Without a live sibling there is no upper limit.
CheckRange(r) ==
  LET q == req[r]
      inRange == LiveSiblings(q.parent) # {} => q.position <= TopPosition(q.parent)
  IN  /\ q.pc = "range"
      /\ IF inRange THEN Goto(r, "write") ELSE Finish(r)
      /\ UNCHANGED <<cat, cache, reader>>

\* The shift of the siblings, between the position found and the new one.
ShiftOneTooFew(q, x) ==   \* a mutant
  CASE q.position > q.from /\ q.from < x /\ x < q.position -> x - 1
    [] q.position <= q.from /\ q.position <= x /\ x < q.from -> x + 1
    [] OTHER -> x
ShiftFromOn(q, x) ==   \* a mutant
  CASE q.position > q.from /\ q.from <= x /\ x <= q.position -> x - 1
    [] q.position <= q.from /\ q.position <= x /\ x < q.from -> x + 1
    [] OTHER -> x
ShiftWrongWay(q, x) ==   \* a mutant
  CASE q.position > q.from /\ q.from < x /\ x <= q.position -> x + 1
    [] q.position <= q.from /\ q.position <= x /\ x < q.from -> x + 1
    [] OTHER -> x
Shifted(q, x) ==
  CASE q.position > q.from /\ q.from < x /\ x <= q.position -> x - 1
    [] q.position <= q.from /\ q.position <= x /\ x < q.from -> x + 1
    [] OTHER -> x

UpdatedWithoutSlug(q, row) ==   \* a mutant
  [row EXCEPT !.name = IF q.name = None THEN @ ELSE q.name,
              !.active = IF q.active = "keep" THEN @ ELSE q.active = "on",
              !.position = IF q.position = 0 THEN @ ELSE q.position]
Updated(q, row) ==
  [row EXCEPT !.name = IF q.name = None THEN @ ELSE q.name,
              !.slug = IF q.name = None THEN @ ELSE SlugOf[q.name],
              !.active = IF q.active = "keep" THEN @ ELSE q.active = "on",
              !.position = IF q.position = 0 THEN @ ELSE q.position]

UpdatedTable(q) ==
  [c \in CategoryIds |->
    IF ~Exists(c) THEN None
    ELSE IF c = q.id THEN Updated(q, cat[c])
    ELSE IF q.position # 0 /\ cat[c].parent = q.parent
      THEN [cat[c] EXCEPT !.position = Shifted(q, @)]
    ELSE cat[c]]

WriteUpdate(r) ==
  LET q == req[r] IN
  /\ q.op \in {"update", "reorder"} /\ q.pc = "write"
  /\ IF q.name # None /\ SlugTaken(SlugOf[q.name], q.id)
       THEN Finish(r) /\ UNCHANGED <<cat, cache, reader>>
       ELSE Commit(UpdatedTable(q)) /\ Wrote(r)

-----------------------------------------------------------------------------
(* activeCategory and unactiveCategory *)

SetActiveFind(r, c, act) ==
  /\ Named(c) /\ cat[c].active # (act = "on")
  /\ Start(r, [Idle EXCEPT !.op = "activate", !.pc = "write", !.id = c, !.active = act])

\* P2025 when another request changed it first.
WriteActive(r) ==
  LET q == req[r] IN
  /\ q.op = "activate" /\ q.pc = "write"
  /\ IF cat[q.id].active = (q.active = "on")
       THEN Finish(r) /\ UNCHANGED <<cat, cache, reader>>
       ELSE Commit([cat EXCEPT ![q.id].active = ~@]) /\ Wrote(r)

-----------------------------------------------------------------------------
(* deleteCategoryById *)

DeleteFind(r, c) ==
  /\ IsLive(c)
  /\ Start(r, [Idle EXCEPT !.op = "delete", !.pc = "write", !.id = c])

ChildrenNotMatched(c) == {d \in CategoryIds : IsLive(d) /\ d = c}   \* a mutant
MatchedByDelete(c) == {d \in CategoryIds : IsLive(d) /\ (d = c \/ cat[d].parent = c)}

\* All matched rows get the same slug, which is unique: two or more fail the
\* statement (P2002).
WriteDelete(r) ==
  LET q == req[r]
      matched == MatchedByDelete(q.id)
  IN  /\ q.op = "delete" /\ q.pc = "write"
      /\ IF Cardinality(matched) > 1
           THEN Finish(r) /\ UNCHANGED <<cat, cache, reader>>
           ELSE /\ Commit([c \in CategoryIds |-> IF c \notin matched THEN cat[c] ELSE
                     [cat[c] EXCEPT !.deleted = TRUE, !.position = -1,
                                    !.slug = None, !.name = None]])
                /\ Wrote(r)

-----------------------------------------------------------------------------
(* The cached lists: getPublicCategory and selectCategory read them through *)
(* the cache, the writers above delete both.                                *)

DelTree(r) == req[r].pc = "delTree" /\ Del("tree") /\ Goto(r, "delSelect") /\ UNCHANGED cat
DelSelect(r) == req[r].pc = "delSelect" /\ Del("select") /\ Finish(r) /\ UNCHANGED cat

GetPublicCategory(p) == GetMiss(p, "tree")
SelectCategory(p) == GetMiss(p, "select")

-----------------------------------------------------------------------------
Abort(r) == MayFail /\ req[r].pc # "idle" /\ Finish(r) /\ UNCHANGED <<cat, cache, reader>>

Arrive(r) ==
  /\ req[r].pc = "idle"
  /\ \/ \E n \in Names, p \in CategoryIds \cup {None}, act \in {"on", "off"} :
          CreateFind(r, n, p, act)
     \/ \E c \in CategoryIds, n \in Names \cup {None}, act \in {"on", "off", "keep"},
           pos \in 0 .. MaxPosition : UpdateFind(r, c, n, act, pos)
     \/ \E c \in CategoryIds, pos \in 1 .. MaxPosition : ReorderFind(r, c, pos)
     \/ \E c \in CategoryIds, act \in {"on", "off"} : SetActiveFind(r, c, act)
     \/ \E c \in CategoryIds : DeleteFind(r, c)

HandlerStep(r) ==
  \/ CreatePosition(r)
  \/ \E c \in CategoryIds : WriteCreate(r, c)
  \/ CheckRange(r)
  \/ WriteUpdate(r)
  \/ WriteActive(r)
  \/ WriteDelete(r)
  \/ DelTree(r)
  \/ DelSelect(r)
  \/ Abort(r)

Next ==
  \/ \E r \in Requests : Arrive(r) \/ HandlerStep(r)
  \/ /\ \/ \E p \in Readers : GetPublicCategory(p) \/ SelectCategory(p) \/ ReaderStep(p)
        \/ \E k \in Keys : Expire(k)
     /\ UNCHANGED <<cat, req>>

Spec == Init /\ [][Next]_vars

\* Handlers run to their end and entries expire; requests need not arrive.
FairSpec == /\ Spec
            /\ \A r \in Requests : WF_vars(HandlerStep(r))
            /\ \A p \in Readers : WF_vars(ReaderStep(p) /\ UNCHANGED <<cat, req>>)
            /\ \A k \in Keys : WF_vars(Expire(k) /\ UNCHANGED <<cat, req>>)

-----------------------------------------------------------------------------
(* What holds under every interleaving. *)

\* Every variable has its type.
TypeOK == /\ cat \in [CategoryIds -> Row \cup {None}]
          /\ req \in [Requests -> Handler]
          /\ CacheTypeOK

\* A row's slug is that of its name and no two rows share one.
SlugsConsistent ==
  \A c \in CategoryIds : Exists(c) =>
    /\ IF cat[c].name = None THEN cat[c].slug = None ELSE cat[c].slug = SlugOf[cat[c].name]
    /\ ~cat[c].deleted => cat[c].name # None
    /\ cat[c].slug # None => ~SlugTaken(cat[c].slug, c)

\* No two live categories share a name, whatever creates and renames race: the
\* check by name is only a read, an update has none, and the unique slug that
\* follows the name is what decides.
LiveNamesUnique ==
  \A c, d \in CategoryIds : IsLive(c) /\ IsLive(d) /\ cat[c].name = cat[d].name => c = d

\* Positions of live categories are positive ("Vi tri phai la so nguyen duong",
\* update-category.dto.ts), though moves shift by positions read before.  Moving a
\* deleted category, which is at -1, may shift live ones to 0 and on to -1, but
\* no request however stale shifts a row below that.
PositionsBounded ==
  \A c \in CategoryIds : Exists(c) =>
    cat[c].position >= IF EditDeleted \/ cat[c].deleted THEN -1 ELSE 1

Orphan(c) == IsLive(c) /\ cat[c].parent # None /\ ~IsLive(cat[c].parent)

\* A live category comes to be under a deleted one only by being created there,
\* or by a delete of a category that another request deleted first (its statement
\* then matches what was created below since).  A delete that finds its category
\* live never leaves a live one below it, whatever was created since it read the
\* row: the statement would give all of them one slug and fails (256-261).
OrphansExplained ==
  [][\A c \in CategoryIds : Orphan(c)' /\ ~Orphan(c) /\ Exists(c) =>
       \E r \in Requests :
         req[r].op = "delete" /\ req[r].pc = "write" /\ ~IsLive(req[r].id)]_vars

\* Stale lists go away: when admins stop writing, no list stays stale, even one
\* filled from a read older than the last write or left behind by a crash.
CacheCatchesUp ==
  (<>[](\A r \in Requests : req[r].pc = "idle")) => \A k \in Keys : <>[](cache[k] # "stale")

-----------------------------------------------------------------------------
(* What holds when admin requests run one at a time and edit live categories; *)
(* a create's parent may be deleted.                                          *)

\* Live siblings have distinct positions.
PositionsDistinct ==
  \A c, d \in CategoryIds :
    IsLive(c) /\ IsLive(d) /\ cat[c].parent = cat[d].parent
      /\ cat[c].position = cat[d].position => c = d

\* The live children of p by position.
InOrder(p) ==
  CHOOSE s \in SetToSeqs(LiveSiblings(p)) :
    \A i, j \in DOMAIN s : i < j => cat[s[i]].position <= cat[s[j]].position

Siblings == INSTANCE OrderedSiblings WITH
  Ids <- CategoryIds, Parents <- CategoryIds \cup {None},
  order <- [p \in CategoryIds \cup {None} |-> InOrder(p)]

\* The positions stand for a list, gaps or not: creating adds at the end, moving
\* one (an update or a reorder, a shift and a write) leaves the others in their
\* order, deleting takes one out, and nothing else changes the order.
SiblingsAreOrdered == Siblings!Spec

\* The public tree shows a category exactly if nothing above it, nor the category
\* itself, is deactivated or deleted, and shows it in one place: what is under a
\* hidden category is dropped with it (buildCategoryTree, 443-462).
Above[c \in CategoryIds] ==
  IF cat[c] = None \/ cat[c].parent = None THEN {} ELSE {cat[c].parent} \cup Above[cat[c].parent]
TreeShowsOpenBranches ==
  /\ \A c \in CategoryIds :
       c \in InTree <=> \A a \in {c} \cup Above[c] : IsLive(a) /\ cat[a].active
  /\ \A m, n \in DOMAIN TreeLevels : m # n => TreeLevels[m] \cap TreeLevels[n] = {}
=============================================================================
