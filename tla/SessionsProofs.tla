--------------------------- MODULE SessionsProofs ---------------------------
(* Theorems about Sessions, for any users, browsers, sessions, concurrent    *)
(* requests and lifetime of tokens.                                          *)
EXTENDS Sessions, TLAPS

\* What a handler holds agrees with itself and with the session it is for.
HandlerConsistent(q) ==
  /\ q.pc # "idle" => q.browser \in Browsers /\ q.sub \in Users
  /\ q.pc \in {"guardSession", "validate", "sign", "rotate", "deleteSession", "respond"} =>
       q.sid \in SessionIds /\ OwnerIs(q.sid, q.sub)
  /\ q.pc \in {"guardSession", "validate", "sign", "rotate", "deleteSession"} =>
       q.token \in Token /\ q.token.sub = q.sub
  /\ q.pc \in {"createSession", "rotate", "respond"} =>
       q.issued \in Token /\ q.issued.sub = q.sub
  /\ q.pc = "deleteSession" => q.expired

HandlersConsistent == \A r \in Requests : HandlerConsistent(req[r])

\* The inductive invariant.
IInv == TypeOK /\ RowsConsistent /\ JarsConsistent /\ HandlersConsistent

LEMMA InitIInv == Init => IInv
  BY ConstantsAssumption DEF Init, IInv, TypeOK, RowsConsistent, JarsConsistent,
     HandlersConsistent, HandlerConsistent, Handler, Idle

-----------------------------------------------------------------------------
(* Records: an idle handler, and what changes a field or two of one.         *)

LEMMA IdleHandler == Idle \in Handler /\ HandlerConsistent(Idle) /\ HandlerConsistent(Idle)'
  BY DEF Idle, Handler, HandlerConsistent

LEMMA SignedTyped ==
  ASSUME NEW j \in TokenIds, NEW u \in Users
  PROVE  SignedToken(j, u) \in Token /\ SignedToken(j, u).sub = u
  BY ConstantsAssumption DEF SignedToken, Token

LEMMA MovedHandler ==
  ASSUME NEW q \in Handler, NEW pc \in {"validate", "respond"}
  PROVE  LET m == [q EXCEPT !.pc = pc]
         IN  /\ m \in Handler /\ m.pc = pc /\ m.browser = q.browser /\ m.sub = q.sub
             /\ m.sid = q.sid /\ m.token = q.token /\ m.issued = q.issued
  BY DEF Handler

\* A step of a handler that touches neither rows nor jars keeps the invariant if
\* it leaves its own record consistent.
LEMMA LocalStep ==
  ASSUME IInv, NEW r \in Requests, NEW q \in Handler, HandlerConsistent(q),
         req' = [req EXCEPT ![r] = q], UNCHANGED <<active, row, jar>>
  PROVE  IInv'
  <1>1. TypeOK' /\ RowsConsistent' /\ JarsConsistent'
    BY DEF IInv, TypeOK, RowsConsistent, JarsConsistent, OwnerIs
  <1>2. ASSUME NEW s \in Requests PROVE HandlerConsistent(req[s])'
    <2>1. CASE s = r
      BY <2>1 DEF IInv, TypeOK, HandlerConsistent, OwnerIs
    <2>2. CASE s # r
      BY <2>2 DEF IInv, TypeOK, HandlersConsistent, HandlerConsistent, OwnerIs
    <2> QED BY <2>1, <2>2
  <1> QED BY <1>1, <1>2 DEF IInv, HandlersConsistent

-----------------------------------------------------------------------------
(* One lemma per kind of step. *)

LEMMA FinishStep ==
  ASSUME IInv, NEW r \in Requests, Finish(r), UNCHANGED <<active, row, jar>>
  PROVE  IInv'
  BY LocalStep, IdleHandler DEF Finish

LEMMA LoginCheckStep ==
  ASSUME IInv, NEW r \in Requests, NEW b \in Browsers, NEW u \in Users, NEW j \in TokenIds,
         LoginCheck(r, b, u, j)
  PROVE  IInv'
  <1> DEFINE q == [Idle EXCEPT !.pc = "createSession", !.browser = b, !.sub = u,
                               !.issued = SignedToken(j, u)]
  <1>1. q \in Handler /\ HandlerConsistent(q)
    BY SignedTyped DEF Idle, Handler, HandlerConsistent
  <1>2. req' = [req EXCEPT ![r] = q] /\ UNCHANGED <<active, row, jar>>
    BY DEF LoginCheck
  <1> HIDE DEF q
  <1> QED BY <1>1, <1>2, LocalStep

LEMMA GuardTokenStep ==
  ASSUME IInv, NEW r \in Requests, NEW b \in Browsers, GuardToken(r, b)
  PROVE  IInv'
  <1> DEFINE q == [Idle EXCEPT !.pc = "guardSession", !.browser = b, !.sub = jar[b].token.sub,
                               !.sid = jar[b].sid, !.token = jar[b].token]
  <1>1. jar[b] \in Cookies /\ OwnerIs(jar[b].sid, jar[b].token.sub)
    BY DEF GuardToken, IInv, TypeOK, JarsConsistent
  <1>2. jar[b].token \in Token /\ jar[b].token.sub \in Users /\ jar[b].sid \in SessionIds
    BY <1>1 DEF Cookies, Token
  <1>3. q \in Handler /\ HandlerConsistent(q)
    BY <1>1, <1>2 DEF Idle, Handler, HandlerConsistent, OwnerIs
  <1>4. req' = [req EXCEPT ![r] = q] /\ UNCHANGED <<active, row, jar>>
    BY DEF GuardToken
  <1> HIDE DEF q
  <1> QED BY <1>3, <1>4, LocalStep

LEMMA GuardSessionStep ==
  ASSUME IInv, NEW r \in Requests, GuardSession(r)
  PROVE  IInv'
  <1>1. CASE Goto(r, "validate")
    <2> DEFINE q == [req[r] EXCEPT !.pc = "validate"]
    <2>1. req[r] \in Handler /\ HandlerConsistent(req[r])
      BY DEF IInv, TypeOK, HandlersConsistent
    <2>2. q \in Handler /\ HandlerConsistent(q)
      BY <2>1, MovedHandler DEF GuardSession, HandlerConsistent, OwnerIs
    <2>3. req' = [req EXCEPT ![r] = q] /\ UNCHANGED <<active, row, jar>>
      BY <1>1 DEF Goto, GuardSession, IInv, TypeOK
    <2> HIDE DEF q
    <2> QED BY <2>2, <2>3, LocalStep
  <1>2. CASE Finish(r)
    BY <1>2, FinishStep DEF GuardSession
  <1> QED BY <1>1, <1>2 DEF GuardSession

\* A refresh is only refused when its session is gone or expired: all tokens of
\* a user have one digest, and the session is the user's.
LEMMA ValidateStep ==
  ASSUME IInv, NEW r \in Requests, ValidateRefreshToken(r)
  PROVE  IInv'
  <1> DEFINE valid == IsSessionActive(req[r].sid, req[r].sub)
                        /\ Digest(req[r].token) = Digest(row[req[r].sid].hashed)
             gone == IF row[req[r].sid] = None THEN TRUE ELSE row[req[r].sid].left = 0
             pc == IF valid THEN "sign" ELSE "deleteSession"
             q == [req[r] EXCEPT !.pc = pc, !.expired = gone]
  <1>1. /\ req[r] \in Handler /\ HandlerConsistent(req[r]) /\ req[r].pc = "validate"
        /\ req[r].sid \in SessionIds /\ req[r].token.sub = req[r].sub
        /\ OwnerIs(req[r].sid, req[r].sub)
    BY DEF IInv, TypeOK, HandlersConsistent, HandlerConsistent, ValidateRefreshToken
  <1>2. ~valid => gone
    <2>1. row[req[r].sid] # None =>
            /\ row[req[r].sid].hashed.sub = req[r].sub
            /\ row[req[r].sid].left \in 0 .. Lifetime
      BY <1>1 DEF OwnerIs, IInv, TypeOK, RowsConsistent, SessionRow
    <2> QED BY <1>1, <2>1, ConstantsAssumption DEF Digest, IsSessionActive, OwnerIs
  <1>3. gone \in BOOLEAN /\ pc \in {"sign", "deleteSession"} /\ (pc = "deleteSession" => gone)
    BY <1>2
  <1>4. req' = [req EXCEPT ![r] = q] /\ UNCHANGED <<active, row, jar>>
    BY DEF ValidateRefreshToken
  <1> HIDE DEF valid, gone, pc
  <1>5. q \in Handler /\ HandlerConsistent(q)
    BY <1>1, <1>3 DEF Handler, HandlerConsistent
  <1> HIDE DEF q
  <1> QED BY <1>4, <1>5, LocalStep

LEMMA GenerateTokenPairStep ==
  ASSUME IInv, NEW r \in Requests, NEW j \in TokenIds, GenerateTokenPair(r, j)
  PROVE  IInv'
  <1> DEFINE q == [req[r] EXCEPT !.pc = "rotate", !.issued = SignedToken(j, req[r].sub)]
  <1>1. req[r] \in Handler /\ HandlerConsistent(req[r]) /\ req[r].pc = "sign"
    BY DEF IInv, TypeOK, HandlersConsistent, GenerateTokenPair
  <1>2. SignedToken(j, req[r].sub) \in Token /\ SignedToken(j, req[r].sub).sub = req[r].sub
    BY <1>1, SignedTyped DEF HandlerConsistent
  <1>3. q \in Handler /\ HandlerConsistent(q)
    BY <1>1, <1>2 DEF Handler, HandlerConsistent
  <1>4. req' = [req EXCEPT ![r] = q] /\ UNCHANGED <<active, row, jar>>
    BY DEF GenerateTokenPair
  <1> HIDE DEF q
  <1> QED BY <1>3, <1>4, LocalStep

\* A step that writes rows: the owner of a session that a jar or a handler knows
\* stays, for only a fresh id gets a row.
OwnersStay ==
  \A s \in SessionIds \ FreshSids : row'[s] # None =>
    row[s] # None /\ row'[s].userId = row[s].userId

LEMMA RowStep ==
  ASSUME IInv, NEW r \in Requests, NEW q \in Handler, HandlerConsistent(req[r])',
         req' = [req EXCEPT ![r] = q], UNCHANGED <<active, jar>>,
         row' \in [SessionIds -> SessionRow \cup {None}], RowsConsistent', OwnersStay
  PROVE  IInv'
  <1>1. TypeOK'
    BY DEF IInv, TypeOK
  <1>2. ASSUME NEW s \in SessionIds \ FreshSids, NEW u, OwnerIs(s, u) PROVE OwnerIs(s, u)'
    BY <1>2 DEF OwnersStay, OwnerIs
  <1>3. JarsConsistent'
    <2> SUFFICES ASSUME NEW b \in Browsers, jar[b] # None
                 PROVE  OwnerIs(jar[b].sid, jar[b].token.sub)'
      BY DEF JarsConsistent
    <2>1. jar[b].sid \in SessionIds \ FreshSids /\ OwnerIs(jar[b].sid, jar[b].token.sub)
      BY DEF IInv, TypeOK, JarsConsistent, Cookies, FreshSids
    <2> QED BY <1>2, <2>1 DEF OwnerIs
  <1>4. ASSUME NEW s \in Requests PROVE HandlerConsistent(req[s])'
    <2>1. CASE s = r
      BY <2>1 DEF IInv, TypeOK, HandlerConsistent, OwnerIs
    <2>2. CASE s # r
      <3>1. req'[s] = req[s] /\ HandlerConsistent(req[s])
        BY <2>2 DEF IInv, TypeOK, HandlersConsistent
      <3>2. req[s].sid \notin FreshSids
        BY DEF FreshSids
      <3>3. req[s].sid \in SessionIds /\ OwnerIs(req[s].sid, req[s].sub) =>
              OwnerIs(req[s].sid, req[s].sub)'
        BY <1>2, <3>1, <3>2 DEF OwnerIs
      <3> QED BY <3>1, <3>3 DEF HandlerConsistent
    <2> QED BY <2>1, <2>2
  <1> QED BY <1>1, <1>3, <1>4 DEF IInv, HandlersConsistent

LEMMA CreateSessionStep ==
  ASSUME IInv, NEW r \in Requests, NEW s \in SessionIds, CreateSession(r, s)
  PROVE  IInv'
  <1> DEFINE q == [req[r] EXCEPT !.pc = "respond", !.sid = s]
             new == [userId |-> req[r].sub, left |-> req[r].issued.left, hashed |-> req[r].issued]
  <1>1. /\ req[r] \in Handler /\ req[r].browser \in Browsers /\ req[r].sub \in Users
        /\ req[r].issued \in Token /\ req[r].issued.sub = req[r].sub /\ s \in FreshSids
    BY DEF IInv, TypeOK, HandlersConsistent, HandlerConsistent, CreateSession
  <1>2. new \in SessionRow /\ new.hashed.sub = new.userId /\ new.hashed.left = new.left
    BY <1>1 DEF SessionRow, Token
  <1>3. /\ q \in Handler /\ q.pc = "respond" /\ q.sid = s /\ q.browser = req[r].browser
        /\ q.sub = req[r].sub /\ q.issued = req[r].issued
    BY <1>1 DEF Handler
  <1>4. /\ row' = [row EXCEPT ![s] = new] /\ req' = [req EXCEPT ![r] = q]
        /\ UNCHANGED <<active, jar>>
    BY DEF CreateSession
  <1>5. new.userId = req[r].sub
    OBVIOUS
  <1> HIDE DEF q, new
  <1>6. row' \in [SessionIds -> SessionRow \cup {None}] /\ RowsConsistent' /\ OwnersStay
    BY <1>1, <1>2, <1>4 DEF IInv, TypeOK, RowsConsistent, OwnersStay
  <1>7. HandlerConsistent(req[r])'
    BY <1>1, <1>3, <1>4, <1>5 DEF HandlerConsistent, OwnerIs, IInv, TypeOK
  <1> QED BY <1>3, <1>4, <1>6, <1>7, RowStep

LEMMA DeleteSessionStep ==
  ASSUME IInv, NEW r \in Requests, DeleteSession(r)
  PROVE  IInv'
  <1>1. row' \in [SessionIds -> SessionRow \cup {None}] /\ RowsConsistent' /\ OwnersStay
    BY DEF DeleteSession, IInv, TypeOK, RowsConsistent, OwnersStay
  <1>2. HandlerConsistent(req[r])'
    BY DEF DeleteSession, Finish, Idle, HandlerConsistent, IInv, TypeOK
  <1> QED BY <1>1, <1>2, RowStep, IdleHandler DEF DeleteSession, Finish

LEMMA RotatedFields ==
  ASSUME NEW w \in SessionRow, NEW t \in Token
  PROVE  LET v == [w EXCEPT !.hashed = t, !.left = t.left]
         IN  v \in SessionRow /\ v.userId = w.userId /\ v.hashed = t /\ v.left = t.left
  <1>1. t.left \in 0 .. Lifetime
    BY DEF Token
  <1> QED BY <1>1 DEF SessionRow

LEMMA RotatedTyped ==
  ASSUME TypeOK, NEW s \in SessionIds, NEW t \in Token, row[s] # None
  PROVE  /\ RotatedRow(s, t) \in SessionRow /\ RotatedRow(s, t).userId = row[s].userId
         /\ RotatedRow(s, t).hashed = t /\ RotatedRow(s, t).left = t.left
  <1>1. row[s] \in SessionRow
    BY DEF TypeOK
  <1> QED BY <1>1, RotatedFields DEF RotatedRow

LEMMA RotateStep ==
  ASSUME IInv, NEW r \in Requests, RotateRefreshToken(r)
  PROVE  IInv'
  <1> DEFINE s == req[r].sid
             t == req[r].issued
             q == [req[r] EXCEPT !.pc = "respond"]
  <1>1. /\ req[r] \in Handler /\ HandlerConsistent(req[r]) /\ req[r].pc = "rotate"
        /\ s \in SessionIds /\ OwnerIs(s, req[r].sub)
        /\ t \in Token /\ t.sub = req[r].sub
    BY DEF IInv, TypeOK, HandlersConsistent, HandlerConsistent, RotateRefreshToken
  <1>2. CASE row[s] = None
    BY <1>2, FinishStep DEF RotateRefreshToken
  <1>3. CASE row[s] # None
    <2>1. row' = [row EXCEPT ![s] = RotatedRow(s, t)] /\ req' = [req EXCEPT ![r] = q]
            /\ UNCHANGED <<active, jar>>
      BY <1>3 DEF RotateRefreshToken, Goto, IInv, TypeOK
    <2>2. /\ RotatedRow(s, t) \in SessionRow /\ RotatedRow(s, t).userId = row[s].userId
          /\ RotatedRow(s, t).hashed = t /\ RotatedRow(s, t).left = t.left
      BY <1>1, <1>3, RotatedTyped DEF IInv
    <2>3. row[s].userId = req[r].sub
      BY <1>1, <1>3 DEF OwnerIs
    <2>4. row' \in [SessionIds -> SessionRow \cup {None}] /\ RowsConsistent' /\ OwnersStay
      BY <1>1, <1>3, <2>1, <2>2, <2>3 DEF IInv, TypeOK, RowsConsistent, OwnersStay
    <2>5. /\ q \in Handler /\ q.pc = "respond" /\ q.browser = req[r].browser
          /\ q.sub = req[r].sub /\ q.sid = s /\ q.issued = t
      BY <1>1, MovedHandler
    <2> HIDE DEF q
    <2>6. HandlerConsistent(req[r])'
      BY <1>1, <2>1, <2>2, <2>3, <2>5 DEF HandlerConsistent, OwnerIs, IInv, TypeOK
    <2> QED BY <2>1, <2>4, <2>5, <2>6, RowStep
  <1> QED BY <1>2, <1>3

-----------------------------------------------------------------------------
(* Steps of jars, and of the environment. *)

LEMMA RespondStep ==
  ASSUME IInv, NEW r \in Requests, Respond(r)
  PROVE  IInv'
  <1> DEFINE c == [token |-> req[r].issued, sid |-> req[r].sid]
  <1>1. /\ c \in Cookies /\ OwnerIs(c.sid, c.token.sub)
        /\ jar' = [jar EXCEPT ![req[r].browser] = c]
    BY DEF Respond, IInv, HandlersConsistent, HandlerConsistent, Cookies, OwnerIs
  <1> HIDE DEF c
  <1>2. jar' \in [Browsers -> Cookies \cup {None}] /\ JarsConsistent'
    BY <1>1 DEF Respond, IInv, TypeOK, JarsConsistent, OwnerIs
  <1>3. req' \in [Requests -> Handler] /\ HandlersConsistent'
    BY IdleHandler DEF Respond, Finish, IInv, TypeOK, HandlersConsistent, HandlerConsistent,
                       OwnerIs
  <1> QED BY <1>2, <1>3 DEF Respond, IInv, TypeOK, RowsConsistent

LEMMA LogoutStep ==
  ASSUME IInv, NEW b \in Browsers, Logout(b)
  PROVE  IInv'
  <1>1. row' = row
    BY ConstantsAssumption DEF Logout, SessionToEnd, IInv, TypeOK
  <1> QED BY <1>1 DEF Logout, IInv, TypeOK, RowsConsistent, JarsConsistent, HandlersConsistent,
                      HandlerConsistent, OwnerIs

LEMMA SetActiveStep ==
  ASSUME IInv, NEW u \in Users, SetActive(u)
  PROVE  IInv'
  BY DEF SetActive, IInv, TypeOK, RowsConsistent, JarsConsistent, HandlersConsistent,
         HandlerConsistent, OwnerIs

LEMMA OlderToken ==
  ASSUME NEW t \in Token
  PROVE  /\ Older(t) \in Token /\ Older(t).sub = t.sub
         /\ Older(t).left = IF t.left = 0 THEN 0 ELSE t.left - 1
  BY ConstantsAssumption DEF Older, Token

LEMMA OlderRow ==
  ASSUME NEW w \in SessionRow
  PROVE  LET v == [Older(w) EXCEPT !.hashed = Older(@)]
         IN  /\ v \in SessionRow /\ v.userId = w.userId /\ v.hashed = Older(w.hashed)
             /\ v.left = IF w.left = 0 THEN 0 ELSE w.left - 1
  <1> DEFINE o == Older(w)
  <1>1. /\ o \in SessionRow /\ o.userId = w.userId /\ o.hashed = w.hashed
        /\ o.left = IF w.left = 0 THEN 0 ELSE w.left - 1
    BY ConstantsAssumption DEF Older, SessionRow
  <1>2. Older(o.hashed) \in Token
    BY <1>1, OlderToken DEF SessionRow
  <1> HIDE DEF o
  <1>3. LET v == [o EXCEPT !.hashed = Older(@)]
        IN  /\ v \in SessionRow /\ v.userId = o.userId /\ v.hashed = Older(o.hashed)
            /\ v.left = o.left
    BY <1>1, <1>2 DEF SessionRow
  <1> QED BY <1>1, <1>3 DEF o

LEMMA OlderHandler ==
  ASSUME NEW q \in Handler
  PROVE  LET h == [q EXCEPT !.token = Older(@), !.issued = Older(@)]
         IN  /\ h \in Handler /\ h.pc = q.pc /\ h.browser = q.browser /\ h.sub = q.sub
             /\ h.sid = q.sid /\ h.expired = q.expired
             /\ h.token = Older(q.token) /\ h.issued = Older(q.issued)
  <1>1. Older(q.token) \in Token \cup {None} /\ Older(q.issued) \in Token \cup {None}
    BY OlderToken DEF Handler, Older
  <1> QED BY <1>1 DEF Handler

LEMMA TickStep ==
  ASSUME IInv, Tick
  PROVE  IInv'
  <1>1. ASSUME NEW s \in SessionIds
        PROVE  /\ row'[s] \in SessionRow \cup {None}
               /\ row'[s] = None <=> row[s] = None
               /\ row[s] # None => /\ row'[s].userId = row[s].userId
                                   /\ row'[s].hashed.sub = row'[s].userId
                                   /\ row'[s].hashed.left = row'[s].left
    <2>1. CASE row[s] = None
      BY <2>1 DEF Tick
    <2>2. CASE row[s] # None
      <3> DEFINE w == row[s]
                 v == [Older(w) EXCEPT !.hashed = Older(@)]
      <3>1. w \in SessionRow /\ w.hashed \in Token /\ w.left = w.hashed.left
              /\ w.hashed.sub = w.userId
        BY <2>2 DEF IInv, TypeOK, RowsConsistent, SessionRow
      <3>2. row'[s] = v
        BY <2>2 DEF Tick
      <3> HIDE DEF w
      <3>3. /\ v \in SessionRow /\ v.userId = w.userId
            /\ v.hashed.sub = v.userId /\ v.hashed.left = v.left
        BY <3>1, OlderRow, OlderToken
      <3> HIDE DEF v
      <3> QED BY <2>2, <3>2, <3>3, ConstantsAssumption DEF w
    <2> QED BY <2>1, <2>2
  <1>2. ASSUME NEW b \in Browsers
        PROVE  /\ jar'[b] \in Cookies \cup {None}
               /\ jar'[b] = None <=> jar[b] = None
               /\ jar[b] # None => /\ jar'[b].sid = jar[b].sid
                                   /\ jar'[b].token.sub = jar[b].token.sub
    <2>1. CASE jar[b] = None
      BY <2>1 DEF Tick
    <2>2. CASE jar[b] # None
      <3>1. jar[b] \in Cookies /\ jar[b].token \in Token
        BY <2>2 DEF IInv, TypeOK, Cookies
      <3>2. /\ Older(jar[b].token) \in Token
            /\ Older(jar[b].token).sub = jar[b].token.sub
        BY <3>1, OlderToken
      <3>3. jar'[b] = [jar[b] EXCEPT !.token = Older(@)]
        BY <2>2 DEF Tick
      <3> QED BY <2>2, <3>1, <3>2, <3>3, ConstantsAssumption DEF Cookies
    <2> QED BY <2>1, <2>2
  <1>3. ASSUME NEW r \in Requests
        PROVE  req'[r] \in Handler /\ HandlerConsistent(req[r])'
    <2>1. req[r] \in Handler /\ HandlerConsistent(req[r])
      BY DEF IInv, TypeOK, HandlersConsistent
    <2>2. /\ req'[r] \in Handler /\ req'[r].pc = req[r].pc
          /\ req'[r].browser = req[r].browser /\ req'[r].sub = req[r].sub
          /\ req'[r].sid = req[r].sid /\ req'[r].expired = req[r].expired
          /\ req'[r].token = Older(req[r].token) /\ req'[r].issued = Older(req[r].issued)
      BY <2>1, OlderHandler DEF Tick
    <2>3. req[r].sid \in SessionIds /\ OwnerIs(req[r].sid, req[r].sub) =>
            OwnerIs(req[r].sid, req[r].sub)'
      BY <1>1, <2>2 DEF OwnerIs
    <2>4. \A t \in {req[r].token, req[r].issued} : t \in Token =>
            Older(t) \in Token /\ Older(t).sub = t.sub
      BY OlderToken
    <2> QED BY <2>1, <2>2, <2>3, <2>4 DEF HandlerConsistent
  <1>4. TypeOK'
    BY <1>1, <1>2, <1>3 DEF Tick, IInv, TypeOK
  <1>5. RowsConsistent'
    BY <1>1 DEF RowsConsistent
  <1>6. JarsConsistent'
    <2> SUFFICES ASSUME NEW b \in Browsers, jar'[b] # None
                 PROVE  OwnerIs(jar[b].sid, jar[b].token.sub)'
      BY DEF JarsConsistent
    <2>1. jar[b].sid \in SessionIds
      BY <1>2 DEF IInv, TypeOK, Cookies
    <2> QED BY <1>1, <1>2, <2>1 DEF IInv, JarsConsistent, OwnerIs
  <1> QED BY <1>3, <1>4, <1>5, <1>6 DEF IInv, HandlersConsistent

-----------------------------------------------------------------------------
(* The invariant, and the theorems. *)

LEMMA IInvPreserved == IInv /\ [Next]_vars => IInv'
  <1> SUFFICES ASSUME IInv, [Next]_vars PROVE IInv' OBVIOUS
  <1>1. ASSUME NEW r \in Requests, HandlerStep(r) PROVE IInv'
    <2>1. Abort(r) => IInv'
      BY FinishStep DEF Abort
    <2> QED BY <1>1, <2>1, CreateSessionStep, GuardSessionStep, ValidateStep, DeleteSessionStep,
               GenerateTokenPairStep, RotateStep, RespondStep DEF HandlerStep
  <1>2. CASE UNCHANGED vars
    BY <1>2 DEF vars, IInv, TypeOK, RowsConsistent, JarsConsistent, HandlersConsistent,
                HandlerConsistent, OwnerIs
  <1> QED BY <1>1, <1>2, LoginCheckStep, GuardTokenStep, LogoutStep, TickStep, SetActiveStep
          DEF Next

LEMMA InvariantHolds == Spec => []IInv
  BY InitIInv, IInvPreserved, PTL DEF Spec

\* Types, whatever requests interleave and responses are lost.
THEOREM TypeCorrect == Spec => []TypeOK
  <1>1. IInv => TypeOK BY DEF IInv
  <1> QED BY InvariantHolds, <1>1, PTL

\* The hash and the expiry of a row come from one token of its user, however
\* rotations and logins interleave.
THEOREM RowsAreConsistent == Spec => []RowsConsistent
  <1>1. IInv => RowsConsistent BY DEF IInv
  <1> QED BY InvariantHolds, <1>1, PTL

\* The two cookies of a browser belong together, in whatever order the responses
\* of its refreshes and of logins of other users arrive.
THEOREM CookiesBelongTogether == Spec => []JarsConsistent
  <1>1. IInv => JarsConsistent BY DEF IInv
  <1> QED BY InvariantHolds, <1>1, PTL

-----------------------------------------------------------------------------
(* What a deactivated user still gets. *)

\* No request joins those of a deactivated user that may still renew: a slot keeps
\* its user, and the login and the guard only let active users begin.
LEMMA RenewingKept ==
  ASSUME IInv, NEW u \in Users, u \notin active, Next
  PROVE  Renewing(u)' \subseteq Renewing(u)
  <1> DEFINE pcs == {"createSession", "guardSession", "validate", "sign", "rotate"}
  <1>0. req \in [Requests -> Handler]
    BY DEF IInv, TypeOK
  <1>1. ASSUME NEW r \in Requests, NEW q, req' = [req EXCEPT ![r] = q],
               q.sub = u /\ q.pc \in pcs => r \in Renewing(u)
        PROVE  Renewing(u)' \subseteq Renewing(u)
    BY <1>0, <1>1 DEF Renewing
  <1>2. ASSUME req' = req PROVE Renewing(u)' \subseteq Renewing(u)
    BY <1>2 DEF Renewing
  <1>3. ASSUME NEW r \in Requests, Finish(r) PROVE Renewing(u)' \subseteq Renewing(u)
    BY <1>1, <1>3 DEF Finish, Idle
  <1>4. ASSUME NEW r \in Requests, NEW b \in Browsers, NEW v \in Users, NEW j \in TokenIds,
               LoginCheck(r, b, v, j)
        PROVE  Renewing(u)' \subseteq Renewing(u)
    <2> DEFINE q == [Idle EXCEPT !.pc = "createSession", !.browser = b, !.sub = v,
                                 !.issued = SignedToken(j, v)]
    <2>1. q.sub = v /\ v # u
      BY <1>4 DEF Idle, LoginCheck
    <2>2. req' = [req EXCEPT ![r] = q]
      BY <1>4 DEF LoginCheck
    <2> HIDE DEF q
    <2> QED BY <1>1, <2>1, <2>2
  <1>5. ASSUME NEW r \in Requests, NEW b \in Browsers, GuardToken(r, b)
        PROVE  Renewing(u)' \subseteq Renewing(u)
    <2> DEFINE q == [Idle EXCEPT !.pc = "guardSession", !.browser = b,
                       !.sub = jar[b].token.sub, !.sid = jar[b].sid, !.token = jar[b].token]
    <2>1. q.sub = jar[b].token.sub /\ jar[b].token.sub # u
      BY <1>5 DEF Idle, GuardToken, UserMayRefresh
    <2>2. req' = [req EXCEPT ![r] = q]
      BY <1>5 DEF GuardToken
    <2> HIDE DEF q
    <2> QED BY <1>1, <2>1, <2>2
  <1>6. ASSUME NEW r \in Requests, HandlerStep(r) PROVE Renewing(u)' \subseteq Renewing(u)
    <2>0. req[r] \in Handler
      BY <1>0
    <2>1. ASSUME NEW s \in SessionIds, CreateSession(r, s)
          PROVE  Renewing(u)' \subseteq Renewing(u)
      <3> DEFINE q == [req[r] EXCEPT !.pc = "respond", !.sid = s]
      <3>1. q.pc = "respond"
        BY <2>0 DEF Handler
      <3>2. req' = [req EXCEPT ![r] = q]
        BY <2>1 DEF CreateSession
      <3> HIDE DEF q
      <3> QED BY <1>1, <3>1, <3>2
    <2>2. CASE GuardSession(r)
      <3> DEFINE q == [req[r] EXCEPT !.pc = "validate"]
      <3>1. q.sub = req[r].sub /\ req[r].pc = "guardSession"
        BY <2>0, <2>2 DEF GuardSession, Handler
      <3>2. Finish(r) \/ req' = [req EXCEPT ![r] = q]
        BY <2>2 DEF GuardSession, Goto
      <3> HIDE DEF q
      <3> QED BY <1>1, <1>3, <3>1, <3>2 DEF Renewing
    <2>3. CASE ValidateRefreshToken(r)
      <3>1. PICK pc, x : req' = [req EXCEPT ![r] = [req[r] EXCEPT !.pc = pc, !.expired = x]]
        BY <2>3 DEF ValidateRefreshToken
      <3> DEFINE q == [req[r] EXCEPT !.pc = pc, !.expired = x]
      <3>2. q.sub = req[r].sub /\ req[r].pc = "validate"
        BY <2>0, <2>3 DEF ValidateRefreshToken, Handler
      <3>3. req' = [req EXCEPT ![r] = q]
        BY <3>1
      <3> HIDE DEF q
      <3> QED BY <1>1, <3>2, <3>3 DEF Renewing
    <2>4. CASE DeleteSession(r)
      BY <1>3, <2>4 DEF DeleteSession
    <2>5. ASSUME NEW j \in TokenIds, GenerateTokenPair(r, j)
          PROVE  Renewing(u)' \subseteq Renewing(u)
      <3> DEFINE q == [req[r] EXCEPT !.pc = "rotate", !.issued = SignedToken(j, req[r].sub)]
      <3>1. q.sub = req[r].sub /\ req[r].pc = "sign"
        BY <2>0, <2>5 DEF GenerateTokenPair, Handler
      <3>2. req' = [req EXCEPT ![r] = q]
        BY <2>5 DEF GenerateTokenPair
      <3> HIDE DEF q
      <3> QED BY <1>1, <3>1, <3>2 DEF Renewing
    <2>6. CASE RotateRefreshToken(r)
      <3> DEFINE q == [req[r] EXCEPT !.pc = "respond"]
      <3>1. q.pc = "respond"
        BY <2>0 DEF Handler
      <3>2. Finish(r) \/ req' = [req EXCEPT ![r] = q]
        BY <2>6 DEF RotateRefreshToken, Goto
      <3> HIDE DEF q
      <3> QED BY <1>1, <1>3, <3>1, <3>2
    <2>7. CASE Respond(r)
      BY <1>3, <2>7 DEF Respond
    <2>8. CASE Abort(r)
      BY <1>3, <2>8 DEF Abort
    <2> QED BY <1>6, <2>1, <2>2, <2>3, <2>4, <2>5, <2>6, <2>7, <2>8 DEF HandlerStep
  <1>7. CASE Tick
    <2>1. ASSUME NEW r \in Requests PROVE req'[r].pc = req[r].pc /\ req'[r].sub = req[r].sub
      BY <1>0, <1>7, OlderHandler DEF Tick
    <2> QED BY <2>1 DEF Renewing
  <1> QED BY <1>2, <1>4, <1>5, <1>6, <1>7 DEF Next, Logout, SetActive

\* A session gains time only from a request of its own user, in the last call
\* before the response.
LEMMA RenewalUsesOneUp ==
  ASSUME IInv, NEW u \in Users, Next, Renewed(u) # {}
  PROVE  Renewing(u)' # Renewing(u)
  <1>0. req \in [Requests -> Handler] /\ row \in [SessionIds -> SessionRow \cup {None}]
    BY DEF IInv, TypeOK
  <1>1. PICK s \in SessionIds : /\ row'[s] # None /\ row'[s].userId = u
                                /\ row[s] = None \/ row'[s].left > row[s].left
    BY DEF Renewed
  <1>2. row[s] # None => row[s] \in SessionRow /\ row[s].left \in 0 .. Lifetime
    BY <1>0 DEF SessionRow
  <1>3. row'[s] # row[s]
    BY <1>1, <1>2, ConstantsAssumption
  <1>4. ASSUME NEW r \in Requests, req'[r].pc = "respond", req[r].sub = u,
               req[r].pc \in {"createSession", "rotate"}
        PROVE  Renewing(u)' # Renewing(u)
    BY <1>4 DEF Renewing
  <1>5. ASSUME NEW r \in Requests, NEW t \in SessionIds, CreateSession(r, t)
        PROVE  Renewing(u)' # Renewing(u)
    <2> DEFINE q == [req[r] EXCEPT !.pc = "respond", !.sid = t]
    <2>1. req' = [req EXCEPT ![r] = q] /\ req[r].pc = "createSession"
      BY <1>5 DEF CreateSession
    <2>2. q.pc = "respond"
      BY <1>0 DEF Handler
    <2> HIDE DEF q
    <2>3. req'[r].pc = "respond"
      BY <1>0, <2>1, <2>2
    <2>4. s = t /\ row'[s].userId = req[r].sub
      BY <1>0, <1>3, <1>5 DEF CreateSession
    <2> QED BY <1>1, <1>4, <2>1, <2>3, <2>4
  <1>6. ASSUME NEW r \in Requests, RotateRefreshToken(r)
        PROVE  Renewing(u)' # Renewing(u)
    <2> DEFINE q == [req[r] EXCEPT !.pc = "respond"]
    <2>1. /\ req[r].pc = "rotate" /\ req[r].issued \in Token
          /\ req[r].sid \in SessionIds /\ OwnerIs(req[r].sid, req[r].sub)
      BY <1>6 DEF RotateRefreshToken, IInv, HandlersConsistent, HandlerConsistent
    <2>2. /\ row[req[r].sid] # None
          /\ row' = [row EXCEPT ![req[r].sid] = RotatedRow(req[r].sid, req[r].issued)]
          /\ req' = [req EXCEPT ![r] = q]
      BY <1>3, <1>6 DEF RotateRefreshToken, Goto
    <2>3. q.pc = "respond"
      BY <1>0 DEF Handler
    <2> HIDE DEF q
    <2>4. req'[r].pc = "respond"
      BY <1>0, <2>2, <2>3
    <2>5. s = req[r].sid
      BY <1>0, <1>3, <2>2
    <2>6. row'[s] = RotatedRow(s, req[r].issued)
      BY <1>0, <2>2, <2>5
    <2>7. row'[s].userId = row[s].userId
      BY <2>1, <2>2, <2>5, <2>6, RotatedTyped DEF IInv
    <2>8. row[s].userId = req[r].sub
      BY <2>1, <2>2, <2>5 DEF OwnerIs
    <2> QED BY <1>1, <1>4, <2>1, <2>4, <2>7, <2>8
  <1>7. ASSUME NEW r \in Requests, DeleteSession(r) PROVE FALSE
    BY <1>0, <1>1, <1>3, <1>7 DEF DeleteSession
  <1>8. ASSUME NEW b \in Browsers, Logout(b) PROVE FALSE
    BY <1>0, <1>3, <1>8, ConstantsAssumption DEF Logout, SessionToEnd
  <1>9. ~Tick
    <2> SUFFICES ASSUME Tick PROVE FALSE OBVIOUS
    <2>1. row'[s] = IF row[s] = None THEN None ELSE [Older(row[s]) EXCEPT !.hashed = Older(@)]
      BY DEF Tick
    <2>2. row[s] \in SessionRow
      BY <1>0, <1>1, <2>1
    <2>3. row'[s].left = IF row[s].left = 0 THEN 0 ELSE row[s].left - 1
      BY <2>1, <2>2, OlderRow, ConstantsAssumption
    <2> QED BY <1>1, <1>2, <2>2, <2>3, ConstantsAssumption
  <1> QED BY <1>3, <1>5, <1>6, <1>7, <1>8, <1>9
          DEF Next, HandlerStep, LoginCheck, GuardToken, GuardSession, ValidateRefreshToken,
              GenerateTokenPair, Respond, Abort, SetActive

\* However requests are interleaved, a deactivated user gets no more renewals than
\* there were requests of theirs on their way when isActive was cleared.
THEOREM DeactivatedRunOut == Spec => RenewalsRunOut
  <1> DEFINE WindsDown == \A u \in Users \ active :
               /\ Renewing(u)' \subseteq Renewing(u)
               /\ Renewed(u) # {} => Renewing(u)' # Renewing(u)
  <1>1. IInv /\ Next => WindsDown
    BY RenewingKept, RenewalUsesOneUp
  <1>2. IInv /\ [Next]_vars => [WindsDown]_vars
    BY <1>1
  <1>3. RenewalsRunOut <=> [][WindsDown]_vars
    BY DEF RenewalsRunOut
  <1> HIDE DEF WindsDown
  <1> QED BY InvariantHolds, <1>2, <1>3, PTL DEF Spec

-----------------------------------------------------------------------------
(* The table implements SessionStore. *)

leases == [s \in SessionIds |-> Lease(s)]

LEMMA LeaseNotNone ==
  \A u \in Users, left \in 0 .. Lifetime : [userId |-> u, left |-> left] # None
  BY ConstantsAssumption DEF Leases

\* A handler is about to end the session of its cookie, having found it lapsed.
Ends(q, s) == q.pc = "deleteSession" /\ q.sid = s /\ q.expired

LEMMA LapsedOf ==
  /\ FoundLapsed = {s \in SessionIds : \E r \in Requests : Ends(req[r], s)}
  /\ FoundLapsed' = {s \in SessionIds : \E r \in Requests : Ends(req[r]', s)}
  BY DEF FoundLapsed, Ends

\* A step of a handler that neither begins nor stops to end a session.
LEMMA LapsedKept ==
  ASSUME TypeOK, NEW r \in Requests, NEW q, req' = [req EXCEPT ![r] = q],
         req[r].pc # "deleteSession", q.pc # "deleteSession"
  PROVE  UNCHANGED FoundLapsed
  <1>1. \A p \in Requests, s \in SessionIds : Ends(req[p]', s) <=> Ends(req[p], s)
    BY DEF Ends, TypeOK
  <1> QED BY <1>1, LapsedOf

\* One that stops: another handler may be about to end the same session.
LEMMA LapsedForgotten ==
  ASSUME TypeOK, NEW r \in Requests, req' = [req EXCEPT ![r] = Idle]
  PROVE  FoundLapsed' \in {FoundLapsed, FoundLapsed \ {req[r].sid}}
  <1>1. \A p \in Requests, s \in SessionIds :
          Ends(req[p]', s) <=> p # r /\ Ends(req[p], s)
    BY DEF Ends, TypeOK, Idle
  <1>2. \A s \in SessionIds : Ends(req[r], s) => s = req[r].sid
    BY DEF Ends
  <1>3. FoundLapsed' = {s \in SessionIds : \E p \in Requests \ {r} : Ends(req[p], s)}
    BY <1>1, LapsedOf
  <1>4. FoundLapsed = {s \in SessionIds : \E p \in Requests : Ends(req[p], s)}
    BY LapsedOf
  <1>5. \A s \in FoundLapsed : s # req[r].sid => s \in FoundLapsed'
    BY <1>2, <1>3, <1>4
  <1>6. FoundLapsed' \subseteq FoundLapsed
    BY <1>3, <1>4
  <1>7. CASE req[r].sid \in FoundLapsed'
    <2>1. FoundLapsed' = FoundLapsed
      BY <1>5, <1>6, <1>7
    <2> QED BY <2>1
  <1>8. CASE req[r].sid \notin FoundLapsed'
    <2>1. FoundLapsed' = FoundLapsed \ {req[r].sid}
      BY <1>5, <1>6, <1>8
    <2> QED BY <2>1
  <1> QED BY <1>7, <1>8

LEMMA LeasesKept ==
  ASSUME UNCHANGED row
  PROVE  UNCHANGED leases
  BY DEF leases, Lease

\* The handler of one slot ends and leaves the rows alone.
LEMMA FinishIsStoreStep ==
  ASSUME IInv, NEW r \in Requests, Finish(r), UNCHANGED row
  PROVE  Store!Next \/ UNCHANGED <<leases, FoundLapsed>>
  <1>1. UNCHANGED leases
    BY LeasesKept
  <1>2. FoundLapsed' \in {FoundLapsed, FoundLapsed \ {req[r].sid}}
    BY LapsedForgotten DEF IInv, Finish
  <1>3. CASE FoundLapsed' = FoundLapsed
    BY <1>1, <1>3
  <1>4. CASE FoundLapsed' = FoundLapsed \ {req[r].sid} /\ req[r].sid \in SessionIds
    <2>1. PICK s \in SessionIds : s = req[r].sid
      BY <1>4
    <2>2. Store!Forget(s)
      BY <1>1, <1>4, <2>1 DEF Store!Forget, leases
    <2> QED BY <2>2, Zenon DEF Store!Next
  <1>5. CASE FoundLapsed' = FoundLapsed \ {req[r].sid} /\ req[r].sid \notin SessionIds
    BY <1>1, <1>5 DEF FoundLapsed
  <1> QED BY <1>2, <1>3, <1>4, <1>5

LEMMA ValidateIsStoreStep ==
  ASSUME IInv, NEW r \in Requests, ValidateRefreshToken(r)
  PROVE  Store!Next \/ UNCHANGED <<leases, FoundLapsed>>
  <1> DEFINE valid == IsSessionActive(req[r].sid, req[r].sub)
                        /\ Digest(req[r].token) = Digest(row[req[r].sid].hashed)
             gone == IF row[req[r].sid] = None THEN TRUE ELSE row[req[r].sid].left = 0
             q == [req[r] EXCEPT !.pc = IF valid THEN "sign" ELSE "deleteSession", !.expired = gone]
  <1>1. /\ TypeOK /\ req[r] \in Handler /\ req[r].pc = "validate" /\ req[r].sid \in SessionIds
        /\ req' = [req EXCEPT ![r] = q] /\ UNCHANGED row
    BY DEF IInv, TypeOK, HandlersConsistent, HandlerConsistent, ValidateRefreshToken
  <1>2. UNCHANGED leases
    BY <1>1, LeasesKept
  <1>3. CASE valid
    <2>1. q.pc = "sign"
      BY <1>1, <1>3 DEF Handler
    <2> HIDE DEF q
    <2>2. UNCHANGED FoundLapsed
      BY <1>1, <2>1, LapsedKept
    <2> QED BY <1>2, <2>2
  <1>4. CASE ~valid
    <2>1. HandlerConsistent(req[r])'
      BY ValidateStep DEF IInv, HandlersConsistent
    <2>2. q.pc = "deleteSession" /\ q.sid = req[r].sid /\ q.expired = gone
      BY <1>1, <1>4 DEF Handler
    <2>3. req[r]' = q
      BY <1>1 DEF TypeOK
    <2>4. gone
      BY <2>1, <2>2, <2>3 DEF HandlerConsistent
    <2> HIDE DEF q, valid
    <2>5. \A p \in Requests, s \in SessionIds :
            Ends(req[p]', s) <=> Ends(req[p], s) \/ (p = r /\ s = req[r].sid)
      BY <1>1, <2>2, <2>3, <2>4 DEF Ends, TypeOK
    <2>6. FoundLapsed' = FoundLapsed \cup {req[r].sid}
      BY <1>1, <2>5, LapsedOf
    <2>7. PICK s \in SessionIds : s = req[r].sid
      BY <1>1
    <2>8. leases[s] = None \/ leases[s].left = 0
      BY <2>4, <2>7 DEF leases, Lease
    <2>9. Store!FindLapsed(s)
      BY <1>2, <2>6, <2>7, <2>8 DEF Store!FindLapsed, Store!Expired, leases
    <2> QED BY <2>9, Zenon DEF Store!Next
  <1> QED BY <1>3, <1>4

LEMMA DeleteIsStoreStep ==
  ASSUME IInv, NEW r \in Requests, DeleteSession(r)
  PROVE  Store!Next
  <1>1. /\ req[r].sid \in SessionIds /\ Ends(req[r], req[r].sid)
    BY DEF IInv, HandlersConsistent, HandlerConsistent, DeleteSession, Ends
  <1>2. PICK s \in SessionIds : s = req[r].sid
    BY <1>1
  <1>3. s \in FoundLapsed
    BY <1>1, <1>2, LapsedOf
  <1>4. FoundLapsed' \in {FoundLapsed, FoundLapsed \ {s}}
    BY <1>2, LapsedForgotten DEF DeleteSession, Finish, IInv
  <1>5. leases' = [leases EXCEPT ![s] = None]
    BY <1>2 DEF DeleteSession, leases, Lease, IInv, TypeOK
  <1>6. Store!End(s)
    BY <1>3, <1>4, <1>5 DEF Store!End, leases
  <1> QED BY <1>6, Zenon DEF Store!Next

LEMMA CreateIsStoreStep ==
  ASSUME IInv, NEW r \in Requests, NEW s \in SessionIds, CreateSession(r, s)
  PROVE  Store!Next
  <1> DEFINE q == [req[r] EXCEPT !.pc = "respond", !.sid = s]
             new == [userId |-> req[r].sub, left |-> req[r].issued.left, hashed |-> req[r].issued]
  <1>1. /\ TypeOK /\ req[r] \in Handler /\ req[r].pc = "createSession"
        /\ req[r].sub \in Users /\ req[r].issued \in Token /\ s \in FreshSids
        /\ row' = [row EXCEPT ![s] = new] /\ req' = [req EXCEPT ![r] = q]
    BY DEF IInv, TypeOK, HandlersConsistent, HandlerConsistent, CreateSession
  <1>2. /\ new \in SessionRow /\ new.userId = req[r].sub /\ new.left = req[r].issued.left
        /\ req[r].issued.left \in 0 .. Lifetime
    BY <1>1 DEF SessionRow, Token
  <1>3. q.pc = "respond"
    BY <1>1 DEF Handler
  <1> HIDE DEF q, new
  <1>4. UNCHANGED FoundLapsed
    BY <1>1, <1>3, LapsedKept
  <1>5. PICK u \in Users, left \in 0 .. Lifetime : u = new.userId /\ left = new.left
    BY <1>1, <1>2
  <1>6. leases' = [leases EXCEPT ![s] = [userId |-> u, left |-> left]]
    BY <1>1, <1>2, <1>5, ConstantsAssumption DEF leases, Lease, TypeOK
  <1>7. leases[s] = None /\ s \notin FoundLapsed
    BY <1>1 DEF FreshSids, leases, Lease, FoundLapsed
  <1>8. Store!Issue(s, u, left)
    BY <1>4, <1>6, <1>7 DEF Store!Issue, leases
  <1> QED BY <1>8 DEF Store!Next

LEMMA RotateIsStoreStep ==
  ASSUME IInv, NEW r \in Requests, RotateRefreshToken(r)
  PROVE  Store!Next \/ UNCHANGED <<leases, FoundLapsed>>
  <1>1. /\ TypeOK /\ req[r] \in Handler /\ req[r].pc = "rotate"
        /\ req[r].sid \in SessionIds /\ req[r].issued \in Token
    BY DEF IInv, TypeOK, HandlersConsistent, HandlerConsistent, RotateRefreshToken
  <1>2. CASE row[req[r].sid] = None
    BY <1>2, FinishIsStoreStep DEF RotateRefreshToken
  <1>3. CASE row[req[r].sid] # None
    <2>1. PICK s \in SessionIds, left \in 0 .. Lifetime :
            s = req[r].sid /\ left = req[r].issued.left
      BY <1>1 DEF Token
    <2>2. row' = [row EXCEPT ![s] = RotatedRow(s, req[r].issued)] /\ Goto(r, "respond")
      BY <1>3, <2>1 DEF RotateRefreshToken
    <2>3. /\ RotatedRow(s, req[r].issued) # None
          /\ RotatedRow(s, req[r].issued).userId = row[s].userId
          /\ RotatedRow(s, req[r].issued).left = left
      BY <1>1, <1>3, <2>1, RotatedTyped, ConstantsAssumption
    <2>4. leases' = [leases EXCEPT ![s].left = left] /\ leases[s] # None
      <3>1. leases[s] = [userId |-> row[s].userId, left |-> row[s].left]
        BY <1>3, <2>1 DEF leases, Lease
      <3>2. leases' = [leases EXCEPT ![s] = [userId |-> row[s].userId, left |-> left]]
        BY <1>1, <2>2, <2>3 DEF leases, Lease, TypeOK
      <3>3. row[s].userId \in Users /\ row[s].left \in 0 .. Lifetime
        BY <1>1, <1>3, <2>1 DEF TypeOK, SessionRow
      <3>4. [leases[s] EXCEPT !.left = left] = [userId |-> row[s].userId, left |-> left]
        BY <3>1
      <3>5. leases[s] # None
        BY <3>1, <3>3, LeaseNotNone
      <3> QED BY <3>2, <3>4, <3>5
    <2>5. UNCHANGED FoundLapsed
      <3>1. [req[r] EXCEPT !.pc = "respond"].pc = "respond"
        BY <1>1 DEF Handler
      <3> QED BY <1>1, <2>2, <3>1, LapsedKept DEF Goto
    <2>6. Store!Renew(s, left)
      BY <2>4, <2>5 DEF Store!Renew, leases
    <2> QED BY <2>6 DEF Store!Next
  <1> QED BY <1>2, <1>3

LEMMA LogoutIsStoreStep ==
  ASSUME IInv, NEW b \in Browsers, Logout(b)
  PROVE  UNCHANGED <<leases, FoundLapsed>>
  <1>1. row' = row /\ req' = req
    BY ConstantsAssumption DEF Logout, SessionToEnd, IInv, TypeOK
  <1> QED BY <1>1, LeasesKept DEF FoundLapsed

LEMMA TickIsStoreStep ==
  ASSUME IInv, Tick
  PROVE  Store!Next
  <1>1. ASSUME NEW p \in Requests, NEW s \in SessionIds
        PROVE  Ends(req[p]', s) <=> Ends(req[p], s)
    <2>1. req[p] \in Handler
      BY DEF IInv, TypeOK
    <2>2. req[p]' = [req[p] EXCEPT !.token = Older(@), !.issued = Older(@)]
      BY DEF Tick
    <2> QED BY <2>1, <2>2, OlderHandler DEF Ends
  <1>2. UNCHANGED FoundLapsed
    BY <1>1, LapsedOf
  <1>3. ASSUME NEW s \in SessionIds
        PROVE  Lease(s)' = IF leases[s] = None \/ leases[s].left = 0 THEN leases[s]
                           ELSE [leases[s] EXCEPT !.left = @ - 1]
    <2>1. CASE row[s] = None
      BY <2>1 DEF Tick, leases, Lease
    <2>2. CASE row[s] # None
      <3>1. row[s] \in SessionRow
        BY <2>2 DEF IInv, TypeOK
      <3>2. row'[s] = [Older(row[s]) EXCEPT !.hashed = Older(@)]
        BY <2>2 DEF Tick
      <3>3. /\ row'[s] # None /\ row'[s].userId = row[s].userId
            /\ row'[s].left = IF row[s].left = 0 THEN 0 ELSE row[s].left - 1
        BY <3>1, <3>2, OlderRow, ConstantsAssumption
      <3>4. leases[s] = [userId |-> row[s].userId, left |-> row[s].left]
        BY <2>2 DEF leases, Lease
      <3>5. leases[s] # None
        BY <3>1, <3>4, LeaseNotNone DEF SessionRow
      <3>6. Lease(s)' = [userId |-> row[s].userId,
                         left |-> IF row[s].left = 0 THEN 0 ELSE row[s].left - 1]
        BY <3>3 DEF Lease
      <3> QED BY <3>4, <3>5, <3>6
    <2> QED BY <2>1, <2>2
  <1>4. Store!Age
    BY <1>2, <1>3 DEF Store!Age, Store!Expired, leases
  <1> QED BY <1>4 DEF Store!Next

LEMMA StepIsStoreStep ==
  ASSUME IInv, Next
  PROVE  Store!Next \/ UNCHANGED <<leases, FoundLapsed>>
  <1>1. TypeOK
    BY DEF IInv
  <1>2. ASSUME NEW r \in Requests, NEW q, req' = [req EXCEPT ![r] = q], UNCHANGED row,
               req[r].pc # "deleteSession", q.pc # "deleteSession"
        PROVE  UNCHANGED <<leases, FoundLapsed>>
    BY <1>1, <1>2, LapsedKept, LeasesKept
  <1>3. ASSUME NEW r \in Requests, NEW b \in Browsers, NEW u \in Users, NEW j \in TokenIds,
               LoginCheck(r, b, u, j)
        PROVE  UNCHANGED <<leases, FoundLapsed>>
    <2> DEFINE q == [Idle EXCEPT !.pc = "createSession", !.browser = b, !.sub = u,
                                 !.issued = SignedToken(j, u)]
    <2>1. q.pc = "createSession"
      BY DEF Idle
    <2>2. req' = [req EXCEPT ![r] = q] /\ UNCHANGED row /\ req[r].pc # "deleteSession"
      BY <1>3 DEF LoginCheck
    <2> HIDE DEF q
    <2> QED BY <1>2, <2>1, <2>2
  <1>4. ASSUME NEW r \in Requests, NEW b \in Browsers, GuardToken(r, b)
        PROVE  UNCHANGED <<leases, FoundLapsed>>
    <2> DEFINE q == [Idle EXCEPT !.pc = "guardSession", !.browser = b,
                       !.sub = jar[b].token.sub, !.sid = jar[b].sid, !.token = jar[b].token]
    <2>1. q.pc = "guardSession"
      BY DEF Idle
    <2>2. req' = [req EXCEPT ![r] = q] /\ UNCHANGED row /\ req[r].pc # "deleteSession"
      BY <1>4 DEF GuardToken
    <2> HIDE DEF q
    <2> QED BY <1>2, <2>1, <2>2
  <1>5. ASSUME NEW r \in Requests, HandlerStep(r)
        PROVE  Store!Next \/ UNCHANGED <<leases, FoundLapsed>>
    <2>1. req[r] \in Handler
      BY <1>1 DEF TypeOK
    <2>2. CASE GuardSession(r)
      <3>1. CASE Goto(r, "validate")
        <4>1. [req[r] EXCEPT !.pc = "validate"].pc = "validate"
          BY <2>1 DEF Handler
        <4> QED BY <1>2, <2>2, <3>1, <4>1 DEF GuardSession, Goto
      <3> QED BY <2>2, <3>1, FinishIsStoreStep DEF GuardSession
    <2>3. ASSUME NEW j \in TokenIds, GenerateTokenPair(r, j)
          PROVE  UNCHANGED <<leases, FoundLapsed>>
      <3>1. [req[r] EXCEPT !.pc = "rotate", !.issued = SignedToken(j, req[r].sub)].pc = "rotate"
        BY <2>1 DEF Handler
      <3> QED BY <1>2, <2>3, <3>1 DEF GenerateTokenPair
    <2>4. CASE Respond(r) \/ Abort(r)
      BY <2>4, FinishIsStoreStep DEF Respond, Abort
    <2> QED BY <1>5, <2>2, <2>3, <2>4, ValidateIsStoreStep, DeleteIsStoreStep,
               CreateIsStoreStep, RotateIsStoreStep DEF HandlerStep
  <1>6. ASSUME NEW u \in Users, SetActive(u) PROVE UNCHANGED <<leases, FoundLapsed>>
    BY <1>6, LeasesKept DEF SetActive, FoundLapsed
  <1> QED BY <1>3, <1>4, <1>5, <1>6, LogoutIsStoreStep, TickIsStoreStep DEF Next

\* Whatever requests interleave, the table hands out leases: one user for the
\* life of a session, and an end only for sessions found lapsed.
THEOREM TableKeepsLeases == Spec => SessionsAreLeases
  <1>1. Init => Store!Init
    BY DEF Init, Store!Init, Lease, FoundLapsed, Idle
  <1>2. IInv /\ [Next]_vars => [Store!Next]_Store!vars
    <2>1. UNCHANGED vars => UNCHANGED <<leases, FoundLapsed>>
      BY LeasesKept DEF vars, FoundLapsed
    <2>2. UNCHANGED <<leases, FoundLapsed>> => UNCHANGED Store!vars
      BY DEF Store!vars, leases
    <2> QED BY <2>1, <2>2, StepIsStoreStep
  <1> QED BY InvariantHolds, <1>1, <1>2, PTL DEF Spec, SessionsAreLeases, Store!Spec

-----------------------------------------------------------------------------
(* One request at a time: the session of a cookie lives as long as the token *)
(* beside it, and the handler in the slot keeps it so.                       *)

Covers(s, t) == t.left > 0 => row[s] # None /\ row[s].left >= t.left
JarsCovered == \A b \in Browsers : jar[b] # None => Covers(jar[b].sid, jar[b].token)

SlotCurrent(q) ==
  /\ q.pc = "rotate" => \A b \in Browsers : jar[b] # None => jar[b].token.left <= q.issued.left
  /\ q.pc = "respond" => Covers(q.sid, q.issued)
  /\ q.pc = "deleteSession" =>
       \A b \in Browsers : jar[b] # None /\ jar[b].sid = q.sid => jar[b].token.left = 0

Alone == IInv /\ JarsCovered /\ \A r \in Requests : SlotCurrent(req[r])

LEMMA LeftIsNat ==
  ASSUME TypeOK
  PROVE  /\ \A s \in SessionIds : row[s] # None => row[s].left \in Nat
         /\ \A b \in Browsers : jar[b] # None =>
              /\ jar[b].sid \in SessionIds /\ jar[b].token \in Token
              /\ jar[b].token.left \in 0 .. Lifetime /\ jar[b].token.left \in Nat
  BY ConstantsAssumption DEF TypeOK, SessionRow, Cookies, Token

\* Handlers that read, and those that only end.
LEMMA ReadKeepsCover ==
  ASSUME Alone, NEW r, Requests = {r}, UNCHANGED <<row, jar>>, SlotCurrent(req[r])'
  PROVE  JarsCovered' /\ \A s \in Requests : SlotCurrent(req[s])'
  BY DEF Alone, JarsCovered, Covers

LEMMA FinishKeepsCover ==
  ASSUME Alone, NEW r, Requests = {r}, Finish(r)
  PROVE  SlotCurrent(req[r])'
  BY DEF Finish, Idle, SlotCurrent, Alone, IInv, TypeOK

LEMMA HandlerKeepsCover ==
  ASSUME Alone, NEW r, Requests = {r}, HandlerStep(r)
  PROVE  JarsCovered' /\ \A s \in Requests : SlotCurrent(req[s])'
  <1>0. /\ TypeOK /\ RowsConsistent /\ JarsCovered /\ SlotCurrent(req[r])
        /\ HandlerConsistent(req[r]) /\ req[r] \in Handler
    BY DEF Alone, IInv, HandlersConsistent, TypeOK
  <1>1. ASSUME NEW s \in SessionIds, CreateSession(r, s)
        PROVE  JarsCovered' /\ SlotCurrent(req[r])'
    <2> DEFINE q == [req[r] EXCEPT !.pc = "respond", !.sid = s]
    <2>1. q.pc = "respond" /\ q.sid = s /\ q.issued = req[r].issued /\ req'[r] = q
      BY <1>0, <1>1 DEF CreateSession, Handler, TypeOK
    <2>2. /\ row'[s].left = req[r].issued.left /\ jar' = jar
          /\ \A t \in SessionIds \ {s} : row'[t] = row[t]
      BY <1>0, <1>1 DEF CreateSession, TypeOK
    <2>3. row'[s] # None /\ req[r].issued.left \in Nat
      <3>1. req[r].issued \in Token /\ req[r].sub \in Users
        BY <1>0, <1>1 DEF CreateSession, HandlerConsistent
      <3>2. row'[s] \in SessionRow /\ req[r].issued.left \in Nat
        BY <1>0, <1>1, <3>1, ConstantsAssumption DEF CreateSession, SessionRow, Token, TypeOK
      <3> QED BY <3>2, ConstantsAssumption
    <2>4. \A b \in Browsers : jar[b] # None => jar[b].sid # s /\ jar[b].sid \in SessionIds
      BY <1>0, <1>1, LeftIsNat DEF CreateSession, FreshSids
    <2>5. JarsCovered'
      BY <1>0, <2>2, <2>4 DEF JarsCovered, Covers
    <2> HIDE DEF q
    <2> QED BY <2>1, <2>2, <2>3, <2>5 DEF SlotCurrent, Covers
  <1>2. CASE GuardSession(r)
    <2>1. CASE Goto(r, "validate")
      <3>1. req'[r].pc = "validate"
        BY <1>0, <2>1 DEF Goto, Handler, TypeOK
      <3>2. SlotCurrent(req[r])'
        BY <3>1 DEF SlotCurrent
      <3> QED BY <1>2, <3>2, ReadKeepsCover DEF GuardSession
    <2> QED BY <1>2, <2>1, FinishKeepsCover, ReadKeepsCover DEF GuardSession
  <1>3. CASE ValidateRefreshToken(r)
    <2>1. /\ req'[r].pc \in {"sign", "deleteSession"} /\ req'[r].sid = req[r].sid
          /\ req'[r].expired = IF row[req[r].sid] = None THEN TRUE ELSE row[req[r].sid].left = 0
      BY <1>0, <1>3 DEF ValidateRefreshToken, Handler, TypeOK
    <2>2. HandlerConsistent(req[r])'
      BY <1>3, ValidateStep DEF Alone, IInv, HandlersConsistent
    <2>3. CASE req'[r].pc = "deleteSession"
      <3>1. row[req[r].sid] = None \/ row[req[r].sid].left = 0
        BY <2>1, <2>2, <2>3 DEF HandlerConsistent
      <3>2. \A b \in Browsers : jar[b] # None /\ jar[b].sid = req[r].sid => jar[b].token.left = 0
        BY <1>0, <3>1, LeftIsNat DEF JarsCovered, Covers
      <3>3. SlotCurrent(req[r])'
        BY <1>3, <2>1, <2>3, <3>2 DEF SlotCurrent, ValidateRefreshToken
      <3> QED BY <1>3, <3>3, ReadKeepsCover DEF ValidateRefreshToken
    <2>4. CASE req'[r].pc = "sign"
      <3>1. SlotCurrent(req[r])'
        BY <2>4 DEF SlotCurrent
      <3> QED BY <1>3, <3>1, ReadKeepsCover DEF ValidateRefreshToken
    <2> QED BY <2>1, <2>3, <2>4
  <1>4. CASE DeleteSession(r)
    <2>1. \A s \in SessionIds \ {req[r].sid} : row'[s] = row[s]
      BY <1>0, <1>4 DEF DeleteSession, TypeOK
    <2>2. \A b \in Browsers : jar[b] # None /\ jar[b].sid = req[r].sid => jar[b].token.left = 0
      BY <1>0, <1>4 DEF DeleteSession, SlotCurrent
    <2>3. JarsCovered'
      BY <1>0, <1>4, <2>1, <2>2, LeftIsNat DEF DeleteSession, JarsCovered, Covers
    <2> QED BY <1>4, <2>3, FinishKeepsCover DEF DeleteSession
  <1>5. ASSUME NEW j \in TokenIds, GenerateTokenPair(r, j) PROVE SlotCurrent(req[r])'
    <2>1. req'[r].pc = "rotate" /\ req'[r].issued = SignedToken(j, req[r].sub) /\ jar' = jar
      BY <1>0, <1>5 DEF GenerateTokenPair, Handler, TypeOK
    <2> QED BY <1>0, <2>1, LeftIsNat DEF SlotCurrent, SignedToken
  <1>6. CASE RotateRefreshToken(r)
    <2> DEFINE t == req[r].issued
               s == req[r].sid
    <2>1. CASE row[s] = None
      BY <1>6, <2>1, FinishKeepsCover, ReadKeepsCover DEF RotateRefreshToken
    <2>2. CASE row[s] # None
      <3>1. /\ s \in SessionIds /\ t \in Token /\ t.left \in Nat /\ jar' = jar
        BY <1>0, <1>6, ConstantsAssumption DEF RotateRefreshToken, HandlerConsistent, Token
      <3>2. /\ RotatedRow(s, t) \in SessionRow /\ RotatedRow(s, t).left = t.left
        BY <1>0, <2>2, <3>1, RotatedTyped
      <3>3. /\ row' = [row EXCEPT ![s] = RotatedRow(s, t)] /\ Goto(r, "respond")
        BY <1>6, <2>2 DEF RotateRefreshToken
      <3>4. /\ row'[s] # None /\ row'[s].left = t.left
            /\ \A x \in SessionIds \ {s} : row'[x] = row[x]
        BY <1>0, <3>1, <3>2, <3>3, ConstantsAssumption DEF TypeOK
      <3>5. req'[r].pc = "respond" /\ req'[r].sid = s /\ req'[r].issued = t
        BY <1>0, <3>3 DEF Goto, Handler, TypeOK
      <3>6. \A b \in Browsers : jar[b] # None => jar[b].token.left <= t.left
        BY <1>0, <1>6 DEF RotateRefreshToken, SlotCurrent
      <3> HIDE DEF s, t
      <3>7. JarsCovered'
        BY <1>0, <3>1, <3>4, <3>6, LeftIsNat DEF JarsCovered, Covers
      <3>8. SlotCurrent(req[r])'
        BY <3>1, <3>4, <3>5 DEF SlotCurrent, Covers
      <3> QED BY <3>7, <3>8
    <2> QED BY <2>1, <2>2
  <1>7. CASE Respond(r)
    <2> DEFINE c == [token |-> req[r].issued, sid |-> req[r].sid]
    <2>1. Covers(c.sid, c.token) /\ c.token = req[r].issued /\ c.sid = req[r].sid
      BY <1>0, <1>7 DEF Respond, SlotCurrent
    <2>2. jar' = [jar EXCEPT ![req[r].browser] = c] /\ row' = row
      BY <1>7 DEF Respond
    <2> HIDE DEF c
    <2>3. JarsCovered'
      BY <1>0, <2>1, <2>2 DEF JarsCovered, Covers, TypeOK
    <2> QED BY <1>7, <2>3, FinishKeepsCover DEF Respond
  <1>8. CASE Abort(r)
    BY <1>8, FinishKeepsCover, ReadKeepsCover DEF Abort
  <1> QED BY <1>1, <1>2, <1>3, <1>4, <1>5, <1>6, <1>7, <1>8, ReadKeepsCover
          DEF HandlerStep, GenerateTokenPair

\* Time runs alike for rows and tokens.
LEMMA TickKeepsCover ==
  ASSUME Alone, Tick
  PROVE  JarsCovered' /\ \A r \in Requests : SlotCurrent(req[r])'
  <1>0. TypeOK /\ JarsCovered /\ HandlersConsistent
    BY DEF Alone, IInv
  <1>1. ASSUME NEW s \in SessionIds, row[s] # None
        PROVE  /\ row'[s] # None
               /\ row'[s].left = IF row[s].left = 0 THEN 0 ELSE row[s].left - 1
    <2> DEFINE w == row[s]
               v == [Older(w) EXCEPT !.hashed = Older(@)]
    <2>1. w \in SessionRow /\ row'[s] = v
      BY <1>0, <1>1 DEF TypeOK, Tick
    <2> HIDE DEF w
    <2>2. v \in SessionRow /\ v.left = IF w.left = 0 THEN 0 ELSE w.left - 1
      BY <2>1, OlderRow
    <2> HIDE DEF v
    <2> QED BY <2>1, <2>2, ConstantsAssumption DEF w
  <1>2. ASSUME NEW b \in Browsers, jar'[b] # None
        PROVE  /\ jar[b] # None /\ jar'[b].sid = jar[b].sid
               /\ jar'[b].token.left = IF jar[b].token.left = 0 THEN 0 ELSE jar[b].token.left - 1
    <2>1. jar[b] # None
      BY <1>2 DEF Tick
    <2>2. jar[b] \in Cookies /\ jar[b].token \in Token
      BY <1>0, <2>1, LeftIsNat DEF TypeOK
    <2>3. jar'[b].token = Older(jar[b].token) /\ jar'[b].sid = jar[b].sid
      BY <2>1, <2>2 DEF Tick, Cookies
    <2> QED BY <2>1, <2>2, <2>3, OlderToken
  <1>3. ASSUME NEW s \in SessionIds, NEW n \in Nat, NEW m \in Nat,
               n > 0 => row[s] # None /\ row[s].left >= n,
               m = IF n = 0 THEN 0 ELSE n - 1
        PROVE  m > 0 => row'[s] # None /\ row'[s].left >= m
    BY <1>0, <1>1, <1>3, LeftIsNat
  <1>4. JarsCovered'
    <2> SUFFICES ASSUME NEW b \in Browsers, jar'[b] # None
                 PROVE  jar'[b].token.left > 0 =>
                          row'[jar'[b].sid] # None /\ row'[jar'[b].sid].left >= jar'[b].token.left
      BY DEF JarsCovered, Covers
    <2>1. /\ jar[b].sid \in SessionIds /\ jar[b].token.left \in Nat
          /\ Covers(jar[b].sid, jar[b].token) /\ jar'[b].token.left \in Nat
      BY <1>0, <1>2, LeftIsNat DEF JarsCovered
    <2> QED BY <1>2, <1>3, <2>1 DEF Covers
  <1>5. ASSUME NEW r \in Requests PROVE SlotCurrent(req[r])'
    <2>1. /\ req[r] \in Handler /\ HandlerConsistent(req[r]) /\ SlotCurrent(req[r])
      BY <1>0 DEF TypeOK, HandlersConsistent, Alone
    <2>2. /\ req'[r].pc = req[r].pc /\ req'[r].sid = req[r].sid
          /\ req'[r].issued = Older(req[r].issued)
      BY <2>1, OlderHandler DEF Tick
    <2>3. req[r].pc \in {"rotate", "respond"} =>
            /\ req[r].issued.left \in Nat /\ req'[r].issued.left \in Nat
            /\ req'[r].issued.left =
                 IF req[r].issued.left = 0 THEN 0 ELSE req[r].issued.left - 1
      BY <2>1, <2>2, OlderToken, ConstantsAssumption DEF HandlerConsistent, Token
    <2>4. CASE req[r].pc = "rotate"
      <3>1. \A b \in Browsers : jar'[b] # None => jar'[b].token.left <= req'[r].issued.left
        BY <1>0, <1>2, <2>1, <2>3, <2>4, LeftIsNat DEF SlotCurrent
      <3> QED BY <2>2, <2>4, <3>1 DEF SlotCurrent
    <2>5. CASE req[r].pc = "respond"
      <3>1. req[r].sid \in SessionIds /\ Covers(req[r].sid, req[r].issued)
        BY <2>1, <2>5 DEF HandlerConsistent, SlotCurrent
      <3>2. req'[r].issued.left > 0 =>
              row'[req[r].sid] # None /\ row'[req[r].sid].left >= req'[r].issued.left
        BY <1>3, <2>3, <2>5, <3>1 DEF Covers
      <3> QED BY <2>2, <2>5, <3>2 DEF SlotCurrent, Covers
    <2>6. CASE req[r].pc = "deleteSession"
      <3>1. \A b \in Browsers : jar'[b] # None /\ jar'[b].sid = req'[r].sid
                                  => jar'[b].token.left = 0
        BY <1>2, <2>1, <2>2, <2>6 DEF SlotCurrent
      <3> QED BY <2>2, <2>6, <3>1 DEF SlotCurrent
    <2>7. CASE req[r].pc \notin {"rotate", "respond", "deleteSession"}
      BY <2>2, <2>7 DEF SlotCurrent
    <2> QED BY <2>4, <2>5, <2>6, <2>7
  <1> QED BY <1>4, <1>5

LEMMA AloneInvariant ==
  ASSUME NEW r, Requests = {r}
  PROVE  /\ Init => Alone
         /\ Alone /\ [Next]_vars => Alone'
  <1>1. Init => Alone
    BY InitIInv DEF Init, Alone, JarsCovered, SlotCurrent, Idle
  <1>2. ASSUME Alone, [Next]_vars PROVE JarsCovered' /\ \A s \in Requests : SlotCurrent(req[s])'
    <2>1. TypeOK /\ JarsCovered /\ SlotCurrent(req[r])
      BY <1>2 DEF Alone, IInv
    <2>2. ASSUME NEW b \in Browsers, NEW u \in Users, NEW j \in TokenIds, LoginCheck(r, b, u, j)
          PROVE  SlotCurrent(req[r])' /\ UNCHANGED <<row, jar>>
      <3>1. req'[r].pc = "createSession"
        BY <2>1, <2>2 DEF LoginCheck, Idle, TypeOK
      <3> QED BY <2>2, <3>1 DEF LoginCheck, SlotCurrent
    <2>3. ASSUME NEW b \in Browsers, GuardToken(r, b)
          PROVE  SlotCurrent(req[r])' /\ UNCHANGED <<row, jar>>
      <3>1. req'[r].pc = "guardSession"
        BY <2>1, <2>3 DEF GuardToken, Idle, TypeOK
      <3> QED BY <2>3, <3>1 DEF GuardToken, SlotCurrent
    <2>4. ASSUME NEW b \in Browsers, Logout(b)
          PROVE  JarsCovered' /\ SlotCurrent(req[r])'
      <3>1. row' = row /\ req' = req /\ \A c \in Browsers : jar'[c] # None => jar'[c] = jar[c]
        BY <2>1, <2>4, ConstantsAssumption DEF Logout, SessionToEnd, TypeOK
      <3> QED BY <2>1, <3>1 DEF JarsCovered, SlotCurrent, Covers
    <2>5. CASE UNCHANGED <<row, jar, req>>
      BY <2>1, <2>5 DEF JarsCovered, SlotCurrent, Covers
    <2> QED BY <1>2, <2>2, <2>3, <2>4, <2>5, ReadKeepsCover, HandlerKeepsCover, TickKeepsCover
            DEF Next, SetActive, vars
  <1> QED BY <1>1, <1>2, IInvPreserved DEF Alone

\* One request at a time a browser with an unexpired refresh token can always
\* use it, whatever responses are lost and wherever handlers die: a refresh that
\* is lost after its rotation leaves the session alive at least as long.
THEOREM CookiesUsableOneAtATime ==
  ASSUME NEW r, Requests = {r}
  PROVE  Spec => []CookiesUsable
  <1>1. Alone => CookiesUsable
    <2> SUFFICES ASSUME Alone, NEW b \in Browsers, jar[b] # None, jar[b].token.left > 0
                 PROVE  IsSessionActive(jar[b].sid, jar[b].token.sub)
      BY DEF CookiesUsable
    <2>1. TypeOK /\ JarsConsistent /\ Covers(jar[b].sid, jar[b].token)
      BY DEF Alone, IInv, JarsCovered
    <2> QED BY <2>1, LeftIsNat DEF JarsConsistent, OwnerIs, Covers, IsSessionActive
  <1> QED BY AloneInvariant, <1>1, PTL DEF Spec
=============================================================================
