------------------------------ MODULE Sessions ------------------------------
(***************************************************************************)
(* Login sessions: AuthController, AuthService, SessionService and         *)
(* RefreshTokenGuard (src/src/auth, src/src/user-session,                  *)
(* src/src/common/guard/auth), with the cookie jars of the browsers.       *)
(* A request holds a slot from its first check to its response; requests   *)
(* interleave between their database calls, time passes between them, and  *)
(* a response may be lost or overtaken by a later one.  Requests refused   *)
(* before they write (400, 401, 500) leave the state alone: no steps.      *)
(*                                                                         *)
(* Expiry times are kept as the time left until then, which Tick takes     *)
(* from every token and row: the clock needs no bound.                     *)
(***************************************************************************)
EXTENDS Naturals, FiniteSets

CONSTANTS Users, Browsers,
          Requests,     \* slots for requests in flight
          SessionIds,   \* random ids, never drawn twice
          TokenIds,     \* the jti of refresh tokens (randomUUID)
          Lifetime,     \* jwt.refreshTokenExpiresIn
          None

Token == [jti : TokenIds, sub : Users, left : 0 .. Lifetime]
SessionRow == [userId : Users, left : 0 .. Lifetime, hashed : Token]
Cookies == [token : Token, sid : SessionIds]
Leases == [userId : Users, left : 0 .. Lifetime]   \* what SessionStore keeps of a row

ASSUME ConstantsAssumption ==
  /\ Lifetime \in Nat \ {0}
  /\ None \notin Users \cup Browsers \cup SessionIds
  /\ None \notin Token \cup SessionRow \cup Cookies \cup Leases

VARIABLES active,   \* the users with isActive = true
          row,      \* the user_session table: row[s], or None
          jar,      \* jar[b]: the refresh and session cookies of a browser
          req       \* req[r]: the locals of the handler running in slot r

vars == <<active, row, jar, req>>

Handler == [pc : {"idle", "createSession", "guardSession", "validate",
                  "sign", "rotate", "deleteSession", "respond"},
            browser : Browsers \cup {None},
            sub     : Users \cup {None},
            sid     : SessionIds \cup {None},
            token   : Token \cup {None},   \* the refresh cookie of the request
            expired : BOOLEAN,   \* validateRefreshToken found no row, or an expired one
            issued  : Token \cup {None}]   \* the refresh token of the response

Idle == [pc |-> "idle", browser |-> None, sub |-> None, sid |-> None,
         token |-> None, expired |-> FALSE, issued |-> None]

Init == /\ active = Users
        /\ row = [s \in SessionIds |-> None]
        /\ jar = [b \in Browsers |-> None]
        /\ req = [r \in Requests |-> Idle]

Goto(r, pc) == req' = [req EXCEPT ![r].pc = pc]
Finish(r)   == req' = [req EXCEPT ![r] = Idle]

\* Ids drawn at random are in no row, jar or handler.
SidsWithoutRow == {s \in SessionIds : row[s] = None}   \* a mutant
FreshSids == {s \in SessionIds :
  /\ row[s] = None
  /\ \A r \in Requests : req[r].sid # s
  /\ \A b \in Browsers : jar[b] # None => jar[b].sid # s}
FreshJtis == {j \in TokenIds :
  /\ \A s \in SessionIds : row[s] # None => row[s].hashed.jti # j
  /\ \A b \in Browsers : jar[b] # None => jar[b].token.jti # j
  /\ \A r \in Requests : \A t \in {req[r].token, req[r].issued} \ {None} : t.jti # j}

SignedTooLong(j, u) == [jti |-> j, sub |-> u, left |-> Lifetime + 1]   \* a mutant
SignedToken(j, u) == [jti |-> j, sub |-> u, left |-> Lifetime]

-----------------------------------------------------------------------------
(* login *)

\* Credentials are right and the user is active.  Without rememberMe there is
\* no refresh token, no session and no cookie of either: nothing to model.
LoginCheck(r, b, u, j) ==
  /\ req[r].pc = "idle"
  /\ u \in active
  /\ j \in FreshJtis
  /\ req' = [req EXCEPT ![r] = [Idle EXCEPT !.pc = "createSession", !.browser = b,
                                  !.sub = u, !.issued = SignedToken(j, u)]]
  /\ UNCHANGED <<active, row, jar>>

CreateSession(r, s) ==
  LET q == req[r] IN
  /\ q.pc = "createSession"
  /\ s \in FreshSids
  /\ row' = [row EXCEPT ![s] = [userId |-> q.sub, left |-> q.issued.left,
                                hashed |-> q.issued]]
  /\ req' = [req EXCEPT ![r] = [q EXCEPT !.pc = "respond", !.sid = s]]
  /\ UNCHANGED <<active, jar>>

-----------------------------------------------------------------------------
(* refresh: the guard, then the handler *)

\* The refresh cookie verifies and its user is active.  A request without the
\* session cookie passes the guard but fails in the controller, so a jar with
\* one cookie of the two is as good as empty.
UserMayRefreshUnchecked(u) == TRUE   \* a mutant
UserMayRefresh(u) == u \in active

GuardToken(r, b) ==
  /\ req[r].pc = "idle"
  /\ jar[b] # None
  /\ jar[b].token.left > 0
  /\ UserMayRefresh(jar[b].token.sub)
  /\ req' = [req EXCEPT ![r] = [Idle EXCEPT !.pc = "guardSession", !.browser = b,
               !.sub = jar[b].token.sub, !.sid = jar[b].sid, !.token = jar[b].token]]
  /\ UNCHANGED <<active, row, jar>>

IsSessionActive(s, u) == row[s] # None /\ row[s].userId = u /\ row[s].left > 0

GuardSession(r) ==
  /\ req[r].pc = "guardSession"
  /\ IF IsSessionActive(req[r].sid, req[r].sub) THEN Goto(r, "validate") ELSE Finish(r)
  /\ UNCHANGED <<active, row, jar>>

\* bcrypt hashes the first 72 bytes.  They hold the header of the token and the
\* start of its payload, the user's id, so all tokens of one user hash alike.
Digest(t) == t.sub

ValidateRefreshToken(r) ==
  LET q == req[r]
      valid == IsSessionActive(q.sid, q.sub) /\ Digest(q.token) = Digest(row[q.sid].hashed)
  IN  /\ q.pc = "validate"
      /\ req' = [req EXCEPT ![r] =
                  [q EXCEPT !.pc = IF valid THEN "sign" ELSE "deleteSession",
                            !.expired = IF row[q.sid] = None THEN TRUE ELSE row[q.sid].left = 0]]
      /\ UNCHANGED <<active, row, jar>>

\* The refused session is deleted by its id alone; errors are swallowed.
DeleteSession(r) ==
  /\ req[r].pc = "deleteSession"
  /\ row' = [row EXCEPT ![req[r].sid] = None]
  /\ Finish(r)
  /\ UNCHANGED <<active, jar>>

GenerateTokenPair(r, j) ==
  LET q == req[r] IN
  /\ q.pc = "sign"
  /\ j \in FreshJtis
  /\ req' = [req EXCEPT ![r] = [q EXCEPT !.pc = "rotate", !.issued = SignedToken(j, q.sub)]]
  /\ UNCHANGED <<active, row, jar>>

RotatedKeepingExpiry(s, t) == [row[s] EXCEPT !.hashed = t]   \* a mutant
RotatedRow(s, t) == [row[s] EXCEPT !.hashed = t, !.left = t.left]

\* An update by id: P2025 (500) when the row is gone.
RotateRefreshToken(r) ==
  LET q == req[r] IN
  /\ q.pc = "rotate"
  /\ IF row[q.sid] # None
       THEN row' = [row EXCEPT ![q.sid] = RotatedRow(q.sid, q.issued)] /\ Goto(r, "respond")
       ELSE UNCHANGED row /\ Finish(r)
  /\ UNCHANGED <<active, jar>>

-----------------------------------------------------------------------------
(* responses and logout *)

Respond(r) ==
  LET q == req[r] IN
  /\ q.pc = "respond"
  /\ jar' = [jar EXCEPT ![q.browser] = [token |-> q.issued, sid |-> q.sid]]
  /\ Finish(r)
  /\ UNCHANGED <<active, row>>

\* AuthGuard does not set the request's sessionId, so logout deletes nothing
\* and only clears the cookies.
SessionToEnd(b) == None

Logout(b) ==
  /\ jar[b] # None
  /\ row' = [s \in SessionIds |-> IF s = SessionToEnd(b) THEN None ELSE row[s]]
  /\ jar' = [jar EXCEPT ![b] = None]
  /\ UNCHANGED <<active, req>>

-----------------------------------------------------------------------------
(* The environment *)

Older(t) == IF t = None \/ t.left = 0 THEN t ELSE [t EXCEPT !.left = @ - 1]

Tick ==
  /\ row' = [s \in SessionIds |-> IF row[s] = None THEN None
               ELSE [Older(row[s]) EXCEPT !.hashed = Older(@)]]
  /\ jar' = [b \in Browsers |-> IF jar[b] = None THEN None
               ELSE [jar[b] EXCEPT !.token = Older(@)]]
  /\ req' = [r \in Requests |->
               [req[r] EXCEPT !.token = Older(@), !.issued = Older(@)]]
  /\ UNCHANGED active

\* isActive is only read here; an operator of the shop changes it.
SetActive(u) ==
  /\ active' = IF u \in active THEN active \ {u} ELSE active \cup {u}
  /\ UNCHANGED <<row, jar, req>>

\* A failed database call, a restart, or a response that never arrives.
Abort(r) == req[r].pc # "idle" /\ Finish(r) /\ UNCHANGED <<active, row, jar>>

HandlerStep(r) ==
  \/ \E s \in SessionIds : CreateSession(r, s)
  \/ GuardSession(r)
  \/ ValidateRefreshToken(r)
  \/ DeleteSession(r)
  \/ \E j \in TokenIds : GenerateTokenPair(r, j)
  \/ RotateRefreshToken(r)
  \/ Respond(r)
  \/ Abort(r)

Next ==
  \/ \E r \in Requests, b \in Browsers, u \in Users, j \in TokenIds : LoginCheck(r, b, u, j)
  \/ \E r \in Requests, b \in Browsers : GuardToken(r, b)
  \/ \E r \in Requests : HandlerStep(r)
  \/ \E b \in Browsers : Logout(b)
  \/ Tick
  \/ \E u \in Users : SetActive(u)

Spec == Init /\ [][Next]_vars

\* The event loop runs every handler to its end, and time passes.
FairSpec == Spec /\ WF_vars(Tick) /\ \A r \in Requests : WF_vars(HandlerStep(r))

-----------------------------------------------------------------------------
(* What holds under every interleaving. *)

\* Every variable has its type.
TypeOK == /\ active \subseteq Users
          /\ row \in [SessionIds -> SessionRow \cup {None}]
          /\ jar \in [Browsers -> Cookies \cup {None}]
          /\ req \in [Requests -> Handler]

OwnerIs(s, u) == row[s] # None => row[s].userId = u

\* A row's hash and expiry are those of one token of its own user, although
\* rotateRefreshToken writes both by session id alone.
RowsConsistent ==
  \A s \in SessionIds : row[s] # None =>
    row[s].hashed.sub = row[s].userId /\ row[s].hashed.left = row[s].left

\* The two cookies of a jar belong together: their session, while it exists, is
\* of the user of their token (login and refresh set both).
JarsConsistent ==
  \A b \in Browsers : jar[b] # None => OwnerIs(jar[b].sid, jar[b].token.sub)

\* Requests that may still give a session of u time, and the sessions a step gives it.
Renewing(u) ==
  {r \in Requests :
     /\ req[r].sub = u
     /\ req[r].pc \in {"createSession", "guardSession", "validate", "sign", "rotate"}}
Renewed(u) ==
  {s \in SessionIds : /\ row'[s] # None /\ row'[s].userId = u
                      /\ row[s] = None \/ row'[s].left > row[s].left}

\* isActive is read when a login or a refresh begins, and the session is written
\* calls later.  A deactivated user still gets one renewal for each request that
\* was on its way, and no more: no request joins them, and a renewal uses one up.
RenewalsRunOut ==
  [][\A u \in Users \ active :
       /\ Renewing(u)' \subseteq Renewing(u)
       /\ Renewed(u) # {} => Renewing(u)' # Renewing(u)]_vars

\* Once a user is deactivated for good, all sessions of the user run out: the
\* guard reads isActive before every refresh, and what it let through before
\* comes to an end.
DeactivatedSessionsExpire ==
  \A u \in Users : <>[](u \notin active) =>
    <>[](\A s \in SessionIds : row[s] # None /\ row[s].userId = u => row[s].left = 0)

-----------------------------------------------------------------------------
(* What holds one request at a time, and what the code does not do. *)

\* A jar whose refresh token has not expired can be used: its session is there
\* and active ("Refresh token invalid, expired, or session revoked" is the only
\* reason to refuse it, and nothing revokes a session).  A jar that missed the
\* response of its last refresh holds a superseded token, and this rests on Digest.
CookiesUsable ==
  \A b \in Browsers : jar[b] # None /\ jar[b].token.left > 0 =>
    IsSessionActive(jar[b].sid, jar[b].token.sub)

\* Logout ends the session whose cookie it clears ("Invalidate the current
\* session and refresh token", auth.controller.ts).
LogoutEndsSession ==
  [][\A b \in Browsers : jar[b] # None /\ jar'[b] = None => row'[jar[b].sid] = None]_vars

\* A token that a refresh has rotated away is refused ("Rotate the refresh token"
\* and "Refresh token invalid, expired, or session revoked", auth.controller.ts):
\* validateRefreshToken accepts only the token that the row holds the hash of.
RotatedTokensRefused ==
  [][\A r \in Requests :
       req[r].pc = "validate" /\ req'[r].pc = "sign" =>
         req[r].token.jti = row[req[r].sid].hashed.jti]_vars

-----------------------------------------------------------------------------
(* The table as SessionStore describes it.                                  *)

Lease(s) == IF row[s] = None THEN None ELSE [userId |-> row[s].userId, left |-> row[s].left]
FoundLapsed == {s \in SessionIds : \E r \in Requests :
                  req[r].pc = "deleteSession" /\ req[r].sid = s /\ req[r].expired}

Store == INSTANCE SessionStore WITH
  session <- [s \in SessionIds |-> Lease(s)],
  lapsed <- FoundLapsed

\* Logins, refreshes and logouts in flight together never hand a session to
\* another user, never end one that has not lapsed, and never bring one back.
\* That no refresh ends a session which has not lapsed rests on Digest: were two
\* tokens of a user told apart, a superseded one would end the session (162).
SessionsAreLeases == Store!Spec
=============================================================================
