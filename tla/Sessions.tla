------------------------------ MODULE Sessions ------------------------------
(***************************************************************************)
(* Sessions (internal/auth/auth.go): a login opens a family of refresh     *)
(* tokens, a refresh replaces the token it is sent by a new one of the     *)
(* same family, a logout revokes it.  The browser keeps the token in a     *)
(* cookie that all its tabs share; the answers to their requests change it *)
(* in the order in which they arrive.                                      *)
(*                                                                         *)
(* Refresh is a transaction that reads the token without a lock and        *)
(* updates it later, so it is two actions.  Where it refuses a token that  *)
(* is revoked or expired it also revokes the token's family, but in the    *)
(* transaction that the same return statement rolls back: the tables stay  *)
(* as they are.                                                            *)
(*                                                                         *)
(* A token is named after the request that issues it.  Registering ends    *)
(* with the same issueSession as a login.  Passwords, roles and access     *)
(* tokens, which no table keeps, are left out, and so is the user's        *)
(* status, which nothing in the repository changes.                        *)
(***************************************************************************)
EXTENDS Integers, FiniteSets

CONSTANTS
  Browser, Request,
  BrowserOf,     \* the browser each request is sent from
  None           \* no token

ASSUME SessionConstantsOK ==
  /\ BrowserOf \in [Request -> Browser]
  /\ None \notin Request

VARIABLES
  token,      \* table refresh_tokens
  cookie,     \* the cookie of each browser
  request,    \* how far each request is, the token it was sent with, and the
              \* cookie its answer carries
  family,     \* history: the family of each browser's latest login
  disturbed   \* history: browsers that had two requests under way at the same
              \* time, or one that failed or went unanswered

sessionVars == <<token, cookie, request, family, disturbed>>

-----------------------------------------------------------------------------
(* Rows and requests *)

Ref == Request \cup {None}
TokenRow == [family : Ref, revoked : BOOLEAN, replacedBy : Ref, expired : BOOLEAN]
NoRow == [family |-> None, revoked |-> FALSE, replacedBy |-> None, expired |-> FALSE]

Issued(t) == token[t].family # None
Live(t) == Issued(t) /\ ~token[t].revoked

\* The row of a token that has just been issued.
NewRow(f) == [NoRow EXCEPT !.family = f]

Kinds == {"login", "refresh", "logout"}
Places == {"new", "sent", "read", "answered", "done"}

At(r, place) == request[r].at = place
Is(r, kind) == request[r].kind = kind
UnderWay(b) ==
  {r \in Request : BrowserOf[r] = b /\ request[r].at \notin {"new", "done"}}

Answers(r, c) ==
  request' = [request EXCEPT ![r].at = "answered", ![r].answer = c]

Disturbs(r) == disturbed' = disturbed \cup {BrowserOf[r]}

Init ==
  /\ token = [t \in Request |-> NoRow]
  /\ cookie = [b \in Browser |-> None]
  /\ request = [r \in Request |->
       [at |-> "new", kind |-> "login", held |-> None, answer |-> None]]
  /\ family = [b \in Browser |-> None]
  /\ disturbed = {}

-----------------------------------------------------------------------------
(* The browser *)

\* Without a cookie, a refresh is refused and a logout does nothing.
Send(r) ==
  LET b == BrowserOf[r] IN
  /\ At(r, "new")
  /\ \E kind \in IF cookie[b] = None THEN {"login"} ELSE Kinds :
       request' = [request EXCEPT ![r].at = "sent", ![r].kind = kind, ![r].held = cookie[b]]
  /\ disturbed' = IF UnderWay(b) # {} THEN disturbed \cup {b} ELSE disturbed
  /\ UNCHANGED <<token, cookie, family>>

Receive(r) ==
  LET b == BrowserOf[r] IN
  /\ At(r, "answered")
  /\ request' = [request EXCEPT ![r].at = "done"]
  /\ cookie' = [cookie EXCEPT ![b] = request[r].answer]
  /\ family' = IF Is(r, "login") THEN [family EXCEPT ![b] = r] ELSE family
  /\ UNCHANGED <<token, disturbed>>

\* The request or its answer is lost, its transaction rolled back by a crash,
\* or a login refused.
Lose(r) ==
  /\ request[r].at \in {"sent", "read", "answered"}
  /\ request' = [request EXCEPT ![r].at = "done"]
  /\ Disturbs(r)
  /\ UNCHANGED <<token, cookie, family>>

-----------------------------------------------------------------------------
(* The service *)

Login(r) ==
  /\ At(r, "sent") /\ Is(r, "login")
  /\ token' = [token EXCEPT ![r] = NewRow(r)]
  /\ Answers(r, r)
  /\ UNCHANGED <<cookie, family, disturbed>>

RefreshRead(r) ==
  LET row == token[request[r].held] IN
  /\ At(r, "sent") /\ Is(r, "refresh")
  /\ IF row.revoked \/ row.expired
       THEN Answers(r, None)
       ELSE request' = [request EXCEPT ![r].at = "read"]
  /\ UNCHANGED <<token, cookie, family, disturbed>>

Exchanged_Unguarded(r) ==
  LET t == request[r].held IN
  /\ At(r, "read")
  /\ token' = [token EXCEPT ![t].revoked = TRUE, ![t].replacedBy = r,
                            ![r] = NewRow(token[t].family)]

\* The update names only rows that are not revoked; the new row is inserted if
\* it found one.
Exchanged(r) ==
  LET t == request[r].held IN
  /\ At(r, "read")
  /\ ~token[t].revoked
  /\ token' = [token EXCEPT ![t].revoked = TRUE, ![t].replacedBy = r,
                            ![r] = NewRow(token[t].family)]

Replaces(r) ==
  /\ Exchanged(r)
  /\ Answers(r, r)
  /\ UNCHANGED <<cookie, family, disturbed>>

ReplaceFindsNone(r) ==
  /\ At(r, "read")
  /\ token[request[r].held].revoked
  /\ Answers(r, None)
  /\ UNCHANGED <<token, cookie, family, disturbed>>

Logout_KeepsCookie(r) ==
  /\ At(r, "sent") /\ Is(r, "logout")
  /\ token' = [token EXCEPT ![request[r].held].revoked = TRUE]
  /\ Answers(r, request[r].held)
  /\ UNCHANGED <<cookie, family, disturbed>>

Logout(r) ==
  /\ At(r, "sent") /\ Is(r, "logout")
  /\ token' = [token EXCEPT ![request[r].held].revoked = TRUE]
  /\ Answers(r, None)
  /\ UNCHANGED <<cookie, family, disturbed>>

\* A statement fails: the refresh is refused like any other, and the logout
\* does not look at the error.
Fails(r) ==
  /\ request[r].at \in {"sent", "read"} /\ ~Is(r, "login")
  /\ Answers(r, None)
  /\ Disturbs(r)
  /\ UNCHANGED <<token, cookie, family>>

\* The commit takes effect but is reported as failed, or the access token cannot
\* be signed after it: the new token is not handed out and the cookie is cleared.
\* A login that fails like this sets no cookie, as if its answer were lost (Lose);
\* a logout answers as if it had not failed (Logout).
FailsLate(r) ==
  /\ Exchanged(r)
  /\ Answers(r, None)
  /\ Disturbs(r)
  /\ UNCHANGED <<cookie, family>>

\* The token's expires_at has passed.
Expire(t) ==
  /\ Issued(t) /\ ~token[t].expired
  /\ token' = [token EXCEPT ![t].expired = TRUE]
  /\ UNCHANGED <<cookie, request, family, disturbed>>

\* The browser drops a cookie whose time has passed, which is that of its token.
CookieExpires(b) ==
  /\ cookie[b] # None /\ token[cookie[b]].expired
  /\ cookie' = [cookie EXCEPT ![b] = None]
  /\ UNCHANGED <<token, request, family, disturbed>>

Next ==
  \/ \E b \in Browser : CookieExpires(b)
  \/ \E r \in Request :
       \/ Send(r) \/ Receive(r) \/ Lose(r)
       \/ Login(r) \/ RefreshRead(r) \/ Replaces(r) \/ ReplaceFindsNone(r)
       \/ Logout(r) \/ Fails(r) \/ FailsLate(r) \/ Expire(r)

Spec == Init /\ [][Next]_sessionVars

-----------------------------------------------------------------------------
(* Properties *)

Calls == [at : Places, kind : Kinds, held : Ref, answer : Ref]

\* A request that needs a token has one that was issued, and a token that was
\* replaced is revoked.
SessionTypeOK ==
  /\ token \in [Request -> TokenRow]
  /\ cookie \in [Browser -> Ref]
  /\ request \in [Request -> Calls]
  /\ \A r \in Request :
       /\ request[r].at \in {"sent", "read"} /\ ~Is(r, "login")
            => request[r].held # None /\ Issued(request[r].held)
       /\ token[r].replacedBy # None => token[r].revoked
  /\ family \in [Browser -> Ref]
  /\ disturbed \in SUBSET Browser

\* However many tabs refresh with the same token at the same time, a family
\* never has two tokens that can still be used.
OneLivePerFamily ==
  \A t, u \in Request :
    Live(t) /\ Live(u) /\ token[t].family = token[u].family => t = u

Begun(f) == \E t \in Request : Issued(t) /\ token[t].family = f
Ended(f) == Begun(f) /\ ~\E t \in Request : Live(t) /\ token[t].family = f

\* A family whose last token was revoked stays without one: a refresh that had
\* read the token before a logout does not bring the session back.
EndedStaysEnded ==
  [][\A f \in Request : Ended(f) => Ended(f)']_sessionVars

Families == INSTANCE TokenFamilies
  WITH Token <- Request,
       session <- [t \in Request |-> token[t].family],
       usable <- {t \in Request : Live(t)}

\* A session is one key that is passed on: whatever requests race, are lost or
\* fail, a token is exchanged once at most, for one of its own family, and who
\* comes with a used or revoked token gets none.
FamiliesKept == Families!Spec

\* A browser that sends one request after the other, each of them answered,
\* holds the only usable token of its latest login as long as there is one,
\* and never one that was revoked: logouts end the session and nothing else
\* does but the time.
SessionKept ==
  \A b \in Browser \ disturbed :
    UnderWay(b) = {} =>
      /\ cookie[b] # None =>
           Live(cookie[b]) /\ token[cookie[b]].family = family[b]
      /\ \A t \in Request :
           Live(t) /\ ~token[t].expired /\ token[t].family = family[b] => t = cookie[b]
=============================================================================
