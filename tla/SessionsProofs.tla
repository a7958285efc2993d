--------------------------- MODULE SessionsProofs ---------------------------
(***************************************************************************)
(* Theorems about Sessions, for any browsers and requests.                 *)
(***************************************************************************)
EXTENDS Sessions, TLAPS

(***************************************************************************)
(* The inductive invariant.  A refresh may insert its row only because the *)
(* row it revokes was the live one, so what has to be known is where the   *)
(* tokens in cookies, requests and answers come from: each was issued, and *)
(* by a request that has been answered.                                    *)
(***************************************************************************)
IssuedByAnswered ==
  \A t \in Request : Issued(t) =>
    /\ request[t].at \in {"answered", "done"}
    /\ token[t].family \in Request /\ Issued(token[t].family)

CarriedIssued ==
  /\ \A b \in Browser : cookie[b] # None => Issued(cookie[b])
  /\ \A r \in Request :
       request[r].at = "answered" /\ request[r].answer # None => Issued(request[r].answer)

ReadByRefresh == \A r \in Request : At(r, "read") => Is(r, "refresh")

SInv ==
  /\ SessionTypeOK
  /\ IssuedByAnswered
  /\ CarriedIssued
  /\ ReadByRefresh
  /\ OneLivePerFamily

-----------------------------------------------------------------------------
(* What a step does to the rows *)

\* A row only ever gets older: it keeps its family, and a revocation stays.
Ages(t) ==
  /\ token'[t] \in TokenRow
  /\ token'[t].family = token[t].family
  /\ token[t].revoked => token'[t].revoked
  /\ token'[t].replacedBy # None => token'[t].revoked

\* Nothing is issued.
Kept == token' \in [Request -> TokenRow] /\ \A t \in Request : Ages(t)

\* Only r is issued, into a family f of which no other token is live any more.
IssuedAlone(r, f) ==
  /\ token' \in [Request -> TokenRow]
  /\ \A t \in Request \ {r} : Ages(t)
  /\ ~Issued(r) /\ token'[r] = NewRow(f) /\ f \in Request
  /\ f = r \/ Issued(f)
  /\ \A t \in Request \ {r} : token[t].family = f => token'[t].revoked

LEMMA KeptRows ==
  ASSUME SInv, Kept
  PROVE  /\ OneLivePerFamily'
         /\ \A t \in Request : Issued(t)' <=> Issued(t)
         /\ \A t \in Request : Issued(t) =>
              token'[t].family \in Request /\ Issued(token[t].family)'
  BY DEF SInv, Kept, Ages, OneLivePerFamily, Live, Issued, IssuedByAnswered

LEMMA RowsWithNew ==
  ASSUME SInv, NEW r \in Request, NEW f \in Request, IssuedAlone(r, f)
  PROVE  /\ OneLivePerFamily'
         /\ \A t \in Request : Issued(t)' <=> Issued(t) \/ t = r
         /\ \A t \in Request : Issued(t)' =>
              token'[t].family \in Request /\ Issued(token[t].family)'
         /\ \A t \in Request : token'[t].replacedBy # None => token'[t].revoked
  <1>1. /\ token'[r].family = f /\ f # None /\ ~token'[r].revoked
        /\ token'[r].replacedBy = None
    BY SessionConstantsOK DEF IssuedAlone, NewRow, NoRow
  <1>2. \A t \in Request : Issued(t)' <=> Issued(t) \/ t = r
    BY <1>1 DEF IssuedAlone, Ages, Issued
  <1>3. ASSUME NEW t \in Request, Issued(t)'
        PROVE  token'[t].family \in Request /\ Issued(token[t].family)'
    <2>1. CASE t = r
      BY <1>1, <1>2, <2>1 DEF IssuedAlone
    <2>2. CASE t # r
      BY <1>2, <1>3, <2>2 DEF IssuedAlone, Ages, SInv, IssuedByAnswered, Issued
    <2>3. QED
      BY <2>1, <2>2
  <1>4. OneLivePerFamily'
    BY <1>1, <1>2 DEF IssuedAlone, Ages, SInv, OneLivePerFamily, Live, Issued
  <1>5. \A t \in Request : token'[t].replacedBy # None => token'[t].revoked
    BY <1>1 DEF IssuedAlone, Ages
  <1>6. QED
    BY <1>2, <1>3, <1>4, <1>5

-----------------------------------------------------------------------------
(* The service's steps *)

LEMMA LoginIssues ==
  ASSUME SInv, NEW r \in Request, Login(r)
  PROVE  IssuedAlone(r, r)
  <1>1. ~Issued(r)
    BY DEF Login, At, SInv, IssuedByAnswered
  <1>2. \A t \in Request : token[t].family # r
    BY <1>1, SessionConstantsOK DEF SInv, IssuedByAnswered, Issued
  <1>3. token' = [token EXCEPT ![r] = NewRow(r)] /\ token \in [Request -> TokenRow]
    BY DEF Login, SInv, SessionTypeOK
  <1>4. NewRow(r) \in TokenRow
    BY DEF NewRow, NoRow, TokenRow, Ref
  <1>5. \A t \in Request : token[t].replacedBy # None => token[t].revoked
    BY DEF SInv, SessionTypeOK
  <1>6. QED
    BY <1>1, <1>2, <1>3, <1>4, <1>5 DEF IssuedAlone, Ages

\* The token a refresh has read is issued, and is not the one it will issue.
LEMMA ReadHeld ==
  ASSUME SInv, NEW r \in Request, At(r, "read")
  PROVE  /\ request[r].held \in Request \ {r}
         /\ Issued(request[r].held) /\ ~Issued(r)
         /\ token[request[r].held].family \in Request
         /\ Issued(token[request[r].held].family)
  <1>1. Is(r, "refresh") /\ request[r] \in Calls
    BY DEF SInv, ReadByRefresh, SessionTypeOK
  <1>2. request[r].held \in Request /\ Issued(request[r].held)
    BY <1>1 DEF SInv, SessionTypeOK, At, Is, Calls, Ref
  <1>3. ~Issued(r)
    BY DEF SInv, IssuedByAnswered, At
  <1>4. QED
    BY <1>2, <1>3 DEF SInv, IssuedByAnswered

\* The guarded update leaves no other token of the family live.
LEMMA ExchangeIssues ==
  ASSUME SInv, NEW r \in Request, Exchanged(r)
  PROVE  IssuedAlone(r, token[request[r].held].family)
  <1> DEFINE h == request[r].held
             f == token[h].family
  <1>1. /\ h \in Request \ {r} /\ Issued(h) /\ ~Issued(r)
        /\ f \in Request /\ Issued(f)
    BY ReadHeld DEF Exchanged
  <1>2. /\ token \in [Request -> TokenRow]
        /\ token' = [token EXCEPT ![h].revoked = TRUE, ![h].replacedBy = r, ![r] = NewRow(f)]
        /\ ~token[h].revoked
    BY DEF Exchanged, SInv, SessionTypeOK
  <1>3. \A t \in Request : token[t].replacedBy # None => token[t].revoked
    BY DEF SInv, SessionTypeOK
  <1>4. NewRow(f) \in TokenRow
    BY <1>1 DEF NewRow, NoRow, TokenRow, Ref
  <1>5. \A t \in Request \ {h} : token[t].family = f => token[t].revoked
    BY <1>1, <1>2, SessionConstantsOK DEF SInv, OneLivePerFamily, Live, Issued
  <1> HIDE DEF h, f
  <1>6. /\ token'[r] = NewRow(f)
        /\ \A t \in Request \ {r, h} : token'[t] = token[t]
        /\ token'[h] = [token[h] EXCEPT !.revoked = TRUE, !.replacedBy = r]
    BY <1>1, <1>2
  <1>7. token' \in [Request -> TokenRow] /\ Ages(h)
    BY <1>1, <1>2, <1>4, <1>6 DEF Ages, TokenRow, Ref
  <1>8. \A t \in Request \ {r} : Ages(t)
    BY <1>2, <1>3, <1>6, <1>7 DEF Ages
  <1>9. \A t \in Request \ {r} : token[t].family = f => token'[t].revoked
    BY <1>1, <1>5, <1>6, <1>8 DEF Ages, TokenRow
  <1>10. IssuedAlone(r, f)
    BY <1>1, <1>6, <1>7, <1>8, <1>9 DEF IssuedAlone
  <1>11. QED
    BY <1>10 DEF f, h

\* The other steps issue nothing.
LEMMA OthersKeep ==
  ASSUME SInv, NEW r \in Request,
         \/ Send(r) \/ Receive(r) \/ Lose(r) \/ RefreshRead(r)
         \/ ReplaceFindsNone(r) \/ Logout(r) \/ Fails(r) \/ Expire(r)
  PROVE  Kept
  <1>1. /\ token \in [Request -> TokenRow]
        /\ \A t \in Request : token[t].replacedBy # None => token[t].revoked
    BY DEF SInv, SessionTypeOK
  <1>2. CASE UNCHANGED token
    BY <1>1, <1>2 DEF Kept, Ages
  <1>3. CASE Logout(r)
    <2>1. token' = [token EXCEPT ![request[r].held].revoked = TRUE]
      BY <1>3 DEF Logout
    <2>2. QED
      BY <1>1, <2>1 DEF Kept, Ages, TokenRow
  <1>4. CASE Expire(r)
    <2>1. token' = [token EXCEPT ![r].expired = TRUE]
      BY <1>4 DEF Expire
    <2>2. QED
      BY <1>1, <2>1 DEF Kept, Ages, TokenRow
  <1>5. QED
    BY <1>2, <1>3, <1>4 DEF Send, Receive, Lose, RefreshRead, ReplaceFindsNone, Fails

LEMMA UnchangedKept ==
  ASSUME SInv, UNCHANGED token
  PROVE  Kept
  BY DEF Kept, Ages, SInv, SessionTypeOK

-----------------------------------------------------------------------------
(* The invariant *)

\* A request moves to c and nothing is issued.
Moves(r, c) ==
  /\ Kept
  /\ request' = [request EXCEPT ![r] = c]
  /\ c \in Calls
  /\ c.at \in {"new", "sent", "read"} => ~Issued(r)
  /\ c.at \in {"sent", "read"} /\ c.kind # "login" => c.held # None /\ Issued(c.held)
  /\ c.at = "answered" /\ c.answer # None => Issued(c.answer)
  /\ c.at = "read" => c.kind = "refresh"

\* What else a step may set.
RestOK ==
  /\ cookie' \in [Browser -> Ref]
  /\ \A b \in Browser : cookie'[b] # None => Issued(cookie'[b])
  /\ family' \in [Browser -> Ref]
  /\ disturbed' \in SUBSET Browser

LEMMA RestKept ==
  ASSUME SInv, cookie' = cookie, family' = family,
         disturbed' = disturbed \/ \E r \in Request : Disturbs(r)
  PROVE  RestOK
  BY SessionConstantsOK DEF SInv, SessionTypeOK, CarriedIssued, RestOK, Disturbs

LEMMA MovesKeep ==
  ASSUME SInv, NEW r \in Request, NEW c, Moves(r, c), RestOK
  PROVE  SInv'
  <1>1. /\ OneLivePerFamily'
        /\ \A t \in Request : Issued(t)' <=> Issued(t)
        /\ \A t \in Request : Issued(t) =>
             token'[t].family \in Request /\ Issued(token[t].family)'
    BY KeptRows DEF Moves
  <1>2. /\ request \in [Request -> Calls] /\ request' \in [Request -> Calls]
        /\ request'[r] = c /\ \A q \in Request \ {r} : request'[q] = request[q]
    BY DEF Moves, SInv, SessionTypeOK
  <1>3. \A q \in Request : request[q].held \in Ref /\ request[q].answer \in Ref
                        /\ c.held \in Ref /\ c.answer \in Ref /\ c.at \in Places
    BY <1>2 DEF Calls, Moves
  <1>4. SessionTypeOK'
    <2>1. \A q \in Request : token'[q].replacedBy # None => token'[q].revoked
      BY DEF Moves, Kept, Ages
    <2>2. ASSUME NEW q \in Request, request'[q].at \in {"sent", "read"}, ~Is(q, "login")'
          PROVE  request'[q].held # None /\ Issued(request[q].held)'
      <3>1. request'[q].held # None /\ Issued(request'[q].held) /\ request'[q].held \in Ref
        BY <1>2, <1>3, <2>2 DEF Moves, SInv, SessionTypeOK, Is
      <3>2. request'[q].held \in Request
        BY <3>1 DEF Ref
      <3>3. QED
        BY <1>1, <3>1, <3>2 DEF Issued
    <2>3. QED
      BY <1>2, <2>1, <2>2 DEF SessionTypeOK, Moves, Kept, RestOK
  <1>5. IssuedByAnswered'
    BY <1>1, <1>2, <1>3 DEF IssuedByAnswered, SInv, Moves, Places
  <1>6. CarriedIssued'
    <2>1. \A b \in Browser : cookie'[b] # None => Issued(cookie[b])'
      BY <1>1 DEF RestOK, Ref, Issued
    <2>2. ASSUME NEW q \in Request, request'[q].at = "answered", request'[q].answer # None
          PROVE  Issued(request[q].answer)'
      <3>1. Issued(request'[q].answer) /\ request'[q].answer \in Request
        BY <1>2, <1>3, <2>2 DEF Moves, SInv, CarriedIssued, Ref
      <3>2. QED
        BY <1>1, <3>1 DEF Issued
    <2>3. QED
      BY <2>1, <2>2 DEF CarriedIssued
  <1>7. ReadByRefresh'
    BY <1>2 DEF ReadByRefresh, SInv, Moves, At, Is
  <1>8. QED
    BY <1>1, <1>4, <1>5, <1>6, <1>7 DEF SInv

\* A request issues its token and is answered with it, or with nothing.
LEMMA IssuesKeep ==
  ASSUME SInv, NEW r \in Request, NEW f \in Request, IssuedAlone(r, f),
         NEW a \in {r, None}, Answers(r, a), UNCHANGED <<cookie, family>>,
         disturbed' = disturbed \/ Disturbs(r)
  PROVE  SInv'
  <1>1. /\ OneLivePerFamily'
        /\ \A t \in Request : Issued(t)' <=> Issued(t) \/ t = r
        /\ \A t \in Request : Issued(t)' =>
             token'[t].family \in Request /\ Issued(token[t].family)'
        /\ \A t \in Request : token'[t].replacedBy # None => token'[t].revoked
    BY RowsWithNew
  <1>2. /\ request \in [Request -> Calls]
        /\ request' = [request EXCEPT ![r].at = "answered", ![r].answer = a]
    BY DEF Answers, SInv, SessionTypeOK
  <1>3. /\ request' \in [Request -> Calls]
        /\ request'[r].at = "answered" /\ request'[r].answer = a
        /\ \A q \in Request \ {r} : request'[q] = request[q]
    BY <1>2 DEF Calls, Places, Ref
  <1>4. SessionTypeOK'
    <2>1. ASSUME NEW q \in Request, request'[q].at \in {"sent", "read"}, ~Is(q, "login")'
          PROVE  request'[q].held # None /\ Issued(request[q].held)'
      <3>1. request'[q] = request[q] /\ request[q] \in Calls
        BY <1>2, <1>3, <2>1
      <3>2. request[q].held # None /\ Issued(request[q].held) /\ request[q].held \in Request
        BY <2>1, <3>1 DEF SInv, SessionTypeOK, Is, Calls, Ref
      <3>3. QED
        BY <1>1, <3>1, <3>2 DEF Issued
    <2>2. disturbed' \in SUBSET Browser
      BY SessionConstantsOK DEF Disturbs, SInv, SessionTypeOK
    <2>3. QED
      BY <1>1, <1>3, <2>1, <2>2 DEF SessionTypeOK, SInv, IssuedAlone
  <1>5. IssuedByAnswered'
    BY <1>1, <1>3 DEF IssuedByAnswered, SInv
  <1>6. CarriedIssued'
    <2>1. \A b \in Browser : cookie'[b] # None => Issued(cookie[b])'
      BY <1>1 DEF SInv, SessionTypeOK, CarriedIssued, Ref, Issued
    <2>2. ASSUME NEW q \in Request, request'[q].at = "answered", request'[q].answer # None
          PROVE  Issued(request[q].answer)'
      <3>1. CASE q = r
        BY <1>1, <1>3, <2>2, <3>1 DEF Issued
      <3>2. CASE q # r
        <4>1. Issued(request[q].answer) /\ request[q].answer \in Request
          BY <1>2, <1>3, <2>2, <3>2 DEF SInv, CarriedIssued, Calls, Ref
        <4>2. QED
          BY <1>1, <1>3, <3>2, <4>1 DEF Issued
      <3>3. QED
        BY <3>1, <3>2
    <2>3. QED
      BY <2>1, <2>2 DEF CarriedIssued
  <1>7. ReadByRefresh'
    BY <1>3 DEF ReadByRefresh, SInv, At, Is
  <1>8. QED
    BY <1>1, <1>4, <1>5, <1>6, <1>7 DEF SInv

\* A step that moves no request.
LEMMA StaysKeep ==
  ASSUME SInv, Kept, RestOK, UNCHANGED request
  PROVE  SInv'
  <1>1. CASE Request = {}
    <2>1. token' = token
      BY <1>1 DEF SInv, SessionTypeOK, Kept
    <2>2. QED
      BY <1>1, <2>1 DEF SInv, SessionTypeOK, IssuedByAnswered, CarriedIssued, ReadByRefresh,
         OneLivePerFamily, Issued, Kept, RestOK
  <1>2. CASE Request # {}
    <2>1. PICK r \in Request : TRUE
      BY <1>2
    <2>2. Moves(r, request[r])
      BY DEF SInv, SessionTypeOK, IssuedByAnswered, CarriedIssued, ReadByRefresh, Moves,
         Calls, Is, At
    <2>3. QED
      BY <2>2, MovesKeep
  <1>3. QED
    BY <1>1, <1>2

LEMMA SessionStep == SInv /\ [Next]_sessionVars => SInv'
  <1> SUFFICES ASSUME SInv, [Next]_sessionVars PROVE SInv'
    OBVIOUS
  <1> USE DEF Moves
  <1>0. /\ request \in [Request -> Calls] /\ cookie \in [Browser -> Ref]
        /\ \A r \in Request : Issued(r) => request[r].at \in {"answered", "done"}
    BY DEF SInv, SessionTypeOK, IssuedByAnswered
  <1>1. ASSUME NEW r \in Request, Send(r) PROVE SInv'
    <2>1. PICK kind \in Kinds :
            /\ cookie[BrowserOf[r]] = None => kind = "login"
            /\ request' = [request EXCEPT ![r].at = "sent", ![r].kind = kind,
                                          ![r].held = cookie[BrowserOf[r]]]
      BY <1>1 DEF Send, Kinds
    <2> DEFINE c == [request[r] EXCEPT !.at = "sent", !.kind = kind,
                                       !.held = cookie[BrowserOf[r]]]
    <2>2. c \in Calls /\ request' = [request EXCEPT ![r] = c]
      BY <1>0, <2>1, SessionConstantsOK DEF Calls, Places
    <2>3. ~Issued(r)
      BY <1>0, <1>1 DEF Send, At
    <2>4. cookie[BrowserOf[r]] # None => Issued(cookie[BrowserOf[r]])
      BY SessionConstantsOK DEF SInv, CarriedIssued
    <2>5. c.at = "sent" /\ c.kind = kind /\ c.held = cookie[BrowserOf[r]]
      BY <1>0 DEF Calls
    <2> HIDE DEF c
    <2>6. Moves(r, c)
      BY <1>1, <2>1, <2>2, <2>3, <2>4, <2>5, OthersKeep
    <2>7. RestOK
      BY <1>1, SessionConstantsOK DEF Send, SInv, SessionTypeOK, CarriedIssued, RestOK
    <2>8. QED
      BY <2>6, <2>7, MovesKeep
  <1>2. ASSUME NEW r \in Request, Receive(r) \/ Lose(r) PROVE SInv'
    <2> DEFINE c == [request[r] EXCEPT !.at = "done"]
    <2>1. request' = [request EXCEPT ![r] = c] /\ c \in Calls /\ c.at = "done"
      BY <1>0, <1>2 DEF Receive, Lose, Calls, Places
    <2>2. Moves(r, c)
      BY <1>2, <2>1, OthersKeep
    <2>3. CASE Lose(r)
      BY <2>2, <2>3, RestKept, MovesKeep DEF Lose
    <2>4. CASE Receive(r)
      <3>1. request[r].answer \in Ref
        BY <1>0 DEF Calls
      <3>2. request[r].answer # None => Issued(request[r].answer)
        BY <2>4 DEF Receive, At, SInv, CarriedIssued
      <3>3. RestOK
        BY <2>4, <3>1, <3>2 DEF Receive, SInv, SessionTypeOK, CarriedIssued, RestOK, Ref
      <3>4. QED
        BY <2>2, <3>3, MovesKeep
    <2>5. QED
      BY <1>2, <2>3, <2>4
  <1>3. ASSUME NEW r \in Request, Login(r) PROVE SInv'
    BY <1>3, LoginIssues, IssuesKeep DEF Login
  <1>4. ASSUME NEW r \in Request, Replaces(r) PROVE SInv'
    BY <1>4, ExchangeIssues, ReadHeld, IssuesKeep DEF Replaces, Exchanged
  <1>11. ASSUME NEW r \in Request, FailsLate(r) PROVE SInv'
    BY <1>11, ExchangeIssues, ReadHeld, IssuesKeep DEF FailsLate, Exchanged
  <1>5. ASSUME NEW r \in Request, Answers(r, None),
               ReplaceFindsNone(r) \/ Logout(r) \/ Fails(r) \/ RefreshRead(r)
        PROVE  SInv'
    <2> DEFINE c == [request[r] EXCEPT !.at = "answered", !.answer = None]
    <2>1. /\ request' = [request EXCEPT ![r] = c] /\ c \in Calls
          /\ c.at = "answered" /\ c.answer = None
      BY <1>0, <1>5 DEF Answers, Calls, Places, Ref
    <2>2. Moves(r, c)
      BY <1>5, <2>1, OthersKeep
    <2>3. RestOK
      BY <1>5, RestKept DEF ReplaceFindsNone, Logout, Fails, RefreshRead
    <2>4. QED
      BY <2>2, <2>3, MovesKeep
  <1>6. ASSUME NEW r \in Request, RefreshRead(r), ~Answers(r, None) PROVE SInv'
    <2> DEFINE c == [request[r] EXCEPT !.at = "read"]
    <2>1. /\ request' = [request EXCEPT ![r] = c] /\ c \in Calls
          /\ c.at = "read" /\ c.kind = "refresh" /\ c.held = request[r].held
      BY <1>0, <1>6 DEF RefreshRead, Calls, Places, Is
    <2>2. ~Issued(r) /\ request[r].held # None /\ Issued(request[r].held)
      BY <1>0, <1>6 DEF RefreshRead, At, Is, SInv, SessionTypeOK
    <2>3. Moves(r, c)
      BY <1>6, <2>1, <2>2, OthersKeep
    <2>4. QED
      BY <1>6, <2>3, RestKept, MovesKeep DEF RefreshRead
  <1>7. ASSUME NEW r \in Request, Expire(r) PROVE SInv'
    BY <1>7, OthersKeep, RestKept, StaysKeep DEF Expire
  <1>8. ASSUME NEW b \in Browser, CookieExpires(b) PROVE SInv'
    <2>1. RestOK
      BY <1>8 DEF CookieExpires, SInv, SessionTypeOK, CarriedIssued, RestOK, Ref
    <2>2. QED
      BY <1>8, <2>1, UnchangedKept, StaysKeep DEF CookieExpires
  <1>9. CASE UNCHANGED sessionVars
    BY <1>9, UnchangedKept, RestKept, StaysKeep DEF sessionVars
  <1>10. QED
    BY <1>1, <1>2, <1>3, <1>4, <1>5, <1>6, <1>7, <1>8, <1>9, <1>11
       DEF Next, ReplaceFindsNone, Logout, Fails

-----------------------------------------------------------------------------
(* Theorems *)

\* Every reachable state satisfies the invariant.
THEOREM SessionInvariance == Spec => []SInv
  <1>1. Init => SInv
    BY SessionConstantsOK DEF Init, SInv, SessionTypeOK, IssuedByAnswered, CarriedIssued,
       ReadByRefresh, OneLivePerFamily, Live, Issued, NoRow, TokenRow, Ref, Calls, Places,
       Kinds, At
  <1>2. QED
    BY <1>1, SessionStep, PTL DEF Spec

\* Tokens and requests are well-typed, and a request that needs a token
\* presents one that was issued (the cookie is set by issueSession only).
THEOREM SessionTypes == Spec => []SessionTypeOK
  BY SessionInvariance, PTL DEF SInv

\* However refreshes and logouts interleave, Refresh's guarded update leaves a
\* family at most one token that can be used.
THEOREM FamiliesHaveOneLive == Spec => []OneLivePerFamily
  BY SessionInvariance, PTL DEF SInv

\* A family whose last token was revoked gets no other: Refresh inserts only
\* where it revokes, and a login opens a family of its own.
THEOREM EndedFamiliesStay == Spec => EndedStaysEnded
  <1>1. ASSUME SInv, [Next]_sessionVars, NEW f \in Request, Ended(f)
        PROVE  Ended(f)'
    <2>1. ASSUME Kept PROVE Ended(f)'
      BY <1>1, <2>1, KeptRows DEF Ended, Begun, Kept, Ages, Live, Issued
    <2>2. ASSUME NEW r \in Request, NEW g \in Request, IssuedAlone(r, g), f # g
          PROVE  Ended(f)'
      <3>1. token'[r].family = g
        BY <2>2 DEF IssuedAlone, NewRow, NoRow
      <3>2. QED
        BY <1>1, <2>2, <3>1, RowsWithNew DEF Ended, Begun, IssuedAlone, Ages, Live, Issued
    <2>3. CASE \E r \in Request : Login(r)
      <3>1. PICK r \in Request : Login(r)
        BY <2>3
      <3>2. IssuedAlone(r, r)
        BY <1>1, <3>1, LoginIssues
      <3>3. f # r
        BY <1>1, <3>2 DEF IssuedAlone, Ended, Begun, SInv, IssuedByAnswered
      <3>4. QED
        BY <2>2, <3>2, <3>3
    <2>4. CASE \E r \in Request : Exchanged(r)
      <3>1. PICK r \in Request : Exchanged(r)
        BY <2>4
      <3>2. /\ request[r].held \in Request /\ token[request[r].held].family \in Request
            /\ Live(request[r].held)
        BY <1>1, <3>1, ReadHeld DEF Exchanged, Live
      <3>3. f # token[request[r].held].family
        BY <1>1, <3>2 DEF Ended
      <3>4. QED
        BY <1>1, <2>2, <3>1, <3>2, <3>3, ExchangeIssues
    <2>5. CASE UNCHANGED token
      BY <1>1, <2>1, <2>5, UnchangedKept
    <2>6. QED
      BY <1>1, <2>1, <2>3, <2>4, <2>5, OthersKeep
         DEF Next, Replaces, FailsLate, CookieExpires, sessionVars
  <1>2. SInv /\ [Next]_sessionVars =>
          [\A f \in Request : Ended(f) => Ended(f)']_sessionVars
    BY <1>1
  <1>3. QED
    BY <1>2, SessionInvariance, PTL DEF Spec, EndedStaysEnded

-----------------------------------------------------------------------------
(***************************************************************************)
(* What an undisturbed browser has.  Tokens, cookies and answers stay with *)
(* the browser they were issued to (Owned), so nobody else changes them;   *)
(* of its own requests at most one is under way (Alone), and what that one *)
(* was sent with, or will be answered with, is the only usable token of    *)
(* the session (KeptFor).                                                  *)
(***************************************************************************)
Owned ==
  /\ \A t \in Request : Issued(t) => BrowserOf[token[t].family] = BrowserOf[t]
  /\ \A b \in Browser : /\ cookie[b] # None => BrowserOf[cookie[b]] = b
                        /\ family[b] # None => BrowserOf[family[b]] = b
  /\ \A r \in Request :
       /\ request[r].held # None => BrowserOf[request[r].held] = BrowserOf[r]
       /\ At(r, "answered") /\ request[r].answer # None
            => BrowserOf[request[r].answer] = BrowserOf[r]

Open(q) == q.at \notin {"new", "done"}

Alone ==
  \A r, s \in Request :
    /\ BrowserOf[r] = BrowserOf[s] /\ BrowserOf[r] \notin disturbed
    /\ Open(request[r]) /\ Open(request[s])
    => r = s

\* Among the rows, c is usable, or nothing, and no other of the family is.
Sole(rows, c, f) ==
  /\ c # None => rows[c].family = f /\ f # None /\ ~rows[c].revoked
  /\ \A t \in Request :
       /\ f # None /\ rows[t].family = f
       /\ ~rows[t].revoked /\ ~rows[t].expired
       => t = c

\* What the browser will have when the request is answered, as far as it is known.
Due(q) == IF q.at = "answered" THEN q.answer ELSE q.held
DueFamily(r, q, f) == IF q.at = "answered" /\ q.kind = "login" THEN r ELSE f

KeptFor(b) ==
  /\ \A r \in Request :
       BrowserOf[r] = b /\ Open(request[r])
         => Sole(token, Due(request[r]), DueFamily(r, request[r], family[b]))
  /\ (\A r \in Request : BrowserOf[r] = b => ~Open(request[r]))
       => Sole(token, cookie[b], family[b])

KInv == Owned /\ Alone /\ \A b \in Browser \ disturbed : KeptFor(b)

\* Only what belongs to b changes.
Touches(b) ==
  /\ \A t \in Request :
       BrowserOf[t] # b => token'[t] = token[t] /\ request'[t] = request[t]
  /\ \A c \in Browser \ {b} : cookie'[c] = cookie[c] /\ family'[c] = family[c]
  /\ disturbed \subseteq disturbed'

LEMMA Elsewhere ==
  ASSUME SInv, SInv', Owned, Owned', NEW b \in Browser, NEW c \in Browser \ {b},
         KeptFor(c), Touches(b)
  PROVE  KeptFor(c)'
  <1>1. ASSUME NEW x \in Ref, NEW f \in Ref, Sole(token, x, f),
               x # None => BrowserOf[x] = c, f # None => BrowserOf[f] = c
        PROVE  Sole(token', x, f)
    <2>1. ASSUME NEW t \in Request, f # None, token'[t].family = f
          PROVE  token'[t] = token[t]
      BY <1>1, <2>1 DEF Owned, Issued, Touches
    <2>2. x # None => token'[x] = token[x]
      BY <1>1 DEF Touches, Ref
    <2>3. QED
      BY <1>1, <2>1, <2>2 DEF Sole
  <1>2. /\ cookie'[c] = cookie[c] /\ cookie[c] \in Ref
        /\ family'[c] = family[c] /\ family[c] \in Ref
        /\ \A r \in Request : BrowserOf[r] = c => request'[r] = request[r]
        /\ \A r \in Request : request[r] \in Calls
    BY DEF Touches, SInv, SessionTypeOK
  <1>3. ASSUME NEW r \in Request, BrowserOf[r] = c, Open(request'[r])
        PROVE  Sole(token', Due(request'[r]), DueFamily(r, request'[r], family'[c]))
    <2> DEFINE x == Due(request[r])
               f == DueFamily(r, request[r], family[c])
    <2>1. x \in Ref /\ f \in Ref
      BY <1>2 DEF Due, DueFamily, Calls, Ref
    <2>2. (x # None => BrowserOf[x] = c) /\ (f # None => BrowserOf[f] = c)
      BY <1>3 DEF Due, DueFamily, Owned, At
    <2>3. Sole(token, x, f)
      BY <1>2, <1>3 DEF KeptFor
    <2> HIDE DEF x, f
    <2>4. Sole(token', x, f)
      BY <1>1, <2>1, <2>2, <2>3
    <2>5. QED
      BY <1>2, <1>3, <2>4 DEF x, f
  <1>4. ASSUME Sole(token, cookie[c], family[c])
        PROVE  Sole(token', cookie'[c], family'[c])
    BY <1>1, <1>2, <1>4 DEF Owned
  <1>5. QED
    BY <1>2, <1>3, <1>4 DEF KeptFor

-----------------------------------------------------------------------------
(* Tokens stay with their browser *)

LEMMA OwnedKept ==
  ASSUME SInv, Owned, Kept,
         \A b \in Browser : cookie'[b] \in {None, cookie[b]} /\ family'[b] = family[b],
         \A r \in Request :
           /\ \/ request'[r].held \in {None, request[r].held}
              \/ request'[r].held = cookie[BrowserOf[r]]
           /\ request'[r].at = "answered" =>
                \/ request'[r].answer = None
                \/ At(r, "answered") /\ request'[r].answer = request[r].answer
  PROVE  Owned'
  <1>1. \A t \in Request : Issued(t)' => BrowserOf[token'[t].family] = BrowserOf[t]
    BY DEF Kept, Ages, Owned, Issued
  <1>2. \A b \in Browser : /\ cookie'[b] # None => BrowserOf[cookie'[b]] = b
                           /\ family'[b] # None => BrowserOf[family'[b]] = b
    BY DEF Owned
  <1>3. \A r \in Request :
          /\ request'[r].held # None => BrowserOf[request'[r].held] = BrowserOf[r]
          /\ request'[r].at = "answered" /\ request'[r].answer # None
               => BrowserOf[request'[r].answer] = BrowserOf[r]
    BY SessionConstantsOK DEF Owned, At
  <1>4. QED
    BY <1>1, <1>2, <1>3 DEF Owned, Issued, At

LEMMA OwnedIssues ==
  ASSUME SInv, Owned, NEW r \in Request, NEW f \in Request, IssuedAlone(r, f),
         BrowserOf[f] = BrowserOf[r], NEW a \in {r, None}, Answers(r, a),
         UNCHANGED <<cookie, family>>
  PROVE  Owned'
  <1>1. /\ request \in [Request -> Calls]
        /\ request' = [request EXCEPT ![r].at = "answered", ![r].answer = a]
    BY DEF Answers, SInv, SessionTypeOK
  <1>2. /\ request'[r].held = request[r].held /\ request'[r].answer = a
        /\ \A q \in Request \ {r} : request'[q] = request[q]
    BY <1>1 DEF Calls
  <1>3. token'[r].family = f
    BY DEF IssuedAlone, NewRow, NoRow
  <1>4. \A t \in Request : Issued(t)' => BrowserOf[token'[t].family] = BrowserOf[t]
    BY <1>3 DEF IssuedAlone, Ages, Owned, Issued
  <1>5. QED
    BY <1>2, <1>4 DEF Owned, Issued, At

-----------------------------------------------------------------------------
(* The steps of one request *)

\* Request r takes a step, its browser has no other under way, and what it is due
\* then, or has, is the only usable token.
LEMMA OwnStep ==
  ASSUME SInv, SInv', KInv, Owned', NEW r \in Request, Touches(BrowserOf[r]),
         \A q \in Request \ {r} : request'[q] = request[q],
         BrowserOf[r] \notin disturbed' =>
           /\ \A q \in Request \ {r} : BrowserOf[q] = BrowserOf[r] => ~Open(request[q])
           /\ IF Open(request'[r])
                THEN Sole(token', Due(request'[r]),
                          DueFamily(r, request'[r], family'[BrowserOf[r]]))
                ELSE Sole(token', cookie'[BrowserOf[r]], family'[BrowserOf[r]])
  PROVE  KInv'
  <1> DEFINE b == BrowserOf[r]
  <1>1. b \in Browser /\ disturbed \subseteq disturbed'
    BY SessionConstantsOK DEF Touches
  <1>2. Alone'
    <2>1. SUFFICES ASSUME NEW p \in Request, NEW q \in Request, BrowserOf[p] = BrowserOf[q],
                          BrowserOf[p] \notin disturbed', Open(request'[p]),
                          Open(request'[q])
                   PROVE  p = q
      BY DEF Alone
    <2>2. CASE p # r /\ q # r
      BY <1>1, <2>1, <2>2 DEF KInv, Alone
    <2>3. CASE p = r \/ q = r
      BY <2>1, <2>3
    <2>4. QED
      BY <2>2, <2>3
  <1>3. ASSUME NEW c \in Browser \ {b}, c \notin disturbed'
        PROVE  KeptFor(c)'
    BY <1>1, <1>3, Elsewhere DEF KInv
  <1>4. ASSUME b \notin disturbed' PROVE KeptFor(b)'
    BY <1>4 DEF KeptFor
  <1>5. QED
    BY <1>2, <1>3, <1>4 DEF KInv

\* What is known of a request that is under way.
LEMMA UnderWayKnown ==
  ASSUME SInv, KInv, NEW r \in Request, Open(request[r]), BrowserOf[r] \notin disturbed
  PROVE  /\ \A q \in Request \ {r} : BrowserOf[q] = BrowserOf[r] => ~Open(request[q])
         /\ Sole(token, Due(request[r]), DueFamily(r, request[r], family[BrowserOf[r]]))
  <1>1. BrowserOf[r] \in Browser
    BY SessionConstantsOK
  <1>2. QED
    BY <1>1 DEF KInv, Alone, KeptFor

\* A new token is the only usable one of its family.
LEMMA IssuedSole ==
  ASSUME SInv, NEW r \in Request, NEW f \in Request, IssuedAlone(r, f)
  PROVE  Sole(token', r, f)
  <1>1. token'[r].family = f /\ ~token'[r].revoked /\ f # None
    BY SessionConstantsOK DEF IssuedAlone, NewRow, NoRow
  <1>2. QED
    BY <1>1 DEF Sole, IssuedAlone, Ages

\* A request is answered with the token it has issued, or fails after that.
LEMMA IssueKeepsSession ==
  ASSUME SInv, SInv', KInv, NEW r \in Request, NEW f \in Request, IssuedAlone(r, f),
         BrowserOf[f] = BrowserOf[r], NEW a \in {r, None}, Answers(r, a),
         Open(request[r]),
         \A t \in Request : BrowserOf[t] # BrowserOf[r] => token'[t] = token[t],
         disturbed \subseteq disturbed',
         BrowserOf[r] \notin disturbed' =>
           a = r /\ DueFamily(r, request'[r], family[BrowserOf[r]]) = f,
         UNCHANGED <<cookie, family>>
  PROVE  KInv'
  <1>1. request \in [Request -> Calls]
    BY DEF SInv, SessionTypeOK
  <1>2. /\ request'[r].at = "answered" /\ request'[r].answer = a
        /\ \A q \in Request \ {r} : request'[q] = request[q]
    BY <1>1 DEF Answers, Calls
  <1>3. Owned'
    BY OwnedIssues DEF KInv
  <1>4. Touches(BrowserOf[r])
    BY <1>2 DEF Touches
  <1>5. Due(request'[r]) = a /\ Open(request'[r])
    BY <1>2 DEF Due, Open
  <1>6. Sole(token', r, f)
    BY IssuedSole
  <1>7. QED
    BY <1>2, <1>3, <1>4, <1>5, <1>6, UnderWayKnown, OwnStep

LEMMA LoginKeepsSession ==
  ASSUME SInv, SInv', KInv, NEW r \in Request, Login(r)
  PROVE  KInv'
  <1>1. IssuedAlone(r, r)
    BY LoginIssues
  <1>2. request \in [Request -> Calls] /\ token \in [Request -> TokenRow]
    BY DEF SInv, SessionTypeOK
  <1>3. \A t \in Request : BrowserOf[t] # BrowserOf[r] => token'[t] = token[t]
    BY <1>2 DEF Login
  <1>4. DueFamily(r, request'[r], family[BrowserOf[r]]) = r
    BY <1>2 DEF Login, Answers, DueFamily, Is, Calls
  <1>5. Open(request[r])
    BY DEF Login, At, Open
  <1>6. QED
    BY <1>1, <1>3, <1>4, <1>5, IssueKeepsSession DEF Login

LEMMA ExchangeKeepsSession ==
  ASSUME SInv, SInv', KInv, NEW r \in Request, Replaces(r) \/ FailsLate(r)
  PROVE  KInv'
  <1> DEFINE h == request[r].held
             f == token[h].family
  <1>1. IssuedAlone(r, f)
    BY ExchangeIssues DEF Replaces, FailsLate
  <1>2. /\ request \in [Request -> Calls] /\ token \in [Request -> TokenRow]
        /\ h \in Request \ {r} /\ Issued(h) /\ f \in Request
    BY ReadHeld DEF Replaces, FailsLate, Exchanged, SInv, SessionTypeOK
  <1>3. BrowserOf[h] = BrowserOf[r] /\ BrowserOf[f] = BrowserOf[r]
    BY <1>2, SessionConstantsOK DEF KInv, Owned
  <1>4. \A t \in Request : BrowserOf[t] # BrowserOf[r] => token'[t] = token[t]
    BY <1>2, <1>3 DEF Replaces, FailsLate, Exchanged
  <1>5. Open(request[r]) /\ Is(r, "refresh")
    BY DEF Replaces, FailsLate, Exchanged, At, Open, SInv, ReadByRefresh
  <1>6. DueFamily(r, request'[r], family[BrowserOf[r]]) = family[BrowserOf[r]]
    BY <1>2, <1>5 DEF Replaces, FailsLate, Answers, DueFamily, Is, Calls
  <1>7. ASSUME BrowserOf[r] \notin disturbed PROVE family[BrowserOf[r]] = f
    <2>1. Sole(token, Due(request[r]), DueFamily(r, request[r], family[BrowserOf[r]]))
      BY <1>5, <1>7, UnderWayKnown
    <2>2. Sole(token, h, family[BrowserOf[r]])
      BY <2>1 DEF Replaces, FailsLate, Exchanged, At, Due, DueFamily
    <2>3. QED
      BY <1>2, <2>2, SessionConstantsOK DEF Sole
  <1>8. PICK a \in {r, None} :
          /\ Answers(r, a)
          /\ UNCHANGED <<cookie, family>>
          /\ disturbed \subseteq disturbed'
          /\ BrowserOf[r] \notin disturbed' => a = r
    BY DEF Replaces, FailsLate, Disturbs
  <1> HIDE DEF f, h
  <1>9. QED
    BY <1>1, <1>2, <1>3, <1>4, <1>5, <1>6, <1>7, <1>8, IssueKeepsSession

\* A request is answered with nothing: its token is expired or revoked by now.
LEMMA NothingKeepsSession ==
  ASSUME SInv, SInv', KInv, NEW r \in Request, Answers(r, None), Kept,
         request[r].at \in {"sent", "read"}, ~Is(r, "login"),
         \A t \in Request \ {request[r].held} : token'[t] = token[t],
         UNCHANGED <<cookie, family>>, disturbed \subseteq disturbed',
         BrowserOf[r] \notin disturbed' =>
           LET row == token'[request[r].held] IN row.revoked \/ row.expired
  PROVE  KInv'
  <1> DEFINE h == request[r].held
             b == BrowserOf[r]
  <1>1. /\ request \in [Request -> Calls]
        /\ h \in Request /\ Issued(h)
    BY DEF SInv, SessionTypeOK, Calls, Ref
  <1>2. /\ request'[r] = [request[r] EXCEPT !.at = "answered", !.answer = None]
        /\ \A q \in Request \ {r} : request'[q] = request[q]
    BY <1>1 DEF Answers
  <1>3. /\ request'[r].at = "answered" /\ request'[r].answer = None
        /\ request'[r].held = h /\ request'[r].kind = request[r].kind
    BY <1>1, <1>2 DEF Calls
  <1>4. Owned'
    BY <1>2, <1>3, OwnedKept DEF KInv, At
  <1>5. BrowserOf[h] = b
    BY <1>1, SessionConstantsOK DEF KInv, Owned
  <1>6. Touches(b)
    BY <1>2, <1>5 DEF Touches
  <1>7. ASSUME b \notin disturbed'
        PROVE  Sole(token', None, family[b])
    <2>1. Sole(token, Due(request[r]), DueFamily(r, request[r], family[b]))
      BY <1>7, UnderWayKnown DEF Open
    <2>2. Sole(token, h, family[b])
      BY <2>1 DEF Due, DueFamily
    <2>3. \A t \in Request : token'[t].family = token[t].family
      BY DEF Kept, Ages
    <2>4. token'[h].revoked \/ token'[h].expired
      BY <1>7
    <2>5. QED
      BY <2>2, <2>3, <2>4 DEF Sole
  <1>8. Open(request[r]) /\ Open(request'[r]) /\ Due(request'[r]) = None
    BY <1>3 DEF Open, Due
  <1>9. DueFamily(r, request'[r], family'[b]) = family[b]
    BY <1>3 DEF DueFamily, Is
  <1>10. QED
    BY <1>2, <1>4, <1>6, <1>7, <1>8, <1>9, UnderWayKnown, OwnStep

LEMMA AnswersNothing ==
  ASSUME SInv, SInv', KInv, NEW r \in Request, Answers(r, None),
         RefreshRead(r) \/ ReplaceFindsNone(r) \/ Logout(r) \/ Fails(r)
  PROVE  KInv'
  <1> DEFINE h == request[r].held
  <1>1. Kept
    BY OthersKeep
  <1>2. request[r].at \in {"sent", "read"} /\ ~Is(r, "login")
    BY DEF RefreshRead, ReplaceFindsNone, Logout, Fails, At, Is, SInv, ReadByRefresh
  <1>3. /\ h \in Request /\ token \in [Request -> TokenRow] /\ request \in [Request -> Calls]
        /\ BrowserOf[r] \in Browser
    BY <1>2, SessionConstantsOK DEF SInv, SessionTypeOK, Calls, Ref
  <1>4. CASE RefreshRead(r)
    <2>1. token[h].revoked \/ token[h].expired
      <3>1. SUFFICES ASSUME ~(token[h].revoked \/ token[h].expired) PROVE FALSE
        OBVIOUS
      <3>2. request' = [request EXCEPT ![r].at = "read"]
        BY <1>4, <3>1 DEF RefreshRead
      <3>3. QED
        BY <1>3, <3>2 DEF Answers, Calls
    <2>2. QED
      BY <1>1, <1>2, <1>4, <2>1, NothingKeepsSession DEF RefreshRead
  <1>5. CASE ReplaceFindsNone(r)
    BY <1>1, <1>2, <1>5, NothingKeepsSession DEF ReplaceFindsNone
  <1>6. CASE Logout(r)
    <2>1. token' = [token EXCEPT ![h].revoked = TRUE]
      BY <1>6 DEF Logout
    <2>2. token'[h].revoked /\ \A t \in Request \ {h} : token'[t] = token[t]
      BY <1>3, <2>1 DEF TokenRow
    <2>3. QED
      BY <1>1, <1>2, <1>6, <2>2, NothingKeepsSession DEF Logout
  <1>7. CASE Fails(r)
    BY <1>1, <1>2, <1>7, NothingKeepsSession DEF Fails, Disturbs
  <1>8. QED
    BY <1>4, <1>5, <1>6, <1>7

LEMMA ReadKeepsSession ==
  ASSUME SInv, SInv', KInv, NEW r \in Request, RefreshRead(r), ~Answers(r, None)
  PROVE  KInv'
  <1>1. request \in [Request -> Calls] /\ Kept
    BY OthersKeep DEF SInv, SessionTypeOK
  <1>2. /\ request' = [request EXCEPT ![r].at = "read"] /\ request[r].at = "sent"
        /\ UNCHANGED <<token, cookie, family, disturbed>>
    BY DEF RefreshRead, At
  <1>3. /\ request'[r].at = "read" /\ request'[r].held = request[r].held
        /\ \A q \in Request \ {r} : request'[q] = request[q]
    BY <1>1, <1>2 DEF Calls
  <1>4. Owned'
    BY <1>1, <1>2, <1>3, OwnedKept DEF KInv, At
  <1>5. Touches(BrowserOf[r])
    BY <1>2, <1>3 DEF Touches
  <1>6. /\ Open(request[r]) /\ Open(request'[r])
        /\ Due(request'[r]) = Due(request[r])
        /\ DueFamily(r, request'[r], family[BrowserOf[r]])
             = DueFamily(r, request[r], family[BrowserOf[r]])
    BY <1>2, <1>3 DEF Open, Due, DueFamily
  <1>7. QED
    BY <1>2, <1>3, <1>4, <1>5, <1>6, UnderWayKnown, OwnStep

-----------------------------------------------------------------------------
(* The steps of the browser *)

LEMMA SendKeepsSession ==
  ASSUME SInv, SInv', KInv, NEW r \in Request, Send(r)
  PROVE  KInv'
  <1> DEFINE b == BrowserOf[r]
  <1>1. request \in [Request -> Calls] /\ Kept /\ b \in Browser
    BY OthersKeep, SessionConstantsOK DEF SInv, SessionTypeOK
  <1>2. PICK kind : request' = [request EXCEPT ![r].at = "sent", ![r].kind = kind,
                                              ![r].held = cookie[b]]
    BY DEF Send
  <1>3. /\ request'[r].at = "sent" /\ request'[r].held = cookie[b]
        /\ \A q \in Request \ {r} : request'[q] = request[q]
        /\ UNCHANGED <<token, cookie, family>> /\ request[r].at = "new"
    BY <1>1, <1>2 DEF Calls, Send, At
  <1>4. Owned'
    BY <1>1, <1>3, OwnedKept DEF KInv, At
  <1>5. Touches(b) /\ disturbed \subseteq disturbed'
    BY <1>3 DEF Touches, Send
  <1>6. ASSUME b \notin disturbed'
        PROVE  /\ \A q \in Request : BrowserOf[q] = b => ~Open(request[q])
               /\ Sole(token, cookie[b], family[b])
    <2>1. UnderWay(b) = {} /\ b \notin disturbed
      BY <1>6 DEF Send
    <2>2. \A q \in Request : BrowserOf[q] = b => ~Open(request[q])
      BY <2>1 DEF UnderWay, Open
    <2>3. QED
      BY <1>1, <2>1, <2>2 DEF KInv, KeptFor
  <1>7. /\ Open(request'[r]) /\ Due(request'[r]) = cookie[b]
        /\ DueFamily(r, request'[r], family'[b]) = family[b]
    BY <1>3 DEF Open, Due, DueFamily
  <1>8. QED
    BY <1>3, <1>4, <1>5, <1>6, <1>7, OwnStep

LEMMA ReceiveKeepsSession ==
  ASSUME SInv, SInv', KInv, NEW r \in Request, Receive(r)
  PROVE  KInv'
  <1> DEFINE b == BrowserOf[r]
             g == DueFamily(r, request[r], family[b])
  <1>1. /\ request \in [Request -> Calls] /\ b \in Browser
        /\ cookie \in [Browser -> Ref] /\ family \in [Browser -> Ref]
    BY SessionConstantsOK DEF SInv, SessionTypeOK
  <1>2. /\ request' = [request EXCEPT ![r].at = "done"] /\ request[r].at = "answered"
        /\ cookie' = [cookie EXCEPT ![b] = request[r].answer]
        /\ UNCHANGED <<token, disturbed>>
    BY DEF Receive, At
  <1>3. /\ request'[r].at = "done" /\ request'[r].held = request[r].held
        /\ \A q \in Request \ {r} : request'[q] = request[q]
    BY <1>1, <1>2 DEF Calls
  <1>4. cookie'[b] = request[r].answer /\ \A c \in Browser \ {b} : cookie'[c] = cookie[c]
    BY <1>1, <1>2
  <1>5. family'[b] = g /\ \A c \in Browser \ {b} : family'[c] = family[c]
    BY <1>1, <1>2 DEF Receive, DueFamily, Is
  <1>6. Owned'
    <2>1. \A t \in Request : Issued(t)' => BrowserOf[token'[t].family] = BrowserOf[t]
      BY <1>2 DEF KInv, Owned, Issued
    <2>2. \A c \in Browser : /\ cookie'[c] # None => BrowserOf[cookie'[c]] = c
                             /\ family'[c] # None => BrowserOf[family'[c]] = c
      BY <1>2, <1>4, <1>5 DEF KInv, Owned, At, DueFamily
    <2>3. \A q \in Request :
            /\ request'[q].held # None => BrowserOf[request'[q].held] = BrowserOf[q]
            /\ request'[q].at = "answered" /\ request'[q].answer # None
                 => BrowserOf[request'[q].answer] = BrowserOf[q]
      BY <1>3 DEF KInv, Owned, At
    <2>4. QED
      BY <2>1, <2>2, <2>3 DEF Owned, Issued, At
  <1>7. Touches(b)
    BY <1>2, <1>3, <1>4, <1>5 DEF Touches
  <1>8. Open(request[r]) /\ ~Open(request'[r]) /\ Due(request[r]) = request[r].answer
    BY <1>2, <1>3 DEF Open, Due
  <1>9. b \notin disturbed =>
          /\ \A q \in Request \ {r} : BrowserOf[q] = b => ~Open(request[q])
          /\ Sole(token, request[r].answer, g)
    BY <1>8, UnderWayKnown
  <1> HIDE DEF g
  <1>10. QED
    BY <1>2, <1>3, <1>4, <1>5, <1>6, <1>7, <1>8, <1>9, OwnStep

LEMMA LoseKeepsSession ==
  ASSUME SInv, SInv', KInv, NEW r \in Request, Lose(r)
  PROVE  KInv'
  <1>1. request \in [Request -> Calls] /\ Kept
    BY OthersKeep DEF SInv, SessionTypeOK
  <1>2. /\ request' = [request EXCEPT ![r].at = "done"]
        /\ UNCHANGED <<token, cookie, family>>
        /\ disturbed \subseteq disturbed' /\ BrowserOf[r] \in disturbed'
    BY DEF Lose, Disturbs
  <1>3. /\ request'[r].at = "done" /\ request'[r].held = request[r].held
        /\ \A q \in Request \ {r} : request'[q] = request[q]
    BY <1>1, <1>2 DEF Calls
  <1>4. Owned'
    BY <1>1, <1>2, <1>3, OwnedKept DEF KInv, At
  <1>5. Touches(BrowserOf[r])
    BY <1>2, <1>3 DEF Touches
  <1>6. QED
    BY <1>2, <1>3, <1>4, <1>5, OwnStep

\* Time passes: fewer tokens are usable.
LEMMA ExpireKeepsSession ==
  ASSUME SInv, KInv, NEW e \in Request, Expire(e)
  PROVE  KInv'
  <1>1. /\ token \in [Request -> TokenRow] /\ Kept
        /\ token' = [token EXCEPT ![e].expired = TRUE]
        /\ UNCHANGED <<cookie, request, family, disturbed>>
        /\ family \in [Browser -> Ref] /\ cookie \in [Browser -> Ref]
        /\ request \in [Request -> Calls]
    BY OthersKeep DEF Expire, SInv, SessionTypeOK
  <1>2. \A t \in Request : /\ token'[t].family = token[t].family
                           /\ token'[t].revoked = token[t].revoked
                           /\ token[t].expired => token'[t].expired
    BY <1>1 DEF TokenRow
  <1>3. ASSUME NEW c \in Ref, NEW f, Sole(token, c, f)
        PROVE  Sole(token', c, f)
    BY <1>2, <1>3 DEF Sole, Ref
  <1>4. Owned'
    BY <1>1, OwnedKept DEF KInv, At
  <1>5. \A r \in Request : Due(request[r]) \in Ref
    BY <1>1 DEF Due, Calls
  <1>6. ASSUME NEW b \in Browser \ disturbed PROVE KeptFor(b)'
    BY <1>1, <1>3, <1>5, <1>6 DEF KInv, KeptFor
  <1>7. QED
    BY <1>1, <1>4, <1>6 DEF KInv, Alone

\* The browser drops a cookie that is of no use any more.
LEMMA DropKeepsSession ==
  ASSUME SInv, KInv, NEW b \in Browser, CookieExpires(b)
  PROVE  KInv'
  <1>1. /\ cookie \in [Browser -> Ref] /\ cookie' = [cookie EXCEPT ![b] = None]
        /\ UNCHANGED <<token, request, family, disturbed>>
        /\ token[cookie[b]].expired /\ cookie[b] # None
    BY DEF CookieExpires, SInv, SessionTypeOK
  <1>2. cookie'[b] = None /\ \A c \in Browser \ {b} : cookie'[c] = cookie[c]
    BY <1>1
  <1>3. Owned'
    BY <1>1, <1>2, UnchangedKept, OwnedKept DEF KInv, At
  <1>4. Sole(token, cookie[b], family[b]) => Sole(token, None, family[b])
    BY <1>1 DEF Sole
  <1>5. ASSUME NEW c \in Browser \ disturbed PROVE KeptFor(c)'
    BY <1>1, <1>2, <1>4, <1>5 DEF KInv, KeptFor
  <1>6. QED
    BY <1>1, <1>3, <1>5 DEF KInv, Alone

LEMMA KeptStep == SInv /\ SInv' /\ KInv /\ [Next]_sessionVars => KInv'
  <1> SUFFICES ASSUME SInv, SInv', KInv, [Next]_sessionVars
               PROVE  KInv'
    OBVIOUS
  <1>1. CASE UNCHANGED sessionVars
    <2>1. UNCHANGED <<token, cookie, request, family, disturbed>>
      BY <1>1 DEF sessionVars
    <2>2. Owned'
      BY <2>1 DEF KInv, Owned, Issued, At
    <2>3. \A b \in Browser \ disturbed : KeptFor(b)'
      BY <2>1 DEF KInv, KeptFor
    <2>4. QED
      BY <2>1, <2>2, <2>3 DEF KInv, Alone
  <1>2. ASSUME NEW r \in Request, RefreshRead(r) PROVE KInv'
    BY <1>2, AnswersNothing, ReadKeepsSession
  <1>3. ASSUME NEW r \in Request, ReplaceFindsNone(r) \/ Logout(r) \/ Fails(r) PROVE KInv'
    BY <1>3, AnswersNothing DEF ReplaceFindsNone, Logout, Fails
  <1>4. ASSUME NEW r \in Request, Send(r) \/ Receive(r) \/ Lose(r) PROVE KInv'
    BY <1>4, SendKeepsSession, ReceiveKeepsSession, LoseKeepsSession
  <1>5. ASSUME NEW r \in Request, Login(r) \/ Replaces(r) \/ FailsLate(r) \/ Expire(r)
        PROVE  KInv'
    BY <1>5, LoginKeepsSession, ExchangeKeepsSession, ExpireKeepsSession
  <1>6. ASSUME NEW b \in Browser, CookieExpires(b) PROVE KInv'
    BY <1>6, DropKeepsSession
  <1>7. QED
    BY <1>1, <1>2, <1>3, <1>4, <1>5, <1>6 DEF Next

\* A browser that sends one request after the other, each of them answered, is
\* logged in as long as its token lasts and until it logs out: no refresh, of
\* whatever browser, takes its token away without giving it the next one.
THEOREM SessionsKept == Spec => []SessionKept
  <1>1. Init => KInv
    <2>1. SUFFICES ASSUME Init PROVE KInv
      OBVIOUS
    <2>2. /\ \A b \in Browser : cookie[b] = None /\ family[b] = None
          /\ \A r \in Request : /\ request[r].at = "new" /\ request[r].held = None
                                /\ token[r].family = None
      BY <2>1 DEF Init, NoRow
    <2>3. Owned
      BY <2>2 DEF Owned, Issued, At
    <2>4. Alone
      BY <2>2 DEF Alone, Open
    <2>5. \A b \in Browser : KeptFor(b)
      BY <2>2 DEF KeptFor, Open, Sole
    <2>6. QED
      BY <2>3, <2>4, <2>5 DEF KInv
  <1>2. Spec => []KInv
    BY <1>1, KeptStep, SessionInvariance, PTL DEF Spec
  <1>3. SInv /\ KInv => SessionKept
    <2>1. SUFFICES ASSUME SInv, KInv, NEW b \in Browser \ disturbed, UnderWay(b) = {}
                   PROVE  /\ cookie[b] # None =>
                               Live(cookie[b]) /\ token[cookie[b]].family = family[b]
                          /\ \A t \in Request :
                               Live(t) /\ ~token[t].expired /\ token[t].family = family[b]
                                 => t = cookie[b]
      BY DEF SessionKept
    <2>2. Sole(token, cookie[b], family[b])
      BY <2>1 DEF KInv, KeptFor, UnderWay, Open
    <2>3. QED
      BY <2>2 DEF Sole, Live, Issued
  <1>4. QED
    BY <1>2, <1>3, SessionInvariance, PTL

-----------------------------------------------------------------------------
(* Refinement of TokenFamilies *)

memberships == [t \in Request |-> token[t].family]
live == {t \in Request : Live(t)}

\* The instance, with what it is about given a name.
LEMMA FamiliesAre ==
  /\ Families!Init <=> memberships = [t \in Request |-> None] /\ live = {}
  /\ memberships' = memberships /\ live' = live => UNCHANGED Families!familyVars
  /\ \A t \in Request : Families!Begin(t) <=>
       /\ memberships[t] = None
       /\ memberships' = [memberships EXCEPT ![t] = t]
       /\ live' = live \cup {t}
  /\ \A s, t \in Request : Families!Exchange(s, t) <=>
       /\ s \in live /\ memberships[t] = None
       /\ memberships' = [memberships EXCEPT ![t] = memberships[s]]
       /\ live' = (live \ {s}) \cup {t}
  /\ \A s \in Request : Families!Revoke(s) <=>
       /\ s \in live
       /\ live' = live \ {s}
       /\ memberships' = memberships
  BY DEF Families!Init, Families!familyVars, Families!Begin, Families!Exchange,
     Families!Revoke, memberships, live

\* Membership and use of one token.
LEMMA FamilyTables ==
  /\ memberships = [t \in Request |-> token[t].family]
  /\ memberships' = [t \in Request |-> token'[t].family]
  /\ \A t \in Request : t \in live <=> token[t].family # None /\ ~token[t].revoked
  /\ \A t \in Request : t \in live' <=> token'[t].family # None /\ ~token'[t].revoked
  /\ live \subseteq Request /\ live' \subseteq Request
  BY DEF memberships, live, Live, Issued

LEMMA LoginBegins ==
  ASSUME SInv, NEW r \in Request, Login(r)
  PROVE  Families!Begin(r)
  <1>1. token \in [Request -> TokenRow] /\ token' = [token EXCEPT ![r] = NewRow(r)]
    BY DEF SInv, SessionTypeOK, Login
  <1>2. token[r].family = None
    BY DEF SInv, IssuedByAnswered, Login, At, Issued
  <1>3. /\ token'[r].family = r /\ ~token'[r].revoked /\ r # None
        /\ \A t \in Request \ {r} : token'[t] = token[t]
    BY <1>1, SessionConstantsOK DEF NewRow, NoRow
  <1>4. memberships[r] = None /\ memberships' = [memberships EXCEPT ![r] = r]
    BY <1>2, <1>3, FamilyTables
  <1>5. live' = live \cup {r}
    BY <1>3, FamilyTables
  <1>6. QED
    BY <1>4, <1>5, FamiliesAre

\* The update found its row not revoked, so the token is exchanged.
LEMMA ExchangePasses ==
  ASSUME SInv, NEW r \in Request, Exchanged(r)
  PROVE  \E h \in Request : Families!Exchange(h, r)
  <1> DEFINE h == request[r].held
             f == token[h].family
  <1>1. h \in Request \ {r} /\ Issued(h) /\ ~Issued(r)
    BY ReadHeld DEF Exchanged
  <1>2. /\ token \in [Request -> TokenRow]
        /\ token' = [token EXCEPT ![h].revoked = TRUE, ![h].replacedBy = r, ![r] = NewRow(f)]
        /\ ~token[h].revoked
    BY DEF Exchanged, SInv, SessionTypeOK
  <1>3. f # None /\ token[r].family = None
    BY <1>1 DEF Issued
  <1>4. NewRow(f).family = f /\ ~NewRow(f).revoked
    BY DEF NewRow, NoRow
  <1> HIDE DEF h
  <1>5. /\ token'[r] = NewRow(f)
        /\ \A t \in Request \ {r, h} : token'[t] = token[t]
        /\ token'[h] = [token[h] EXCEPT !.revoked = TRUE, !.replacedBy = r]
    BY <1>1, <1>2
  <1>6. token'[h].family = f /\ token'[h].revoked
    BY <1>1, <1>2, <1>5 DEF TokenRow
  <1>7. h \in live /\ memberships[r] = None /\ memberships[h] = f
    BY <1>1, <1>2, <1>3, FamilyTables
  <1>8. \A t \in Request : token'[t].family = IF t = r THEN f ELSE token[t].family
    BY <1>1, <1>4, <1>5, <1>6
  <1> HIDE DEF f
  <1>9. memberships' = [memberships EXCEPT ![r] = f]
    BY <1>8, FamilyTables
  <1>10. live' = (live \ {h}) \cup {r}
    <2>1. ASSUME NEW t \in Request
          PROVE  t \in live' <=> t \in (live \ {h}) \cup {r}
      <3>1. CASE t = r
        BY <1>3, <1>4, <1>5, <3>1, FamilyTables
      <3>2. CASE t = h
        BY <1>1, <1>6, <3>2, FamilyTables
      <3>3. CASE t \notin {r, h}
        BY <1>5, <3>3, FamilyTables
      <3>4. QED
        BY <3>1, <3>2, <3>3
    <2>2. QED
      BY <2>1, FamilyTables
  <1>11. Families!Exchange(h, r)
    BY <1>1, <1>7, <1>9, <1>10, FamiliesAre
  <1>12. QED
    BY <1>1, <1>11

LEMMA LogoutRevokes ==
  ASSUME SInv, NEW r \in Request, Logout(r)
  PROVE  (\E h \in Request : Families!Revoke(h)) \/ UNCHANGED Families!familyVars
  <1> DEFINE h == request[r].held
  <1>1. /\ token \in [Request -> TokenRow] /\ token' = [token EXCEPT ![h].revoked = TRUE]
        /\ h \in Request
    BY DEF SInv, SessionTypeOK, Logout, At, Is, Calls, Ref
  <1> HIDE DEF h
  <1>2. \A t \in Request : /\ token'[t].family = token[t].family
                           /\ token'[t].revoked = (token[t].revoked \/ t = h)
    BY <1>1 DEF TokenRow
  <1>3. memberships' = memberships
    BY <1>2, FamilyTables
  <1>4. live' = live \ {h}
    BY <1>2, FamilyTables
  <1>5. CASE h \in live
    BY <1>1, <1>3, <1>4, <1>5, FamiliesAre
  <1>6. CASE h \notin live
    BY <1>3, <1>4, <1>6, FamiliesAre
  <1>7. QED
    BY <1>5, <1>6

\* Every step of the sessions is one of the families, or none.
LEMMA NextKeepsFamilies ==
  SInv /\ [Next]_sessionVars => [Families!Next]_(Families!familyVars)
  <1> DEFINE Goal == Families!Next \/ UNCHANGED Families!familyVars
  <1> SUFFICES ASSUME SInv, [Next]_sessionVars PROVE Goal
    OBVIOUS
  <1>1. ASSUME UNCHANGED token PROVE Goal
    <2>1. memberships' = memberships
      BY <1>1, FamilyTables
    <2>2. live' = live
      BY <1>1, FamilyTables
    <2>3. QED
      BY <2>1, <2>2, FamiliesAre
  <1>2. ASSUME NEW r \in Request,
               Send(r) \/ Receive(r) \/ Lose(r) \/ RefreshRead(r) \/ ReplaceFindsNone(r) \/ Fails(r)
        PROVE  Goal
    BY <1>1, <1>2 DEF Send, Receive, Lose, RefreshRead, ReplaceFindsNone, Fails
  <1>3. ASSUME NEW r \in Request, Login(r) PROVE Goal
    BY <1>3, LoginBegins DEF Families!Next
  <1>4. ASSUME NEW r \in Request, Exchanged(r) PROVE Goal
    BY <1>4, ExchangePasses DEF Families!Next
  <1>5. ASSUME NEW r \in Request, Logout(r) PROVE Goal
    BY <1>5, LogoutRevokes DEF Families!Next
  <1>6. ASSUME NEW t \in Request, Expire(t) PROVE Goal
    <2>1. token \in [Request -> TokenRow] /\ token' = [token EXCEPT ![t].expired = TRUE]
      BY <1>6 DEF SInv, SessionTypeOK, Expire
    <2>2. \A s \in Request : /\ token'[s].family = token[s].family
                             /\ token'[s].revoked = token[s].revoked
      BY <2>1 DEF TokenRow
    <2>3. memberships' = memberships
      BY <2>2, FamilyTables
    <2>4. live' = live
      BY <2>2, FamilyTables
    <2>5. QED
      BY <2>3, <2>4, FamiliesAre
  <1>7. ASSUME NEW b \in Browser, CookieExpires(b) PROVE Goal
    BY <1>1, <1>7 DEF CookieExpires
  <1>8. CASE UNCHANGED sessionVars
    BY <1>1, <1>8 DEF sessionVars
  <1>9. QED
    BY <1>2, <1>3, <1>4, <1>5, <1>6, <1>7, <1>8 DEF Next, Replaces, FailsLate

\* Sessions implement TokenFamilies: whatever requests race, fail or are lost, a
\* session is one key that is passed on, and who comes with a key that was passed
\* on or revoked gets nothing.
THEOREM SessionsKeepFamilies == Spec => FamiliesKept
  <1>1. Init => Families!Init
    <2> SUFFICES ASSUME Init PROVE Families!Init
      OBVIOUS
    <2>1. \A t \in Request : token[t].family = None
      BY DEF Init, NoRow
    <2>2. memberships = [t \in Request |-> None] /\ live = {}
      BY <2>1, FamilyTables
    <2>3. QED
      BY <2>2, FamiliesAre
  <1>2. QED
    BY <1>1, NextKeepsFamilies, SessionInvariance, PTL DEF Spec, FamiliesKept, Families!Spec
=============================================================================
