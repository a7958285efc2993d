--------------------------- MODULE TokenFamilies ---------------------------
(***************************************************************************)
(* What refresh tokens promise: a session is one key that is passed on.    *)
(* A login begins a session with a token of its own; a token that can      *)
(* still be used can be exchanged for a new one of the same session, which *)
(* uses it up, or revoked, which ends the session.  So a session has at    *)
(* most one usable token, the one who takes it leaves the other with       *)
(* nothing, and a session that has ended does not come back.               *)
(*                                                                         *)
(* Sessions (FamiliesKept) implements this module.                         *)
(***************************************************************************)
CONSTANTS Token, None

VARIABLES
  session,    \* the session of each token, named after its first token
  usable      \* the tokens that can be exchanged

familyVars == <<session, usable>>

Init ==
  /\ session = [t \in Token |-> None]
  /\ usable = {}

Begin(t) ==
  /\ session[t] = None
  /\ session' = [session EXCEPT ![t] = t]
  /\ usable' = usable \cup {t}

Exchange(s, t) ==
  /\ s \in usable /\ session[t] = None
  /\ session' = [session EXCEPT ![t] = session[s]]
  /\ usable' = (usable \ {s}) \cup {t}

Revoke(s) ==
  /\ s \in usable
  /\ usable' = usable \ {s}
  /\ UNCHANGED session

Next == \E t \in Token : Begin(t) \/ Revoke(t) \/ \E s \in Token : Exchange(s, t)

Spec == Init /\ [][Next]_familyVars
=============================================================================
