------------------------- MODULE IdempotentRequests -------------------------
(***************************************************************************)
(* What an idempotency key promises: the requests that carry it make one   *)
(* thing between them, whatever they ask for and however often they are    *)
(* sent; a request that is answered with a thing asked for exactly that    *)
(* thing; a conflict is reported only to who asks for something else than  *)
(* what the key has made; and an answer, once given, stands.  A request    *)
(* may also be refused, or get no useful answer although it made its thing *)
(* (the answer was lost): who repeats it must then not make another.       *)
(*                                                                         *)
(* Orders and generation jobs are both created under such keys:            *)
(* TradeOrders (OrderKeysKept) and JobCreation (JobKeysKept) implement     *)
(* this module.                                                            *)
(***************************************************************************)
CONSTANTS Call,      \* requests; what a request makes is named after it
          KeyOf,     \* the key a request carries, with the user it belongs to
          BodyOf     \* what it asks for

VARIABLES made,      \* the requests that made what they asked for
          fate,      \* how each request was answered
          got        \* what a request that was served was answered with

requestVars == <<made, fate, got>>

Init ==
  /\ made = {}
  /\ fate = [c \in Call |-> "waiting"]
  /\ got = [c \in Call |-> c]

Waiting == {c \in Call : fate[c] = "waiting"}
MadeFor(c) == {d \in made : KeyOf[d] = KeyOf[c]}

Answers(c, how, d) ==
  /\ fate' = [fate EXCEPT ![c] = how]
  /\ got' = [got EXCEPT ![c] = d]

Make(c) ==
  /\ MadeFor(c) = {}
  /\ made' = made \cup {c}
  /\ Answers(c, "served", c) \/ Answers(c, "refused", c)

Return(c) ==
  /\ \E d \in MadeFor(c) : BodyOf[d] = BodyOf[c] /\ Answers(c, "served", d)
  /\ UNCHANGED made

Conflict(c) ==
  /\ \E d \in MadeFor(c) : BodyOf[d] # BodyOf[c]
  /\ Answers(c, "conflict", c)
  /\ UNCHANGED made

\* The request is refused; with it, if the server dies, others it was working on.
Refuse(c) ==
  /\ \E lost \in SUBSET Waiting :
       /\ c \in lost
       /\ fate' = [d \in Call |-> IF d \in lost THEN "refused" ELSE fate[d]]
  /\ UNCHANGED <<made, got>>

Next ==
  \E c \in Call :
    /\ fate[c] = "waiting" /\ fate'[c] # "waiting"
    /\ Make(c) \/ Return(c) \/ Conflict(c) \/ Refuse(c)

Spec == Init /\ [][Next]_requestVars
=============================================================================
