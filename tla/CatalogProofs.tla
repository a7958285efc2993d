---------------------------- MODULE CatalogProofs ----------------------------
(***************************************************************************)
(* Theorems about Catalog, for any products and requests, any limit and    *)
(* any number of failures.                                                 *)
(***************************************************************************)
EXTENDS Catalog, FiniteSetTheorems, WellFoundedInduction, TLAPS

(***************************************************************************)
(* The inductive invariant.  Requests remove assets that others may be     *)
(* storing, so what has to be known is who knows of an asset.  As long as  *)
(* its request has not listed it, nobody does (HiddenUnknown), hence       *)
(* nobody can remove its row or its object, and both are there when it is  *)
(* listed (InHand).  What a request is about to wipe has no row any more   *)
(* (WipedHasNoRow), and never gets one again (NotYetStored).               *)
(*                                                                         *)
(* With or without the foreign key, the row of an asset is deleted only    *)
(* when no link is left (RemovedUnlisted), which takes that a request      *)
(* removes its own product's assets (OwnAssets), or by the request that    *)
(* stored it and was told that its link failed (Undone).                   *)
(***************************************************************************)
Call == [at : Places, kind : Kinds, seen : Rows, count : Nat,
         todo : SUBSET Request, target : Ref, cover : Ref]

\* A request that has not listed its own asset.
Hides(c) ==
  \/ c.at \in {"new", "count", "put", "row", "link"}
  \/ c.kind = "model" /\ c.at \in Removing

\* The assets a request may come to remove.
Knows(c) == c.todo \cup {c.target, c.seen.model}

Listed(a) == \E l \in link : l.asset = a

Known(a) ==
  \/ Listed(a)
  \/ \E p \in Product : product[p].model = a
  \/ \E r \in Request : a \in Knows(request[r])

HiddenUnknown == \A r \in Request : Hides(request[r]) => ~Known(r)

\* The request's asset is stored, and not listed yet.
Keeps(c) == c.at = "link" \/ (c.kind = "model" /\ c.at \in Removing)

InHand ==
  \A r \in Request :
    /\ Keeps(request[r]) => r \in stored /\ r \in object
    /\ At(r, "row") => r \in object

NoRowYet == {"new", "count", "put", "row"}

NotYetStored == \A r \in Request : request[r].at \in NoRowYet => r \notin stored

WipedHasNoRow == \A r \in Request : At(r, "wipe") => request[r].target \notin stored

\* The links of an asset go before its row does.
Unlisting == {"next", "point", "erase", "wipe"}

Unlisted(a, links) == \A l \in links : l.asset # a

RemovedUnlisted ==
  \A r \in Request : request[r].at \in Unlisting => Unlisted(request[r].target, link)

\* A request that takes its asset back has no link of it, or one that it was told
\* nothing of; the row goes before the object.
TakenBack(r, c, links, rows) ==
  \A l \in links : l.asset = r =>
    /\ c.at \in {"undo", "unput"} => ~l.answered
    /\ c.at = "unput" => ~Cascades /\ r \notin rows

Undone == \A r \in Request : TakenBack(r, request[r], link, stored)

\* Nobody gets to remove another product's asset.
Belongs(a, p) == a = None \/ Target[a] = p

OwnAssets ==
  /\ \A l \in link : Belongs(l.asset, l.product)
  /\ \A p \in Product : Belongs(product[p].model, p)
  /\ \A r \in Request : \A a \in Knows(request[r]) : Belongs(a, Target[r])

\* Only delete goes through a list of assets.
ListsToDelete ==
  \A r \in Request : request[r].at \in {"list", "each"} => request[r].kind = "delete"

CatalogInv ==
  /\ CatalogTypeOK
  /\ IsFiniteSet(link)
  /\ ListedOpens
  /\ HiddenUnknown
  /\ InHand
  /\ NotYetStored
  /\ WipedHasNoRow
  /\ RemovedUnlisted
  /\ Undone
  /\ ListsToDelete

-----------------------------------------------------------------------------
(* A step of one request *)

\* What a request may learn of: what is known, and its own asset when it lists
\* it.
Learned(a, r, c) == a = None \/ Known(a) \/ (a = r /\ ~Hides(c))

\* Request r goes on as c.
Moves(r, c) ==
  /\ request' = [request EXCEPT ![r] = c]
  /\ c \in Call
  /\ c.at \in Removing => c.target # None
  /\ c.at \in {"list", "each"} => c.kind = "delete"
  /\ Hides(c) => Hides(request[r])
  /\ \A a \in Knows(c) : Learned(a, r, c)

\* The tables keep what requests other than r rely on.
Respects(r, c) ==
  /\ link' \in SUBSET Links /\ IsFiniteSet(link') /\ product' \in [Product -> Rows]
  /\ stored' \in SUBSET (stored \cup {r}) /\ object' \in SUBSET Request
  /\ faults' \in 0..MaxFaults /\ disturbed' \in SUBSET Product
  /\ \A l \in link' : Learned(l.asset, r, c)
  /\ \A l \in link' \ link : l.asset = r /\ Hides(request[r])
  /\ \A p \in Product : Learned(product'[p].model, r, c)
  /\ r \in stored' \ stored => Hides(request[r])
  /\ \A s \in Request \ {r} :
       Hides(request[s]) => /\ s \in stored => s \in stored'
                            /\ s \in object => s \in object'

\* And r has what c needs.
Provides(r, c) ==
  /\ Keeps(c) => r \in stored' /\ r \in object'
  /\ c.at = "row" => r \in object'
  /\ c.at \in NoRowYet => r \notin stored'
  /\ c.at = "wipe" => c.target \notin stored'
  /\ c.at \in Unlisting => Unlisted(c.target, link')
  /\ TakenBack(r, c, link', stored')

LEMMA StepKeepsInv ==
  ASSUME CatalogInv, NEW r \in Request, NEW c, Moves(r, c), Respects(r, c), Provides(r, c),
         ListedOpens'
  PROVE  CatalogInv'
  <1>1. /\ request \in [Request -> Call] /\ request' \in [Request -> Call]
        /\ request'[r] = c
        /\ \A s \in Request \ {r} : request'[s] = request[s]
        /\ stored \in SUBSET Request /\ None \notin Request
    BY CatalogConstantsOK DEF CatalogInv, CatalogTypeOK, Call, Moves
  <1>2. CatalogTypeOK'
    <2>1. \A s \in Request : request'[s].at \in Removing => request'[s].target # None
      BY <1>1 DEF Moves, CatalogInv, CatalogTypeOK
    <2>2. QED
      BY <1>1, <2>1 DEF CatalogTypeOK, Respects, Call
  <1>3. ASSUME NEW a \in Request, Known(a)'
        PROVE  Learned(a, r, c)
    <2>1. CASE Listed(a)'
      BY <2>1 DEF Listed, Respects
    <2>2. CASE \E p \in Product : product'[p].model = a
      BY <2>2 DEF Respects
    <2>3. ASSUME NEW s \in Request, a \in Knows(request'[s])
          PROVE  Learned(a, r, c)
      BY <1>1, <2>3 DEF Moves, Learned, Known
    <2>4. QED
      BY <1>3, <2>1, <2>2, <2>3 DEF Known
  <1>4. HiddenUnknown'
    <2>1. SUFFICES ASSUME NEW s \in Request, Hides(request'[s]), Known(s)'
                   PROVE  FALSE
      BY DEF HiddenUnknown, Hides, Known
    <2>2. Known(s)
      BY <1>1, <1>3, <2>1 DEF Learned
    <2>3. Hides(request[s])
      BY <1>1, <2>1 DEF Moves
    <2>4. QED
      BY <2>2, <2>3 DEF CatalogInv, HiddenUnknown
  <1>5. InHand'
    <2>1. SUFFICES ASSUME NEW s \in Request
                   PROVE  /\ Keeps(request'[s]) => s \in stored' /\ s \in object'
                          /\ request'[s].at = "row" => s \in object'
      BY DEF InHand, Keeps, At
    <2>2. CASE s = r
      BY <1>1, <2>2 DEF Provides
    <2>3. CASE s # r
      BY <1>1, <2>3 DEF Respects, CatalogInv, InHand, Keeps, Hides, At
    <2>4. QED
      BY <2>2, <2>3
  <1>6. NotYetStored'
    <2>1. SUFFICES ASSUME NEW s \in Request, request'[s].at \in NoRowYet
                   PROVE  s \notin stored'
      BY DEF NotYetStored, NoRowYet
    <2>2. QED
      BY <1>1, <2>1 DEF Provides, Respects, CatalogInv, NotYetStored
  <1>7. WipedHasNoRow'
    <2>1. SUFFICES ASSUME NEW s \in Request, request'[s].at = "wipe"
                   PROVE  request'[s].target \notin stored'
      BY DEF WipedHasNoRow, At
    <2>2. CASE s = r
      BY <1>1, <2>1, <2>2 DEF Provides
    <2>3. CASE s # r
      <3>1. request[s].target \notin stored
        BY <1>1, <2>1, <2>3 DEF CatalogInv, WipedHasNoRow, At
      <3>2. request[s].target = r => Known(r)
        BY DEF Known, Knows
      <3>3. QED
        BY <1>1, <2>3, <3>1, <3>2 DEF Respects, CatalogInv, HiddenUnknown
    <2>4. QED
      BY <2>2, <2>3
  <1>8. ListsToDelete'
    BY <1>1 DEF Moves, CatalogInv, ListsToDelete
  <1>9. RemovedUnlisted'
    <2>1. SUFFICES ASSUME NEW s \in Request, request'[s].at \in Unlisting,
                          NEW l \in link', l.asset = request'[s].target
                   PROVE  FALSE
      BY DEF RemovedUnlisted, Unlisted
    <2>2. CASE s = r
      BY <1>1, <2>1, <2>2 DEF Provides, Unlisted
    <2>3. CASE s # r
      <3>1. request'[s] = request[s]
        BY <1>1, <2>3
      <3>2. l \in link' \ link
        BY <2>1, <3>1 DEF CatalogInv, RemovedUnlisted, Unlisted
      <3>3. Known(r)
        BY <2>1, <3>1, <3>2 DEF Respects, Known, Knows
      <3>4. QED
        BY <3>2, <3>3 DEF Respects, CatalogInv, HiddenUnknown
    <2>4. QED
      BY <2>2, <2>3
  <1>10. Undone'
    <2>1. SUFFICES ASSUME NEW s \in Request PROVE TakenBack(s, request'[s], link', stored')
      BY DEF Undone, TakenBack
    <2>2. CASE s = r
      BY <1>1, <2>2 DEF Provides
    <2>3. CASE s # r
      <3>1. TakenBack(s, request[s], link, stored) /\ request'[s] = request[s]
        BY <1>1, <2>3 DEF CatalogInv, Undone
      <3>2. \A l \in link' : l.asset = s => l \in link
        BY <2>3 DEF Respects
      <3>3. s \notin stored => s \notin stored'
        BY <2>3 DEF Respects
      <3>4. QED
        BY <3>1, <3>2, <3>3 DEF TakenBack
    <2>4. QED
      BY <2>2, <2>3
  <1>11. QED
    BY <1>2, <1>4, <1>5, <1>6, <1>7, <1>8, <1>9, <1>10 DEF CatalogInv, Respects

\* Request r at another place, with the same local variables.
Later(r, to) == IF to = "done" THEN Resting(to) ELSE [request[r] EXCEPT !.at = to]

LEMMA CallOf ==
  ASSUME CatalogInv, NEW r \in Request
  PROVE  /\ request \in [Request -> Call] /\ request[r] \in Call
         /\ Resting("done") \in Call
         /\ \A to \in Places : Later(r, to) \in Call
         /\ \A a \in Knows(request[r]) : a = None \/ Known(a)
  <1>1. request \in [Request -> Call] /\ request[r] \in Call
    BY DEF CatalogInv, CatalogTypeOK, Call
  <1>2. Resting("done") \in Call
    BY DEF Resting, Call, Places, Kinds, NewRow, Rows, Statuses, Ref
  <1>3. \A to \in Places : Later(r, to) \in Call
    BY <1>1, <1>2 DEF Later, Call
  <1>4. QED
    BY <1>1, <1>2, <1>3 DEF Known

LEMMA GoesMoves ==
  ASSUME CatalogInv, NEW r \in Request, NEW to \in Places, Goes(r, to),
         to \in Removing => request[r].target # None,
         to \in {"list", "each"} => request[r].kind = "delete",
         Hides(Later(r, to)) => Hides(request[r])
  PROVE  Moves(r, Later(r, to))
  <1>1. request' = [request EXCEPT ![r] = Later(r, to)]
    BY DEF Goes, Later
  <1>2. Later(r, to).at \in Removing => Later(r, to).target # None
    BY CallOf DEF Later, Resting, Removing, Call
  <1>3. Later(r, to).at \in {"list", "each"} => Later(r, to).kind = "delete"
    BY CallOf DEF Later, Resting, Call
  <1>4. \A a \in Knows(Later(r, to)) : a = None \/ Known(a)
    BY CallOf DEF Later, Resting, Knows, NewRow, Call, Rows
  <1>5. QED
    BY <1>1, <1>2, <1>3, <1>4, CallOf DEF Moves, Learned

\* The places of Later, and that it keeps the rest.
LEMMA LaterFields ==
  ASSUME CatalogInv, NEW r \in Request, NEW to \in Places
  PROVE  /\ Later(r, to).at = to
         /\ to # "done" => /\ Later(r, to).kind = request[r].kind
                           /\ Later(r, to).target = request[r].target
         /\ Keeps(Later(r, to)) <=>
              to = "link" \/ (to \in Removing /\ request[r].kind = "model")
         /\ Hides(Later(r, to)) <=>
              \/ to \in {"new", "count", "put", "row", "link"}
              \/ to \in Removing /\ request[r].kind = "model"
  BY CallOf DEF Later, Resting, Call, Keeps, Hides, Removing

\* Nothing but the request changes.
LEMMA QuietStepKeepsInv ==
  ASSUME CatalogInv, NEW r \in Request, NEW c, Moves(r, c),
         UNCHANGED <<product, link, stored, object>>,
         faults' \in 0..MaxFaults, disturbed' \in SUBSET Product,
         Provides(r, c)
  PROVE  CatalogInv'
  <1>1. ListedOpens'
    BY DEF CatalogInv, ListedOpens
  <1>2. Respects(r, c)
    <2>1. \A l \in link : Known(l.asset)
      BY DEF Known, Listed
    <2>2. \A p \in Product : Known(product[p].model)
      BY DEF Known
    <2>3. QED
      BY <2>1, <2>2 DEF Respects, Learned, CatalogInv, CatalogTypeOK
  <1>3. QED
    BY <1>1, <1>2, StepKeepsInv

\* ... and it goes to a place where its own asset does not matter, or on with
\* what it has.
LEMMA GoesKeepsInv ==
  ASSUME CatalogInv, NEW r \in Request, NEW to \in Places, Goes(r, to),
         UNCHANGED <<product, link, stored, object>>,
         faults' \in 0..MaxFaults, disturbed' \in SUBSET Product,
         to \in Removing => request[r].target # None,
         to \in {"list", "each"} => request[r].kind = "delete",
         Hides(Later(r, to)) => Hides(request[r]),
         Keeps(Later(r, to)) => Keeps(request[r]),
         to # "row", to \in NoRowYet => request[r].at \in NoRowYet,
         to \notin Unlisting \cup {"undo", "unput"}
  PROVE  CatalogInv'
  <1>1. Moves(r, Later(r, to))
    BY GoesMoves
  <1>2. Provides(r, Later(r, to))
    BY LaterFields DEF Provides, CatalogInv, InHand, NotYetStored, TakenBack, Unlisting
  <1>3. QED
    BY <1>1, <1>2, QuietStepKeepsInv

-----------------------------------------------------------------------------
(* Handlers begin *)

\* A request that begins, as Begins has it.
Begun(c, at, kind, target, seen) ==
  [c EXCEPT !.at = at, !.kind = kind, !.target = target, !.seen = seen]

LEMMA BegunCall ==
  ASSUME NEW c \in Call, NEW at \in Places, NEW kind \in Kinds, NEW target \in Ref,
         NEW seen \in Rows
  PROVE  /\ Begun(c, at, kind, target, seen) \in Call
         /\ Begun(c, at, kind, target, seen).at = at
         /\ Begun(c, at, kind, target, seen).kind = kind
         /\ Begun(c, at, kind, target, seen).target = target
         /\ Knows(Begun(c, at, kind, target, seen)) = c.todo \cup {target, seen.model}
  BY DEF Call, Begun, Knows

LEMMA BeginsCall ==
  ASSUME CatalogInv, NEW r \in Request, NEW kind, NEW place, NEW target,
         Begins(r, kind, place, target)
  PROVE  /\ request' = [request EXCEPT
              ![r] = Begun(request[r], place, kind, target, product[Target[r]])]
         /\ At(r, "new") /\ Target[r] \in Product /\ product[Target[r]] \in Rows
         /\ disturbed' \in SUBSET Product
  <1>1. Target[r] \in Product
    BY CatalogConstantsOK
  <1>2. product[Target[r]] \in Rows
    BY <1>1 DEF CatalogInv, CatalogTypeOK
  <1>3. request' = [request EXCEPT
          ![r] = Begun(request[r], place, kind, target, product[Target[r]])]
    BY DEF Begins, Begun
  <1>4. QED
    BY <1>1, <1>2, <1>3 DEF Begins, CatalogInv, CatalogTypeOK

LEMMA CreateKeepsInv ==
  ASSUME CatalogInv, NEW r \in Request, Create(r)
  PROVE  CatalogInv'
  <1> DEFINE p == Target[r]
  <1>1. /\ UNCHANGED <<link, stored, object, faults>>
        /\ product' = [product EXCEPT ![p].status = "DRAFT"]
        /\ At(r, "new") /\ p \in Product
    BY CatalogConstantsOK DEF Create
  <1>2. /\ product' \in [Product -> Rows]
        /\ \A q \in Product : product'[q].model = product[q].model
    BY <1>1 DEF CatalogInv, CatalogTypeOK, Rows, Statuses
  <1>3. /\ link \in SUBSET Links /\ IsFiniteSet(link) /\ stored \in SUBSET Request /\ object \in SUBSET Request
        /\ faults' \in 0..MaxFaults /\ disturbed \in SUBSET Product
    BY <1>1 DEF CatalogInv, CatalogTypeOK
  <1>4. ASSUME NEW c, Moves(r, c), c.at \in {"put", "drop", "done"}, c.kind = "create",
               disturbed' \in SUBSET Product
        PROVE  CatalogInv'
    <2>1. Respects(r, c)
      BY <1>1, <1>2, <1>3, <1>4 DEF Respects, Learned, Known, Listed
    <2>2. Provides(r, c)
      BY <1>1, <1>4 DEF Provides, Keeps, Removing, NoRowYet, CatalogInv, NotYetStored, At,
                        TakenBack, Unlisting
    <2>3. ListedOpens'
      BY <1>1 DEF CatalogInv, ListedOpens
    <2>4. QED
      BY <1>4, <2>1, <2>2, <2>3, StepKeepsInv
  <1>5. CASE Goes(r, "done") /\ UNCHANGED disturbed
    <2>1. Moves(r, Later(r, "done"))
      BY <1>5, GoesMoves, LaterFields DEF Places, Removing
    <2>2. Later(r, "done").kind = "create"
      BY DEF Later, Resting
    <2>3. QED
      BY <1>3, <1>4, <1>5, <2>1, <2>2, LaterFields DEF Places
  <1>6. ASSUME NEW place \in {"put", "drop"}, Begins(r, "create", place, None)
        PROVE  CatalogInv'
    <2> DEFINE c == Begun(request[r], place, "create", None, product[p])
    <2>1. /\ request' = [request EXCEPT ![r] = c] /\ disturbed' \in SUBSET Product
          /\ product[p] \in Rows
      BY <1>6, BeginsCall
    <2>2. /\ c \in Call /\ c.at = place /\ c.kind = "create"
          /\ \A a \in Knows(c) : a \in request[r].todo \cup {None, product[p].model}
      <3>1. place \in Places /\ "create" \in Kinds /\ None \in Ref /\ request[r] \in Call
        BY CallOf DEF Places, Kinds, Ref
      <3>2. \A a \in Knows(c) : a \in request[r].todo \cup {None, product[p].model}
        BY <2>1, <3>1, BegunCall
      <3>3. c \in Call /\ c.at = place /\ c.kind = "create"
        BY <2>1, <3>1, BegunCall
      <3>4. QED
        BY <3>2, <3>3
    <2>3. \A a \in Knows(c) : a = None \/ Known(a)
      BY <1>1, <2>2, CallOf DEF Knows, Known
    <2> HIDE DEF c
    <2>4. Moves(r, c)
      BY <1>1, <2>1, <2>2, <2>3 DEF Moves, Learned, Removing, Hides, At
    <2>5. QED
      BY <1>4, <2>1, <2>2, <2>4
  <1>7. QED
    BY <1>5, <1>6 DEF Create

\* A handler that has read its product knows of assets that are known.
LEMMA BeginsKeepsInv ==
  ASSUME CatalogInv, NEW r \in Request,
         NEW kind \in Kinds,
         NEW place \in {"count", "list", "shift", "find"},
         NEW target, target = None \/ Listed(target), target \in Ref,
         place = "find" => target # None /\ kind # "model",
         place = "list" => kind = "delete",
         Begins(r, kind, place, target),
         UNCHANGED <<product, link, stored, object, faults>>
  PROVE  CatalogInv'
  <1> DEFINE p == Target[r]
             c == Begun(request[r], place, kind, target, product[p])
  <1>1. /\ request' = [request EXCEPT ![r] = c] /\ At(r, "new") /\ p \in Product
        /\ disturbed' \in SUBSET Product /\ product[p] \in Rows
    BY BeginsCall
  <1>2. /\ c \in Call /\ c.at = place /\ c.kind = kind /\ c.target = target
        /\ \A a \in Knows(c) : a \in request[r].todo \cup {target, product[p].model}
    <2>1. place \in Places /\ request[r] \in Call
      BY CallOf DEF Places
    <2>2. \A a \in Knows(c) : a \in request[r].todo \cup {target, product[p].model}
      BY <1>1, <2>1, BegunCall
    <2>3. c \in Call /\ c.at = place /\ c.kind = kind /\ c.target = target
      BY <1>1, <2>1, BegunCall
    <2>4. QED
      BY <2>2, <2>3
  <1>3. \A a \in Knows(c) : a = None \/ Known(a)
    BY <1>1, <1>2, CallOf DEF Knows, Known
  <1> HIDE DEF c
  <1>4. Moves(r, c)
    BY <1>1, <1>2, <1>3 DEF Moves, Learned, Removing, Hides, At
  <1>5. Provides(r, c)
    BY <1>1, <1>2 DEF Provides, Keeps, Removing, NoRowYet, CatalogInv, NotYetStored, At,
                      TakenBack, Unlisting
  <1>6. faults' \in 0..MaxFaults
    BY DEF CatalogInv, CatalogTypeOK
  <1>7. QED
    BY <1>1, <1>4, <1>5, <1>6, QuietStepKeepsInv

LEMMA LoadKeepsInv ==
  ASSUME CatalogInv, NEW r \in Request, Load(r)
  PROVE  CatalogInv'
  <1>1. PICK h \in Handlers(product[Target[r]].status) : Begins(r, h[1], h[2], None)
    BY DEF Load
  <1>2. /\ h[1] \in Kinds /\ h[2] \in {"count", "list", "shift"}
        /\ h[2] = "list" => h[1] = "delete"
    BY DEF Handlers, Kinds
  <1>3. UNCHANGED <<product, link, stored, object, faults>>
    BY DEF Load
  <1>4. None \in Ref
    BY DEF Ref
  <1>5. QED
    BY <1>1, <1>2, <1>3, <1>4, BeginsKeepsInv

LEMMA RemoveAssetKeepsInv ==
  ASSUME CatalogInv, NEW r \in Request, RemoveAsset(r)
  PROVE  CatalogInv'
  <1>1. PICK l \in link : Begins(r, "remove", "find", l.asset)
    BY DEF RemoveAsset
  <1>2. Listed(l.asset) /\ l.asset \in Request
    BY DEF Listed, CatalogInv, CatalogTypeOK, Links
  <1>3. "remove" \in Kinds /\ l.asset # None /\ l.asset \in Ref
    BY <1>2, CatalogConstantsOK DEF Kinds, Ref
  <1>4. UNCHANGED <<product, link, stored, object, faults>>
    BY DEF RemoveAsset
  <1>5. QED
    BY <1>1, <1>2, <1>3, <1>4, BeginsKeepsInv

-----------------------------------------------------------------------------
(* Steps of publish, off-shelf and upload *)

LEMMA CountKeepsInv ==
  ASSUME CatalogInv, NEW r \in Request, Count(r)
  PROVE  CatalogInv'
  <1> DEFINE n == Cardinality(Of(Target[r], KindOf(request[r].kind)))
             c == [request[r] EXCEPT !.at = "put", !.count = n]
  <1>1. /\ At(r, "count") /\ UNCHANGED <<product, link, stored, object>>
        /\ faults' \in 0..MaxFaults /\ disturbed' \in SUBSET Product
    BY DEF Count, CatalogInv, CatalogTypeOK
  <1>2. ASSUME NEW to \in {"shift", "done"}, Goes(r, to)
        PROVE  CatalogInv'
    BY <1>1, <1>2, GoesKeepsInv, LaterFields DEF Places, Removing, NoRowYet, Unlisting
  <1>3. CASE request' = [request EXCEPT ![r].at = "put", ![r].count = n]
    <2>1. n \in Nat
      <3>1. Of(Target[r], KindOf(request[r].kind)) \in SUBSET link
        BY DEF Of
      <3>2. QED
        BY <3>1, FS_Subset, FS_CardinalityType DEF CatalogInv
    <2> HIDE DEF n
    <2>2. request' = [request EXCEPT ![r] = c]
      BY <1>3
    <2>3. /\ c \in Call /\ c.at = "put"
          /\ c.todo = request[r].todo /\ c.target = request[r].target /\ c.seen = request[r].seen
      <3>1. request[r] \in Call
        BY CallOf
      <3>2. QED
        BY <2>1, <3>1 DEF Call, Places
    <2> HIDE DEF c
    <2>4. Moves(r, c)
      BY <1>1, <2>2, <2>3, CallOf DEF Moves, Learned, Removing, Hides, At, Knows
    <2>5. Provides(r, c)
      BY <1>1, <2>3 DEF Provides, Keeps, Removing, NoRowYet, CatalogInv, NotYetStored, At,
                        TakenBack, Unlisting
    <2>6. QED
      BY <1>1, <2>4, <2>5, QuietStepKeepsInv
  <1>4. QED
    BY <1>2, <1>3 DEF Count

\* A product's row is updated; its model stays, goes, or becomes the asset of a
\* request that has listed it.
LEMMA UpdateKeepsInv ==
  ASSUME CatalogInv, NEW r \in Request, NEW c, Moves(r, c), Provides(r, c),
         UNCHANGED <<link, stored, object, disturbed>>, faults' \in 0..MaxFaults,
         product' \in [Product -> Rows],
         \A p \in Product : \/ product'[p].model \in {product[p].model, None}
                            \/ product'[p].model = r /\ ~Hides(c)
  PROVE  CatalogInv'
  <1>1. ListedOpens'
    BY DEF CatalogInv, ListedOpens
  <1>2. Respects(r, c)
    <2>1. \A l \in link : Known(l.asset)
      BY DEF Known, Listed
    <2>2. \A p \in Product : Known(product[p].model)
      BY DEF Known
    <2>3. QED
      BY <2>1, <2>2 DEF Respects, Learned, CatalogInv, CatalogTypeOK
  <1>3. QED
    BY <1>1, <1>2, StepKeepsInv

\* The request is done with what concerned its own asset.
LEMMA GoesProvides ==
  ASSUME CatalogInv, NEW r \in Request, NEW to \in {"done", "drop", "shift"},
         Goes(r, to)
  PROVE  Moves(r, Later(r, to)) /\ Provides(r, Later(r, to)) /\ ~Hides(Later(r, to))
  BY GoesMoves, LaterFields DEF Provides, Removing, NoRowYet, Places, TakenBack, Unlisting

LEMMA ShiftKeepsInv ==
  ASSUME CatalogInv, NEW r \in Request, Shift(r)
  PROVE  CatalogInv'
  <1>1. /\ UNCHANGED <<link, stored, object, disturbed>> /\ faults' \in 0..MaxFaults
        /\ Goes(r, "done")
    BY DEF Shift, CatalogInv, CatalogTypeOK
  <1>2. /\ product' \in [Product -> Rows]
        /\ \A p \in Product : product'[p].model = product[p].model
    BY CatalogConstantsOK DEF Shift, CatalogInv, CatalogTypeOK, Rows, Statuses
  <1>3. QED
    BY <1>1, <1>2, GoesProvides, UpdateKeepsInv

LEMMA DropKeepsInv ==
  ASSUME CatalogInv, NEW r \in Request, Drop(r)
  PROVE  CatalogInv'
  <1>1. /\ UNCHANGED <<link, stored, object, disturbed>> /\ faults' \in 0..MaxFaults
        /\ Goes(r, "done")
    BY DEF Drop, CatalogInv, CatalogTypeOK
  <1>2. /\ product' \in [Product -> Rows]
        /\ \A p \in Product : product'[p].model = product[p].model
    BY CatalogConstantsOK DEF Drop, CatalogInv, CatalogTypeOK, Rows, Statuses
  <1>3. QED
    BY <1>1, <1>2, GoesProvides, UpdateKeepsInv

LEMMA ShowKeepsInv ==
  ASSUME CatalogInv, NEW r \in Request, Show(r)
  PROVE  CatalogInv'
  <1>1. /\ UNCHANGED <<link, stored, object, disturbed>> /\ faults' \in 0..MaxFaults
        /\ Goes(r, "done")
    BY DEF Show, CatalogInv, CatalogTypeOK
  <1>2. /\ product' \in [Product -> Rows]
        /\ \A p \in Product : product'[p].model \in {product[p].model, r}
    <2>1. /\ product \in [Product -> Rows] /\ Target[r] \in Product /\ r \in Ref
          /\ product[Target[r]] \in Rows
      BY CatalogConstantsOK DEF CatalogInv, CatalogTypeOK, Ref
    <2>2. /\ [product[Target[r]] EXCEPT !.cover = r] \in Rows
          /\ [product[Target[r]] EXCEPT !.cover = r].model = product[Target[r]].model
          /\ [product[Target[r]] EXCEPT !.model = r] \in Rows
          /\ [product[Target[r]] EXCEPT !.model = r].model = r
      BY <2>1 DEF Rows
    <2>3. QED
      BY <2>1, <2>2 DEF Show, Updates
  <1>3. QED
    BY <1>1, <1>2, GoesProvides, UpdateKeepsInv

LEMMA PutObjectKeepsInv ==
  ASSUME CatalogInv, NEW r \in Request, PutObject(r)
  PROVE  CatalogInv'
  <1> DEFINE c == Later(r, "row")
  <1>1. /\ At(r, "put") /\ Goes(r, "row") /\ object' = object \cup {r}
        /\ UNCHANGED <<product, link, stored, faults, disturbed>>
    BY DEF PutObject
  <1>2. /\ c.at = "row" /\ ~Keeps(c) /\ Hides(c) /\ Hides(request[r])
    BY <1>1, LaterFields DEF Removing, Places, Hides, At
  <1>3. Moves(r, c)
    BY <1>1, <1>2, GoesMoves DEF Removing, Places
  <1>4. Provides(r, c)
    BY <1>1, <1>2 DEF Provides, NoRowYet, CatalogInv, NotYetStored, At, TakenBack, Unlisting
  <1>5. Respects(r, c)
    <2>1. \A l \in link : Known(l.asset)
      BY DEF Known, Listed
    <2>2. \A p \in Product : Known(product[p].model)
      BY DEF Known
    <2>3. QED
      BY <1>1, <2>1, <2>2 DEF Respects, Learned, CatalogInv, CatalogTypeOK
  <1>6. ListedOpens'
    BY <1>1 DEF CatalogInv, ListedOpens
  <1>7. QED
    BY <1>3, <1>4, <1>5, <1>6, StepKeepsInv

LEMMA PutRowKeepsInv ==
  ASSUME CatalogInv, NEW r \in Request, PutRow(r)
  PROVE  CatalogInv'
  <1>1. /\ At(r, "row") /\ stored' = stored \cup {r} /\ r \in object /\ Hides(request[r])
        /\ UNCHANGED <<product, link, object, faults, disturbed>>
        /\ ~Listed(r)
    BY DEF PutRow, CatalogInv, InHand, Hides, At, HiddenUnknown, Known
  <1>2. ASSUME NEW c, Moves(r, c), c.at \in {"link", "find"}
        PROVE  CatalogInv'
    <2>1. Provides(r, c)
      BY <1>1, <1>2 DEF Provides, NoRowYet, TakenBack, Unlisting
    <2>2. \A l \in link : Known(l.asset)
      BY DEF Known, Listed
    <2>3. \A p \in Product : Known(product[p].model)
      BY DEF Known
    <2>4. Respects(r, c)
      BY <1>1, <2>2, <2>3 DEF Respects, Learned, CatalogInv, CatalogTypeOK
    <2>5. ListedOpens'
      BY <1>1 DEF CatalogInv, ListedOpens, Listed
    <2>6. QED
      BY <1>2, <2>1, <2>4, <2>5, StepKeepsInv
  <1>3. CASE Goes(r, "link")
    <2>1. Later(r, "link").at = "link"
      BY LaterFields DEF Places
    <2>2. Moves(r, Later(r, "link"))
      BY <1>1, <1>3, GoesMoves DEF Removing, Places
    <2>3. QED
      BY <1>2, <2>1, <2>2
  <1>4. CASE /\ request[r].seen.model # None
             /\ request' = [request EXCEPT ![r].at = "find", ![r].target = request[r].seen.model]
    <2> DEFINE c == [request[r] EXCEPT !.at = "find", !.target = request[r].seen.model]
    <2>1. request[r] \in Call
      BY CallOf
    <2>2. /\ c \in Call /\ c.at = "find" /\ c.target = request[r].seen.model
          /\ c.todo = request[r].todo /\ c.seen = request[r].seen
      BY <2>1 DEF Call, Places, Rows
    <2>3. request' = [request EXCEPT ![r] = c]
      BY <1>4
    <2> HIDE DEF c
    <2>4. \A a \in Knows(c) : a = None \/ Known(a)
      BY <2>2, CallOf DEF Knows
    <2>5. Moves(r, c)
      BY <1>1, <1>4, <2>2, <2>3, <2>4 DEF Moves, Learned
    <2>6. QED
      BY <1>2, <2>2, <2>5
  <1>5. QED
    BY <1>3, <1>4 DEF PutRow

LEMMA NewLinkType ==
  ASSUME CatalogInv, NEW r \in Request, NEW b \in BOOLEAN
  PROVE  /\ NewLink(r, b) \in Links
         /\ NewLink(r, b).asset = r /\ NewLink(r, b).product = Target[r]
         /\ NewLink(r, b).kind = KindOf(request[r].kind) /\ NewLink(r, b).answered = b
  <1>1. request[r].count \in Nat /\ Target[r] \in Product
    BY CallOf, CatalogConstantsOK DEF Call
  <1>2. QED
    BY <1>1 DEF NewLink, Links, KindOf

\* The asset is listed: both its row and its object are there.
LEMMA ListingKeepsInv ==
  ASSUME CatalogInv, NEW r \in Request, At(r, "link"), NEW b \in BOOLEAN,
         link' = link \cup {NewLink(r, b)}, UNCHANGED <<product, stored, object, disturbed>>,
         faults' \in 0..MaxFaults,
         NEW to \in {"show", "done", "undo"}, Goes(r, to), to = "undo" => ~b
  PROVE  CatalogInv'
  <1> DEFINE c == Later(r, to)
             l == NewLink(r, b)
  <1>1. /\ r \in stored /\ r \in object /\ Hides(request[r]) /\ ~Listed(r)
    BY DEF CatalogInv, InHand, Keeps, Hides, At, HiddenUnknown, Known
  <1>2. l \in Links /\ l.asset = r /\ l.answered = b
    BY NewLinkType
  <1>3. /\ c.at = to /\ ~Hides(c) /\ ~Keeps(c)
    BY LaterFields DEF Removing, Places
  <1>4. Moves(r, c)
    BY <1>3, GoesMoves DEF Removing, Places
  <1> HIDE DEF c, l
  <1>5. Provides(r, c)
    <2>1. TakenBack(r, c, link', stored')
      BY <1>1, <1>2, <1>3 DEF TakenBack, Listed, l
    <2>2. QED
      BY <1>3, <2>1 DEF Provides, NoRowYet, Unlisting
  <1>6. Respects(r, c)
    <2>1. \A k \in link : Known(k.asset)
      BY DEF Known, Listed
    <2>2. \A p \in Product : Known(product[p].model)
      BY DEF Known
    <2>3. IsFiniteSet(link')
      BY FS_AddElement DEF CatalogInv
    <2>4. QED
      BY <1>1, <1>2, <1>3, <2>1, <2>2, <2>3 DEF Respects, Learned, CatalogInv, CatalogTypeOK, l
  <1>7. ListedOpens'
    BY <1>1, <1>2 DEF CatalogInv, ListedOpens, l
  <1>8. QED
    BY <1>4, <1>5, <1>6, <1>7, StepKeepsInv

LEMMA LinkKeepsInv ==
  ASSUME CatalogInv, NEW r \in Request, Link(r)
  PROVE  CatalogInv'
  <1>1. PICK to \in {"show", "done"} : Goes(r, to)
    BY DEF Link
  <1>2. /\ At(r, "link") /\ link' = link \cup {NewLink(r, TRUE)}
        /\ UNCHANGED <<product, stored, object, disturbed>> /\ faults' \in 0..MaxFaults
    BY DEF Link, CatalogInv, CatalogTypeOK
  <1>3. QED
    BY <1>1, <1>2, ListingKeepsInv

-----------------------------------------------------------------------------
(* Steps of delete and of removeAsset *)

LEMMA ListKeepsInv ==
  ASSUME CatalogInv, NEW r \in Request, List(r)
  PROVE  CatalogInv'
  <1> DEFINE found == {l.asset : l \in {k \in link : k.product = Target[r]}}
             c == [request[r] EXCEPT !.at = "each", !.todo = found]
  <1>1. /\ UNCHANGED <<product, link, stored, object>> /\ request[r] \in Call
        /\ faults' \in 0..MaxFaults /\ disturbed' \in SUBSET Product
        /\ request[r].kind = "delete"
    BY CallOf DEF List, At, CatalogInv, CatalogTypeOK, ListsToDelete
  <1>2. found \in SUBSET Request /\ \A a \in found : Known(a)
    BY DEF CatalogInv, CatalogTypeOK, Links, Known, Listed
  <1>3. request' = [request EXCEPT ![r] = c]
    BY DEF List
  <1> HIDE DEF found
  <1>4. /\ c \in Call /\ c.at = "each" /\ c.todo = found /\ c.kind = request[r].kind
        /\ c.target = request[r].target /\ c.seen = request[r].seen
    BY <1>1, <1>2 DEF Call, Places
  <1> HIDE DEF c
  <1>5. \A a \in Knows(c) : a = None \/ Known(a)
    BY <1>2, <1>4, CallOf DEF Knows
  <1>6. Moves(r, c) /\ Provides(r, c)
    BY <1>1, <1>3, <1>4, <1>5 DEF Moves, Learned, Removing, Hides, Provides, Keeps, NoRowYet,
                                  TakenBack, Unlisting
  <1>7. QED
    BY <1>1, <1>6, QuietStepKeepsInv

LEMMA EachKeepsInv ==
  ASSUME CatalogInv, NEW r \in Request, Each(r)
  PROVE  CatalogInv'
  <1>1. /\ UNCHANGED <<product, link, stored, object>> /\ request[r] \in Call
        /\ faults' \in 0..MaxFaults /\ disturbed' \in SUBSET Product
        /\ request[r].kind = "delete"
    BY CallOf DEF Each, At, CatalogInv, CatalogTypeOK, ListsToDelete
  <1>2. CASE Goes(r, "drop")
    BY <1>1, <1>2, GoesProvides, QuietStepKeepsInv
  <1>3. ASSUME NEW a \in request[r].todo,
               request' = [request EXCEPT ![r].at = "find", ![r].target = a,
                                          ![r].todo = request[r].todo \ {a}]
        PROVE  CatalogInv'
    <2> DEFINE c == [request[r] EXCEPT !.at = "find", !.target = a,
                                       !.todo = request[r].todo \ {a}]
    <2>1. a \in Request /\ a # None /\ a \in Ref
      BY <1>1, CatalogConstantsOK DEF Call, Ref
    <2>2. /\ c \in Call /\ c.at = "find" /\ c.target = a /\ c.kind = request[r].kind
          /\ c.todo \in SUBSET request[r].todo /\ c.seen = request[r].seen
      BY <1>1, <2>1 DEF Call, Places
    <2>3. request' = [request EXCEPT ![r] = c]
      BY <1>3
    <2> HIDE DEF c
    <2>4. \A b \in Knows(c) : b = None \/ Known(b)
      BY <2>2, CallOf DEF Knows
    <2>5. Moves(r, c) /\ Provides(r, c)
      BY <1>1, <2>1, <2>2, <2>3, <2>4
      DEF Moves, Learned, Removing, Hides, Provides, Keeps, NoRowYet, TakenBack, Unlisting
    <2>6. QED
      BY <1>1, <2>5, QuietStepKeepsInv
  <1>4. QED
    BY <1>2, <1>3 DEF Each

\* What a request removes is known, so it is nobody's hidden asset.
LEMMA TargetNotHidden ==
  ASSUME CatalogInv, NEW r \in Request, request[r].at \in Removing
  PROVE  /\ request[r].target \in Request
         /\ \A s \in Request : Hides(request[s]) => s # request[r].target
  <1>1. request[r].target \in Request
    BY CallOf DEF CatalogInv, CatalogTypeOK, Call, Ref
  <1>2. Known(request[r].target)
    BY DEF Known, Knows
  <1>3. QED
    BY <1>1, <1>2 DEF CatalogInv, HiddenUnknown

\* After removeAsset; an upload still has what it stored.
LEMMA ResumeFits ==
  ASSUME CatalogInv, NEW r \in Request, request[r].at \in Removing, Goes(r, Resume(r)),
         Keeps(request[r]) => r \in stored' /\ r \in object'
  PROVE  Moves(r, Later(r, Resume(r))) /\ Provides(r, Later(r, Resume(r)))
  <1>1. \/ Resume(r) = "each" /\ request[r].kind = "delete"
        \/ Resume(r) = "link" /\ request[r].kind = "model"
        \/ Resume(r) \in {"drop", "done"}
    BY DEF Resume
  <1>2. Resume(r) \in Places /\ Resume(r) \notin Removing
    BY <1>1 DEF Places, Removing
  <1>3. Hides(Later(r, Resume(r))) => request[r].kind = "model"
    BY <1>1, <1>2, LaterFields
  <1>4. Moves(r, Later(r, Resume(r)))
    BY <1>1, <1>2, <1>3, GoesMoves DEF Hides
  <1>5. Provides(r, Later(r, Resume(r)))
    BY <1>1, <1>2, LaterFields DEF Provides, NoRowYet, Keeps, Removing, TakenBack, Unlisting
  <1>6. QED
    BY <1>4, <1>5

\* On to another statement of removeAsset.
LEMMA RemovingFits ==
  ASSUME CatalogInv, NEW r \in Request, request[r].at \in Removing,
         NEW to \in Removing, Goes(r, to),
         Keeps(request[r]) => r \in stored' /\ r \in object',
         to = "wipe" => request[r].target \notin stored',
         to \in Unlisting => Unlisted(request[r].target, link')
  PROVE  Moves(r, Later(r, to)) /\ Provides(r, Later(r, to))
  <1>1. /\ to \in Places /\ to \notin NoRowYet
        /\ to \notin {"row", "done", "list", "each", "link", "undo", "unput"}
    BY DEF Places, NoRowYet, Removing
  <1>2. request[r].target # None
    BY DEF CatalogInv, CatalogTypeOK
  <1>3. Hides(Later(r, to)) => Hides(request[r])
    BY <1>1, LaterFields DEF Hides, NoRowYet
  <1>4. Moves(r, Later(r, to))
    BY <1>1, <1>2, <1>3, GoesMoves
  <1>5. Provides(r, Later(r, to))
    <2>1. Later(r, to).at = to /\ Later(r, to).target = request[r].target
      BY <1>1, LaterFields
    <2>2. TakenBack(r, Later(r, to), link', stored')
      BY <1>1, <2>1 DEF TakenBack
    <2>3. Keeps(Later(r, to)) => Keeps(request[r])
      BY <1>1, LaterFields DEF Keeps
    <2>4. QED
      BY <1>1, <2>1, <2>2, <2>3 DEF Provides
  <1>6. QED
    BY <1>4, <1>5

\* Rows, links and an object go; what is listed stays, and so does what others
\* hide.
LEMMA RemovalKeepsInv ==
  ASSUME CatalogInv, NEW r \in Request, NEW c, Moves(r, c), Provides(r, c),
         UNCHANGED <<product, faults, disturbed>>,
         link' \in SUBSET link, stored' \in SUBSET stored, object' \in SUBSET object,
         ListedOpens',
         \A s \in Request \ {r} :
           Hides(request[s]) => /\ s \in stored => s \in stored'
                                /\ s \in object => s \in object'
  PROVE  CatalogInv'
  <1>1. \A l \in link : Known(l.asset)
    BY DEF Known, Listed
  <1>2. \A p \in Product : Known(product[p].model)
    BY DEF Known
  <1>3. IsFiniteSet(link')
    BY FS_Subset DEF CatalogInv
  <1>4. Respects(r, c)
    BY <1>1, <1>2, <1>3 DEF Respects, Learned, CatalogInv, CatalogTypeOK
  <1>5. QED
    BY <1>4, StepKeepsInv

LEMMA FindKeepsInv ==
  ASSUME CatalogInv, NEW r \in Request, Find(r)
  PROVE  CatalogInv'
  <1>1. /\ At(r, "find") /\ UNCHANGED <<product, link, stored, object, faults, disturbed>>
        /\ faults \in 0..MaxFaults /\ disturbed \in SUBSET Product
    BY DEF Find, CatalogInv, CatalogTypeOK
  <1>2. request[r].at \in Removing /\ "unlink" \in Removing
    BY <1>1 DEF At, Removing
  <1>3. Keeps(request[r]) => r \in stored' /\ r \in object'
    BY <1>1 DEF CatalogInv, InHand
  <1>4. CASE Goes(r, "unlink")
    BY <1>1, <1>2, <1>3, <1>4, RemovingFits, QuietStepKeepsInv DEF Unlisting
  <1>5. CASE Goes(r, Resume(r))
    BY <1>1, <1>2, <1>3, <1>5, ResumeFits, QuietStepKeepsInv
  <1>6. QED
    BY <1>4, <1>5 DEF Find

LEMMA UnlinkKeepsInv ==
  ASSUME CatalogInv, OwnAssets, NEW r \in Request, Unlink(r)
  PROVE  CatalogInv'
  <1> DEFINE a == request[r].target
  <1>1. /\ At(r, "unlink") /\ UNCHANGED <<product, stored, object, faults, disturbed>>
        /\ link' = link \ LinkOf(Target[r], a) /\ link' \in SUBSET link
    BY DEF Unlink
  <1>2. PICK to \in {"next", "point", "erase"} : Goes(r, to)
    BY DEF Unlink
  <1>3. request[r].at \in Removing /\ to \in Removing
    BY <1>1 DEF At, Removing
  <1>4. Keeps(request[r]) => r \in stored' /\ r \in object'
    BY <1>1 DEF CatalogInv, InHand
  <1>5. Unlisted(a, link')
    <2>1. a # None /\ Target[a] = Target[r]
      BY <1>3 DEF OwnAssets, Belongs, Knows, CatalogInv, CatalogTypeOK
    <2>2. \A l \in link : l.asset = a => l.product = Target[r]
      BY <2>1 DEF OwnAssets, Belongs
    <2>3. QED
      BY <1>1, <2>2 DEF Unlisted, LinkOf
  <1>6. Moves(r, Later(r, to)) /\ Provides(r, Later(r, to))
    BY <1>2, <1>3, <1>4, <1>5, RemovingFits
  <1>7. ListedOpens'
    BY <1>1 DEF CatalogInv, ListedOpens
  <1>8. QED
    BY <1>1, <1>6, <1>7, RemovalKeepsInv

\* No link is left when the row is deleted.
LEMMA EraseLeavesLinks ==
  ASSUME CatalogInv, NEW r \in Request, Erase(r)
  PROVE  link' = link /\ Unlisted(request[r].target, link)
  <1>1. Unlisted(request[r].target, link)
    BY DEF Erase, At, CatalogInv, RemovedUnlisted, Unlisting
  <1>2. link' = Without(request[r].target)
    BY DEF Erase
  <1>3. QED
    BY <1>1, <1>2 DEF Without, Unlisted

LEMMA EraseKeepsInv ==
  ASSUME CatalogInv, NEW r \in Request, Erase(r)
  PROVE  CatalogInv'
  <1> DEFINE a == request[r].target
  <1>1. /\ At(r, "erase") /\ UNCHANGED <<product, object, faults, disturbed>>
        /\ link' = link /\ stored' = stored \ {a} /\ Unlisted(a, link)
    BY EraseLeavesLinks DEF Erase
  <1>2. request[r].at \in Removing /\ "wipe" \in Removing
    BY <1>1 DEF At, Removing
  <1>3. \A s \in Request : Hides(request[s]) => s # a
    BY <1>2, TargetNotHidden
  <1>4. Keeps(request[r]) => r \in stored' /\ r \in object'
    BY <1>1, <1>3 DEF CatalogInv, InHand, Keeps, Hides
  <1>5. ListedOpens'
    BY <1>1 DEF CatalogInv, ListedOpens, Unlisted
  <1>6. ASSUME NEW c, Moves(r, c), Provides(r, c)
        PROVE  CatalogInv'
    BY <1>1, <1>3, <1>5, <1>6, RemovalKeepsInv
  <1>7. CASE Goes(r, "wipe")
    BY <1>1, <1>2, <1>4, <1>6, <1>7, RemovingFits
  <1>8. CASE Goes(r, Resume(r))
    BY <1>2, <1>4, <1>6, <1>8, ResumeFits
  <1>9. QED
    BY <1>7, <1>8 DEF Erase

\* An object is wiped after its links and its row are gone.
LEMMA WipeKeepsInv ==
  ASSUME CatalogInv, NEW r \in Request, Wipe(r)
  PROVE  CatalogInv'
  <1> DEFINE a == request[r].target
  <1>1. /\ At(r, "wipe") /\ UNCHANGED <<product, link, stored, faults, disturbed>>
        /\ object' = object \ {a} /\ Goes(r, Resume(r))
    BY DEF Wipe
  <1>2. request[r].at \in Removing
    BY <1>1 DEF At, Removing
  <1>3. \A s \in Request : Hides(request[s]) => s # a
    BY <1>2, TargetNotHidden
  <1>4. Keeps(request[r]) => r \in stored' /\ r \in object'
    BY <1>1, <1>3 DEF CatalogInv, InHand, Keeps, Hides
  <1>5. Unlisted(a, link)
    BY <1>1 DEF CatalogInv, RemovedUnlisted, Unlisting, At
  <1>6. ListedOpens'
    BY <1>1, <1>5 DEF CatalogInv, ListedOpens, Unlisted
  <1>7. Moves(r, Later(r, Resume(r))) /\ Provides(r, Later(r, Resume(r)))
    BY <1>1, <1>2, <1>4, ResumeFits
  <1>8. QED
    BY <1>1, <1>3, <1>6, <1>7, RemovalKeepsInv

LEMMA NextCoverKeepsInv ==
  ASSUME CatalogInv, NEW r \in Request, NEW a \in Ref, At(r, "next"),
         request' = [request EXCEPT ![r].at = "point", ![r].cover = a],
         UNCHANGED <<product, link, stored, object>>,
         faults' \in 0..MaxFaults, disturbed' \in SUBSET Product
  PROVE  CatalogInv'
  <1> DEFINE c == [request[r] EXCEPT !.at = "point", !.cover = a]
  <1>1. request[r] \in Call /\ request[r].at \in Removing /\ request[r].target # None
    BY CallOf DEF At, Removing, CatalogInv, CatalogTypeOK
  <1>2. request' = [request EXCEPT ![r] = c]
    OBVIOUS
  <1>3. /\ c \in Call /\ c.at = "point" /\ c.kind = request[r].kind
        /\ c.todo = request[r].todo /\ c.target = request[r].target /\ c.seen = request[r].seen
    BY <1>1 DEF Call, Places
  <1> HIDE DEF c
  <1>4. \A b \in Knows(c) : b = None \/ Known(b)
    BY <1>3, CallOf DEF Knows
  <1>5. Hides(c) => Hides(request[r])
    BY <1>1, <1>3 DEF Hides
  <1>6. Moves(r, c)
    BY <1>1, <1>2, <1>3, <1>4, <1>5 DEF Moves, Learned
  <1>7. Keeps(c) => Keeps(request[r])
    BY <1>1, <1>3 DEF Keeps
  <1>8. Provides(r, c)
    BY <1>3, <1>7 DEF Provides, NoRowYet, CatalogInv, InHand, At, TakenBack, Unlisting,
                      RemovedUnlisted
  <1>9. QED
    BY <1>6, <1>8, QuietStepKeepsInv

\* The row's cover and model may change; its model can only go.
LEMMA PointKeepsInv ==
  ASSUME CatalogInv, NEW r \in Request, Point(r)
  PROVE  CatalogInv'
  <1> DEFINE p == Target[r]
             me == request[r]
             cover(v) == IF me.seen.cover = me.target THEN me.cover ELSE v
             model(v) == IF me.seen.model = me.target THEN None ELSE v
             c == [me EXCEPT !.at = "erase", !.seen = [me.seen EXCEPT !.cover = cover(@)]]
  <1>1. /\ me \in Call /\ me.at = "point" /\ me.at \in Removing /\ me.target # None
        /\ UNCHANGED <<link, stored, object, disturbed>> /\ faults' \in 0..MaxFaults
    BY CallOf DEF Point, At, Removing, CatalogInv, CatalogTypeOK
  <1>2. request' = [request EXCEPT ![r] = c]
    BY DEF Point
  <1>3. [me.seen EXCEPT !.cover = cover(@)] \in Rows
    BY <1>1 DEF Call, Rows
  <1>4. [me.seen EXCEPT !.cover = cover(@)].model = me.seen.model
    BY <1>1 DEF Call, Rows
  <1>5. /\ c \in Call /\ c.at = "erase" /\ c.kind = me.kind
        /\ c.todo = me.todo /\ c.target = me.target /\ c.seen.model = me.seen.model
    BY <1>1, <1>3, <1>4 DEF Call, Places
  <1>6. /\ product' \in [Product -> Rows]
        /\ \A q \in Product : product'[q].model \in {product[q].model, None}
    <2>1. p \in Product /\ product \in [Product -> Rows] /\ product[p] \in Rows
      BY CatalogConstantsOK DEF CatalogInv, CatalogTypeOK
    <2> DEFINE row == [product[p] EXCEPT !.cover = cover(@), !.model = model(@)]
    <2>2. row \in Rows /\ row.model \in {product[p].model, None}
      BY <1>1, <2>1 DEF Call, Rows, Ref
    <2>3. product' = IF Exists(p) THEN [product EXCEPT ![p] = row] ELSE product
      BY DEF Point, Updates
    <2> HIDE DEF row
    <2>4. QED
      BY <2>1, <2>2, <2>3
  <1> HIDE DEF c
  <1>7. \A b \in Knows(c) : b = None \/ Known(b)
    BY <1>5, CallOf DEF Knows
  <1>8. Moves(r, c)
    BY <1>1, <1>2, <1>5, <1>7 DEF Moves, Learned, Hides
  <1>9. Keeps(c) => Keeps(me)
    BY <1>1, <1>5 DEF Keeps
  <1>10. Provides(r, c)
    BY <1>1, <1>5, <1>9 DEF Provides, NoRowYet, CatalogInv, InHand, TakenBack, Unlisting,
                            RemovedUnlisted
  <1>11. QED
    BY <1>1, <1>6, <1>8, <1>10, UpdateKeepsInv

-----------------------------------------------------------------------------
(* Failures *)

LEMMA UndoKeepsInv ==
  ASSUME CatalogInv, NEW r \in Request, Undo(r)
  PROVE  CatalogInv'
  <1> DEFINE c == Later(r, "unput")
  <1>1. /\ At(r, "undo") /\ UNCHANGED <<product, object, faults, disturbed>>
        /\ link' = Without(r) /\ stored' = stored \ {r} /\ Goes(r, "unput")
    BY DEF Undo
  <1>2. c.at = "unput" /\ ~Hides(c)
    BY LaterFields DEF Places, Removing
  <1>3. Moves(r, c)
    BY <1>1, <1>2, GoesMoves DEF Places, Removing
  <1>4. /\ link' \in SUBSET link
        /\ \A l \in link' : l.asset = r => ~Cascades /\ ~l.answered
    <2>1. \A l \in link : l.asset = r => ~l.answered
      BY <1>1 DEF CatalogInv, Undone, TakenBack, At
    <2>2. QED
      BY <1>1, <2>1 DEF Without
  <1> HIDE DEF c
  <1>5. Provides(r, c)
    BY <1>1, <1>2, <1>4 DEF Provides, Keeps, Removing, NoRowYet, TakenBack, Unlisting
  <1>6. ListedOpens'
    BY <1>1, <1>4 DEF CatalogInv, ListedOpens
  <1>7. QED
    BY <1>1, <1>3, <1>4, <1>5, <1>6, RemovalKeepsInv

LEMMA UnputKeepsInv ==
  ASSUME CatalogInv, NEW r \in Request, Unput(r)
  PROVE  CatalogInv'
  <1>1. /\ At(r, "unput") /\ UNCHANGED <<product, link, stored, faults, disturbed>>
        /\ object' = object \ {r} /\ Goes(r, GivenUp(r))
    BY DEF Unput
  <1>2. \A l \in link : l.asset = r => ~Cascades /\ ~l.answered /\ r \notin stored
    BY <1>1 DEF CatalogInv, Undone, TakenBack, At
  <1>3. ListedOpens'
    BY <1>1, <1>2 DEF CatalogInv, ListedOpens
  <1>4. ASSUME NEW c, Moves(r, c), Provides(r, c)
        PROVE  CatalogInv'
    BY <1>1, <1>3, <1>4, RemovalKeepsInv
  <1>5. PICK to \in {"done", "drop"} : Goes(r, to)
    BY <1>1 DEF GivenUp
  <1>6. Moves(r, Later(r, to)) /\ Provides(r, Later(r, to))
    BY <1>5, GoesProvides
  <1>7. QED
    BY <1>4, <1>6

\* Where a failure leads.
LEMMA FailurePlaces ==
  ASSUME NEW r \in Request
  PROVE  \/ OnFailure(r) = "find" /\ At(r, "show") /\ request[r].kind = "create"
         \/ OnFailure(r) = "point" /\ At(r, "next")
         \/ OnFailure(r) = "unput" /\ At(r, "row")
         \/ OnFailure(r) = "undo" /\ Keeps(request[r])
         \/ OnFailure(r) = "done"
         \/ OnFailure(r) = "drop" /\ request[r].kind = "create"
  <1>1. CASE request[r].at \in {"find", "unlink", "point", "erase", "wipe"}
    BY <1>1 DEF OnFailure, GivenUp, At, Keeps, Removing
  <1>2. CASE request[r].at \notin {"find", "unlink", "point", "erase", "wipe"}
    BY <1>2 DEF OnFailure, GivenUp, At, Keeps
  <1>3. QED
    BY <1>1, <1>2

\* The request that has failed, as c.
AbortsAs(r, c) ==
  /\ c \in Call /\ request' = [request EXCEPT ![r] = c]
  /\ IF c.at = "done" THEN c.kind = "create" ELSE c.kind = request[r].kind
  /\ \/ /\ c.at = "find" /\ At(r, "show") /\ c.kind = "create" /\ c.target = r
        /\ Knows(c) \subseteq Knows(request[r]) \cup {r}
     \/ /\ c.at = "point" /\ At(r, "next") /\ c.target = request[r].target
        /\ Knows(c) \subseteq Knows(request[r])
     \/ /\ \/ c.at = "unput" /\ At(r, "row")
           \/ c.at = "undo" /\ Keeps(request[r])
           \/ c.at = "done"
           \/ c.at = "drop" /\ c.kind = "create"
        /\ Knows(c) \subseteq Knows(request[r]) \cup {None}

LEMMA AbortsSomehow ==
  ASSUME CatalogInv, NEW r \in Request, Aborts(r)
  PROVE  \E c : AbortsAs(r, c)
  <1> DEFINE me == request[r]
             to == OnFailure(r)
  <1>1. me \in Call /\ r \in Ref /\ None \in Ref
    BY CallOf DEF Ref
  <1>2. CASE to = "find"
    <2> DEFINE seen == [me.seen EXCEPT !.model = r]
               c == [me EXCEPT !.at = "find", !.target = r, !.seen = seen]
    <2>1. request' = [request EXCEPT ![r] = c]
      <3>1. request' = [request EXCEPT ![r].at = "find", ![r].target = r,
                                       ![r].seen.model = r]
        BY <1>2 DEF Aborts
      <3>2. QED
        BY <3>1
    <2>2. seen \in Rows /\ seen.model = r
      BY <1>1 DEF Call, Rows
    <2> HIDE DEF seen
    <2>3. /\ c \in Call /\ c.at = "find" /\ c.kind = me.kind /\ c.target = r
          /\ c.todo = me.todo /\ c.seen.model = r
      BY <1>1, <2>2 DEF Call, Places
    <2> HIDE DEF c
    <2>4. Knows(c) \subseteq Knows(me) \cup {r}
      BY <2>3 DEF Knows
    <2>5. AbortsAs(r, c)
      BY <1>2, <2>1, <2>3, <2>4, FailurePlaces DEF AbortsAs
    <2>6. QED
      BY <2>5
  <1>3. CASE to = "point"
    <2> DEFINE c == [me EXCEPT !.at = "point", !.cover = None]
    <2>1. request' = [request EXCEPT ![r] = c]
      BY <1>3 DEF Aborts
    <2>2. /\ c \in Call /\ c.at = "point" /\ c.kind = me.kind /\ c.target = me.target
          /\ c.todo = me.todo /\ c.seen = me.seen
      BY <1>1 DEF Call, Places
    <2> HIDE DEF c
    <2>3. Knows(c) \subseteq Knows(me)
      BY <2>2 DEF Knows
    <2>4. AbortsAs(r, c)
      BY <1>3, <2>1, <2>2, <2>3, FailurePlaces DEF AbortsAs
    <2>5. QED
      BY <2>4
  <1>4. CASE to \notin {"find", "point"}
    <2>1. Goes(r, to)
      BY <1>4 DEF Aborts
    <2>2. /\ to \in {"unput", "undo", "done", "drop"}
          /\ to = "unput" => At(r, "row")
          /\ to = "undo" => Keeps(me)
          /\ to = "drop" => me.kind = "create"
      BY <1>4, FailurePlaces
    <2> HIDE DEF to
    <2>3. to \in Places /\ request' = [request EXCEPT ![r] = Later(r, to)]
      BY <2>1, <2>2 DEF Places, Goes, Later
    <2>4. /\ Later(r, to) \in Call /\ Later(r, to).at = to
          /\ to # "done" => Later(r, to).kind = me.kind
          /\ to = "done" => Later(r, to).kind = "create"
      BY <2>3, CallOf, LaterFields DEF Later, Resting
    <2>5. Knows(Later(r, to)) \subseteq Knows(me) \cup {None}
      BY <1>1 DEF Later, Resting, NewRow, Call, Knows
    <2>6. AbortsAs(r, Later(r, to))
      BY <2>2, <2>3, <2>4, <2>5 DEF AbortsAs
    <2>7. QED
      BY <2>6
  <1>5. QED
    BY <1>2, <1>3, <1>4

\* After a failure the handler relies on nothing it did not rely on before.
LEMMA AbortsMoves ==
  ASSUME CatalogInv, NEW r \in Request, NEW c, AbortsAs(r, c),
         link' = link, stored \subseteq stored', object' = object
  PROVE  Moves(r, c) /\ Provides(r, c) /\ (c.at # "point" => ~Hides(c))
  <1>1. r # None /\ \A a \in Knows(request[r]) : a = None \/ Known(a)
    BY CallOf, CatalogConstantsOK
  <1>2. c \in Call /\ request' = [request EXCEPT ![r] = c]
    BY DEF AbortsAs
  <1>3. CASE c.at = "point"
    <2>1. /\ request[r].at = "next" /\ c.target = request[r].target
          /\ c.kind = request[r].kind /\ Knows(c) \subseteq Knows(request[r])
      BY <1>3 DEF AbortsAs, At
    <2>2. request[r].target # None /\ Unlisted(request[r].target, link')
      BY <2>1 DEF CatalogInv, CatalogTypeOK, Removing, RemovedUnlisted, Unlisting
    <2>3. (Hides(c) => Hides(request[r])) /\ (Keeps(c) => Keeps(request[r]))
      BY <1>3, <2>1 DEF Hides, Keeps, Removing
    <2>4. Moves(r, c)
      BY <1>1, <1>2, <1>3, <2>1, <2>2, <2>3 DEF Moves, Learned
    <2>5. Provides(r, c)
      BY <1>3, <2>1, <2>2, <2>3 DEF Provides, CatalogInv, InHand, NoRowYet, TakenBack
    <2>6. QED
      BY <1>3, <2>4, <2>5
  <1>4. CASE c.at # "point"
    <2>1. /\ c.at \in {"find", "unput", "undo", "done", "drop"}
          /\ c.at = "find" => c.kind = "create" /\ c.target = r
          /\ Knows(c) \subseteq Knows(request[r]) \cup {r, None}
          /\ r \in Knows(c) => c.at = "find" \/ r \in Knows(request[r])
      BY <1>1, <1>4 DEF AbortsAs
    <2>2. ~Hides(c) /\ ~Keeps(c)
      BY <2>1 DEF Hides, Keeps, Removing
    <2>3. Moves(r, c)
      BY <1>1, <1>2, <2>1, <2>2 DEF Moves, Learned, Removing
    <2>4. c.at \in {"undo", "unput"} => ~Listed(r)
      <3>1. c.at \in {"undo", "unput"} => Hides(request[r])
        BY <1>4 DEF AbortsAs, Hides, Keeps, At
      <3>2. QED
        BY <3>1 DEF CatalogInv, HiddenUnknown, Known
    <2>5. Provides(r, c)
      BY <2>1, <2>2, <2>4 DEF Provides, NoRowYet, TakenBack, Unlisting, Listed
    <2>6. QED
      BY <2>2, <2>3, <2>5
  <1>5. QED
    BY <1>3, <1>4

LEMMA FailsKeepsInv ==
  ASSUME CatalogInv, NEW r \in Request, Fails(r)
  PROVE  CatalogInv'
  <1>1. /\ UNCHANGED <<product, link, stored, object>> /\ Aborts(r)
        /\ faults' \in 0..MaxFaults /\ disturbed' \in SUBSET Product
    BY CatalogConstantsOK DEF Fails, CatalogInv, CatalogTypeOK
  <1>2. PICK c : AbortsAs(r, c)
    BY <1>1, AbortsSomehow
  <1>3. Moves(r, c) /\ Provides(r, c)
    BY <1>1, <1>2, AbortsMoves
  <1>4. QED
    BY <1>1, <1>3, QuietStepKeepsInv

\* The statement took effect: a row that nobody lists, a link that the request
\* is to take back, or the product's model.
LEMMA FailsLateKeepsInv ==
  ASSUME CatalogInv, NEW r \in Request, FailsLate(r)
  PROVE  CatalogInv'
  <1>1. /\ UNCHANGED <<object, disturbed>> /\ Aborts(r)
        /\ faults' \in 0..MaxFaults /\ disturbed \in SUBSET Product
    BY CatalogConstantsOK DEF FailsLate, CatalogInv, CatalogTypeOK
  <1>2. PICK c : AbortsAs(r, c)
    BY <1>1, AbortsSomehow
  <1>3. CASE At(r, "row") /\ stored' = stored \cup {r} /\ UNCHANGED <<product, link>>
    <2>1. Moves(r, c) /\ Provides(r, c)
      BY <1>1, <1>2, <1>3, AbortsMoves
    <2>2. Hides(request[r]) /\ ~Listed(r)
      BY <1>3 DEF Hides, At, CatalogInv, HiddenUnknown, Known
    <2>3. \A l \in link : Known(l.asset)
      BY DEF Known, Listed
    <2>4. \A p \in Product : Known(product[p].model)
      BY DEF Known
    <2>5. Respects(r, c)
      BY <1>1, <1>3, <2>2, <2>3, <2>4 DEF Respects, Learned, CatalogInv, CatalogTypeOK
    <2>6. ListedOpens'
      BY <1>1, <1>3, <2>2 DEF CatalogInv, ListedOpens, Listed
    <2>7. QED
      BY <2>1, <2>5, <2>6, StepKeepsInv
  <1>4. CASE At(r, "link") /\ link' = link \cup {NewLink(r, FALSE)} /\ UNCHANGED <<product, stored>>
    <2>1. Goes(r, "undo")
      BY <1>1, <1>4 DEF Aborts, OnFailure, At
    <2>2. QED
      BY <1>1, <1>4, <2>1, ListingKeepsInv
  <1>5. CASE /\ At(r, "show") /\ request[r].kind = "create"
             /\ Updates(Target[r], [product[Target[r]] EXCEPT !.model = r])
             /\ UNCHANGED <<link, stored>>
    <2>1. Moves(r, c) /\ Provides(r, c) /\ ~Hides(c)
      BY <1>1, <1>2, <1>5, AbortsMoves DEF AbortsAs, At
    <2>2. /\ product' \in [Product -> Rows]
          /\ \A p \in Product : product'[p].model \in {product[p].model, r}
      <3>1. /\ product \in [Product -> Rows] /\ Target[r] \in Product /\ r \in Ref
            /\ product[Target[r]] \in Rows
        BY CatalogConstantsOK DEF CatalogInv, CatalogTypeOK, Ref
      <3>2. /\ [product[Target[r]] EXCEPT !.model = r] \in Rows
            /\ [product[Target[r]] EXCEPT !.model = r].model = r
        BY <3>1 DEF Rows
      <3>3. QED
        BY <1>5, <3>1, <3>2 DEF Updates
    <2>3. QED
      BY <1>1, <1>5, <2>1, <2>2, UpdateKeepsInv
  <1>6. QED
    BY <1>3, <1>4, <1>5 DEF FailsLate

\* The process dies: requests that end know nothing and keep nothing.
LEMMA CrashKeepsInv ==
  ASSUME CatalogInv, Crash
  PROVE  CatalogInv'
  <1>1. /\ UNCHANGED <<product, link, stored, object, disturbed>>
        /\ faults' \in 0..MaxFaults
    BY CatalogConstantsOK DEF Crash, CatalogInv, CatalogTypeOK
  <1>2. /\ Resting("done").at = "done" /\ Resting("done").kind = "create"
        /\ Knows(Resting("done")) = {None}
    BY DEF Resting, Knows, NewRow
  <1>3. \A r \in Request :
          /\ request'[r] \in Call
          /\ \/ request'[r] = request[r]
             \/ /\ request'[r].at = "done" /\ request'[r].kind = "create"
                /\ Knows(request'[r]) = {None}
    BY <1>2, CallOf DEF Crash
  <1>4. request' \in [Request -> Call]
    <2>1. request' = [r \in Request |-> request'[r]]
      BY DEF Crash
    <2>2. QED
      BY <1>3, <2>1
  <1>5. CatalogTypeOK'
    <2>1. \A r \in Request : request'[r].at \in Removing => request'[r].target # None
      BY <1>3 DEF CatalogInv, CatalogTypeOK, Removing
    <2>2. QED
      BY <1>1, <1>4, <2>1 DEF CatalogInv, CatalogTypeOK, Call
  <1>6. \A a \in Request : Known(a)' => Known(a)
    BY <1>1, <1>3, CatalogConstantsOK DEF Known, Listed
  <1>7. \A r \in Request : Hides(request'[r]) => Hides(request[r])
    BY <1>3 DEF Hides, Removing
  <1>8. HiddenUnknown'
    BY <1>6, <1>7 DEF CatalogInv, HiddenUnknown
  <1>9. InHand' /\ NotYetStored' /\ WipedHasNoRow' /\ ListsToDelete'
    BY <1>1, <1>3 DEF CatalogInv, InHand, Keeps, Removing, NotYetStored, NoRowYet,
                      WipedHasNoRow, ListsToDelete, At
  <1>10. RemovedUnlisted' /\ Undone'
    BY <1>1, <1>3 DEF CatalogInv, RemovedUnlisted, Unlisting, Undone, TakenBack
  <1>11. QED
    BY <1>1, <1>5, <1>8, <1>9, <1>10 DEF CatalogInv, ListedOpens

LEMMA AdminOffShelfKeepsInv ==
  ASSUME CatalogInv, NEW p \in Product, AdminOffShelf(p)
  PROVE  CatalogInv'
  <1>1. /\ UNCHANGED <<link, stored, object, request, faults>>
        /\ disturbed' \in SUBSET Product
        /\ product' \in [Product -> Rows]
        /\ \A q \in Product : product'[q].model = product[q].model
    BY DEF AdminOffShelf, CatalogInv, CatalogTypeOK, Rows, Statuses
  <1>2. \A a : Known(a)' => Known(a)
    BY <1>1 DEF Known, Listed
  <1>3. HiddenUnknown'
    BY <1>1, <1>2 DEF CatalogInv, HiddenUnknown
  <1>4. CatalogTypeOK'
    BY <1>1 DEF CatalogInv, CatalogTypeOK
  <1>5. QED
    BY <1>1, <1>3, <1>4 DEF CatalogInv, ListedOpens, InHand, NotYetStored, WipedHasNoRow,
                            RemovedUnlisted, Undone, TakenBack, ListsToDelete, At

-----------------------------------------------------------------------------
(* Every step keeps it *)

LEMMA InitCatalogInv == Init => CatalogInv
  <1> SUFFICES ASSUME Init PROVE CatalogInv
    OBVIOUS
  <1>1. /\ NewRow \in Rows /\ NewRow.model = None
        /\ Resting("new") \in Call /\ Resting("new").at = "new"
        /\ Knows(Resting("new")) = {None} /\ Resting("new").kind = "create"
    BY DEF NewRow, Rows, Statuses, Ref, Resting, Call, Places, Kinds, Knows
  <1>2. CatalogTypeOK
    BY <1>1, CatalogConstantsOK DEF Init, CatalogTypeOK, Call, Removing
  <1>3. IsFiniteSet(link)
    BY FS_EmptySet DEF Init
  <1>4. \A a \in Request : ~Known(a)
    BY <1>1, CatalogConstantsOK DEF Init, Known, Listed
  <1>5. QED
    BY <1>1, <1>2, <1>3, <1>4
    DEF Init, CatalogInv, ListedOpens, HiddenUnknown, InHand, Keeps, Removing, NotYetStored,
        WipedHasNoRow, RemovedUnlisted, Unlisting, Undone, TakenBack, ListsToDelete, At

LEMMA NextKeepsCatalogInv == CatalogInv /\ OwnAssets /\ [Next]_catalogVars => CatalogInv'
  <1> SUFFICES ASSUME CatalogInv, OwnAssets, [Next]_catalogVars PROVE CatalogInv'
    OBVIOUS
  <1>1. ASSUME NEW r \in Request, Create(r) \/ Load(r) \/ RemoveAsset(r)
        PROVE  CatalogInv'
    BY <1>1, CreateKeepsInv, LoadKeepsInv, RemoveAssetKeepsInv
  <1>2. ASSUME NEW r \in Request,
               Count(r) \/ Shift(r) \/ PutObject(r) \/ PutRow(r) \/ Link(r) \/ Show(r)
        PROVE  CatalogInv'
    BY <1>2, CountKeepsInv, ShiftKeepsInv, PutObjectKeepsInv, PutRowKeepsInv, LinkKeepsInv,
       ShowKeepsInv
  <1>3. ASSUME NEW r \in Request, List(r) \/ Each(r) \/ Drop(r)
        PROVE  CatalogInv'
    BY <1>3, ListKeepsInv, EachKeepsInv, DropKeepsInv
  <1>4. ASSUME NEW r \in Request, NextCover(r)
        PROVE  CatalogInv'
    <2> DEFINE first == FirstImages(Target[r])
               covers == IF first = {} THEN {None} ELSE {l.asset : l \in first}
    <2>1. PICK a \in covers : request' = [request EXCEPT ![r].at = "point", ![r].cover = a]
      BY <1>4 DEF NextCover
    <2>2. first \in SUBSET Links
      BY DEF FirstImages, Of, CatalogInv, CatalogTypeOK
    <2>3. a \in Ref
      BY <2>2 DEF Links, Ref
    <2>4. /\ At(r, "next") /\ UNCHANGED <<product, link, stored, object>>
          /\ faults' \in 0..MaxFaults /\ disturbed' \in SUBSET Product
      BY <1>4 DEF NextCover, CatalogInv, CatalogTypeOK
    <2>5. QED
      BY <2>1, <2>3, <2>4, NextCoverKeepsInv
  <1>5. ASSUME NEW r \in Request, Find(r) \/ Unlink(r) \/ Point(r) \/ Erase(r) \/ Wipe(r)
        PROVE  CatalogInv'
    BY <1>5, FindKeepsInv, UnlinkKeepsInv, PointKeepsInv, EraseKeepsInv, WipeKeepsInv
  <1>6. ASSUME NEW r \in Request, Fails(r) \/ FailsLate(r) \/ Undo(r) \/ Unput(r)
        PROVE  CatalogInv'
    BY <1>6, FailsKeepsInv, FailsLateKeepsInv, UndoKeepsInv, UnputKeepsInv
  <1>7. ASSUME NEW p \in Product, AdminOffShelf(p)
        PROVE  CatalogInv'
    BY <1>7, AdminOffShelfKeepsInv
  <1>8. CASE Crash
    BY <1>8, CrashKeepsInv
  <1>9. CASE UNCHANGED catalogVars
    BY <1>9 DEF catalogVars, CatalogInv, CatalogTypeOK, ListedOpens, HiddenUnknown, Known,
                Listed, InHand, NotYetStored, WipedHasNoRow, RemovedUnlisted, Undone, TakenBack,
                ListsToDelete, At
  <1>10. QED
    BY <1>1, <1>2, <1>3, <1>4, <1>5, <1>6, <1>7, <1>8, <1>9 DEF Next

-----------------------------------------------------------------------------
(***************************************************************************)
(* ObjectsAccounted.  While nothing fails, an object that is not listed    *)
(* is one its own request is still to list, or one a request removes.      *)
(* Among several requests that remove it, those that find its row gone     *)
(* (Erase) leave it to the one that deleted the row (WithRow).             *)
(***************************************************************************)
HoldsAs(c, r, a) ==
  \/ a = r /\ (c.at = "row" \/ Keeps(c))
  \/ a = c.target /\ c.at \in {"next", "point", "erase", "wipe"}

ListedOrHeld ==
  \A a \in object : Listed(a) \/ \E r \in Request : HoldsAs(request[r], r, a)

WithRow ==
  \A a \in object :
    \/ a \in stored \/ At(a, "row")
    \/ \E r \in Request : At(r, "wipe") /\ request[r].target = a

NothingUndone == \A r \in Request : request[r].at \notin {"undo", "unput"}

Accounted == faults = 0 => ListedOrHeld /\ WithRow /\ NothingUndone

\* Request r takes a step in which nothing fails and no listed or held object is
\* lost.
LEMMA StepAccounts ==
  ASSUME CatalogInv, CatalogInv', faults = 0, Accounted, NEW r \in Request,
         \A s \in Request \ {r} : request'[s] = request[s],
         request'[r].at \notin {"undo", "unput"},
         \A a \in object' : a \in object \/ (a = r /\ request'[r].at = "row"),
         \A a \in object' :
           Listed(a) \/ HoldsAs(request[r], r, a) =>
             \/ Listed(a)' \/ HoldsAs(request'[r], r, a)
             \/ \E s \in Request \ {r} : HoldsAs(request[s], s, a),
         \A a \in object' : a \in stored =>
           a \in stored' \/ (request'[r].at = "wipe" /\ request'[r].target = a),
         At(r, "row") => r \in stored',
         At(r, "wipe") => request[r].target \notin object'
  PROVE  Accounted'
  <1>1. ListedOrHeld /\ WithRow /\ NothingUndone
    BY DEF Accounted
  <1>2. NothingUndone'
    BY <1>1 DEF NothingUndone
  <1>3. ASSUME NEW a \in object'
        PROVE  Listed(a)' \/ \E s \in Request : HoldsAs(request'[s], s, a)
    <2>1. CASE a \in object
      <3>1. CASE Listed(a) \/ HoldsAs(request[r], r, a)
        BY <1>3, <3>1
      <3>2. CASE \E s \in Request \ {r} : HoldsAs(request[s], s, a)
        BY <3>2
      <3>3. QED
        BY <1>1, <2>1, <3>1, <3>2 DEF ListedOrHeld
    <2>2. CASE a = r /\ request'[r].at = "row"
      BY <2>2 DEF HoldsAs
    <2>3. QED
      BY <1>3, <2>1, <2>2
  <1>4. ASSUME NEW a \in object'
        PROVE  \/ a \in stored' \/ request'[a].at = "row"
               \/ \E s \in Request : request'[s].at = "wipe" /\ request'[s].target = a
    <2>1. CASE a \in object /\ a \in stored
      BY <1>4, <2>1
    <2>2. CASE a \in object /\ At(a, "row")
      <3>1. a \in Request
        BY <2>2 DEF CatalogInv, CatalogTypeOK
      <3>2. QED
        BY <2>2, <3>1 DEF At
    <2>3. ASSUME NEW s \in Request, At(s, "wipe"), request[s].target = a
          PROVE  \E q \in Request : request'[q].at = "wipe" /\ request'[q].target = a
      BY <1>4, <2>3 DEF At
    <2>4. CASE a = r /\ request'[r].at = "row"
      BY <2>4
    <2>5. QED
      BY <1>1, <1>4, <2>1, <2>2, <2>3, <2>4 DEF WithRow
  <1>5. ListedOrHeld' /\ WithRow'
    BY <1>3, <1>4 DEF ListedOrHeld, WithRow, HoldsAs, At
  <1>6. QED
    BY <1>2, <1>5 DEF Accounted

\* A step that leaves links, assets and objects alone.
LEMMA TablesKeptAccounts ==
  ASSUME CatalogInv, CatalogInv', faults = 0, Accounted, NEW r \in Request,
         \A s \in Request \ {r} : request'[s] = request[s],
         UNCHANGED <<link, stored, object>>,
         request[r].at \notin {"row", "wipe"},
         request'[r].at \notin {"undo", "unput"},
         \A a \in object : HoldsAs(request[r], r, a) => HoldsAs(request'[r], r, a)
  PROVE  Accounted'
  <1>1. \A a : Listed(a)' <=> Listed(a)
    BY DEF Listed
  <1>2. QED
    BY <1>1, StepAccounts DEF At

\* Where a request goes, by the fields that matter.
LEMMA GoesFields ==
  ASSUME CatalogInv, NEW r \in Request, NEW to \in Places, Goes(r, to)
  PROVE  /\ \A s \in Request \ {r} : request'[s] = request[s]
         /\ request'[r].at = to
         /\ to # "done" => /\ request'[r].kind = request[r].kind
                           /\ request'[r].target = request[r].target
  <1>1. request' = [request EXCEPT ![r] = Later(r, to)]
    BY DEF Goes, Later
  <1>2. QED
    BY <1>1, CallOf, LaterFields

\* The steps of requests that hold nothing.
LEMMA NothingHeldAccounts ==
  ASSUME CatalogInv, CatalogInv', faults = 0, Accounted, NEW r \in Request,
         \/ Create(r) \/ Load(r) \/ RemoveAsset(r) \/ Count(r) \/ Shift(r) \/ Show(r)
         \/ List(r) \/ Each(r) \/ Drop(r)
  PROVE  Accounted'
  <1>1. /\ request \in [Request -> Call]
        /\ UNCHANGED <<link, stored, object>>
        /\ request[r].at \in {"new", "count", "shift", "show", "list", "each", "drop"}
    BY CallOf DEF Create, Load, RemoveAsset, Count, Shift, Show, List, Each, Drop, Begins, At
  <1>2. \A a : ~HoldsAs(request[r], r, a)
    BY <1>1 DEF HoldsAs, Keeps, Removing
  <1>3. ASSUME NEW to \in Places \ {"undo", "unput"}, Goes(r, to)
        PROVE  Accounted'
    BY <1>1, <1>2, <1>3, GoesFields, TablesKeptAccounts
  <1>4. ASSUME NEW kind, NEW place \in {"put", "drop", "count", "list", "shift", "find"},
               NEW target, Begins(r, kind, place, target)
        PROVE  Accounted'
    <2>1. request'[r].at = place /\ \A s \in Request \ {r} : request'[s] = request[s]
      BY <1>1, <1>4 DEF Begins, Call
    <2>2. QED
      BY <1>1, <1>2, <2>1, TablesKeptAccounts
  <1>5. CASE Create(r)
    BY <1>3, <1>4, <1>5 DEF Create, Places
  <1>6. CASE Load(r)
    <2>1. PICK h \in Handlers(product[Target[r]].status) : Begins(r, h[1], h[2], None)
      BY <1>6 DEF Load
    <2>2. h[2] \in {"count", "list", "shift"}
      BY DEF Handlers
    <2>3. QED
      BY <1>4, <2>1, <2>2
  <1>7. CASE RemoveAsset(r)
    BY <1>4, <1>7 DEF RemoveAsset
  <1>8. CASE Count(r)
    <2>1. ASSUME NEW n, request' = [request EXCEPT ![r].at = "put", ![r].count = n]
          PROVE  Accounted'
      <3>1. request'[r].at = "put" /\ \A s \in Request \ {r} : request'[s] = request[s]
        BY <1>1, <2>1 DEF Call
      <3>2. QED
        BY <1>1, <1>2, <3>1, TablesKeptAccounts
    <2>2. QED
      BY <1>3, <1>8, <2>1 DEF Count, Places
  <1>9. CASE Shift(r) \/ Show(r) \/ Drop(r)
    BY <1>3, <1>9 DEF Shift, Show, Drop, Places
  <1>10. CASE List(r)
    <2>1. request'[r].at = "each" /\ \A s \in Request \ {r} : request'[s] = request[s]
      BY <1>1, <1>10 DEF List, Call
    <2>2. QED
      BY <1>1, <1>2, <2>1, TablesKeptAccounts
  <1>11. CASE Each(r)
    <2>1. ASSUME NEW a, request' = [request EXCEPT ![r].at = "find", ![r].target = a,
                                                   ![r].todo = request[r].todo \ {a}]
          PROVE  Accounted'
      <3>1. request'[r].at = "find" /\ \A s \in Request \ {r} : request'[s] = request[s]
        BY <1>1, <2>1 DEF Call
      <3>2. QED
        BY <1>1, <1>2, <3>1, TablesKeptAccounts
    <2>2. QED
      BY <1>3, <1>11, <2>1 DEF Each, Places
  <1>12. QED
    BY <1>5, <1>6, <1>7, <1>8, <1>9, <1>10, <1>11

\* The steps of an upload that stores and lists its asset.
LEMMA StoringAccounts ==
  ASSUME CatalogInv, CatalogInv', faults = 0, Accounted, NEW r \in Request,
         PutObject(r) \/ PutRow(r) \/ Link(r)
  PROVE  Accounted'
  <1>1. request \in [Request -> Call] /\ stored \in SUBSET Request
    BY CallOf DEF CatalogInv, CatalogTypeOK
  <1>2. CASE PutObject(r)
    <2>1. /\ At(r, "put") /\ Goes(r, "row") /\ object' = object \cup {r}
          /\ UNCHANGED <<link, stored>>
      BY <1>2 DEF PutObject
    <2>2. /\ \A s \in Request \ {r} : request'[s] = request[s]
          /\ request'[r].at = "row"
      BY <2>1, GoesFields DEF Places
    <2>3. \A a : ~HoldsAs(request[r], r, a) /\ (Listed(a)' <=> Listed(a))
      BY <2>1 DEF HoldsAs, Keeps, Removing, At, Listed
    <2>4. QED
      BY <2>1, <2>2, <2>3, StepAccounts DEF At
  <1>3. CASE PutRow(r)
    <2>1. /\ At(r, "row") /\ stored' = stored \cup {r} /\ UNCHANGED <<link, object>>
      BY <1>3 DEF PutRow
    <2>2. /\ \A s \in Request \ {r} : request'[s] = request[s]
          /\ request'[r].at \in {"link", "find"} /\ Keeps(request'[r])
      <3>1. CASE Goes(r, "link")
        <4>1. /\ \A s \in Request \ {r} : request'[s] = request[s]
              /\ request'[r].at = "link"
          BY <3>1, GoesFields DEF Places
        <4>2. QED
          BY <4>1 DEF Keeps
      <3>2. CASE /\ request[r].kind = "model"
                 /\ request' = [request EXCEPT ![r].at = "find",
                                               ![r].target = request[r].seen.model]
        <4>1. /\ \A s \in Request \ {r} : request'[s] = request[s]
              /\ request'[r].at = "find" /\ request'[r].kind = "model"
          BY <1>1, <3>2 DEF Call
        <4>2. QED
          BY <4>1 DEF Keeps, Removing
      <3>3. QED
        BY <1>3, <3>1, <3>2 DEF PutRow
    <2>3. \A a : HoldsAs(request[r], r, a) => HoldsAs(request'[r], r, a)
      BY <2>1, <2>2 DEF HoldsAs, At
    <2>4. \A a : Listed(a)' <=> Listed(a)
      BY <2>1 DEF Listed
    <2>5. QED
      BY <2>1, <2>2, <2>3, <2>4, StepAccounts DEF At
  <1>4. CASE Link(r)
    <2>1. /\ At(r, "link") /\ UNCHANGED <<stored, object>>
      BY <1>4 DEF Link
    <2>2. PICK l : l.asset = r /\ link' = link \cup {l}
      BY <1>4, NewLinkType DEF Link
    <2>3. PICK to \in {"show", "done"} : Goes(r, to)
      BY <1>4 DEF Link
    <2>4. /\ \A s \in Request \ {r} : request'[s] = request[s]
          /\ request'[r].at = to
      BY <2>3, GoesFields DEF Places
    <2>5. \A a : Listed(a) => Listed(a)'
      BY <2>2 DEF Listed
    <2>6. Listed(r)'
      BY <2>2 DEF Listed
    <2>7. \A a : HoldsAs(request[r], r, a) => a = r
      BY <2>1 DEF HoldsAs, At
    <2>8. QED
      BY <2>1, <2>3, <2>4, <2>5, <2>6, <2>7, StepAccounts DEF At
  <1>5. QED
    BY <1>2, <1>3, <1>4

\* Within removeAsset, from a place where the asset is not held yet, or to one
\* where it is held as well.
LEMMA RemovingHolds ==
  ASSUME NEW c, NEW d, NEW r, d.kind = c.kind, d.target = c.target,
         c.at \in Removing, d.at \in Removing,
         c.at \in {"next", "point", "erase", "wipe"} => d.at \in {"next", "point", "erase", "wipe"}
  PROVE  \A a : HoldsAs(c, r, a) => HoldsAs(d, r, a)
  BY DEF HoldsAs, Keeps, Removing

\* The handler goes on; what it has stored itself it still holds.
LEMMA ResumeHolds ==
  ASSUME CatalogInv, NEW r \in Request, request[r].at \in Removing, Goes(r, Resume(r))
  PROVE  /\ \A s \in Request \ {r} : request'[s] = request[s]
         /\ request'[r].at \notin {"undo", "unput", "row", "wipe"}
         /\ Keeps(request[r]) => Keeps(request'[r])
  <1>1. \/ Resume(r) = "link"
        \/ Resume(r) \in {"each", "drop", "done"} /\ request[r].kind # "model"
    BY DEF Resume
  <1>2. Resume(r) \in Places
    BY <1>1 DEF Places
  <1>3. /\ \A s \in Request \ {r} : request'[s] = request[s]
        /\ request'[r].at = Resume(r)
    BY <1>2, GoesFields
  <1>4. Keeps(request[r]) => request[r].kind = "model"
    BY DEF Keeps, Removing
  <1>5. QED
    BY <1>1, <1>3, <1>4 DEF Keeps

LEMMA SearchingAccounts ==
  ASSUME CatalogInv, CatalogInv', faults = 0, Accounted, NEW r \in Request,
         Find(r) \/ Unlink(r) \/ NextCover(r) \/ Point(r)
  PROVE  Accounted'
  <1>1. request \in [Request -> Call]
    BY CallOf
  <1>2. CASE Find(r)
    <2>1. At(r, "find") /\ UNCHANGED <<link, stored, object>> /\ request[r].at \in Removing
      BY <1>2 DEF Find, At, Removing
    <2>2. CASE Goes(r, "unlink")
      <3>1. /\ \A s \in Request \ {r} : request'[s] = request[s]
            /\ request'[r].at = "unlink" /\ request'[r].kind = request[r].kind
            /\ request'[r].target = request[r].target
        BY <2>2, GoesFields DEF Places
      <3>2. \A a : HoldsAs(request[r], r, a) => HoldsAs(request'[r], r, a)
        BY <2>1, <3>1, RemovingHolds DEF At, Removing
      <3>3. QED
        BY <2>1, <3>1, <3>2, TablesKeptAccounts DEF At
    <2>3. CASE Goes(r, Resume(r))
      <3>1. /\ \A s \in Request \ {r} : request'[s] = request[s]
            /\ request'[r].at \notin {"undo", "unput", "row", "wipe"}
            /\ Keeps(request[r]) => Keeps(request'[r])
        BY <2>1, <2>3, ResumeHolds
      <3>2. \A a : HoldsAs(request[r], r, a) => HoldsAs(request'[r], r, a)
        BY <2>1, <3>1 DEF HoldsAs, At
      <3>3. QED
        BY <2>1, <3>1, <3>2, TablesKeptAccounts DEF At
    <2>4. QED
      BY <1>2, <2>2, <2>3 DEF Find
  <1>3. CASE Unlink(r)
    <2> DEFINE b == request[r].target
    <2>1. /\ At(r, "unlink") /\ UNCHANGED <<stored, object>>
          /\ link' = link \ LinkOf(Target[r], b)
      BY <1>3 DEF Unlink
    <2>2. PICK to \in {"next", "point", "erase"} : Goes(r, to)
      BY <1>3 DEF Unlink
    <2>3. /\ \A s \in Request \ {r} : request'[s] = request[s]
          /\ request'[r].at = to /\ request'[r].kind = request[r].kind
          /\ request'[r].target = b
      BY <2>2, GoesFields DEF Places
    <2>4. \A a : HoldsAs(request[r], r, a) => HoldsAs(request'[r], r, a)
      BY <2>1, <2>3, RemovingHolds DEF At, Removing
    <2>5. \A a : Listed(a) => Listed(a)' \/ a = b
      BY <2>1 DEF Listed, LinkOf
    <2>6. HoldsAs(request'[r], r, b)
      BY <2>3 DEF HoldsAs
    <2>7. QED
      BY <2>1, <2>2, <2>3, <2>4, <2>5, <2>6, StepAccounts DEF At
  <1>4. ASSUME request[r].at \in {"next", "point"},
               UNCHANGED <<link, stored, object>>,
               \A s \in Request \ {r} : request'[s] = request[s],
               request'[r].at \in {"point", "erase"},
               request'[r].kind = request[r].kind, request'[r].target = request[r].target
        PROVE  Accounted'
    <2>1. \A a : HoldsAs(request[r], r, a) => HoldsAs(request'[r], r, a)
      BY <1>4, RemovingHolds DEF Removing
    <2>2. QED
      BY <1>4, <2>1, TablesKeptAccounts
  <1>5. CASE NextCover(r)
    <2>1. PICK a : request' = [request EXCEPT ![r].at = "point", ![r].cover = a]
      BY <1>5 DEF NextCover
    <2>2. /\ request'[r].at = "point" /\ request'[r].kind = request[r].kind
          /\ request'[r].target = request[r].target
          /\ \A s \in Request \ {r} : request'[s] = request[s]
      BY <1>1, <2>1 DEF Call
    <2>3. QED
      BY <1>4, <1>5, <2>2 DEF NextCover, At
  <1>6. CASE Point(r)
    <2>1. PICK v : request' = [request EXCEPT ![r].at = "erase", ![r].seen.cover = v]
      BY <1>6 DEF Point
    <2>2. /\ request'[r].at = "erase" /\ request'[r].kind = request[r].kind
          /\ request'[r].target = request[r].target
          /\ \A s \in Request \ {r} : request'[s] = request[s]
      BY <1>1, <2>1 DEF Call
    <2>3. QED
      BY <1>4, <1>6, <2>2 DEF Point, At
  <1>7. QED
    BY <1>2, <1>3, <1>5, <1>6

\* A request that finds the row gone may go on: the one that deleted it still
\* has the object to wipe.
LEMMA ErasingAccounts ==
  ASSUME CatalogInv, CatalogInv', faults = 0, Accounted, NEW r \in Request,
         Erase(r) \/ Wipe(r)
  PROVE  Accounted'
  <1> DEFINE b == request[r].target
  <1>1. request[r].at \in Removing /\ request[r].at \in {"erase", "wipe"}
    BY DEF Erase, Wipe, At, Removing
  <1>2. /\ b \in Request /\ ~At(b, "row")
        /\ \A a : HoldsAs(request[r], r, a) => a = b \/ Keeps(request[r])
    BY <1>1, TargetNotHidden DEF Hides, At, HoldsAs
  <1>3. CASE Erase(r)
    <2>1. /\ At(r, "erase") /\ object' = object
          /\ link' = link /\ stored' = stored \ {b}
      BY <1>3, EraseLeavesLinks DEF Erase
    <2>2. \A a : Listed(a) /\ a # b => Listed(a)'
      BY <2>1 DEF Listed
    <2>3. CASE b \in stored
      <3>1. Goes(r, "wipe")
        BY <1>3, <2>3 DEF Erase
      <3>2. /\ \A s \in Request \ {r} : request'[s] = request[s]
            /\ request'[r].at = "wipe" /\ request'[r].kind = request[r].kind
            /\ request'[r].target = b
        BY <3>1, GoesFields DEF Places
      <3>3. \A a : HoldsAs(request[r], r, a) => HoldsAs(request'[r], r, a)
        <4>1. request'[r].at \in Removing
          BY <3>2 DEF Removing
        <4>2. QED
          BY <1>1, <3>2, <4>1, RemovingHolds
      <3>4. HoldsAs(request'[r], r, b)
        BY <3>2 DEF HoldsAs
      <3>5. QED
        BY <2>1, <2>2, <3>2, <3>3, <3>4, StepAccounts DEF At
    <2>4. CASE b \notin stored
      <3>1. Goes(r, Resume(r))
        BY <1>3, <2>4 DEF Erase
      <3>2. /\ \A s \in Request \ {r} : request'[s] = request[s]
            /\ request'[r].at \notin {"undo", "unput", "row", "wipe"}
            /\ Keeps(request[r]) => Keeps(request'[r])
        BY <1>1, <3>1, ResumeHolds
      <3>3. b \in object => \E s \in Request \ {r} : HoldsAs(request[s], s, b)
        <4>1. SUFFICES ASSUME b \in object
                       PROVE  \E s \in Request \ {r} : HoldsAs(request[s], s, b)
          OBVIOUS
        <4>2. PICK s \in Request : At(s, "wipe") /\ request[s].target = b
          BY <1>2, <2>4, <4>1 DEF Accounted, WithRow
        <4>3. QED
          BY <2>1, <4>2 DEF HoldsAs, At
      <3>4. \A a : HoldsAs(request[r], r, a) => a = b \/ HoldsAs(request'[r], r, a)
        BY <1>1, <3>2 DEF HoldsAs
      <3>5. QED
        BY <2>1, <2>2, <2>4, <3>2, <3>3, <3>4, StepAccounts DEF At
    <2>5. QED
      BY <2>3, <2>4
  <1>4. CASE Wipe(r)
    <2>1. /\ At(r, "wipe") /\ object' = object \ {b} /\ UNCHANGED <<link, stored>>
          /\ Goes(r, Resume(r))
      BY <1>4 DEF Wipe
    <2>2. /\ \A s \in Request \ {r} : request'[s] = request[s]
          /\ request'[r].at \notin {"undo", "unput", "row", "wipe"}
          /\ Keeps(request[r]) => Keeps(request'[r])
      BY <1>1, <2>1, ResumeHolds
    <2>3. \A a : HoldsAs(request[r], r, a) => a = b \/ HoldsAs(request'[r], r, a)
      BY <1>1, <2>2 DEF HoldsAs
    <2>4. \A a : Listed(a)' <=> Listed(a)
      BY <2>1 DEF Listed
    <2>5. QED
      BY <2>1, <2>2, <2>3, <2>4, StepAccounts DEF At
  <1>5. QED
    BY <1>3, <1>4

LEMMA NextAccounts ==
  CatalogInv /\ CatalogInv' /\ Accounted /\ [Next]_catalogVars => Accounted'
  <1> SUFFICES ASSUME CatalogInv, CatalogInv', Accounted, [Next]_catalogVars
               PROVE  Accounted'
    OBVIOUS
  <1>1. ASSUME faults' # 0 PROVE Accounted'
    BY <1>1 DEF Accounted
  <1>2. CASE Crash \/ \E r \in Request : Fails(r) \/ FailsLate(r)
    <2>1. faults \in 0..MaxFaults /\ MaxFaults \in Nat
      BY CatalogConstantsOK DEF CatalogInv, CatalogTypeOK
    <2>2. faults' = faults + 1
      BY <1>2 DEF Crash, Fails, FailsLate
    <2>3. QED
      BY <1>1, <2>1, <2>2
  <1>3. CASE UNCHANGED <<link, stored, object, request, faults>>
    BY <1>3 DEF Accounted, ListedOrHeld, Listed, WithRow, NothingUndone, At
  <1>4. ASSUME NEW r \in Request, faults = 0,
               \/ Create(r) \/ Load(r) \/ RemoveAsset(r)
               \/ Count(r) \/ Shift(r) \/ PutObject(r) \/ PutRow(r) \/ Link(r) \/ Show(r)
               \/ List(r) \/ Each(r) \/ Drop(r)
               \/ Find(r) \/ Unlink(r) \/ NextCover(r) \/ Point(r) \/ Erase(r) \/ Wipe(r)
        PROVE  Accounted'
    BY <1>4, NothingHeldAccounts, StoringAccounts, SearchingAccounts, ErasingAccounts
  <1>5. ASSUME NEW r \in Request, faults = 0, Undo(r) \/ Unput(r)
        PROVE  Accounted'
    BY <1>5 DEF Undo, Unput, At, Accounted, NothingUndone
  <1>6. CASE faults # 0
    <2>1. CASE faults' = faults
      BY <1>1, <1>6, <2>1
    <2>2. ASSUME NEW r \in Request,
                 \/ Create(r) \/ Load(r) \/ RemoveAsset(r) \/ Count(r) \/ Shift(r)
                 \/ PutObject(r) \/ PutRow(r) \/ Link(r) \/ Show(r)
          PROVE  faults' = faults
      BY <2>2 DEF Create, Load, RemoveAsset, Count, Shift, PutObject, PutRow, Link, Show
    <2>3. ASSUME NEW r \in Request,
                 \/ List(r) \/ Each(r) \/ Drop(r) \/ Find(r) \/ Unlink(r) \/ NextCover(r)
                 \/ Point(r) \/ Erase(r) \/ Wipe(r) \/ Undo(r) \/ Unput(r)
          PROVE  faults' = faults
      BY <2>3 DEF List, Each, Drop, Find, Unlink, NextCover, Point, Erase, Wipe, Undo, Unput
    <2>4. ASSUME NEW p \in Product, AdminOffShelf(p) PROVE faults' = faults
      BY <2>4 DEF AdminOffShelf
    <2>5. QED
      BY <1>2, <1>3, <2>1, <2>2, <2>3, <2>4 DEF Next, catalogVars
  <1>7. ASSUME NEW p \in Product, AdminOffShelf(p) PROVE Accounted'
    BY <1>3, <1>7 DEF AdminOffShelf
  <1>8. QED
    BY <1>2, <1>3, <1>4, <1>5, <1>6, <1>7 DEF Next, catalogVars

-----------------------------------------------------------------------------
(***************************************************************************)
(* TidyUnlessDisturbed.  A product that one request at a time works on is  *)
(* untidy only while a handler is between two of its statements, and how   *)
(* untidy is known from where that handler is (Stage).  A removal is the   *)
(* long one: the asset is unlinked first, the row follows, and delete      *)
(* forgets the model it has removed but keeps it in the row it has read.   *)
(***************************************************************************)
Images(p) == {l.asset : l \in Of(p, "IMAGE")}
Models(p) == {l.asset : l \in Of(p, "MODEL")}

\* An asset is listed once.
LinkedOnce == \A l, k \in link : l.asset = k.asset => l = k

\* The cover and the model of a row, among images I and models M.
CoverFits(cover, I) == cover \in IF I = {} THEN {None} ELSE I
ModelFits(model, M) == M = {model} \ {None}

\* A product that nobody works on: Tidy, said of its row and its assets.
Rests(row, I, M) ==
  /\ CoverFits(row.cover, I) /\ ModelFits(row.model, M)
  /\ row.status \in {"NEW", "GONE"} => I = {} /\ M = {}

\* What a handler has in its memory of the row; delete forgets no model that it
\* has removed.
Agrees(c, row) == c.seen.cover = row.cover /\ c.seen.model = row.model

Follows(c, row, I, M) ==
  /\ c.seen.cover = row.cover
  /\ c.seen.model = row.model \/ (row.model = None /\ c.seen.model \notin I \cup M)

\* Removing an asset, for one of three handlers.
Removes(c, row, I, M) ==
  /\ c.kind \in {"model", "remove", "delete"} /\ c.target # None
  /\ Follows(c, row, I, M)
  /\ c.kind = "delete" => c.todo = (I \cup M) \ {c.target}

\* How far request r is with a product that it works on alone: its local
\* variables c, the product's row, its images and models.
Stage(c, r, row, I, M) ==
  LET cover == CoverFits(row.cover, I)
      model == ModelFits(row.model, M)
  IN
  /\ row.status \notin {"NEW", "GONE"} /\ c.at \notin {"undo", "unput"}
  /\ c.at \in {"count", "shift", "list", "put", "row"} => cover /\ model /\ Agrees(c, row)
  /\ c.at = "count" => c.kind \in {"image", "model", "publish"}
  /\ c.at \in {"put", "row"} => c.kind \in {"image", "model"} \/ row.model = None
  /\ c.at = "link" =>
       /\ cover
       /\ IF c.kind = "image" THEN model /\ c.seen.cover = row.cover
                              ELSE M = {} /\ row.model = None
  /\ c.at = "show" => IF c.kind = "image" THEN I = {r} /\ model ELSE M = {r} /\ cover
  /\ c.at = "each" =>
       cover /\ model /\ c.kind = "delete" /\ Follows(c, row, I, M) /\ c.todo = I \cup M
  /\ c.at = "drop" => I = {} /\ M = {} /\ row.cover = None /\ row.model = None
  /\ c.at \in Removing => Removes(c, row, I, M)
  /\ c.at \in {"find", "unlink"} =>
       cover /\ model /\ c.target \in I \cup M /\ (c.kind = "model" => c.target = row.model)
  /\ c.at \in {"next", "point", "erase", "wipe"} => c.target \notin I \cup M
  /\ c.at = "next" => model /\ row.cover = c.target /\ c.seen.model # c.target /\ c.kind # "model"
  /\ c.at = "point" =>
       \/ /\ model /\ row.cover = c.target /\ c.seen.model # c.target /\ c.kind # "model"
          /\ CoverFits(c.cover, I)
       \/ /\ cover /\ row.cover # c.target
          /\ c.seen.model = c.target /\ row.model = c.target /\ M = {}
  /\ c.at \in {"erase", "wipe"} => cover /\ model /\ (c.kind = "model" => row.model = None)

\* The product is alone with its request, with room for the image it is to get.
Alone(p) == \A r, s \in InFlight(p) : r = s

Adds(c) == c.kind = "image" /\ c.at \in {"put", "row", "link"}

Room(p) ==
  /\ Cardinality(Of(p, "IMAGE")) <= ImageLimit
  /\ \A r \in InFlight(p) : Adds(request[r]) => Cardinality(Of(p, "IMAGE")) < ImageLimit

Staged(p) ==
  /\ InFlight(p) = {} => Rests(product[p], Images(p), Models(p))
  /\ \A r \in InFlight(p) : Stage(request[r], r, product[p], Images(p), Models(p))

Orderly(p) == Alone(p) /\ Room(p) /\ (faults = 0 => Staged(p))

TidyInv ==
  /\ CatalogInv
  /\ LinkedOnce /\ OwnAssets
  /\ \A p \in Product \ disturbed : Orderly(p)

-----------------------------------------------------------------------------
(* A step of one request *)

Standing(c, r, row, I, M) ==
  IF c.at \in {"new", "done"} THEN Rests(row, I, M) ELSE Stage(c, r, row, I, M)

\* Request r goes on as c; other products are left alone.
Works(r, c) ==
  /\ c \in Call /\ request' = [request EXCEPT ![r] = c]
  /\ faults' = 0 => faults = 0
  /\ disturbed \subseteq disturbed'
  /\ \A q \in Product \ {Target[r]} : product'[q] = product[q]
  /\ \A l \in Links : l.product # Target[r] => (l \in link' <=> l \in link)
  /\ LinkedOnce'
  /\ \A l \in link' : Belongs(l.asset, l.product)
  /\ Belongs(product'[Target[r]].model, Target[r])
  /\ \A a \in Knows(c) : Belongs(a, Target[r])

\* And the request's product is in order, if nobody else has worked on it.
Settles(r, c) ==
  LET p == Target[r] IN
  /\ InFlight(p) \subseteq {r} \/ (link' = link /\ c.at = "done" /\ faults' # 0)
  /\ Cardinality(Of(p, "IMAGE"))' <= ImageLimit
  /\ Adds(c) => Cardinality(Of(p, "IMAGE"))' < ImageLimit
  /\ faults' = 0 => Standing(c, r, product'[p], Images(p)', Models(p)')

LEMMA OrderlyElsewhere ==
  ASSUME NEW q, Orderly(q), faults' = 0 => faults = 0, product'[q] = product[q],
         \A kind \in {"IMAGE", "MODEL"} : Of(q, kind)' = Of(q, kind),
         \A s \in Request : Target[s] = q => request'[s] = request[s]
  PROVE  Orderly(q)'
  <1>1. InFlight(q)' = InFlight(q)
    BY DEF InFlight, Idle, At
  <1>2. /\ Of(q, "IMAGE")' = Of(q, "IMAGE") /\ Images(q)' = Images(q)
        /\ Models(q)' = Models(q)
    BY DEF Images, Models
  <1>3. \A s \in InFlight(q) : request'[s] = request[s]
    BY DEF InFlight
  <1>4. Alone(q)' /\ Room(q)'
    BY <1>1, <1>2, <1>3 DEF Orderly, Alone, Room
  <1>5. ASSUME faults' = 0 PROVE Staged(q)'
    BY <1>1, <1>2, <1>3, <1>5 DEF Orderly, Staged
  <1>6. QED
    BY <1>4, <1>5 DEF Orderly

LEMMA OrderlyHere ==
  ASSUME NEW r \in Request, NEW c, Orderly(Target[r]), request \in [Request -> Call],
         Works(r, c), Settles(r, c)
  PROVE  Orderly(Target[r])'
  <1> DEFINE p == Target[r]
  <1>1. /\ request'[r] = c /\ \A s \in Request \ {r} : request'[s] = request[s]
    BY DEF Works
  <1>2. CASE InFlight(p) \subseteq {r}
    <2>1. InFlight(p)' = IF c.at \in {"new", "done"} THEN {} ELSE {r}
      BY <1>1, <1>2 DEF InFlight, Idle
    <2>2. Alone(p)'
      BY <2>1 DEF Alone
    <2>3. Room(p)'
      BY <1>1, <2>1 DEF Room, Settles
    <2>4. ASSUME faults' = 0 PROVE Staged(p)'
      BY <1>1, <2>1, <2>4 DEF Staged, Settles, Standing
    <2>5. QED
      BY <2>2, <2>3, <2>4 DEF Orderly
  <1>3. CASE link' = link /\ c.at = "done" /\ faults' # 0
    <2>1. InFlight(p)' \subseteq InFlight(p) /\ r \notin InFlight(p)'
      BY <1>1, <1>3 DEF InFlight, Idle
    <2>2. Of(p, "IMAGE")' = Of(p, "IMAGE")
      BY <1>3 DEF Of
    <2>3. Alone(p)' /\ Room(p)'
      <3>1. \A s \in InFlight(p)' : s \in InFlight(p) /\ request'[s] = request[s]
        BY <1>1, <2>1 DEF InFlight
      <3>2. QED
        BY <2>2, <3>1 DEF Alone, Room, Orderly
    <2>4. QED
      BY <1>3, <2>3 DEF Orderly
  <1>4. QED
    BY <1>2, <1>3 DEF Settles

LEMMA StepKeepsTidy ==
  ASSUME TidyInv, CatalogInv', NEW r \in Request, NEW c, Works(r, c),
         Target[r] \notin disturbed' => Settles(r, c)
  PROVE  TidyInv'
  <1> DEFINE p == Target[r]
  <1>1. /\ request \in [Request -> Call] /\ link \in SUBSET Links
        /\ link' \in SUBSET Links /\ p \in Product
    BY CatalogConstantsOK DEF TidyInv, CatalogInv, CatalogTypeOK, Call
  <1>2. /\ request'[r] = c /\ \A s \in Request \ {r} : request'[s] = request[s]
    BY <1>1 DEF Works
  <1>3. OwnAssets'
    <2>1. \A q \in Product : Belongs(product'[q].model, q)
      BY DEF TidyInv, OwnAssets, Works
    <2>2. \A s \in Request : \A a \in Knows(request'[s]) : Belongs(a, Target[s])
      BY <1>2 DEF TidyInv, OwnAssets, Works
    <2>3. QED
      BY <2>1, <2>2 DEF OwnAssets, Works, Belongs, Knows
  <1>4. ASSUME NEW q \in Product \ disturbed' PROVE Orderly(q)'
    <2>1. Orderly(q)
      BY <1>4 DEF TidyInv, Works
    <2>2. CASE q = p
      BY <1>1, <1>4, <2>1, <2>2, OrderlyHere
    <2>3. CASE q # p
      <3>1. \A kind \in {"IMAGE", "MODEL"} : Of(q, kind)' = Of(q, kind)
        BY <1>1, <2>3 DEF Of, Works
      <3>2. QED
        BY <1>2, <1>4, <2>1, <2>3, <3>1, OrderlyElsewhere DEF Works
    <2>4. QED
      BY <2>2, <2>3
  <1>5. QED
    BY <1>3, <1>4 DEF TidyInv, Works

LEMMA AssetFacts ==
  ASSUME TidyInv, NEW r \in Request
  PROVE  /\ CatalogInv
         /\ Target[r] \in Product /\ product[Target[r]] \in Rows /\ request[r] \in Call
         /\ link \in SUBSET Links /\ None \notin Request
         /\ Images(Target[r]) \subseteq Request /\ Models(Target[r]) \subseteq Request
         /\ Images(Target[r]) \cap Models(Target[r]) = {}
         /\ IsFiniteSet(Of(Target[r], "IMAGE"))
         /\ Cardinality(Of(Target[r], "IMAGE")) \in Nat
         /\ ImageLimit \in Nat \ {0}
  <1>1. /\ CatalogInv /\ link \in SUBSET Links /\ IsFiniteSet(link)
        /\ Target[r] \in Product /\ product[Target[r]] \in Rows
    BY CatalogConstantsOK DEF TidyInv, CatalogInv, CatalogTypeOK
  <1>2. request[r] \in Call
    BY <1>1, CallOf
  <1>3. Images(Target[r]) \subseteq Request /\ Models(Target[r]) \subseteq Request
    BY <1>1 DEF Images, Models, Of, Links
  <1>4. Images(Target[r]) \cap Models(Target[r]) = {}
    BY DEF TidyInv, LinkedOnce, Images, Models, Of
  <1>5. Of(Target[r], "IMAGE") \subseteq link
    BY DEF Of
  <1>6. IsFiniteSet(Of(Target[r], "IMAGE")) /\ Cardinality(Of(Target[r], "IMAGE")) \in Nat
    BY <1>1, <1>5, FS_Subset, FS_CardinalityType
  <1>7. QED
    BY <1>1, <1>2, <1>3, <1>4, <1>6, CatalogConstantsOK

\* A request that is under way is the only one, and where it is is known.
LEMMA UnderWay ==
  ASSUME TidyInv, NEW r \in Request, ~Idle(r), Target[r] \notin disturbed
  PROVE  /\ InFlight(Target[r]) = {r}
         /\ Cardinality(Of(Target[r], "IMAGE")) <= ImageLimit
         /\ Adds(request[r]) => Cardinality(Of(Target[r], "IMAGE")) < ImageLimit
         /\ faults = 0 => Stage(request[r], r, product[Target[r]], Images(Target[r]),
                                Models(Target[r]))
  <1>1. r \in InFlight(Target[r])
    BY DEF InFlight
  <1>2. Orderly(Target[r])
    BY AssetFacts DEF TidyInv
  <1>3. QED
    BY <1>1, <1>2 DEF Orderly, Alone, Room, Staged

\* Links stay.
LEMMA RowStepKeepsTidy ==
  ASSUME TidyInv, CatalogInv', NEW r \in Request, ~Idle(r), NEW c \in Call,
         request' = [request EXCEPT ![r] = c], UNCHANGED <<link, faults, disturbed>>,
         \A q \in Product \ {Target[r]} : product'[q] = product[q],
         Belongs(product'[Target[r]].model, Target[r]),
         \A a \in Knows(c) : Belongs(a, Target[r]),
         Adds(c) => Adds(request[r]) \/ Cardinality(Of(Target[r], "IMAGE")) < ImageLimit,
         Stage(request[r], r, product[Target[r]], Images(Target[r]), Models(Target[r]))
           => Standing(c, r, product'[Target[r]], Images(Target[r]), Models(Target[r]))
  PROVE  TidyInv'
  <1> DEFINE p == Target[r]
  <1>1. Works(r, c)
    BY DEF Works, TidyInv, LinkedOnce, OwnAssets
  <1>2. ASSUME p \notin disturbed' PROVE Settles(r, c)
    <2>1. Of(p, "IMAGE")' = Of(p, "IMAGE") /\ Images(p)' = Images(p) /\ Models(p)' = Models(p)
      BY DEF Of, Images, Models
    <2>2. QED
      BY <1>2, <2>1, UnderWay DEF Settles
  <1>3. QED
    BY <1>1, <1>2, StepKeepsTidy

LEMMA LaterIs ==
  ASSUME CatalogInv, NEW r \in Request, NEW to \in Places
  PROVE  /\ Later(r, to) \in Call /\ Later(r, to).at = to
         /\ Knows(Later(r, to)) \subseteq Knows(request[r]) \cup {None}
         /\ to # "done" => /\ Later(r, to).kind = request[r].kind
                           /\ Later(r, to).seen = request[r].seen
                           /\ Later(r, to).todo = request[r].todo
                           /\ Later(r, to).target = request[r].target
                           /\ Later(r, to).cover = request[r].cover
  BY CallOf DEF Later, Resting, NewRow, Call, Knows

LEMMA KnownBelong ==
  ASSUME TidyInv, NEW r \in Request
  PROVE  /\ \A a \in Knows(request[r]) \cup {None} : Belongs(a, Target[r])
         /\ Belongs(product[Target[r]].model, Target[r])
         /\ \A l \in link : Belongs(l.asset, l.product)
  BY AssetFacts DEF TidyInv, OwnAssets, Belongs

\* Only the program counter moves.
LEMMA GoesKeepsTidy ==
  ASSUME TidyInv, CatalogInv', NEW r \in Request, ~Idle(r), NEW to \in Places, Goes(r, to),
         UNCHANGED <<product, link, faults, disturbed>>,
         Adds(Later(r, to)) => Adds(request[r]),
         Stage(request[r], r, product[Target[r]], Images(Target[r]), Models(Target[r]))
           => Standing(Later(r, to), r, product[Target[r]], Images(Target[r]), Models(Target[r]))
  PROVE  TidyInv'
  <1>1. CatalogInv
    BY DEF TidyInv
  <1>2. request' = [request EXCEPT ![r] = Later(r, to)]
    BY DEF Goes, Later
  <1>3. /\ Later(r, to) \in Call /\ \A a \in Knows(Later(r, to)) : Belongs(a, Target[r])
        /\ product' = product /\ Belongs(product'[Target[r]].model, Target[r])
        /\ \A q \in Product \ {Target[r]} : product'[q] = product[q]
    BY <1>1, LaterIs, KnownBelong
  <1>4. QED
    BY <1>2, <1>3, RowStepKeepsTidy

LEMMA PutObjectKeepsTidy ==
  ASSUME TidyInv, CatalogInv', NEW r \in Request, PutObject(r)
  PROVE  TidyInv'
  <1>1. /\ ~Idle(r) /\ Goes(r, "row") /\ UNCHANGED <<product, link, faults, disturbed>>
        /\ request[r].at = "put" /\ "row" \in Places
    BY DEF PutObject, Idle, At, Places
  <1>2. Adds(Later(r, "row")) => Adds(request[r])
    BY <1>1, LaterIs, AssetFacts DEF Adds
  <1>3. ASSUME Stage(request[r], r, product[Target[r]], Images(Target[r]), Models(Target[r]))
        PROVE  Standing(Later(r, "row"), r, product[Target[r]], Images(Target[r]),
                        Models(Target[r]))
    BY <1>1, <1>3, LaterIs, AssetFacts DEF Standing, Stage, Agrees, Removing
  <1>4. QED
    BY <1>1, <1>2, <1>3, GoesKeepsTidy

LEMMA PutRowKeepsTidy ==
  ASSUME TidyInv, CatalogInv', NEW r \in Request, PutRow(r)
  PROVE  TidyInv'
  <1> DEFINE me == request[r]
             row == product[Target[r]]
             I == Images(Target[r])
             M == Models(Target[r])
  <1>1. /\ ~Idle(r) /\ me.at = "row" /\ UNCHANGED <<product, link, faults, disturbed>>
    BY DEF PutRow, Idle, At
  <1>2. CASE me.kind = "model" /\ me.seen.model # None
    <2> DEFINE c == [me EXCEPT !.at = "find", !.target = me.seen.model]
    <2>1. request' = [request EXCEPT ![r] = c]
      BY <1>2, AssetFacts DEF PutRow, Call
    <2>2. /\ c \in Call /\ c.at = "find" /\ c.kind = me.kind /\ c.target = me.seen.model
          /\ c.seen = me.seen /\ c.todo = me.todo
      <3>1. me \in Call /\ me.seen.model \in Ref /\ "find" \in Places
        BY AssetFacts DEF Call, Places, Rows
      <3>2. QED
        BY <3>1 DEF Call
    <2>3. ASSUME Stage(me, r, row, I, M) PROVE Standing(c, r, row, I, M)
      BY <1>1, <1>2, <2>2, <2>3, AssetFacts
      DEF Stage, Standing, Agrees, Removes, Follows, Removing, ModelFits, CoverFits
    <2>4. /\ \A a \in Knows(c) : Belongs(a, Target[r])
          /\ Belongs(product'[Target[r]].model, Target[r]) /\ ~Adds(c)
      BY <1>1, <2>2, KnownBelong DEF Adds, Knows
    <2> HIDE DEF c
    <2>5. QED
      BY <1>1, <2>1, <2>2, <2>3, <2>4, RowStepKeepsTidy
  <1>3. CASE ~(me.kind = "model" /\ me.seen.model # None)
    <2>1. Goes(r, "link") /\ "link" \in Places
      BY <1>3 DEF PutRow, Places
    <2>2. ASSUME Stage(me, r, row, I, M) PROVE Standing(Later(r, "link"), r, row, I, M)
      BY <1>1, <1>3, <2>1, <2>2, LaterIs, AssetFacts
      DEF Stage, Standing, Agrees, Removing, ModelFits, CoverFits
    <2>3. QED
      BY <1>1, <2>1, <2>2, GoesKeepsTidy, LaterIs, AssetFacts DEF Adds
  <1>4. QED
    BY <1>2, <1>3

LEMMA CountKeepsTidy ==
  ASSUME TidyInv, CatalogInv', NEW r \in Request, Count(r)
  PROVE  TidyInv'
  <1> DEFINE me == request[r]
             row == product[Target[r]]
             I == Images(Target[r])
             M == Models(Target[r])
             n == Cardinality(Of(Target[r], KindOf(me.kind)))
  <1>1. /\ ~Idle(r) /\ me.at = "count" /\ UNCHANGED <<product, link, faults, disturbed>>
    BY DEF Count, Idle, At
  <1>2. ASSUME NEW to \in {"shift", "done"}, Goes(r, to), to = "shift" => me.kind = "publish"
        PROVE  TidyInv'
    <2>1. ASSUME Stage(me, r, row, I, M) PROVE Standing(Later(r, to), r, row, I, M)
      BY <1>1, <1>2, <2>1, LaterIs, AssetFacts
      DEF Stage, Standing, Rests, Agrees, Removing, Places
    <2>2. QED
      BY <1>1, <1>2, <2>1, GoesKeepsTidy, LaterIs, AssetFacts DEF Adds, Places
  <1>3. ASSUME request' = [request EXCEPT ![r].at = "put", ![r].count = n],
               me.kind # "publish", me.kind = "image" => ~(n >= ImageLimit)
        PROVE  TidyInv'
    <2> DEFINE c == request'[r]
    <2>1. /\ request' = [request EXCEPT ![r] = c] /\ c \in Call
      <3>1. request \in [Request -> Call] /\ request' \in [Request -> Call]
        BY DEF TidyInv, CatalogInv, CatalogTypeOK, Call
      <3>2. QED
        BY <1>3, <3>1
    <2>2. /\ c.at = "put" /\ c.kind = me.kind /\ c.seen = me.seen /\ Knows(c) = Knows(me)
      BY <1>3, AssetFacts, CallOf DEF Call, Knows
    <2>3. me.kind = "image" => Cardinality(Of(Target[r], "IMAGE")) < ImageLimit
      BY <1>3, AssetFacts DEF KindOf
    <2>4. ASSUME Stage(me, r, row, I, M) PROVE Standing(c, r, row, I, M)
      BY <1>1, <1>3, <2>2, <2>4, AssetFacts DEF Stage, Standing, Agrees, Removing
    <2>5. /\ \A a \in Knows(c) : Belongs(a, Target[r])
          /\ Belongs(product'[Target[r]].model, Target[r])
          /\ Adds(c) => Cardinality(Of(Target[r], "IMAGE")) < ImageLimit
      BY <1>1, <2>2, <2>3, KnownBelong DEF Adds
    <2> HIDE DEF c
    <2>6. QED
      BY <1>1, <2>1, <2>4, <2>5, RowStepKeepsTidy
  <1>4. QED
    BY <1>2, <1>3 DEF Count

LEMMA ShiftKeepsTidy ==
  ASSUME TidyInv, CatalogInv', NEW r \in Request, Shift(r)
  PROVE  TidyInv'
  <1> DEFINE p == Target[r]
             I == Images(p)
             M == Models(p)
  <1>1. /\ ~Idle(r) /\ request[r].at = "shift" /\ UNCHANGED <<link, faults, disturbed>>
        /\ Goes(r, "done") /\ "done" \in Places
        /\ request' = [request EXCEPT ![r] = Later(r, "done")]
    BY DEF Shift, Idle, At, Places, Goes, Later
  <1>2. /\ \A q \in Product \ {p} : product'[q] = product[q]
        /\ product'[p].cover = product[p].cover /\ product'[p].model = product[p].model
        /\ product'[p].status \in {product[p].status, "OFF_SHELF", "PUBLISHED"}
    BY AssetFacts DEF Shift, Rows, CatalogInv, CatalogTypeOK
  <1>3. ASSUME Stage(request[r], r, product[p], I, M)
        PROVE  Standing(Later(r, "done"), r, product'[p], I, M)
    BY <1>1, <1>2, <1>3, LaterIs, AssetFacts DEF Stage, Standing, Rests
  <1>4. /\ Later(r, "done") \in Call /\ Later(r, "done").at = "done"
        /\ \A a \in Knows(Later(r, "done")) : Belongs(a, p)
        /\ Belongs(product'[p].model, p)
    BY <1>1, <1>2, AssetFacts, LaterIs, KnownBelong
  <1>5. ~Adds(Later(r, "done"))
    BY <1>4 DEF Adds
  <1>6. QED
    BY <1>1, <1>2, <1>3, <1>4, <1>5, RowStepKeepsTidy

-----------------------------------------------------------------------------
(* Steps of one request: its statements that change no link *)

LEMMA SmallestExists ==
  ASSUME NEW S \in SUBSET Nat, S # {}
  PROVE  \E m \in S : \A n \in S : m <= n
  <1> DEFINE R == OpToRel(<, Nat)
  <1>1. IsWellFoundedOn(R, Nat)
    BY NatLessThanWellFounded, Zenon
  <1>2. PICK m \in S : \A n \in S : ~(<<n, m>> \in R)
    <2> HIDE DEF R
    <2>1. QED
      BY <1>1, WFMin
  <1>3. \A n \in S : ~(n < m)
    BY <1>2 DEF OpToRel
  <1>4. QED
    BY <1>3

LEMMA FirstImageExists ==
  ASSUME TidyInv, NEW p, Of(p, "IMAGE") # {}
  PROVE  FirstImages(p) # {}
  <1> DEFINE S == {l.position : l \in Of(p, "IMAGE")}
  <1>1. S \in SUBSET Nat /\ S # {}
    BY DEF TidyInv, CatalogInv, CatalogTypeOK, Links, Of
  <1>2. PICK m \in S : \A n \in S : m <= n
    <2> HIDE DEF S
    <2>1. QED
      BY <1>1, SmallestExists
  <1>3. PICK l \in Of(p, "IMAGE") : l.position = m
    OBVIOUS
  <1>4. \A k \in Of(p, "IMAGE") : l.position <= k.position
    BY <1>2, <1>3
  <1>5. QED
    BY <1>3, <1>4 DEF FirstImages

\* The program counter moves, and the product's row may change.
LEMMA GoesRowKeepsTidy ==
  ASSUME TidyInv, CatalogInv', NEW r \in Request, ~Idle(r), NEW to \in Places, Goes(r, to),
         UNCHANGED <<link, faults, disturbed>>,
         \A q \in Product \ {Target[r]} : product'[q] = product[q],
         Belongs(product'[Target[r]].model, Target[r]),
         to \notin {"put", "row", "link"},
         Stage(request[r], r, product[Target[r]], Images(Target[r]), Models(Target[r]))
           => Standing(Later(r, to), r, product'[Target[r]], Images(Target[r]), Models(Target[r]))
  PROVE  TidyInv'
  <1>1. CatalogInv
    BY DEF TidyInv
  <1>2. request' = [request EXCEPT ![r] = Later(r, to)]
    BY DEF Goes, Later
  <1>3. /\ Later(r, to) \in Call /\ \A a \in Knows(Later(r, to)) : Belongs(a, Target[r])
        /\ ~Adds(Later(r, to))
    BY <1>1, LaterIs, KnownBelong DEF Adds
  <1>4. QED
    BY <1>2, <1>3, RowStepKeepsTidy

\* An update of the row that the request's product has.
LEMMA UpdateOfRow ==
  ASSUME TidyInv, NEW r \in Request, NEW row, Updates(Target[r], row),
         Belongs(row.model, Target[r])
  PROVE  /\ \A q \in Product \ {Target[r]} : product'[q] = product[q]
         /\ product[Target[r]].status \notin {"NEW", "GONE"} => product'[Target[r]] = row
         /\ Belongs(product'[Target[r]].model, Target[r])
  BY AssetFacts, KnownBelong DEF Updates, Exists, CatalogInv, CatalogTypeOK

LEMMA ShowKeepsTidy ==
  ASSUME TidyInv, CatalogInv', NEW r \in Request, Show(r)
  PROVE  TidyInv'
  <1> DEFINE p == Target[r]
             I == Images(p)
             M == Models(p)
             row == IF request[r].kind = "image" THEN [product[p] EXCEPT !.cover = r]
                                                 ELSE [product[p] EXCEPT !.model = r]
  <1>1. /\ ~Idle(r) /\ request[r].at = "show" /\ UNCHANGED <<link, faults, disturbed>>
        /\ Goes(r, "done") /\ "done" \in Places
    BY DEF Show, Idle, At, Places
  <1>2. Updates(p, row)
    BY DEF Show
  <1>3. /\ row.status = product[p].status
        /\ request[r].kind = "image" => row.cover = r /\ row.model = product[p].model
        /\ request[r].kind # "image" => row.cover = product[p].cover /\ row.model = r
    BY AssetFacts DEF Rows
  <1>4. Belongs(row.model, p)
    BY <1>3, KnownBelong DEF Belongs
  <1>5. /\ \A q \in Product \ {p} : product'[q] = product[q]
        /\ product[p].status \notin {"NEW", "GONE"} => product'[p] = row
        /\ Belongs(product'[p].model, p)
    <2> HIDE DEF row
    <2>1. QED
      BY <1>2, <1>4, UpdateOfRow
  <1>6. ASSUME Stage(request[r], r, product[p], I, M)
        PROVE  Standing(Later(r, "done"), r, product'[p], I, M)
    <2>1. product'[p] = row /\ Later(r, "done").at = "done" /\ r # None
          /\ product[p].status \notin {"NEW", "GONE"}
      BY <1>1, <1>5, <1>6, LaterIs, AssetFacts DEF Stage
    <2>2. IF request[r].kind = "image" THEN I = {r} /\ ModelFits(product[p].model, M)
                                       ELSE M = {r} /\ CoverFits(product[p].cover, I)
      BY <1>1, <1>6 DEF Stage
    <2> HIDE DEF row
    <2>3. QED
      BY <1>3, <2>1, <2>2 DEF Standing, Rests, CoverFits, ModelFits
  <1>7. QED
    BY <1>1, <1>5, <1>6, GoesRowKeepsTidy

LEMMA DropKeepsTidy ==
  ASSUME TidyInv, CatalogInv', NEW r \in Request, Drop(r)
  PROVE  TidyInv'
  <1> DEFINE p == Target[r]
             I == Images(p)
             M == Models(p)
  <1>1. /\ ~Idle(r) /\ request[r].at = "drop" /\ UNCHANGED <<link, faults, disturbed>>
        /\ Goes(r, "done") /\ "done" \in Places
    BY DEF Drop, Idle, At, Places
  <1>2. /\ \A q \in Product \ {p} : product'[q] = product[q]
        /\ product'[p].cover = product[p].cover /\ product'[p].model = product[p].model
    BY AssetFacts DEF Drop, Rows, CatalogInv, CatalogTypeOK
  <1>3. ASSUME Stage(request[r], r, product[p], I, M)
        PROVE  Standing(Later(r, "done"), r, product'[p], I, M)
    BY <1>1, <1>2, <1>3, LaterIs, AssetFacts DEF Stage, Standing, Rests, CoverFits, ModelFits
  <1>4. Belongs(product'[p].model, p)
    BY <1>2, KnownBelong
  <1>5. QED
    BY <1>1, <1>2, <1>3, <1>4, GoesRowKeepsTidy

LEMMA ListKeepsTidy ==
  ASSUME TidyInv, CatalogInv', NEW r \in Request, List(r)
  PROVE  TidyInv'
  <1> DEFINE me == request[r]
             p == Target[r]
             I == Images(p)
             M == Models(p)
             all == {l.asset : l \in {k \in link : k.product = p}}
             c == [me EXCEPT !.at = "each", !.todo = all]
  <1>1. /\ ~Idle(r) /\ me.at = "list" /\ UNCHANGED <<product, link, faults, disturbed>>
    BY DEF List, Idle, At
  <1>2. request' = [request EXCEPT ![r] = c]
    BY AssetFacts DEF List, Call
  <1>3. all = I \cup M /\ all \subseteq Request
    BY AssetFacts DEF Images, Models, Of, Links
  <1>4. /\ c \in Call /\ c.at = "each" /\ c.kind = me.kind /\ c.seen = me.seen
        /\ c.target = me.target /\ c.todo = all
    <2>1. me \in Call /\ "each" \in Places
      BY AssetFacts DEF Places
    <2> HIDE DEF all
    <2>2. QED
      BY <1>3, <2>1 DEF Call
  <1>5. me.kind = "delete"
    BY <1>1, AssetFacts DEF CatalogInv, ListsToDelete
  <1>6. \A a \in Knows(c) : Belongs(a, p)
    <2>1. \A a \in all : Belongs(a, p)
      BY KnownBelong
    <2> HIDE DEF all, c
    <2>2. QED
      BY <1>4, <2>1, KnownBelong DEF Knows
  <1> HIDE DEF all, c
  <1>7. ASSUME Stage(me, r, product[p], I, M) PROVE Standing(c, r, product[p], I, M)
    BY <1>1, <1>3, <1>4, <1>5, <1>7 DEF Stage, Standing, Agrees, Follows, Removing
  <1>8. /\ ~Adds(c) /\ product' = product /\ Belongs(product'[p].model, p)
    BY <1>1, <1>4, KnownBelong DEF Adds
  <1>9. QED
    BY <1>1, <1>2, <1>4, <1>6, <1>7, <1>8, RowStepKeepsTidy

LEMMA EachKeepsTidy ==
  ASSUME TidyInv, CatalogInv', NEW r \in Request, Each(r)
  PROVE  TidyInv'
  <1> DEFINE me == request[r]
             p == Target[r]
             I == Images(p)
             M == Models(p)
  <1>1. /\ ~Idle(r) /\ me.at = "each" /\ UNCHANGED <<product, link, faults, disturbed>>
    BY DEF Each, Idle, At
  <1>2. CASE me.todo = {} /\ Goes(r, "drop")
    <2>1. ASSUME Stage(me, r, product[p], I, M)
          PROVE  Standing(Later(r, "drop"), r, product[p], I, M)
      <3>1. /\ I = {} /\ M = {} /\ product[p].status \notin {"NEW", "GONE"}
            /\ CoverFits(product[p].cover, I) /\ ModelFits(product[p].model, M)
        BY <1>1, <1>2, <2>1 DEF Stage
      <3>2. product[p].cover = None /\ product[p].model = None
        BY <3>1 DEF CoverFits, ModelFits
      <3>3. Later(r, "drop").at = "drop"
        BY LaterIs, AssetFacts DEF Places
      <3>4. QED
        BY <3>1, <3>2, <3>3 DEF Stage, Standing, Removing
    <2>2. "drop" \in Places /\ ~Adds(Later(r, "drop"))
      BY LaterIs, AssetFacts DEF Places, Adds
    <2>3. QED
      BY <1>1, <1>2, <2>1, <2>2, GoesKeepsTidy
  <1>3. ASSUME NEW a \in me.todo,
               request' = [request EXCEPT ![r].at = "find", ![r].target = a,
                                          ![r].todo = me.todo \ {a}]
        PROVE  TidyInv'
    <2> DEFINE c == [me EXCEPT !.at = "find", !.target = a, !.todo = me.todo \ {a}]
    <2>1. request' = [request EXCEPT ![r] = c]
      BY <1>3, AssetFacts DEF Call
    <2>2. /\ c \in Call /\ c.at = "find" /\ c.kind = me.kind /\ c.seen = me.seen
          /\ c.target = a /\ c.todo = me.todo \ {a} /\ a # None
      <3>1. me \in Call /\ "find" \in Places /\ a \in Request /\ a \in Ref /\ a # None
        BY AssetFacts DEF Places, Call, Ref
      <3>2. QED
        BY <3>1 DEF Call
    <2>3. \A b \in Knows(c) : Belongs(b, p)
      BY <2>2, KnownBelong DEF Knows
    <2> HIDE DEF c
    <2>4. ASSUME Stage(me, r, product[p], I, M) PROVE Standing(c, r, product[p], I, M)
      BY <1>1, <2>2, <2>4 DEF Stage, Standing, Follows, Removes, Removing
    <2>5. /\ ~Adds(c) /\ product' = product /\ Belongs(product'[p].model, p)
      BY <1>1, <2>2, KnownBelong DEF Adds
    <2>6. QED
      BY <1>1, <2>1, <2>2, <2>3, <2>4, <2>5, RowStepKeepsTidy
  <1>4. QED
    BY <1>2, <1>3 DEF Each

\* Where a handler goes on after the removal is known from what it removes.
LEMMA ResumeStands ==
  ASSUME TidyInv, NEW r \in Request, NEW row, NEW I, NEW M,
         row.status \notin {"NEW", "GONE"}, CoverFits(row.cover, I), ModelFits(row.model, M),
         Removes(request[r], row, I, M), request[r].target \notin I \cup M,
         request[r].kind = "model" => row.model = None
  PROVE  Standing(Later(r, Resume(r)), r, row, I, M)
  <1> DEFINE me == request[r]
  <1>1. me.kind \in {"model", "remove", "delete"} /\ Follows(me, row, I, M)
    BY DEF Removes
  <1>2. CASE me.kind = "model"
    <2>1. /\ Later(r, Resume(r)).at = "link" /\ Later(r, Resume(r)).kind = "model"
      BY <1>2, LaterIs, AssetFacts DEF Resume, Places
    <2>2. M = {} /\ row.model = None
      BY <1>2 DEF ModelFits
    <2>3. QED
      BY <2>1, <2>2 DEF Standing, Stage, Removing
  <1>3. CASE me.kind = "remove"
    <2>1. Later(r, Resume(r)).at = "done"
      BY <1>3, LaterIs, AssetFacts DEF Resume, Places
    <2>2. QED
      BY <2>1 DEF Standing, Rests
  <1>4. CASE me.kind = "delete"
    <2>1. /\ Later(r, Resume(r)).at = "each" /\ Later(r, Resume(r)).kind = "delete"
          /\ Later(r, Resume(r)).seen = me.seen /\ Later(r, Resume(r)).todo = me.todo
      BY <1>4, LaterIs, AssetFacts DEF Resume, Places
    <2>2. me.todo = I \cup M
      BY <1>4 DEF Removes
    <2>3. QED
      BY <1>1, <2>1, <2>2 DEF Standing, Stage, Follows, Removing
  <1>5. QED
    BY <1>1, <1>2, <1>3, <1>4

LEMMA ResumeAddsNothing ==
  ASSUME CatalogInv, NEW r \in Request
  PROVE  Resume(r) \in Places /\ ~Adds(Later(r, Resume(r)))
  BY LaterIs DEF Resume, Places, Adds

LEMMA WipeKeepsTidy ==
  ASSUME TidyInv, CatalogInv', NEW r \in Request, Wipe(r)
  PROVE  TidyInv'
  <1> DEFINE me == request[r]
             row == product[Target[r]]
             I == Images(Target[r])
             M == Models(Target[r])
  <1>1. /\ ~Idle(r) /\ me.at = "wipe" /\ UNCHANGED <<product, link, faults, disturbed>>
        /\ Goes(r, Resume(r))
    BY DEF Wipe, Idle, At
  <1>2. ASSUME Stage(me, r, row, I, M) PROVE Standing(Later(r, Resume(r)), r, row, I, M)
    <2>1. /\ row.status \notin {"NEW", "GONE"} /\ CoverFits(row.cover, I)
          /\ ModelFits(row.model, M) /\ Removes(me, row, I, M) /\ me.target \notin I \cup M
          /\ me.kind = "model" => row.model = None
      BY <1>1, <1>2 DEF Stage, Removing
    <2>2. QED
      BY <2>1, ResumeStands
  <1>3. Resume(r) \in Places /\ ~Adds(Later(r, Resume(r)))
    BY AssetFacts, ResumeAddsNothing
  <1>4. QED
    BY <1>1, <1>2, <1>3, GoesKeepsTidy

LEMMA FindKeepsTidy ==
  ASSUME TidyInv, CatalogInv', NEW r \in Request, Find(r)
  PROVE  TidyInv'
  <1> DEFINE me == request[r]
             p == Target[r]
             I == Images(p)
             M == Models(p)
             to == IF LinkOf(p, me.target) # {} THEN "unlink" ELSE Resume(r)
  <1>1. /\ ~Idle(r) /\ me.at = "find" /\ UNCHANGED <<product, link, faults, disturbed>>
        /\ Goes(r, to)
    BY DEF Find, Idle, At
  <1>2. to \in Places /\ ~Adds(Later(r, to))
    BY AssetFacts, ResumeAddsNothing, LaterIs DEF Places, Adds
  <1>3. ASSUME Stage(me, r, product[p], I, M) PROVE Standing(Later(r, to), r, product[p], I, M)
    <2>1. me.target \in I \cup M
      BY <1>1, <1>3 DEF Stage
    <2>2. LinkOf(p, me.target) # {}
      BY <2>1 DEF LinkOf, Images, Models, Of
    <2>3. /\ to = "unlink" /\ Later(r, to).at = "unlink" /\ Later(r, to).kind = me.kind
          /\ Later(r, to).seen = me.seen /\ Later(r, to).todo = me.todo
          /\ Later(r, to).target = me.target
      BY <2>2, LaterIs, AssetFacts DEF Places
    <2> HIDE DEF to
    <2>4. QED
      BY <1>1, <1>3, <2>3 DEF Stage, Standing, Removes, Follows, Removing
  <1> HIDE DEF to
  <1>4. QED
    BY <1>1, <1>2, <1>3, GoesKeepsTidy

LEMMA NextCoverKeepsTidy ==
  ASSUME TidyInv, CatalogInv', NEW r \in Request, NextCover(r)
  PROVE  TidyInv'
  <1> DEFINE me == request[r]
             p == Target[r]
             I == Images(p)
             M == Models(p)
             first == FirstImages(p)
             covers == IF first = {} THEN {None} ELSE {l.asset : l \in first}
  <1>1. /\ ~Idle(r) /\ me.at = "next" /\ UNCHANGED <<product, link, faults, disturbed>>
    BY DEF NextCover, Idle, At
  <1>2. PICK a \in covers : request' = [request EXCEPT ![r].at = "point", ![r].cover = a]
    BY DEF NextCover
  <1>3. a \in Ref /\ CoverFits(a, I)
    <2>1. CASE first = {}
      <3>1. I = {}
        BY <2>1, FirstImageExists DEF Images
      <3>2. QED
        BY <1>2, <2>1, <3>1 DEF CoverFits, Ref
    <2>2. CASE first # {}
      <3>1. a \in I
        BY <1>2, <2>2 DEF FirstImages, Images
      <3>2. QED
        BY <3>1, AssetFacts DEF CoverFits, Ref
    <2>3. QED
      BY <2>1, <2>2
  <1> DEFINE c == [me EXCEPT !.at = "point", !.cover = a]
  <1>4. request' = [request EXCEPT ![r] = c]
    BY <1>2, AssetFacts DEF Call
  <1>5. /\ c \in Call /\ c.at = "point" /\ c.kind = me.kind /\ c.seen = me.seen
        /\ c.target = me.target /\ c.todo = me.todo /\ c.cover = a
    <2>1. me \in Call /\ "point" \in Places
      BY AssetFacts DEF Places
    <2>2. QED
      BY <1>3, <2>1 DEF Call
  <1> HIDE DEF c, covers, first
  <1>6. ASSUME Stage(me, r, product[p], I, M) PROVE Standing(c, r, product[p], I, M)
    BY <1>1, <1>3, <1>5, <1>6 DEF Stage, Standing, Removes, Follows, Removing
  <1>7. /\ ~Adds(c) /\ product' = product /\ Belongs(product'[p].model, p)
        /\ \A b \in Knows(c) : Belongs(b, p)
    BY <1>1, <1>5, KnownBelong DEF Adds, Knows
  <1>8. QED
    BY <1>1, <1>4, <1>5, <1>6, <1>7, RowStepKeepsTidy

LEMMA PointKeepsTidy ==
  ASSUME TidyInv, CatalogInv', NEW r \in Request, Point(r)
  PROVE  TidyInv'
  <1> DEFINE me == request[r]
             p == Target[r]
             I == Images(p)
             M == Models(p)
             cover(x) == IF me.seen.cover = me.target THEN me.cover ELSE x
             model(x) == IF me.seen.model = me.target THEN None ELSE x
             row == [product[p] EXCEPT !.cover = cover(@), !.model = model(@)]
             seen == [me.seen EXCEPT !.cover = cover(me.seen.cover)]
             c == [me EXCEPT !.at = "erase", !.seen = seen]
  <1>1. /\ ~Idle(r) /\ me.at = "point" /\ UNCHANGED <<link, faults, disturbed>>
        /\ Updates(p, row)
    BY DEF Point, Idle, At
  <1>2. /\ me \in Call /\ me.seen \in Rows /\ me.cover \in Ref /\ product[p] \in Rows
        /\ "erase" \in Places /\ request \in [Request -> Call]
    BY AssetFacts, CallOf DEF Call, Places
  <1>3. request' = [request EXCEPT ![r] = c]
    BY <1>2 DEF Point, Call, Rows
  <1>4. /\ c \in Call /\ c.at = "erase" /\ c.kind = me.kind /\ c.target = me.target
        /\ c.todo = me.todo /\ c.seen.model = me.seen.model
        /\ c.seen.cover = cover(me.seen.cover)
    <2>1. cover(me.seen.cover) \in Ref
      BY <1>2 DEF Rows
    <2>2. /\ seen \in Rows /\ seen.model = me.seen.model
          /\ seen.cover = cover(me.seen.cover)
      BY <1>2, <2>1 DEF Rows
    <2> HIDE DEF seen
    <2>3. QED
      BY <1>2, <2>2 DEF Call
  <1>5. /\ row.status = product[p].status /\ row.cover = cover(product[p].cover)
        /\ row.model = model(product[p].model)
    BY <1>2 DEF Rows
  <1>6. Belongs(row.model, p)
    BY <1>5, KnownBelong DEF Belongs
  <1> HIDE DEF row, c
  <1>7. /\ \A q \in Product \ {p} : product'[q] = product[q]
        /\ product[p].status \notin {"NEW", "GONE"} => product'[p] = row
        /\ Belongs(product'[p].model, p)
    BY <1>1, <1>6, UpdateOfRow
  <1>8. /\ ~Adds(c) /\ \A b \in Knows(c) : Belongs(b, p)
    BY <1>4, KnownBelong DEF Adds, Knows
  <1>9. ASSUME Stage(me, r, product[p], I, M) PROVE Standing(c, r, product'[p], I, M)
    <2>1. /\ product'[p] = row /\ product[p].status \notin {"NEW", "GONE"}
          /\ Removes(me, product[p], I, M) /\ me.target \notin I \cup M
      BY <1>1, <1>7, <1>9 DEF Stage, Removing
    <2>2. CASE /\ ModelFits(product[p].model, M) /\ product[p].cover = me.target
               /\ me.seen.model # me.target /\ me.kind # "model" /\ CoverFits(me.cover, I)
      <3>1. /\ row.cover = me.cover /\ row.model = product[p].model
            /\ c.seen.cover = me.cover
        BY <1>4, <1>5, <2>1, <2>2 DEF Removes, Follows
      <3>2. Removes(c, row, I, M)
        BY <1>4, <2>1, <2>2, <3>1 DEF Removes, Follows
      <3>3. CoverFits(row.cover, I) /\ ModelFits(row.model, M)
        BY <2>2, <3>1
      <3>4. QED
        BY <1>4, <1>5, <2>1, <2>2, <3>2, <3>3 DEF Standing, Stage, Removing
    <2>3. CASE /\ CoverFits(product[p].cover, I) /\ product[p].cover # me.target
               /\ me.seen.model = me.target /\ product[p].model = me.target /\ M = {}
      <3>1. /\ row.cover = product[p].cover /\ row.model = None
            /\ c.seen.cover = product[p].cover
        BY <1>4, <1>5, <2>1, <2>3 DEF Removes, Follows
      <3>2. Removes(c, row, I, M)
        BY <1>4, <2>1, <2>3, <3>1 DEF Removes, Follows
      <3>3. CoverFits(row.cover, I) /\ ModelFits(row.model, M)
        BY <2>3, <3>1 DEF ModelFits
      <3>4. QED
        BY <1>4, <1>5, <2>1, <3>1, <3>2, <3>3 DEF Standing, Stage, Removing
    <2>4. QED
      BY <1>1, <1>9, <2>2, <2>3 DEF Stage
  <1>10. QED
    BY <1>1, <1>3, <1>4, <1>7, <1>8, <1>9, RowStepKeepsTidy

-----------------------------------------------------------------------------
(* Steps that remove a link *)

\* The links of an asset are all with its request's product.
LEMMA OnlyHere ==
  ASSUME TidyInv, NEW r \in Request, NEW a \in Ref, Belongs(a, Target[r])
  PROVE  {l \in link : l.asset # a} = link \ LinkOf(Target[r], a)
  <1>1. \A l \in link : l.asset = a => l.product = Target[r]
    BY KnownBelong, AssetFacts DEF Belongs, Links
  <1>2. QED
    BY <1>1 DEF LinkOf

LEMMA UnlinkingKeepsTidy ==
  ASSUME TidyInv, CatalogInv', NEW r \in Request, ~Idle(r), NEW a \in Ref, Belongs(a, Target[r]),
         NEW to \in Places, Goes(r, to), ~Adds(Later(r, to)),
         link' = link \ LinkOf(Target[r], a), UNCHANGED <<product, faults, disturbed>>,
         Stage(request[r], r, product[Target[r]], Images(Target[r]), Models(Target[r]))
           => Standing(Later(r, to), r, product[Target[r]], Images(Target[r]) \ {a},
                       Models(Target[r]) \ {a})
  PROVE  TidyInv'
  <1> DEFINE p == Target[r]
             c == Later(r, to)
  <1>1. request' = [request EXCEPT ![r] = c]
    BY DEF Goes, Later
  <1>2. c \in Call /\ \A b \in Knows(c) : Belongs(b, p)
    BY LaterIs, KnownBelong, AssetFacts
  <1> HIDE DEF c
  <1>3. Works(r, c)
    <2>1. \A l \in Links : l.product # p => (l \in link' <=> l \in link)
      BY DEF LinkOf
    <2>2. LinkedOnce' /\ \A l \in link' : Belongs(l.asset, l.product)
      BY KnownBelong DEF TidyInv, LinkedOnce
    <2>3. product' = product /\ Belongs(product'[p].model, p)
      BY KnownBelong
    <2>4. QED
      BY <1>1, <1>2, <2>1, <2>2, <2>3 DEF Works
  <1>4. ASSUME p \notin disturbed' PROVE Settles(r, c)
    <2>1. Images(p)' = Images(p) \ {a} /\ Models(p)' = Models(p) \ {a}
      BY DEF Images, Models, Of, LinkOf
    <2>2. Of(p, "IMAGE")' \subseteq Of(p, "IMAGE")
      BY DEF Of
    <2>3. Cardinality(Of(p, "IMAGE"))' <= Cardinality(Of(p, "IMAGE"))
          /\ Cardinality(Of(p, "IMAGE"))' \in Nat
      BY <2>2, AssetFacts, FS_Subset, FS_CardinalityType
    <2>4. Cardinality(Of(p, "IMAGE"))' <= ImageLimit
      BY <1>4, <2>3, UnderWay, AssetFacts
    <2>5. ASSUME faults' = 0 PROVE Standing(c, r, product'[p], Images(p)', Models(p)')
      BY <1>4, <2>1, <2>5, UnderWay DEF c
    <2>6. QED
      BY <1>4, <2>4, <2>5, UnderWay DEF Settles, c
  <1>5. QED
    BY <1>3, <1>4, StepKeepsTidy

LEMMA UnlinkKeepsTidy ==
  ASSUME TidyInv, CatalogInv', NEW r \in Request, Unlink(r)
  PROVE  TidyInv'
  <1> DEFINE me == request[r]
             p == Target[r]
             a == me.target
             row == product[p]
             I == Images(p)
             M == Models(p)
             to == IF a = me.seen.cover THEN "next"
                   ELSE IF a = me.seen.model THEN "point" ELSE "erase"
  <1>1. /\ ~Idle(r) /\ me.at = "unlink" /\ UNCHANGED <<product, faults, disturbed>>
        /\ link' = link \ LinkOf(p, a) /\ Goes(r, to)
    BY DEF Unlink, Idle, At
  <1>2. /\ to \in Places /\ Later(r, to).at = to /\ Later(r, to).kind = me.kind
        /\ Later(r, to).seen = me.seen /\ Later(r, to).todo = me.todo
        /\ Later(r, to).target = a
    BY LaterIs, AssetFacts DEF Places
  <1>3. a \in Ref /\ Belongs(a, p) /\ ~Adds(Later(r, to))
    BY <1>2, AssetFacts, KnownBelong DEF Adds, Knows, Call
  <1>4. ASSUME Stage(me, r, row, I, M) PROVE Standing(Later(r, to), r, row, I \ {a}, M \ {a})
    <2>1. /\ row.status \notin {"NEW", "GONE"} /\ Removes(me, row, I, M)
          /\ CoverFits(row.cover, I) /\ ModelFits(row.model, M)
          /\ a \in I \cup M
          /\ me.kind = "model" => a = row.model
      BY <1>1, <1>4 DEF Stage, Removing
    <2>2. a # None /\ None \notin I \cup M /\ I \cap M = {}
      BY <2>1, AssetFacts DEF Removes
    <2>3. Removes(Later(r, to), row, I \ {a}, M \ {a})
      <3>1. Follows(Later(r, to), row, I \ {a}, M \ {a})
        BY <1>2, <2>1 DEF Removes, Follows
      <3>2. me.kind = "delete" => me.todo = ((I \ {a}) \cup (M \ {a})) \ {a}
        BY <2>1 DEF Removes
      <3>3. QED
        BY <1>2, <2>1, <3>1, <3>2 DEF Removes
    <2>4. CASE a = me.seen.cover
      <3>1. row.cover = a /\ a \in I /\ a \notin M /\ M \ {a} = M
        BY <2>1, <2>2, <2>4 DEF Removes, Follows, CoverFits
      <3>2. me.seen.model # a /\ me.kind # "model"
        BY <2>1, <3>1 DEF Removes, Follows, ModelFits
      <3>3. QED
        <4>1. to = "next" /\ ModelFits(row.model, M \ {a})
          BY <2>1, <2>4, <3>1
        <4> HIDE DEF to
        <4>2. QED
          BY <1>2, <2>1, <2>3, <3>1, <3>2, <4>1 DEF Standing, Stage, Removing
    <2>5. CASE a # me.seen.cover /\ a = me.seen.model
      <3>1. row.model = a /\ M \ {a} = {} /\ I \ {a} = I
        <4>1. row.model = a
          BY <2>1, <2>2, <2>5 DEF Removes, Follows
        <4>2. M = {a}
          BY <2>1, <2>2, <4>1 DEF ModelFits
        <4>3. QED
          BY <2>2, <4>1, <4>2
      <3>2. row.cover # a
        BY <2>1, <2>5 DEF Removes, Follows
      <3>3. QED
        <4>1. to = "point" /\ CoverFits(row.cover, I \ {a})
          BY <2>1, <2>5, <3>1
        <4> HIDE DEF to
        <4>2. QED
          BY <1>2, <2>1, <2>3, <2>5, <3>1, <3>2, <4>1 DEF Standing, Stage, Removing
    <2>6. CASE a # me.seen.cover /\ a # me.seen.model
      <3>1. a \in I /\ M \ {a} = M /\ me.kind # "model"
        <4>1. row.model # a
          BY <2>1, <2>2, <2>6 DEF Removes, Follows
        <4>2. a \notin M
          BY <2>1, <4>1 DEF ModelFits
        <4>3. QED
          BY <2>1, <4>1, <4>2
      <3>2. CoverFits(row.cover, I \ {a})
        BY <2>1, <2>6, <3>1 DEF Removes, Follows, CoverFits
      <3>3. QED
        BY <1>2, <2>1, <2>3, <2>6, <3>1, <3>2 DEF Standing, Stage, Removing
    <2>7. QED
      BY <2>4, <2>5, <2>6
  <1> HIDE DEF to
  <1>5. QED
    BY <1>1, <1>2, <1>3, <1>4, UnlinkingKeepsTidy

LEMMA EraseKeepsTidy ==
  ASSUME TidyInv, CatalogInv', NEW r \in Request, Erase(r)
  PROVE  TidyInv'
  <1> DEFINE me == request[r]
             p == Target[r]
             a == me.target
             row == product[p]
             I == Images(p)
             M == Models(p)
             to == IF a \in stored THEN "wipe" ELSE Resume(r)
  <1>1. /\ ~Idle(r) /\ me.at = "erase" /\ UNCHANGED <<product, link, faults, disturbed>>
        /\ Goes(r, to)
    BY AssetFacts, EraseLeavesLinks DEF Erase, Idle, At
  <1>2. to \in Places /\ ~Adds(Later(r, to))
    BY AssetFacts, ResumeAddsNothing, LaterIs DEF Places, Adds
  <1>3. ASSUME Stage(me, r, row, I, M) PROVE Standing(Later(r, to), r, row, I, M)
    <2>1. /\ row.status \notin {"NEW", "GONE"} /\ CoverFits(row.cover, I)
          /\ ModelFits(row.model, M) /\ Removes(me, row, I, M) /\ a \notin I \cup M
          /\ me.kind = "model" => row.model = None
      BY <1>1, <1>3 DEF Stage, Removing
    <2>2. CASE a \in stored
      <3>1. /\ Later(r, to).at = "wipe" /\ Later(r, to).kind = me.kind
            /\ Later(r, to).seen = me.seen /\ Later(r, to).todo = me.todo
            /\ Later(r, to).target = a
        BY <2>2, LaterIs, AssetFacts DEF Places
      <3>2. Removes(Later(r, to), row, I, M)
        BY <2>1, <3>1 DEF Removes, Follows
      <3> HIDE DEF to
      <3>3. Stage(Later(r, to), r, row, I, M)
        BY <2>1, <3>1, <3>2 DEF Stage, Removing
      <3>4. QED
        BY <3>1, <3>3 DEF Standing
    <2>3. CASE a \notin stored
      BY <2>1, <2>3, ResumeStands
    <2>4. QED
      BY <2>2, <2>3
  <1> HIDE DEF to
  <1>4. QED
    BY <1>1, <1>2, <1>3, GoesKeepsTidy

\* What a request that has failed takes back may be listed or not.
LEMMA UndoKeepsTidy ==
  ASSUME TidyInv, CatalogInv', NEW r \in Request, Undo(r)
  PROVE  TidyInv'
  <1>1. /\ ~Idle(r) /\ request[r].at = "undo" /\ UNCHANGED <<product, faults, disturbed>>
        /\ link' = Without(r) /\ Goes(r, "unput")
    BY DEF Undo, Idle, At
  <1>2. r \in Ref /\ Belongs(r, Target[r])
    BY DEF Ref, Belongs
  <1>3. "unput" \in Places /\ ~Adds(Later(r, "unput"))
    BY AssetFacts, LaterIs DEF Places, Adds
  <1>4. ~Stage(request[r], r, product[Target[r]], Images(Target[r]), Models(Target[r]))
    BY <1>1 DEF Stage
  <1>5. CASE Cascades
    <2>1. link' = link \ LinkOf(Target[r], r)
      BY <1>1, <1>2, <1>5, OnlyHere DEF Without
    <2>2. QED
      BY <1>1, <1>2, <1>3, <1>4, <2>1, UnlinkingKeepsTidy
  <1>6. CASE ~Cascades
    BY <1>1, <1>3, <1>4, <1>6, GoesKeepsTidy DEF Without
  <1>7. QED
    BY <1>5, <1>6

LEMMA UnputKeepsTidy ==
  ASSUME TidyInv, CatalogInv', NEW r \in Request, Unput(r)
  PROVE  TidyInv'
  <1>1. /\ ~Idle(r) /\ request[r].at = "unput" /\ Goes(r, GivenUp(r))
        /\ UNCHANGED <<product, link, faults, disturbed>>
    BY DEF Unput, Idle, At
  <1>2. GivenUp(r) \in Places /\ ~Adds(Later(r, GivenUp(r)))
    BY AssetFacts, LaterIs DEF Places, Adds, GivenUp
  <1>3. ~Stage(request[r], r, product[Target[r]], Images(Target[r]), Models(Target[r]))
    BY <1>1 DEF Stage
  <1>4. QED
    BY <1>1, <1>2, <1>3, GoesKeepsTidy

-----------------------------------------------------------------------------
(* A new link, and the handlers that begin *)

LEMMA LaterBelongs ==
  ASSUME TidyInv, NEW r \in Request, NEW to \in Places
  PROVE  \A a \in Knows(Later(r, to)) : Belongs(a, Target[r])
  <1>1. Knows(Later(r, to)) \subseteq Knows(request[r]) \cup {None}
    BY LaterIs, AssetFacts
  <1>2. QED
    BY <1>1, KnownBelong

\* The new link is its product's, and there is room for it.
LEMMA LinkingWorks ==
  ASSUME TidyInv, NEW r \in Request, request[r].at = "link", NEW b \in BOOLEAN,
         link' = link \cup {NewLink(r, b)}, UNCHANGED <<product, disturbed>>,
         faults' = 0 => faults = 0, NEW c \in Call, request' = [request EXCEPT ![r] = c],
         \A a \in Knows(c) : Belongs(a, Target[r])
  PROVE  /\ Works(r, c)
         /\ Target[r] \notin disturbed => Cardinality(Of(Target[r], "IMAGE"))' <= ImageLimit
         /\ IF request[r].kind = "image"
              THEN /\ Images(Target[r])' = Images(Target[r]) \cup {r}
                   /\ Models(Target[r])' = Models(Target[r])
              ELSE /\ Images(Target[r])' = Images(Target[r])
                   /\ Models(Target[r])' = Models(Target[r]) \cup {r}
  <1> DEFINE me == request[r]
             p == Target[r]
             new == NewLink(r, b)
  <1>1. /\ new.asset = r /\ new.product = p /\ new.kind = KindOf(me.kind)
    BY NewLinkType, AssetFacts
  <1> HIDE DEF new
  <1>2. link' = link \cup {new}
    BY DEF new
  <1>3. \A l \in link : l.asset # r
    BY DEF TidyInv, CatalogInv, HiddenUnknown, Hides, Known, Listed
  <1>4. Works(r, c)
    <2>1. \A l \in Links : l.product # p => (l \in link' <=> l \in link)
      BY <1>1, <1>2
    <2>2. LinkedOnce'
      BY <1>1, <1>2, <1>3 DEF TidyInv, LinkedOnce
    <2>3. \A l \in link' : Belongs(l.asset, l.product)
      BY <1>1, <1>2, KnownBelong DEF Belongs
    <2>4. product' = product /\ Belongs(product'[p].model, p)
      BY KnownBelong
    <2>5. QED
      BY <2>1, <2>2, <2>3, <2>4 DEF Works
  <1>5. IF me.kind = "image"
          THEN /\ Of(p, "IMAGE")' = Of(p, "IMAGE") \cup {new} /\ Of(p, "MODEL")' = Of(p, "MODEL")
          ELSE /\ Of(p, "IMAGE")' = Of(p, "IMAGE")
               /\ Of(p, "MODEL")' = Of(p, "MODEL") \cup {new}
    BY <1>1, <1>2 DEF Of, KindOf
  <1>6. IF me.kind = "image"
          THEN Images(p)' = Images(p) \cup {r} /\ Models(p)' = Models(p)
          ELSE Images(p)' = Images(p) /\ Models(p)' = Models(p) \cup {r}
    BY <1>1, <1>5 DEF Images, Models
  <1>7. ASSUME p \notin disturbed PROVE Cardinality(Of(p, "IMAGE"))' <= ImageLimit
    <2>1. ~Idle(r)
      BY DEF Idle
    <2>2. CASE me.kind = "image"
      <3>1. new \notin Of(p, "IMAGE")
        BY <1>1, <1>3 DEF Of
      <3>2. Cardinality(Of(p, "IMAGE"))' = Cardinality(Of(p, "IMAGE")) + 1
        BY <1>5, <2>2, <3>1, AssetFacts, FS_AddElement
      <3>3. Cardinality(Of(p, "IMAGE")) < ImageLimit
        BY <1>7, <2>1, <2>2, UnderWay DEF Adds
      <3>4. QED
        BY <3>2, <3>3, AssetFacts
    <2>3. CASE me.kind # "image"
      BY <1>5, <1>7, <2>1, <2>3, UnderWay
    <2>4. QED
      BY <2>2, <2>3
  <1>8. QED
    BY <1>4, <1>6, <1>7

LEMMA LinkKeepsTidy ==
  ASSUME TidyInv, CatalogInv', NEW r \in Request, Link(r)
  PROVE  TidyInv'
  <1> DEFINE me == request[r]
             p == Target[r]
             row == product[p]
             I == Images(p)
             M == Models(p)
             shows == me.kind # "image" \/ me.seen.cover = None
             to == IF shows THEN "show" ELSE "done"
             c == Later(r, to)
  <1>1. /\ ~Idle(r) /\ me.at = "link" /\ UNCHANGED <<product, faults, disturbed>>
        /\ link' = link \cup {NewLink(r, TRUE)} /\ Goes(r, to)
    BY DEF Link, Idle, At
  <1>2. /\ to \in Places /\ c \in Call /\ c.at = to /\ ~Adds(c)
        /\ \A b \in Knows(c) : Belongs(b, p)
        /\ shows => c.kind = me.kind
    <2>1. to \in Places /\ to \notin {"put", "row", "link"} /\ (shows => to # "done")
      BY DEF Places
    <2> HIDE DEF to
    <2>2. /\ c \in Call /\ c.at = to /\ (shows => c.kind = me.kind)
      BY <2>1, LaterIs, AssetFacts
    <2>3. \A b \in Knows(c) : Belongs(b, p)
      BY <2>1, LaterBelongs
    <2>4. QED
      BY <2>1, <2>2, <2>3 DEF Adds
  <1>3. request' = [request EXCEPT ![r] = c]
    BY <1>1 DEF Goes, Later
  <1> HIDE DEF c
  <1>4. /\ Works(r, c)
        /\ p \notin disturbed => Cardinality(Of(p, "IMAGE"))' <= ImageLimit
        /\ IF me.kind = "image" THEN Images(p)' = I \cup {r} /\ Models(p)' = M
                                ELSE Images(p)' = I /\ Models(p)' = M \cup {r}
    BY <1>1, <1>2, <1>3, LinkingWorks
  <1>5. ASSUME p \notin disturbed' PROVE Settles(r, c)
    <2>1. ASSUME faults' = 0 PROVE Standing(c, r, product'[p], Images(p)', Models(p)')
      <3>1. /\ row.status \notin {"NEW", "GONE"} /\ CoverFits(row.cover, I)
            /\ IF me.kind = "image" THEN ModelFits(row.model, M) /\ me.seen.cover = row.cover
                                    ELSE M = {} /\ row.model = None
        BY <1>1, <1>5, <2>1, UnderWay DEF Stage
      <3>2. CASE me.kind # "image"
        BY <1>1, <1>2, <1>4, <3>1, <3>2 DEF Standing, Stage, Removing
      <3>3. CASE me.kind = "image" /\ me.seen.cover = None
        <4>1. I = {}
          BY <3>1, <3>3, AssetFacts DEF CoverFits
        <4>2. QED
          BY <1>1, <1>2, <1>4, <3>1, <3>3, <4>1 DEF Standing, Stage, Removing
      <3>4. CASE me.kind = "image" /\ me.seen.cover # None
        <4>1. CoverFits(row.cover, I \cup {r})
          BY <3>1, <3>4 DEF CoverFits
        <4>2. QED
          BY <1>1, <1>2, <1>4, <3>1, <3>4, <4>1 DEF Standing, Rests
      <3>5. QED
        BY <3>2, <3>3, <3>4
    <2>2. QED
      BY <1>1, <1>2, <1>4, <1>5, <2>1, UnderWay DEF Settles
  <1>6. QED
    BY <1>4, <1>5, StepKeepsTidy

\* A handler begins.
LEMMA BeginsKeepsTidy ==
  ASSUME TidyInv, CatalogInv', NEW r \in Request, NEW kind \in Kinds, NEW place \in Places,
         place \notin {"row", "link"}, kind = "image" => place # "put",
         NEW target \in Ref, Begins(r, kind, place, target), Belongs(target, Target[r]),
         UNCHANGED <<link, faults>>,
         \A q \in Product \ {Target[r]} : product'[q] = product[q],
         Belongs(product'[Target[r]].model, Target[r]),
         \A c \in Call :
           /\ c.at = place /\ c.kind = kind /\ c.target = target /\ c.seen = product[Target[r]]
           /\ c.todo = request[r].todo
           /\ Rests(product[Target[r]], Images(Target[r]), Models(Target[r]))
           => Standing(c, r, product'[Target[r]], Images(Target[r]), Models(Target[r]))
  PROVE  TidyInv'
  <1> DEFINE me == request[r]
             p == Target[r]
             c == Begun(me, place, kind, target, product[p])
  <1>1. /\ request' = [request EXCEPT ![r] = c] /\ At(r, "new")
    BY AssetFacts, BeginsCall
  <1>2. /\ c \in Call /\ c.at = place /\ c.kind = kind /\ c.target = target
        /\ c.seen = product[p] /\ c.todo = me.todo
    <2>1. me \in Call /\ product[p] \in Rows
      BY AssetFacts
    <2>2. QED
      BY <2>1 DEF Begun, Call
  <1> HIDE DEF c
  <1>3. \A a \in Knows(c) : Belongs(a, p)
    BY <1>2, KnownBelong DEF Knows
  <1>4. ~Adds(c)
    BY <1>2 DEF Adds
  <1>5. Works(r, c)
    <2>1. disturbed \subseteq disturbed'
      BY DEF Begins
    <2>2. QED
      BY <1>1, <1>2, <1>3, <2>1, KnownBelong DEF Works, TidyInv, LinkedOnce
  <1>6. ASSUME p \notin disturbed' PROVE Settles(r, c)
    <2>1. InFlight(p) = {} /\ p \notin disturbed
      BY <1>6 DEF Begins
    <2>2. Orderly(p)
      BY <2>1, AssetFacts DEF TidyInv
    <2>3. Of(p, "IMAGE")' = Of(p, "IMAGE") /\ Images(p)' = Images(p) /\ Models(p)' = Models(p)
      BY DEF Of, Images, Models
    <2>4. ASSUME faults' = 0 PROVE Standing(c, r, product'[p], Images(p)', Models(p)')
      BY <1>2, <2>1, <2>2, <2>3, <2>4 DEF Orderly, Staged
    <2>5. QED
      BY <1>4, <2>1, <2>2, <2>3, <2>4 DEF Settles, Orderly, Room
  <1>7. QED
    BY <1>5, <1>6, StepKeepsTidy

LEMMA LoadKeepsTidy ==
  ASSUME TidyInv, CatalogInv', NEW r \in Request, Load(r)
  PROVE  TidyInv'
  <1> DEFINE row == product[Target[r]]
             I == Images(Target[r])
             M == Models(Target[r])
  <1>1. PICK h \in Handlers(row.status) : Begins(r, h[1], h[2], None)
    BY DEF Load
  <1>2. UNCHANGED <<product, link, faults>> /\ product' = product
    BY DEF Load
  <1>3. /\ row.status \in {"DRAFT", "PUBLISHED", "OFF_SHELF"}
        /\ \/ h[1] \in {"image", "model", "publish"} /\ h[2] = "count"
           \/ h[1] \in {"publish", "offShelf"} /\ h[2] = "shift"
           \/ h[1] = "delete" /\ h[2] = "list"
    BY AssetFacts DEF Handlers, Rows, Statuses
  <1>4. h[1] \in Kinds /\ h[2] \in Places /\ None \in Ref /\ Belongs(None, Target[r])
    BY <1>3 DEF Kinds, Places, Ref, Belongs
  <1>5. ASSUME NEW c \in Call, c.at = h[2], c.kind = h[1], c.seen = row, Rests(row, I, M)
        PROVE  Standing(c, r, row, I, M)
    BY <1>3, <1>5 DEF Rests, Standing, Stage, Agrees, Removing
  <1>6. QED
    BY <1>1, <1>2, <1>3, <1>4, <1>5, KnownBelong, BeginsKeepsTidy

LEMMA RemoveAssetKeepsTidy ==
  ASSUME TidyInv, CatalogInv', NEW r \in Request, RemoveAsset(r)
  PROVE  TidyInv'
  <1> DEFINE p == Target[r]
             row == product[p]
             I == Images(p)
             M == Models(p)
  <1>1. PICK l \in link : l.product = p /\ Begins(r, "remove", "find", l.asset)
    BY DEF RemoveAsset
  <1>2. /\ UNCHANGED <<product, link, faults>> /\ product' = product
        /\ row.status \notin {"NEW", "GONE"}
    BY DEF RemoveAsset, Exists
  <1>3. /\ l.asset \in Ref /\ l.asset # None /\ l.asset \in I \cup M /\ Belongs(l.asset, p)
    BY <1>1, AssetFacts, KnownBelong DEF Links, Ref, Images, Models, Of
  <1>4. "remove" \in Kinds /\ "find" \in Places
    BY DEF Kinds, Places
  <1>5. ASSUME NEW c \in Call, c.at = "find", c.kind = "remove", c.target = l.asset,
               c.seen = row, Rests(row, I, M)
        PROVE  Standing(c, r, row, I, M)
    BY <1>2, <1>3, <1>5 DEF Rests, Standing, Stage, Removes, Follows, Removing
  <1>6. QED
    BY <1>1, <1>2, <1>3, <1>4, <1>5, KnownBelong, BeginsKeepsTidy

LEMMA CreateKeepsTidy ==
  ASSUME TidyInv, CatalogInv', NEW r \in Request, Create(r)
  PROVE  TidyInv'
  <1> DEFINE p == Target[r]
             I == Images(p)
             M == Models(p)
  <1>1. /\ product[p].status = "NEW" /\ At(r, "new") /\ UNCHANGED <<link, faults>>
        /\ product' = [product EXCEPT ![p].status = "DRAFT"]
    BY DEF Create
  <1>2. /\ \A q \in Product \ {p} : product'[q] = product[q]
        /\ product'[p].cover = product[p].cover /\ product'[p].model = product[p].model
        /\ product'[p].status = "DRAFT"
    BY <1>1, AssetFacts DEF Rows, CatalogInv, CatalogTypeOK
  <1>3. Belongs(product'[p].model, p)
    BY <1>2, KnownBelong
  <1>4. ASSUME Rests(product[p], I, M)
        PROVE  /\ I = {} /\ M = {} /\ product'[p].cover = None /\ product'[p].model = None
    BY <1>1, <1>2, <1>4 DEF Rests, CoverFits, ModelFits
  <1>5. CASE Goes(r, "done") /\ UNCHANGED disturbed
    <2> DEFINE c == Later(r, "done")
    <2>1. /\ request' = [request EXCEPT ![r] = c]
          /\ c \in Call /\ c.at = "done" /\ \A a \in Knows(c) : Belongs(a, p)
      <3>1. "done" \in Places
        BY DEF Places
      <3>2. request' = [request EXCEPT ![r] = c]
        BY <1>5 DEF Goes, Later
      <3>3. QED
        BY <3>1, <3>2, LaterIs, LaterBelongs, AssetFacts
    <2> HIDE DEF c
    <2>2. Works(r, c)
      BY <1>1, <1>2, <1>3, <1>5, <2>1, KnownBelong DEF Works, TidyInv, LinkedOnce
    <2>3. ASSUME p \notin disturbed' PROVE Settles(r, c)
      <3>1. Orderly(p)
        BY <1>5, <2>3, AssetFacts DEF TidyInv
      <3>2. Of(p, "IMAGE")' = Of(p, "IMAGE") /\ Images(p)' = Images(p) /\ Models(p)' = Models(p)
        BY <1>1 DEF Of, Images, Models
      <3>3. ASSUME faults' = 0
            PROVE  /\ InFlight(p) = {}
                   /\ Standing(c, r, product'[p], Images(p)', Models(p)')
        <4>1. InFlight(p) = {}
          BY <1>1, <3>1, <3>3 DEF Orderly, Staged, Stage
        <4>2. Rests(product[p], I, M)
          BY <1>1, <3>1, <3>3, <4>1 DEF Orderly, Staged
        <4>3. QED
          BY <1>2, <1>4, <2>1, <3>2, <4>1, <4>2 DEF Standing, Rests, CoverFits, ModelFits
      <3>4. QED
        BY <1>1, <2>1, <3>1, <3>2, <3>3 DEF Settles, Orderly, Room, Adds
    <2>4. QED
      BY <2>2, <2>3, StepKeepsTidy
  <1>6. ASSUME NEW place \in {"put", "drop"}, Begins(r, "create", place, None)
        PROVE  TidyInv'
    <2>1. /\ "create" \in Kinds /\ place \in Places /\ None \in Ref /\ Belongs(None, p)
      BY DEF Kinds, Places, Ref, Belongs
    <2>2. ASSUME NEW c \in Call, c.at = place, c.seen = product[p], Rests(product[p], I, M)
          PROVE  Standing(c, r, product'[p], I, M)
      BY <1>2, <1>4, <2>2 DEF Standing, Stage, Agrees, CoverFits, ModelFits, Removing
    <2>3. "create" # "image" /\ place \notin {"row", "link"}
      OBVIOUS
    <2>4. QED
      BY <1>1, <1>2, <1>3, <1>6, <2>1, <2>2, <2>3, BeginsKeepsTidy
  <1>7. QED
    BY <1>5, <1>6 DEF Create

-----------------------------------------------------------------------------
(* Failures, the administrator, and the theorem *)

LEMMA AdminOffShelfKeepsTidy ==
  ASSUME TidyInv, CatalogInv', NEW p \in Product, AdminOffShelf(p)
  PROVE  TidyInv'
  <1>1. /\ UNCHANGED <<link, request, faults>> /\ disturbed \subseteq disturbed'
        /\ \A q \in Product \ {p} : product'[q] = product[q]
        /\ product[p].status = "PUBLISHED" /\ product'[p].status = "OFF_SHELF"
        /\ product'[p].cover = product[p].cover /\ product'[p].model = product[p].model
    BY DEF AdminOffShelf, TidyInv, CatalogInv, CatalogTypeOK, Rows
  <1>2. LinkedOnce' /\ OwnAssets'
    <2>1. \A q \in Product : product'[q].model = product[q].model
      BY <1>1
    <2>2. QED
      BY <1>1, <2>1 DEF TidyInv, LinkedOnce, OwnAssets, Belongs, Knows
  <1>3. ASSUME NEW q \in Product \ disturbed' PROVE Orderly(q)'
    <2>1. Orderly(q)
      BY <1>1, <1>3 DEF TidyInv
    <2>2. /\ Of(q, "IMAGE")' = Of(q, "IMAGE") /\ Of(q, "MODEL")' = Of(q, "MODEL")
          /\ Images(q)' = Images(q) /\ Models(q)' = Models(q) /\ InFlight(q)' = InFlight(q)
      BY <1>1 DEF Of, Images, Models, InFlight, Idle, At
    <2>3. CASE q # p
      <3>1. \A kind \in {"IMAGE", "MODEL"} : Of(q, kind)' = Of(q, kind)
        BY <2>2
      <3>2. QED
        BY <1>1, <1>3, <2>1, <2>3, <3>1, OrderlyElsewhere
    <2>4. CASE q = p
      <3>1. InFlight(p) = {}
        BY <1>3, <2>4 DEF AdminOffShelf
      <3>2. Alone(p)' /\ Room(p)'
        BY <2>1, <2>2, <2>4, <3>1 DEF Orderly, Alone, Room
      <3>3. ASSUME faults' = 0 PROVE Staged(p)'
        BY <1>1, <2>1, <2>2, <2>4, <3>1, <3>3 DEF Orderly, Staged, Rests
      <3>4. QED
        BY <2>4, <3>2, <3>3 DEF Orderly
    <2>5. QED
      BY <2>3, <2>4
  <1>4. QED
    BY <1>2, <1>3 DEF TidyInv

\* A statement that fails leaves a product of which only the limit is known.
LEMMA FaultKeepsTidy ==
  ASSUME TidyInv, CatalogInv', NEW r \in Request, ~Idle(r), NEW c \in Call,
         request' = [request EXCEPT ![r] = c], UNCHANGED <<link, disturbed>>,
         \A q \in Product \ {Target[r]} : product'[q] = product[q],
         Belongs(product'[Target[r]].model, Target[r]),
         faults' # 0, \A a \in Knows(c) : Belongs(a, Target[r]), ~Adds(c)
  PROVE  TidyInv'
  <1>1. Works(r, c)
    BY KnownBelong DEF Works, TidyInv, LinkedOnce
  <1>2. ASSUME Target[r] \notin disturbed' PROVE Settles(r, c)
    <2>1. Of(Target[r], "IMAGE")' = Of(Target[r], "IMAGE")
      BY DEF Of
    <2>2. QED
      BY <1>2, <2>1, UnderWay DEF Settles
  <1>3. QED
    BY <1>1, <1>2, StepKeepsTidy

LEMMA AbortsBelong ==
  ASSUME TidyInv, NEW r \in Request, NEW c, AbortsAs(r, c)
  PROVE  (\A a \in Knows(c) : Belongs(a, Target[r])) /\ ~Adds(c)
  <1>1. Knows(c) \subseteq Knows(request[r]) \cup {r, None}
    BY DEF AbortsAs
  <1>2. QED
    BY <1>1, KnownBelong DEF AbortsAs, Belongs, Adds

LEMMA FailsKeepsTidy ==
  ASSUME TidyInv, CatalogInv', NEW r \in Request, Fails(r)
  PROVE  TidyInv'
  <1>1. /\ ~Idle(r) /\ UNCHANGED <<product, link, disturbed>> /\ faults' = faults + 1
        /\ Aborts(r)
    BY DEF Fails
  <1>2. faults' # 0
    BY <1>1, CatalogConstantsOK DEF TidyInv, CatalogInv, CatalogTypeOK
  <1>3. PICK c : AbortsAs(r, c)
    BY <1>1, AbortsSomehow, AssetFacts
  <1>4. c \in Call /\ request' = [request EXCEPT ![r] = c]
    BY <1>3 DEF AbortsAs
  <1>5. product' = product /\ Belongs(product'[Target[r]].model, Target[r])
    BY <1>1, KnownBelong
  <1>6. QED
    BY <1>1, <1>2, <1>3, <1>4, <1>5, AbortsBelong, FaultKeepsTidy

LEMMA FailsLateKeepsTidy ==
  ASSUME TidyInv, CatalogInv', NEW r \in Request, FailsLate(r)
  PROVE  TidyInv'
  <1>1. /\ ~Idle(r) /\ UNCHANGED disturbed /\ faults' = faults + 1 /\ Aborts(r)
    BY DEF FailsLate, At, Idle
  <1>2. faults' # 0
    BY <1>1, CatalogConstantsOK DEF TidyInv, CatalogInv, CatalogTypeOK
  <1>3. PICK c : AbortsAs(r, c)
    BY <1>1, AbortsSomehow, AssetFacts
  <1>4. /\ c \in Call /\ request' = [request EXCEPT ![r] = c]
        /\ \A a \in Knows(c) : Belongs(a, Target[r])
        /\ ~Adds(c)
    BY <1>3, AbortsBelong DEF AbortsAs
  <1>5. CASE At(r, "link") /\ link' = link \cup {NewLink(r, FALSE)} /\ UNCHANGED product
    <2>1. /\ Works(r, c)
          /\ Target[r] \notin disturbed => Cardinality(Of(Target[r], "IMAGE"))' <= ImageLimit
      BY <1>1, <1>2, <1>4, <1>5, LinkingWorks DEF At
    <2>2. Target[r] \notin disturbed' => Settles(r, c)
      BY <1>1, <1>2, <1>4, <2>1, UnderWay DEF Settles
    <2>3. QED
      BY <2>1, <2>2, StepKeepsTidy
  <1>6. CASE UNCHANGED <<product, link>>
    <2>1. product' = product /\ Belongs(product'[Target[r]].model, Target[r])
      BY <1>6, KnownBelong
    <2>2. QED
      BY <1>1, <1>2, <1>4, <1>6, <2>1, FaultKeepsTidy
  <1>7. CASE Updates(Target[r], [product[Target[r]] EXCEPT !.model = r]) /\ UNCHANGED link
    <2> DEFINE row == [product[Target[r]] EXCEPT !.model = r]
    <2>1. row.model = r
      BY AssetFacts DEF Rows
    <2> HIDE DEF row
    <2>2. Updates(Target[r], row) /\ Belongs(row.model, Target[r])
      BY <1>7, <2>1 DEF Belongs, row
    <2>3. /\ \A q \in Product \ {Target[r]} : product'[q] = product[q]
          /\ Belongs(product'[Target[r]].model, Target[r])
      BY <2>2, UpdateOfRow
    <2>4. QED
      BY <1>1, <1>2, <1>4, <1>7, <2>3, FaultKeepsTidy
  <1>8. QED
    BY <1>5, <1>6, <1>7 DEF FailsLate

LEMMA CrashKeepsTidy ==
  ASSUME TidyInv, CatalogInv', Crash
  PROVE  TidyInv'
  <1>1. /\ UNCHANGED <<product, link, disturbed>>
        /\ \A r \in Request : request'[r] = IF Idle(r) THEN request[r] ELSE Resting("done")
    BY DEF Crash
  <1>2. faults' # 0
    BY CatalogConstantsOK DEF Crash, TidyInv, CatalogInv, CatalogTypeOK
  <1>3. OwnAssets'
    <2>1. Knows(Resting("done")) = {None}
      BY DEF Knows, Resting, NewRow
    <2>2. \A r \in Request : \A a \in Knows(request'[r]) : Belongs(a, Target[r])
      BY <1>1, <2>1, KnownBelong
    <2>3. QED
      BY <1>1, <2>2 DEF TidyInv, OwnAssets, Belongs, Knows
  <1>4. ASSUME NEW p \in Product \ disturbed' PROVE Orderly(p)'
    <2>1. InFlight(p)' = {}
      BY <1>1 DEF InFlight, Idle, At, Resting
    <2>2. Of(p, "IMAGE")' = Of(p, "IMAGE") /\ Orderly(p)
      BY <1>1, <1>4 DEF Of, TidyInv
    <2>3. QED
      BY <1>2, <2>1, <2>2 DEF Orderly, Alone, Room
  <1>5. QED
    BY <1>1, <1>3, <1>4 DEF TidyInv, LinkedOnce

LEMMA InitTidyInv == Init => TidyInv
  <1> SUFFICES ASSUME Init PROVE TidyInv
    OBVIOUS
  <1>1. CatalogInv /\ link = {} /\ disturbed = {}
    BY InitCatalogInv DEF Init
  <1>2. \A p \in Product : product[p].model = None /\ product[p].cover = None
    BY DEF Init, NewRow
  <1>3. \A r \in Request : Knows(request[r]) = {None} /\ request[r].at = "new"
    BY DEF Init, Resting, NewRow, Knows
  <1>4. LinkedOnce /\ OwnAssets
    BY <1>1, <1>2, <1>3 DEF LinkedOnce, OwnAssets, Belongs
  <1>5. ASSUME NEW p \in Product PROVE Orderly(p)
    <2>1. InFlight(p) = {} /\ Of(p, "IMAGE") = {} /\ Of(p, "MODEL") = {}
      BY <1>1, <1>3 DEF InFlight, Idle, At, Of
    <2>2. Cardinality(Of(p, "IMAGE")) = 0
      BY <2>1, FS_EmptySet
    <2>3. Rests(product[p], Images(p), Models(p))
      BY <1>2, <2>1 DEF Rests, CoverFits, ModelFits, Images, Models
    <2>4. QED
      BY <2>1, <2>2, <2>3, CatalogConstantsOK DEF Orderly, Alone, Room, Staged
  <1>6. QED
    BY <1>1, <1>4, <1>5 DEF TidyInv

LEMMA NextKeepsTidyInv == TidyInv /\ [Next]_catalogVars => TidyInv'
  <1> SUFFICES ASSUME TidyInv, [Next]_catalogVars PROVE TidyInv'
    OBVIOUS
  <1>1. CatalogInv'
    BY NextKeepsCatalogInv DEF TidyInv
  <1>2. ASSUME NEW r \in Request, Create(r) \/ Load(r) \/ RemoveAsset(r)
        PROVE  TidyInv'
    BY <1>1, <1>2, CreateKeepsTidy, LoadKeepsTidy, RemoveAssetKeepsTidy
  <1>3. ASSUME NEW r \in Request,
               Count(r) \/ Shift(r) \/ PutObject(r) \/ PutRow(r) \/ Link(r) \/ Show(r)
        PROVE  TidyInv'
    BY <1>1, <1>3, CountKeepsTidy, ShiftKeepsTidy, PutObjectKeepsTidy, PutRowKeepsTidy,
       LinkKeepsTidy, ShowKeepsTidy
  <1>4. ASSUME NEW r \in Request, List(r) \/ Each(r) \/ Drop(r)
        PROVE  TidyInv'
    BY <1>1, <1>4, ListKeepsTidy, EachKeepsTidy, DropKeepsTidy
  <1>5. ASSUME NEW r \in Request,
               Find(r) \/ Unlink(r) \/ NextCover(r) \/ Point(r) \/ Erase(r) \/ Wipe(r)
        PROVE  TidyInv'
    BY <1>1, <1>5, FindKeepsTidy, UnlinkKeepsTidy, NextCoverKeepsTidy, PointKeepsTidy,
       EraseKeepsTidy, WipeKeepsTidy
  <1>6. ASSUME NEW r \in Request, Fails(r) \/ FailsLate(r) \/ Undo(r) \/ Unput(r)
        PROVE  TidyInv'
    BY <1>1, <1>6, FailsKeepsTidy, FailsLateKeepsTidy, UndoKeepsTidy, UnputKeepsTidy
  <1>7. ASSUME NEW p \in Product, AdminOffShelf(p)
        PROVE  TidyInv'
    BY <1>1, <1>7, AdminOffShelfKeepsTidy
  <1>8. CASE Crash
    BY <1>1, <1>8, CrashKeepsTidy
  <1>9. CASE UNCHANGED catalogVars
    <2>1. /\ \A p \in Product : Of(p, "IMAGE")' = Of(p, "IMAGE")
          /\ \A p \in Product : Of(p, "MODEL")' = Of(p, "MODEL")
          /\ \A p \in Product : InFlight(p)' = InFlight(p)
      BY <1>9 DEF catalogVars, Of, InFlight, Idle, At
    <2>2. ASSUME NEW p \in Product \ disturbed' PROVE Orderly(p)'
      BY <1>9, <2>1, <2>2
      DEF catalogVars, TidyInv, Orderly, Alone, Room, Staged, Images, Models
    <2>3. LinkedOnce' /\ OwnAssets'
      BY <1>9 DEF catalogVars, TidyInv, LinkedOnce, OwnAssets
    <2>4. QED
      BY <1>1, <2>2, <2>3 DEF TidyInv
  <1>10. QED
    BY <1>2, <1>3, <1>4, <1>5, <1>6, <1>7, <1>8, <1>9 DEF Next

\* The invariant holds in every state the catalog can reach.
THEOREM CatalogInvariance == Spec => []CatalogInv
  <1>1. TidyInv => CatalogInv
    BY DEF TidyInv
  <1>2. QED
    BY <1>1, InitTidyInv, NextKeepsTidyInv, PTL DEF Spec

\* Products, links, assets and requests stay in their types, and removeAsset
\* always has an asset to remove.
THEOREM CatalogTypeCorrect == Spec => []CatalogTypeOK
  <1>1. CatalogInv => CatalogTypeOK
    BY DEF CatalogInv
  <1>2. QED
    BY <1>1, CatalogInvariance, PTL

\* Whatever is listed with a product can be opened, however many requests
\* interleave and fail (catalog.go, uploadImage to removeAsset).  Only a link whose
\* insert was taken for failed can outlive its asset, and that has no row to list.
THEOREM ListedAssetsOpen == Spec => []ListedOpens
  <1>1. CatalogInv => ListedOpens
    BY DEF CatalogInv
  <1>2. QED
    BY <1>1, CatalogInvariance, PTL

\* Without failures no object is lost track of: each is listed, or its request is
\* still to list it, or a request is removing it (catalog.go, removeAsset).
THEOREM NoObjectLost == Spec => []ObjectsAccounted
  <1>1. Init => Accounted
    BY DEF Init, Accounted, ListedOrHeld, WithRow, NothingUndone, Resting
  <1>2. Spec => []Accounted
    BY <1>1, NextAccounts, CatalogInvariance, PTL DEF Spec
  <1>3. CatalogInv /\ Accounted => ObjectsAccounted
    <2>1. SUFFICES ASSUME CatalogInv, Accounted, faults = 0, NEW a \in object, ~Listed(a)
                   PROVE  \E r \in Request : Holds(r, a)
      BY DEF ObjectsAccounted, Listed
    <2>2. PICK r \in Request : HoldsAs(request[r], r, a)
      BY <2>1 DEF Accounted, ListedOrHeld
    <2>3. QED
      BY <2>2 DEF HoldsAs, Holds, Keeps
  <1>4. QED
    BY <1>2, <1>3, CatalogInvariance, PTL

\* A product whose requests come one after another keeps the image limit, and
\* as long as nothing fails its cover and its model are among its assets
\* (catalog.go, uploadImage, uploadModel, removeAsset and delete).
THEOREM TidyProducts == Spec => []TidyUnlessDisturbed
  <1>1. TidyInv => TidyUnlessDisturbed
    <2> SUFFICES ASSUME TidyInv, NEW p \in Product \ disturbed
                 PROVE  /\ Cardinality(Of(p, "IMAGE")) <= ImageLimit
                        /\ faults = 0 /\ InFlight(p) = {} => Tidy(p)
      BY DEF TidyUnlessDisturbed
    <2>1. Orderly(p)
      BY DEF TidyInv
    <2>2. Rests(product[p], Images(p), Models(p)) => Tidy(p)
      BY DEF Rests, CoverFits, ModelFits, Tidy, Images, Models, Exists
    <2>3. QED
      BY <2>1, <2>2 DEF Orderly, Room, Staged
  <1>2. QED
    BY <1>1, InitTidyInv, NextKeepsTidyInv, PTL DEF Spec

-----------------------------------------------------------------------------
(***************************************************************************)
(* ChecksHoldUnlessDisturbed.  Between its check and its last statement a  *)
(* handler that is alone with its product finds it as it was: create and   *)
(* delete work on a draft, and publish has seen an image (Checked).  Which *)
(* handlers get to delete and to change the status is known of every       *)
(* request (Placed).                                                       *)
(***************************************************************************)
Placed(c) ==
  /\ c.at = "drop" => c.kind \in {"create", "delete"}
  /\ c.at = "shift" => c.kind \in {"publish", "offShelf"}

Checked(c, status, I) ==
  /\ c.kind \in {"create", "delete"} => status = "DRAFT"
  /\ c.at = "shift" /\ c.seen.status = "DRAFT" => I # {}

CheckedOf(r) == Checked(request[r], product[Target[r]].status, Of(Target[r], "IMAGE"))

ChecksInv ==
  /\ \A r \in Request : Placed(request[r])
  /\ \A r \in Request : ~Idle(r) /\ Target[r] \notin disturbed => CheckedOf(r)

\* A step of one request that leaves the other products as they are.
LEMMA StepKeepsChecks ==
  ASSUME TidyInv, ChecksInv, NEW r \in Request, NEW c,
         request' = [request EXCEPT ![r] = c],
         disturbed \subseteq disturbed',
         \A q \in Product \ {Target[r]} :
           product'[q].status = product[q].status /\ Of(q, "IMAGE")' = Of(q, "IMAGE"),
         Placed(c),
         Target[r] \notin disturbed' =>
           /\ \/ InFlight(Target[r]) \subseteq {r}
              \/ product'[Target[r]].status = "DRAFT" /\ link' = link
           /\ c.at \notin {"new", "done"} =>
                Checked(c, product'[Target[r]].status, Of(Target[r], "IMAGE")')
  PROVE  ChecksInv'
  <1>1. request' \in [Request -> {c} \cup Call] /\ request'[r] = c
        /\ \A s \in Request \ {r} : request'[s] = request[s]
    BY AssetFacts, CallOf
  <1>2. \A s \in Request : Placed(request'[s])
    BY <1>1 DEF ChecksInv
  <1>3. ASSUME NEW s \in Request, ~Idle(s)', Target[s] \notin disturbed'
        PROVE  CheckedOf(s)'
    <2>1. CASE s = r
      BY <1>1, <1>3, <2>1 DEF CheckedOf, Idle
    <2>2. CASE s # r
      <3>1. request'[s] = request[s] /\ ~Idle(s) /\ Target[s] \in Product
        BY <1>1, <1>3, <2>2, CatalogConstantsOK DEF Idle
      <3>2. CheckedOf(s)
        BY <1>3, <3>1 DEF ChecksInv
      <3>3. CASE Target[s] # Target[r]
        BY <3>1, <3>2, <3>3 DEF CheckedOf
      <3>4. CASE Target[s] = Target[r]
        <4>1. s \in InFlight(Target[r])
          BY <3>1, <3>4 DEF InFlight
        <4>2. product'[Target[r]].status = "DRAFT" /\ link' = link
          BY <1>3, <2>2, <3>4, <4>1
        <4>3. Of(Target[r], "IMAGE")' = Of(Target[r], "IMAGE")
          BY <4>2 DEF Of
        <4>4. QED
          BY <3>1, <3>2, <3>4, <4>2, <4>3 DEF CheckedOf, Checked
      <3>5. QED
        BY <3>3, <3>4
    <2>3. QED
      BY <2>1, <2>2
  <1>4. QED
    BY <1>2, <1>3 DEF ChecksInv

\* What a request does to links it does to its own product's.
LEMMA LinksElsewhere ==
  ASSUME TidyInv, NEW r \in Request, NEW q \in Product \ {Target[r]},
         \/ link' = link
         \/ \E a : link' = link \ LinkOf(Target[r], a)
         \/ link' = {l \in link : l.asset # r}
  PROVE  Of(q, "IMAGE")' = Of(q, "IMAGE")
  <1>1. CASE link' = link
    BY <1>1 DEF Of
  <1>2. ASSUME NEW a, link' = link \ LinkOf(Target[r], a)
        PROVE  Of(q, "IMAGE")' = Of(q, "IMAGE")
    BY <1>2 DEF Of, LinkOf
  <1>3. CASE link' = {l \in link : l.asset # r}
    <2>1. \A l \in link : l.asset = r => l.product = Target[r]
      BY KnownBelong, AssetFacts DEF Belongs
    <2>2. QED
      BY <1>3, <2>1 DEF Of
  <1>4. QED
    BY <1>1, <1>2, <1>3

LEMMA LinkingElsewhere ==
  ASSUME CatalogInv, NEW r \in Request, NEW q \in Product \ {Target[r]}, NEW b \in BOOLEAN,
         link' = link \cup {NewLink(r, b)}
  PROVE  Of(q, "IMAGE")' = Of(q, "IMAGE")
  <1>1. NewLink(r, b).product = Target[r]
    BY NewLinkType
  <1>2. QED
    BY <1>1 DEF Of

\* A step in the middle of a handler: no status changes, and the handler gets
\* neither to its deletion nor to its change of the status but on its way there.
LEMMA MiddleKeepsChecks ==
  ASSUME TidyInv, ChecksInv, NEW r \in Request, ~Idle(r), NEW c,
         request' = [request EXCEPT ![r] = c], UNCHANGED disturbed,
         \A q \in Product : product'[q].status = product[q].status,
         \A q \in Product \ {Target[r]} : Of(q, "IMAGE")' = Of(q, "IMAGE"),
         c.at # "done" => /\ c.kind = request[r].kind /\ c.at # "shift"
                          /\ c.at = "drop" => c.kind \in {"create", "delete"},
         c.at = "done" => c.kind = "create"
  PROVE  ChecksInv'
  <1>1. Target[r] \in Product
    BY CatalogConstantsOK
  <1>2. Placed(c)
    BY DEF Placed
  <1>3. ASSUME Target[r] \notin disturbed'
        PROVE  /\ InFlight(Target[r]) \subseteq {r}
               /\ c.at \notin {"new", "done"} =>
                    Checked(c, product'[Target[r]].status, Of(Target[r], "IMAGE")')
    <2>1. InFlight(Target[r]) = {r} /\ CheckedOf(r)
      BY <1>3, UnderWay DEF ChecksInv
    <2>2. QED
      BY <1>1, <2>1 DEF CheckedOf, Checked
  <1>4. QED
    BY <1>2, <1>3, StepKeepsChecks

\* Where the statements in the middle of a handler lead.
LEMMA LaterChecks ==
  ASSUME TidyInv, ChecksInv, NEW r \in Request, ~Idle(r), NEW to \in Places \ {"shift"},
         Goes(r, to), UNCHANGED disturbed,
         \A q \in Product : product'[q].status = product[q].status,
         \A q \in Product \ {Target[r]} : Of(q, "IMAGE")' = Of(q, "IMAGE"),
         to = "drop" => request[r].kind \in {"create", "delete"}
  PROVE  ChecksInv'
  <1>1. CatalogInv
    BY DEF TidyInv
  <1>2. request' = [request EXCEPT ![r] = Later(r, to)]
    BY DEF Goes, Later
  <1>3. /\ Later(r, to).at = to
        /\ to # "done" => Later(r, to).kind = request[r].kind
        /\ to = "done" => Later(r, to).kind = "create"
    BY <1>1, LaterFields DEF Later, Resting
  <1>4. QED
    BY <1>2, <1>3, MiddleKeepsChecks

LEMMA RowsKept ==
  ASSUME TidyInv, NEW r \in Request, NEW row, Updates(Target[r], row),
         row.status = product[Target[r]].status
  PROVE  \A q \in Product : product'[q].status = product[q].status
  BY AssetFacts DEF Updates, CatalogInv, CatalogTypeOK

LEMMA BeginsKeepsChecks ==
  ASSUME TidyInv, ChecksInv, NEW r \in Request, NEW kind \in Kinds, NEW place \in Places,
         NEW target \in Ref, Begins(r, kind, place, target), link' = link,
         \A q \in Product \ {Target[r]} : product'[q].status = product[q].status,
         InFlight(Target[r]) = {} /\ kind \in {"create", "delete"}
           => product'[Target[r]].status = "DRAFT",
         place = "drop" => kind \in {"create", "delete"},
         place = "shift" => /\ kind \in {"publish", "offShelf"}
                            /\ product[Target[r]].status # "DRAFT"
  PROVE  ChecksInv'
  <1> DEFINE c == Begun(request[r], place, kind, target, product[Target[r]])
  <1>1. /\ request' = [request EXCEPT ![r] = c] /\ Target[r] \in Product
        /\ request[r] \in Call /\ product[Target[r]] \in Rows
    BY BeginsCall, AssetFacts
  <1>2. c.at = place /\ c.kind = kind /\ c.seen = product[Target[r]]
    BY <1>1 DEF Begun, Call
  <1> HIDE DEF c
  <1>3. disturbed \subseteq disturbed'
        /\ (Target[r] \notin disturbed' => InFlight(Target[r]) = {})
    BY DEF Begins
  <1>4. \A q \in Product : Of(q, "IMAGE")' = Of(q, "IMAGE")
    BY DEF Of
  <1>5. Placed(c)
    BY <1>2 DEF Placed
  <1>6. ASSUME InFlight(Target[r]) = {}
        PROVE  Checked(c, product'[Target[r]].status, Of(Target[r], "IMAGE")')
    BY <1>2, <1>6 DEF Checked
  <1>7. QED
    BY <1>1, <1>3, <1>4, <1>5, <1>6, StepKeepsChecks

LEMMA FirstKeepsChecks ==
  ASSUME TidyInv, ChecksInv, NEW r \in Request, Create(r) \/ Load(r) \/ RemoveAsset(r)
  PROVE  ChecksInv'
  <1>1. /\ product \in [Product -> Rows] /\ Target[r] \in Product /\ request[r] \in Call
        /\ None \in Ref
    BY AssetFacts DEF CatalogInv, CatalogTypeOK, Ref
  <1>2. CASE Create(r)
    <2>1. /\ product' = [product EXCEPT ![Target[r]].status = "DRAFT"]
          /\ link' = link
      BY <1>2 DEF Create
    <2>2. /\ product'[Target[r]].status = "DRAFT"
          /\ \A q \in Product \ {Target[r]} : product'[q].status = product[q].status
      BY <1>1, <2>1 DEF Rows
    <2>3. CASE Goes(r, "done") /\ UNCHANGED disturbed
      <3>1. request' = [request EXCEPT ![r] = Resting("done")]
        BY <2>3 DEF Goes
      <3>2. Resting("done").at = "done" /\ Placed(Resting("done"))
        BY DEF Resting, Placed
      <3>3. \A q \in Product : Of(q, "IMAGE")' = Of(q, "IMAGE")
        BY <2>1 DEF Of
      <3>4. QED
        BY <2>1, <2>2, <2>3, <3>1, <3>2, <3>3, StepKeepsChecks
    <2>4. ASSUME NEW place \in {"put", "drop"}, Begins(r, "create", place, None)
          PROVE  ChecksInv'
      <3>1. place \in Places /\ "create" \in Kinds /\ place # "shift"
        BY DEF Places, Kinds
      <3>2. QED
        BY <1>1, <2>1, <2>2, <2>4, <3>1, BeginsKeepsChecks
    <2>5. QED
      BY <1>2, <2>3, <2>4 DEF Create
  <1>3. CASE Load(r)
    <2>1. PICK h \in Handlers(product[Target[r]].status) : Begins(r, h[1], h[2], None)
      BY <1>3 DEF Load
    <2>2. UNCHANGED <<product, link>>
      BY <1>3 DEF Load
    <2>3. /\ h[1] \in Kinds /\ h[2] \in Places /\ h[2] # "drop" /\ h[1] # "create"
          /\ h[1] = "delete" => product[Target[r]].status = "DRAFT"
          /\ h[2] = "shift" => /\ h[1] \in {"publish", "offShelf"}
                               /\ product[Target[r]].status # "DRAFT"
      BY <2>1 DEF Handlers, Kinds, Places
    <2>4. QED
      BY <1>1, <2>1, <2>2, <2>3, BeginsKeepsChecks
  <1>4. CASE RemoveAsset(r)
    <2>1. PICK l \in link : Begins(r, "remove", "find", l.asset)
      BY <1>4 DEF RemoveAsset
    <2>2. UNCHANGED <<product, link>> /\ l.asset \in Ref
      BY <1>4, AssetFacts DEF RemoveAsset, Links, Ref
    <2>3. "remove" \in Kinds /\ "find" \in Places
      BY DEF Kinds, Places
    <2>4. QED
      BY <1>1, <2>1, <2>2, <2>3, BeginsKeepsChecks
  <1>5. QED
    BY <1>2, <1>3, <1>4

\* publish gets on to the change of the status with an image.
LEMMA CountKeepsChecks ==
  ASSUME TidyInv, ChecksInv, NEW r \in Request, Count(r)
  PROVE  ChecksInv'
  <1> DEFINE p == Target[r]
             me == request[r]
  <1>1. /\ ~Idle(r) /\ UNCHANGED <<product, link, disturbed>> /\ me \in Call
        /\ p \in Product /\ CatalogInv
    BY AssetFacts DEF Count, At, Idle
  <1>2. \A q \in Product : /\ product'[q].status = product[q].status
                           /\ Of(q, "IMAGE")' = Of(q, "IMAGE")
    BY <1>1 DEF Of
  <1>3. CASE Goes(r, "done")
    BY <1>1, <1>2, <1>3, LaterChecks DEF Places
  <1>4. CASE me.kind = "publish" /\ Of(p, "IMAGE") # {} /\ Goes(r, "shift")
    <2>1. request' = [request EXCEPT ![r] = Later(r, "shift")] /\ "shift" \in Places
      BY <1>4 DEF Goes, Later, Places
    <2>2. Later(r, "shift").at = "shift" /\ Later(r, "shift").kind = "publish"
      BY <1>1, <1>4, <2>1, LaterFields
    <2>3. Placed(Later(r, "shift"))
      BY <2>2 DEF Placed
    <2>4. Checked(Later(r, "shift"), product'[p].status, Of(p, "IMAGE")')
      BY <1>1, <1>2, <1>4, <2>2 DEF Checked
    <2>5. p \notin disturbed' => InFlight(p) \subseteq {r}
      BY <1>1, UnderWay
    <2>6. QED
      BY <1>1, <1>2, <2>1, <2>3, <2>4, <2>5, StepKeepsChecks
  <1>5. ASSUME NEW n, request' = [request EXCEPT ![r].at = "put", ![r].count = n]
        PROVE  ChecksInv'
    <2> DEFINE c == [me EXCEPT !.at = "put", !.count = n]
    <2>1. request' = [request EXCEPT ![r] = c] /\ c.at = "put" /\ c.kind = me.kind
      BY <1>1, <1>5 DEF Call
    <2> HIDE DEF c
    <2>2. QED
      BY <1>1, <1>2, <2>1, MiddleKeepsChecks
  <1>6. QED
    BY <1>3, <1>4, <1>5 DEF Count

\* The handlers that end with a change of the status.
LEMMA LastKeepsChecks ==
  ASSUME TidyInv, ChecksInv, NEW r \in Request, Shift(r) \/ Drop(r)
  PROVE  ChecksInv'
  <1>1. /\ ~Idle(r) /\ UNCHANGED <<link, disturbed>>
        /\ request' = [request EXCEPT ![r] = Resting("done")]
    BY DEF Shift, Drop, At, Idle, Goes
  <1>2. \A q \in Product \ {Target[r]} : product'[q].status = product[q].status
    BY AssetFacts DEF Shift, Drop, CatalogInv, CatalogTypeOK
  <1>3. \A q \in Product : Of(q, "IMAGE")' = Of(q, "IMAGE")
    BY <1>1 DEF Of
  <1>4. Resting("done").at = "done" /\ Placed(Resting("done"))
    BY DEF Resting, Placed
  <1>5. Target[r] \notin disturbed' => InFlight(Target[r]) \subseteq {r}
    BY <1>1, UnderWay
  <1>6. QED
    BY <1>1, <1>2, <1>3, <1>4, <1>5, StepKeepsChecks

\* Storing an asset, and taking one back.
LEMMA StoringKeepsChecks ==
  ASSUME TidyInv, ChecksInv, NEW r \in Request,
         PutObject(r) \/ PutRow(r) \/ Link(r) \/ Show(r) \/ Undo(r) \/ Unput(r)
  PROVE  ChecksInv'
  <1> DEFINE me == request[r]
  <1>1. /\ ~Idle(r) /\ UNCHANGED disturbed /\ me \in Call /\ CatalogInv /\ r # None
        /\ Target[r] \in Product
    BY AssetFacts, CatalogConstantsOK
       DEF PutObject, PutRow, Link, Show, Undo, Unput, At, Idle
  <1>2. \A q \in Product : product'[q].status = product[q].status
    <2>1. CASE UNCHANGED product
      BY <2>1
    <2>2. CASE Show(r)
      <3>1. product[Target[r]] \in Rows
        BY AssetFacts
      <3> DEFINE row == product[Target[r]]
                 shown == IF me.kind = "image" THEN [row EXCEPT !.cover = r]
                                               ELSE [row EXCEPT !.model = r]
      <3>2. Updates(Target[r], shown)
        BY <2>2 DEF Show
      <3>3. shown.status = row.status
        BY <3>1 DEF Rows
      <3> HIDE DEF shown
      <3>4. QED
        BY <3>2, <3>3, RowsKept
    <2>3. QED
      BY <2>1, <2>2 DEF PutObject, PutRow, Link, Undo, Unput
  <1>3. ASSUME NEW q \in Product \ {Target[r]} PROVE Of(q, "IMAGE")' = Of(q, "IMAGE")
    <2>1. CASE link' = link
      BY <2>1 DEF Of
    <2>2. CASE Link(r)
      BY <1>1, <2>2, LinkingElsewhere DEF Link
    <2>3. CASE Undo(r)
      <3>1. link' = link \/ link' = {l \in link : l.asset # r}
        BY <2>3 DEF Undo, Without
      <3>2. QED
        BY <3>1, LinksElsewhere
    <2>4. QED
      BY <2>1, <2>2, <2>3 DEF PutObject, PutRow, Show, Unput
  <1>4. CASE PutRow(r) /\ me.kind = "model" /\ me.seen.model # None
    <2> DEFINE c == [me EXCEPT !.at = "find", !.target = me.seen.model]
    <2>1. request' = [request EXCEPT ![r] = c] /\ c.at = "find" /\ c.kind = me.kind
      BY <1>1, <1>4 DEF PutRow, Call
    <2> HIDE DEF c
    <2>2. QED
      BY <1>1, <1>2, <1>3, <2>1, MiddleKeepsChecks
  <1>5. CASE ~(PutRow(r) /\ me.kind = "model" /\ me.seen.model # None)
    <2>1. PICK to \in {"row", "link", "show", "done", "unput", "drop"} :
            Goes(r, to) /\ (to = "drop" => me.kind = "create")
      BY <1>5 DEF PutObject, PutRow, Link, Show, Undo, Unput, GivenUp
    <2>2. to \in Places \ {"shift"}
      BY <2>1 DEF Places
    <2>3. QED
      BY <1>1, <1>2, <1>3, <2>1, <2>2, LaterChecks
  <1>6. QED
    BY <1>4, <1>5

LEMMA ResumePlaces ==
  ASSUME NEW r \in Request
  PROVE  /\ Resume(r) \in {"each", "link", "drop", "done"}
         /\ Resume(r) = "drop" => request[r].kind = "create"
  BY DEF Resume

\* Removing assets.
LEMMA RemovingKeepsChecks ==
  ASSUME TidyInv, ChecksInv, NEW r \in Request,
         \/ List(r) \/ Each(r) \/ Find(r) \/ Unlink(r) \/ NextCover(r)
         \/ Point(r) \/ Erase(r) \/ Wipe(r)
  PROVE  ChecksInv'
  <1> DEFINE me == request[r]
  <1>1. /\ ~Idle(r) /\ UNCHANGED disturbed /\ me \in Call /\ CatalogInv
        /\ Target[r] \in Product
    BY AssetFacts, CatalogConstantsOK
       DEF List, Each, Find, Unlink, NextCover, Point, Erase, Wipe, At, Idle
  <1>2. \A q \in Product : product'[q].status = product[q].status
    <2>1. CASE UNCHANGED product
      BY <2>1
    <2>2. CASE Point(r)
      <3>1. product[Target[r]] \in Rows
        BY AssetFacts
      <3> DEFINE row == product[Target[r]]
                 cover(c) == IF me.seen.cover = me.target THEN me.cover ELSE c
                 model(m) == IF me.seen.model = me.target THEN None ELSE m
                 pointed == [row EXCEPT !.cover = cover(@), !.model = model(@)]
      <3>2. Updates(Target[r], pointed)
        BY <2>2 DEF Point
      <3>3. pointed.status = row.status
        BY <3>1 DEF Rows
      <3> HIDE DEF pointed
      <3>4. QED
        BY <3>2, <3>3, RowsKept
    <2>3. QED
      BY <2>1, <2>2 DEF List, Each, Find, Unlink, NextCover, Erase, Wipe
  <1>3. ASSUME NEW q \in Product \ {Target[r]} PROVE Of(q, "IMAGE")' = Of(q, "IMAGE")
    <2>1. CASE link' = link
      BY <2>1 DEF Of
    <2>2. CASE Unlink(r)
      <3>1. link' = link \ LinkOf(Target[r], me.target)
        BY <2>2 DEF Unlink
      <3>2. QED
        BY <3>1, LinksElsewhere
    <2>3. CASE Erase(r)
      BY <1>1, <2>1, <2>3, EraseLeavesLinks
    <2>4. QED
      BY <2>1, <2>2, <2>3 DEF List, Each, Find, NextCover, Point, Wipe
  <1>4. ASSUME NEW to \in {"each", "link", "drop", "done", "unlink", "next", "point", "erase", "wipe"},
               Goes(r, to), to = "drop" => me.kind \in {"create", "delete"}
        PROVE  ChecksInv'
    <2>1. to \in Places \ {"shift"}
      BY <1>4 DEF Places
    <2>2. QED
      BY <1>1, <1>2, <1>3, <1>4, <2>1, LaterChecks
  <1>5. ASSUME NEW c, request' = [request EXCEPT ![r] = c], c.kind = me.kind,
               c.at \in {"each", "find", "point", "erase"}
        PROVE  ChecksInv'
    BY <1>1, <1>2, <1>3, <1>5, MiddleKeepsChecks
  <1>6. CASE List(r)
    <2> DEFINE todo == {l.asset : l \in {k \in link : k.product = Target[r]}}
               c == [me EXCEPT !.at = "each", !.todo = todo]
    <2>1. request' = [request EXCEPT ![r] = c]
      BY <1>6 DEF List
    <2> HIDE DEF todo
    <2>2. c.at = "each" /\ c.kind = me.kind
      BY <1>1 DEF Call
    <2> HIDE DEF c
    <2>3. QED
      BY <1>5, <2>1, <2>2
  <1>7. CASE Each(r)
    <2>1. CASE Goes(r, "drop")
      <3>1. me.kind = "delete"
        BY <1>1, <1>7 DEF Each, At, CatalogInv, ListsToDelete
      <3>2. QED
        BY <1>4, <2>1, <3>1
    <2>2. ASSUME NEW a, request' = [request EXCEPT ![r].at = "find", ![r].target = a,
                                                   ![r].todo = me.todo \ {a}]
          PROVE  ChecksInv'
      <3> DEFINE c == [me EXCEPT !.at = "find", !.target = a, !.todo = me.todo \ {a}]
      <3>1. request' = [request EXCEPT ![r] = c] /\ c.at = "find" /\ c.kind = me.kind
        BY <1>1, <2>2 DEF Call
      <3> HIDE DEF c
      <3>2. QED
        BY <1>5, <3>1
    <2>3. QED
      BY <1>7, <2>1, <2>2 DEF Each
  <1>8. CASE NextCover(r)
    <2>1. PICK a : request' = [request EXCEPT ![r].at = "point", ![r].cover = a]
      BY <1>8 DEF NextCover
    <2> DEFINE c == [me EXCEPT !.at = "point", !.cover = a]
    <2>2. request' = [request EXCEPT ![r] = c] /\ c.at = "point" /\ c.kind = me.kind
      BY <1>1, <2>1 DEF Call
    <2> HIDE DEF c
    <2>3. QED
      BY <1>5, <2>2
  <1>9. CASE Point(r)
    <2>1. PICK v : request' = [request EXCEPT ![r].at = "erase", ![r].seen.cover = v]
      BY <1>9 DEF Point
    <2> DEFINE seen == [me.seen EXCEPT !.cover = v]
               c == [me EXCEPT !.at = "erase", !.seen = seen]
    <2>2. request' = [request EXCEPT ![r] = c]
      BY <1>1, <2>1 DEF Call
    <2> HIDE DEF seen
    <2>3. c.at = "erase" /\ c.kind = me.kind
      BY <1>1 DEF Call
    <2> HIDE DEF c
    <2>4. QED
      BY <1>5, <2>2, <2>3
  <1>10. CASE Find(r) \/ Unlink(r) \/ Erase(r) \/ Wipe(r)
    BY <1>4, <1>10, ResumePlaces DEF Find, Unlink, Erase, Wipe
  <1>11. QED
    BY <1>6, <1>7, <1>8, <1>9, <1>10

\* A failure leads to an end, or on to clean up.
LEMMA FailureKeepsChecks ==
  ASSUME TidyInv, ChecksInv, NEW r \in Request, Fails(r) \/ FailsLate(r)
  PROVE  ChecksInv'
  <1>1. /\ ~Idle(r) /\ UNCHANGED disturbed /\ Aborts(r) /\ CatalogInv
        /\ product[Target[r]] \in Rows
    BY AssetFacts DEF Fails, FailsLate, At, Idle
  <1>2. PICK c : AbortsAs(r, c)
    BY <1>1, AbortsSomehow
  <1>3. \A q \in Product : product'[q].status = product[q].status
    <2>1. CASE UNCHANGED product
      BY <2>1
    <2>2. CASE Updates(Target[r], [product[Target[r]] EXCEPT !.model = r])
      <3>1. [product[Target[r]] EXCEPT !.model = r].status = product[Target[r]].status
        BY <1>1 DEF Rows
      <3>2. QED
        BY <2>2, <3>1, RowsKept
    <2>3. QED
      BY <2>1, <2>2 DEF Fails, FailsLate
  <1>4. ASSUME NEW q \in Product \ {Target[r]} PROVE Of(q, "IMAGE")' = Of(q, "IMAGE")
    <2>1. CASE link' = link
      BY <2>1 DEF Of
    <2>2. CASE link' = link \cup {NewLink(r, FALSE)}
      BY <1>1, <2>2, LinkingElsewhere
    <2>3. QED
      BY <2>1, <2>2 DEF Fails, FailsLate
  <1>5. /\ request' = [request EXCEPT ![r] = c]
        /\ c.at # "done" => /\ c.kind = request[r].kind /\ c.at # "shift"
                            /\ c.at = "drop" => c.kind \in {"create", "delete"}
        /\ c.at = "done" => c.kind = "create"
    BY <1>2 DEF AbortsAs
  <1>6. QED
    BY <1>1, <1>3, <1>4, <1>5, MiddleKeepsChecks

\* Requests that die check nothing any more; an administrator disturbs.
LEMMA OutsideKeepsChecks ==
  ASSUME TidyInv, ChecksInv,
         Crash \/ (\E p \in Product : AdminOffShelf(p)) \/ UNCHANGED catalogVars
  PROVE  ChecksInv'
  <1>1. CASE Crash
    <2>1. \A r \in Request : request'[r] = IF Idle(r) THEN request[r] ELSE Resting("done")
      BY <1>1 DEF Crash
    <2>2. Resting("done").at = "done"
      BY DEF Resting
    <2>3. \A r \in Request : Idle(r)' /\ Placed(request'[r])
      BY <2>1, <2>2 DEF Idle, Placed
    <2>4. QED
      BY <2>3 DEF ChecksInv
  <1>2. ASSUME NEW p \in Product, AdminOffShelf(p)
        PROVE  ChecksInv'
    <2>1. /\ UNCHANGED <<link, request>>
          /\ \A q \in Product \ {p} : product'[q] = product[q]
          /\ disturbed \subseteq disturbed'
          /\ p \notin disturbed' => InFlight(p) = {}
      BY <1>2 DEF AdminOffShelf
    <2>2. \A r \in Request : Placed(request'[r])
      BY <2>1 DEF ChecksInv
    <2>3. ASSUME NEW r \in Request, ~Idle(r)', Target[r] \notin disturbed'
          PROVE  CheckedOf(r)'
      <3>1. ~Idle(r) /\ Target[r] \in Product \ {p}
        BY <2>1, <2>3, CatalogConstantsOK DEF Idle, InFlight
      <3>2. CheckedOf(r) /\ Of(Target[r], "IMAGE")' = Of(Target[r], "IMAGE")
        BY <2>1, <2>3, <3>1 DEF ChecksInv, Of
      <3>3. QED
        BY <2>1, <3>1, <3>2 DEF CheckedOf
    <2>4. QED
      BY <2>2, <2>3 DEF ChecksInv
  <1>3. CASE UNCHANGED catalogVars
    <2>1. \A r \in Request : CheckedOf(r)' = CheckedOf(r) /\ Idle(r)' = Idle(r)
      BY <1>3 DEF catalogVars, CheckedOf, Idle, Of
    <2>2. QED
      BY <1>3, <2>1 DEF catalogVars, ChecksInv
  <1>4. QED
    BY <1>1, <1>2, <1>3

LEMMA NextKeepsChecks == TidyInv /\ ChecksInv /\ [Next]_catalogVars => ChecksInv'
  <1> SUFFICES ASSUME TidyInv, ChecksInv, [Next]_catalogVars PROVE ChecksInv'
    OBVIOUS
  <1>1. ASSUME NEW r \in Request, Create(r) \/ Load(r) \/ RemoveAsset(r)
        PROVE  ChecksInv'
    BY <1>1, FirstKeepsChecks
  <1>2. ASSUME NEW r \in Request, Count(r) \/ Shift(r) \/ Drop(r)
        PROVE  ChecksInv'
    BY <1>2, CountKeepsChecks, LastKeepsChecks
  <1>3. ASSUME NEW r \in Request,
               PutObject(r) \/ PutRow(r) \/ Link(r) \/ Show(r) \/ Undo(r) \/ Unput(r)
        PROVE  ChecksInv'
    BY <1>3, StoringKeepsChecks
  <1>4. ASSUME NEW r \in Request,
               \/ List(r) \/ Each(r) \/ Find(r) \/ Unlink(r) \/ NextCover(r)
               \/ Point(r) \/ Erase(r) \/ Wipe(r)
        PROVE  ChecksInv'
    BY <1>4, RemovingKeepsChecks
  <1>5. ASSUME NEW r \in Request, Fails(r) \/ FailsLate(r) PROVE ChecksInv'
    BY <1>5, FailureKeepsChecks
  <1>6. CASE Crash \/ (\E p \in Product : AdminOffShelf(p)) \/ UNCHANGED catalogVars
    BY <1>6, OutsideKeepsChecks
  <1>7. QED
    BY <1>1, <1>2, <1>3, <1>4, <1>5, <1>6 DEF Next

-----------------------------------------------------------------------------
(* The action property *)

ChecksHold(p) ==
  /\ Exists(p) /\ ~Exists(p)' => product[p].status = "DRAFT"
  /\ product[p].status = "DRAFT" /\ product'[p].status = "PUBLISHED" => Of(p, "IMAGE") # {}

LEMMA StatusKeptHolds ==
  ASSUME NEW p \in Product, product'[p].status = product[p].status
  PROVE  ChecksHold(p)
  BY DEF ChecksHold, Exists

\* The two statements that delete a product and publish it act on what their
\* handlers have checked.
LEMMA LastChecksHold ==
  ASSUME TidyInv, ChecksInv, NEW r \in Request, Shift(r) \/ Drop(r),
         NEW p \in Product \ disturbed
  PROVE  ChecksHold(p)
  <1>1. product \in [Product -> Rows] /\ ~Idle(r) /\ Placed(request[r])
    BY DEF TidyInv, CatalogInv, CatalogTypeOK, ChecksInv, Shift, Drop, At, Idle
  <1>2. CASE p # Target[r]
    <2>1. product'[p].status = product[p].status
      BY <1>1, <1>2 DEF Shift, Drop
    <2>2. QED
      BY <2>1, StatusKeptHolds
  <1>3. CASE p = Target[r]
    <2>1. CheckedOf(r)
      BY <1>1, <1>3 DEF ChecksInv
    <2>2. CASE Drop(r)
      <3>1. product[p].status = "DRAFT"
        BY <1>1, <1>3, <2>1, <2>2 DEF CheckedOf, Checked, Placed, Drop, At
      <3>2. product'[p].status = "GONE"
        BY <1>1, <1>3, <2>2 DEF Drop, Rows
      <3>3. QED
        BY <3>1, <3>2 DEF ChecksHold
    <2>3. CASE Shift(r) /\ product[p].status = request[r].seen.status
      <3>1. product'[p].status \in {"PUBLISHED", "OFF_SHELF"}
        BY <1>1, <1>3, <2>3 DEF Shift, Rows
      <3>2. product[p].status = "DRAFT" => Of(p, "IMAGE") # {}
        BY <1>3, <2>1, <2>3 DEF CheckedOf, Checked, Shift, At
      <3>3. QED
        BY <3>1, <3>2 DEF ChecksHold, Exists
    <2>4. CASE Shift(r) /\ product[p].status # request[r].seen.status
      BY <1>3, <2>4, StatusKeptHolds DEF Shift
    <2>5. QED
      BY <2>2, <2>3, <2>4
  <1>4. QED
    BY <1>2, <1>3

LEMMA ChecksStep ==
  ASSUME TidyInv, ChecksInv, [Next]_catalogVars, NEW p \in Product \ disturbed
  PROVE  ChecksHold(p)
  <1>1. product \in [Product -> Rows]
    BY DEF TidyInv, CatalogInv, CatalogTypeOK
  <1>2. ASSUME NEW r \in Request, Create(r) PROVE ChecksHold(p)
    <2>1. CASE p = Target[r]
      BY <1>1, <1>2, <2>1 DEF Create, ChecksHold, Exists, Rows
    <2>2. CASE p # Target[r]
      BY <1>1, <1>2, <2>2, StatusKeptHolds DEF Create
    <2>3. QED
      BY <2>1, <2>2
  <1>3. ASSUME NEW r \in Request, Shift(r) \/ Drop(r) PROVE ChecksHold(p)
    BY <1>3, LastChecksHold
  <1>4. ASSUME NEW r \in Request, NEW row, Updates(Target[r], row),
               row.status = product[Target[r]].status
        PROVE  ChecksHold(p)
    BY <1>4, RowsKept, StatusKeptHolds
  <1>5. ASSUME NEW r \in Request, Show(r) PROVE ChecksHold(p)
    <2> DEFINE row == product[Target[r]]
               shown == IF request[r].kind = "image" THEN [row EXCEPT !.cover = r]
                                                     ELSE [row EXCEPT !.model = r]
    <2>1. Updates(Target[r], shown)
      BY <1>5 DEF Show
    <2>2. shown.status = row.status
      BY AssetFacts DEF Rows
    <2>3. QED
      BY <1>4, <2>1, <2>2
  <1>6. ASSUME NEW r \in Request, Point(r) PROVE ChecksHold(p)
    <2> DEFINE me == request[r]
               row == product[Target[r]]
               cover(c) == IF me.seen.cover = me.target THEN me.cover ELSE c
               model(m) == IF me.seen.model = me.target THEN None ELSE m
               pointed == [row EXCEPT !.cover = cover(@), !.model = model(@)]
    <2>1. Updates(Target[r], pointed)
      BY <1>6 DEF Point
    <2>2. pointed.status = row.status
      BY AssetFacts DEF Rows
    <2> HIDE DEF pointed
    <2>3. QED
      BY <1>4, <2>1, <2>2
  <1>7. ASSUME NEW q \in Product, AdminOffShelf(q) PROVE ChecksHold(p)
    <2>1. product'[p].status \in {product[p].status, "OFF_SHELF"}
      BY <1>1, <1>7 DEF AdminOffShelf, Rows
    <2>2. QED
      BY <2>1 DEF ChecksHold, Exists
  <1>8. CASE UNCHANGED product
    BY <1>8, StatusKeptHolds
  <1>9. ASSUME NEW r \in Request,
               \/ Load(r) \/ RemoveAsset(r) \/ Count(r) \/ PutObject(r) \/ PutRow(r) \/ Link(r)
               \/ List(r) \/ Each(r) \/ Find(r) \/ Unlink(r) \/ NextCover(r) \/ Erase(r) \/ Wipe(r)
               \/ Fails(r) \/ Undo(r) \/ Unput(r)
        PROVE  UNCHANGED product
    BY <1>9 DEF Load, RemoveAsset, Count, PutObject, PutRow, Link, List, Each, Find, Unlink,
       NextCover, Erase, Wipe, Fails, Undo, Unput
  <1>10. CASE Crash \/ UNCHANGED catalogVars
    BY <1>8, <1>10 DEF Crash, catalogVars
  <1>11. ASSUME NEW r \in Request, FailsLate(r) PROVE ChecksHold(p)
    <2> DEFINE row == [product[Target[r]] EXCEPT !.model = r]
    <2>1. row.status = product[Target[r]].status
      BY AssetFacts DEF Rows
    <2> HIDE DEF row
    <2>2. UNCHANGED product \/ Updates(Target[r], row)
      BY <1>11 DEF FailsLate, row
    <2>3. QED
      BY <1>4, <1>8, <2>1, <2>2
  <1>12. QED
    BY <1>2, <1>3, <1>5, <1>6, <1>7, <1>8, <1>9, <1>10, <1>11 DEF Next

\* What a handler of the catalog has checked holds when it acts on it, unless
\* another request works on the product in between (catalog.go, publish and delete,
\* which check in one statement and act in another).
THEOREM ChecksStillHold == Spec => ChecksHoldUnlessDisturbed
  <1>1. Init => ChecksInv
    <2> SUFFICES ASSUME Init PROVE ChecksInv
      OBVIOUS
    <2>1. \A r \in Request : request[r].at = "new"
      BY DEF Init, Resting
    <2>2. QED
      BY <2>1 DEF ChecksInv, Placed, Idle
  <1>2. TidyInv /\ ChecksInv /\ [Next]_catalogVars
          => [\A p \in Product \ disturbed :
                /\ Exists(p) /\ ~Exists(p)' => product[p].status = "DRAFT"
                /\ product[p].status = "DRAFT" /\ product'[p].status = "PUBLISHED"
                     => Of(p, "IMAGE") # {}]_catalogVars
    BY ChecksStep DEF ChecksHold
  <1>3. QED
    BY <1>1, <1>2, NextKeepsChecks, InitTidyInv, NextKeepsTidyInv, PTL
       DEF Spec, ChecksHoldUnlessDisturbed
=============================================================================
