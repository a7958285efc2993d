------------------------------- MODULE Catalog -------------------------------
(***************************************************************************)
(* Products and their assets (internal/catalog/catalog.go) on the asset    *)
(* service (internal/asset/asset.go): creating a draft, with or without a  *)
(* generated model, uploading images and models, removing them, publishing *)
(* and taking off the shelf, deleting a draft.                             *)
(*                                                                         *)
(* No handler of the catalog opens a transaction.  Each one reads the      *)
(* product, decides by what it has read, and then executes one statement   *)
(* after the other; the object store is changed by calls in between.  So a *)
(* statement or a call is an action, a request has a program counter, and  *)
(* requests of a seller with two windows interleave.  Any statement may    *)
(* fail, with or without effect, and the process may die between any two.  *)
(*                                                                         *)
(* An asset is named after the request that stores it.  Which of several   *)
(* images in the same position is the older one is left open.  Editing     *)
(* price, stock and texts is in TradeOrders.                               *)
(***************************************************************************)
EXTENDS Integers, FiniteSets

CONSTANTS
  Product, Request,
  Target,        \* the product each request is about
  None,          \* no asset
  ImageLimit,    \* images of a product (6)
  Cascades,      \* the links of an asset are deleted with it: the SQL migration's
                 \* foreign key does that, AutoMigrate makes none
  MaxFaults      \* bound: failed statements and crashes explored

ASSUME CatalogConstantsOK ==
  /\ Target \in [Request -> Product]
  /\ None \notin Request
  /\ Cascades \in BOOLEAN
  /\ ImageLimit \in Nat \ {0} /\ MaxFaults \in Nat

VARIABLES
  product,    \* table products: status, cover and model
  link,       \* table product_assets
  stored,     \* table assets
  object,     \* the objects in the store
  request,    \* program counter and local variables of each request: the row as
              \* it was read, a count, assets still to remove, the one it is
              \* removing, and the next cover
  faults,     \* failed statements and crashes so far
  disturbed   \* history: products two requests worked on at the same time

catalogVars == <<product, link, stored, object, request, faults, disturbed>>

-----------------------------------------------------------------------------
(* Rows and requests *)

\* NEW: the row is not there yet; GONE: it was deleted.
Statuses == {"NEW", "DRAFT", "PUBLISHED", "OFF_SHELF", "GONE"}
Ref == Request \cup {None}
Rows == [status : Statuses, cover : Ref, model : Ref]

\* answered (history): the insert of the link was not taken for failed.
Links == [product : Product, asset : Request, kind : {"IMAGE", "MODEL"}, position : Nat,
          answered : BOOLEAN]
Exists(p) == product[p].status \notin {"NEW", "GONE"}

Kinds == {"create", "image", "model", "remove", "delete", "publish", "offShelf"}
Places == {"new", "count", "put", "row", "link", "show", "shift", "list", "each", "drop",
           "find", "unlink", "next", "point", "erase", "wipe", "undo", "unput", "done"}

\* What the kind of an uploaded asset is called.
KindOf(kind) == IF kind = "image" THEN "IMAGE" ELSE "MODEL"

Of(p, kind) == {l \in link : l.product = p /\ l.kind = kind}
LinkOf(p, a) == {l \in link : l.product = p /\ l.asset = a}
Without(a) == IF Cascades THEN {l \in link : l.asset # a} ELSE link

\* The image that comes first: sort_order, then created_at.
FirstImages(p) == {l \in Of(p, "IMAGE") : \A k \in Of(p, "IMAGE") : l.position <= k.position}

At(r, place) == request[r].at = place

\* A request that does not run has no local variables.
NewRow == [status |-> "NEW", cover |-> None, model |-> None]
Resting(at) == [at |-> at, kind |-> "create", seen |-> NewRow, count |-> 0,
                todo |-> {}, target |-> None, cover |-> None]

Goes(r, to) ==
  request' = [request EXCEPT ![r] = IF to = "done" THEN Resting(to) ELSE [@ EXCEPT !.at = to]]
Idle(r) == request[r].at \in {"new", "done"}
InFlight(p) == {r \in Request : ~Idle(r) /\ Target[r] = p}

\* An update of a row by its id does nothing when the row is gone.
Updates(p, row) ==
  product' = IF Exists(p) THEN [product EXCEPT ![p] = row] ELSE product

Begins(r, kind, place, target) ==
  /\ At(r, "new")
  /\ request' = [request EXCEPT ![r].at = place, ![r].kind = kind, ![r].target = target,
                                ![r].seen = product[Target[r]]]
  /\ disturbed' = disturbed \cup {p \in {Target[r]} : InFlight(p) # {}}

Init ==
  /\ product = [p \in Product |-> NewRow]
  /\ link = {} /\ stored = {} /\ object = {}
  /\ request = [r \in Request |-> Resting("new")]
  /\ faults = 0
  /\ disturbed = {}

-----------------------------------------------------------------------------
(* The first statement of each handler *)

\* create: the draft, and then the generated model, if one was asked for and is
\* there to copy; if it is not, the draft is deleted again.
Create(r) ==
  /\ product[Target[r]].status = "NEW"
  /\ At(r, "new")
  /\ \/ Goes(r, "done") /\ UNCHANGED disturbed
     \/ \E place \in {"put", "drop"} : Begins(r, "create", place, None)
  /\ product' = [product EXCEPT ![Target[r]].status = "DRAFT"]
  /\ UNCHANGED <<link, stored, object, faults>>

Handlers_DeletesAny(status) ==
  CASE status = "DRAFT" -> {<<"image", "count">>, <<"model", "count">>,
                            <<"publish", "count">>, <<"delete", "list">>}
    [] status = "PUBLISHED" -> {<<"image", "count">>, <<"model", "count">>,
                                <<"offShelf", "shift">>, <<"delete", "list">>}
    [] status = "OFF_SHELF" -> {<<"publish", "shift">>}
    [] OTHER -> {}

\* The other handlers start with ownedProduct and a check of the status it
\* returned.
Handlers(status) ==
  CASE status = "DRAFT" -> {<<"image", "count">>, <<"model", "count">>,
                            <<"publish", "count">>, <<"delete", "list">>}
    [] status = "PUBLISHED" -> {<<"image", "count">>, <<"model", "count">>,
                                <<"offShelf", "shift">>}
    [] status = "OFF_SHELF" -> {<<"publish", "shift">>}
    [] OTHER -> {}

Load(r) ==
  /\ \E h \in Handlers(product[Target[r]].status) : Begins(r, h[1], h[2], None)
  /\ UNCHANGED <<product, link, stored, object, faults>>

\* deleteAsset, of an asset the seller saw.
RemoveAsset(r) ==
  /\ Exists(Target[r])
  /\ \E l \in link : l.product = Target[r] /\ Begins(r, "remove", "find", l.asset)
  /\ UNCHANGED <<product, link, stored, object, faults>>

\* An administrator takes a product off the shelf, in one transaction.
AdminOffShelf(p) ==
  /\ product[p].status = "PUBLISHED"
  /\ product' = [product EXCEPT ![p].status = "OFF_SHELF"]
  /\ disturbed' = disturbed \cup {q \in {p} : InFlight(p) # {}}
  /\ UNCHANGED <<link, stored, object, request, faults>>

-----------------------------------------------------------------------------
(* The statements of publish, off-shelf and upload *)

Count(r) ==
  LET me == request[r]
      p == Target[r]
      n == Cardinality(Of(p, KindOf(me.kind)))
  IN  /\ At(r, "count")
      /\ CASE me.kind = "publish" -> Goes(r, IF Of(p, "IMAGE") # {} THEN "shift" ELSE "done")
           [] me.kind = "image" /\ n >= ImageLimit -> Goes(r, "done")
           [] OTHER -> request' = [request EXCEPT ![r].at = "put", ![r].count = n]
      /\ UNCHANGED <<product, link, stored, object, faults, disturbed>>

\* transitionProduct: the update names the status that was read.
Shift(r) ==
  LET p == Target[r]
      from == request[r].seen.status
      to == IF from = "PUBLISHED" THEN "OFF_SHELF" ELSE "PUBLISHED"
  IN  /\ At(r, "shift")
      /\ product' = IF product[p].status = from THEN [product EXCEPT ![p].status = to] ELSE product
      /\ Goes(r, "done")
      /\ UNCHANGED <<link, stored, object, faults, disturbed>>

\* assets.Put and assets.Copy: the object first, then its row.
PutObject(r) ==
  /\ At(r, "put")
  /\ object' = object \cup {r}
  /\ Goes(r, "row")
  /\ UNCHANGED <<product, link, stored, faults, disturbed>>

\* An uploaded model replaces the one the product had when it was read.
PutRow(r) ==
  LET me == request[r] IN
  /\ At(r, "row")
  /\ stored' = stored \cup {r}
  /\ IF me.kind = "model" /\ me.seen.model # None
       THEN request' = [request EXCEPT ![r].at = "find", ![r].target = me.seen.model]
       ELSE Goes(r, "link")
  /\ UNCHANGED <<product, link, object, faults, disturbed>>

NewLink(r, answered) ==
  [product |-> Target[r], asset |-> r, kind |-> KindOf(request[r].kind),
   position |-> IF request[r].kind = "image" THEN request[r].count ELSE 0,
   answered |-> answered]

Link(r) ==
  LET me == request[r]
      shows == me.kind # "image" \/ me.seen.cover = None
  IN  /\ At(r, "link")
      /\ link' = link \cup {NewLink(r, TRUE)}
      /\ Goes(r, IF shows THEN "show" ELSE "done")
      /\ UNCHANGED <<product, stored, object, faults, disturbed>>

Show(r) ==
  LET p == Target[r] IN
  /\ At(r, "show")
  /\ IF request[r].kind = "image"
       THEN Updates(p, [product[p] EXCEPT !.cover = r])
       ELSE Updates(p, [product[p] EXCEPT !.model = r])
  /\ Goes(r, "done")
  /\ UNCHANGED <<link, stored, object, faults, disturbed>>

-----------------------------------------------------------------------------
(* The statements of delete and of removeAsset *)

List(r) ==
  /\ At(r, "list")
  /\ request' = [request EXCEPT ![r].at = "each",
                                ![r].todo = {l.asset : l \in {k \in link : k.product = Target[r]}}]
  /\ UNCHANGED <<product, link, stored, object, faults, disturbed>>

Each(r) ==
  LET todo == request[r].todo IN
  /\ At(r, "each")
  /\ \/ todo = {} /\ Goes(r, "drop")
     \/ \E a \in todo : request' = [request EXCEPT ![r].at = "find", ![r].target = a,
                                                   ![r].todo = todo \ {a}]
  /\ UNCHANGED <<product, link, stored, object, faults, disturbed>>

\* db.Delete by id, whatever the status is by now.
Drop(r) ==
  /\ At(r, "drop")
  /\ product' = [product EXCEPT ![Target[r]].status = "GONE"]
  /\ Goes(r, "done")
  /\ UNCHANGED <<link, stored, object, faults, disturbed>>

Resume_StopsUpload(r) ==
  CASE request[r].kind = "delete" -> "each"
    [] request[r].kind = "create" -> "drop"
    [] OTHER                      -> "done"

\* Where a handler goes on after removeAsset; ErrRecordNotFound is no failure
\* to delete and upload, and create only cleans up.
Resume(r) ==
  CASE request[r].kind = "delete" -> "each"
    [] request[r].kind = "model"  -> "link"
    [] request[r].kind = "create" -> "drop"
    [] OTHER                      -> "done"

Find(r) ==
  /\ At(r, "find")
  /\ Goes(r, IF LinkOf(Target[r], request[r].target) # {} THEN "unlink" ELSE Resume(r))
  /\ UNCHANGED <<product, link, stored, object, faults, disturbed>>

Unlink_KeepsCover(r) ==
  LET me == request[r] IN
  /\ At(r, "unlink")
  /\ link' = link \ LinkOf(Target[r], me.target)
  /\ Goes(r, IF me.target = me.seen.model THEN "point" ELSE "erase")
  /\ UNCHANGED <<product, stored, object, faults, disturbed>>

Unlink(r) ==
  LET me == request[r] IN
  /\ At(r, "unlink")
  /\ link' = link \ LinkOf(Target[r], me.target)
  /\ Goes(r, IF me.target = me.seen.cover THEN "next"
             ELSE IF me.target = me.seen.model THEN "point" ELSE "erase")
  /\ UNCHANGED <<product, stored, object, faults, disturbed>>

NextCover(r) ==
  LET first == FirstImages(Target[r]) IN
  /\ At(r, "next")
  /\ \E a \in IF first = {} THEN {None} ELSE {l.asset : l \in first} :
       request' = [request EXCEPT ![r].at = "point", ![r].cover = a]
  /\ UNCHANGED <<product, link, stored, object, faults, disturbed>>

\* Cover and model are compared with the row as it was read; the update also
\* puts a new cover into it.
Point(r) ==
  LET p == Target[r]
      me == request[r]
      cover(c) == IF me.seen.cover = me.target THEN me.cover ELSE c
      model(m) == IF me.seen.model = me.target THEN None ELSE m
  IN  /\ At(r, "point")
      /\ Updates(p, [product[p] EXCEPT !.cover = cover(@), !.model = model(@)])
      /\ request' = [request EXCEPT ![r].at = "erase", ![r].seen.cover = cover(@)]
      /\ UNCHANGED <<link, stored, object, faults, disturbed>>

\* assets.Delete: the row, which may take its links with it, and then the object.
Erase(r) ==
  LET a == request[r].target IN
  /\ At(r, "erase")
  /\ stored' = stored \ {a}
  /\ link' = Without(a)
  /\ Goes(r, IF a \in stored THEN "wipe" ELSE Resume(r))
  /\ UNCHANGED <<product, object, faults, disturbed>>

Wipe(r) ==
  /\ At(r, "wipe")
  /\ object' = object \ {request[r].target}
  /\ Goes(r, Resume(r))
  /\ UNCHANGED <<product, link, stored, faults, disturbed>>

-----------------------------------------------------------------------------
(* Failures *)

\* How a request gives up: create deletes its draft.
GivenUp(r) == IF request[r].kind = "create" THEN "drop" ELSE "done"

OnFailure_RowIgnored(r) ==
  LET me == request[r] IN
  CASE me.at = "put" -> GivenUp(r)
    [] me.at = "row" -> "link"
    [] me.at = "link" -> "undo"
    [] OTHER -> "done"

\* What a handler does when the statement it is at fails.
OnFailure(r) ==
  LET me == request[r] IN
  CASE me.at = "put" -> GivenUp(r)
    [] me.at = "row" -> "unput"
    [] me.at = "link" -> "undo"
    [] me.at = "show" /\ me.kind = "create" -> "find"
    [] me.at \in {"find", "unlink", "point", "erase", "wipe"} /\ me.kind = "model" -> "undo"
    [] me.at \in {"undo", "unput"} -> GivenUp(r)
    [] me.at = "next" -> "point"
    [] me.at \in {"find", "unlink", "point", "erase", "wipe"} /\ me.kind = "create" -> "drop"
    [] OTHER -> "done"

\* create takes the model back that it could not point the product to, but
\* that the row in its memory has.
Aborts(r) ==
  LET to == OnFailure(r) IN
  IF to = "find" THEN request' = [request EXCEPT ![r].at = to, ![r].target = r,
                                                 ![r].seen.model = r]
  ELSE IF to = "point" THEN request' = [request EXCEPT ![r].at = to, ![r].cover = None]
  ELSE Goes(r, to)

Fails(r) ==
  /\ ~Idle(r) /\ ~At(r, "each")
  /\ faults < MaxFaults
  /\ faults' = faults + 1
  /\ Aborts(r)
  /\ UNCHANGED <<product, link, stored, object, disturbed>>

\* A statement takes effect and its answer is lost.  These are the ones whose
\* effect the handler then undoes without knowing it, or leaves.  After any other
\* it goes on as if it had succeeded, or as if the one after it had failed.
FailsLate(r) ==
  /\ faults < MaxFaults
  /\ faults' = faults + 1
  /\ \/ At(r, "row") /\ stored' = stored \cup {r} /\ UNCHANGED <<product, link>>
     \/ At(r, "link") /\ link' = link \cup {NewLink(r, FALSE)} /\ UNCHANGED <<product, stored>>
     \/ /\ At(r, "show") /\ request[r].kind = "create"
        /\ Updates(Target[r], [product[Target[r]] EXCEPT !.model = r])
        /\ UNCHANGED <<link, stored>>
  /\ Aborts(r)
  /\ UNCHANGED <<object, disturbed>>

\* assets.Delete of what the request itself has stored.
Undo(r) ==
  /\ At(r, "undo")
  /\ stored' = stored \ {r}
  /\ link' = Without(r)
  /\ Goes(r, "unput")
  /\ UNCHANGED <<product, object, faults, disturbed>>

Unput(r) ==
  /\ At(r, "unput")
  /\ object' = object \ {r}
  /\ Goes(r, GivenUp(r))
  /\ UNCHANGED <<product, link, stored, faults, disturbed>>

\* The process dies.
Crash ==
  /\ faults < MaxFaults
  /\ faults' = faults + 1
  /\ request' = [r \in Request |->
       IF Idle(r) THEN request[r] ELSE Resting("done")]
  /\ UNCHANGED <<product, link, stored, object, disturbed>>

Next ==
  \/ \E r \in Request :
       \/ Create(r) \/ Load(r) \/ RemoveAsset(r)
       \/ Count(r) \/ Shift(r) \/ PutObject(r) \/ PutRow(r) \/ Link(r) \/ Show(r)
       \/ List(r) \/ Each(r) \/ Drop(r)
       \/ Find(r) \/ Unlink(r) \/ NextCover(r) \/ Point(r) \/ Erase(r) \/ Wipe(r)
       \/ Fails(r) \/ FailsLate(r) \/ Undo(r) \/ Unput(r)
  \/ \E p \in Product : AdminOffShelf(p)
  \/ Crash

Spec == Init /\ [][Next]_catalogVars

-----------------------------------------------------------------------------
(* Properties *)

Removing == {"find", "unlink", "next", "point", "erase", "wipe"}

CatalogTypeOK ==
  /\ product \in [Product -> Rows]
  /\ link \in SUBSET Links
  /\ stored \in SUBSET Request /\ object \in SUBSET Request
  /\ request \in [Request -> [at : Places, kind : Kinds, seen : Rows, count : Nat,
                              todo : SUBSET Request, target : Ref, cover : Ref]]
  /\ \A r \in Request : request[r].at \in Removing => request[r].target # None
  /\ faults \in 0..MaxFaults
  /\ disturbed \in SUBSET Product

\* Whatever is listed with a product can be opened: its asset has a row and the
\* row an object, whichever requests interleave and wherever one fails or dies.
\* Without the foreign key a link outlives its asset if its insert took effect and
\* was answered with an error; it then has no row, and views passes over it.
ListedOpens ==
  \A l \in link : \/ l.asset \in stored /\ l.asset \in object
                  \/ ~Cascades /\ ~l.answered /\ l.asset \notin stored

\* The requests that hold an asset nobody lists: the one that has just stored
\* it, and the ones that are removing it.
Holds(r, a) ==
  \/ a = r /\ request[r].at \in Removing \cup {"row", "link", "undo", "unput"}
  \/ a = request[r].target /\ request[r].at \in {"next", "point", "erase", "wipe"}

\* As long as no statement fails and no process dies, every object is listed
\* with a product, be it gone, or in the hands of a request: replacing a model, removing an
\* image and deleting a draft lose track of none, even when two requests
\* remove the same one.
ObjectsAccounted ==
  faults = 0 =>
    \A a \in object : \/ \E l \in link : l.asset = a
                      \/ \E r \in Request : Holds(r, a)

\* What the catalog keeps for a product whose requests come one after another:
\* no more images than the limit, one model, which is the product's model, a
\* cover that is one of the images if there are any, and nothing that belongs
\* to a product that is gone.
Tidy(p) ==
  LET images == {l.asset : l \in Of(p, "IMAGE")}
      models == {l.asset : l \in Of(p, "MODEL")}
  IN  /\ product[p].cover \in (IF images = {} THEN {None} ELSE images)
      /\ models = {product[p].model} \ {None}
      /\ ~Exists(p) => images = {} /\ models = {}

TidyUnlessDisturbed ==
  \A p \in Product \ disturbed :
    /\ Cardinality(Of(p, "IMAGE")) <= ImageLimit
    /\ faults = 0 /\ InFlight(p) = {} => Tidy(p)

\* What a handler has checked still holds when it acts on it, unless another
\* request works on the product in between: only a draft is deleted, however long
\* the removal of its assets takes, and a draft is published with an image.
ChecksHoldUnlessDisturbed ==
  [][\A p \in Product \ disturbed :
       /\ Exists(p) /\ ~Exists(p)' => product[p].status = "DRAFT"
       /\ product[p].status = "DRAFT" /\ product'[p].status = "PUBLISHED"
            => Of(p, "IMAGE") # {}]_catalogVars
=============================================================================
