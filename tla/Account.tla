------------------------------- MODULE Account -------------------------------
(***************************************************************************)
(* What an account page shows next to the orders (internal/account:        *)
(* favorites.go, profile.go, handler.go): notifications about orders,      *)
(* favorites of products, delivery addresses, profile and preferences.     *)
(*                                                                         *)
(*   - The handlers of orders write a notification for the other party     *)
(*     after their transaction, in a statement of its own whose error is   *)
(*     dropped.  One that fails, or whose process dies before it, is never *)
(*     written, nor is that of a transaction whose answer was lost: here   *)
(*     they stay among those to be written.                                *)
(*   - A favorite keeps a copy of the product as it was when it was added  *)
(*     or last acknowledged, and shows UPDATED when the product differs.   *)
(*     Both operations read the product before they write the copy.        *)
(*   - The address operations read the address first.  What they write     *)
(*     then is one transaction, whose first statement locks all addresses  *)
(*     of the user if it is to change the default.                         *)
(*   - Profile and preferences have one row per user, which the first      *)
(*     visitor creates: every request looks for it, creates it if it is    *)
(*     missing, dropping the error if that fails, and then reads or        *)
(*     overwrites it.  Two first visits, of two tabs or of the calls one   *)
(*     page makes, create it both.                                         *)
(*                                                                         *)
(* Favorites, addresses and settings are those of one user, as every       *)
(* statement is restricted to him; the two kinds of settings work alike    *)
(* and there is one of them.  Of a product's copy only the price is kept;  *)
(* folders, notes and the texts of an address are columns that one         *)
(* statement writes and nothing else reads, and are left out.              *)
(***************************************************************************)
EXTENDS TradeOrders

CONSTANTS
  Favorite,    \* requests to add a favorite; the row is named after its own
  Wished,      \* the product each of them is about
  Address,
  Visit,       \* requests for the settings; a form is named after its request
  None         \* no address, no settings

ASSUME AccountConstantsOK ==
  /\ Wished \in [Favorite -> Product]
  /\ None \notin Address \cup Visit
  /\ "initial" \notin Visit \cup {None}

VARIABLES
  notice,     \* table notifications
  telling,    \* notifications that handlers are about to write
  favorite,   \* table favorites, and the requests to add one
  acking,     \* acknowledgements that have read the product
  address,    \* table addresses: whether it is there, and is_default
  loaded,     \* address operations that have read their address
  chosen,     \* history: the address the user last made his default
  misled,     \* history: an address that was gone has been made the default
  settings,   \* the row of user_profiles or user_preferences: whose form it has
  visit,      \* how far each request for the settings is
  submitted,  \* history: the form last answered as saved
  unkept      \* history: a form has been saved to a row that was not there

noticeVars == <<notice, telling>>
favoriteVars == <<favorite, acking>>
addressVars == <<address, loaded, chosen, misled>>
settingVars == <<settings, visit, submitted, unkept>>
accountVars == <<noticeVars, favoriteVars, addressVars, settingVars>>
allAccountVars == <<tradeVars, accountVars>>

-----------------------------------------------------------------------------
(* Rows *)

Notices == [to : User, order : Request, event : Nat \ {0}]

\* price: the copy.  changed (history): the product's price was changed after it
\* was copied.
Copy == [price : Nat, changed : BOOLEAN]
FavoriteRow == [at : {"new", "loaded", "there", "gone", "refused"}, copy : Copy]
Acks == [favorite : Favorite, copy : Copy]

CopyOf(p) == [price |-> product[p].price, changed |-> FALSE]

AddressStates == {"none", "plain", "default", "gone"}
Changes == [address : Address, default : BOOLEAN]
Defaults == {a \in Address : address[a] = "default"}
HasRow(a) == address[a] \in {"plain", "default"}

AccountInit ==
  /\ Init
  /\ notice = {} /\ telling = {}
  /\ favorite = [f \in Favorite |-> [at |-> "new", copy |-> CopyOf(Wished[f])]]
  /\ acking = {}
  /\ address = [a \in Address |-> "none"]
  /\ loaded = {}
  /\ chosen = None /\ misled = FALSE
  /\ settings = None /\ submitted = None /\ unkept = FALSE
  /\ visit = [v \in Visit |-> "new"]

-----------------------------------------------------------------------------
(* Orders and their notifications *)

\* The handler goes on to notify a user of the event the transaction records.
Tellings(o, u) == telling' = telling \cup {[to |-> u, order |-> o, event |-> Len(trail[o]) + 1]}

\* cancelOrder takes the one to notify from the role it chose before the
\* transaction.
CancelTells_Seller(c) == Seller(c.order)

CancelTells(c) == IF c.role = "SELLER" THEN Buyer(c.order) ELSE Seller(c.order)

OrderStep ==
  /\ \/ \E o \in Request :
          \/ (PlaceCommit(o) \/ Pay(o) \/ Confirm(o)) /\ Tellings(o, Seller(o))
          \/ Ship(o) /\ Tellings(o, Buyer(o))
     \/ \E c \in canceling : CancelCommit(c) /\ Tellings(c.order, CancelTells(c))
  /\ UNCHANGED <<notice, favoriteVars, addressVars, settingVars>>

\* Steps of orders and products that no notification follows.
QuietStep ==
  /\ \/ \E o \in Request :
          \/ PlaceLookup(o) \/ PlaceRefused(o) \/ PlaceFails(o) \/ PlaceDuplicate(o)
          \/ \E u \in User : CancelLoad(o, u)
     \/ \E c \in canceling : CancelRefused(c)
     \/ \E p \in Product : EditLoad(p) \/ ShelveProduct(p)
  /\ UNCHANGED accountVars

\* createOrder does not come to notify if placeOrder returned an error.
Reached(n) == n.event = 1 => placing[n.order] = "ordered"

\* notify
Notify(n) ==
  /\ n \in telling /\ Reached(n)
  /\ telling' = telling \ {n}
  /\ notice' = notice \cup {n}
  /\ UNCHANGED <<tradeVars, favoriteVars, addressVars, settingVars>>

-----------------------------------------------------------------------------
(* Favorites *)

\* The seller's edit; the copies of the old price are outdated by it.
EditProduct(p) ==
  LET aged(copy) == [copy EXCEPT !.changed = @ \/ product'[p].price # product[p].price]
  IN  /\ \E stock \in Stocks, price \in Prices : EditCommit(p, stock, price)
      /\ favorite' = [f \in Favorite |->
           IF Wished[f] = p THEN [favorite[f] EXCEPT !.copy = aged(@)] ELSE favorite[f]]
      /\ acking' = {[a EXCEPT !.copy = IF Wished[a.favorite] = p THEN aged(@) ELSE @] :
                      a \in acking}
      /\ UNCHANGED <<noticeVars, addressVars, settingVars>>

\* addFavorite, up to the look-up: the product is read and must be published.
FavoriteLoad(f) ==
  LET p == Wished[f] IN
  /\ favorite[f].at = "new"
  /\ favorite' = [favorite EXCEPT
       ![f] = [at |-> IF product[p].published THEN "loaded" ELSE "refused", copy |-> CopyOf(p)]]
  /\ UNCHANGED <<tradeVars, noticeVars, acking, addressVars, settingVars>>

\* The rows of the unique index on user and product.
Favored(p) == {g \in Favorite : Wished[g] = p /\ favorite[g].at = "there"}

\* The look-up finds a row, or the insert does, or the favorite is added.
FavoriteAdd(f) ==
  /\ favorite[f].at = "loaded"
  /\ favorite' = [favorite EXCEPT
       ![f].at = IF Favored(Wished[f]) = {} THEN "there" ELSE "refused"]
  /\ UNCHANGED <<tradeVars, noticeVars, acking, addressVars, settingVars>>

\* removeFavorite and batchDeleteFavorites: rows are deleted by their ids.
RemoveFavorites(gone) ==
  /\ \A f \in gone : favorite[f].at = "there"
  /\ favorite' = [f \in Favorite |->
       IF f \in gone THEN [favorite[f] EXCEPT !.at = "gone"] ELSE favorite[f]]
  /\ UNCHANGED <<tradeVars, noticeVars, acking, addressVars, settingVars>>

\* ackFavorite: favorite and product are read ...
AckLoad(f) ==
  /\ favorite[f].at = "there"
  /\ acking' = acking \cup {[favorite |-> f, copy |-> CopyOf(Wished[f])]}
  /\ UNCHANGED <<tradeVars, noticeVars, favorite, addressVars, settingVars>>

AckCommit_KeepsPrice(a) ==
  /\ a \in acking
  /\ acking' = acking \ {a}
  /\ favorite' = [favorite EXCEPT ![a.favorite].copy.changed = FALSE]
  /\ UNCHANGED <<tradeVars, noticeVars, addressVars, settingVars>>

\* ... and the copy is updated by the favorite's id.
AckCommit(a) ==
  /\ a \in acking
  /\ acking' = acking \ {a}
  /\ favorite' = [favorite EXCEPT
       ![a.favorite].copy = IF favorite[a.favorite].at = "there" THEN a.copy ELSE @]
  /\ UNCHANGED <<tradeVars, noticeVars, addressVars, settingVars>>

-----------------------------------------------------------------------------
(* Addresses *)

\* The update of every address of the user that goes before a new default.
Cleared == [a \in Address |-> IF address[a] = "default" THEN "plain" ELSE address[a]]

CreateAddress(a, default) ==
  /\ address[a] = "none"
  /\ address' = IF default THEN [Cleared EXCEPT ![a] = "default"]
                           ELSE [address EXCEPT ![a] = "plain"]
  /\ chosen' = IF default THEN a ELSE chosen
  /\ UNCHANGED <<tradeVars, noticeVars, favoriteVars, settingVars, loaded, misled>>

\* ownedAddress, for updateAddress and setDefaultAddress.
LoadAddress(a, default) ==
  /\ HasRow(a)
  /\ loaded' = loaded \cup {[address |-> a, default |-> default]}
  /\ UNCHANGED <<tradeVars, noticeVars, favoriteVars, settingVars, address, chosen, misled>>

ChangeAddress_KeepsOthers(c) ==
  LET a == c.address IN
  /\ c \in loaded
  /\ loaded' = loaded \ {c}
  /\ address' = IF HasRow(a)
                  THEN [address EXCEPT ![a] = IF c.default THEN "default" ELSE "plain"]
                  ELSE address
  /\ chosen' = IF c.default THEN a ELSE IF chosen = a THEN None ELSE chosen
  /\ misled' = (misled \/ (c.default /\ ~HasRow(a)))
  /\ UNCHANGED <<tradeVars, noticeVars, favoriteVars, settingVars>>

\* Their transactions.  The update by the address' id does nothing if the row
\* is gone, and the answer is the same.
ChangeAddress(c) ==
  LET a == c.address
      others == IF c.default THEN Cleared ELSE address
  IN  /\ c \in loaded
      /\ loaded' = loaded \ {c}
      /\ address' = IF HasRow(a)
                      THEN [others EXCEPT ![a] = IF c.default THEN "default" ELSE "plain"]
                      ELSE others
      /\ chosen' = IF c.default THEN a ELSE IF chosen = a THEN None ELSE chosen
      /\ misled' = (misled \/ (c.default /\ ~HasRow(a)))
      /\ UNCHANGED <<tradeVars, noticeVars, favoriteVars, settingVars>>

DeleteAddress(a) ==
  /\ HasRow(a)
  /\ address' = [address EXCEPT ![a] = "gone"]
  /\ chosen' = IF chosen = a THEN None ELSE chosen
  /\ UNCHANGED <<tradeVars, noticeVars, favoriteVars, settingVars, loaded, misled>>

-----------------------------------------------------------------------------
(* Profile and preferences *)

Arrives(v, at) == visit' = [visit EXCEPT ![v] = at]
Others == <<tradeVars, noticeVars, favoriteVars, addressVars>>

\* ensureProfile and ensurePreference: the look-up ...
LookUp(v) ==
  /\ visit[v] = "new"
  /\ Arrives(v, IF settings = None THEN "missing" ELSE "ready")
  /\ UNCHANGED <<Others, settings, submitted, unkept>>

EnsureRow_Upserts(v) ==
  /\ visit[v] = "missing"
  /\ settings' \in {settings, "initial"}
  /\ Arrives(v, "ready")
  /\ UNCHANGED <<Others, submitted, unkept>>

\* ... and the insert, which fails if the row is there by now and may fail
\* otherwise.
EnsureRow(v) ==
  /\ visit[v] = "missing"
  /\ settings' \in {settings} \cup (IF settings = None THEN {"initial"} ELSE {})
  /\ Arrives(v, "ready")
  /\ UNCHANGED <<Others, submitted, unkept>>

\* updateProfile and updatePreferences: an update of the row by its key, which
\* does nothing if there is none, and is answered the same.
SaveForm(v) ==
  /\ visit[v] = "ready"
  /\ settings' = IF settings = None THEN None ELSE v
  /\ submitted' = v
  /\ unkept' = (unkept \/ settings = None)
  /\ Arrives(v, "done")
  /\ UNCHANGED Others

\* getProfile, getPreferences, and a form that is refused.
LeaveSettings(v) ==
  /\ visit[v] = "ready"
  /\ Arrives(v, "done")
  /\ UNCHANGED <<Others, settings, submitted, unkept>>

AccountNext ==
  \/ OrderStep \/ QuietStep
  \/ \E n \in telling : Notify(n)
  \/ \E p \in Product : EditProduct(p)
  \/ \E f \in Favorite : FavoriteLoad(f) \/ FavoriteAdd(f) \/ AckLoad(f)
  \/ \E gone \in SUBSET Favorite \ {{}} : RemoveFavorites(gone)
  \/ \E a \in acking : AckCommit(a)
  \/ \E a \in Address :
       \/ DeleteAddress(a)
       \/ \E default \in BOOLEAN : CreateAddress(a, default) \/ LoadAddress(a, default)
  \/ \E c \in loaded : ChangeAddress(c)
  \/ \E v \in Visit : LookUp(v) \/ EnsureRow(v) \/ SaveForm(v) \/ LeaveSettings(v)

AccountSpec == AccountInit /\ [][AccountNext]_allAccountVars

-----------------------------------------------------------------------------
(* Properties *)

AccountTypeOK ==
  /\ notice \in SUBSET Notices /\ telling \in SUBSET Notices
  /\ favorite \in [Favorite -> FavoriteRow] /\ acking \in SUBSET Acks
  /\ address \in [Address -> AddressStates] /\ loaded \in SUBSET Changes
  /\ chosen \in Address \cup {None} /\ misled \in BOOLEAN
  /\ settings \in Visit \cup {None, "initial"} /\ submitted \in Visit \cup {None}
  /\ visit \in [Visit -> {"new", "missing", "ready", "done"}] /\ unkept \in BOOLEAN
  /\ \A a \in acking : favorite[a.favorite].at \in {"there", "gone"}
  /\ \A c \in loaded : address[c.address] # "none"

\* The party of an order that did not cause an event.
OtherParty(o, e) == IF trail[o][e].actor = Buyer(o) THEN Seller(o) ELSE Buyer(o)

\* cancelOrder took the seller for the buyer: the order was paid after it had
\* been read.
Misjudged(o, e) == trail[o][e].actor = Seller(o) /\ trail[o][e].role = "BUYER"

\* Each event of an order is told once, and to the party that did not cause it;
\* except a cancellation by the seller that overtook the payment, which is told
\* to the seller himself.  Told is what is written or still to be written.
OtherPartyToldUnlessMisjudged ==
  \A o \in Request :
    /\ \A e \in 1..Len(trail[o]) :
         \E n \in notice \cup telling :
           /\ n.order = o /\ n.event = e
           /\ n.to = OtherParty(o, e) \/ Misjudged(o, e)
    /\ \A n, m \in notice \cup telling : n.order = m.order /\ n.event = m.event => n = m
    /\ \A n \in notice \cup telling : n.order = o => n.event \in 1..Len(trail[o])

\* favoriteStatusOf, for a product that is there.
StatusOf(f) ==
  CASE ~product[Wished[f]].published -> "UNAVAILABLE"
    [] product[Wished[f]].published /\ product[Wished[f]].price # favorite[f].copy.price -> "UPDATED"
    [] OTHER -> "ACTIVE"

\* A product is a favorite once, and a favorite shows UPDATED only if the
\* product was changed after it was added or acknowledged, counted from the
\* read of the one whose copy it has.
FavoritesTrue ==
  /\ \A f, g \in Favorite :
       /\ favorite[f].at = "there" /\ favorite[g].at = "there" /\ Wished[f] = Wished[g]
       => f = g
  /\ \A f \in Favorite :
       favorite[f].at = "there" /\ StatusOf(f) = "UPDATED" => favorite[f].copy.changed

\* There is at most one default address, and it is the one the user last chose,
\* unless he once chose one that had been deleted after it was read.
DefaultAsChosen ==
  /\ \A a, b \in Defaults : a = b
  /\ ~misled => Defaults = {chosen} \ {None}

\* Settings are those of the form last answered as saved: a request that found
\* no row never puts the initial ones in their place, and no form is lost unless
\* the row it goes to could not be created.
SettingsAsSaved == ~unkept /\ submitted # None => settings = submitted

\* What the user last chose is what is kept, of his addresses and his settings.
ChoicesKept == DefaultAsChosen /\ SettingsAsSaved
=============================================================================
