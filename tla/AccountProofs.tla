---------------------------- MODULE AccountProofs ----------------------------
(***************************************************************************)
(* Theorems about Account, for any users, products, requests, favorites,   *)
(* addresses and visits.                                                   *)
(***************************************************************************)
EXTENDS Account, TradeOrdersProofs

(***************************************************************************)
(* Every step of Account is a step of TradeOrders or none of its tables'   *)
(* business, so what is proved there holds here.  Its own properties are   *)
(* inductive with two additions: who a cancellation in progress is by and  *)
(* in which role, and that a copy differs from its product only if the     *)
(* product has changed, also while it is only held by a handler.           *)
(***************************************************************************)
CancelActors ==
  \A c \in canceling :
    /\ c.actor \in {Buyer(c.order), Seller(c.order)}
    /\ c.role = "SELLER" => c.actor = Seller(c.order)

TrueCopy(copy, p) == copy.changed = FALSE => copy.price = product[p].price

CopiesTrue ==
  /\ \A f \in Favorite :
       favorite[f].at \in {"loaded", "there"} => TrueCopy(favorite[f].copy, Wished[f])
  /\ \A a \in acking : TrueCopy(a.copy, Wished[a.favorite])

\* One favorite per product.
WishedOnce ==
  \A f, g \in Favorite :
    favorite[f].at = "there" /\ favorite[g].at = "there" /\ Wished[f] = Wished[g] => f = g

NoticeInv ==
  /\ notice \in SUBSET Notices /\ telling \in SUBSET Notices
  /\ OtherPartyToldUnlessMisjudged

FavoriteInv ==
  /\ favorite \in [Favorite -> FavoriteRow] /\ acking \in SUBSET Acks
  /\ \A a \in acking : favorite[a.favorite].at \in {"there", "gone"}
  /\ WishedOnce /\ CopiesTrue

AddressInv ==
  /\ address \in [Address -> AddressStates] /\ loaded \in SUBSET Changes
  /\ chosen \in Address \cup {None} /\ misled \in BOOLEAN
  /\ \A c \in loaded : address[c.address] # "none"
  /\ DefaultAsChosen

\* Only a missing row is created, and a form saved to a missing row is noted.
SettingInv ==
  /\ settings \in Visit \cup {None, "initial"} /\ submitted \in Visit \cup {None}
  /\ visit \in [Visit -> {"new", "missing", "ready", "done"}] /\ unkept \in BOOLEAN
  /\ SettingsAsSaved

AInv == TInv /\ CancelActors /\ NoticeInv /\ FavoriteInv /\ AddressInv /\ SettingInv

-----------------------------------------------------------------------------
(* Orders and products *)

\* An account step does to the tables of orders what one of their steps does.
LEMMA StepOfOrders == AccountNext => [Next]_tradeVars
  <1> SUFFICES ASSUME AccountNext
               PROVE  Next \/ UNCHANGED tradeVars
    OBVIOUS
  <1>1. CASE OrderStep
    BY <1>1 DEF OrderStep, Next
  <1>2. CASE QuietStep
    BY <1>2 DEF QuietStep, Next
  <1>3. ASSUME NEW p \in Product, EditProduct(p)
        PROVE  Next
    BY <1>3 DEF EditProduct, Next
  <1>4. ASSUME NEW n \in telling, Notify(n)
        PROVE  UNCHANGED tradeVars
    BY <1>4 DEF Notify
  <1>5. ASSUME NEW f \in Favorite, FavoriteLoad(f) \/ FavoriteAdd(f) \/ AckLoad(f)
        PROVE  UNCHANGED tradeVars
    BY <1>5 DEF FavoriteLoad, FavoriteAdd, AckLoad
  <1>6. ASSUME NEW gone \in SUBSET Favorite, RemoveFavorites(gone)
        PROVE  UNCHANGED tradeVars
    BY <1>6 DEF RemoveFavorites
  <1>7. ASSUME NEW a \in acking, AckCommit(a)
        PROVE  UNCHANGED tradeVars
    BY <1>7 DEF AckCommit
  <1>8. ASSUME NEW a \in Address, NEW default \in BOOLEAN,
               DeleteAddress(a) \/ CreateAddress(a, default) \/ LoadAddress(a, default)
        PROVE  UNCHANGED tradeVars
    BY <1>8 DEF DeleteAddress, CreateAddress, LoadAddress
  <1>9. ASSUME NEW c \in loaded, ChangeAddress(c)
        PROVE  UNCHANGED tradeVars
    BY <1>9 DEF ChangeAddress
  <1>10. ASSUME NEW v \in Visit, LookUp(v) \/ EnsureRow(v) \/ SaveForm(v) \/ LeaveSettings(v)
         PROVE  UNCHANGED tradeVars
    BY <1>10 DEF LookUp, EnsureRow, SaveForm, LeaveSettings, Others
  <1>11. QED
    BY <1>1, <1>2, <1>3, <1>4, <1>5, <1>6, <1>7, <1>8, <1>9, <1>10 DEF AccountNext

\* Account implements TradeOrders.
THEOREM AccountTrades == AccountSpec => Spec
  <1>1. AccountInit => Init
    BY DEF AccountInit
  <1>2. [AccountNext]_allAccountVars => [Next]_tradeVars
    BY StepOfOrders DEF allAccountVars
  <1>3. QED
    BY <1>1, <1>2, PTL DEF AccountSpec, Spec

\* The role of a cancellation in progress comes from cancelOrder.
LEMMA CancelActorsStep ==
  ASSUME CancelActors, [Next]_tradeVars
  PROVE  CancelActors'
  <1>1. ASSUME NEW o \in Request, NEW u \in User, CancelLoad(o, u)
        PROVE  CancelActors'
    <2> DEFINE new == [order |-> o, actor |-> u, role |-> CancelRole(o, u)]
    <2>1. /\ canceling' = canceling \cup {new}
          /\ u \in {Buyer(o), Seller(o)}
      BY <1>1 DEF CancelLoad
    <2>2. /\ new.actor \in {Buyer(new.order), Seller(new.order)}
          /\ new.role = "SELLER" => new.actor = Seller(new.order)
      BY <2>1 DEF CancelRole
    <2> HIDE DEF new
    <2>3. QED
      BY <2>1, <2>2 DEF CancelActors, Buyer, Seller
  <1>2. ASSUME canceling' \subseteq canceling
        PROVE  CancelActors'
    BY <1>2 DEF CancelActors, Buyer, Seller
  <1>3. ASSUME NEW r \in Request,
               \/ PlaceLookup(r) \/ PlaceRefused(r) \/ PlaceFails(r) \/ PlaceDuplicate(r) \/ PlaceCommit(r)
               \/ Pay(r) \/ Ship(r) \/ Confirm(r)
        PROVE  canceling' \subseteq canceling
    BY <1>3 DEF PlaceLookup, PlaceRefused, PlaceFails, PlaceDuplicate, PlaceCommit, Pay, Ship, Confirm
  <1>4. ASSUME NEW c \in canceling, CancelRefused(c) \/ CancelCommit(c)
        PROVE  canceling' \subseteq canceling
    BY <1>4 DEF CancelRefused, CancelCommit
  <1>5. ASSUME NEW p \in Product, NEW stock, NEW price,
               EditLoad(p) \/ ShelveProduct(p) \/ EditCommit(p, stock, price)
        PROVE  canceling' \subseteq canceling
    BY <1>5 DEF EditLoad, ShelveProduct, EditCommit
  <1>6. CASE UNCHANGED tradeVars
    BY <1>2, <1>6 DEF tradeVars
  <1>7. QED
    BY <1>1, <1>2, <1>3, <1>4, <1>5, <1>6 DEF Next

-----------------------------------------------------------------------------
(* Notifications *)

\* What the property says of one order, its events and the notifications.
Told(o, t, ns) ==
  /\ \A e \in 1..Len(t) :
       \E n \in ns :
         /\ n.order = o /\ n.event = e
         /\ \/ n.to = IF t[e].actor = Buyer(o) THEN Seller(o) ELSE Buyer(o)
            \/ t[e].actor = Seller(o) /\ t[e].role = "BUYER"
  /\ \A n, m \in ns : n.order = o /\ m.order = o /\ n.event = m.event => n = m
  /\ \A n \in ns : n.order = o => n.event \in 1..Len(t)

LEMMA ToldDefined ==
  ASSUME notice \in SUBSET Notices, telling \in SUBSET Notices
  PROVE  OtherPartyToldUnlessMisjudged
           <=> \A o \in Request : Told(o, trail[o], notice \cup telling)
  <1>1. \A n \in notice \cup telling : n.order \in Request
    BY DEF Notices
  <1>2. QED
    BY <1>1 DEF OtherPartyToldUnlessMisjudged, OtherParty, Misjudged, Told

\* One more event, and one more notification about it.
LEMMA ToldAppend ==
  ASSUME NEW o \in Request, NEW t \in Seq(Events), NEW v \in Events, NEW ns, NEW u,
         Told(o, t, ns),
         \/ u = IF v.actor = Buyer(o) THEN Seller(o) ELSE Buyer(o)
         \/ v.actor = Seller(o) /\ v.role = "BUYER"
  PROVE  Told(o, Append(t, v), ns \cup {[to |-> u, order |-> o, event |-> Len(t) + 1]})
  <1> DEFINE s == Append(t, v)
             len == Len(t)
             new == [to |-> u, order |-> o, event |-> len + 1]
  <1>1. /\ Len(s) = len + 1
        /\ s[len + 1] = v
        /\ \A i \in 1..len : s[i] = t[i]
    BY AppendEvent
  <1>2. len \in Nat
    OBVIOUS
  <1>3. new.to = u /\ new.order = o /\ new.event = len + 1
    OBVIOUS
  <1>4. Told(o, t, ns) /\ len = Len(t)
    OBVIOUS
  <1> HIDE DEF s, len, new
  <1>5. 1..Len(s) = (1..len) \cup {len + 1} /\ len + 1 \notin 1..len
    BY <1>1, <1>2
  <1>6. \A n \in ns : n.order = o => n.event \in 1..len
    BY <1>4 DEF Told
  <1>7. ASSUME NEW e \in 1..Len(s)
        PROVE  \E n \in ns \cup {new} :
                 /\ n.order = o /\ n.event = e
                 /\ \/ n.to = IF s[e].actor = Buyer(o) THEN Seller(o) ELSE Buyer(o)
                    \/ s[e].actor = Seller(o) /\ s[e].role = "BUYER"
    <2>1. CASE e = len + 1
      BY <1>1, <1>3, <2>1
    <2>2. CASE e \in 1..len
      BY <1>1, <1>4, <2>2 DEF Told
    <2>3. QED
      BY <1>5, <2>1, <2>2
  <1>8. \A n, m \in ns \cup {new} : n.order = o /\ m.order = o /\ n.event = m.event => n = m
    BY <1>3, <1>4, <1>5, <1>6 DEF Told
  <1>9. \A n \in ns \cup {new} : n.order = o => n.event \in 1..Len(s)
    BY <1>3, <1>5, <1>6
  <1>10. Told(o, s, ns \cup {new})
    BY <1>7, <1>8, <1>9 DEF Told
  <1>11. QED
    BY <1>10 DEF s, new, len

\* A handler that records an event and goes on to tell it.
LEMMA TellingKeeps ==
  ASSUME TInv, NoticeInv, NEW o \in Request, NEW from, NEW to, NEW actor, NEW role,
         NEW u \in User, [from |-> from, to |-> to, actor |-> actor, role |-> role] \in Events,
         Records(o, from, to, actor, role), Tellings(o, u), UNCHANGED notice,
         \/ u = IF actor = Buyer(o) THEN Seller(o) ELSE Buyer(o)
         \/ actor = Seller(o) /\ role = "BUYER"
  PROVE  NoticeInv'
  <1> DEFINE v == [from |-> from, to |-> to, actor |-> actor, role |-> role]
             new == [to |-> u, order |-> o, event |-> Len(trail[o]) + 1]
             ns == notice \cup telling
  <1>1. /\ trail \in [Request -> Seq(Events)]
        /\ trail[o] \in Seq(Events) /\ Len(trail[o]) \in Nat
    BY DEF TInv, TradeTypeOK
  <1>2. new \in Notices
    BY <1>1 DEF Notices
  <1>3. /\ notice' = notice /\ telling' = telling \cup {new}
        /\ notice' \in SUBSET Notices /\ telling' \in SUBSET Notices
    BY <1>2 DEF Tellings, NoticeInv
  <1>4. \A q \in Request : Told(q, trail[q], ns)
    BY ToldDefined DEF NoticeInv
  <1>5. Told(o, Append(trail[o], v), ns \cup {new})
    <2>1. v \in Events /\ v.actor = actor /\ v.role = role
      OBVIOUS
    <2> HIDE DEF v, ns
    <2>2. QED
      BY <1>1, <1>4, <2>1, ToldAppend
  <1>6. /\ trail'[o] = Append(trail[o], v)
        /\ \A q \in Request \ {o} : trail'[q] = trail[q]
    BY <1>1 DEF Records
  <1>7. new.order = o
    OBVIOUS
  <1>8. notice' \cup telling' = ns \cup {new}
    BY <1>3
  <1> HIDE DEF v, new, ns
  <1>9. ASSUME NEW q \in Request
        PROVE  Told(q, trail'[q], ns \cup {new})
    <2>1. CASE q = o
      BY <1>5, <1>6, <2>1
    <2>2. CASE q # o
      <3>1. trail'[q] = trail[q] /\ Told(q, trail[q], ns)
        BY <1>4, <1>6, <2>2
      <3>2. Told(q, trail[q], ns \cup {new})
        BY <1>7, <2>2, <3>1 DEF Told
      <3>3. QED
        BY <3>1, <3>2
    <2>3. QED
      BY <2>1, <2>2
  <1>10. OtherPartyToldUnlessMisjudged'
    <2>1. \A n \in notice' \cup telling' : n.order \in Request
      BY <1>3 DEF Notices
    <2>2. \A q \in Request : Told(q, trail'[q], notice' \cup telling')
      BY <1>8, <1>9
    <2>3. QED
      BY <2>1, <2>2 DEF OtherPartyToldUnlessMisjudged, OtherParty, Misjudged, Told, Buyer, Seller
  <1>11. QED
    BY <1>3, <1>10 DEF NoticeInv

LEMMA NoticeUntouched ==
  ASSUME NoticeInv, UNCHANGED trail, notice' \cup telling' = notice \cup telling
  PROVE  NoticeInv'
  BY DEF NoticeInv, OtherPartyToldUnlessMisjudged, OtherParty, Misjudged, Buyer, Seller

LEMMA OrderStepTells ==
  ASSUME TInv, CancelActors, NoticeInv, OrderStep
  PROVE  NoticeInv'
  <1>1. UNCHANGED notice
    BY DEF OrderStep
  <1>3. \A o \in Request : /\ Buyer(o) \in User /\ Seller(o) \in User
                           /\ order[o].status \in OrderStatuses \cup {"NONE"}
    BY Parties DEF TInv, TradeTypeOK, OrderRow
  <1>4. ASSUME NEW o \in Request, PlaceCommit(o), Tellings(o, Seller(o))
        PROVE  NoticeInv'
    <2>1. Records(o, "", "PENDING_PAYMENT", Buyer(o), "BUYER")
      BY <1>4 DEF PlaceCommit
    <2>2. [from |-> "", to |-> "PENDING_PAYMENT", actor |-> Buyer(o), role |-> "BUYER"]
            \in Events
      BY <1>3 DEF Events, OrderStatuses
    <2>3. QED
      BY <1>1, <1>3, <1>4, <2>1, <2>2, TellingKeeps
  <1>5. ASSUME NEW o \in Request, NEW to \in OrderStatuses, NEW actor \in User,
               NEW role \in {"BUYER", "SELLER"}, NEW u \in User,
               Transits(o, to, actor, role), Tellings(o, u),
               \/ u = IF actor = Buyer(o) THEN Seller(o) ELSE Buyer(o)
               \/ actor = Seller(o) /\ role = "BUYER"
        PROVE  NoticeInv'
    <2>1. /\ Records(o, order[o].status, to, actor, role)
          /\ order[o].status \in OrderStatuses
      BY <1>3, <1>5 DEF Transits, Exists
    <2>2. [from |-> order[o].status, to |-> to, actor |-> actor, role |-> role] \in Events
      BY <2>1 DEF Events
    <2>3. QED
      BY <1>1, <1>5, <2>1, <2>2, TellingKeeps
  <1>6. ASSUME NEW o \in Request, Pay(o) \/ Confirm(o), Tellings(o, Seller(o))
        PROVE  NoticeInv'
    <2>1. \E to \in OrderStatuses : Transits(o, to, Buyer(o), "BUYER")
      BY <1>6 DEF Pay, Confirm, OrderStatuses
    <2>2. QED
      BY <1>3, <1>5, <1>6, <2>1
  <1>7. ASSUME NEW o \in Request, Ship(o), Tellings(o, Buyer(o))
        PROVE  NoticeInv'
    <2>1. \E to \in OrderStatuses : Transits(o, to, Seller(o), "SELLER")
      BY <1>7 DEF Ship, OrderStatuses
    <2>2. Buyer(o) = IF Seller(o) = Buyer(o) THEN Seller(o) ELSE Buyer(o)
      OBVIOUS
    <2>3. QED
      BY <1>3, <1>5, <1>7, <2>1, <2>2
  <1>8. ASSUME NEW c \in canceling, CancelCommit(c), Tellings(c.order, CancelTells(c))
        PROVE  NoticeInv'
    <2>1. /\ c.order \in Request /\ c.actor \in User /\ c.role \in {"BUYER", "SELLER"}
          /\ c.actor \in {Buyer(c.order), Seller(c.order)}
          /\ c.role = "SELLER" => c.actor = Seller(c.order)
      BY DEF TInv, TradeTypeOK, Cancels, CancelActors
    <2>2. Transits(c.order, "CANCELED", c.actor, c.role) /\ "CANCELED" \in OrderStatuses
      BY <1>8 DEF CancelCommit, OrderStatuses
    <2>3. /\ CancelTells(c) \in User
          /\ \/ CancelTells(c) = IF c.actor = Buyer(c.order) THEN Seller(c.order)
                                                            ELSE Buyer(c.order)
             \/ c.actor = Seller(c.order) /\ c.role = "BUYER"
      BY <1>3, <2>1 DEF CancelTells
    <2>4. QED
      BY <1>5, <1>8, <2>1, <2>2, <2>3
  <1>9. QED
    BY <1>4, <1>6, <1>7, <1>8 DEF OrderStep

-----------------------------------------------------------------------------
(* Favorites *)

\* Only the seller's edit changes a price.
LEMMA PricesKept ==
  ASSUME TInv, OrderStep \/ QuietStep
  PROVE  \A p \in Product : product'[p].price = product[p].price
  <1> SUFFICES ASSUME NEW p \in Product
               PROVE  product'[p].price = product[p].price
    OBVIOUS
  <1>1. product \in [Product -> ProductRow] /\ product[p] \in ProductRow
    BY DEF TInv, TradeTypeOK
  <1>2. ASSUME NEW q \in Product, NEW stock, product' = [product EXCEPT ![q].stock = stock]
        PROVE  product'[p].price = product[p].price
    BY <1>1, <1>2 DEF ProductRow
  <1>3. ASSUME NEW o \in Request, PlaceCommit(o)
        PROVE  product'[p].price = product[p].price
    BY <1>2, <1>3, Parties DEF PlaceCommit
  <1>4. ASSUME NEW o \in Request,
               \/ Pay(o) \/ Confirm(o) \/ Ship(o)
               \/ PlaceLookup(o) \/ PlaceRefused(o) \/ PlaceFails(o) \/ PlaceDuplicate(o)
               \/ \E u \in User : CancelLoad(o, u)
        PROVE  UNCHANGED product
    BY <1>4 DEF Pay, Confirm, Ship, PlaceLookup, PlaceRefused, PlaceFails, PlaceDuplicate, CancelLoad
  <1>5. ASSUME NEW c \in canceling, CancelCommit(c)
        PROVE  product'[p].price = product[p].price
    <2>1. c.order \in Request
      BY DEF TInv, TradeTypeOK, Cancels
    <2>2. QED
      BY <1>2, <1>5, <2>1, Parties DEF CancelCommit
  <1>6. ASSUME NEW c \in canceling, CancelRefused(c)
        PROVE  UNCHANGED product
    BY <1>6 DEF CancelRefused
  <1>7. ASSUME NEW q \in Product, EditLoad(q)
        PROVE  UNCHANGED product
    BY <1>7 DEF EditLoad
  <1>8. ASSUME NEW q \in Product, ShelveProduct(q)
        PROVE  product'[p].price = product[p].price
    BY <1>1, <1>8 DEF ShelveProduct, ProductRow
  <1>9. QED
    BY <1>3, <1>4, <1>5, <1>6, <1>7, <1>8 DEF OrderStep, QuietStep

\* Rows that are neither added nor changed, while prices stay.
LEMMA FavoritesUntouched ==
  ASSUME FavoriteInv, UNCHANGED favoriteVars,
         \A p \in Product : product'[p].price = product[p].price
  PROVE  FavoriteInv'
  <1>1. \A f \in Favorite : Wished[f] \in Product
    BY AccountConstantsOK
  <1>2. \A a \in acking : a.favorite \in Favorite
    BY DEF FavoriteInv, Acks
  <1>3. CopiesTrue'
    BY <1>1, <1>2 DEF FavoriteInv, CopiesTrue, TrueCopy, favoriteVars
  <1>4. QED
    BY <1>3 DEF FavoriteInv, WishedOnce, favoriteVars

LEMMA CopyOfType ==
  ASSUME TInv, NEW p \in Product
  PROVE  /\ CopyOf(p) \in Copy
         /\ TrueCopy(CopyOf(p), p)
         /\ product[p].price \in Nat
  <1>1. product[p].price \in Nat
    BY DEF TInv, TradeTypeOK, ProductRow
  <1>2. QED
    BY <1>1 DEF CopyOf, Copy, TrueCopy

\* One favorite's row written, products and the other rows left alone.
LEMMA FavoriteWrite ==
  ASSUME FavoriteInv, NEW f \in Favorite, NEW row \in FavoriteRow,
         favorite' = [favorite EXCEPT ![f] = row],
         acking' \subseteq acking,
         UNCHANGED product,
         favorite[f].at \in {"there", "gone"} => row.at \in {"there", "gone"},
         row.at \in {"loaded", "there"} => TrueCopy(row.copy, Wished[f]),
         row.at = "there" => favorite[f].at = "there" \/ Favored(Wished[f]) = {}
  PROVE  FavoriteInv'
  <1>1. /\ favorite' \in [Favorite -> FavoriteRow]
        /\ favorite'[f] = row
        /\ \A g \in Favorite \ {f} : favorite'[g] = favorite[g]
    BY DEF FavoriteInv
  <1>2. \A a \in acking : a.favorite \in Favorite
    BY DEF FavoriteInv, Acks
  <1>3. \A a \in acking' : favorite'[a.favorite].at \in {"there", "gone"}
    BY <1>1, <1>2 DEF FavoriteInv
  <1>4. WishedOnce'
    BY <1>1 DEF FavoriteInv, WishedOnce, Favored
  <1>5. CopiesTrue'
    BY <1>1 DEF FavoriteInv, CopiesTrue, TrueCopy
  <1>6. acking' \in SUBSET Acks
    BY DEF FavoriteInv
  <1>7. QED
    BY <1>1, <1>3, <1>4, <1>5, <1>6 DEF FavoriteInv

\* A product is edited: its copies are outdated where the price has changed.
LEMMA EditKeepsFavorites ==
  ASSUME TInv, FavoriteInv, NEW p \in Product, EditProduct(p)
  PROVE  FavoriteInv'
  <1> DEFINE aged(copy) ==
        [copy EXCEPT !.changed = @ \/ product'[p].price # product[p].price]
             StillTrue(copy, q) == copy.changed = FALSE => copy.price = product'[q].price
  <1>1. /\ favorite' = [f \in Favorite |->
             IF Wished[f] = p THEN [favorite[f] EXCEPT !.copy = aged(@)] ELSE favorite[f]]
        /\ acking' = {[a EXCEPT !.copy = IF Wished[a.favorite] = p THEN aged(@) ELSE @] :
                        a \in acking}
    BY DEF EditProduct
  <1>2. \A q \in Product \ {p} : product'[q] = product[q]
    BY DEF EditProduct, EditCommit, TInv, TradeTypeOK
  <1>3. ASSUME NEW copy \in Copy
        PROVE  /\ aged(copy) \in Copy
               /\ TrueCopy(copy, p) => StillTrue(aged(copy), p)
    <2> DEFINE changed == copy.changed \/ product'[p].price # product[p].price
    <2>1. changed \in BOOLEAN
      OBVIOUS
    <2>2. changed = FALSE => copy.changed = FALSE /\ product'[p].price = product[p].price
      BY DEF Copy
    <2>3. aged(copy) = [copy EXCEPT !.changed = changed]
      OBVIOUS
    <2> HIDE DEF aged, changed
    <2>4. /\ aged(copy) \in Copy
          /\ aged(copy).price = copy.price
          /\ aged(copy).changed = changed
      BY <2>1, <2>3 DEF Copy
    <2>5. QED
      BY <2>2, <2>4 DEF TrueCopy
  <1>4. /\ \A f \in Favorite : favorite[f] \in FavoriteRow /\ favorite[f].copy \in Copy
        /\ \A a \in acking : a \in Acks /\ a.favorite \in Favorite /\ a.copy \in Copy
    BY DEF FavoriteInv, FavoriteRow, Acks
  <1> HIDE DEF aged
  <1>5. ASSUME NEW f \in Favorite
        PROVE  /\ favorite'[f] \in FavoriteRow
               /\ favorite'[f].at = favorite[f].at
               /\ favorite'[f].copy = IF Wished[f] = p THEN aged(favorite[f].copy)
                                                       ELSE favorite[f].copy
    <2>1. CASE Wished[f] = p
      <3>1. favorite'[f] = [favorite[f] EXCEPT !.copy = aged(favorite[f].copy)]
        BY <1>1, <2>1
      <3>2. aged(favorite[f].copy) \in Copy
        BY <1>3, <1>4
      <3>3. QED
        BY <1>4, <2>1, <3>1, <3>2 DEF FavoriteRow
    <2>2. CASE Wished[f] # p
      BY <1>1, <1>4, <2>2
    <2>3. QED
      BY <2>1, <2>2
  <1>6. ASSUME NEW b \in acking'
        PROVE  \E a \in acking :
                 /\ b \in Acks /\ b.favorite = a.favorite
                 /\ b.copy = IF Wished[a.favorite] = p THEN aged(a.copy) ELSE a.copy
    <2>1. PICK a \in acking :
            b = [a EXCEPT !.copy = IF Wished[a.favorite] = p THEN aged(a.copy) ELSE a.copy]
      BY <1>1
    <2>2. (IF Wished[a.favorite] = p THEN aged(a.copy) ELSE a.copy) \in Copy
      BY <1>3, <1>4
    <2>3. QED
      BY <1>4, <2>1, <2>2 DEF Acks
  <1>7. /\ favorite' \in [Favorite -> FavoriteRow] /\ acking' \in SUBSET Acks
        /\ \A b \in acking' : favorite'[b.favorite].at \in {"there", "gone"}
    <2>1. favorite' \in [Favorite -> FavoriteRow]
      BY <1>1, <1>5
    <2>2. \A b \in acking' : favorite'[b.favorite].at \in {"there", "gone"}
      BY <1>4, <1>5, <1>6 DEF FavoriteInv
    <2>3. QED
      BY <1>6, <2>1, <2>2
  <1>8. WishedOnce'
    BY <1>5 DEF FavoriteInv, WishedOnce
  <1>9. \A f \in Favorite : Wished[f] \in Product
    BY AccountConstantsOK
  <1>10. ASSUME NEW f \in Favorite, NEW copy \in Copy, TrueCopy(copy, Wished[f])
         PROVE  StillTrue(IF Wished[f] = p THEN aged(copy) ELSE copy, Wished[f])
    <2>1. CASE Wished[f] = p
      BY <1>3, <1>10, <2>1
    <2>2. CASE Wished[f] # p
      BY <1>2, <1>9, <1>10, <2>2 DEF TrueCopy
    <2>3. QED
      BY <2>1, <2>2
  <1>11. CopiesTrue'
    <2>1. ASSUME NEW f \in Favorite, favorite'[f].at \in {"loaded", "there"}
          PROVE  StillTrue(favorite'[f].copy, Wished[f])
      <3>1. TrueCopy(favorite[f].copy, Wished[f])
        BY <1>5, <2>1 DEF FavoriteInv, CopiesTrue
      <3>2. StillTrue(IF Wished[f] = p THEN aged(favorite[f].copy) ELSE favorite[f].copy,
                      Wished[f])
        BY <1>4, <1>10, <3>1
      <3>3. QED
        BY <1>5, <3>2
    <2>2. ASSUME NEW b \in acking'
          PROVE  StillTrue(b.copy, Wished[b.favorite])
      <3>1. PICK a \in acking :
              /\ b.favorite = a.favorite
              /\ b.copy = IF Wished[a.favorite] = p THEN aged(a.copy) ELSE a.copy
        BY <1>6
      <3>2. TrueCopy(a.copy, Wished[a.favorite])
        BY DEF FavoriteInv, CopiesTrue
      <3>3. StillTrue(IF Wished[a.favorite] = p THEN aged(a.copy) ELSE a.copy,
                      Wished[a.favorite])
        BY <1>4, <1>10, <3>2
      <3>4. QED
        BY <3>1, <3>3
    <2>3. QED
      BY <2>1, <2>2 DEF CopiesTrue, TrueCopy
  <1>12. QED
    BY <1>7, <1>8, <1>11 DEF FavoriteInv

\* Favorites are added, acknowledged and removed while products stay.
LEMMA FavoriteSteps ==
  ASSUME TInv, FavoriteInv,
         \/ \E f \in Favorite : FavoriteLoad(f) \/ FavoriteAdd(f) \/ AckLoad(f)
         \/ \E gone \in SUBSET Favorite : RemoveFavorites(gone)
         \/ \E a \in acking : AckCommit(a)
  PROVE  FavoriteInv'
  <1>1. /\ favorite \in [Favorite -> FavoriteRow]
        /\ \A f \in Favorite : /\ Wished[f] \in Product
                               /\ favorite[f] \in FavoriteRow
                               /\ favorite[f].copy \in Copy
        /\ \A a \in acking : a.favorite \in Favorite /\ a.copy \in Copy
    BY AccountConstantsOK DEF FavoriteInv, FavoriteRow, Acks
  <1>2. ASSUME NEW f \in Favorite, FavoriteLoad(f)
        PROVE  FavoriteInv'
    <2> DEFINE row == [at |-> IF product[Wished[f]].published THEN "loaded" ELSE "refused",
                       copy |-> CopyOf(Wished[f])]
    <2>1. /\ favorite' = [favorite EXCEPT ![f] = row]
          /\ favorite[f].at = "new"
          /\ UNCHANGED <<acking, product>>
      BY <1>2 DEF FavoriteLoad, tradeVars
    <2>2. /\ row \in FavoriteRow
          /\ row.at \in {"loaded", "refused"}
          /\ TrueCopy(row.copy, Wished[f])
      BY <1>1, CopyOfType DEF FavoriteRow
    <2> HIDE DEF row
    <2>3. QED
      BY <2>1, <2>2, FavoriteWrite
  <1>3. ASSUME NEW f \in Favorite, FavoriteAdd(f)
        PROVE  FavoriteInv'
    <2> DEFINE at == IF Favored(Wished[f]) = {} THEN "there" ELSE "refused"
               row == [favorite[f] EXCEPT !.at = at]
    <2>1. /\ favorite' = [favorite EXCEPT ![f] = row]
          /\ favorite[f].at = "loaded"
          /\ UNCHANGED <<acking, product>>
      BY <1>1, <1>3 DEF FavoriteAdd, tradeVars
    <2>2. /\ at \in {"there", "refused"}
          /\ at = "there" => Favored(Wished[f]) = {}
      OBVIOUS
    <2> HIDE DEF at
    <2>3. /\ row \in FavoriteRow
          /\ row.at = at /\ row.copy = favorite[f].copy
      BY <1>1, <2>2 DEF FavoriteRow
    <2>4. TrueCopy(favorite[f].copy, Wished[f])
      BY <2>1 DEF FavoriteInv, CopiesTrue
    <2> HIDE DEF row
    <2>5. QED
      BY <2>1, <2>2, <2>3, <2>4, FavoriteWrite
  <1>4. ASSUME NEW f \in Favorite, AckLoad(f)
        PROVE  FavoriteInv'
    <2> DEFINE new == [favorite |-> f, copy |-> CopyOf(Wished[f])]
    <2>1. /\ acking' = acking \cup {new}
          /\ favorite[f].at = "there"
          /\ UNCHANGED <<favorite, product>>
      BY <1>4 DEF AckLoad, tradeVars
    <2>2. /\ new \in Acks /\ new.favorite = f
          /\ TrueCopy(new.copy, Wished[f])
      BY <1>1, CopyOfType DEF Acks
    <2> HIDE DEF new
    <2>3. CopiesTrue'
      BY <2>1, <2>2 DEF FavoriteInv, CopiesTrue, TrueCopy
    <2>4. QED
      BY <2>1, <2>2, <2>3 DEF FavoriteInv, WishedOnce
  <1>5. ASSUME NEW gone \in SUBSET Favorite, RemoveFavorites(gone)
        PROVE  FavoriteInv'
    <2>1. UNCHANGED <<acking, product>>
      BY <1>5 DEF RemoveFavorites, tradeVars
    <2>2. ASSUME NEW f \in Favorite
          PROVE  /\ favorite'[f] \in FavoriteRow
                 /\ \/ favorite'[f] = favorite[f]
                    \/ favorite'[f].at = "gone" /\ favorite[f].at = "there"
      BY <1>1, <1>5 DEF RemoveFavorites, FavoriteRow
    <2>3. favorite' \in [Favorite -> FavoriteRow]
      BY <1>5, <2>2 DEF RemoveFavorites
    <2>4. \A a \in acking' : favorite'[a.favorite].at \in {"there", "gone"}
      BY <1>1, <2>1, <2>2 DEF FavoriteInv
    <2>5. WishedOnce' /\ CopiesTrue'
      BY <2>1, <2>2 DEF FavoriteInv, WishedOnce, CopiesTrue, TrueCopy
    <2>6. QED
      BY <2>1, <2>3, <2>4, <2>5 DEF FavoriteInv
  <1>6. ASSUME NEW a \in acking, AckCommit(a)
        PROVE  FavoriteInv'
    <2> DEFINE f == a.favorite
               copy == IF favorite[f].at = "there" THEN a.copy ELSE favorite[f].copy
               row == [favorite[f] EXCEPT !.copy = copy]
    <2>1. /\ favorite' = [favorite EXCEPT ![f] = row]
          /\ acking' \subseteq acking
          /\ UNCHANGED product
      BY <1>1, <1>6 DEF AckCommit, tradeVars
    <2>2. f \in Favorite /\ copy \in Copy /\ favorite[f].at \in {"there", "gone"}
      BY <1>1 DEF FavoriteInv
    <2>3. favorite[f].at = "there" => TrueCopy(copy, Wished[f])
      BY DEF FavoriteInv, CopiesTrue
    <2> HIDE DEF copy, f
    <2>4. row \in FavoriteRow /\ row.at = favorite[f].at /\ row.copy = copy
      BY <1>1, <2>2 DEF FavoriteRow
    <2> HIDE DEF row
    <2>5. QED
      BY <2>1, <2>2, <2>3, <2>4, FavoriteWrite
  <1>7. QED
    BY <1>2, <1>3, <1>4, <1>5, <1>6

-----------------------------------------------------------------------------
(* Addresses *)

\* The default is set after it was taken from all addresses.
LEMMA OneDefault ==
  ASSUME NEW cleared \in [Address -> AddressStates], NEW a \in Address,
         \A b \in Address : cleared[b] # "default",
         address' = [cleared EXCEPT ![a] = "default"]
  PROVE  Defaults' = {a}
  <1>1. \A b \in Address : address'[b] = "default" <=> b = a
    OBVIOUS
  <1>2. QED
    BY <1>1 DEF Defaults

LEMMA AddressSteps ==
  ASSUME AddressInv,
         \/ \E a \in Address :
              \/ DeleteAddress(a)
              \/ \E default \in BOOLEAN : CreateAddress(a, default) \/ LoadAddress(a, default)
         \/ \E c \in loaded : ChangeAddress(c)
  PROVE  AddressInv'
  <1> USE AccountConstantsOK
  <1>1. /\ address \in [Address -> AddressStates]
        /\ \A c \in loaded : c.address \in Address /\ c.default \in BOOLEAN
    BY DEF AddressInv, Changes
  <1>2. /\ Cleared \in [Address -> AddressStates]
        /\ \A a \in Address : /\ Cleared[a] # "default"
                              /\ Cleared[a] = "none" <=> address[a] = "none"
    BY <1>1 DEF Cleared, AddressStates
  <1>3. ASSUME NEW a \in Address, DeleteAddress(a)
        PROVE  AddressInv'
    <2>1. /\ address' = [address EXCEPT ![a] = "gone"]
          /\ chosen' = IF chosen = a THEN None ELSE chosen
          /\ UNCHANGED <<loaded, misled>>
          /\ HasRow(a)
      BY <1>3 DEF DeleteAddress
    <2>2. Defaults' = Defaults \ {a}
      BY <1>1, <2>1 DEF Defaults
    <2>3. DefaultAsChosen'
      BY <2>1, <2>2 DEF AddressInv, DefaultAsChosen
    <2>4. QED
      BY <1>1, <2>1, <2>3 DEF AddressInv, AddressStates
  <1>4. ASSUME NEW a \in Address, NEW default \in BOOLEAN, CreateAddress(a, default)
        PROVE  AddressInv'
    <2>1. /\ address[a] = "none"
          /\ UNCHANGED <<loaded, misled>>
          /\ chosen' = IF default THEN a ELSE chosen
      BY <1>4 DEF CreateAddress
    <2>2. CASE default
      <3>1. address' = [Cleared EXCEPT ![a] = "default"]
        BY <1>4, <2>2 DEF CreateAddress
      <3>2. Defaults' = {a}
        BY <1>2, <3>1, OneDefault
      <3>3. DefaultAsChosen'
        BY <2>1, <2>2, <3>2 DEF DefaultAsChosen
      <3>4. QED
        BY <1>1, <1>2, <2>1, <3>1, <3>3 DEF AddressInv, AddressStates
    <2>3. CASE ~default
      <3>1. address' = [address EXCEPT ![a] = "plain"]
        BY <1>4, <2>3 DEF CreateAddress
      <3>2. Defaults' = Defaults
        BY <1>1, <2>1, <3>1 DEF Defaults
      <3>3. DefaultAsChosen'
        BY <2>1, <2>3, <3>2 DEF AddressInv, DefaultAsChosen
      <3>4. QED
        BY <1>1, <2>1, <3>1, <3>3 DEF AddressInv, AddressStates
    <2>4. QED
      BY <1>4, <2>2, <2>3
  <1>5. ASSUME NEW a \in Address, NEW default \in BOOLEAN, LoadAddress(a, default)
        PROVE  AddressInv'
    BY <1>1, <1>5 DEF AddressInv, LoadAddress, HasRow, Changes, DefaultAsChosen, Defaults
  <1>6. ASSUME NEW c \in loaded, ChangeAddress(c)
        PROVE  AddressInv'
    <2> DEFINE a == c.address
    <2>1. /\ a \in Address /\ c.default \in BOOLEAN
          /\ address[a] # "none"
      BY <1>1 DEF AddressInv
    <2>2. /\ loaded' = loaded \ {c}
          /\ chosen' = IF c.default THEN a ELSE IF chosen = a THEN None ELSE chosen
          /\ misled' = (misled \/ (c.default /\ ~HasRow(a)))
      BY <1>6 DEF ChangeAddress
    <2>3. address' = IF HasRow(a)
                       THEN [IF c.default THEN Cleared ELSE address EXCEPT
                               ![a] = IF c.default THEN "default" ELSE "plain"]
                       ELSE IF c.default THEN Cleared ELSE address
      BY <1>6 DEF ChangeAddress
    <2> HIDE DEF a
    <2>4. CASE c.default
      <3>1. CASE HasRow(a)
        <4>1. address' = [Cleared EXCEPT ![a] = "default"]
          BY <2>3, <2>4, <3>1
        <4>2. Defaults' = {a}
          BY <1>2, <2>1, <4>1, OneDefault
        <4>3. DefaultAsChosen'
          BY <2>1, <2>2, <2>4, <4>2 DEF DefaultAsChosen
        <4>4. misled' \in BOOLEAN
          BY <2>2
        <4>5. QED
          BY <1>1, <1>2, <2>1, <2>2, <2>4, <4>1, <4>3, <4>4 DEF AddressInv, AddressStates
      <3>2. CASE ~HasRow(a)
        <4>1. address' = Cleared
          BY <2>3, <2>4, <3>2
        <4>2. Defaults' = {} /\ misled' = TRUE
          <5>1. \A b \in Address : address'[b] # "default"
            BY <1>2, <4>1
          <5>2. QED
            BY <2>2, <2>4, <3>2, <5>1 DEF Defaults
        <4>3. DefaultAsChosen'
          BY <4>2 DEF DefaultAsChosen
        <4>4. QED
          BY <1>1, <1>2, <2>1, <2>2, <2>4, <4>1, <4>2, <4>3 DEF AddressInv, AddressStates
      <3>3. QED
        BY <3>1, <3>2
    <2>5. CASE ~c.default
      <3>1. /\ chosen' = IF chosen = a THEN None ELSE chosen
            /\ misled' = misled
        BY <2>2, <2>5 DEF AddressInv
      <3>2. /\ address' \in [Address -> AddressStates]
            /\ Defaults' = Defaults \ {a}
            /\ \A b \in Address : address'[b] = "none" => address[b] = "none"
        BY <1>1, <2>1, <2>3, <2>5 DEF Defaults, HasRow, AddressStates
      <3>3. DefaultAsChosen'
        BY <3>1, <3>2 DEF AddressInv, DefaultAsChosen
      <3>4. QED
        BY <1>1, <2>2, <3>1, <3>2, <3>3 DEF AddressInv
    <2>6. QED
      BY <2>1, <2>4, <2>5
  <1>7. QED
    BY <1>3, <1>4, <1>5, <1>6

-----------------------------------------------------------------------------
(* Settings *)

\* The row is created, and then only overwritten by forms that are answered.
LEMMA SettingSteps ==
  ASSUME SettingInv, NEW v \in Visit,
         LookUp(v) \/ EnsureRow(v) \/ SaveForm(v) \/ LeaveSettings(v)
  PROVE  SettingInv'
  <1> USE AccountConstantsOK
  <1>1. CASE LookUp(v)
    BY <1>1 DEF LookUp, SettingInv, SettingsAsSaved, Arrives
  <1>2. CASE EnsureRow(v)
    <2>1. settings' = settings \/ (settings = None /\ settings' = "initial")
      BY <1>2 DEF EnsureRow
    <2>2. settings = None => unkept \/ submitted = None
      BY DEF SettingInv, SettingsAsSaved
    <2>3. SettingsAsSaved'
      BY <1>2, <2>1, <2>2 DEF EnsureRow, SettingInv, SettingsAsSaved
    <2>4. QED
      BY <1>2, <2>1, <2>3 DEF EnsureRow, SettingInv, Arrives
  <1>3. CASE SaveForm(v)
    <2>1. /\ settings' = IF settings = None THEN None ELSE v
          /\ submitted' = v
          /\ unkept' = (unkept \/ settings = None)
      BY <1>3 DEF SaveForm
    <2>2. unkept' \in BOOLEAN /\ SettingsAsSaved'
      BY <2>1 DEF SettingInv, SettingsAsSaved
    <2>3. QED
      BY <1>3, <2>1, <2>2 DEF SaveForm, SettingInv, Arrives
  <1>4. CASE LeaveSettings(v)
    BY <1>4 DEF LeaveSettings, SettingInv, SettingsAsSaved, Arrives
  <1>5. QED
    BY <1>1, <1>2, <1>3, <1>4

LEMMA SettingUntouched ==
  ASSUME SettingInv, UNCHANGED settingVars
  PROVE  SettingInv'
  BY DEF SettingInv, settingVars, SettingsAsSaved

-----------------------------------------------------------------------------
(* The invariant *)

LEMMA InitAInv == AccountInit => AInv
  <1> SUFFICES ASSUME AccountInit
               PROVE  AInv
    OBVIOUS
  <1>1. TInv
    BY InitInvariant DEF AccountInit
  <1>2. CancelActors
    BY DEF AccountInit, Init, CancelActors
  <1>3. NoticeInv
    <2>1. \A o \in Request : trail[o] = <<>>
      BY DEF AccountInit, Init
    <2>2. \A o \in Request : 1..Len(trail[o]) = {}
      BY <2>1
    <2>3. QED
      BY <2>2 DEF AccountInit, NoticeInv, OtherPartyToldUnlessMisjudged
  <1>4. FavoriteInv
    <2>1. \A f \in Favorite : Wished[f] \in Product
      BY AccountConstantsOK
    <2>2. \A f \in Favorite : /\ [at |-> "new", copy |-> CopyOf(Wished[f])] \in FavoriteRow
                              /\ favorite[f].at = "new"
      BY <1>1, <2>1, CopyOfType DEF AccountInit, FavoriteRow
    <2>3. favorite \in [Favorite -> FavoriteRow]
      BY <2>2 DEF AccountInit
    <2>4. QED
      BY <2>2, <2>3 DEF AccountInit, FavoriteInv, WishedOnce, CopiesTrue
  <1>5. AddressInv
    BY DEF AccountInit, AddressInv, AddressStates, DefaultAsChosen, Defaults
  <1>6. SettingInv
    BY DEF AccountInit, SettingInv, SettingsAsSaved
  <1>7. QED
    BY <1>1, <1>2, <1>3, <1>4, <1>5, <1>6 DEF AInv

LEMMA AddressUntouched ==
  ASSUME AddressInv, UNCHANGED addressVars
  PROVE  AddressInv'
  BY DEF AddressInv, addressVars, DefaultAsChosen, Defaults

LEMMA NextAInv == AInv /\ [AccountNext]_allAccountVars => AInv'
  <1> SUFFICES ASSUME AInv, [AccountNext]_allAccountVars
               PROVE  AInv'
    OBVIOUS
  <1>1. [Next]_tradeVars
    BY StepOfOrders DEF allAccountVars
  <1>2. TInv' /\ CancelActors'
    BY <1>1, NextInvariant, CancelActorsStep DEF AInv
  <1>3. CASE OrderStep
    <2>1. NoticeInv'
      BY <1>3, OrderStepTells DEF AInv
    <2>2. UNCHANGED <<favoriteVars, addressVars, settingVars>>
      BY <1>3 DEF OrderStep
    <2>3. QED
      BY <1>2, <1>3, <2>1, <2>2, PricesKept, FavoritesUntouched, AddressUntouched, SettingUntouched DEF AInv
  <1>4. CASE QuietStep
    <2>1. UNCHANGED <<notice, telling, favoriteVars, addressVars, settingVars>>
      BY <1>4 DEF QuietStep, accountVars, noticeVars
    <2>2. UNCHANGED trail
      BY <1>4 DEF QuietStep, PlaceLookup, PlaceRefused, PlaceFails, PlaceDuplicate, CancelLoad,
                  CancelRefused, EditLoad, ShelveProduct
    <2>3. NoticeInv'
      BY <2>1, <2>2, NoticeUntouched DEF AInv
    <2>4. QED
      BY <1>2, <1>4, <2>1, <2>3, PricesKept, FavoritesUntouched, AddressUntouched, SettingUntouched DEF AInv
  <1>5. ASSUME NEW n \in telling, Notify(n)
        PROVE  AInv'
    <2>1. /\ notice' \cup telling' = notice \cup telling
          /\ UNCHANGED <<tradeVars, favoriteVars, addressVars, settingVars>>
      BY <1>5 DEF Notify
    <2>2. UNCHANGED <<trail, product>>
      BY <2>1 DEF tradeVars
    <2>3. NoticeInv'
      BY <2>1, <2>2, NoticeUntouched DEF AInv
    <2>4. QED
      BY <1>2, <2>1, <2>2, <2>3, FavoritesUntouched, AddressUntouched, SettingUntouched DEF AInv
  <1>6. ASSUME NEW p \in Product, EditProduct(p)
        PROVE  AInv'
    <2>1. UNCHANGED <<trail, notice, telling, addressVars, settingVars>>
      BY <1>6 DEF EditProduct, EditCommit, noticeVars
    <2>2. NoticeInv'
      BY <2>1, NoticeUntouched DEF AInv
    <2>3. QED
      BY <1>2, <1>6, <2>1, <2>2, EditKeepsFavorites, AddressUntouched, SettingUntouched DEF AInv
  <1>7. ASSUME \/ \E f \in Favorite : FavoriteLoad(f) \/ FavoriteAdd(f) \/ AckLoad(f)
               \/ \E gone \in SUBSET Favorite : RemoveFavorites(gone)
               \/ \E a \in acking : AckCommit(a)
        PROVE  AInv'
    <2>1. UNCHANGED <<trail, notice, telling, addressVars, settingVars>>
      BY <1>7 DEF FavoriteLoad, FavoriteAdd, AckLoad, RemoveFavorites, AckCommit,
                  tradeVars, noticeVars
    <2>2. NoticeInv'
      BY <2>1, NoticeUntouched DEF AInv
    <2>3. QED
      BY <1>2, <1>7, <2>1, <2>2, FavoriteSteps, AddressUntouched, SettingUntouched DEF AInv
  <1>8. ASSUME \/ \E a \in Address :
                    \/ DeleteAddress(a)
                    \/ \E default \in BOOLEAN :
                         CreateAddress(a, default) \/ LoadAddress(a, default)
               \/ \E c \in loaded : ChangeAddress(c)
        PROVE  AInv'
    <2>1. UNCHANGED <<trail, product, notice, telling, favoriteVars, settingVars>>
      BY <1>8 DEF DeleteAddress, CreateAddress, LoadAddress, ChangeAddress,
                  tradeVars, noticeVars
    <2>2. NoticeInv' /\ FavoriteInv'
      BY <2>1, NoticeUntouched, FavoritesUntouched DEF AInv
    <2>3. QED
      BY <1>2, <1>8, <2>1, <2>2, AddressSteps, SettingUntouched DEF AInv
  <1>9. CASE UNCHANGED allAccountVars
    <2>1. UNCHANGED <<trail, product, notice, telling, favoriteVars, addressVars, settingVars>>
      BY <1>9 DEF allAccountVars, accountVars, noticeVars, tradeVars
    <2>2. NoticeInv' /\ FavoriteInv'
      BY <2>1, NoticeUntouched, FavoritesUntouched DEF AInv
    <2>3. QED
      BY <1>2, <2>1, <2>2, AddressUntouched, SettingUntouched DEF AInv
  <1>10. ASSUME NEW v \in Visit, LookUp(v) \/ EnsureRow(v) \/ SaveForm(v) \/ LeaveSettings(v)
         PROVE  AInv'
    <2>1. UNCHANGED <<trail, product, notice, telling, favoriteVars, addressVars>>
      BY <1>10 DEF LookUp, EnsureRow, SaveForm, LeaveSettings, Others, tradeVars, noticeVars
    <2>2. NoticeInv' /\ FavoriteInv'
      BY <2>1, NoticeUntouched, FavoritesUntouched DEF AInv
    <2>3. QED
      BY <1>2, <1>10, <2>1, <2>2, AddressUntouched, SettingSteps DEF AInv
  <1>11. QED
    BY <1>3, <1>4, <1>5, <1>6, <1>7, <1>8, <1>9, <1>10 DEF AccountNext

THEOREM AccountInvariance == AccountSpec => []AInv
  BY InitAInv, NextAInv, PTL DEF AccountSpec

\* The tables have the shape the model declares; an acknowledgement under way is
\* of a favorite that was added, and a change of an address of one that was
\* created.
THEOREM AccountTypeCorrect == AccountSpec => []AccountTypeOK
  <1>1. AInv => AccountTypeOK
    BY DEF AInv, NoticeInv, FavoriteInv, AddressInv, SettingInv, AccountTypeOK
  <1>2. QED
    BY <1>1, AccountInvariance, PTL

\* Every event of an order is told once, to the party that did not cause it, as
\* long as cancelOrder did not take the seller for the buyer.
THEOREM OtherPartiesTold == AccountSpec => []OtherPartyToldUnlessMisjudged
  BY AccountInvariance, PTL DEF AInv, NoticeInv

\* A favorite shows UPDATED only if its product was changed after the read its
\* copy is from, and no product is a favorite twice.
THEOREM FavoritesAreTrue == AccountSpec => []FavoritesTrue
  <1>1. AInv => FavoritesTrue
    <2> SUFFICES ASSUME AInv
                 PROVE  FavoritesTrue
      OBVIOUS
    <2>1. WishedOnce
      BY DEF AInv, FavoriteInv
    <2>2. ASSUME NEW f \in Favorite, favorite[f].at = "there", StatusOf(f) = "UPDATED"
          PROVE  favorite[f].copy.changed
      <3>1. product[Wished[f]].price # favorite[f].copy.price
        BY <2>2 DEF StatusOf
      <3>2. favorite[f].copy.changed \in BOOLEAN
        BY DEF AInv, FavoriteInv, FavoriteRow, Copy
      <3>3. QED
        BY <2>2, <3>1, <3>2 DEF AInv, FavoriteInv, CopiesTrue, TrueCopy
    <2>3. QED
      BY <2>1, <2>2 DEF FavoritesTrue, WishedOnce
  <1>2. QED
    BY <1>1, AccountInvariance, PTL

\* The default address is the one last chosen, unless one was chosen that had
\* been deleted after it was read, and there are never two; the settings are the
\* ones last saved, unless their row could not be created.
THEOREM ChoicesAreKept == AccountSpec => []ChoicesKept
  BY AccountInvariance, PTL DEF AInv, AddressInv, SettingInv, ChoicesKept

\* Notifications, favorites, addresses and settings leave what the orders promise
\* as it was: the escrow, the keys, and the sums.
THEOREM AccountKeepsOrders ==
  AccountSpec => /\ EscrowKept /\ OrderKeysKept
                 /\ [](OneOrderPerKey /\ TrailComplete /\ StockAccounted /\ MoneyConserved)
  BY AccountTrades, OrdersKeepEscrow, OrdersKeepKeys, KeysHaveOneOrder, TrailsComplete,
     StockConserved, MoneyNeverLost, PTL
=============================================================================
