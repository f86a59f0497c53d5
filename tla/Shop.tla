-------------------------------- MODULE Shop --------------------------------
(***************************************************************************)
(* A merchant and a customer: shops that sell from the cart                *)
(* (map/vending.c), stores that buy (map/buyingstore.c), the rows both     *)
(* write into their tables, @autotrade, and a map-server that crashes and  *)
(* opens the shops of absent merchants again.  Weights, distance and the   *)
(* tax are left out; saves reach the tables at once.                       *)
(***************************************************************************)
EXTENDS Naturals, Sequences, FiniteSets, SequencesExt, FiniteSetsExt

CONSTANTS Ware,      \* items: two may have one name and differ in their cards
          Plain,     \* those without cards, which stores buy
          NameOf,    \* the name of each
          Cells,     \* bound: MAX_INVENTORY, cells of an inventory
          Stack,     \* bound: MAX_AMOUNT, pieces in a cell
          Prices,    \* prices asked in a shop
          OfferPrices,    \* prices offered by a store
          Funds,     \* zeny of each person at the start
          Pieces,    \* how many there are of each
          MaxShops,  \* bound: shops and stores opened since the last start
          Filtered   \* whether requests name items that cannot be sold

Merchant == "merchant"
Customer == "customer"
Person == {Merchant, Customer}
NoWare == "none"
CartCells == 1 .. Cardinality(Ware)
Lines == 1 .. Cardinality(Ware)

ASSUME ShopAssumption ==
  /\ IsFiniteSet(Ware) /\ NoWare \notin Ware /\ Prices \union OfferPrices \subseteq Nat
  /\ {Cells, Stack, Funds, MaxShops} \subseteq Nat /\ Pieces \in [Ware -> 1 .. Stack]
  /\ Plain \subseteq Ware /\ Filtered \in BOOLEAN
  /\ \A v, w \in Plain : NameOf[v] = NameOf[w] => v = w

VARIABLES pocket,       \* inventories: pieces of each ware
          cash,         \* zeny
          cart,         \* the merchant's cart, cell by cell
          vending,      \* the first vend_num entries of sd->vending
          vender_id,
          buyingstore, buyer_id,
          nextid,       \* vending_nextid and buyingstore_nextid
          presence,     \* of the merchant
          autotrader,   \* what the tables said when the server started
          vendings,     \* table of shops with the rows of their items
          buyingstores, \* table of stores
          vended_id,    \* the shop whose list the customer has
          seen,         \* ghost: the prices on that list
          saved         \* pocket, cash and cart by the char-server

shopVars == <<pocket, cash, cart, vending, vender_id, buyingstore, buyer_id, nextid,
              presence, autotrader, vendings, buyingstores, vended_id, seen, saved>>
wealth == <<pocket, cash, cart>>
shop == <<vending, vender_id, vendings>>
store == <<buyingstore, buyer_id, buyingstores>>
view == <<vended_id, seen>>
whereabouts == <<nextid, presence, autotrader>>

EmptyCell == [ware |-> NoWare, amount |-> 0, numbered |-> FALSE]
NoStore == [items |-> <<>>, zenylimit |-> 0]
NoTrader == [kind |-> "none"]
Unseen == [w \in Ware |-> 0]

ShopInit ==
  /\ \E owner \in [Ware -> Person \union {"cart"}] :
       /\ pocket = [p \in Person |-> [w \in Ware |-> IF owner[w] = p THEN Pieces[w] ELSE 0]]
       /\ \A p \in Person : Cardinality({w \in Ware : pocket[p][w] > 0}) <= Cells
       /\ LET packed == SetToSeq({w \in Ware : owner[w] = "cart"})
          IN  cart = [c \in CartCells |->
                        IF c <= Len(packed)
                        THEN [ware |-> packed[c], amount |-> Pieces[packed[c]], numbered |-> TRUE]
                        ELSE EmptyCell]
  /\ cash = [p \in Person |-> Funds]
  /\ vending = <<>> /\ vender_id = 0
  /\ buyingstore = NoStore /\ buyer_id = 0
  /\ nextid = 0 /\ presence = "here" /\ autotrader = NoTrader
  /\ vendings = {} /\ buyingstores = {}
  /\ vended_id = 0 /\ seen = Unseen
  /\ saved = [pocket |-> pocket, cash |-> cash, cart |-> cart]

Vends == vender_id # 0
Buys == buyer_id # 0
Idle == presence = "here" /\ ~Vends /\ ~Buys

-----------------------------------------------------------------------------
(* Items and saves *)

CellsUsed(b) == Cardinality({w \in Ware : b[w] > 0})

\* Mutant: nobody looks for a free cell.
Accepts_Always(b, w, n) == w # NoWare /\ (b[w] > 0 => n <= Stack - b[w])

\* pc_additem: pieces with the same cards share a cell.
Accepts(b, w, n) ==
  w # NoWare /\ IF b[w] > 0 THEN n <= Stack - b[w] ELSE CellsUsed(b) < Cells

Added(b, w, n) == IF Accepts(b, w, n) THEN [b EXCEPT ![w] = @ + n] ELSE b

\* pc_checkadditem "does not consider the checked item's cards": it looks at
\* some cell with the name.
Namesakes(b, w) == {v \in Ware : NameOf[v] = NameOf[w] /\ b[v] > 0}
MayFit(b, w, n) ==
  n <= Stack /\ (Namesakes(b, w) = {} \/ {v \in Namesakes(b, w) : n <= Stack - b[v]} # {})
MayNotFit(b, w, n) == n > Stack \/ {v \in Namesakes(b, w) : n > Stack - b[v]} # {}

\* chrif_save of one person, and of both after a sale.
SaveOne(p) ==
  saved' = [pocket |-> [saved.pocket EXCEPT ![p] = pocket'[p]],
            cash |-> [saved.cash EXCEPT ![p] = cash'[p]],
            cart |-> IF p = Merchant THEN cart' ELSE saved.cart]

SaveBoth == saved' = [pocket |-> pocket', cash |-> cash', cart |-> cart']

\* The session of the merchant ends.
Leaves ==
  /\ presence' = "out"
  /\ vending' = <<>> /\ vender_id' = 0
  /\ buyingstore' = NoStore /\ buyer_id' = 0

RowsWithout(table, id) == {r \in table : r.id # id}

\* The entries of s at the places given, in their order.
Selected(s, places) ==
  LET kept[n \in 0 .. Len(s)] ==
        IF n = 0 THEN <<>>
        ELSE IF n \in places THEN Append(kept[n - 1], s[n]) ELSE kept[n - 1]
  IN  kept[Len(s)]

\* What the loops over the lines of a request add up.
Total(s) ==
  LET sum[n \in 0 .. Len(s)] == IF n = 0 THEN 0 ELSE sum[n - 1] + s[n]
  IN  sum[Len(s)]

-----------------------------------------------------------------------------
(* Inventory, cart and zeny *)

\* Bound: the cart is left alone once the last shop was opened and closed.
ShopsLeft == nextid < MaxShops \/ Vends \/ Buys

\* pc_putitemtocart of all pieces: a new cell has no number in the table yet.
PutItemToCart(w) ==
  LET n == pocket[Merchant][w] IN
  /\ Idle /\ ShopsLeft /\ n > 0
  /\ \/ \E c \in CartCells :
          /\ cart[c].ware = w /\ n <= Stack - cart[c].amount
          /\ cart' = [cart EXCEPT ![c].amount = @ + n]
     \/ /\ \A c \in CartCells : cart[c].ware # w
        /\ \E c \in CartCells :
             /\ cart[c] = EmptyCell /\ \A d \in 1 .. c - 1 : cart[d] # EmptyCell
             /\ cart' = [cart EXCEPT ![c] = [ware |-> w, amount |-> n, numbered |-> FALSE]]
  /\ pocket' = [pocket EXCEPT ![Merchant][w] = 0]
  /\ UNCHANGED <<cash, saved, shop, store, whereabouts, view>>

\* pc_cart_delitem
Without(crt, c, n) == IF crt[c].amount < n THEN crt
                      ELSE IF crt[c].amount = n THEN [crt EXCEPT ![c] = EmptyCell]
                      ELSE [crt EXCEPT ![c].amount = @ - n]

\* Mutant: items are taken out of the cart while they are on offer.
MayUseCart_Vending == presence = "here"

MayUseCart == presence = "here" /\ ~Vends

\* pc_getitemfromcart of all pieces: not while the shop is open, but while a
\* store is.
GetItemFromCart(c) ==
  LET w == cart[c].ware
      n == cart[c].amount
  IN  /\ MayUseCart /\ ShopsLeft /\ w # NoWare
      /\ Accepts(pocket[Merchant], w, n)
      /\ pocket' = [pocket EXCEPT ![Merchant][w] = @ + n]
      /\ cart' = Without(cart, c, n)
      /\ UNCHANGED <<cash, saved, shop, store, whereabouts, view>>

\* Zeny of the merchant go elsewhere, for a skill say: it matters while a
\* store is open.
SpendElsewhere ==
  /\ presence = "here" /\ Buys /\ cash[Merchant] > 0
  /\ cash' = [cash EXCEPT ![Merchant] = @ - 1]
  /\ UNCHANGED <<pocket, cart, saved, shop, store, whereabouts, view>>

\* The autosave, and vending_openvending when it fails: it saves first.
Autosave(p) ==
  /\ p = Customer \/ presence \in {"here", "autotrade"}
  /\ UNCHANGED <<wealth, shop, store, whereabouts, view>>
  /\ SaveOne(p)

-----------------------------------------------------------------------------
(* A shop that sells *)

\* vending_openvending: invalid items are left out, and an item without a
\* number in the table fails it.
Sellable(l) == cart[l.index].ware # NoWare /\ l.amount <= cart[l.index].amount
SellableOf(request) == Selected(request, {n \in DOMAIN request : Sellable(request[n])})
Numbered(list) == \A n \in DOMAIN list : cart[list[n].index].numbered

RowOf(entry) == [ware |-> cart[entry.index].ware, amount |-> entry.amount, value |-> entry.value]

\* There are as many rows as the request had items: in place of those left
\* out stands what sd->vending held before.
Opened(request, count, auto) ==
  LET list == SellableOf(request)
  IN  /\ list # <<>> /\ Numbered(list)
      /\ vending' = list
      /\ vender_id' = nextid + 1 /\ nextid' = nextid + 1
      /\ \E rest \in [Len(list) + 1 .. count ->
                       [ware : Ware \union {NoWare}, amount : 0 .. Stack, value : Prices \union {0}]] :
           vendings' = vendings \union
             {[id |-> nextid + 1, auto |-> auto,
               items |-> [n \in 1 .. count |-> IF n <= Len(list) THEN RowOf(list[n]) ELSE rest[n]]]}

OpenVending(request) ==
  /\ Idle /\ nextid < MaxShops
  /\ Filtered \/ \A n \in DOMAIN request : Sellable(request[n])
  /\ Opened(request, Len(request), FALSE)
  /\ UNCHANGED <<wealth, store, presence, autotrader, view>>
  /\ SaveOne(Merchant)

\* vending_closevending
ShopClosed ==
  /\ vendings' = RowsWithout(vendings, vender_id)
  /\ vender_id' = 0 /\ vending' = <<>>

CloseVending ==
  /\ presence = "here" /\ Vends
  /\ ShopClosed
  /\ UNCHANGED <<wealth, saved, store, whereabouts, view>>

\* vending_vendinglistreq
VendingListReq ==
  /\ Vends
  /\ vended_id' = vender_id
  /\ seen' = [w \in Ware |->
                IF \E n \in 1 .. Len(vending) : cart[vending[n].index].ware = w
                THEN vending[CHOOSE n \in 1 .. Len(vending) : cart[vending[n].index].ware = w].value
                ELSE 0]
  /\ UNCHANGED <<wealth, saved, shop, store, whereabouts>>

EntryOf(l) == Min({n \in 1 .. Len(vending) : vending[n].index = l.index})
OnOffer(l) == \E n \in 1 .. Len(vending) : vending[n].index = l.index
Cost(lines) ==
  Total([k \in DOMAIN lines |-> lines[k].amount * vending[EntryOf(lines[k])].value])
Least(m, n) == IF m < n THEN m ELSE n

\* The amounts in the copy of the list that the check counts down: "check
\* cumulative amounts".
CountedDown(lines) ==
  LET copy[k \in 0 .. Len(lines)] ==
        IF k = 0 THEN [n \in DOMAIN vending |-> vending[n].amount]
        ELSE [copy[k - 1] EXCEPT ![EntryOf(lines[k])] =
                Least(@, cart[lines[k].index].amount) - lines[k].amount]
  IN  copy

InStock(lines) ==
  \A k \in DOMAIN lines :
    lines[k].amount <= Least(CountedDown(lines)[k - 1][EntryOf(lines[k])],
                             cart[lines[k].index].amount)

\* Mutant: the cells that the purchase needs are not counted.
HasRoom_Always(b, lines) ==
  \A k \in DOMAIN lines : MayFit(b, cart[lines[k].index].ware, lines[k].amount)

HasRoom(b, lines) ==
  /\ \A k \in DOMAIN lines : MayFit(b, cart[lines[k].index].ware, lines[k].amount)
  /\ Cardinality({k \in DOMAIN lines : Namesakes(b, cart[lines[k].index].ware) = {}})
       <= Cells - CellsUsed(b)

\* Mutant: the row is removed although pieces are left.
RowsAfter_Removed(items, w, amount) == Selected(items, {n \in DOMAIN items : items[n].ware # w})

RowsAfter(items, w, amount) ==
  IF amount > 0
  THEN [n \in DOMAIN items |-> IF items[n].ware = w THEN [items[n] EXCEPT !.amount = amount] ELSE items[n]]
  ELSE Selected(items, {n \in DOMAIN items : items[n].ware # w})

\* One line: what pc_additem says is not looked at.
Handed(st, l) ==
  LET n == EntryOf(l)
      w == st.cart[l.index].ware
      left == st.vending[n].amount - l.amount
  IN  [pocket |-> Added(st.pocket, w, l.amount),
       vending |-> [st.vending EXCEPT ![n].amount = left],
       items |-> RowsAfter(st.items, w, left),
       cart |-> Without(st.cart, l.index, l.amount)]

ShopRow == CHOOSE r \in vendings : r.id = vender_id

\* The lines one after the other.
SaleOf(lines) ==
  LET sold[k \in 0 .. Len(lines)] ==
        IF k = 0
        THEN [pocket |-> pocket[Customer], vending |-> vending, items |-> ShopRow.items, cart |-> cart]
        ELSE Handed(sold[k - 1], lines[k])
  IN  sold[Len(lines)]

Compacted(list) == Selected(list, {n \in DOMAIN list : list[n].amount # 0})

\* Mutant: any shop of the merchant will do.
ShopIsSeen_Any == Vends /\ vended_id # 0

ShopIsSeen == Vends /\ vended_id = vender_id

\* vending_purchasereq
PurchaseReq(lines) ==
  LET sale == SaleOf(lines)
      rest == Compacted(sale.vending)
      ends == presence = "autotrade" /\ rest = <<>>
  IN  /\ ShopIsSeen
      /\ Len(lines) <= Len(vending)
      /\ \A k \in DOMAIN lines : OnOffer(lines[k])
      /\ Cost(lines) <= cash[Customer]
      /\ InStock(lines)
      /\ HasRoom(pocket[Customer], lines)
      /\ cash' = [cash EXCEPT ![Customer] = @ - Cost(lines), ![Merchant] = @ + Cost(lines)]
      /\ pocket' = [pocket EXCEPT ![Customer] = sale.pocket]
      /\ cart' = sale.cart
      /\ IF ends
         THEN Leaves /\ vendings' = RowsWithout(vendings, vender_id)
         ELSE /\ vending' = rest
              /\ vendings' = RowsWithout(vendings, vender_id) \union {[ShopRow EXCEPT !.items = sale.items]}
              /\ UNCHANGED <<vender_id, buyingstore, buyer_id, presence>>
      /\ vended_id' = 0 /\ seen' = Unseen
      /\ UNCHANGED <<buyingstores, nextid, autotrader>>
      /\ SaveBoth

-----------------------------------------------------------------------------
(* A store that buys *)

\* buyingstore_create: "at least one must be owned" of each item.
Wantable(list) ==
  \A k \in DOMAIN list :
    /\ Namesakes(pocket[Merchant], list[k].ware) # {}
    /\ MayFit(pocket[Merchant], list[k].ware, list[k].amount)
    /\ \A j \in DOMAIN list : list[j].ware = list[k].ware => j = k

StoreRows(id, list, limit, auto) ==
  [id |-> id, auto |-> auto, limit |-> limit,
   items |-> {[index |-> k, item |-> list[k]] : k \in DOMAIN list}]

Created(list, limit, auto) ==
  /\ 0 < limit /\ limit <= cash[Merchant]
  /\ Wantable(list)
  /\ buyingstore' = [items |-> list, zenylimit |-> limit]
  /\ buyer_id' = nextid + 1 /\ nextid' = nextid + 1
  /\ buyingstores' = buyingstores \union {StoreRows(nextid + 1, list, limit, auto)}

CreateStore(list, limit) ==
  /\ Idle /\ nextid < MaxShops
  /\ Created(list, limit, FALSE)
  /\ UNCHANGED <<wealth, saved, shop, presence, autotrader, view>>

\* buyingstore_close
StoreClosed ==
  /\ buyingstores' = RowsWithout(buyingstores, buyer_id)
  /\ buyer_id' = 0 /\ buyingstore' = NoStore

CloseStore ==
  /\ presence = "here" /\ Buys
  /\ StoreClosed
  /\ UNCHANGED <<wealth, saved, shop, whereabouts, view>>

\* Mutant: the limit is not lowered to the zeny that are left.
CurrentLimit_Old == buyingstore.zenylimit

\* "buyer lost zeny in the mean time? fix the limit"
CurrentLimit == Least(buyingstore.zenylimit, cash[Merchant])

ListIndex(w) == CHOOSE k \in DOMAIN buyingstore.items : buyingstore.items[k].ware = w
Earnings(lines) ==
  Total([k \in DOMAIN lines |-> lines[k].amount * buyingstore.items[ListIndex(lines[k].ware)].price])

StillWanted(l) ==
  \E k \in DOMAIN buyingstore.items :
    buyingstore.items[k].ware = l.ware /\ buyingstore.items[k].amount >= l.amount

StoreRowsAfter(items, k, left) ==
  {r \in items : r.index # k}
    \union {[r EXCEPT !.item.amount = left] : r \in {q \in items : q.index = k /\ left > 0}}

Bought(st, l) ==
  LET k == ListIndex(l.ware)
      left == st.list[k].amount - l.amount
  IN  [buyer |-> Added(st.buyer, l.ware, l.amount),
       seller |-> [st.seller EXCEPT ![l.ware] = @ - l.amount],
       list |-> [st.list EXCEPT ![k].amount = left],
       items |-> StoreRowsAfter(st.items, k, left)]

StoreRow == CHOOSE r \in buyingstores : r.id = buyer_id

\* The lines one after the other.
PurchaseOf(lines) ==
  LET bought[k \in 0 .. Len(lines)] ==
        IF k = 0
        THEN [buyer |-> pocket[Merchant], seller |-> pocket[Customer],
              list |-> buyingstore.items, items |-> StoreRow.items]
        ELSE Bought(bought[k - 1], lines[k])
  IN  bought[Len(lines)]

\* buyingstore_trade
TradeStore(lines) ==
  LET sale == PurchaseOf(lines)
      limit == CurrentLimit - Earnings(lines)
      ends == limit = 0 \/ \A k \in DOMAIN sale.list : sale.list[k].amount = 0
  IN  /\ Buys
      /\ \A k \in DOMAIN lines :
           /\ StillWanted(lines[k])
           /\ pocket[Customer][lines[k].ware] >= lines[k].amount
           /\ MayFit(pocket[Merchant], lines[k].ware, lines[k].amount)
           /\ \A j \in DOMAIN lines : lines[j].ware = lines[k].ware => j = k
      /\ Earnings(lines) <= CurrentLimit
      /\ pocket' = [pocket EXCEPT ![Merchant] = sale.buyer, ![Customer] = sale.seller]
      /\ cash' = [cash EXCEPT
                     ![Merchant] = IF @ >= Earnings(lines) THEN @ - Earnings(lines) ELSE @,
                     ![Customer] = @ + Earnings(lines)]
      /\ IF ends
         THEN /\ buyingstores' = RowsWithout(buyingstores, buyer_id)
              /\ IF presence = "autotrade" THEN Leaves
                 ELSE /\ buyer_id' = 0 /\ buyingstore' = NoStore
                      /\ UNCHANGED <<presence, vending, vender_id>>
         ELSE /\ buyingstore' = [items |-> sale.list, zenylimit |-> limit]
              /\ buyingstores' = RowsWithout(buyingstores, buyer_id)
                                   \union {[StoreRow EXCEPT !.items = sale.items, !.limit = limit]}
              /\ UNCHANGED <<buyer_id, presence, vending, vender_id>>
      /\ UNCHANGED <<cart, vendings, nextid, autotrader, view>>
      /\ SaveBoth

\* A trade that is refused may have lowered the limit in memory.
TradeRefused ==
  /\ Buys /\ cash[Merchant] < buyingstore.zenylimit
  /\ buyingstore' = [buyingstore EXCEPT !.zenylimit = cash[Merchant]]
  /\ UNCHANGED <<wealth, saved, shop, buyer_id, buyingstores, whereabouts, view>>

-----------------------------------------------------------------------------
(* Absent merchants *)

\* @autotrade
Autotrade ==
  /\ presence = "here" /\ (Vends \/ Buys)
  /\ presence' = "autotrade"
  /\ vendings' = {[r EXCEPT !.auto = @ \/ (Vends /\ r.id = vender_id)] : r \in vendings}
  /\ buyingstores' = {[r EXCEPT !.auto = @ \/ (Buys /\ r.id = buyer_id)] : r \in buyingstores}
  /\ UNCHANGED <<wealth, vending, vender_id, buyingstore, buyer_id, nextid,
                 autotrader, view>>
  /\ SaveOne(Merchant)

\* map_quit of a merchant whose client leaves.  Its rows stay in the tables,
\* but without the mark of an autotrader nothing reads them again.
LogOut ==
  /\ presence = "here"
  /\ Leaves
  /\ vendings' = RowsWithout(vendings, vender_id)
  /\ buyingstores' = RowsWithout(buyingstores, buyer_id)
  /\ UNCHANGED <<wealth, nextid, autotrader, view>>
  /\ SaveOne(Merchant)

\* chrif_disconnectplayer: the account logs in again, and both kinds are closed.
Disconnected ==
  /\ presence = "autotrade"
  /\ Leaves
  /\ vendings' = RowsWithout(vendings, vender_id)
  /\ buyingstores' = RowsWithout(buyingstores, buyer_id)
  /\ UNCHANGED <<wealth, nextid, autotrader, view>>
  /\ SaveOne(Merchant)

\* SC_AUTOTRADE runs out: vending_closevending, and the rows of a store stay.
AutotradeEnds ==
  /\ presence = "autotrade"
  /\ Leaves
  /\ vendings' = RowsWithout(vendings, vender_id)
  /\ UNCHANGED <<wealth, buyingstores, nextid, autotrader, view>>
  /\ SaveOne(Merchant)

\* A cart is loaded without gaps, in the order of the table.
Packings(crt) ==
  LET used == {c \in CartCells : crt[c].ware # NoWare}
  IN  {[c \in CartCells |-> IF c <= Len(order) THEN [crt[order[c]] EXCEPT !.numbered = TRUE]
                            ELSE EmptyCell] : order \in SetToSeqs(used)}

Login ==
  /\ presence = "out"
  /\ presence' = "here"
  /\ cart' \in Packings(cart)
  /\ UNCHANGED <<pocket, cash, saved, shop, store, nextid, autotrader, view>>

\* The map-server crashes and starts: do_init_vending_autotrade and
\* do_init_buyingstore_autotrade read the tables and empty them.
Absentees ==
  {[kind |-> "shop", items |-> r.items] : r \in {q \in vendings : q.auto /\ q.items # <<>>}}
    \union {[kind |-> "store", items |-> r.items, limit |-> r.limit] :
              r \in {q \in buyingstores : q.auto /\ q.items # {} /\ q.limit > 0}}

Crash ==
  /\ pocket' = saved.pocket /\ cash' = saved.cash /\ cart' \in Packings(saved.cart)
  /\ vending' = <<>> /\ vender_id' = 0
  /\ buyingstore' = NoStore /\ buyer_id' = 0 /\ nextid' = 0
  /\ vended_id' = 0 /\ seen' = Unseen
  /\ IF Absentees = {} THEN presence' = "out" /\ autotrader' = NoTrader
     ELSE presence' = "loading" /\ autotrader' \in Absentees
  /\ vendings' = {} /\ buyingstores' = {}
  /\ UNCHANGED saved

\* vending_reopen looks for the items in the cart and asks for those it finds.
FoundInCart(r) == \E c \in CartCells : cart[c].ware = r.ware
RequestOf(items) ==
  LET there == Selected(items, {n \in DOMAIN items : FoundInCart(items[n])})
  IN  [n \in DOMAIN there |->
         [index |-> CHOOSE c \in CartCells : cart[c].ware = there[n].ware,
          amount |-> there[n].amount, value |-> there[n].value]]

\* The list in the order of the indices: there is one.
ListsOf(items) ==
  {[n \in DOMAIN rows |-> rows[n].item] :
     rows \in {s \in SetToSeqs(items) : \A m, n \in DOMAIN s : m < n => s[m].index < s[n].index}}

\* pc_autotrade_timer: who cannot open again quits.
ReopenShop ==
  /\ presence = "loading" /\ autotrader.kind = "shop"
  /\ \/ /\ Opened(RequestOf(autotrader.items), Len(autotrader.items), TRUE)
        /\ presence' = "autotrade"
     \/ /\ SellableOf(RequestOf(autotrader.items)) = <<>>
        /\ presence' = "out"
        /\ UNCHANGED <<shop, nextid>>
  /\ autotrader' = NoTrader
  /\ UNCHANGED <<wealth, store, view>>
  /\ SaveOne(Merchant)

ReopenStore ==
  /\ presence = "loading" /\ autotrader.kind = "store"
  /\ \E list \in ListsOf(autotrader.items) :
       \/ /\ Created(list, autotrader.limit, TRUE)
          /\ presence' = "autotrade"
       \/ /\ \/ autotrader.limit > cash[Merchant]
             \/ \E k \in DOMAIN list :
                  \/ Namesakes(pocket[Merchant], list[k].ware) = {}
                  \/ MayNotFit(pocket[Merchant], list[k].ware, list[k].amount)
          /\ presence' = "out"
          /\ UNCHANGED <<store, nextid>>
  /\ autotrader' = NoTrader
  /\ UNCHANGED <<wealth, shop, view>>
  /\ SaveOne(Merchant)

-----------------------------------------------------------------------------

UpTo(S) == UNION {[1 .. n -> S] : n \in Lines}

ShopRequests == {r \in UpTo([index : CartCells, amount : 1 .. Stack, value : Prices]) :
                   \A j, k \in DOMAIN r : r[j].index = r[k].index => j = k}
PurchaseLines == UpTo([index : CartCells, amount : 1 .. Stack])
StoreLists == UpTo([ware : Plain, amount : 1 .. Stack, price : OfferPrices])
SaleLines == UpTo([ware : Plain, amount : 1 .. Stack])

MerchantActs ==
  \/ \E w \in Ware : PutItemToCart(w)
  \/ \E c \in CartCells : GetItemFromCart(c)
  \/ \E r \in ShopRequests : OpenVending(r)
  \/ \E l \in StoreLists, z \in 1 .. Funds : CreateStore(l, z)
  \/ CloseVending \/ CloseStore \/ SpendElsewhere \/ Autotrade \/ LogOut \/ Login

CustomerActs ==
  \/ VendingListReq
  \/ \E l \in PurchaseLines : PurchaseReq(l)
  \/ \E l \in SaleLines : TradeStore(l)
  \/ TradeRefused

ServerActs ==
  \/ \E p \in Person : Autosave(p)
  \/ Disconnected \/ AutotradeEnds \/ Crash \/ ReopenShop
  \/ ReopenStore

ShopNext == MerchantActs \/ CustomerActs \/ ServerActs

ShopSpec == ShopInit /\ [][ShopNext]_shopVars

-----------------------------------------------------------------------------
(* Properties *)

CartCell == [ware : Ware \union {NoWare}, amount : 0 .. Stack, numbered : BOOLEAN]

ShopTypeOK ==
  /\ pocket \in [Person -> [Ware -> 0 .. Stack]] /\ cash \in [Person -> Nat]
  /\ \A p \in Person : CellsUsed(pocket[p]) <= Cells
  /\ cart \in [CartCells -> CartCell]
  /\ vending \in Seq([index : CartCells, amount : 0 .. Stack, value : Prices \union {0}])
  /\ buyingstore.zenylimit \in Nat
  /\ \A k \in DOMAIN buyingstore.items : buyingstore.items[k].amount \in 0 .. Stack
  /\ {vender_id, buyer_id, nextid, vended_id} \subseteq 0 .. MaxShops
  /\ presence \in {"here", "autotrade", "out", "loading"}
  /\ presence \in {"out", "loading"} => ~Vends /\ ~Buys

OfferInCart(n) ==
  /\ cart[vending[n].index].ware # NoWare
  /\ vending[n].amount \in 1 .. cart[vending[n].index].amount

\* "Some of your items cannot be vended and were removed from the shop": the
\* table has no row beyond what the shop offers.
RemovedStayOut ==
  Vends => \A r \in vendings : r.id = vender_id =>
    \A k \in DOMAIN r.items : \E n \in 1 .. Len(vending) :
      r.items[k] = [ware |-> cart[vending[n].index].ware, amount |-> vending[n].amount,
                    value |-> vending[n].value]

\* What is on offer is in the cart, at the place where the list says, whatever
\* was sold in the meantime and however the shop was opened; and the tables
\* have what a restart needs: a row for each offer left, and a store as it is
\* in memory, with a limit that may be too high but never too low.
RowsTellShop ==
  /\ Vends => \E r \in vendings :
       /\ r.id = vender_id /\ r.auto = (presence = "autotrade")
       /\ \A n \in 1 .. Len(vending) : OfferInCart(n) /\ \E k \in DOMAIN r.items :
            r.items[k] = [ware |-> cart[vending[n].index].ware, amount |-> vending[n].amount,
                          value |-> vending[n].value]
  /\ Buys => \E r \in buyingstores :
       /\ r.id = buyer_id /\ r.auto = (presence = "autotrade")
       /\ r.limit >= buyingstore.zenylimit
       /\ r.items = {[index |-> k, item |-> buyingstore.items[k]] :
                       k \in {j \in DOMAIN buyingstore.items : buyingstore.items[j].amount > 0}}

PiecesOf(b, crt, w) ==
  b[Merchant][w] + b[Customer][w]
    + MapThenSumSet(LAMBDA c : IF crt[c].ware = w THEN crt[c].amount ELSE 0, CartCells)
CashOf(purses) == purses[Merchant] + purses[Customer]
Restarted == nextid' = 0

\* No sale makes pieces of an item or zeny, in memory or in the tables, and
\* one that loses some pieces has the excuse that the customer has an item of
\* that name.
KeepsWares ==
  \/ UNCHANGED <<pocket, cart, saved, cash>>
  \/ /\ CashOf(saved'.cash) <= CashOf(saved.cash)
     /\ ~Restarted => CashOf(cash') <= CashOf(cash)
     /\ \A w \in Ware :
          /\ PiecesOf(saved'.pocket, saved'.cart, w) <= PiecesOf(saved.pocket, saved.cart, w)
          /\ ~Restarted =>
               /\ PiecesOf(pocket', cart', w) <= PiecesOf(pocket, cart, w)
               /\ PiecesOf(pocket', cart', w) < PiecesOf(pocket, cart, w) =>
                    \E p \in Person : Namesakes(pocket[p], w) # {}

\* A customer pays the prices of the list it was shown, though the shop may
\* have been closed and opened again since.
PaidAsSeen ==
  [][~Restarted /\ cash'[Customer] < cash[Customer] =>
       cash[Customer] - cash'[Customer]
         = MapThenSumSet(LAMBDA w :
             seen[w] * (PiecesOf(pocket, cart, w) - pocket[Customer][w] - PiecesOf(pocket', cart', w)
                          + pocket'[Customer][w]), Ware)]_shopVars

=============================================================================
