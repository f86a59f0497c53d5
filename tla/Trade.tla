------------------------------- MODULE Trade -------------------------------
(***************************************************************************)
(* Trades between two players of a map-server (src/map/trade.c), with the  *)
(* packets that lead there (clif.c) and what may happen to the players in  *)
(* the meantime.  A trade is kept in the two session_datas: each has the   *)
(* account of the other (trade_partner), whether the window is open        *)
(* (trading), how far it has agreed (deal_locked: 1 Ok, 2 Trade) and what  *)
(* it offers (deal).  Offers stay in the inventory until the commit.       *)
(*                                                                         *)
(* Abstractions: an item is a kind, whose stacks are one slot; every unit  *)
(* weighs 1; equipped, bound and rented items, which are refused on        *)
(* offering, are not offered; what the code asks of the place, the guild   *)
(* and the permissions of the players is a request refused or not; the     *)
(* slots of a deal are numbered on commit, in any order.                   *)
(***************************************************************************)
EXTENDS Integers, FiniteSets, Functions

CONSTANTS
  Players,        \* account ids of players, who may be online or not
  Items,          \* kinds of items
  ChatRooms,      \* chat rooms are allowed: the map has no nochat flag
  MaxDealSlots,   \* 10: slots of a deal
  MAX_INVENTORY,  \* slots of an inventory
  MAX_AMOUNT,     \* units of a slot
  MAX_ZENY,
  MaxWeight,      \* what a player can carry
  NULL            \* no partner

ASSUME BoundAssumption ==
  /\ MaxDealSlots \in Nat \ {0} /\ MAX_INVENTORY \in Nat /\ MaxWeight \in Nat
  /\ MAX_AMOUNT \in Nat /\ MAX_ZENY \in Nat

ASSUME ChatAssumption == ChatRooms \in BOOLEAN

ASSUME NullAssumption == NULL \notin Players

Deal == [item : [Items -> 0 .. MAX_AMOUNT], zeny : 0 .. MAX_ZENY]

NoDeal == [item |-> [x \in Items |-> 0], zeny |-> 0]

VARIABLES
  online,         \* players with a session_data here
  trade_partner,  \* player -> the player it asked, is asked by or trades with
  trading,        \* player -> its trade window is open
  deal_locked,    \* player -> 0, 1 or 2
  deal,           \* player -> what it offers
  inventory,      \* player -> units of each item
  zeny            \* player -> zeny

window == <<trade_partner, trading, deal_locked, deal>>
goods == <<inventory, zeny>>
vars == <<online, window, goods>>

TypeOK ==
  /\ online \in SUBSET Players
  /\ trade_partner \in [Players -> Players \cup {NULL}]
  /\ trading \in [Players -> BOOLEAN]
  /\ deal_locked \in [Players -> 0 .. 2]
  /\ deal \in [Players -> Deal]
  /\ inventory \in [Players -> [Items -> 0 .. MAX_AMOUNT]]
  /\ zeny \in [Players -> 0 .. MAX_ZENY]

Weight(inv) == SumFunction(inv)

Slots(inv) == Cardinality({x \in Items : inv[x] > 0})

Init ==
  /\ online = {}
  /\ trade_partner = [p \in Players |-> NULL]
  /\ trading = [p \in Players |-> FALSE]
  /\ deal_locked = [p \in Players |-> 0]
  /\ deal = [p \in Players |-> NoDeal]
  /\ inventory \in [Players -> [Items -> 0 .. MAX_AMOUNT]]
  /\ \A p \in Players : Weight(inventory[p]) <= MaxWeight
                        /\ Slots(inventory[p]) <= MAX_INVENTORY
  /\ zeny \in [Players -> 0 .. MAX_ZENY]

-----------------------------------------------------------------------------
(* The players of the map-server *)

\* the partner's session_data, if it is still there
map_id2sd(p) == IF p \in online THEN p ELSE NULL

Partner(p) == map_id2sd(trade_partner[p])

\* a session_data is made for a player that enters
Enter(p) ==
  /\ p \notin online
  /\ online' = online \cup {p}
  /\ UNCHANGED <<window, goods>>

\* pc_additem accepts n more units of x in an inventory
CanAdd(inv, x, n) ==
  /\ Weight(inv) + n <= MaxWeight
  /\ inv[x] + n <= MAX_AMOUNT
  /\ inv[x] > 0 \/ Slots(inv) < MAX_INVENTORY

\* Loot that the party shares reaches a trading player too.
Receive(p, x) ==
  /\ p \in online /\ CanAdd(inventory[p], x, 1)
  /\ inventory' = [inventory EXCEPT ![p][x] = @ + 1]
  /\ UNCHANGED <<online, window, zeny>>

\* an item is used up, taken by a script or lost
Consume(p, x) ==
  /\ p \in online /\ inventory[p][x] > 0
  /\ inventory' = [inventory EXCEPT ![p][x] = @ - 1]
  /\ UNCHANGED <<online, window, zeny>>

Earn(p) ==
  /\ p \in online /\ zeny[p] < MAX_ZENY
  /\ zeny' = [zeny EXCEPT ![p] = @ + 1]
  /\ UNCHANGED <<online, window, inventory>>

Spend(p) ==
  /\ p \in online /\ zeny[p] > 0
  /\ zeny' = [zeny EXCEPT ![p] = @ - 1]
  /\ UNCHANGED <<online, window, inventory>>

-----------------------------------------------------------------------------
(* Requests and answers *)

\* the pointers of p and of its partner are reset, wherever the partner's points
Released(p) ==
  [r \in Players |-> IF r \in {p, Partner(p)} THEN NULL ELSE trade_partner[r]]

\* mutant: the partner's lock is not reset
EndTrade_KeepLock(p, closed, locks) ==
  /\ trade_partner' = Released(p)
  /\ trading' = [r \in Players |-> trading[r] /\ r \notin closed]
  /\ deal_locked' = [locks EXCEPT ![p] = 0]
  /\ deal' = [r \in Players |-> IF r \in closed THEN NoDeal ELSE deal[r]]
  /\ UNCHANGED goods

\* The trade of p ends: the windows of the players in closed are emptied.
EndTrade(p, closed, locks) ==
  /\ trade_partner' = Released(p)
  /\ trading' = [r \in Players |-> trading[r] /\ r \notin closed]
  /\ deal_locked' = [r \in Players |-> IF r \in closed THEN 0 ELSE locks[r]]
  /\ deal' = [r \in Players |-> IF r \in closed THEN NoDeal ELSE deal[r]]
  /\ UNCHANGED goods

Closed(p) == IF trading[p] THEN {p, Partner(p)} ELSE {}

trade_tradecancel(p) == EndTrade(p, Closed(p), deal_locked)

\* Cancel is pressed, or the party or guild of a bound item is left.
TradeCancel(p) ==
  /\ p \in online
  /\ trade_tradecancel(p)
  /\ UNCHANGED online

\* unit_remove_map of a player that stays on this server
Warp(p) ==
  /\ p \in online
  /\ IF trade_partner[p] # NULL THEN trade_tradecancel(p) ELSE UNCHANGED <<window, goods>>
  /\ UNCHANGED online

\* unit_remove_map of a player that leaves; its session_data is freed
Quit(p) ==
  /\ p \in online
  /\ EndTrade(p, Closed(p) \cup {p}, deal_locked)
  /\ online' = online \ {p}

\* A player that cannot act may request in a chat room only; a player with an
\* open window may open or enter one at any time.
MayRequest(p) == ChatRooms \/ ~trading[p]

\* p asks q.  A previous trade or request of p is dropped first, whether or
\* not q can be asked then.
TradeRequest(p, q) ==
  /\ {p, q} \subseteq online /\ p # q /\ MayRequest(p)
  /\ \E permitted \in BOOLEAN :
       trade_partner' =
         IF permitted /\ Released(p)[q] = NULL
         THEN [Released(p) EXCEPT ![p] = q, ![q] = p]
         ELSE Released(p)
  /\ UNCHANGED <<online, trading, deal_locked, deal, goods>>

HasRequest(p) == p \in online /\ ~trading[p] /\ trade_partner[p] # NULL

\* the partner is still there, has opened no window and has no other partner
IsAsked(p) ==
  /\ Partner(p) # NULL
  /\ ~trading[Partner(p)] /\ trade_partner[Partner(p)] = p

TradeAckFails(p) ==
  /\ HasRequest(p) /\ ~IsAsked(p)
  /\ trade_partner' = [trade_partner EXCEPT ![p] = NULL]
  /\ UNCHANGED <<online, trading, deal_locked, deal, goods>>

\* p refuses, or one of the two is busy or, without reset of the locks, too far
TradeAckRefused(p) ==
  /\ HasRequest(p) /\ IsAsked(p)
  /\ trade_partner' = Released(p)
  /\ \/ deal_locked' = [deal_locked EXCEPT ![p] = 0, ![Partner(p)] = 0]
     \/ UNCHANGED deal_locked
  /\ UNCHANGED <<online, trading, deal, goods>>

TradeAckAccepted(p) ==
  /\ HasRequest(p) /\ IsAsked(p)
  /\ trading' = [trading EXCEPT ![p] = TRUE, ![Partner(p)] = TRUE]
  /\ deal' = [deal EXCEPT ![p] = NoDeal, ![Partner(p)] = NoDeal]
  /\ UNCHANGED <<online, trade_partner, deal_locked, goods>>

-----------------------------------------------------------------------------
(* Offers *)

\* mutant: Ok does not lock the offer
MayOffer_Locked(p) == p \in online /\ trading[p]

MayOffer(p) == p \in online /\ trading[p] /\ deal_locked[p] = 0

\* the window is closed when the partner is not there
OfferFails(p) ==
  /\ MayOffer(p) /\ Partner(p) = NULL
  /\ trade_tradecancel(p)
  /\ UNCHANGED online

\* A second offer of an item adds to the first, up to what p has now.
TradeAddItem(p, x, n) ==
  LET has == inventory[p][x]
      offered == deal[p].item[x]
      added == IF offered > 0 /\ offered + n > has THEN has ELSE offered + n
  IN /\ MayOffer(p) /\ Partner(p) # NULL
     /\ n <= has
     /\ offered > 0 \/ Slots(deal[p].item) < MaxDealSlots
     /\ Weight(inventory[Partner(p)]) + Weight(deal[p].item) + n <= MaxWeight
     /\ deal' = [deal EXCEPT ![p].item[x] = added]
     /\ UNCHANGED <<online, trade_partner, trading, deal_locked, goods>>

TradeAddZeny(p, z) ==
  /\ MayOffer(p) /\ Partner(p) # NULL
  /\ IF z <= zeny[p] /\ z <= MAX_ZENY - zeny[Partner(p)]
     THEN /\ deal' = [deal EXCEPT ![p].zeny = z]
          /\ UNCHANGED <<trade_partner, trading, deal_locked, goods>>
     ELSE trade_tradecancel(p)
  /\ UNCHANGED online

TradeOk(p) ==
  /\ MayOffer(p) /\ Partner(p) # NULL
  /\ deal_locked' = [deal_locked EXCEPT ![p] = 1]
  /\ UNCHANGED <<online, trade_partner, trading, deal, goods>>

-----------------------------------------------------------------------------
(* The exchange.  A transfer is <<giver, item>>; slot is the slot of each  *)
(* item in the two deals; the transfers of a slot are p's, then q's.       *)

Offers(s) == {s} \X {x \in Items : deal[s].item[x] > 0}

SlotMaps(s) ==
  {m \in [Items -> 1 .. MaxDealSlots] :
     \A x, y \in Items :
       deal[s].item[x] > 0 /\ deal[s].item[y] > 0 /\ m[x] = m[y] => x = y}

Earlier(p, slot, done, k) ==
  {j \in done : \/ slot[j[1]][j[2]] < slot[k[1]][k[2]]
                \/ slot[j[1]][j[2]] = slot[k[1]][k[2]] /\ j[1] = p /\ k[1] # p}

Given(s, x, done) == IF <<s, x>> \in done THEN deal[s].item[x] ELSE 0

\* the inventory of s after the transfers between s and r in done
After(s, r, done) ==
  [x \in Items |-> inventory[s][x] - Given(s, x, done) + Given(r, x, done)]

\* mutant: the items are trusted since they were offered
Covered_ZenyOnly(s) == deal[s].zeny <= zeny[s]

\* impossible_trade_check finds nothing
Covered(s) ==
  /\ deal[s].zeny <= zeny[s]
  /\ \A x \in Items : deal[s].item[x] <= inventory[s][x]

\* mutant: the receiver's limit is not checked again
ZenyFits_Always(p, q) == TRUE

ZenyFits(p, q) ==
  /\ zeny[q] <= MAX_ZENY - deal[p].zeny
  /\ zeny[p] <= MAX_ZENY - deal[q].zeny

\* r has a slot for what s gives and no stack grows too large
ItemsFit(p, s, r, slot) ==
  /\ Cardinality({x \in Items : inventory[r][x] > 0 \/ deal[s].item[x] > 0}) <= MAX_INVENTORY
  /\ \A k \in Offers(s) :
       After(r, s, Earlier(p, slot, Offers(s) \cup Offers(r), k))[k[2]] + deal[s].item[k[2]]
         <= MAX_AMOUNT

trade_check(p, q, slot) ==
  ZenyFits(p, q) /\ ItemsFit(p, p, q, slot) /\ ItemsFit(p, q, p, slot)

\* The transfers that happen: those for which pc_additem succeeds; the others
\* are left with their giver and the exchange goes on.
Transfers(p, q, slot) ==
  {done \in SUBSET (Offers(p) \cup Offers(q)) :
     \A k \in Offers(p) \cup Offers(q) :
       LET s == k[1]
           r == IF s = p THEN q ELSE p
       IN k \in done <=>
            CanAdd(After(r, s, Earlier(p, slot, done, k)), k[2], deal[s].item[k[2]])}

Capped(z) == IF z > MAX_ZENY THEN MAX_ZENY ELSE z

\* p pays first
Exchange(p, q, done) ==
  /\ inventory' = [inventory EXCEPT ![p] = After(p, q, done), ![q] = After(q, p, done)]
  /\ zeny' = [zeny EXCEPT ![p] = Capped(@ - deal[p].zeny + deal[q].zeny),
                          ![q] = Capped(@ + deal[p].zeny) - deal[q].zeny]
  /\ trade_partner' = [trade_partner EXCEPT ![p] = NULL, ![q] = NULL]
  /\ trading' = [trading EXCEPT ![p] = FALSE, ![q] = FALSE]
  /\ deal_locked' = [deal_locked EXCEPT ![p] = 0, ![q] = 0]
  /\ deal' = [deal EXCEPT ![p] = NoDeal, ![q] = NoDeal]

MayCommit(p) == p \in online /\ trading[p] /\ deal_locked[p] > 0

Committed(p) == [deal_locked EXCEPT ![p] = 2]

CommitFails(p) ==
  /\ MayCommit(p) /\ Partner(p) = NULL
  /\ trade_tradecancel(p)
  /\ UNCHANGED online

\* p waits for its partner
CommitWaits(p) ==
  /\ MayCommit(p) /\ Partner(p) # NULL /\ deal_locked[Partner(p)] < 2
  /\ deal_locked' = Committed(p)
  /\ UNCHANGED <<online, trade_partner, trading, deal, goods>>

\* The last one to press Trade: the checks, then the exchange.
TradeCommit(p) ==
  LET q == Partner(p)
  IN /\ MayCommit(p) /\ q # NULL /\ deal_locked[q] = 2
     /\ \E slot \in [{p, q} -> SlotMaps(p) \cup SlotMaps(q)] :
          /\ \A s \in {p, q} : slot[s] \in SlotMaps(s)
          /\ \/ ~Covered(p) /\ EndTrade(p, Closed(p), Committed(p))
             \/ Covered(p) /\ ~Covered(q) /\ EndTrade(q, Closed(q), Committed(p))
             \/ /\ Covered(p) /\ Covered(q) /\ ~trade_check(p, q, slot)
                /\ EndTrade(p, Closed(p), Committed(p))
             \/ /\ Covered(p) /\ Covered(q) /\ trade_check(p, q, slot)
                /\ \E done \in Transfers(p, q, slot) : Exchange(p, q, done)
     /\ UNCHANGED online

-----------------------------------------------------------------------------
PlayerStep(p) ==
  \/ Enter(p) \/ Warp(p) \/ Quit(p)
  \/ Earn(p) \/ Spend(p)
  \/ \E x \in Items : Receive(p, x) \/ Consume(p, x)

TradeStep(p) ==
  \/ \E q \in Players : TradeRequest(p, q)
  \/ TradeCancel(p)
  \/ TradeAckFails(p) \/ TradeAckRefused(p) \/ TradeAckAccepted(p)
  \/ OfferFails(p)
  \/ \E x \in Items, n \in 1 .. MAX_AMOUNT : TradeAddItem(p, x, n)
  \/ \E z \in 0 .. MAX_ZENY : TradeAddZeny(p, z)
  \/ TradeOk(p)
  \/ CommitFails(p) \/ CommitWaits(p) \/ TradeCommit(p)

Next == \E p \in Players : PlayerStep(p) \/ TradeStep(p)

Spec == Init /\ [][Next]_vars

-----------------------------------------------------------------------------
(* Properties *)

\* The goods of two players, together, are the same after the step.
Exchanged(p, q) ==
  /\ \A x \in Items : inventory'[p][x] + inventory'[q][x] = inventory[p][x] + inventory[q][x]
  /\ zeny'[p] + zeny'[q] = zeny[p] + zeny[q]
  /\ \A r \in Players \ {p, q} : inventory'[r] = inventory[r] /\ zeny'[r] = zeny[r]

\* No trade creates or destroys an item or zeny: whatever the players lost
\* or received since they made their offers, the step that closes the window
\* of a player moves goods between it and one other player, or none
\* (trade_tradecommit, trade_tradecancel).
TradeConserves ==
  [][\A p \in Players : trading[p] /\ ~trading'[p] =>
       UNCHANGED goods \/ \E q \in Players \ {p} : Exchanged(p, q)]_vars

\* What a player agreed to stays as it is until its window is closed: the
\* partner's requests, cancellations and offers never change it.
OfferFrozen ==
  [][\A p \in Players : deal_locked[p] > 0 /\ trading'[p] =>
       deal'[p] = deal[p] /\ deal_locked'[p] >= deal_locked[p]]_vars

\* An offer and an agreement belong to an open window, and a partner that is
\* left behind keeps none (trade_tradecancel empties both windows).
OffersOpen ==
  \A p \in Players : ~trading[p] => deal_locked[p] = 0 /\ deal[p] = NoDeal

\* "If a character tries to trade to another one then cancel the previous
\* one" (trade.c:51): a player whose window is open has a partner whose
\* window is open for it.
TradingIsMutual ==
  \A p \in Players : trading[p] =>
    /\ Partner(p) # NULL
    /\ trade_partner[Partner(p)] = p /\ trading[Partner(p)]
=============================================================================
