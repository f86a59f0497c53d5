---------------------------- MODULE TradeProofs ----------------------------
(***************************************************************************)
(* Proofs about Trade.  The inductive invariant is IInv: types, OffersOpen *)
(* and that no player is its own partner, without which the exchange of    *)
(* one player with itself would create goods.                              *)
(***************************************************************************)
EXTENDS Trade, TLAPS

NoSelf == \A p \in Players : trade_partner[p] # p

IInv == TypeOK /\ OffersOpen /\ NoSelf

\* what IInv says of the windows alone
WindowOK ==
  /\ trade_partner \in [Players -> Players \cup {NULL}]
  /\ trading \in [Players -> BOOLEAN]
  /\ deal_locked \in [Players -> 0 .. 2]
  /\ deal \in [Players -> Deal]
  /\ OffersOpen
  /\ NoSelf

GoodsOK ==
  /\ inventory \in [Players -> [Items -> 0 .. MAX_AMOUNT]]
  /\ zeny \in [Players -> 0 .. MAX_ZENY]

LEMMA InvParts == IInv <=> online \in SUBSET Players /\ WindowOK /\ GoodsOK
  BY DEF IInv, TypeOK, WindowOK, GoodsOK

LEMMA NoDealTyped == NoDeal \in Deal
  BY BoundAssumption, SMT DEF NoDeal, Deal

LEMMA InitInv == Init => IInv
  BY NoDealTyped, NullAssumption, BoundAssumption, SMT
  DEF Init, IInv, TypeOK, OffersOpen, NoSelf

-----------------------------------------------------------------------------
(* The end of a trade *)

LEMMA PartnerTyped ==
  ASSUME IInv, NEW p \in Players
  PROVE  /\ Partner(p) \in online \cup {NULL}
         /\ Partner(p) \in Players \cup {NULL}
         /\ Partner(p) # p
         /\ Partner(p) # NULL => Partner(p) = trade_partner[p]
  BY NullAssumption DEF IInv, TypeOK, NoSelf, Partner, map_id2sd

LEMMA ReleasedTyped ==
  ASSUME IInv, NEW p \in Players
  PROVE  /\ Released(p) \in [Players -> Players \cup {NULL}]
         /\ \A r \in Players : Released(p)[r] \in {trade_partner[r], NULL}
         /\ \A r \in Players : Released(p)[r] # r
         /\ Released(p)[p] = NULL
  BY NullAssumption DEF IInv, TypeOK, NoSelf, Released

\* A trade that ends leaves closed windows empty and open ones as they were,
\* when the locks given are those of open windows.
LEMMA EndTradeWindow ==
  ASSUME IInv, NEW p \in Players, NEW closed,
         NEW locks \in [Players -> 0 .. 2],
         \A r \in Players \ closed : ~trading[r] => locks[r] = 0,
         EndTrade(p, closed, locks)
  PROVE  /\ WindowOK'
         /\ UNCHANGED goods
         /\ \A r \in Players : trading'[r] =>
              trading[r] /\ deal'[r] = deal[r] /\ deal_locked'[r] = locks[r]
<1>1. trade_partner' \in [Players -> Players \cup {NULL}] /\ NoSelf'
  BY ReleasedTyped DEF EndTrade, NoSelf
<1>2. trading' \in [Players -> BOOLEAN]
  BY DEF EndTrade, IInv, TypeOK
<1>3. deal_locked' \in [Players -> 0 .. 2]
  BY SMT DEF EndTrade
<1>4. deal' \in [Players -> Deal]
  BY NoDealTyped DEF EndTrade, IInv, TypeOK
<1>5. OffersOpen'
  <2> SUFFICES ASSUME NEW r \in Players, ~trading'[r]
               PROVE  deal_locked'[r] = 0 /\ deal'[r] = NoDeal
    BY DEF OffersOpen
  <2>1. CASE r \in closed
    BY <2>1 DEF EndTrade
  <2>2. CASE r \notin closed
    BY <2>2 DEF EndTrade, IInv, OffersOpen
  <2> QED BY <2>1, <2>2
<1>6. \A r \in Players : trading'[r] =>
        trading[r] /\ deal'[r] = deal[r] /\ deal_locked'[r] = locks[r]
  BY DEF EndTrade
<1> QED BY <1>1, <1>2, <1>3, <1>4, <1>5, <1>6 DEF WindowOK, EndTrade

LEMMA CancelWindow ==
  ASSUME IInv, NEW p \in Players, NEW closed, EndTrade(p, closed, deal_locked)
  PROVE  /\ WindowOK'
         /\ UNCHANGED goods
         /\ \A r \in Players : trading'[r] =>
              trading[r] /\ deal'[r] = deal[r] /\ deal_locked'[r] = deal_locked[r]
<1>1. deal_locked \in [Players -> 0 .. 2] /\ \A r \in Players : ~trading[r] => deal_locked[r] = 0
  BY DEF IInv, TypeOK, OffersOpen
<1> QED BY <1>1, EndTradeWindow

LEMMA CommitWindow ==
  ASSUME IInv, NEW p \in Players, NEW r \in Players, NEW closed, trading[p],
         EndTrade(r, closed, Committed(p))
  PROVE  /\ WindowOK'
         /\ UNCHANGED goods
         /\ \A s \in Players : trading'[s] =>
              trading[s] /\ deal'[s] = deal[s] /\ deal_locked'[s] >= deal_locked[s]
<1>1. deal_locked \in [Players -> 0 .. 2]
  BY DEF IInv, TypeOK
<1>2. /\ Committed(p) \in [Players -> 0 .. 2]
      /\ \A s \in Players : ~trading[s] => Committed(p)[s] = 0
      /\ \A s \in Players : Committed(p)[s] >= deal_locked[s]
  BY <1>1, SMT DEF Committed, IInv, OffersOpen
<1>3. /\ WindowOK'
      /\ UNCHANGED goods
      /\ \A s \in Players : trading'[s] =>
           trading[s] /\ deal'[s] = deal[s] /\ deal_locked'[s] = Committed(p)[s]
  BY <1>2, EndTradeWindow
<1> QED BY <1>2, <1>3

-----------------------------------------------------------------------------
(* The exchange *)

\* What one side holds after the exchange: a transfer that is made fits.
LEMMA SideTyped ==
  ASSUME IInv, NEW s \in Players, NEW r \in Players, s # r, Covered(s),
         NEW earlier, NEW done,
         \A x \in Items : <<r, x>> \in done =>
           After(s, r, earlier[x])[x] + deal[r].item[x] <= MAX_AMOUNT,
         \A x \in Items : earlier[x] \subseteq done
  PROVE  After(s, r, done) \in [Items -> 0 .. MAX_AMOUNT]
<1> SUFFICES ASSUME NEW x \in Items
             PROVE  inventory[s][x] - Given(s, x, done) + Given(r, x, done) \in 0 .. MAX_AMOUNT
  BY DEF After
<1> DEFINE i == inventory[s][x]
           gs == deal[s].item[x]
           gr == deal[r].item[x]
<1>1. i \in 0 .. MAX_AMOUNT /\ gs \in 0 .. MAX_AMOUNT /\ gr \in 0 .. MAX_AMOUNT /\ gs <= i
  BY DEF IInv, TypeOK, Deal, Covered
<1>2. /\ Given(s, x, done) \in {0, gs} /\ Given(r, x, done) \in {0, gr}
      /\ Given(s, x, earlier[x]) \in {0, gs} /\ Given(r, x, earlier[x]) \in {0, gr}
      /\ Given(s, x, done) = 0 => Given(s, x, earlier[x]) = 0 \/ gs = 0
  BY DEF Given
<1>3. CASE <<r, x>> \notin done
  BY <1>1, <1>2, <1>3, BoundAssumption, SMT DEF Given
<1>4. CASE <<r, x>> \in done
  <2>1. i - Given(s, x, earlier[x]) + Given(r, x, earlier[x]) + gr <= MAX_AMOUNT
    BY <1>4 DEF After
  <2> HIDE DEF i, gs, gr
  <2> QED BY <1>1, <1>2, <2>1, BoundAssumption, SMT DEF i, gs, gr
<1> QED BY <1>3, <1>4

LEMMA ExchangeItems ==
  ASSUME IInv, NEW p \in Players, NEW q \in Players, p # q,
         Covered(p), Covered(q), NEW slot, NEW done \in Transfers(p, q, slot)
  PROVE  /\ After(p, q, done) \in [Items -> 0 .. MAX_AMOUNT]
         /\ After(q, p, done) \in [Items -> 0 .. MAX_AMOUNT]
<1> DEFINE E(s) == [x \in Items |-> Earlier(p, slot, done, <<s, x>>)]
<1>1. \A s : \A x \in Items : E(s)[x] \subseteq done
  BY DEF Earlier
<1>2. \A x \in Items : <<q, x>> \in done =>
        After(p, q, E(q)[x])[x] + deal[q].item[x] <= MAX_AMOUNT
  <2> SUFFICES ASSUME NEW x \in Items, <<q, x>> \in done
               PROVE  After(p, q, Earlier(p, slot, done, <<q, x>>))[x] + deal[q].item[x] <= MAX_AMOUNT
    OBVIOUS
  <2>1. <<q, x>> \in Offers(p) \cup Offers(q)
    BY DEF Transfers
  <2>2. CanAdd(After(p, q, Earlier(p, slot, done, <<q, x>>)), x, deal[q].item[x])
    BY <2>1 DEF Transfers
  <2> QED BY <2>2 DEF CanAdd
<1>3. \A x \in Items : <<p, x>> \in done =>
        After(q, p, E(p)[x])[x] + deal[p].item[x] <= MAX_AMOUNT
  <2> SUFFICES ASSUME NEW x \in Items, <<p, x>> \in done
               PROVE  After(q, p, Earlier(p, slot, done, <<p, x>>))[x] + deal[p].item[x] <= MAX_AMOUNT
    OBVIOUS
  <2>1. <<p, x>> \in Offers(p) \cup Offers(q)
    BY DEF Transfers
  <2>2. CanAdd(After(q, p, Earlier(p, slot, done, <<p, x>>)), x, deal[p].item[x])
    BY <2>1 DEF Transfers
  <2> QED BY <2>2 DEF CanAdd
<1> HIDE DEF E
<1>4. After(p, q, done) \in [Items -> 0 .. MAX_AMOUNT]
  BY <1>1, <1>2, SideTyped
<1>5. After(q, p, done) \in [Items -> 0 .. MAX_AMOUNT]
  BY <1>1, <1>3, SideTyped
<1> QED BY <1>4, <1>5

LEMMA ExchangeZeny ==
  ASSUME IInv, NEW p \in Players, NEW q \in Players, p # q,
         Covered(p), Covered(q), ZenyFits(p, q), NEW done, Exchange(p, q, done)
  PROVE  /\ zeny' = [zeny EXCEPT ![p] = zeny[p] - deal[p].zeny + deal[q].zeny,
                                 ![q] = zeny[q] + deal[p].zeny - deal[q].zeny]
         /\ zeny'[p] \in 0 .. MAX_ZENY /\ zeny'[q] \in 0 .. MAX_ZENY
<1> DEFINE zp == zeny[p]  zq == zeny[q]  dp == deal[p].zeny  dq == deal[q].zeny
           cp == Capped(zp - dp + dq)  cq == Capped(zq + dp) - dq
<1>1. /\ zp \in 0 .. MAX_ZENY /\ zq \in 0 .. MAX_ZENY
      /\ dp \in 0 .. MAX_ZENY /\ dq \in 0 .. MAX_ZENY
  BY DEF IInv, TypeOK, Deal
<1>2. dp <= zp /\ dq <= zq /\ zq <= MAX_ZENY - dp /\ zp <= MAX_ZENY - dq
  BY DEF Covered, ZenyFits
<1>3. zeny \in [Players -> 0 .. MAX_ZENY]
  BY DEF IInv, TypeOK
<1>4. zeny' = [zeny EXCEPT ![p] = cp, ![q] = cq]
  BY DEF Exchange
<1> HIDE DEF zp, zq, dp, dq, cp, cq
<1>5. cp = zp - dp + dq /\ cq = zq + dp - dq
  BY <1>1, <1>2, BoundAssumption, SMT DEF Capped, cp, cq
<1>6. zp - dp + dq \in 0 .. MAX_ZENY /\ zq + dp - dq \in 0 .. MAX_ZENY
  BY <1>1, <1>2, BoundAssumption, SMT
<1>7. zeny' = [zeny EXCEPT ![p] = zp - dp + dq, ![q] = zq + dp - dq]
  BY <1>4, <1>5
<1>8. zeny'[p] = zp - dp + dq /\ zeny'[q] = zq + dp - dq
  BY <1>3, <1>7
<1> QED BY <1>6, <1>7, <1>8 DEF zp, zq, dp, dq

\* An exchange keeps the invariant, empties both windows and moves the goods
\* between the two.
LEMMA ExchangeKeeps ==
  ASSUME IInv, NEW p \in Players, NEW q \in Players, p # q,
         Covered(p), Covered(q), NEW slot, trade_check(p, q, slot),
         NEW done \in Transfers(p, q, slot), Exchange(p, q, done)
  PROVE  /\ WindowOK' /\ GoodsOK'
         /\ \A r \in Players : trading'[r] =>
              trading[r] /\ deal'[r] = deal[r] /\ deal_locked'[r] = deal_locked[r]
         /\ Exchanged(p, q) /\ ~trading'[p] /\ ~trading'[q]
         /\ \A r \in Players \ {p, q} : trading'[r] = trading[r]
<1>1. /\ trade_partner \in [Players -> Players \cup {NULL}]
      /\ trading \in [Players -> BOOLEAN]
      /\ deal_locked \in [Players -> 0 .. 2]
      /\ deal \in [Players -> Deal]
      /\ inventory \in [Players -> [Items -> 0 .. MAX_AMOUNT]]
      /\ zeny \in [Players -> 0 .. MAX_ZENY]
      /\ OffersOpen /\ NoSelf
  BY DEF IInv, TypeOK
<1>2. WindowOK'
  <2>1. /\ trade_partner' \in [Players -> Players \cup {NULL}]
        /\ trading' \in [Players -> BOOLEAN]
    BY <1>1 DEF Exchange
  <2>4. deal_locked' \in [Players -> 0 .. 2]
    <3>1. deal_locked' = [deal_locked EXCEPT ![p] = 0, ![q] = 0]
      BY DEF Exchange
    <3>2. 0 \in 0 .. 2
      BY SMT
    <3> QED BY <1>1, <3>1, <3>2
  <2>5. deal' \in [Players -> Deal]
    <3>1. deal' = [deal EXCEPT ![p] = NoDeal, ![q] = NoDeal]
      BY DEF Exchange
    <3> QED BY <1>1, <3>1, NoDealTyped
  <2>2. OffersOpen'
    BY <1>1, SMT DEF Exchange, OffersOpen
  <2>3. NoSelf'
    BY <1>1, NullAssumption DEF Exchange, NoSelf
  <2> QED BY <2>1, <2>2, <2>3, <2>4, <2>5 DEF WindowOK
<1>3. ZenyFits(p, q)
  BY DEF trade_check
<1>4. After(p, q, done) \in [Items -> 0 .. MAX_AMOUNT] /\ After(q, p, done) \in [Items -> 0 .. MAX_AMOUNT]
  BY ExchangeItems
<1>5. inventory' = [inventory EXCEPT ![p] = After(p, q, done), ![q] = After(q, p, done)]
  BY DEF Exchange
<1>6. GoodsOK'
  <2>1. inventory' \in [Players -> [Items -> 0 .. MAX_AMOUNT]]
    BY <1>1, <1>4, <1>5
  <2>2. zeny' \in [Players -> 0 .. MAX_ZENY]
    <3>1. zeny' = [r \in Players |-> IF r \in {p, q} THEN zeny'[r] ELSE zeny[r]]
      BY <1>1, <1>3, ExchangeZeny
    <3> QED BY <1>1, <1>3, <3>1, ExchangeZeny
  <2> QED BY <2>1, <2>2 DEF GoodsOK
<1>7. /\ ~trading'[p] /\ ~trading'[q]
      /\ \A r \in Players \ {p, q} : trading'[r] = trading[r]
      /\ \A r \in Players : trading'[r] =>
           trading[r] /\ deal'[r] = deal[r] /\ deal_locked'[r] = deal_locked[r]
  BY <1>1 DEF Exchange
<1>8. Exchanged(p, q)
  <2>1. ASSUME NEW x \in Items
        PROVE  inventory'[p][x] + inventory'[q][x] = inventory[p][x] + inventory[q][x]
    <3>1. inventory'[p] = After(p, q, done) /\ inventory'[q] = After(q, p, done)
      BY <1>1, <1>5
    <3> DEFINE ip == inventory[p][x]
               iq == inventory[q][x]
               gp == Given(p, x, done)
               gq == Given(q, x, done)
    <3>2. inventory'[p][x] = ip - gp + gq /\ inventory'[q][x] = iq - gq + gp
      BY <3>1 DEF After
    <3>3. ip \in Int /\ iq \in Int /\ gp \in Int /\ gq \in Int
      BY <1>1, BoundAssumption, SMT DEF Given, Deal
    <3> HIDE DEF ip, iq, gp, gq
    <3>4. (ip - gp + gq) + (iq - gq + gp) = ip + iq
      BY <3>3, SMT
    <3> QED BY <3>2, <3>4 DEF ip, iq
  <2>2. zeny'[p] + zeny'[q] = zeny[p] + zeny[q]
    <3> DEFINE zp == zeny[p]  zq == zeny[q]  dp == deal[p].zeny  dq == deal[q].zeny
    <3>1. zeny'[p] = zp - dp + dq /\ zeny'[q] = zq + dp - dq
      BY <1>1, <1>3, ExchangeZeny
    <3>2. zp \in Int /\ zq \in Int /\ dp \in Int /\ dq \in Int
      BY <1>1, BoundAssumption, SMT DEF Deal
    <3> HIDE DEF zp, zq, dp, dq
    <3>3. (zp - dp + dq) + (zq + dp - dq) = zp + zq
      BY <3>2, SMT
    <3> QED BY <3>1, <3>3 DEF zp, zq
  <2>3. ASSUME NEW r \in Players \ {p, q}
        PROVE  inventory'[r] = inventory[r] /\ zeny'[r] = zeny[r]
    BY <1>1, <1>3, <1>5, ExchangeZeny
  <2> QED BY <2>1, <2>2, <2>3 DEF Exchanged
<1> QED BY <1>2, <1>6, <1>7, <1>8

-----------------------------------------------------------------------------
(* The steps.  Each keeps IInv, the agreed offers and, when it closes a     *)
(* window, the goods.                                                       *)

Frozen ==
  \A r \in Players : deal_locked[r] > 0 /\ trading'[r] =>
    deal'[r] = deal[r] /\ deal_locked'[r] >= deal_locked[r]

Conserved ==
  \A r \in Players : trading[r] /\ ~trading'[r] =>
    UNCHANGED goods \/ \E q \in Players \ {r} : Exchanged(r, q)

Good == IInv' /\ Frozen /\ Conserved

\* A step that leaves the windows alone.
LEMMA QuietStep ==
  ASSUME IInv, UNCHANGED window, online' \in SUBSET Players, GoodsOK'
  PROVE  Good
<1>1. WindowOK'
  BY DEF IInv, TypeOK, WindowOK, OffersOpen, NoSelf, window
<1>2. IInv'
  BY <1>1 DEF GoodsOK, WindowOK, IInv, TypeOK
<1>3. Frozen
  <2> SUFFICES ASSUME NEW r \in Players
               PROVE  deal'[r] = deal[r] /\ deal_locked'[r] >= deal_locked[r]
    BY DEF Frozen
  <2>1. deal' = deal /\ deal_locked' = deal_locked /\ deal_locked[r] \in 0 .. 2
    BY DEF window, IInv, TypeOK
  <2> QED BY <2>1, SMT
<1>4. Conserved
  BY DEF Conserved, window
<1> QED BY <1>2, <1>3, <1>4 DEF Good

LEMMA GoodsKept ==
  ASSUME IInv, UNCHANGED goods
  PROVE  GoodsOK'
  BY DEF IInv, TypeOK, GoodsOK, goods

\* A step that moves no goods and only closes windows or raises locks.
LEMMA WindowStep ==
  ASSUME IInv, UNCHANGED goods, online' \in SUBSET Players, WindowOK',
         \A r \in Players : deal_locked[r] > 0 /\ trading'[r] =>
           deal'[r] = deal[r] /\ deal_locked'[r] >= deal_locked[r]
  PROVE  Good
<1>1. IInv'
  BY GoodsKept DEF WindowOK, GoodsOK, IInv, TypeOK
<1>2. Frozen /\ Conserved
  BY DEF Frozen, Conserved
<1> QED BY <1>1, <1>2 DEF Good

LEMMA EndTradeStep ==
  ASSUME IInv, NEW p \in Players, NEW closed, EndTrade(p, closed, deal_locked),
         online' \in SUBSET Players
  PROVE  Good
<1>1. /\ WindowOK' /\ UNCHANGED goods
      /\ \A r \in Players : trading'[r] =>
           trading[r] /\ deal'[r] = deal[r] /\ deal_locked'[r] = deal_locked[r]
  BY CancelWindow
<1>2. \A r \in Players : deal_locked[r] \in 0 .. 2
  BY DEF IInv, TypeOK
<1>3. \A r \in Players : deal_locked[r] > 0 /\ trading'[r] =>
        deal'[r] = deal[r] /\ deal_locked'[r] >= deal_locked[r]
  BY <1>1, <1>2, SMT
<1> QED BY <1>1, <1>3, WindowStep

LEMMA CancelStep ==
  ASSUME IInv, NEW p \in Players, trade_tradecancel(p), UNCHANGED online
  PROVE  Good
<1>1. online' \in SUBSET Players
  BY DEF IInv, TypeOK
<1> QED BY <1>1, EndTradeStep DEF trade_tradecancel

\* A step that moves the partners' pointers and lets some locks of closed
\* windows be reset.
LEMMA PointerStep ==
  ASSUME IInv, UNCHANGED <<online, trading, deal, goods>>,
         trade_partner' \in [Players -> Players \cup {NULL}],
         \A r \in Players : trade_partner'[r] # r,
         UNCHANGED deal_locked
  PROVE  Good
<1>1. WindowOK'
  BY DEF IInv, TypeOK, WindowOK, OffersOpen, NoSelf
<1>2. online' \in SUBSET Players /\ \A r \in Players : deal_locked[r] \in 0 .. 2
  BY DEF IInv, TypeOK
<1>3. \A r \in Players : deal_locked[r] > 0 /\ trading'[r] =>
        deal'[r] = deal[r] /\ deal_locked'[r] >= deal_locked[r]
  BY <1>2, SMT
<1> QED BY <1>1, <1>2, <1>3, WindowStep

LEMMA PlayerStepGood ==
  ASSUME IInv, NEW p \in Players, PlayerStep(p)
  PROVE  Good
<1>0. online \in SUBSET Players /\ GoodsOK
  BY DEF IInv, TypeOK, GoodsOK
<1>1. CASE Enter(p)
  <2>1. online' \in SUBSET Players /\ UNCHANGED window /\ UNCHANGED goods
    BY <1>0, <1>1 DEF Enter
  <2> QED BY <2>1, QuietStep, GoodsKept
<1>2. CASE Warp(p)
  <2>1. CASE trade_partner[p] # NULL
    BY <1>2, <2>1, CancelStep DEF Warp
  <2>2. CASE trade_partner[p] = NULL
    <3>1. UNCHANGED window /\ UNCHANGED goods /\ online' \in SUBSET Players
      BY <1>0, <1>2, <2>2 DEF Warp
    <3> QED BY <3>1, QuietStep, GoodsKept
  <2> QED BY <2>1, <2>2
<1>3. CASE Quit(p)
  <2>1. online' \in SUBSET Players
    BY <1>0, <1>3 DEF Quit
  <2> QED BY <1>3, <2>1, EndTradeStep DEF Quit
<1>4. CASE Earn(p)
  <2>1. UNCHANGED window /\ online' \in SUBSET Players
    BY <1>0, <1>4 DEF Earn
  <2>2. zeny[p] + 1 \in 0 .. MAX_ZENY
    BY <1>0, <1>4, BoundAssumption, SMT DEF Earn, GoodsOK
  <2>3. GoodsOK'
    BY <1>0, <1>4, <2>2 DEF Earn, GoodsOK
  <2> QED BY <2>1, <2>3, QuietStep
<1>5. CASE Spend(p)
  <2>1. UNCHANGED window /\ online' \in SUBSET Players
    BY <1>0, <1>5 DEF Spend
  <2>2. zeny[p] - 1 \in 0 .. MAX_ZENY
    BY <1>0, <1>5, BoundAssumption, SMT DEF Spend, GoodsOK
  <2>3. GoodsOK'
    BY <1>0, <1>5, <2>2 DEF Spend, GoodsOK
  <2> QED BY <2>1, <2>3, QuietStep
<1>6. ASSUME NEW x \in Items, Receive(p, x) PROVE Good
  <2>1. UNCHANGED window /\ online' \in SUBSET Players
    BY <1>0, <1>6 DEF Receive
  <2>2. inventory[p][x] + 1 \in 0 .. MAX_AMOUNT
    BY <1>0, <1>6, BoundAssumption, SMT DEF Receive, CanAdd, GoodsOK
  <2>3. [inventory[p] EXCEPT ![x] = inventory[p][x] + 1] \in [Items -> 0 .. MAX_AMOUNT]
    BY <1>0, <2>2 DEF GoodsOK
  <2>4. inventory' = [inventory EXCEPT ![p] = [inventory[p] EXCEPT ![x] = inventory[p][x] + 1]]
        /\ zeny' = zeny
    BY <1>0, <1>6 DEF Receive, GoodsOK
  <2>5. GoodsOK'
    BY <1>0, <2>3, <2>4 DEF GoodsOK
  <2> QED BY <2>1, <2>5, QuietStep
<1>7. ASSUME NEW x \in Items, Consume(p, x) PROVE Good
  <2>1. UNCHANGED window /\ online' \in SUBSET Players
    BY <1>0, <1>7 DEF Consume
  <2>2. inventory[p][x] - 1 \in 0 .. MAX_AMOUNT
    BY <1>0, <1>7, BoundAssumption, SMT DEF Consume, GoodsOK
  <2>3. [inventory[p] EXCEPT ![x] = inventory[p][x] - 1] \in [Items -> 0 .. MAX_AMOUNT]
    BY <1>0, <2>2 DEF GoodsOK
  <2>4. inventory' = [inventory EXCEPT ![p] = [inventory[p] EXCEPT ![x] = inventory[p][x] - 1]]
        /\ zeny' = zeny
    BY <1>0, <1>7 DEF Consume, GoodsOK
  <2>5. GoodsOK'
    BY <1>0, <2>3, <2>4 DEF GoodsOK
  <2> QED BY <2>1, <2>5, QuietStep
<1> QED BY <1>1, <1>2, <1>3, <1>4, <1>5, <1>6, <1>7 DEF PlayerStep

\* Requests and answers
LEMMA RequestStepGood ==
  ASSUME IInv, NEW p \in Players,
         \/ \E q \in Players : TradeRequest(p, q)
         \/ TradeCancel(p)
         \/ TradeAckFails(p) \/ TradeAckRefused(p) \/ TradeAckAccepted(p)
  PROVE  Good
<1>0. /\ online \in SUBSET Players
      /\ trade_partner \in [Players -> Players \cup {NULL}]
      /\ trading \in [Players -> BOOLEAN]
      /\ deal_locked \in [Players -> 0 .. 2]
      /\ deal \in [Players -> Deal]
      /\ NoSelf /\ OffersOpen
  BY DEF IInv, TypeOK
<1>1. ASSUME NEW q \in Players, TradeRequest(p, q) PROVE Good
  <2> DEFINE asked == [Released(p) EXCEPT ![p] = q, ![q] = p]
  <2>1. trade_partner' \in {asked, Released(p)}
    BY <1>1 DEF TradeRequest
  <2>2. p # q
    BY <1>1 DEF TradeRequest
  <2>3. asked \in [Players -> Players \cup {NULL}] /\ \A r \in Players : asked[r] # r
    BY <2>2, ReleasedTyped
  <2> HIDE DEF asked
  <2>4. trade_partner' \in [Players -> Players \cup {NULL}] /\ \A r \in Players : trade_partner'[r] # r
    BY <2>1, <2>3, ReleasedTyped
  <2>5. UNCHANGED <<online, trading, deal, goods>> /\ UNCHANGED deal_locked
    BY <1>1 DEF TradeRequest
  <2> QED BY <2>4, <2>5, PointerStep
<1>2. CASE TradeCancel(p)
  BY <1>2, CancelStep DEF TradeCancel
<1>3. CASE TradeAckFails(p)
  <2>1. trade_partner' \in [Players -> Players \cup {NULL}] /\ \A r \in Players : trade_partner'[r] # r
    BY <1>0, <1>3, NullAssumption DEF TradeAckFails, NoSelf
  <2>2. UNCHANGED <<online, trading, deal, goods>> /\ UNCHANGED deal_locked
    BY <1>3 DEF TradeAckFails
  <2> QED BY <2>1, <2>2, PointerStep
<1>4. CASE TradeAckRefused(p)
  <2>1. trade_partner' \in [Players -> Players \cup {NULL}] /\ \A r \in Players : trade_partner'[r] # r
    BY <1>4, ReleasedTyped DEF TradeAckRefused
  <2>2. UNCHANGED <<online, trading, deal, goods>>
    BY <1>4 DEF TradeAckRefused
  <2>3. CASE UNCHANGED deal_locked
    BY <2>1, <2>2, <2>3, PointerStep
  <2>4. CASE deal_locked' = [deal_locked EXCEPT ![p] = 0, ![Partner(p)] = 0]
    <3>1. Partner(p) \in Players /\ ~trading[p] /\ ~trading[Partner(p)]
      BY <1>4, PartnerTyped DEF TradeAckRefused, HasRequest, IsAsked
    <3>2. deal_locked[p] = 0 /\ deal_locked[Partner(p)] = 0
      BY <1>0, <3>1 DEF OffersOpen
    <3>3. deal_locked' = deal_locked
      BY <1>0, <2>4, <3>1, <3>2
    <3> QED BY <2>1, <2>2, <3>3, PointerStep
  <2> QED BY <1>4, <2>3, <2>4 DEF TradeAckRefused
<1>5. CASE TradeAckAccepted(p)
  <2>1. Partner(p) \in Players /\ ~trading[p] /\ ~trading[Partner(p)]
    BY <1>5, PartnerTyped DEF TradeAckAccepted, HasRequest, IsAsked
  <2>2. /\ UNCHANGED goods /\ online' \in SUBSET Players
        /\ trade_partner' = trade_partner /\ deal_locked' = deal_locked
        /\ trading' = [trading EXCEPT ![p] = TRUE, ![Partner(p)] = TRUE]
        /\ deal' = [deal EXCEPT ![p] = NoDeal, ![Partner(p)] = NoDeal]
    BY <1>0, <1>5 DEF TradeAckAccepted
  <2>3. trading' \in [Players -> BOOLEAN] /\ deal' \in [Players -> Deal]
    BY <1>0, <2>1, <2>2, NoDealTyped
  <2>4. OffersOpen' /\ NoSelf'
    BY <1>0, <2>1, <2>2 DEF OffersOpen, NoSelf
  <2>5. WindowOK'
    BY <1>0, <2>2, <2>3, <2>4 DEF WindowOK
  <2>6. ASSUME NEW r \in Players, deal_locked[r] > 0, trading'[r]
        PROVE  deal'[r] = deal[r] /\ deal_locked'[r] >= deal_locked[r]
    <3>1. deal_locked[r] # 0
      BY <2>6, <1>0, SMT
    <3>2. trading[r]
      BY <1>0, <3>1 DEF OffersOpen
    <3>3. r # p /\ r # Partner(p)
      BY <2>1, <3>2
    <3>4. deal'[r] = deal[r] /\ deal_locked'[r] = deal_locked[r]
      BY <1>0, <2>2, <3>3
    <3> QED BY <1>0, <3>4, SMT
  <2> QED BY <2>2, <2>5, <2>6, WindowStep
<1> QED BY <1>1, <1>2, <1>3, <1>4, <1>5

\* Offers: only a player that has not agreed yet changes its offer.
LEMMA OfferStepGood ==
  ASSUME IInv, NEW p \in Players,
         \/ OfferFails(p)
         \/ \E x \in Items, n \in 1 .. MAX_AMOUNT : TradeAddItem(p, x, n)
         \/ \E z \in 0 .. MAX_ZENY : TradeAddZeny(p, z)
         \/ TradeOk(p)
  PROVE  Good
<1>0. /\ online \in SUBSET Players
      /\ trade_partner \in [Players -> Players \cup {NULL}]
      /\ trading \in [Players -> BOOLEAN]
      /\ deal_locked \in [Players -> 0 .. 2]
      /\ deal \in [Players -> Deal]
      /\ inventory \in [Players -> [Items -> 0 .. MAX_AMOUNT]]
      /\ NoSelf /\ OffersOpen
  BY DEF IInv, TypeOK
<1>a. ASSUME NEW d \in Deal, MayOffer(p), deal' = [deal EXCEPT ![p] = d],
             UNCHANGED <<online, trade_partner, trading, deal_locked, goods>>
      PROVE  Good
  <2>1. /\ UNCHANGED goods /\ online' = online /\ trade_partner' = trade_partner
        /\ trading' = trading /\ deal_locked' = deal_locked
        /\ trading[p] /\ deal_locked[p] = 0
    BY <1>a DEF MayOffer
  <2>2. deal' \in [Players -> Deal]
    BY <1>0, <1>a
  <2>3. OffersOpen' /\ NoSelf'
    BY <1>0, <1>a, <2>1 DEF OffersOpen, NoSelf
  <2>4. WindowOK' /\ online' \in SUBSET Players
    BY <1>0, <2>1, <2>2, <2>3 DEF WindowOK
  <2>5. ASSUME NEW r \in Players, deal_locked[r] > 0, trading'[r]
        PROVE  deal'[r] = deal[r] /\ deal_locked'[r] >= deal_locked[r]
    <3>1. r # p
      BY <2>1, <2>5, SMT
    <3>2. deal'[r] = deal[r] /\ deal_locked'[r] = deal_locked[r]
      BY <1>0, <1>a, <2>1, <3>1
    <3> QED BY <1>0, <3>2, SMT
  <2> QED BY <2>1, <2>4, <2>5, WindowStep
<1>1. CASE OfferFails(p)
  BY <1>1, CancelStep DEF OfferFails
<1>2. ASSUME NEW x \in Items, NEW n \in 1 .. MAX_AMOUNT, TradeAddItem(p, x, n) PROVE Good
  <2> DEFINE has == inventory[p][x]
             offered == deal[p].item[x]
             added == IF offered > 0 /\ offered + n > has THEN has ELSE offered + n
             d == [deal[p] EXCEPT !.item = [deal[p].item EXCEPT ![x] = added]]
  <2>1. /\ MayOffer(p) /\ n <= has
        /\ deal' = [deal EXCEPT ![p].item[x] = added]
        /\ UNCHANGED <<online, trade_partner, trading, deal_locked, goods>>
    BY <1>2 DEF TradeAddItem
  <2>2. has \in 0 .. MAX_AMOUNT /\ deal[p] \in Deal
    BY <1>0
  <2>3. deal[p].item \in [Items -> 0 .. MAX_AMOUNT] /\ offered \in 0 .. MAX_AMOUNT
    BY <2>2 DEF Deal
  <2> HIDE DEF has, offered
  <2>4. added \in 0 .. MAX_AMOUNT
    BY <2>1, <2>2, <2>3, BoundAssumption, SMT
  <2> HIDE DEF added
  <2>5. d \in Deal
    BY <2>2, <2>3, <2>4 DEF Deal
  <2>6. deal' = [deal EXCEPT ![p] = d]
    BY <1>0, <2>1
  <2> QED BY <1>a, <2>1, <2>5, <2>6
<1>3. ASSUME NEW z \in 0 .. MAX_ZENY, TradeAddZeny(p, z) PROVE Good
  <2>1. CASE z <= zeny[p] /\ z <= MAX_ZENY - zeny[Partner(p)]
    <3>1. /\ MayOffer(p) /\ deal' = [deal EXCEPT ![p].zeny = z]
          /\ UNCHANGED <<online, trade_partner, trading, deal_locked, goods>>
      BY <1>3, <2>1 DEF TradeAddZeny
    <3>2. [deal[p] EXCEPT !.zeny = z] \in Deal
      BY <1>0 DEF Deal
    <3>3. deal' = [deal EXCEPT ![p] = [deal[p] EXCEPT !.zeny = z]]
      BY <1>0, <3>1
    <3> QED BY <1>a, <3>1, <3>2, <3>3
  <2>2. CASE ~(z <= zeny[p] /\ z <= MAX_ZENY - zeny[Partner(p)])
    BY <1>3, <2>2, CancelStep DEF TradeAddZeny
  <2> QED BY <2>1, <2>2
<1>4. CASE TradeOk(p)
  <2>1. /\ UNCHANGED goods /\ online' = online /\ trade_partner' = trade_partner
        /\ trading' = trading /\ deal' = deal
        /\ trading[p] /\ deal_locked[p] = 0
        /\ deal_locked' = [deal_locked EXCEPT ![p] = 1]
    BY <1>4 DEF TradeOk, MayOffer
  <2>2. deal_locked' \in [Players -> 0 .. 2]
    BY <1>0, <2>1, SMT
  <2>3. OffersOpen' /\ NoSelf'
    BY <1>0, <2>1 DEF OffersOpen, NoSelf
  <2>4. WindowOK' /\ online' \in SUBSET Players
    BY <1>0, <2>1, <2>2, <2>3 DEF WindowOK
  <2>5. ASSUME NEW r \in Players, deal_locked[r] > 0, trading'[r]
        PROVE  deal'[r] = deal[r] /\ deal_locked'[r] >= deal_locked[r]
    BY <1>0, <2>1, <2>5, SMT
  <2> QED BY <2>1, <2>4, <2>5, WindowStep
<1> QED BY <1>1, <1>2, <1>3, <1>4

\* The commit: the exchange moves goods between p and its partner only.
LEMMA CommitStepGood ==
  ASSUME IInv, NEW p \in Players,
         CommitFails(p) \/ CommitWaits(p) \/ TradeCommit(p)
  PROVE  Good
<1>0. /\ online \in SUBSET Players
      /\ trade_partner \in [Players -> Players \cup {NULL}]
      /\ trading \in [Players -> BOOLEAN]
      /\ deal_locked \in [Players -> 0 .. 2]
      /\ deal \in [Players -> Deal]
      /\ NoSelf /\ OffersOpen
  BY DEF IInv, TypeOK
<1>1. CASE CommitFails(p)
  BY <1>1, CancelStep DEF CommitFails
<1>2. CASE CommitWaits(p)
  <2>1. /\ UNCHANGED goods /\ online' = online /\ trade_partner' = trade_partner
        /\ trading' = trading /\ deal' = deal /\ trading[p]
        /\ deal_locked' = [deal_locked EXCEPT ![p] = 2]
    BY <1>2 DEF CommitWaits, MayCommit, Committed
  <2>2. deal_locked' \in [Players -> 0 .. 2]
    BY <1>0, <2>1, SMT
  <2>3. OffersOpen' /\ NoSelf'
    BY <1>0, <2>1 DEF OffersOpen, NoSelf
  <2>4. WindowOK' /\ online' \in SUBSET Players
    BY <1>0, <2>1, <2>2, <2>3 DEF WindowOK
  <2>5. ASSUME NEW r \in Players, deal_locked[r] > 0, trading'[r]
        PROVE  deal'[r] = deal[r] /\ deal_locked'[r] >= deal_locked[r]
    BY <1>0, <2>1, SMT
  <2> QED BY <2>1, <2>4, <2>5, WindowStep
<1>3. CASE TradeCommit(p)
  <2> DEFINE q == Partner(p)
  <2>1. q \in Players /\ q # p /\ trading[p] /\ online' \in SUBSET Players
    BY <1>0, <1>3, PartnerTyped DEF TradeCommit, MayCommit
  <2>2. ASSUME NEW r \in Players, EndTrade(r, Closed(r), Committed(p)) PROVE Good
    BY <2>1, <2>2, CommitWindow, WindowStep
  <2>3. ASSUME NEW slot, Covered(p), Covered(q), trade_check(p, q, slot),
               NEW done \in Transfers(p, q, slot), Exchange(p, q, done)
        PROVE  Good
    <3>1. /\ WindowOK' /\ GoodsOK'
          /\ \A r \in Players : trading'[r] =>
               trading[r] /\ deal'[r] = deal[r] /\ deal_locked'[r] = deal_locked[r]
          /\ Exchanged(p, q) /\ ~trading'[p] /\ ~trading'[q]
          /\ \A r \in Players \ {p, q} : trading'[r] = trading[r]
      BY <2>1, <2>3, ExchangeKeeps
    <3>2. IInv'
      BY <2>1, <3>1 DEF WindowOK, GoodsOK, IInv, TypeOK
    <3>3. Frozen
      BY <1>0, <3>1, SMT DEF Frozen
    <3>4. Exchanged(q, p)
      <4>1. ASSUME NEW x \in Items
            PROVE  inventory'[q][x] + inventory'[p][x] = inventory[q][x] + inventory[p][x]
        <5>1. /\ inventory'[q][x] \in Int /\ inventory'[p][x] \in Int
              /\ inventory[q][x] \in Int /\ inventory[p][x] \in Int
          BY <2>1, <3>2, BoundAssumption, SMT DEF IInv, TypeOK
        <5>2. inventory'[p][x] + inventory'[q][x] = inventory[p][x] + inventory[q][x]
          BY <3>1 DEF Exchanged
        <5> HIDE DEF q
        <5> QED BY <5>1, <5>2, SMT
      <4>2. zeny'[q] + zeny'[p] = zeny[q] + zeny[p]
        <5>1. zeny'[q] \in Int /\ zeny'[p] \in Int /\ zeny[q] \in Int /\ zeny[p] \in Int
          BY <2>1, <3>2, BoundAssumption, SMT DEF IInv, TypeOK
        <5>2. zeny'[p] + zeny'[q] = zeny[p] + zeny[q]
          BY <3>1 DEF Exchanged
        <5> HIDE DEF q
        <5> QED BY <5>1, <5>2, SMT
      <4> QED BY <3>1, <4>1, <4>2 DEF Exchanged
    <3>5. Conserved
      <4> SUFFICES ASSUME NEW r \in Players, trading[r], ~trading'[r]
                   PROVE  \E s \in Players \ {r} : Exchanged(r, s)
        BY DEF Conserved
      <4>1. r = p \/ r = q
        BY <3>1
      <4> QED BY <2>1, <3>1, <3>4, <4>1
    <3> QED BY <3>2, <3>3, <3>5 DEF Good
  <2> HIDE DEF q
  <2>4. \E slot :
          \/ EndTrade(p, Closed(p), Committed(p))
          \/ EndTrade(q, Closed(q), Committed(p))
          \/ /\ Covered(p) /\ Covered(q) /\ trade_check(p, q, slot)
             /\ \E done \in Transfers(p, q, slot) : Exchange(p, q, done)
    BY <1>3 DEF TradeCommit, q
  <2> QED BY <2>1, <2>2, <2>3, <2>4
<1> QED BY <1>1, <1>2, <1>3

LEMMA StepGood ==
  ASSUME IInv, Next
  PROVE  Good
<1>1. PICK p \in Players : PlayerStep(p) \/ TradeStep(p)
  BY DEF Next
<1>2. CASE PlayerStep(p)
  BY <1>2, PlayerStepGood
<1>3. CASE TradeStep(p)
  BY <1>3, RequestStepGood, OfferStepGood, CommitStepGood DEF TradeStep
<1> QED BY <1>1, <1>2, <1>3

LEMMA StutterGood ==
  ASSUME IInv, UNCHANGED vars
  PROVE  IInv'
  BY DEF IInv, TypeOK, OffersOpen, NoSelf, vars, window, goods

-----------------------------------------------------------------------------
(* The theorems *)

LEMMA Inductive == Spec => []IInv
<1>1. IInv /\ [Next]_vars => IInv'
  BY StepGood, StutterGood DEF Good
<1> QED BY InitInv, <1>1, PTL DEF Spec

\* The tables of trades are of their types: whatever the players receive or
\* lose meanwhile, no exchange brings an inventory or zeny beyond its limit
\* or below zero (trade_tradecommit).
THEOREM TypeCorrect == Spec => []TypeOK
<1>1. IInv => TypeOK
  BY DEF IInv
<1> QED BY Inductive, <1>1, PTL

\* Closed windows hold neither an offer nor an agreement (trade_tradecancel).
THEOREM OffersAreOpen == Spec => []OffersOpen
<1>1. IInv => OffersOpen
  BY DEF IInv
<1> QED BY Inductive, <1>1, PTL

\* No trade creates or destroys an item or zeny (trade_tradecommit).
THEOREM Conserves == Spec => TradeConserves
<1>1. IInv /\ [Next]_vars =>
        [\A p \in Players : trading[p] /\ ~trading'[p] =>
           UNCHANGED goods \/ \E q \in Players \ {p} : Exchanged(p, q)]_vars
  BY StepGood DEF Good, Conserved
<1> QED BY Inductive, <1>1, PTL DEF Spec, TradeConserves

\* What a player agreed to stays until its window is closed
\* (trade_tradeadditem, trade_tradeaddzeny, trade_tradeok).
THEOREM OffersFrozen == Spec => OfferFrozen
<1>1. IInv /\ [Next]_vars =>
        [\A p \in Players : deal_locked[p] > 0 /\ trading'[p] =>
           deal'[p] = deal[p] /\ deal_locked'[p] >= deal_locked[p]]_vars
  BY StepGood DEF Good, Frozen
<1> QED BY Inductive, <1>1, PTL DEF Spec, OfferFrozen

-----------------------------------------------------------------------------
(* Without chat rooms nobody with an open window requests a trade, and the *)
(* pointers of two players are always mutual.                              *)

Mutual ==
  \A p \in Players :
    /\ trade_partner[p] # NULL =>
         /\ p \in online /\ trade_partner[p] \in online
         /\ trade_partner[trade_partner[p]] = p
         /\ trading[p] = trading[trade_partner[p]]
    /\ trading[p] => trade_partner[p] # NULL

\* p lets its partner go, and a window that was open closes on both sides.
LEMMA ReleaseMutual ==
  ASSUME IInv, Mutual, NEW p \in Players,
         trade_partner' = Released(p),
         NEW closed, closed \in {Closed(p), Closed(p) \cup {p}},
         trading' = [r \in Players |-> trading[r] /\ r \notin closed],
         online' \in {online, online \ {p}}
  PROVE  Mutual'
<1>1. /\ trade_partner \in [Players -> Players \cup {NULL}]
      /\ trading \in [Players -> BOOLEAN]
      /\ online \in SUBSET Players
      /\ \A r \in Players : trade_partner[r] # r
  BY DEF IInv, TypeOK, NoSelf
<1>2. trade_partner' \in [Players -> Players \cup {NULL}] /\ trading' \in [Players -> BOOLEAN]
  BY ReleasedTyped
<1>3. CASE trade_partner[p] = NULL
  <2>1. Partner(p) = NULL /\ ~trading[p]
    BY <1>1, <1>3, NullAssumption DEF Partner, map_id2sd, Mutual
  <2>2. trading' = trading /\ trade_partner' = trade_partner
    BY <1>1, <1>3, <2>1, NullAssumption DEF Released, Closed
  <2>3. \A r \in Players : trade_partner[r] # p
    BY <1>1, <1>3, NullAssumption DEF Mutual
  <2> QED BY <1>1, <2>2, <2>3 DEF Mutual
<1>4. CASE trade_partner[p] # NULL
  <2> DEFINE q == trade_partner[p]
  <2>1. /\ q \in Players /\ q # p /\ Partner(p) = q /\ p \in online /\ q \in online
        /\ trade_partner[q] = p /\ trading[p] = trading[q]
    BY <1>1, <1>4, NullAssumption DEF Partner, map_id2sd, Mutual
  <2>2. \A r \in Players : trade_partner'[r] = IF r \in {p, q} THEN NULL ELSE trade_partner[r]
    BY <2>1 DEF Released
  <2>3. ~trading'[p] /\ ~trading'[q] /\ \A r \in Players \ {p, q} : trading'[r] = trading[r]
    BY <1>1, <2>1 DEF Closed
  <2>4. \A r \in Players \ {p, q} : trade_partner[r] \notin {p, q}
    BY <1>1, <2>1, NullAssumption DEF Mutual
  <2> HIDE DEF q
  <2>5. ASSUME NEW r \in Players \ {p, q}, trade_partner'[r] # NULL
        PROVE  /\ r \in online' /\ trade_partner'[r] \in online'
               /\ trade_partner'[trade_partner'[r]] = r
               /\ trading'[r] = trading'[trade_partner'[r]]
    <3>1. trade_partner'[r] = trade_partner[r] /\ trade_partner[r] \in Players \ {p, q}
      BY <1>1, <2>2, <2>4, <2>5
    <3> QED BY <1>1, <2>2, <2>3, <2>5, <3>1 DEF Mutual
  <2>6. \A r \in Players : trading'[r] => trade_partner'[r] # NULL
    BY <1>1, <2>2, <2>3 DEF Mutual
  <2>7. trade_partner'[p] = NULL /\ trade_partner'[q] = NULL
    BY <2>1, <2>2
  <2> QED BY <2>1, <2>5, <2>6, <2>7 DEF Mutual
<1> QED BY <1>3, <1>4

LEMMA EndTradeMutual ==
  ASSUME IInv, Mutual, NEW p \in Players, NEW closed, NEW locks,
         closed \in {Closed(p), Closed(p) \cup {p}}, EndTrade(p, closed, locks),
         online' \in {online, online \ {p}}
  PROVE  Mutual'
  BY ReleaseMutual DEF EndTrade

LEMMA MutualStep ==
  ASSUME IInv, Mutual, ChatRooms = FALSE, [Next]_vars
  PROVE  Mutual'
<1>0. /\ trade_partner \in [Players -> Players \cup {NULL}]
      /\ trading \in [Players -> BOOLEAN]
      /\ online \in SUBSET Players
      /\ \A r \in Players : trade_partner[r] # r
  BY DEF IInv, TypeOK, NoSelf
<1>1. CASE UNCHANGED <<online, trade_partner, trading>>
  BY <1>1 DEF Mutual
<1>2. ASSUME NEW p \in Players, trade_tradecancel(p), UNCHANGED online PROVE Mutual'
  BY <1>2, EndTradeMutual DEF trade_tradecancel
<1>3. ASSUME NEW p \in Players, PlayerStep(p) PROVE Mutual'
  <2>1. CASE Enter(p)
    <3>1. online' = online \cup {p} /\ trade_partner' = trade_partner /\ trading' = trading
      BY <2>1 DEF Enter, window
    <3> QED BY <1>0, <3>1 DEF Mutual
  <2>2. CASE Warp(p)
    BY <1>1, <1>2, <2>2 DEF Warp, window
  <2>3. CASE Quit(p)
    BY <2>3, EndTradeMutual DEF Quit
  <2>4. CASE Earn(p) \/ Spend(p) \/ \E x \in Items : Receive(p, x) \/ Consume(p, x)
    BY <1>1, <2>4 DEF Earn, Spend, Receive, Consume, window
  <2> QED BY <1>3, <2>1, <2>2, <2>3, <2>4 DEF PlayerStep
<1>4. ASSUME NEW p \in Players, NEW q \in Players, TradeRequest(p, q) PROVE Mutual'
  <2>1. /\ p \in online /\ q \in online /\ p # q /\ ~trading[p]
        /\ online' = online /\ trading' = trading
    BY <1>4 DEF TradeRequest, MayRequest
  <2>2. CASE trade_partner' = Released(p)
    <3>1. Closed(p) = {} /\ trading' = [r \in Players |-> trading[r] /\ r \notin Closed(p)]
      BY <1>0, <2>1 DEF Closed
    <3> QED BY <2>1, <2>2, <3>1, ReleaseMutual
  <2>3. CASE Released(p)[q] = NULL /\ trade_partner' = [Released(p) EXCEPT ![p] = q, ![q] = p]
    <3>1. \A r \in Players : Released(p)[r] \in {trade_partner[r], NULL} /\ Released(p)[p] = NULL
      BY ReleasedTyped
    <3>2. ~trading[q] /\ \A r \in Players \ {p, q} : Released(p)[r] \notin {p, q}
      BY <1>0, <2>1, <2>3, NullAssumption DEF Mutual, Released, Partner, map_id2sd
    <3>3. trade_partner'[p] = q /\ trade_partner'[q] = p
          /\ \A r \in Players \ {p, q} : trade_partner'[r] = Released(p)[r]
      BY <2>1, <2>3, ReleasedTyped
    <3>4. ASSUME NEW r \in Players \ {p, q}
          PROVE  /\ trade_partner'[r] # NULL =>
                      /\ r \in online' /\ trade_partner'[r] \in online'
                      /\ trade_partner'[trade_partner'[r]] = r
                      /\ trading'[r] = trading'[trade_partner'[r]]
                 /\ trading'[r] => trade_partner'[r] # NULL
      <4>1. trading[r] => Released(p)[r] = trade_partner[r]
        BY <1>0, <2>1, NullAssumption DEF Mutual, Released, Partner, map_id2sd
      <4>2. CASE Released(p)[r] = NULL
        BY <2>1, <3>3, <4>1, <4>2 DEF Mutual
      <4>3. CASE Released(p)[r] # NULL
        <5> DEFINE s == trade_partner[r]
        <5>1. Released(p)[r] = s /\ s \in Players \ {p, q} /\ s # NULL
          BY <1>0, <3>1, <3>2, <4>3
        <5>2. trade_partner[s] = r /\ s \in online /\ r \in online /\ trading[r] = trading[s]
          BY <5>1 DEF Mutual
        <5>3. Released(p)[s] = r
          BY <1>0, <2>1, <3>2, <5>1, <5>2, NullAssumption DEF Released, Partner, map_id2sd, Mutual
        <5> HIDE DEF s
        <5>4. trade_partner'[r] = s /\ trade_partner'[s] = r
          BY <3>3, <5>1, <5>3
        <5> QED BY <2>1, <5>1, <5>2, <5>4
      <4> QED BY <4>2, <4>3
    <3> QED BY <1>0, <2>1, <3>2, <3>3, <3>4 DEF Mutual
  <2> QED BY <1>4, <2>2, <2>3 DEF TradeRequest
<1>5. ASSUME NEW p \in Players,
             TradeAckFails(p) \/ TradeAckRefused(p) \/ TradeAckAccepted(p)
      PROVE  Mutual'
  <2>1. HasRequest(p) /\ UNCHANGED online
    BY <1>5 DEF TradeAckFails, TradeAckRefused, TradeAckAccepted
  <2>2. /\ Partner(p) = trade_partner[p] /\ Partner(p) \in Players /\ Partner(p) # p
        /\ IsAsked(p) /\ ~trading[p]
    BY <1>0, <2>1, NullAssumption DEF HasRequest, Mutual, Partner, map_id2sd, IsAsked
  <2>3. CASE TradeAckRefused(p)
    <3>1. /\ trade_partner' = Released(p)
          /\ trading' = [r \in Players |-> trading[r] /\ r \notin Closed(p)]
      BY <1>0, <2>2, <2>3 DEF TradeAckRefused, Closed
    <3> QED BY <2>1, <3>1, ReleaseMutual
  <2>4. CASE TradeAckAccepted(p)
    <3> DEFINE q == trade_partner[p]
    <3>1. /\ q \in Players /\ p # q /\ trade_partner[q] = p
          /\ trade_partner' = trade_partner /\ online' = online
          /\ trading' = [trading EXCEPT ![p] = TRUE, ![q] = TRUE]
      BY <2>2, <2>4 DEF TradeAckAccepted, IsAsked
    <3>2. \A r \in Players : trade_partner[r] # NULL /\ r \notin {p, q} => trade_partner[r] \notin {p, q}
      BY <1>0, <2>2, <3>1 DEF Mutual
    <3> HIDE DEF q
    <3>3. trade_partner[p] = q
      BY DEF q
    <3>4. \A r \in Players : trading'[r] = (trading[r] \/ r \in {p, q})
      BY <1>0, <3>1
    <3>5. ASSUME NEW r \in Players
          PROVE  /\ trade_partner[r] # NULL =>
                      /\ r \in online /\ trade_partner[r] \in online
                      /\ trade_partner[trade_partner[r]] = r
                      /\ trading'[r] = trading'[trade_partner[r]]
                 /\ trading'[r] => trade_partner[r] # NULL
      <4>1. r \in {p, q} => trade_partner[r] \in {p, q} /\ trade_partner[r] # NULL
        BY <3>1, <3>3, NullAssumption
      <4> QED BY <1>0, <3>2, <3>4, <4>1 DEF Mutual
    <3> QED BY <3>1, <3>5 DEF Mutual
  <2> QED BY <1>5, <2>2, <2>3, <2>4 DEF TradeAckFails
<1>6. ASSUME NEW p \in Players,
             \/ OfferFails(p)
             \/ \E x \in Items, n \in 1 .. MAX_AMOUNT : TradeAddItem(p, x, n)
             \/ \E z \in 0 .. MAX_ZENY : TradeAddZeny(p, z)
             \/ TradeOk(p) \/ CommitFails(p) \/ CommitWaits(p)
      PROVE  Mutual'
  BY <1>1, <1>2, <1>6 DEF OfferFails, TradeAddItem, TradeAddZeny, TradeOk, CommitFails, CommitWaits
<1>7. ASSUME NEW p \in Players, TradeCommit(p) PROVE Mutual'
  <2> DEFINE q == Partner(p)
  <2>1. /\ q \in Players /\ q # p /\ q = trade_partner[p] /\ trading[p]
        /\ trade_partner[q] = p /\ online' = online /\ p \in online
    BY <1>0, <1>7, PartnerTyped DEF TradeCommit, MayCommit, Mutual
  <2>2. ASSUME NEW r \in Players, EndTrade(r, Closed(r), Committed(p)) PROVE Mutual'
    BY <2>1, <2>2, EndTradeMutual
  <2>3. ASSUME NEW done, Exchange(p, q, done) PROVE Mutual'
    <3>1. /\ trade_partner' = [trade_partner EXCEPT ![p] = NULL, ![q] = NULL]
          /\ trading' = [trading EXCEPT ![p] = FALSE, ![q] = FALSE]
      BY <2>3 DEF Exchange
    <3>2. trade_partner' = Released(p)
      BY <1>0, <2>1, <3>1 DEF Released
    <3>3. trading' = [r \in Players |-> trading[r] /\ r \notin Closed(p)]
      BY <1>0, <2>1, <3>1 DEF Closed
    <3> QED BY <2>1, <3>2, <3>3, ReleaseMutual
  <2>4. \/ EndTrade(p, Closed(p), Committed(p))
        \/ EndTrade(q, Closed(q), Committed(p))
        \/ \E done : Exchange(p, q, done)
    BY <1>7 DEF TradeCommit
  <2> HIDE DEF q
  <2> QED BY <2>1, <2>2, <2>3, <2>4
<1>8. ASSUME NEW p \in Players, TradeStep(p) PROVE Mutual'
  BY <1>2, <1>4, <1>5, <1>6, <1>7, <1>8 DEF TradeStep, TradeCancel
<1>9. CASE UNCHANGED vars
  BY <1>1, <1>9 DEF vars, window
<1> QED BY <1>3, <1>8, <1>9 DEF Next

\* On a map without chat rooms, an open window always has a partner whose
\* window is open for it: the requests that leave half a trade come from
\* players in chat rooms (trade_traderequest, clif_parse_TradeRequest).
THEOREM MutualWithoutRooms ==
  ASSUME ChatRooms = FALSE
  PROVE  Spec => []TradingIsMutual
<1>1. Init => Mutual
  BY DEF Init, Mutual
<1>2. IInv /\ Mutual /\ [Next]_vars => Mutual'
  BY MutualStep
<1>3. IInv /\ Mutual => TradingIsMutual
  BY NullAssumption DEF IInv, TypeOK, Mutual, TradingIsMutual, Partner, map_id2sd
<1> QED BY Inductive, <1>1, <1>2, <1>3, PTL DEF Spec

=============================================================================
