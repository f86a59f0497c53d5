------------------------------ MODULE Auction -------------------------------
(***************************************************************************)
(* Auctions: the requests of the map-server (map/clif.c, map/intif.c), the *)
(* auctions the char-server keeps in memory, in its table and with a timer *)
(* each (char/int_auction.c), its restart, and the packets in between.     *)
(* What the char-server gives to a player goes by mail, which is kept here *)
(* until the player takes it.                                              *)
(***************************************************************************)
EXTENDS Integers, Sequences, FiniteSetsExt

CONSTANTS Trader,      \* characters
          Lot,         \* items that are put up
          NoLot,
          Fee,         \* auction_feeperhour for the hours asked for
          Coins,       \* bound: the zeny each character starts with
          MaxPrice,    \* auction_maximumprice
          MaxSales,    \* auctions a character may have at a time
          MaxBids,     \* bids a character may have at a time
          MaxAuctions, \* bound: auctions ever created
          MaxAuctionPackets \* bound: packets under way in each direction

NoBuyer == "nobody"
ASSUME AuctionAssumption ==
  /\ NoBuyer \notin Trader /\ NoLot \notin Lot
  /\ IsFiniteSet(Trader) /\ IsFiniteSet(Lot)
  /\ {Fee, Coins, MaxSales, MaxBids, MaxAuctions, MaxAuctionPackets} \subseteq Nat
  /\ MaxPrice \in Nat \ {0}

VARIABLES here,        \* characters in the game
          lots, coins, \* what they have
          chosen,      \* sd->auction: the item they will put up
          aLink, aToChar, aToMap,
          auction_db,  \* auctions in the memory of the char-server
          auction,     \* the table
          auction_end_timer, \* auctions with a pending timer
          last_auction,      \* the last id given
          post,        \* mails not taken yet
          serving      \* the char-server runs

auctionVars == <<here, lots, coins, chosen, aLink, aToChar, aToMap, auction_db, auction,
                 auction_end_timer, last_auction, post, serving>>
traders == <<here, lots, coins, chosen>>
auctions == <<auction_db, auction, auction_end_timer, last_auction, post, serving>>

auction_data == [auction_id : 0 .. MaxAuctions, seller_id : Trader, item : Lot,
                 buyer_id : Trader \union {NoBuyer}, price : 0 .. MaxPrice - 1,
                 buynow : 1 .. MaxPrice]
AllCoins == Coins * Cardinality(Trader)
Letter == [to : Trader, item : Lot \union {NoLot}, zeny : 0 .. AllCoins]

AuctionRequest ==
  [type : {"register"}, sale : auction_data]
    \union [type : {"cancel", "close"}, char : Trader, id : 1 .. MaxAuctions]
    \union [type : {"bid"}, char : Trader, id : 1 .. MaxAuctions, bid : 1 .. AllCoins]
AuctionAnswer ==
  [type : {"registered"}, sale : auction_data]
    \union [type : {"bid"}, char : Trader, back : 0 .. AllCoins]

AuctionInit ==
  /\ here = Trader
  /\ \E owner \in [Lot -> Trader] : lots = [c \in Trader |-> {i \in Lot : owner[i] = c}]
  /\ coins = [c \in Trader |-> Coins]
  /\ chosen = [c \in Trader |-> NoLot]
  /\ aLink = TRUE /\ aToChar = <<>> /\ aToMap = <<>>
  /\ auction_db = {} /\ auction = {} /\ auction_end_timer = {} /\ last_auction = 0
  /\ post = {} /\ serving = TRUE

-----------------------------------------------------------------------------
(* Players *)

ARoom == aLink /\ Len(aToChar) < MaxAuctionPackets
AAsk(packet) == aToChar' = Append(aToChar, packet)

\* clif_parse_Auction_setitem, or cancelreg with NoLot.
AuctionSetitem(c, i) ==
  /\ c \in here
  /\ i \in lots[c] \union {NoLot}
  /\ chosen' = [chosen EXCEPT ![c] = i]
  /\ UNCHANGED <<here, lots, coins, aLink, aToChar, aToMap, auctions>>

Registering == Cardinality({k \in DOMAIN aToChar : aToChar[k].type = "register"})

\* The item and the fee are taken when the request has been sent.
AuctionRegister(c, price, buynow) ==
  /\ c \in here /\ ARoom
  /\ last_auction + Registering < MaxAuctions
  /\ chosen[c] \in lots[c]
  /\ price < buynow
  /\ coins[c] >= Fee
  /\ AAsk([type |-> "register",
           sale |-> [auction_id |-> 0, seller_id |-> c, item |-> chosen[c],
                     buyer_id |-> NoBuyer, price |-> price, buynow |-> buynow]])
  /\ lots' = [lots EXCEPT ![c] = @ \ {chosen[c]}]
  /\ coins' = [coins EXCEPT ![c] = @ - Fee]
  /\ chosen' = [chosen EXCEPT ![c] = NoLot]
  /\ UNCHANGED <<here, aLink, aToMap, auctions>>

AuctionCancel(c, id) ==
  /\ c \in here /\ ARoom
  /\ \/ AAsk([type |-> "cancel", char |-> c, id |-> id])
     \/ AAsk([type |-> "close", char |-> c, id |-> id])
  /\ UNCHANGED <<traders, aLink, aToMap, auctions>>

(* Mutant: the purse is not looked at. *)
CanPay_Any(c, bid) == bid > 0

CanPay(c, bid) == bid <= coins[c]

\* The bid is paid in advance.
AuctionBid(c, id, bid) ==
  /\ c \in here /\ ARoom
  /\ CanPay(c, bid)
  /\ coins' = [coins EXCEPT ![c] = @ - bid]
  /\ AAsk([type |-> "bid", char |-> c, id |-> id, bid |-> bid])
  /\ UNCHANGED <<here, lots, chosen, aLink, aToMap, auctions>>

\* The player opens a mail (module Mail).
TakeMail(c, letter) ==
  /\ c \in here /\ aLink
  /\ letter \in post /\ letter.to = c
  /\ post' = post \ {letter}
  /\ lots' = [lots EXCEPT ![c] = @ \union ({letter.item} \ {NoLot})]
  /\ coins' = [coins EXCEPT ![c] = @ + letter.zeny]
  /\ UNCHANGED <<here, chosen, aLink, aToChar, aToMap, auction_db, auction,
                 auction_end_timer, last_auction, serving>>

AuctionQuit(c) ==
  /\ c \in here
  /\ here' = here \ {c}
  /\ chosen' = [chosen EXCEPT ![c] = NoLot]
  /\ UNCHANGED <<lots, coins, aLink, aToChar, aToMap, auctions>>

AuctionLogin(c) ==
  /\ c \notin here /\ aLink
  /\ here' = here \union {c}
  /\ UNCHANGED <<lots, coins, chosen, aLink, aToChar, aToMap, auctions>>

-----------------------------------------------------------------------------
(* The char-server *)

AReply(packets) == aToMap' = aToMap \o packets

\* mail_sendmail: letters of the same kind to the same player are added up.
Letters(box, mail) ==
  LET same == {m \in box : m.to = mail.to /\ m.item = NoLot /\ mail.item = NoLot}
      zeny == MapThenSumSet(LAMBDA m : m.zeny, same)
  IN  (box \ same) \union {[mail EXCEPT !.zeny = @ + zeny]}
ItemTo(c, i) == [to |-> c, item |-> i, zeny |-> 0]
MoneyTo(c, z) == [to |-> c, item |-> NoLot, zeny |-> z]

Sales(c) == Cardinality({a \in auction_db : a.seller_id = c})
Bids(c) == Cardinality({a \in auction_db : a.buyer_id = c})

\* auction_create, and mapif_parse_Auction_register with the limit of five.
mapif_parse_Auction_register(sale) ==
  LET a == [sale EXCEPT !.auction_id = last_auction + 1]
  IN  IF Sales(sale.seller_id) < MaxSales
      THEN /\ auction_db' = auction_db \union {a} /\ auction' = auction \union {a}
           /\ auction_end_timer' = auction_end_timer \union {a.auction_id}
           /\ last_auction' = a.auction_id
           /\ AReply(<<[type |-> "registered", sale |-> a]>>)
           /\ UNCHANGED post
      ELSE /\ AReply(<<[type |-> "registered", sale |-> sale]>>)
           /\ UNCHANGED <<auction_db, auction, auction_end_timer, last_auction, post>>

auction_delete(a) ==
  /\ auction_db' = auction_db \ {a} /\ auction' = auction \ {a}
  /\ auction_end_timer' = auction_end_timer \ {a.auction_id}
  /\ UNCHANGED last_auction

\* The end of an auction, by its timer.
AuctionEnd(a) ==
  /\ serving /\ a \in auction_db /\ a.auction_id \in auction_end_timer
  /\ post' = IF a.buyer_id # NoBuyer
             THEN Letters(Letters(post, ItemTo(a.buyer_id, a.item)), MoneyTo(a.seller_id, a.price))
             ELSE Letters(post, ItemTo(a.seller_id, a.item))
  /\ auction_delete(a)
  /\ UNCHANGED <<traders, aLink, aToChar, aToMap, serving>>

Refused == UNCHANGED <<auction_db, auction, auction_end_timer, last_auction, post>>

\* "An auction with at least one bidder cannot be canceled"
MayCancel(a, c) == a.seller_id = c /\ a.buyer_id = NoBuyer

mapif_parse_Auction_cancel(c, id) ==
  /\ UNCHANGED aToMap
  /\ \/ /\ \A a \in auction_db : a.auction_id = id => ~MayCancel(a, c)
        /\ Refused
     \/ \E a \in auction_db :
          /\ a.auction_id = id /\ MayCancel(a, c)
          /\ post' = Letters(post, ItemTo(a.seller_id, a.item))
          /\ auction_delete(a)

MayClose(a, c) == a.seller_id = c /\ a.buyer_id # NoBuyer

mapif_parse_Auction_close(c, id) ==
  /\ UNCHANGED aToMap
  /\ \/ /\ \A a \in auction_db : a.auction_id = id => ~MayClose(a, c)
        /\ Refused
     \/ \E a \in auction_db :
          /\ a.auction_id = id /\ MayClose(a, c)
          /\ post' = Letters(Letters(post, MoneyTo(a.seller_id, a.price)),
                             ItemTo(a.buyer_id, a.item))
          /\ auction_delete(a)

BidAnswer(c, back) == AReply(<<[type |-> "bid", char |-> c, back |-> back]>>)

MayBid(a, c, bid) ==
  /\ bid > a.price /\ a.seller_id # c
  /\ Bids(c) < MaxBids \/ bid >= a.buynow \/ a.buyer_id = c

(* Mutant: a bidder that is outbid gets nothing back. *)
PaidBack_Self(a, c) ==
  IF a.buyer_id = c THEN Letters(post, MoneyTo(a.buyer_id, a.price)) ELSE post

\* "Send Money back to the previous Buyer"
PaidBack(a, c) ==
  IF a.buyer_id # NoBuyer THEN Letters(post, MoneyTo(a.buyer_id, a.price)) ELSE post

(* Mutant: the new price is not saved. *)
auction_save_Not(a, b) == UNCHANGED auction

\* auction_save
auction_save(a, b) == auction' = (auction \ {a}) \union {b}

mapif_parse_Auction_bid(c, id, bid) ==
  \/ /\ \A a \in auction_db : a.auction_id = id => ~MayBid(a, c, bid)
     /\ BidAnswer(c, bid)
     /\ Refused
  \/ \E a \in auction_db :
       /\ a.auction_id = id /\ MayBid(a, c, bid)
       /\ \/ /\ bid >= a.buynow
             /\ post' = Letters(Letters(PaidBack(a, c), ItemTo(c, a.item)),
                                MoneyTo(a.seller_id, a.buynow))
             /\ BidAnswer(c, bid - a.buynow)
             /\ auction_delete(a)
          \/ /\ bid < a.buynow
             /\ LET b == [a EXCEPT !.buyer_id = c, !.price = bid]
                IN  auction_db' = (auction_db \ {a}) \union {b} /\ auction_save(a, b)
             /\ post' = PaidBack(a, c)
             /\ BidAnswer(c, 0)
             /\ UNCHANGED <<auction_end_timer, last_auction>>

AuctionCharHandles ==
  /\ serving /\ aToChar # <<>> /\ Len(aToMap) < MaxAuctionPackets
  /\ LET p == Head(aToChar) IN
       \/ p.type = "register" /\ mapif_parse_Auction_register(p.sale)
       \/ p.type = "cancel" /\ mapif_parse_Auction_cancel(p.char, p.id)
       \/ p.type = "close" /\ mapif_parse_Auction_close(p.char, p.id)
       \/ p.type = "bid" /\ mapif_parse_Auction_bid(p.char, p.id, p.bid)
  /\ aToChar' = Tail(aToChar)
  /\ UNCHANGED <<traders, aLink, serving>>

\* The char-server stops between two handlers; its link goes with it.
AuctionStop ==
  /\ serving
  /\ serving' = FALSE /\ auction_db' = {} /\ auction_end_timer' = {}
  /\ aLink' = FALSE /\ aToChar' = <<>> /\ aToMap' = <<>>
  /\ UNCHANGED <<traders, auction, last_auction, post>>

\* inter_auctions_fromsql
AuctionStart ==
  /\ ~serving
  /\ serving' = TRUE
  /\ auction_db' = auction
  /\ auction_end_timer' = {a.auction_id : a \in auction}
  /\ UNCHANGED <<traders, aLink, aToChar, aToMap, auction, last_auction, post>>

-----------------------------------------------------------------------------
(* The answers, and the link *)

(* Mutant: the item comes back in any case. *)
Failed_Always(sale) == sale.seller_id \in here

Failed(sale) == sale.auction_id = 0 /\ sale.seller_id \in here

AuctionMapHandles ==
  /\ aToMap # <<>>
  /\ LET p == Head(aToMap) IN
       \/ /\ p.type = "registered"
          /\ IF Failed(p.sale)
             THEN /\ lots' = [lots EXCEPT ![p.sale.seller_id] = @ \union {p.sale.item}]
                  /\ coins' = [coins EXCEPT ![p.sale.seller_id] = @ + Fee]
             ELSE UNCHANGED <<lots, coins>>
       \/ /\ p.type = "bid"
          /\ coins' = IF p.char \in here THEN [coins EXCEPT ![p.char] = @ + p.back] ELSE coins
          /\ UNCHANGED lots
  /\ aToMap' = Tail(aToMap)
  /\ UNCHANGED <<here, chosen, aLink, aToChar, auctions>>

AuctionLinkLost ==
  /\ aLink /\ serving
  /\ aLink' = FALSE /\ aToChar' = <<>> /\ aToMap' = <<>>
  /\ UNCHANGED <<traders, auctions>>

AuctionLinkUp ==
  /\ ~aLink /\ serving
  /\ aLink' = TRUE
  /\ UNCHANGED <<traders, aToChar, aToMap, auctions>>

AuctionTrader ==
  \E c \in Trader :
    \/ \E i \in Lot \union {NoLot} : AuctionSetitem(c, i)
    \/ \E p, b \in 0 .. MaxPrice : AuctionRegister(c, p, b)
    \/ \E a \in auction : AuctionCancel(c, a.auction_id)
    \/ \E a \in auction, z \in 1 .. AllCoins : AuctionBid(c, a.auction_id, z)
    \/ \E letter \in post : TakeMail(c, letter)
    \/ AuctionQuit(c) \/ AuctionLogin(c)

AuctionNext ==
  \/ AuctionTrader \/ AuctionCharHandles \/ (\E a \in auction_db : AuctionEnd(a))
  \/ AuctionStop \/ AuctionStart \/ AuctionMapHandles \/ AuctionLinkLost \/ AuctionLinkUp

AuctionSpec == AuctionInit /\ [][AuctionNext]_auctionVars

-----------------------------------------------------------------------------
(* Properties *)

AuctionTypeOK ==
  /\ here \subseteq Trader /\ lots \in [Trader -> SUBSET Lot]
  /\ coins \in [Trader -> 0 .. AllCoins] /\ chosen \in [Trader -> Lot \union {NoLot}]
  /\ aLink \in BOOLEAN /\ serving \in BOOLEAN
  /\ aToChar \in Seq(AuctionRequest) /\ aToMap \in Seq(AuctionAnswer)
  /\ auction_db \subseteq auction_data /\ auction \subseteq auction_data
  /\ auction_end_timer \subseteq 1 .. MaxAuctions /\ last_auction \in 0 .. MaxAuctions
  /\ post \subseteq Letter

\* While the char-server runs, what it would load again is what it has: each
\* auction with the price and the bidder of its last bid, and one timer for
\* each.
SurvivesRestart ==
  serving => auction = auction_db /\ auction_end_timer = {a.auction_id : a \in auction_db}

\* The item of an auction is in one place, whatever order its end, a bid, a
\* buy-out and a cancellation are handled in.
LotOnce ==
  \A i \in Lot :
    Cardinality({c \in Trader : i \in lots[c]}) + Cardinality({a \in auction : a.item = i})
      + Cardinality({m \in post : m.item = i})
      + Cardinality({k \in DOMAIN aToChar : aToChar[k].type = "register" /\ aToChar[k].sale.item = i})
      + Cardinality({k \in DOMAIN aToMap : aToMap[k].type = "registered"
                                             /\ aToMap[k].sale.auction_id = 0
                                             /\ aToMap[k].sale.item = i}) <= 1

\* All zeny but the fees that were kept: in purses, letters, packets and as
\* the price somebody has bid.
Money ==
  MapThenSumSet(LAMBDA c : coins[c], Trader) + MapThenSumSet(LAMBDA m : m.zeny, post)
    + MapThenSumSet(LAMBDA a : IF a.buyer_id = NoBuyer THEN 0 ELSE a.price, auction)
    + MapThenSumSet(LAMBDA k : IF aToChar[k].type = "bid" THEN aToChar[k].bid
                               ELSE IF aToChar[k].type = "register" THEN Fee ELSE 0, DOMAIN aToChar)
    + MapThenSumSet(LAMBDA k : IF aToMap[k].type = "bid" THEN aToMap[k].back
                               ELSE IF aToMap[k].sale.auction_id = 0 THEN Fee ELSE 0, DOMAIN aToMap)

Recipient(p) == IF p.type = "bid" THEN p.char ELSE p.sale.seller_id

\* Zeny is neither made nor lost but by fees, by a link that is lost, and in
\* an answer whose receiver has left; each bidder that does not win gets its
\* bid back and the seller gets the price.
KeepsMoney ==
  \/ UNCHANGED <<coins, post, auction, aToChar, aToMap>>
  \/ Money' = Money
  \/ Money' < Money /\ ~aLink'
  \/ Money' = Money - Fee /\ last_auction' = last_auction + 1
  \/ Money' < Money /\ aToMap # <<>> /\ aToMap' = Tail(aToMap)
       /\ Recipient(Head(aToMap)) \notin here

=============================================================================
