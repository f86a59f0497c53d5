------------------------------ MODULE PostProofs -----------------------------
(***************************************************************************)
(* Proofs about Auction, Mail and Shop.  That the memory, the table and    *)
(* the timers of the char-server agree needs that an id is given once:     *)
(* deleting one auction stops the timer of its id, which must be no other  *)
(* auction's.  That a lot is in one place rests on it: what ends is what   *)
(* the table has.  Mails have no such invariant to rest on: it is the      *)
(* order of taking and giving in each handler that keeps a thing in one    *)
(* place.  What a shop or a store offers, its rows and the cart are        *)
(* followed together through the loops of the handlers, one line at a      *)
(* time; that a restart finds the same in the tables needs that the cart   *)
(* is saved whenever a shop that is open changes it.                       *)
(***************************************************************************)
EXTENDS Auction, Mail, Shop, FiniteSetTheorems, WellFoundedInduction, TLAPS

\* A struct auction_data, whatever its fields hold but the id.
IsSale(a) ==
  /\ a = [auction_id |-> a.auction_id, seller_id |-> a.seller_id, item |-> a.item,
          buyer_id |-> a.buyer_id, price |-> a.price, buynow |-> a.buynow]
  /\ a.auction_id \in Nat

Packets(S) == \A p \in S : p.type = "register" => IsSale(p.sale)
RequestsOK == \E S : aToChar \in Seq(S) /\ Packets(S)

IdsOnce ==
  /\ last_auction \in Nat
  /\ \A a \in auction : IsSale(a) /\ a.auction_id <= last_auction
  /\ \A a, b \in auction : a.auction_id = b.auction_id => a = b

IInv == RequestsOK /\ IdsOnce /\ SurvivesRestart

-----------------------------------------------------------------------------
(* Requests *)

LEMMA AskedOK ==
  ASSUME RequestsOK, NEW packet, AAsk(packet),
         \/ packet.type # "register"
         \/ IsSale(packet.sale)
  PROVE  RequestsOK'
<1>1. PICK S : aToChar \in Seq(S) /\ Packets(S)
  BY DEF RequestsOK
<1>. DEFINE T == S \union {packet}
<1>2. Packets(T)
  BY <1>1 DEF Packets
<1>3. aToChar' \in Seq(T)
  <2>1. aToChar \in Seq(T)
    BY <1>1
  <2>. HIDE DEF T
  <2>2. packet \in T
    BY DEF T
  <2>. QED BY <2>1, <2>2 DEF AAsk
<1>. HIDE DEF T
<1>. QED BY <1>2, <1>3 DEF RequestsOK

LEMMA TakenOK ==
  ASSUME RequestsOK, aToChar # <<>>
  PROVE  /\ Head(aToChar).type = "register" => IsSale(Head(aToChar).sale)
         /\ aToChar' = Tail(aToChar) => RequestsOK'
<1>1. PICK S : aToChar \in Seq(S) /\ Packets(S)
  BY DEF RequestsOK
<1>2. Head(aToChar) \in S /\ Tail(aToChar) \in Seq(S)
  BY <1>1
<1>. QED BY <1>1, <1>2 DEF RequestsOK, Packets

LEMMA NoneOK == aToChar' = <<>> => RequestsOK'
<1>. SUFFICES ASSUME aToChar' = <<>> PROVE RequestsOK'
  OBVIOUS
<1>1. aToChar' \in Seq({}) /\ Packets({})
  BY DEF Packets
<1>. QED BY <1>1 DEF RequestsOK

-----------------------------------------------------------------------------
(* Auctions *)

LEMMA SameAuctions ==
  ASSUME IdsOnce, SurvivesRestart,
         UNCHANGED <<auction_db, auction, auction_end_timer, last_auction, serving>>
  PROVE  IdsOnce' /\ SurvivesRestart'
  BY DEF IdsOnce, SurvivesRestart

LEMMA Deletes ==
  ASSUME IdsOnce, SurvivesRestart, serving, NEW a \in auction_db, auction_delete(a), UNCHANGED serving
  PROVE  IdsOnce' /\ SurvivesRestart'
<1>1. auction_db = auction /\ auction_end_timer = {b.auction_id : b \in auction}
  BY DEF SurvivesRestart
<1>2. \A b \in auction : b.auction_id = a.auction_id <=> b = a
  BY <1>1 DEF IdsOnce
<1>3. {b.auction_id : b \in auction} \ {a.auction_id} = {b.auction_id : b \in auction \ {a}}
  BY <1>2
<1>. QED BY <1>1, <1>3 DEF IdsOnce, SurvivesRestart, auction_delete

LEMMA Registers ==
  ASSUME IdsOnce, SurvivesRestart, serving, NEW sale, IsSale(sale),
         mapif_parse_Auction_register(sale), UNCHANGED serving
  PROVE  IdsOnce' /\ SurvivesRestart'
<1>. DEFINE a == [sale EXCEPT !.auction_id = last_auction + 1]
<1>1. auction_db = auction /\ auction_end_timer = {b.auction_id : b \in auction}
  BY DEF SurvivesRestart
<1>2. IsSale(a) /\ a.auction_id = last_auction + 1
  BY DEF IsSale, IdsOnce
<1>3. CASE Sales(sale.seller_id) < MaxSales
  <2>1. /\ auction_db' = auction_db \union {a} /\ auction' = auction \union {a}
        /\ auction_end_timer' = auction_end_timer \union {a.auction_id}
        /\ last_auction' = a.auction_id
    BY <1>3 DEF mapif_parse_Auction_register
  <2>. HIDE DEF a
  <2>2. \A b \in auction : IsSale(b) /\ b.auction_id <= last_auction /\ b.auction_id \in Nat
    BY DEF IdsOnce, IsSale
  <2>3. last_auction \in Nat /\ last_auction' \in Nat /\ last_auction < last_auction'
    BY <1>2, <2>1 DEF IdsOnce
  <2>4. \A b \in auction' : IsSale(b) /\ b.auction_id <= last_auction'
    BY <1>2, <2>1, <2>2, <2>3
  <2>5. \A b, c \in auction' : b.auction_id = c.auction_id => b = c
    BY <1>2, <2>1, <2>2, <2>3 DEF IdsOnce
  <2>6. {b.auction_id : b \in auction} \union {a.auction_id} = {b.auction_id : b \in auction \union {a}}
    OBVIOUS
  <2>. QED BY <1>1, <2>1, <2>3, <2>4, <2>5, <2>6 DEF IdsOnce, SurvivesRestart
<1>4. CASE ~(Sales(sale.seller_id) < MaxSales)
  BY <1>4, SameAuctions DEF mapif_parse_Auction_register
<1>. QED BY <1>3, <1>4

LEMMA BidsKeep ==
  ASSUME IdsOnce, SurvivesRestart, serving, NEW c, NEW id, NEW bid,
         mapif_parse_Auction_bid(c, id, bid), UNCHANGED serving
  PROVE  IdsOnce' /\ SurvivesRestart'
<1>1. CASE Refused
  BY <1>1, SameAuctions DEF Refused
<1>2. CASE \E a \in auction_db : auction_delete(a)
  BY <1>2, Deletes
<1>3. ASSUME NEW a \in auction_db,
             LET b == [a EXCEPT !.buyer_id = c, !.price = bid]
             IN  auction_db' = (auction_db \ {a}) \union {b} /\ auction_save(a, b),
             UNCHANGED <<auction_end_timer, last_auction>>
      PROVE  IdsOnce' /\ SurvivesRestart'
  <2>. DEFINE b == [a EXCEPT !.buyer_id = c, !.price = bid]
  <2>1. auction_db = auction /\ auction_end_timer = {x.auction_id : x \in auction}
    BY DEF SurvivesRestart
  <2>2. auction_db' = (auction \ {a}) \union {b} /\ auction' = (auction \ {a}) \union {b}
    BY <1>3, <2>1 DEF auction_save
  <2>3. a \in auction /\ IsSale(a) /\ a.auction_id <= last_auction
    BY <2>1 DEF IdsOnce
  <2>4. IsSale(b) /\ b.auction_id = a.auction_id
    <3>. DEFINE d == [a EXCEPT !.buyer_id = c]
                r == [auction_id |-> a.auction_id, seller_id |-> a.seller_id, item |-> a.item,
                      buyer_id |-> c, price |-> a.price, buynow |-> a.buynow]
    <3>3. d = r
      <4>1. [[auction_id |-> a.auction_id, seller_id |-> a.seller_id, item |-> a.item,
              buyer_id |-> a.buyer_id, price |-> a.price, buynow |-> a.buynow]
             EXCEPT !.buyer_id = c] = r
        OBVIOUS
      <4>. QED BY <2>3, <4>1 DEF IsSale
    <3>4. b = [d EXCEPT !.price = bid]
      OBVIOUS
    <3>. HIDE DEF d
    <3>5. [r EXCEPT !.price = bid]
            = [auction_id |-> a.auction_id, seller_id |-> a.seller_id, item |-> a.item,
               buyer_id |-> c, price |-> bid, buynow |-> a.buynow]
      OBVIOUS
    <3>. HIDE DEF b, r
    <3>1. b = [auction_id |-> a.auction_id, seller_id |-> a.seller_id, item |-> a.item,
               buyer_id |-> c, price |-> bid, buynow |-> a.buynow]
      BY <3>3, <3>4, <3>5
    <3>2. a.auction_id \in Nat
      BY <2>3 DEF IsSale
    <3>. HIDE DEF b
    <3>. QED BY <3>1, <3>2 DEF IsSale
  <2>. HIDE DEF b
  <2>5. {x.auction_id : x \in auction} = {x.auction_id : x \in (auction \ {a}) \union {b}}
    <3>1. \A n : n \in {x.auction_id : x \in auction}
                 => n \in {x.auction_id : x \in (auction \ {a}) \union {b}}
      <4>. SUFFICES ASSUME NEW x \in auction
                    PROVE  x.auction_id \in {y.auction_id : y \in (auction \ {a}) \union {b}}
        OBVIOUS
      <4>. QED BY <2>4
    <3>2. \A n : n \in {x.auction_id : x \in (auction \ {a}) \union {b}}
                 => n \in {x.auction_id : x \in auction}
      BY <2>3, <2>4
    <3>. QED BY <3>1, <3>2
  <2>6. \A x, y \in auction' : x.auction_id = y.auction_id => x = y
    BY <2>2, <2>3, <2>4 DEF IdsOnce
  <2>7. \A x \in auction' : IsSale(x) /\ x.auction_id <= last_auction'
    BY <1>3, <2>2, <2>3, <2>4 DEF IdsOnce
  <2>. QED BY <1>3, <2>1, <2>2, <2>5, <2>6, <2>7 DEF IdsOnce, SurvivesRestart
<1>. QED BY <1>1, <1>2, <1>3 DEF mapif_parse_Auction_bid

-----------------------------------------------------------------------------

LEMMA TraderInv == IInv /\ AuctionTrader => IInv'
<1>. SUFFICES ASSUME IInv, AuctionTrader PROVE IInv'
  OBVIOUS
<1>1. UNCHANGED <<auction_db, auction, auction_end_timer, last_auction, serving>>
  BY DEF AuctionTrader, AuctionSetitem, AuctionRegister, AuctionCancel, AuctionBid, TakeMail,
     AuctionQuit, AuctionLogin, auctions
<1>2. \E c \in Trader :
        \/ UNCHANGED aToChar
        \/ \E p, b \in 0 .. MaxPrice : AuctionRegister(c, p, b)
        \/ \E a \in auction : AuctionCancel(c, a.auction_id)
        \/ \E a \in auction, z \in 1 .. AllCoins : AuctionBid(c, a.auction_id, z)
  BY DEF AuctionTrader, AuctionSetitem, TakeMail, AuctionQuit, AuctionLogin
<1>3. ASSUME UNCHANGED aToChar PROVE RequestsOK'
  BY <1>3 DEF IInv, RequestsOK
<1>4. ASSUME NEW c \in Trader, \E p, b \in 0 .. MaxPrice : AuctionRegister(c, p, b)
      PROVE  RequestsOK'
  <2>1. PICK p \in 0 .. MaxPrice, b \in 0 .. MaxPrice : AuctionRegister(c, p, b)
    BY <1>4
  <2>. DEFINE sale == [auction_id |-> 0, seller_id |-> c, item |-> chosen[c],
                       buyer_id |-> NoBuyer, price |-> p, buynow |-> b]
              packet == [type |-> "register", sale |-> sale]
  <2>2. IsSale(sale)
    BY DEF IsSale
  <2>3. AAsk(packet)
    BY <2>1 DEF AuctionRegister
  <2>4. IsSale(packet.sale)
    BY <2>2
  <2>5. RequestsOK
    BY DEF IInv
  <2>. HIDE DEF packet, sale
  <2>. QED BY <2>3, <2>4, <2>5, AskedOK
<1>5. ASSUME NEW c \in Trader, \E a \in auction : AuctionCancel(c, a.auction_id)
      PROVE  RequestsOK'
  <2>1. PICK a \in auction : AuctionCancel(c, a.auction_id)
    BY <1>5
  <2>2. PICK t \in {"cancel", "close"} : AAsk([type |-> t, char |-> c, id |-> a.auction_id])
    BY <2>1 DEF AuctionCancel
  <2>. DEFINE packet == [type |-> t, char |-> c, id |-> a.auction_id]
  <2>3. packet.type # "register" /\ AAsk(packet)
    BY <2>2
  <2>4. RequestsOK
    BY DEF IInv
  <2>. HIDE DEF packet
  <2>. QED BY <2>3, <2>4, AskedOK
<1>6. ASSUME NEW c \in Trader,
             \E a \in auction, z \in 1 .. AllCoins : AuctionBid(c, a.auction_id, z)
      PROVE  RequestsOK'
  <2>1. PICK a \in auction, z \in 1 .. AllCoins : AuctionBid(c, a.auction_id, z)
    BY <1>6
  <2>. DEFINE packet == [type |-> "bid", char |-> c, id |-> a.auction_id, bid |-> z]
  <2>2. packet.type # "register" /\ AAsk(packet)
    BY <2>1 DEF AuctionBid
  <2>4. RequestsOK
    BY DEF IInv
  <2>. HIDE DEF packet
  <2>. QED BY <2>2, <2>4, AskedOK
<1>7. RequestsOK'
  BY <1>2, <1>3, <1>4, <1>5, <1>6
<1>. QED BY <1>1, <1>7, SameAuctions DEF IInv

LEMMA CharHandlesInv == IInv /\ AuctionCharHandles => IInv'
<1>. SUFFICES ASSUME IInv, AuctionCharHandles PROVE IInv'
  OBVIOUS
<1>. DEFINE p == Head(aToChar)
<1>1. serving /\ serving' = serving /\ aToChar # <<>> /\ aToChar' = Tail(aToChar)
  BY DEF AuctionCharHandles
<1>2. RequestsOK' /\ (p.type = "register" => IsSale(p.sale))
  BY <1>1, TakenOK DEF IInv
<1>3. IdsOnce /\ SurvivesRestart
  BY DEF IInv
<1>4. \/ p.type = "register" /\ mapif_parse_Auction_register(p.sale)
      \/ mapif_parse_Auction_cancel(p.char, p.id)
      \/ mapif_parse_Auction_close(p.char, p.id)
      \/ mapif_parse_Auction_bid(p.char, p.id, p.bid)
  BY DEF AuctionCharHandles
<1>. HIDE DEF p
<1>5. CASE p.type = "register" /\ mapif_parse_Auction_register(p.sale)
  BY <1>1, <1>2, <1>3, <1>5, Registers DEF IInv
<1>6. CASE mapif_parse_Auction_cancel(p.char, p.id)
  <2>1. Refused \/ \E a \in auction_db : auction_delete(a)
    BY <1>6 DEF mapif_parse_Auction_cancel
  <2>. QED BY <1>1, <1>2, <1>3, <2>1, SameAuctions, Deletes DEF IInv, Refused
<1>7. CASE mapif_parse_Auction_close(p.char, p.id)
  <2>1. Refused \/ \E a \in auction_db : auction_delete(a)
    BY <1>7 DEF mapif_parse_Auction_close
  <2>. QED BY <1>1, <1>2, <1>3, <2>1, SameAuctions, Deletes DEF IInv, Refused
<1>8. CASE mapif_parse_Auction_bid(p.char, p.id, p.bid)
  BY <1>1, <1>2, <1>3, <1>8, BidsKeep DEF IInv
<1>. QED BY <1>4, <1>5, <1>6, <1>7, <1>8

LEMMA InitInv == AuctionInit => IInv
<1>. SUFFICES ASSUME AuctionInit PROVE IInv
  OBVIOUS
<1>1. aToChar \in Seq({}) /\ Packets({})
  BY DEF AuctionInit, Packets
<1>. QED BY <1>1 DEF AuctionInit, IInv, RequestsOK, IdsOnce, SurvivesRestart

LEMMA StepInv == IInv /\ [AuctionNext]_auctionVars => IInv'
<1>. SUFFICES ASSUME IInv, [AuctionNext]_auctionVars PROVE IInv'
  OBVIOUS
<1>1. CASE AuctionTrader
  BY <1>1, TraderInv
<1>2. CASE AuctionCharHandles
  BY <1>2, CharHandlesInv
<1>3. CASE \E a \in auction_db : AuctionEnd(a)
  <2>1. UNCHANGED aToChar
    BY <1>3 DEF AuctionEnd
  <2>2. \E a \in auction_db : serving /\ auction_delete(a) /\ UNCHANGED serving
    BY <1>3 DEF AuctionEnd
  <2>. QED BY <2>1, <2>2, Deletes DEF IInv, RequestsOK
<1>4. CASE AuctionStop
  BY <1>4, NoneOK DEF AuctionStop, IInv, IdsOnce, SurvivesRestart
<1>5. CASE AuctionStart
  BY <1>5 DEF AuctionStart, IInv, RequestsOK, IdsOnce, SurvivesRestart
<1>6. CASE AuctionMapHandles
  BY <1>6, SameAuctions DEF AuctionMapHandles, IInv, RequestsOK, auctions
<1>7. CASE AuctionLinkLost
  BY <1>7, NoneOK, SameAuctions DEF AuctionLinkLost, IInv, auctions
<1>8. CASE AuctionLinkUp
  BY <1>8, SameAuctions DEF AuctionLinkUp, IInv, RequestsOK, auctions
<1>9. CASE UNCHANGED auctionVars
  BY <1>9, SameAuctions DEF auctionVars, auctions, IInv, RequestsOK
<1>. QED BY <1>1, <1>2, <1>3, <1>4, <1>5, <1>6, <1>7, <1>8, <1>9 DEF AuctionNext

\* While the char-server runs, what it would load again is what it has, with
\* one timer for each auction: ids are given once, so that an auction that
\* ends takes no other one's timer with it (int_auction.c: auction_create,
\* auction_save, auction_delete).
THEOREM AuctionsSurviveRestart == AuctionSpec => []SurvivesRestart
<1>1. IInv => SurvivesRestart
  BY DEF IInv
<1>. QED BY <1>1, InitInv, StepInv, PTL DEF AuctionSpec

-----------------------------------------------------------------------------
(* Where a lot is: with a trader, in an auction, in a letter, in a request  *)
(* to put it up and in the answer that refuses one.                         *)

AtMostOne(S) == \A x, y \in S : x = y

Owners(i) == {c \in Trader : i \in lots[c]}
Auctions(i) == {a \in auction : a.item = i}
LettersWith(i) == {m \in post : m.item = i}
Asks(i) == {k \in DOMAIN aToChar : aToChar[k].type = "register" /\ aToChar[k].sale.item = i}
Refusals(i) == {k \in DOMAIN aToMap : aToMap[k].type = "registered"
                                        /\ aToMap[k].sale.auction_id = 0
                                        /\ aToMap[k].sale.item = i}

\* At most one of the sets has elements, and has one only.
Exclusive(A, B, C, D, E) ==
  /\ AtMostOne(A) /\ AtMostOne(B) /\ AtMostOne(C) /\ AtMostOne(D) /\ AtMostOne(E)
  /\ A # {} => B = {} /\ C = {} /\ D = {} /\ E = {}
  /\ B # {} => C = {} /\ D = {} /\ E = {}
  /\ C # {} => D = {} /\ E = {}
  /\ D # {} => E = {}

InOnePlace(i) == Exclusive(Owners(i), Auctions(i), LettersWith(i), Asks(i), Refusals(i))

TradersOK ==
  /\ here \subseteq Trader
  /\ lots = [c \in Trader |-> lots[c]]
  /\ \E S : aToMap \in Seq(S)

LotInv == IInv /\ TradersOK /\ \A i \in Lot : InOnePlace(i)

\* What has become of a set of places when the lot was not moved.
KeptOnce(New, Old) == AtMostOne(New) /\ (New # {} => Old # {})

LEMMA KeptPlace ==
  ASSUME NEW i, InOnePlace(i),
         KeptOnce(Owners(i)', Owners(i)), KeptOnce(Auctions(i)', Auctions(i)),
         KeptOnce(LettersWith(i)', LettersWith(i)), KeptOnce(Asks(i)', Asks(i)),
         KeptOnce(Refusals(i)', Refusals(i))
  PROVE  InOnePlace(i)'
  BY DEF InOnePlace, Exclusive, KeptOnce

LEMMA SamePlace ==
  ASSUME NEW S, AtMostOne(S)
  PROVE  \A T : T \subseteq S => KeptOnce(T, S)
  BY DEF KeptOnce, AtMostOne

LEMMA CountOfOne ==
  ASSUME NEW S, AtMostOne(S)
  PROVE  Cardinality(S) = IF S = {} THEN 0 ELSE 1
<1>1. CASE S = {}
  BY <1>1, FS_EmptySet
<1>2. CASE S # {}
  <2>1. PICK x \in S : TRUE
    BY <1>2
  <2>2. S = {x}
    BY <2>1 DEF AtMostOne
  <2>. QED BY <1>2, <2>2, FS_Singleton
<1>. QED BY <1>1, <1>2

LEMMA OncePlaced == (\A i \in Lot : InOnePlace(i)) => LotOnce
<1>. SUFFICES ASSUME NEW i \in Lot, InOnePlace(i)
              PROVE  Cardinality(Owners(i)) + Cardinality(Auctions(i)) + Cardinality(LettersWith(i))
                       + Cardinality(Asks(i)) + Cardinality(Refusals(i)) <= 1
  BY DEF LotOnce, Owners, Auctions, LettersWith, Asks, Refusals
<1>. DEFINE One(S) == IF S = {} THEN 0 ELSE 1
<1>1. /\ Cardinality(Owners(i)) = One(Owners(i))
      /\ Cardinality(Auctions(i)) = One(Auctions(i))
      /\ Cardinality(LettersWith(i)) = One(LettersWith(i))
      /\ Cardinality(Asks(i)) = One(Asks(i))
      /\ Cardinality(Refusals(i)) = One(Refusals(i))
  BY CountOfOne DEF InOnePlace, Exclusive
<1>2. One(Owners(i)) + One(Auctions(i)) + One(LettersWith(i)) + One(Asks(i)) + One(Refusals(i)) <= 1
  BY DEF InOnePlace, Exclusive
<1>. QED BY <1>1, <1>2

-----------------------------------------------------------------------------
(* The packets under way *)

LEMMA AskedPlaces ==
  ASSUME RequestsOK, NEW packet, AAsk(packet), NEW i
  PROVE  /\ Asks(i)' = IF packet.type = "register" /\ packet.sale.item = i
                       THEN Asks(i) \union {Len(aToChar) + 1} ELSE Asks(i)
<1>1. PICK S : aToChar \in Seq(S) /\ Packets(S)
  BY DEF RequestsOK
<1>. DEFINE n == Len(aToChar)
<1>2. n \in Nat /\ DOMAIN aToChar = 1 .. n /\ DOMAIN aToChar' = 1 .. n + 1
  <2>1. aToChar \in Seq(S \union {packet})
    BY <1>1
  <2>. QED BY <2>1 DEF AAsk
<1>3. /\ \A k \in 1 .. n : aToChar'[k] = aToChar[k]
      /\ aToChar'[n + 1] = packet
  <2>1. aToChar \in Seq(S \union {packet})
    BY <1>1
  <2>. QED BY <2>1 DEF AAsk
<1>. HIDE DEF n
<1>4. Asks(i)' = {k \in 1 .. n + 1 : aToChar'[k].type = "register" /\ aToChar'[k].sale.item = i}
  BY <1>2 DEF Asks
<1>5. Asks(i) = {k \in 1 .. n : aToChar[k].type = "register" /\ aToChar[k].sale.item = i}
  BY <1>2 DEF Asks
<1>6. \A k : k \in 1 .. n + 1 <=> k \in 1 .. n \/ k = n + 1
  BY <1>2
<1>. QED BY <1>3, <1>4, <1>5, <1>6 DEF n

LEMMA TakenPlaces ==
  ASSUME RequestsOK, aToChar # <<>>, aToChar' = Tail(aToChar), NEW i, AtMostOne(Asks(i))
  PROVE  /\ KeptOnce(Asks(i)', Asks(i))
         /\ Head(aToChar).type = "register" /\ Head(aToChar).sale.item = i
              => Asks(i) # {} /\ Asks(i)' = {}
<1>1. PICK S : aToChar \in Seq(S) /\ Packets(S)
  BY DEF RequestsOK
<1>2. /\ Len(aToChar) \in Nat \ {0} /\ DOMAIN aToChar = 1 .. Len(aToChar)
      /\ DOMAIN aToChar' = 1 .. Len(aToChar) - 1
      /\ \A k \in 1 .. Len(aToChar) - 1 : aToChar'[k] = aToChar[k + 1]
      /\ Head(aToChar) = aToChar[1]
  BY <1>1
<1>3. \A k \in Asks(i)' : k \in Int /\ k + 1 \in Asks(i) /\ k + 1 # 1
  BY <1>2 DEF Asks
<1>4. AtMostOne(Asks(i)')
  BY <1>3 DEF AtMostOne
<1>5. ASSUME Head(aToChar).type = "register", Head(aToChar).sale.item = i
      PROVE  Asks(i) # {} /\ Asks(i)' = {}
  <2>1. 1 \in Asks(i)
    BY <1>2, <1>5 DEF Asks
  <2>. QED BY <1>3, <2>1 DEF AtMostOne
<1>. QED BY <1>3, <1>4, <1>5 DEF KeptOnce

LEMMA RepliedPlaces ==
  ASSUME NEW S, aToMap \in Seq(S), NEW packet, AReply(<<packet>>), NEW i
  PROVE  /\ \E T : aToMap' \in Seq(T)
         /\ Refusals(i)' = IF packet.type = "registered" /\ packet.sale.auction_id = 0
                                /\ packet.sale.item = i
                           THEN Refusals(i) \union {Len(aToMap) + 1} ELSE Refusals(i)
<1>. DEFINE n == Len(aToMap)
<1>1. aToMap \in Seq(S \union {packet}) /\ <<packet>> \in Seq(S \union {packet})
  OBVIOUS
<1>0. aToMap' = aToMap \o <<packet>>
  BY DEF AReply
<1>2. n \in Nat /\ DOMAIN aToMap = 1 .. n /\ DOMAIN aToMap' = 1 .. n + 1
  BY <1>0, <1>1
<1>3. /\ \A k \in 1 .. n : aToMap'[k] = aToMap[k]
      /\ aToMap'[n + 1] = packet
  BY <1>0, <1>1
<1>4. aToMap' \in Seq(S \union {packet})
  BY <1>0, <1>1
<1>. HIDE DEF n
<1>. DEFINE Is(p) == p.type = "registered" /\ p.sale.auction_id = 0 /\ p.sale.item = i
<1>5. Refusals(i)' = {k \in 1 .. n + 1 : Is(aToMap'[k])}
  BY <1>2 DEF Refusals
<1>6. Refusals(i) = {k \in 1 .. n : Is(aToMap[k])}
  BY <1>2 DEF Refusals
<1>7. \A k : k \in 1 .. n + 1 <=> k \in 1 .. n \/ k = n + 1
  BY <1>2
<1>8. Refusals(i)' = IF Is(packet) THEN Refusals(i) \union {n + 1} ELSE Refusals(i)
  <2>. HIDE DEF Is
  <2>. QED BY <1>3, <1>5, <1>6, <1>7
<1>. QED BY <1>4, <1>8 DEF n

LEMMA HandledPlaces ==
  ASSUME NEW S, aToMap \in Seq(S), aToMap # <<>>, aToMap' = Tail(aToMap),
         NEW i, AtMostOne(Refusals(i))
  PROVE  /\ \E T : aToMap' \in Seq(T)
         /\ KeptOnce(Refusals(i)', Refusals(i))
         /\ Head(aToMap).type = "registered" /\ Head(aToMap).sale.auction_id = 0
              /\ Head(aToMap).sale.item = i
              => Refusals(i) # {} /\ Refusals(i)' = {}
<1>2. /\ Len(aToMap) \in Nat \ {0} /\ DOMAIN aToMap = 1 .. Len(aToMap)
      /\ DOMAIN aToMap' = 1 .. Len(aToMap) - 1
      /\ \A k \in 1 .. Len(aToMap) - 1 : aToMap'[k] = aToMap[k + 1]
      /\ Head(aToMap) = aToMap[1]
      /\ aToMap' \in Seq(S)
  OBVIOUS
<1>3. \A k \in Refusals(i)' : k \in Int /\ k + 1 \in Refusals(i) /\ k + 1 # 1
  BY <1>2 DEF Refusals
<1>4. AtMostOne(Refusals(i)')
  BY <1>3 DEF AtMostOne
<1>5. ASSUME Head(aToMap).type = "registered", Head(aToMap).sale.auction_id = 0,
             Head(aToMap).sale.item = i
      PROVE  Refusals(i) # {} /\ Refusals(i)' = {}
  <2>1. 1 \in Refusals(i)
    BY <1>2, <1>5 DEF Refusals
  <2>. QED BY <1>3, <2>1 DEF AtMostOne
<1>. QED BY <1>2, <1>3, <1>4, <1>5 DEF KeptOnce

-----------------------------------------------------------------------------
(* Letters *)

WithItem(box, i) == {m \in box : m.item = i}

\* Adding up the zeny of letters moves no item.
LEMMA LetterAdded ==
  ASSUME NEW box, NEW c, NEW j, NEW z
  PROVE  \E x : /\ x.item = j
                /\ \A i \in Lot : WithItem(Letters(box, [to |-> c, item |-> j, zeny |-> z]), i)
                                    = WithItem(box, i) \union {y \in {x} : y.item = i}
<1>. DEFINE mail == [to |-> c, item |-> j, zeny |-> z]
            same == {m \in box : m.to = mail.to /\ m.item = NoLot /\ mail.item = NoLot}
            sum == MapThenSumSet(LAMBDA m : m.zeny, same)
            x == [mail EXCEPT !.zeny = @ + sum]
<1>1. Letters(box, mail) = (box \ same) \union {x}
  BY DEF Letters
<1>2. \A i \in Lot : WithItem(same, i) = {}
  BY AuctionAssumption DEF WithItem
<1>. HIDE DEF same, sum
<1>3. x.item = j
  OBVIOUS
<1>. HIDE DEF x, mail
<1>4. \A i \in Lot : WithItem((box \ same) \union {x}, i)
                       = WithItem(box, i) \union {y \in {x} : y.item = i}
  BY <1>2 DEF WithItem
<1>5. \A i \in Lot : WithItem(Letters(box, mail), i)
                       = WithItem(box, i) \union {y \in {x} : y.item = i}
  BY <1>1, <1>4
<1>. QED BY <1>3, <1>5 DEF mail

LEMMA MoneyAdded ==
  ASSUME NEW box, NEW c, NEW z
  PROVE  \A i \in Lot : WithItem(Letters(box, MoneyTo(c, z)), i) = WithItem(box, i)
<1>1. PICK x : /\ x.item = NoLot
               /\ \A i \in Lot : WithItem(Letters(box, [to |-> c, item |-> NoLot, zeny |-> z]), i)
                                   = WithItem(box, i) \union {y \in {x} : y.item = i}
  BY LetterAdded
<1>. QED BY <1>1, AuctionAssumption DEF MoneyTo

LEMMA ItemAdded ==
  ASSUME NEW box, NEW c, NEW j
  PROVE  \E x : /\ x.item = j
                /\ \A i \in Lot : WithItem(Letters(box, ItemTo(c, j)), i)
                                    = WithItem(box, i) \union {y \in {x} : y.item = i}
  BY LetterAdded DEF ItemTo

-----------------------------------------------------------------------------
(* What the handlers of the char-server do with a lot *)

PlacesKept == \A i \in Lot : InOnePlace(i)
PacketsKept == \A i \in Lot : KeptOnce(Asks(i)', Asks(i)) /\ KeptOnce(Refusals(i)', Refusals(i))
PostHas(x) == \A i \in Lot : WithItem(post', i) = WithItem(post, i) \union {y \in {x} : y.item = i}

\* The auction ends and the item goes by mail.
LEMMA AuctionToLetter ==
  ASSUME PlacesKept, PacketsKept, UNCHANGED lots,
         NEW a \in auction, auction' = auction \ {a},
         NEW x, x.item = a.item, PostHas(x)
  PROVE  PlacesKept'
<1>. SUFFICES ASSUME NEW i \in Lot PROVE InOnePlace(i)'
  BY DEF PlacesKept
<1>0. InOnePlace(i) /\ KeptOnce(Asks(i)', Asks(i)) /\ KeptOnce(Refusals(i)', Refusals(i))
  BY DEF PlacesKept, PacketsKept
<1>1. Owners(i)' = Owners(i)
  BY DEF Owners
<1>2. LettersWith(i)' = LettersWith(i) \union {y \in {x} : y.item = i}
  BY DEF PostHas, WithItem, LettersWith
<1>3. Auctions(i)' = Auctions(i) \ {a}
  BY DEF Auctions
<1>4. CASE a.item = i
  <2>1. a \in Auctions(i)
    BY <1>4 DEF Auctions
  <2>2. /\ Owners(i) = {} /\ LettersWith(i) = {} /\ Asks(i) = {} /\ Refusals(i) = {}
        /\ AtMostOne(Auctions(i))
    BY <1>0, <2>1 DEF InOnePlace, Exclusive
  <2>3. Auctions(i)' = {} /\ LettersWith(i)' = {x}
    BY <1>2, <1>3, <1>4, <2>1, <2>2 DEF AtMostOne
  <2>. QED BY <1>0, <1>1, <2>2, <2>3 DEF InOnePlace, Exclusive, KeptOnce, AtMostOne
<1>5. CASE a.item # i
  <2>1. Auctions(i)' = Auctions(i) /\ LettersWith(i)' = LettersWith(i)
    BY <1>2, <1>3, <1>5 DEF Auctions
  <2>. QED BY <1>0, <1>1, <2>1 DEF InOnePlace, Exclusive, KeptOnce
<1>. QED BY <1>4, <1>5

\* Nothing but bids and packets changes.
LEMMA PlacesStay ==
  ASSUME PlacesKept, PacketsKept, UNCHANGED lots,
         \A i \in Lot : WithItem(post', i) = WithItem(post, i),
         \A i \in Lot : KeptOnce(Auctions(i)', Auctions(i))
  PROVE  PlacesKept'
<1>. SUFFICES ASSUME NEW i \in Lot PROVE InOnePlace(i)'
  BY DEF PlacesKept
<1>0. InOnePlace(i) /\ KeptOnce(Asks(i)', Asks(i)) /\ KeptOnce(Refusals(i)', Refusals(i))
  BY DEF PlacesKept, PacketsKept
<1>1. Owners(i)' = Owners(i)
  BY DEF Owners
<1>2. LettersWith(i)' = LettersWith(i)
  BY DEF WithItem, LettersWith
<1>. QED BY <1>0, <1>1, <1>2 DEF InOnePlace, Exclusive, KeptOnce

LEMMA SameAuctionPlaces ==
  ASSUME PlacesKept, UNCHANGED auction
  PROVE  \A i \in Lot : KeptOnce(Auctions(i)', Auctions(i))
  BY DEF PlacesKept, InOnePlace, Exclusive, KeptOnce, Auctions

\* A new auction, or an answer that refuses it, has the item of the request.
LEMMA RegisterPlaces ==
  ASSUME IInv, PlacesKept, TradersOK, UNCHANGED lots, aToChar # <<>>, aToChar' = Tail(aToChar),
         Head(aToChar).type = "register", serving,
         mapif_parse_Auction_register(Head(aToChar).sale)
  PROVE  PlacesKept' /\ \E S : aToMap' \in Seq(S)
<1>. DEFINE sale == Head(aToChar).sale
            a == [sale EXCEPT !.auction_id = last_auction + 1]
            new == [type |-> "registered", sale |-> a]
            back == [type |-> "registered", sale |-> sale]
<1>0. IsSale(sale)
  BY TakenOK DEF IInv
<1>1. a.auction_id = last_auction + 1 /\ a.item = sale.item /\ a.auction_id # 0
  BY <1>0 DEF IsSale, IInv, IdsOnce
<1>2. PICK S : aToMap \in Seq(S)
  BY DEF TradersOK
<1>3. auction_db = auction
  BY DEF IInv, SurvivesRestart
<1>4. \/ /\ auction' = auction \union {a} /\ UNCHANGED post /\ AReply(<<new>>)
      \/ /\ AReply(<<back>>) /\ UNCHANGED <<auction, post>>
  BY <1>3 DEF mapif_parse_Auction_register
<1>5. new.type = "registered" /\ new.sale = a /\ back.type = "registered" /\ back.sale = sale
  OBVIOUS
<1>6. \A i \in Lot : /\ AtMostOne(Asks(i)) /\ AtMostOne(Refusals(i)) /\ InOnePlace(i)
  BY DEF PlacesKept, InOnePlace, Exclusive
<1>7. \A i \in Lot : /\ KeptOnce(Asks(i)', Asks(i))
                     /\ sale.item = i => Asks(i) # {} /\ Asks(i)' = {}
  <2>1. RequestsOK
    BY DEF IInv
  <2>. QED BY <2>1, <1>6, TakenPlaces
<1>8. \A i : Owners(i)' = Owners(i) /\ LettersWith(i)' = LettersWith(i)
  BY <1>4 DEF Owners, LettersWith
<1>. HIDE DEF sale, a, new, back
<1>9. CASE auction' = auction \union {a} /\ AReply(<<new>>)
  <2>1. /\ \E T : aToMap' \in Seq(T)
        /\ \A i \in Lot : Refusals(i)' = Refusals(i)
    BY <1>1, <1>2, <1>5, <1>9, RepliedPlaces
  <2>2. \A i \in Lot : Auctions(i)' = Auctions(i) \union {y \in {a} : y.item = i}
    BY <1>9 DEF Auctions
  <2>3. ASSUME NEW i \in Lot PROVE InOnePlace(i)'
    <3>1. CASE sale.item = i
      <4>1. /\ Owners(i) = {} /\ LettersWith(i) = {} /\ Auctions(i) = {} /\ Refusals(i) = {}
            /\ Asks(i)' = {}
        BY <1>6, <1>7, <3>1 DEF InOnePlace, Exclusive
      <4>2. Auctions(i)' = {a}
        BY <1>1, <2>2, <3>1, <4>1
      <4>. QED BY <1>8, <2>1, <4>1, <4>2 DEF InOnePlace, Exclusive, AtMostOne
    <3>2. CASE sale.item # i
      <4>1. Auctions(i)' = Auctions(i)
        BY <1>1, <2>2, <3>2
      <4>. QED BY <1>6, <1>7, <1>8, <2>1, <4>1 DEF InOnePlace, Exclusive, KeptOnce
    <3>. QED BY <3>1, <3>2
  <2>. QED BY <2>1, <2>3 DEF PlacesKept
<1>10. CASE AReply(<<back>>) /\ UNCHANGED <<auction, post>>
  <2>1. /\ \E T : aToMap' \in Seq(T)
        /\ \A i \in Lot : Refusals(i)' = IF sale.auction_id = 0 /\ sale.item = i
                                         THEN Refusals(i) \union {Len(aToMap) + 1} ELSE Refusals(i)
    BY <1>2, <1>5, <1>10, RepliedPlaces
  <2>2. \A i \in Lot : Auctions(i)' = Auctions(i)
    BY <1>10 DEF Auctions
  <2>3. ASSUME NEW i \in Lot PROVE InOnePlace(i)'
    <3>1. CASE sale.item = i
      <4>1. /\ Owners(i) = {} /\ LettersWith(i) = {} /\ Auctions(i) = {} /\ Refusals(i) = {}
            /\ Asks(i)' = {}
        BY <1>6, <1>7, <3>1 DEF InOnePlace, Exclusive
      <4>2. AtMostOne(Refusals(i)')
        BY <2>1, <4>1 DEF AtMostOne
      <4>. QED BY <1>8, <2>2, <4>1, <4>2 DEF InOnePlace, Exclusive, AtMostOne
    <3>2. CASE sale.item # i
      <4>1. Refusals(i)' = Refusals(i)
        BY <2>1, <3>2
      <4>. QED BY <1>6, <1>7, <1>8, <2>2, <4>1 DEF InOnePlace, Exclusive, KeptOnce
    <3>. QED BY <3>1, <3>2
  <2>. QED BY <2>1, <2>3 DEF PlacesKept
<1>. QED BY <1>4, <1>9, <1>10

\* The item and the price leave in two letters, in either order.
LEMMA BothPosted ==
  ASSUME NEW box, NEW c, NEW j, NEW d, NEW z, \A i \in Lot : WithItem(box, i) = WithItem(post, i),
         \/ post' = Letters(Letters(box, ItemTo(c, j)), MoneyTo(d, z))
         \/ post' = Letters(Letters(box, MoneyTo(d, z)), ItemTo(c, j))
         \/ post' = Letters(box, ItemTo(c, j))
  PROVE  \E x : x.item = j /\ PostHas(x)
<1>. DEFINE one == Letters(box, ItemTo(c, j))
            two == Letters(box, MoneyTo(d, z))
<1>1. PICK x : /\ x.item = j
               /\ \A i \in Lot : WithItem(one, i) = WithItem(box, i) \union {y \in {x} : y.item = i}
  BY ItemAdded
<1>2. \A i \in Lot : WithItem(two, i) = WithItem(box, i)
  BY MoneyAdded
<1>3. \A i \in Lot : WithItem(Letters(one, MoneyTo(d, z)), i) = WithItem(one, i)
  BY MoneyAdded
<1>4. PICK v : /\ v.item = j
               /\ \A i \in Lot : WithItem(Letters(two, ItemTo(c, j)), i)
                                   = WithItem(two, i) \union {y \in {v} : y.item = i}
  BY ItemAdded
<1>5. CASE post' = Letters(one, MoneyTo(d, z))
  BY <1>1, <1>3, <1>5 DEF PostHas
<1>6. CASE post' = Letters(two, ItemTo(c, j))
  BY <1>2, <1>4, <1>6 DEF PostHas
<1>7. CASE post' = one
  BY <1>1, <1>7 DEF PostHas
<1>. QED BY <1>5, <1>6, <1>7

LEMMA CancelPlaces ==
  ASSUME PlacesKept, PacketsKept, UNCHANGED lots, auction_db = auction, NEW c, NEW id,
         mapif_parse_Auction_cancel(c, id) \/ mapif_parse_Auction_close(c, id)
  PROVE  PlacesKept'
<1>1. CASE Refused
  BY <1>1, PlacesStay, SameAuctionPlaces DEF Refused
<1>2. CASE \E a \in auction_db : /\ auction_delete(a)
                                 /\ post' = Letters(post, ItemTo(a.seller_id, a.item))
  <2>1. PICK a \in auction : /\ auction' = auction \ {a}
                             /\ post' = Letters(post, ItemTo(a.seller_id, a.item))
    BY <1>2 DEF auction_delete
  <2>2. \E x : x.item = a.item /\ PostHas(x)
    BY <2>1, BothPosted
  <2>. QED BY <2>1, <2>2, AuctionToLetter
<1>3. CASE \E a \in auction_db :
             /\ auction_delete(a)
             /\ post' = Letters(Letters(post, MoneyTo(a.seller_id, a.price)),
                                ItemTo(a.buyer_id, a.item))
  <2>1. PICK a \in auction : /\ auction' = auction \ {a}
                             /\ post' = Letters(Letters(post, MoneyTo(a.seller_id, a.price)),
                                                ItemTo(a.buyer_id, a.item))
    BY <1>3 DEF auction_delete
  <2>2. \E x : x.item = a.item /\ PostHas(x)
    BY <2>1, BothPosted
  <2>. QED BY <2>1, <2>2, AuctionToLetter
<1>. QED BY <1>1, <1>2, <1>3 DEF mapif_parse_Auction_cancel, mapif_parse_Auction_close

LEMMA BidPlaces ==
  ASSUME PlacesKept, PacketsKept, UNCHANGED lots, auction_db = auction, IdsOnce,
         NEW c, NEW id, NEW bid, mapif_parse_Auction_bid(c, id, bid)
  PROVE  PlacesKept'
<1>1. CASE Refused
  BY <1>1, PlacesStay, SameAuctionPlaces DEF Refused
<1>2. \A a : \A i \in Lot : WithItem(PaidBack(a, c), i) = WithItem(post, i)
  BY MoneyAdded DEF PaidBack
<1>3. CASE \E a \in auction_db :
             /\ post' = Letters(Letters(PaidBack(a, c), ItemTo(c, a.item)),
                                MoneyTo(a.seller_id, a.buynow))
             /\ auction_delete(a)
  <2>1. PICK a \in auction : /\ auction' = auction \ {a}
                             /\ post' = Letters(Letters(PaidBack(a, c), ItemTo(c, a.item)),
                                                MoneyTo(a.seller_id, a.buynow))
    BY <1>3 DEF auction_delete
  <2>2. \E x : x.item = a.item /\ PostHas(x)
    <3>. DEFINE box == PaidBack(a, c)
    <3>1. \A i \in Lot : WithItem(box, i) = WithItem(post, i)
      BY <1>2
    <3>2. post' = Letters(Letters(box, ItemTo(c, a.item)), MoneyTo(a.seller_id, a.buynow))
      BY <2>1
    <3>. HIDE DEF box
    <3>. QED BY <3>1, <3>2, BothPosted
  <2>. QED BY <2>1, <2>2, AuctionToLetter
<1>4. ASSUME NEW a \in auction_db,
             LET b == [a EXCEPT !.buyer_id = c, !.price = bid]
             IN  auction_db' = (auction_db \ {a}) \union {b} /\ auction_save(a, b),
             post' = PaidBack(a, c)
      PROVE  PlacesKept'
  <2>. DEFINE b == [a EXCEPT !.buyer_id = c, !.price = bid]
  <2>1. auction' = (auction \ {a}) \union {b}
    BY <1>4 DEF auction_save
  <2>2. b.item = a.item
    BY <1>4 DEF IdsOnce, IsSale
  <2>. HIDE DEF b
  <2>3. ASSUME NEW i \in Lot PROVE KeptOnce(Auctions(i)', Auctions(i))
    <3>1. AtMostOne(Auctions(i))
      BY DEF PlacesKept, InOnePlace, Exclusive
    <3>2. Auctions(i)' = (Auctions(i) \ {a}) \union {y \in {b} : y.item = i}
      BY <2>1 DEF Auctions
    <3>3. a \in Auctions(i) <=> b.item = i
      BY <1>4, <2>2 DEF Auctions
    <3>. QED BY <3>1, <3>2, <3>3 DEF KeptOnce, AtMostOne
  <2>. QED BY <1>2, <1>4, <2>3, PlacesStay
<1>. QED BY <1>1, <1>3, <1>4 DEF mapif_parse_Auction_bid

-----------------------------------------------------------------------------
(* The steps *)

LEMMA SamePackets ==
  ASSUME PlacesKept
  PROVE  /\ UNCHANGED aToChar => \A i \in Lot : KeptOnce(Asks(i)', Asks(i))
         /\ UNCHANGED aToMap => \A i \in Lot : KeptOnce(Refusals(i)', Refusals(i))
         /\ aToChar' = <<>> => \A i \in Lot : KeptOnce(Asks(i)', Asks(i))
         /\ aToMap' = <<>> => \A i \in Lot : KeptOnce(Refusals(i)', Refusals(i))
<1>1. \A i \in Lot : AtMostOne(Asks(i)) /\ AtMostOne(Refusals(i))
  BY DEF PlacesKept, InOnePlace, Exclusive
<1>2. UNCHANGED aToChar => \A i \in Lot : Asks(i)' = Asks(i)
  BY DEF Asks
<1>3. UNCHANGED aToMap => \A i \in Lot : Refusals(i)' = Refusals(i)
  BY DEF Refusals
<1>4. aToChar' = <<>> => \A i \in Lot : Asks(i)' = {}
  BY DEF Asks
<1>5. aToMap' = <<>> => \A i \in Lot : Refusals(i)' = {}
  BY DEF Refusals
<1>. QED BY <1>1, <1>2, <1>3, <1>4, <1>5 DEF KeptOnce, AtMostOne

LEMMA GoodsStay ==
  ASSUME PlacesKept, PacketsKept, UNCHANGED <<lots, auction, post>>
  PROVE  PlacesKept'
  BY PlacesStay, SameAuctionPlaces

\* A lot that a trader gets from where it was kept before.
LEMMA LotGained ==
  ASSUME TradersOK, NEW c \in Trader, NEW j, lots' = [lots EXCEPT ![c] = @ \union {j}]
  PROVE  /\ lots' = [d \in Trader |-> lots'[d]]
         /\ Owners(j)' = Owners(j) \union {c}
         /\ \A i : i # j => Owners(i)' = Owners(i)
<1>1. /\ DOMAIN lots = Trader
      /\ lots' = [d \in Trader |-> IF d = c THEN lots[d] \union {j} ELSE lots[d]]
  BY DEF TradersOK
<1>2. \A d \in Trader : lots'[d] = IF d = c THEN lots[d] \union {j} ELSE lots[d]
  BY <1>1
<1>3. lots' = [d \in Trader |-> lots'[d]]
  BY <1>1
<1>4. Owners(j)' = Owners(j) \union {c}
  BY <1>2 DEF Owners
<1>5. \A i : i # j => Owners(i)' = Owners(i)
  BY <1>2 DEF Owners
<1>. QED BY <1>3, <1>4, <1>5

LEMMA RegisterAsked ==
  ASSUME LotInv, NEW c \in Trader, NEW p, NEW b, AuctionRegister(c, p, b)
  PROVE  PlacesKept' /\ TradersOK'
<1>. DEFINE j == chosen[c]
            packet == [type |-> "register",
                       sale |-> [auction_id |-> 0, seller_id |-> c, item |-> j,
                                 buyer_id |-> NoBuyer, price |-> p, buynow |-> b]]
<1>1. /\ AAsk(packet) /\ j \in lots[c] /\ lots' = [lots EXCEPT ![c] = @ \ {j}]
      /\ UNCHANGED <<here, aToMap, auction, post>>
  BY DEF AuctionRegister, auctions
<1>2. packet.type = "register" /\ packet.sale.item = j
  OBVIOUS
<1>3. TradersOK /\ RequestsOK /\ PlacesKept
  BY DEF LotInv, IInv, PlacesKept
<1>. HIDE DEF packet, j
<1>4. \A i : Asks(i)' = IF i = j THEN Asks(i) \union {Len(aToChar) + 1} ELSE Asks(i)
  BY <1>1, <1>2, <1>3, AskedPlaces
<1>5. /\ DOMAIN lots = Trader
      /\ lots' = [d \in Trader |-> IF d = c THEN lots[d] \ {j} ELSE lots[d]]
  BY <1>1, <1>3 DEF TradersOK
<1>6. \A i : Owners(i)' = IF i = j THEN Owners(i) \ {c} ELSE Owners(i)
  BY <1>5 DEF Owners
<1>7. c \in Owners(j)
  BY <1>1 DEF Owners
<1>8. \A i : /\ Auctions(i)' = Auctions(i) /\ LettersWith(i)' = LettersWith(i)
             /\ Refusals(i)' = Refusals(i)
  BY <1>1 DEF Auctions, LettersWith, Refusals
<1>9. ASSUME NEW i \in Lot PROVE InOnePlace(i)'
  <2>1. InOnePlace(i)
    BY <1>3 DEF PlacesKept
  <2>2. CASE i = j
    <3>1. /\ Auctions(i) = {} /\ LettersWith(i) = {} /\ Asks(i) = {} /\ Refusals(i) = {}
          /\ Owners(i)' = {}
      BY <1>6, <1>7, <2>1, <2>2 DEF InOnePlace, Exclusive, AtMostOne
    <3>2. AtMostOne(Asks(i)')
      BY <1>4, <2>2, <3>1 DEF AtMostOne
    <3>. QED BY <1>8, <3>1, <3>2 DEF InOnePlace, Exclusive, AtMostOne
  <2>3. CASE i # j
    BY <1>4, <1>6, <1>8, <2>1, <2>3 DEF InOnePlace, Exclusive
  <2>. QED BY <2>2, <2>3
<1>10. lots' = [d \in Trader |-> lots'[d]]
  BY <1>5
<1>11. TradersOK'
  BY <1>1, <1>3, <1>10 DEF TradersOK
<1>. QED BY <1>9, <1>11 DEF PlacesKept

LEMMA LetterTaken ==
  ASSUME LotInv, NEW c \in Trader, NEW letter \in post, TakeMail(c, letter)
  PROVE  PlacesKept' /\ TradersOK'
<1>1. /\ post' = post \ {letter}
      /\ lots' = [lots EXCEPT ![c] = @ \union ({letter.item} \ {NoLot})]
      /\ UNCHANGED <<here, aToChar, aToMap, auction>>
  BY DEF TakeMail
<1>2. TradersOK /\ PlacesKept
  BY DEF LotInv, PlacesKept
<1>3. PacketsKept
  BY <1>1, <1>2, SamePackets DEF PacketsKept
<1>4. CASE letter.item = NoLot
  <2>1. DOMAIN lots = Trader
    BY <1>2 DEF TradersOK
  <2>2. lots' = lots
    <3>1. lots' = [d \in Trader |-> lots[d]]
      BY <1>1, <1>4, <2>1
    <3>. QED BY <1>2, <3>1 DEF TradersOK
  <2>3. \A i \in Lot : WithItem(post', i) = WithItem(post, i)
    BY <1>1, <1>4, AuctionAssumption DEF WithItem
  <2>4. PlacesKept'
    BY <1>1, <1>2, <1>3, <2>2, <2>3, PlacesStay, SameAuctionPlaces
  <2>. QED BY <1>1, <1>2, <2>2, <2>4 DEF TradersOK
<1>5. CASE letter.item # NoLot
  <2>. DEFINE j == letter.item
  <2>1. lots' = [lots EXCEPT ![c] = @ \union {j}]
    <3>1. {letter.item} \ {NoLot} = {j}
      BY <1>5
    <3>. QED BY <1>1, <3>1
  <2>. HIDE DEF j
  <2>2. /\ lots' = [d \in Trader |-> lots'[d]]
        /\ Owners(j)' = Owners(j) \union {c}
        /\ \A i : i # j => Owners(i)' = Owners(i)
    BY <1>2, <2>1, LotGained
  <2>3. ASSUME NEW i \in Lot PROVE InOnePlace(i)'
    <3>1. InOnePlace(i) /\ Auctions(i)' = Auctions(i)
      BY <1>1, <1>2 DEF PlacesKept, Auctions
    <3>2. KeptOnce(Asks(i)', Asks(i)) /\ KeptOnce(Refusals(i)', Refusals(i))
      BY <1>3 DEF PacketsKept
    <3>3. LettersWith(i)' = LettersWith(i) \ {letter}
      BY <1>1 DEF LettersWith
    <3>4. CASE i = j
      <4>1. letter \in LettersWith(i)
        BY <3>4 DEF LettersWith, j
      <4>2. /\ Owners(i) = {} /\ Auctions(i) = {} /\ Asks(i) = {} /\ Refusals(i) = {}
            /\ LettersWith(i)' = {}
        BY <3>1, <3>3, <4>1 DEF InOnePlace, Exclusive, AtMostOne
      <4>3. Owners(i)' = {c}
        BY <2>2, <3>4, <4>2
      <4>. QED BY <3>1, <3>2, <4>2, <4>3 DEF InOnePlace, Exclusive, AtMostOne, KeptOnce
    <3>5. CASE i # j
      <4>1. Owners(i)' = Owners(i)
        BY <2>2, <3>5
      <4>2. KeptOnce(LettersWith(i)', LettersWith(i))
        BY <3>1, <3>3 DEF KeptOnce, InOnePlace, Exclusive, AtMostOne
      <4>. QED BY <3>1, <3>2, <4>1, <4>2 DEF InOnePlace, Exclusive, KeptOnce
    <3>. QED BY <3>4, <3>5
  <2>. QED BY <1>1, <1>2, <2>2, <2>3 DEF PlacesKept, TradersOK
<1>. QED BY <1>4, <1>5

\* The item of an auction that was refused comes back, if its seller is there.
LEMMA AnswerPlaces ==
  ASSUME LotInv, AuctionMapHandles
  PROVE  PlacesKept' /\ TradersOK'
<1>. DEFINE p == Head(aToMap)
<1>0. PICK c, j : c = p.sale.seller_id /\ j = p.sale.item
  OBVIOUS
<1>1. /\ aToMap # <<>> /\ aToMap' = Tail(aToMap)
      /\ UNCHANGED <<here, aToChar, auction, post>>
  BY DEF AuctionMapHandles, auctions
<1>2. TradersOK /\ PlacesKept
  BY DEF LotInv, PlacesKept
<1>3. PICK S : aToMap \in Seq(S)
  BY <1>2 DEF TradersOK
<1>4. \A i \in Lot : InOnePlace(i) /\ AtMostOne(Refusals(i))
  BY <1>2 DEF PlacesKept, InOnePlace, Exclusive
<1>5. /\ \E T : aToMap' \in Seq(T)
      /\ \A i \in Lot :
           /\ KeptOnce(Refusals(i)', Refusals(i))
           /\ p.type = "registered" /\ p.sale.auction_id = 0 /\ p.sale.item = i
                => Refusals(i) # {} /\ Refusals(i)' = {}
  <2>1. \E T : aToMap' \in Seq(T)
    BY <1>1, <1>3
  <2>. QED BY <1>1, <1>3, <1>4, <2>1, HandledPlaces
<1>6. PacketsKept
  BY <1>1, <1>2, <1>5, SamePackets DEF PacketsKept
<1>7. CASE UNCHANGED lots
  BY <1>1, <1>2, <1>5, <1>6, <1>7, GoodsStay DEF TradersOK
<1>8. CASE /\ p.type = "registered" /\ p.sale.auction_id = 0 /\ c \in here
           /\ lots' = [lots EXCEPT ![c] = @ \union {j}]
  <2>0. c \in Trader
    BY <1>2, <1>8 DEF TradersOK
  <2>1. /\ p.type = "registered" /\ p.sale.auction_id = 0
        /\ lots' = [lots EXCEPT ![c] = @ \union {j}]
    BY <1>8
  <2>2. /\ lots' = [d \in Trader |-> lots'[d]]
        /\ Owners(j)' = Owners(j) \union {c}
        /\ \A i : i # j => Owners(i)' = Owners(i)
    BY <1>2, <2>0, <2>1, LotGained
  <2>3. ASSUME NEW i \in Lot PROVE InOnePlace(i)'
    <3>1. Auctions(i)' = Auctions(i) /\ LettersWith(i)' = LettersWith(i)
      BY <1>1 DEF Auctions, LettersWith
    <3>2. KeptOnce(Asks(i)', Asks(i)) /\ KeptOnce(Refusals(i)', Refusals(i))
      BY <1>6 DEF PacketsKept
    <3>4. CASE i = j
      <4>1. Refusals(i) # {} /\ Refusals(i)' = {}
        BY <1>0, <1>5, <2>1, <3>4
      <4>2. Owners(i) = {} /\ Auctions(i) = {} /\ LettersWith(i) = {} /\ Asks(i) = {}
        BY <1>4, <4>1 DEF InOnePlace, Exclusive
      <4>3. Owners(i)' = {c}
        BY <2>2, <3>4, <4>2
      <4>. QED BY <3>1, <3>2, <4>1, <4>2, <4>3 DEF InOnePlace, Exclusive, AtMostOne, KeptOnce
    <3>5. CASE i # j
      <4>1. Owners(i)' = Owners(i)
        BY <2>2, <3>5
      <4>. QED BY <1>4, <3>1, <3>2, <4>1 DEF InOnePlace, Exclusive, KeptOnce
    <3>. QED BY <3>4, <3>5
  <2>. QED BY <1>1, <1>2, <1>5, <2>2, <2>3 DEF PlacesKept, TradersOK
<1>. QED BY <1>0, <1>7, <1>8 DEF AuctionMapHandles, Failed

LEMMA HandlesPlaces ==
  ASSUME LotInv, AuctionCharHandles
  PROVE  PlacesKept' /\ TradersOK'
<1>. DEFINE p == Head(aToChar)
<1>1. /\ serving /\ aToChar # <<>> /\ aToChar' = Tail(aToChar)
      /\ UNCHANGED <<here, lots>>
  BY DEF AuctionCharHandles, traders
<1>2. /\ IInv /\ TradersOK /\ PlacesKept /\ RequestsOK /\ IdsOnce /\ auction_db = auction
  BY <1>1 DEF LotInv, PlacesKept, IInv, SurvivesRestart
<1>3. \A i \in Lot : KeptOnce(Asks(i)', Asks(i))
  <2>1. \A i \in Lot : AtMostOne(Asks(i))
    BY <1>2 DEF PlacesKept, InOnePlace, Exclusive
  <2>. QED BY <1>1, <1>2, <2>1, TakenPlaces
<1>4. \A i \in Lot : AtMostOne(Refusals(i))
  BY <1>2 DEF PlacesKept, InOnePlace, Exclusive
<1>5. PICK S : aToMap \in Seq(S)
  BY <1>2 DEF TradersOK
<1>6. CASE p.type = "register" /\ mapif_parse_Auction_register(p.sale)
  BY <1>1, <1>2, <1>6, RegisterPlaces DEF TradersOK
<1>7. CASE mapif_parse_Auction_cancel(p.char, p.id) \/ mapif_parse_Auction_close(p.char, p.id)
  <2>1. UNCHANGED aToMap
    BY <1>7 DEF mapif_parse_Auction_cancel, mapif_parse_Auction_close
  <2>2. PacketsKept
    BY <1>2, <1>3, <2>1, SamePackets DEF PacketsKept
  <2>3. PICK c, id : mapif_parse_Auction_cancel(c, id) \/ mapif_parse_Auction_close(c, id)
    BY <1>7
  <2>. QED BY <1>1, <1>2, <2>1, <2>2, <2>3, CancelPlaces DEF TradersOK
<1>8. CASE mapif_parse_Auction_bid(p.char, p.id, p.bid)
  <2>1. PICK c, id, bid : mapif_parse_Auction_bid(c, id, bid)
    BY <1>8
  <2>2. PICK z : BidAnswer(c, z)
    BY <2>1 DEF mapif_parse_Auction_bid
  <2>. DEFINE packet == [type |-> "bid", char |-> c, back |-> z]
  <2>3. AReply(<<packet>>) /\ packet.type # "registered"
    BY <2>2 DEF BidAnswer
  <2>. HIDE DEF packet
  <2>4. /\ \E T : aToMap' \in Seq(T)
        /\ \A i \in Lot : Refusals(i)' = Refusals(i)
    BY <1>5, <2>3, RepliedPlaces
  <2>5. PacketsKept
    BY <1>3, <1>4, <2>4 DEF PacketsKept, KeptOnce
  <2>6. PlacesKept'
    BY <1>1, <1>2, <2>1, <2>5, BidPlaces
  <2>. QED BY <1>1, <1>2, <2>4, <2>6 DEF TradersOK
<1>. QED BY <1>6, <1>7, <1>8 DEF AuctionCharHandles

LEMMA TraderPlaces ==
  ASSUME LotInv, AuctionTrader
  PROVE  PlacesKept' /\ TradersOK'
<1>1. PICK c \in Trader :
        \/ \E i \in Lot \union {NoLot} : AuctionSetitem(c, i)
        \/ \E p, b \in 0 .. MaxPrice : AuctionRegister(c, p, b)
        \/ \E a \in auction : AuctionCancel(c, a.auction_id)
        \/ \E a \in auction, z \in 1 .. AllCoins : AuctionBid(c, a.auction_id, z)
        \/ \E letter \in post : TakeMail(c, letter)
        \/ AuctionQuit(c) \/ AuctionLogin(c)
  BY DEF AuctionTrader
<1>2. TradersOK /\ PlacesKept /\ RequestsOK
  BY DEF LotInv, PlacesKept, IInv
<1>3. ASSUME UNCHANGED <<lots, auction, post, aToMap, aToChar>>, here' \subseteq Trader
      PROVE  PlacesKept' /\ TradersOK'
  <2>1. PacketsKept
    BY <1>2, <1>3, SamePackets DEF PacketsKept
  <2>. QED BY <1>2, <1>3, <2>1, GoodsStay DEF TradersOK
<1>4. CASE (\E i \in Lot \union {NoLot} : AuctionSetitem(c, i)) \/ AuctionQuit(c) \/ AuctionLogin(c)
  BY <1>2, <1>3, <1>4 DEF AuctionSetitem, AuctionQuit, AuctionLogin, auctions, TradersOK
<1>5. CASE \E p, b \in 0 .. MaxPrice : AuctionRegister(c, p, b)
  BY <1>5, RegisterAsked
<1>6. CASE \E letter \in post : TakeMail(c, letter)
  BY <1>6, LetterTaken
<1>7. ASSUME NEW packet, packet.type # "register", AAsk(packet),
             UNCHANGED <<lots, auction, post, aToMap, here>>
      PROVE  PlacesKept' /\ TradersOK'
  <2>1. \A i \in Lot : Asks(i)' = Asks(i)
    BY <1>2, <1>7, AskedPlaces
  <2>2. PacketsKept
    BY <1>2, <1>7, <2>1, SamePackets DEF PacketsKept, PlacesKept, InOnePlace, Exclusive, KeptOnce
  <2>. QED BY <1>2, <1>7, <2>2, GoodsStay DEF TradersOK
<1>8. CASE \E a \in auction : AuctionCancel(c, a.auction_id)
  <2>1. PICK a \in auction : AuctionCancel(c, a.auction_id)
    BY <1>8
  <2>2. PICK t \in {"cancel", "close"} : AAsk([type |-> t, char |-> c, id |-> a.auction_id])
    BY <2>1 DEF AuctionCancel
  <2>. DEFINE packet == [type |-> t, char |-> c, id |-> a.auction_id]
  <2>3. packet.type # "register" /\ AAsk(packet)
    BY <2>2
  <2>4. UNCHANGED <<lots, auction, post, aToMap, here>>
    BY <2>1 DEF AuctionCancel, traders, auctions
  <2>. HIDE DEF packet
  <2>. QED BY <1>7, <2>3, <2>4
<1>9. CASE \E a \in auction, z \in 1 .. AllCoins : AuctionBid(c, a.auction_id, z)
  <2>1. PICK a \in auction, z \in 1 .. AllCoins : AuctionBid(c, a.auction_id, z)
    BY <1>9
  <2>. DEFINE packet == [type |-> "bid", char |-> c, id |-> a.auction_id, bid |-> z]
  <2>2. packet.type # "register" /\ AAsk(packet)
    BY <2>1 DEF AuctionBid
  <2>3. UNCHANGED <<lots, auction, post, aToMap, here>>
    BY <2>1 DEF AuctionBid, auctions
  <2>. HIDE DEF packet
  <2>. QED BY <1>7, <2>2, <2>3
<1>. QED BY <1>1, <1>4, <1>5, <1>6, <1>8, <1>9

LEMMA InitPlaces == AuctionInit => LotInv
<1>. SUFFICES ASSUME AuctionInit PROVE LotInv
  OBVIOUS
<1>1. IInv
  BY InitInv
<1>2. PICK owner \in [Lot -> Trader] : lots = [c \in Trader |-> {i \in Lot : owner[i] = c}]
  BY DEF AuctionInit
<1>3. aToMap \in Seq({}) /\ here \subseteq Trader /\ lots = [c \in Trader |-> lots[c]]
  BY <1>2 DEF AuctionInit
<1>4. ASSUME NEW i \in Lot PROVE InOnePlace(i)
  <2>1. Owners(i) = {owner[i]}
    BY <1>2 DEF Owners
  <2>2. Auctions(i) = {} /\ LettersWith(i) = {} /\ Asks(i) = {} /\ Refusals(i) = {}
    BY DEF AuctionInit, Auctions, LettersWith, Asks, Refusals
  <2>. QED BY <2>1, <2>2 DEF InOnePlace, Exclusive, AtMostOne
<1>. QED BY <1>1, <1>3, <1>4 DEF LotInv, TradersOK

LEMMA StepPlaces == LotInv /\ [AuctionNext]_auctionVars => LotInv'
<1>. SUFFICES ASSUME LotInv, [AuctionNext]_auctionVars PROVE PlacesKept' /\ TradersOK'
  BY StepInv DEF LotInv, PlacesKept
<1>0. TradersOK /\ PlacesKept /\ IInv
  BY DEF LotInv, PlacesKept
<1>1. CASE AuctionTrader
  BY <1>1, TraderPlaces
<1>2. CASE AuctionCharHandles
  BY <1>2, HandlesPlaces
<1>3. CASE \E a \in auction_db : AuctionEnd(a)
  <2>1. PICK a \in auction_db : AuctionEnd(a)
    BY <1>3
  <2>2. /\ a \in auction /\ auction' = auction \ {a}
        /\ UNCHANGED <<here, lots, aToChar, aToMap>>
    BY <1>0, <2>1 DEF AuctionEnd, auction_delete, traders, IInv, SurvivesRestart
  <2>3. PacketsKept
    BY <1>0, <2>2, SamePackets DEF PacketsKept
  <2>4. PICK c, d, z : \/ post' = Letters(Letters(post, ItemTo(c, a.item)), MoneyTo(d, z))
                       \/ post' = Letters(post, ItemTo(c, a.item))
    BY <2>1 DEF AuctionEnd
  <2>5. \E x : x.item = a.item /\ PostHas(x)
    BY <2>4, BothPosted
  <2>6. PlacesKept'
    BY <1>0, <2>2, <2>3, <2>5, AuctionToLetter
  <2>. QED BY <1>0, <2>2, <2>6 DEF TradersOK
<1>4. ASSUME UNCHANGED <<here, lots, auction, post>>,
             \/ UNCHANGED <<aToChar, aToMap>>
             \/ aToChar' = <<>> /\ aToMap' = <<>>
      PROVE  PlacesKept' /\ TradersOK'
  <2>1. PacketsKept
    BY <1>0, <1>4, SamePackets DEF PacketsKept
  <2>2. \E T : aToMap' \in Seq(T)
    <3>1. <<>> \in Seq({})
      OBVIOUS
    <3>. QED BY <1>0, <1>4, <3>1 DEF TradersOK
  <2>. QED BY <1>0, <1>4, <2>1, <2>2, GoodsStay DEF TradersOK
<1>5. CASE AuctionStop
  <2>1. here' = here /\ lots' = lots /\ auction' = auction /\ post' = post
    BY <1>5 DEF AuctionStop, traders
  <2>2. aToChar' = <<>> /\ aToMap' = <<>>
    BY <1>5 DEF AuctionStop
  <2>. QED BY <1>4, <2>1, <2>2
<1>6. CASE AuctionStart
  <2>1. here' = here /\ lots' = lots /\ auction' = auction /\ post' = post
    BY <1>6 DEF AuctionStart, traders
  <2>2. aToChar' = aToChar /\ aToMap' = aToMap
    BY <1>6 DEF AuctionStart
  <2>. QED BY <1>4, <2>1, <2>2
<1>7. CASE AuctionMapHandles
  BY <1>7, AnswerPlaces
<1>8. CASE AuctionLinkLost
  <2>1. here' = here /\ lots' = lots /\ auction' = auction /\ post' = post
    BY <1>8 DEF AuctionLinkLost, traders, auctions
  <2>2. aToChar' = <<>> /\ aToMap' = <<>>
    BY <1>8 DEF AuctionLinkLost
  <2>. QED BY <1>4, <2>1, <2>2
<1>9. CASE AuctionLinkUp \/ UNCHANGED auctionVars
  <2>1. here' = here /\ lots' = lots /\ auction' = auction /\ post' = post
    BY <1>9 DEF AuctionLinkUp, traders, auctions, auctionVars
  <2>2. aToChar' = aToChar /\ aToMap' = aToMap
    BY <1>9 DEF AuctionLinkUp, auctionVars
  <2>. QED BY <1>4, <2>1, <2>2
<1>. QED BY <1>1, <1>2, <1>3, <1>5, <1>6, <1>7, <1>8, <1>9 DEF AuctionNext

\* The item of an auction is in one place: no order of its end, a bid, a
\* buy-out, a cancellation and a refusal, and no restart of the char-server
\* or loss of the link, gives it out twice (int_auction.c: auction_end_timer,
\* mapif_parse_Auction_cancel, _close, _bid and intif.c:
\* intif_parse_Auction_register).
THEOREM LotsAreOnce == AuctionSpec => []LotOnce
<1>1. LotInv => LotOnce
  BY OncePlaced DEF LotInv
<1>. QED BY <1>1, InitPlaces, StepPlaces, PTL DEF AuctionSpec

-----------------------------------------------------------------------------
(* Mails between players *)

IsMail(m) ==
  m = [id |-> m.id, from |-> m.from, to |-> m.to, item |-> m.item, zeny |-> m.zeny,
       read |-> m.read]

\* Packets that carry nothing.
Quiet(s) == \E S : s \in Seq(S) /\ \A p \in S : p.type \notin {"send", "sent", "attached"}

MailSent == \E S : mailToChar \in Seq(S) /\ \A p \in S : p.type = "send" => IsMail(p.msg)

MailOK ==
  /\ playing \subseteq Char /\ bag = [c \in Char |-> bag[c]]
  /\ last_id \in Nat /\ \A m \in mails : IsMail(m)
  /\ MailSent
  /\ \E S : mailToMap \in Seq(S)

Carrying(q, i) == {k \in DOMAIN q : Carried(q[k]).item = i}
Packs(i) == {c \in Char : i \in bag[c]}
RowsWith(i) == {m \in mails : m.item = i}

ThingInOnePlace(i) ==
  Exclusive(Packs(i), RowsWith(i), Carrying(mailToChar, i), Carrying(mailToMap, i), {})
ThingsKept == \A i \in Thing : ThingInOnePlace(i)

MailInv == MailOK /\ ThingsKept

LEMMA ThingsOnce == ThingsKept => MailedOnce
<1>. SUFFICES ASSUME NEW i \in Thing, ThingInOnePlace(i)
              PROVE  Cardinality(Packs(i)) + Cardinality(RowsWith(i))
                       + Cardinality(Carrying(mailToChar, i)) + Cardinality(Carrying(mailToMap, i)) <= 1
  BY DEF ThingsKept, MailedOnce, Copies, Packs, RowsWith, Carrying
<1>. DEFINE A == Packs(i)
            B == RowsWith(i)
            C == Carrying(mailToChar, i)
            D == Carrying(mailToMap, i)
            One(S) == IF S = {} THEN 0 ELSE 1
<1>1. Exclusive(A, B, C, D, {})
  BY DEF ThingInOnePlace
<1>. HIDE DEF A, B, C, D
<1>2. /\ Cardinality(A) = One(A) /\ Cardinality(B) = One(B)
      /\ Cardinality(C) = One(C) /\ Cardinality(D) = One(D)
  BY <1>1, CountOfOne DEF Exclusive
<1>3. One(A) + One(B) + One(C) + One(D) <= 1
  BY <1>1 DEF Exclusive
<1>4. Cardinality(A) + Cardinality(B) + Cardinality(C) + Cardinality(D) <= 1
  BY <1>2, <1>3
<1>. QED BY <1>4 DEF A, B, C, D

-----------------------------------------------------------------------------
(* Packets under way *)

LEMMA CarriedAppended ==
  ASSUME NEW S, NEW q \in Seq(S), NEW T, NEW s \in Seq(T), NEW i
  PROVE  \A k : k \in Carrying(q \o s, i)
                  <=> k \in Carrying(q, i) \/ (k \in Int /\ k - Len(q) \in Carrying(s, i))
<1>. DEFINE r == q \o s
            m == Len(q)
            n == Len(s)
<1>1. q \in Seq(S \union T) /\ s \in Seq(S \union T)
  OBVIOUS
<1>2. /\ m \in Nat /\ n \in Nat /\ DOMAIN q = 1 .. m /\ DOMAIN s = 1 .. n
      /\ DOMAIN r = 1 .. m + n
      /\ \A k \in 1 .. m : r[k] = q[k]
      /\ \A k \in m + 1 .. m + n : r[k] = s[k - m]
  BY <1>1
<1>. HIDE DEF r, m, n
<1>3. \A k : k \in Carrying(r, i)
               <=> k \in Carrying(q, i) \/ (k \in Int /\ k - m \in Carrying(s, i))
  <2>1. \A k : k \in Carrying(r, i) <=> k \in 1 .. m + n /\ Carried(r[k]).item = i
    BY <1>2 DEF Carrying
  <2>2. \A k : k \in Carrying(q, i) <=> k \in 1 .. m /\ Carried(q[k]).item = i
    BY <1>2 DEF Carrying
  <2>3. \A k : k \in Carrying(s, i) <=> k \in 1 .. n /\ Carried(s[k]).item = i
    BY <1>2 DEF Carrying
  <2>4. ASSUME NEW k, k \in 1 .. m
        PROVE  k \in Carrying(r, i) <=> k \in Carrying(q, i)
    BY <1>2, <2>1, <2>2, <2>4
  <2>5. ASSUME NEW k, k \in m + 1 .. m + n
        PROVE  k \in Carrying(r, i) <=> k - m \in Carrying(s, i)
    <3>1. r[k] = s[k - m] /\ k \in 1 .. m + n /\ k - m \in 1 .. n
      BY <1>2, <2>5
    <3>. QED BY <2>1, <2>3, <3>1
  <2>. QED BY <1>2, <2>1, <2>2, <2>3, <2>4, <2>5
<1>. QED BY <1>3 DEF r, m

LEMMA CarriedNone ==
  ASSUME NEW s, Quiet(s)
  PROVE  \A i \in Thing : Carrying(s, i) = {}
<1>1. PICK S : s \in Seq(S) /\ \A p \in S : p.type \notin {"send", "sent", "attached"}
  BY DEF Quiet
<1>2. \A k \in DOMAIN s : s[k] \in S
  BY <1>1
<1>3. \A p \in S : Carried(p).item = None
  BY <1>1 DEF Carried, Nothing
<1>. QED BY <1>2, <1>3, MailAssumption DEF Carrying

LEMMA CarriedSame ==
  ASSUME NEW S, NEW q \in Seq(S), NEW s, Quiet(s)
  PROVE  \A i \in Thing : Carrying(q \o s, i) = Carrying(q, i)
<1>1. PICK T : s \in Seq(T)
  BY DEF Quiet
<1>2. \A i \in Thing : \A k : k \in Carrying(q \o s, i) <=> k \in Carrying(q, i)
  BY <1>1, CarriedAppended, CarriedNone
<1>. QED BY <1>2

\* One packet among those that are sent may carry something.
LEMMA CarriedMore ==
  ASSUME NEW S, NEW q \in Seq(S), NEW p, NEW s, s = <<>> \/ Quiet(s)
  PROVE  \A i \in Thing :
           /\ Carried(p).item # i => Carrying(q \o (<<p>> \o s), i) = Carrying(q, i)
           /\ Carrying(q, i) = {} => AtMostOne(Carrying(q \o (<<p>> \o s), i))
<1>1. PICK T : s \in Seq(T)
  <2>1. <<>> \in Seq({})
    OBVIOUS
  <2>. QED BY <2>1 DEF Quiet
<1>2. <<p>> \in Seq({p}) /\ Len(<<p>>) = 1
  OBVIOUS
<1>3. <<p>> \o s \in Seq({p} \union T)
  BY <1>1
<1>4. \A i \in Thing : Carrying(s, i) = {}
  <2>1. \A i \in Thing : Carrying(<<>>, i) = {}
    BY DEF Carrying
  <2>. QED BY <2>1, CarriedNone
<1>5. \A i : \A k : k \in Carrying(<<p>>, i) <=> k = 1 /\ Carried(p).item = i
  BY DEF Carrying
<1>. DEFINE r == <<p>> \o s
<1>6. \A i \in Thing : \A k : k \in Carrying(r, i) <=> k = 1 /\ Carried(p).item = i
  BY <1>1, <1>2, <1>4, <1>5, CarriedAppended
<1>. HIDE DEF r
<1>7. \A i \in Thing : \A k : k \in Carrying(q \o r, i)
                                <=> k \in Carrying(q, i)
                                      \/ (k \in Int /\ k - Len(q) = 1 /\ Carried(p).item = i)
  <2>1. r \in Seq({p} \union T)
    BY <1>3 DEF r
  <2>. QED BY <1>6, <2>1, CarriedAppended
<1>8. \A i \in Thing : /\ Carried(p).item # i => Carrying(q \o r, i) = Carrying(q, i)
                       /\ Carrying(q, i) = {} => AtMostOne(Carrying(q \o r, i))
  <2>. DEFINE m == Len(q)
  <2>1. m \in Nat
    OBVIOUS
  <2>. HIDE DEF m
  <2>2. ASSUME NEW i \in Thing, Carried(p).item # i
        PROVE  Carrying(q \o r, i) = Carrying(q, i)
    <3>1. \A k : k \in Carrying(q \o r, i) <=> k \in Carrying(q, i)
      BY <1>7, <2>2
    <3>. QED BY <3>1
  <2>3. ASSUME NEW i \in Thing, Carrying(q, i) = {}
        PROVE  AtMostOne(Carrying(q \o r, i))
    <3>1. \A k \in Carrying(q \o r, i) : k \in Int /\ k - m = 1
      BY <1>7, <2>3 DEF m
    <3>. QED BY <2>1, <3>1 DEF AtMostOne
  <2>. QED BY <2>2, <2>3
<1>. QED BY <1>8 DEF r

LEMMA CarriedTail ==
  ASSUME NEW S, NEW q \in Seq(S), q # <<>>, NEW i, AtMostOne(Carrying(q, i))
  PROVE  /\ KeptOnce(Carrying(Tail(q), i), Carrying(q, i))
         /\ Carried(Head(q)).item = i => Carrying(q, i) # {} /\ Carrying(Tail(q), i) = {}
<1>1. /\ Len(q) \in Nat \ {0} /\ DOMAIN q = 1 .. Len(q) /\ DOMAIN Tail(q) = 1 .. Len(q) - 1
      /\ \A k \in 1 .. Len(q) - 1 : Tail(q)[k] = q[k + 1]
      /\ Head(q) = q[1]
  OBVIOUS
<1>2. \A k \in Carrying(Tail(q), i) : k \in Int /\ k + 1 \in Carrying(q, i) /\ k + 1 # 1
  BY <1>1 DEF Carrying
<1>3. AtMostOne(Carrying(Tail(q), i))
  BY <1>2 DEF AtMostOne
<1>4. ASSUME Carried(Head(q)).item = i
      PROVE  Carrying(q, i) # {} /\ Carrying(Tail(q), i) = {}
  <2>1. 1 \in Carrying(q, i)
    BY <1>1, <1>4 DEF Carrying
  <2>. QED BY <1>2, <2>1 DEF AtMostOne
<1>. QED BY <1>2, <1>3, <1>4 DEF KeptOnce

LEMMA QuietNone == Quiet(<<>>)
<1>. DEFINE S == {}
<1>1. <<>> \in Seq(S) /\ \A p \in S : p.type \notin {"send", "sent", "attached"}
  OBVIOUS
<1>. HIDE DEF S
<1>. QED BY <1>1 DEF Quiet

LEMMA QuietOne ==
  ASSUME NEW p, p.type \notin {"send", "sent", "attached"}
  PROVE  Quiet(<<p>>)
<1>. DEFINE S == {p}
            s == <<p>>
<1>1. s \in Seq(S) /\ \A q \in S : q.type \notin {"send", "sent", "attached"}
  OBVIOUS
<1>. HIDE DEF S, s
<1>2. Quiet(s)
  BY <1>1 DEF Quiet
<1>. QED BY <1>2 DEF s

LEMMA QuietBoth ==
  ASSUME NEW s, Quiet(s), NEW t, Quiet(t)
  PROVE  Quiet(s \o t)
<1>1. PICK S : s \in Seq(S) /\ \A p \in S : p.type \notin {"send", "sent", "attached"}
  BY DEF Quiet
<1>2. PICK T : t \in Seq(T) /\ \A p \in T : p.type \notin {"send", "sent", "attached"}
  BY DEF Quiet
<1>3. s \o t \in Seq(S \union T)
  BY <1>1, <1>2
<1>. QED BY <1>1, <1>2, <1>3 DEF Quiet

LEMMA QuietRefresh == \A c : Quiet(Refresh(c))
<1>. SUFFICES ASSUME NEW c PROVE Quiet(Refresh(c))
  OBVIOUS
<1>. DEFINE p == [type |-> "inbox", char |-> c]
<1>1. p.type \notin {"send", "sent", "attached"}
  OBVIOUS
<1>2. Refresh(c) = <<p>> \/ Refresh(c) = <<>>
  BY DEF Refresh
<1>. HIDE DEF p
<1>. QED BY <1>1, <1>2, QuietNone, QuietOne

LEMMA QuietOpening == \A c, m : Quiet(Opening(c, m))
<1>. SUFFICES ASSUME NEW c, NEW m PROVE Quiet(Opening(c, m))
  OBVIOUS
<1>. DEFINE p == [type |-> "read", id |-> m.id]
            s == <<p>>
<1>1. p.type \notin {"send", "sent", "attached"}
  OBVIOUS
<1>2. Opening(c, m) = s \o Refresh(c) \/ Opening(c, m) = <<>>
  BY DEF Opening
<1>3. Quiet(s)
  <2>. HIDE DEF p
  <2>. QED BY <1>1, QuietOne
<1>. HIDE DEF s
<1>4. Quiet(s \o Refresh(c))
  BY <1>3, QuietRefresh, QuietBoth
<1>. QED BY <1>2, <1>4, QuietNone

LEMMA AskedIdle ==
  ASSUME MailSent, NEW s, Quiet(s), Ask(s) \/ UNCHANGED mailToChar
  PROVE  MailSent' /\ \A i \in Thing : Carrying(mailToChar', i) = Carrying(mailToChar, i)
<1>1. PICK S : mailToChar \in Seq(S) /\ \A p \in S : p.type = "send" => IsMail(p.msg)
  BY DEF MailSent
<1>2. PICK T : s \in Seq(T) /\ \A p \in T : p.type \notin {"send", "sent", "attached"}
  BY DEF Quiet
<1>3. mailToChar \o s \in Seq(S \union T)
  BY <1>1, <1>2
<1>4. \A p \in S \union T : p.type = "send" => IsMail(p.msg)
  BY <1>1, <1>2
<1>5. mailToChar' = mailToChar \/ mailToChar' = mailToChar \o s
  BY DEF Ask
<1>6. CASE mailToChar' = mailToChar
  BY <1>6 DEF MailSent
<1>7. CASE mailToChar' = mailToChar \o s
  <2>1. mailToChar' \in Seq(S \union T)
    BY <1>3, <1>7
  <2>2. MailSent'
    BY <1>4, <2>1 DEF MailSent
  <2>3. \A i \in Thing : Carrying(mailToChar \o s, i) = Carrying(mailToChar, i)
    BY <1>1, CarriedSame
  <2>. QED BY <1>7, <2>2, <2>3
<1>. QED BY <1>5, <1>6, <1>7

LEMMA RepliedIdle ==
  ASSUME NEW S, mailToMap \in Seq(S), NEW s, Quiet(s), Reply(s)
  PROVE  /\ \E T : mailToMap' \in Seq(T)
         /\ \A i \in Thing : Carrying(mailToMap', i) = Carrying(mailToMap, i)
<1>1. PICK T : s \in Seq(T)
  BY DEF Quiet
<1>2. mailToMap' = mailToMap \o s
  BY DEF Reply
<1>3. mailToMap' \in Seq(S \union T)
  BY <1>1, <1>2
<1>4. \A i \in Thing : Carrying(mailToMap \o s, i) = Carrying(mailToMap, i)
  BY CarriedSame
<1>. QED BY <1>2, <1>3, <1>4

LEMMA AskTaken ==
  ASSUME MailSent, ThingsKept, mailToChar # <<>>, mailToChar' = Tail(mailToChar)
  PROVE  /\ MailSent'
         /\ Head(mailToChar).type = "send" => IsMail(Head(mailToChar).msg)
         /\ \A i \in Thing :
              /\ KeptOnce(Carrying(mailToChar', i), Carrying(mailToChar, i))
              /\ Carried(Head(mailToChar)).item = i
                   => Carrying(mailToChar, i) # {} /\ Carrying(mailToChar', i) = {}
<1>1. PICK S : mailToChar \in Seq(S) /\ \A p \in S : p.type = "send" => IsMail(p.msg)
  BY DEF MailSent
<1>2. Head(mailToChar) \in S /\ mailToChar' \in Seq(S)
  BY <1>1
<1>3. MailSent'
  BY <1>1, <1>2 DEF MailSent
<1>4. \A i \in Thing : AtMostOne(Carrying(mailToChar, i))
  BY DEF ThingsKept, ThingInOnePlace, Exclusive
<1>5. \A i \in Thing : /\ KeptOnce(Carrying(Tail(mailToChar), i), Carrying(mailToChar, i))
                       /\ Carried(Head(mailToChar)).item = i
                            => Carrying(mailToChar, i) # {} /\ Carrying(Tail(mailToChar), i) = {}
  BY <1>1, <1>4, CarriedTail
<1>. QED BY <1>1, <1>2, <1>3, <1>4, <1>5

LEMMA ReplyTaken ==
  ASSUME MailOK, ThingsKept, mailToMap # <<>>, mailToMap' = Tail(mailToMap)
  PROVE  /\ \E S : mailToMap' \in Seq(S)
         /\ \A i \in Thing :
              /\ KeptOnce(Carrying(mailToMap', i), Carrying(mailToMap, i))
              /\ Carried(Head(mailToMap)).item = i
                   => Carrying(mailToMap, i) # {} /\ Carrying(mailToMap', i) = {}
<1>1. PICK S : mailToMap \in Seq(S)
  BY DEF MailOK
<1>2. mailToMap' \in Seq(S)
  BY <1>1
<1>3. \A i \in Thing : AtMostOne(Carrying(mailToMap, i))
  BY DEF ThingsKept, ThingInOnePlace, Exclusive
<1>5. \A i \in Thing : /\ KeptOnce(Carrying(Tail(mailToMap), i), Carrying(mailToMap, i))
                       /\ Carried(Head(mailToMap)).item = i
                            => Carrying(mailToMap, i) # {} /\ Carrying(Tail(mailToMap), i) = {}
  BY <1>1, <1>3, CarriedTail
<1>. QED BY <1>1, <1>2, <1>3, <1>5

-----------------------------------------------------------------------------
(* Steps that move nothing *)

MailPlacesKept ==
  \A i \in Thing : /\ KeptOnce(Packs(i)', Packs(i)) /\ KeptOnce(RowsWith(i)', RowsWith(i))
                   /\ KeptOnce(Carrying(mailToChar', i), Carrying(mailToChar, i))
                   /\ KeptOnce(Carrying(mailToMap', i), Carrying(mailToMap, i))

LEMMA ThingsStay ==
  ASSUME ThingsKept, MailPlacesKept
  PROVE  ThingsKept'
<1>. SUFFICES ASSUME NEW i \in Thing
              PROVE  Exclusive(Packs(i)', RowsWith(i)', Carrying(mailToChar', i),
                               Carrying(mailToMap', i), {})
  BY DEF ThingsKept, ThingInOnePlace
<1>1. Exclusive(Packs(i), RowsWith(i), Carrying(mailToChar, i), Carrying(mailToMap, i), {})
  BY DEF ThingsKept, ThingInOnePlace
<1>2. /\ KeptOnce(Packs(i)', Packs(i)) /\ KeptOnce(RowsWith(i)', RowsWith(i))
      /\ KeptOnce(Carrying(mailToChar', i), Carrying(mailToChar, i))
      /\ KeptOnce(Carrying(mailToMap', i), Carrying(mailToMap, i))
  BY DEF MailPlacesKept
<1>. QED BY <1>1, <1>2 DEF Exclusive, KeptOnce

LEMMA EachAtMostOne ==
  ASSUME ThingsKept
  PROVE  \A i \in Thing : /\ AtMostOne(Packs(i)) /\ AtMostOne(RowsWith(i))
                          /\ AtMostOne(Carrying(mailToChar, i))
                          /\ AtMostOne(Carrying(mailToMap, i))
  BY DEF ThingsKept, ThingInOnePlace, Exclusive

LEMMA BagsStay == ThingsKept /\ UNCHANGED bag => \A i \in Thing : KeptOnce(Packs(i)', Packs(i))
  BY EachAtMostOne DEF Packs, KeptOnce

LEMMA RowsStay == ThingsKept /\ UNCHANGED mails => \A i \in Thing : KeptOnce(RowsWith(i)', RowsWith(i))
  BY EachAtMostOne DEF RowsWith, KeptOnce

LEMMA QuietSteps ==
  ASSUME MailInv, UNCHANGED <<bag, mails, last_id, mailToMap>>, playing' \subseteq Char,
         UNCHANGED mailToChar \/ \E s : Quiet(s) /\ Ask(s)
  PROVE  MailInv'
<1>0. MailOK /\ ThingsKept /\ MailSent
  BY DEF MailInv, MailOK
<1>1. PICK s : Quiet(s) /\ (Ask(s) \/ UNCHANGED mailToChar)
  BY QuietNone
<1>2. MailSent' /\ \A i \in Thing : Carrying(mailToChar', i) = Carrying(mailToChar, i)
  BY <1>0, <1>1, AskedIdle
<1>3. MailPlacesKept
  BY <1>0, <1>2, BagsStay, RowsStay, EachAtMostOne DEF MailPlacesKept, KeptOnce
<1>4. ThingsKept'
  BY <1>0, <1>3, ThingsStay
<1>. QED BY <1>0, <1>2, <1>4 DEF MailInv, MailOK

-----------------------------------------------------------------------------
(* Steps of players that move something *)

LEMMA HandInv ==
  ASSUME MailInv, NEW c \in Char, NEW d \in Char, Hand(c, d)
  PROVE  MailInv'
<1>0. MailOK /\ ThingsKept
  BY DEF MailInv
<1>1. c # d /\ UNCHANGED <<playing, mails, last_id, mailToChar, mailToMap>>
  BY DEF Hand
<1>2. /\ bag' = [x \in Char |-> bag'[x]]
      /\ \A i \in Thing : KeptOnce(Packs(i)', Packs(i))
  <2>1. CASE UNCHANGED bag
    BY <1>0, <2>1, BagsStay DEF MailOK
  <2>2. CASE \E i \in bag[c] : bag' = [bag EXCEPT ![c] = @ \ {i}, ![d] = @ \union {i}]
    <3>1. PICK j \in bag[c] : bag' = [bag EXCEPT ![c] = @ \ {j}, ![d] = @ \union {j}]
      BY <2>2
    <3>2. bag' = [x \in Char |-> IF x = c THEN bag[x] \ {j}
                                 ELSE IF x = d THEN bag[x] \union {j} ELSE bag[x]]
      BY <1>0, <1>1, <3>1 DEF MailOK
    <3>3. bag' = [x \in Char |-> bag'[x]]
      BY <3>2
    <3>4. \A x \in Char : \A i : i # j => (i \in bag'[x] <=> i \in bag[x])
      BY <3>2
    <3>5. \A x \in Char : j \in bag'[x] => x = d \/ (x # c /\ j \in bag[x])
      BY <3>2
    <3>6. ASSUME NEW i \in Thing PROVE KeptOnce(Packs(i)', Packs(i))
      <4>1. AtMostOne(Packs(i))
        BY <1>0, EachAtMostOne
      <4>2. CASE i = j
        <5>1. c \in Packs(i)
          BY <4>2 DEF Packs
        <5>2. \A x \in Packs(i)' : x = d
          BY <3>5, <4>1, <4>2, <5>1 DEF Packs, AtMostOne
        <5>. QED BY <5>1, <5>2 DEF KeptOnce, AtMostOne
      <4>3. CASE i # j
        <5>1. Packs(i)' = Packs(i)
          BY <3>4, <4>3 DEF Packs
        <5>. QED BY <4>1, <5>1 DEF KeptOnce
      <4>. QED BY <4>2, <4>3
    <3>. QED BY <3>3, <3>6
  <2>. QED BY <2>1, <2>2 DEF Hand
<1>3. MailPlacesKept
  BY <1>0, <1>1, <1>2, RowsStay, EachAtMostOne DEF MailPlacesKept, KeptOnce
<1>4. ThingsKept'
  BY <1>0, <1>3, ThingsStay
<1>. QED BY <1>0, <1>1, <1>2, <1>4 DEF MailInv, MailOK, MailSent

\* What is attached has left the pack when the request is sent; of a mail
\* without title it is lost.
LEMMA SendInv ==
  ASSUME MailInv, NEW c \in Char, NEW to, NEW titled \in BOOLEAN, mail_send(c, to, titled)
  PROVE  MailInv'
<1>0. MailOK /\ ThingsKept /\ MailSent
  BY DEF MailInv, MailOK
<1>1. UNCHANGED <<playing, mails, last_id, mailToMap>> /\ mailLink
  BY DEF mail_send
<1>2. PICK j, z : j = attach[c].item /\ z = attach[c].zeny
  OBVIOUS
<1>. DEFINE msg == [id |-> 0, from |-> c, to |-> to, read |-> FALSE, item |-> j, zeny |-> z]
            p == [type |-> "send", msg |-> msg]
<1>3. \/ UNCHANGED <<bag, mailToChar>>
      \/ /\ mail_setattachment(c) /\ Taken(c)
         /\ mailToChar' = mailToChar \o <<p>> \/ Ask(<<>>)
  BY <1>1, <1>2 DEF mail_send, Ask
<1>4. CASE UNCHANGED <<bag, mailToChar>>
  BY <1>0, <1>1, <1>4, QuietSteps DEF MailOK
<1>5. CASE /\ mail_setattachment(c) /\ Taken(c)
           /\ mailToChar' = mailToChar \o <<p>> \/ Ask(<<>>)
  <2>1. /\ j # None => j \in bag[c]
        /\ bag' = [bag EXCEPT ![c] = @ \ {j}]
    BY <1>2, <1>5 DEF mail_setattachment, Taken
  <2>2. bag' = [x \in Char |-> IF x = c THEN bag[x] \ {j} ELSE bag[x]]
    BY <1>0, <2>1 DEF MailOK
  <2>3. bag' = [x \in Char |-> bag'[x]]
    BY <2>2
  <2>4. \A i \in Thing : Packs(i)' = IF i = j THEN Packs(i) \ {c} ELSE Packs(i)
    BY <2>2 DEF Packs
  <2>5. \A i \in Thing : AtMostOne(Packs(i)) /\ (i = j => c \in Packs(i))
    <3>1. None \notin Thing
      BY MailAssumption
    <3>. QED BY <1>0, <2>1, <3>1, EachAtMostOne DEF Packs
  <2>6. \A i \in Thing : /\ KeptOnce(Packs(i)', Packs(i))
                         /\ i = j => Packs(i) # {} /\ Packs(i)' = {}
    BY <2>4, <2>5 DEF KeptOnce, AtMostOne
  <2>7. CASE Ask(<<>>)
    <3>1. MailSent' /\ \A i \in Thing : Carrying(mailToChar', i) = Carrying(mailToChar, i)
      BY <1>0, <2>7, QuietNone, AskedIdle
    <3>2. MailPlacesKept
      BY <1>0, <1>1, <2>6, <3>1, RowsStay, EachAtMostOne DEF MailPlacesKept, KeptOnce
    <3>. QED BY <1>0, <1>1, <2>3, <3>1, <3>2, ThingsStay DEF MailInv, MailOK
  <2>8. CASE mailToChar' = mailToChar \o <<p>>
    <3>1. PICK S : mailToChar \in Seq(S) /\ \A q \in S : q.type = "send" => IsMail(q.msg)
      BY <1>0 DEF MailSent
    <3>2. IsMail(msg)
      BY DEF IsMail
    <3>3. p.type = "send" /\ p.msg = msg /\ Carried(p).item = j
      BY DEF Carried
    <3>4. MailSent'
      <4>1. mailToChar' \in Seq(S \union {p})
        BY <2>8, <3>1
      <4>2. \A q \in S \union {p} : q.type = "send" => IsMail(q.msg)
        <5>. HIDE DEF p, msg
        <5>. QED BY <3>1, <3>2, <3>3
      <4>. QED BY <4>1, <4>2 DEF MailSent
    <3>5. \A i \in Thing :
            /\ j # i => Carrying(mailToChar', i) = Carrying(mailToChar, i)
            /\ Carrying(mailToChar, i) = {} => AtMostOne(Carrying(mailToChar', i))
      <4>1. <<p>> \o <<>> = <<p>>
        OBVIOUS
      <4>. HIDE DEF p
      <4>2. \A i \in Thing :
              /\ Carried(p).item # i
                   => Carrying(mailToChar \o (<<p>> \o <<>>), i) = Carrying(mailToChar, i)
              /\ Carrying(mailToChar, i) = {}
                   => AtMostOne(Carrying(mailToChar \o (<<p>> \o <<>>), i))
        BY <3>1, CarriedMore
      <4>. QED BY <2>8, <3>3, <4>1, <4>2
    <3>6. ASSUME NEW i \in Thing
          PROVE  Exclusive(Packs(i)', RowsWith(i)', Carrying(mailToChar', i),
                           Carrying(mailToMap', i), {})
      <4>1. Exclusive(Packs(i), RowsWith(i), Carrying(mailToChar, i), Carrying(mailToMap, i), {})
        BY <1>0 DEF ThingsKept, ThingInOnePlace
      <4>2. RowsWith(i)' = RowsWith(i) /\ mailToMap' = mailToMap
        BY <1>1 DEF RowsWith
      <4>3. CASE i = j
        <5>1. /\ Packs(i)' = {} /\ RowsWith(i) = {} /\ Carrying(mailToMap, i) = {}
              /\ Carrying(mailToChar, i) = {}
          BY <2>6, <4>1, <4>3 DEF Exclusive
        <5>2. AtMostOne(Carrying(mailToChar', i))
          BY <3>5, <5>1
        <5>. QED BY <4>2, <5>1, <5>2 DEF Exclusive, AtMostOne
      <4>4. CASE i # j
        <5>1. Packs(i)' = Packs(i) /\ Carrying(mailToChar', i) = Carrying(mailToChar, i)
          BY <2>4, <3>5, <4>4
        <5>. QED BY <4>1, <4>2, <5>1
      <4>. QED BY <4>3, <4>4
    <3>7. ThingsKept'
      BY <3>6 DEF ThingsKept, ThingInOnePlace
    <3>. QED BY <1>0, <1>1, <2>3, <3>4, <3>7 DEF MailInv, MailOK
  <2>. QED BY <1>5, <2>7, <2>8
<1>. QED BY <1>3, <1>4, <1>5

LEMMA MailPlayerInv == MailInv /\ MailPlayer => MailInv'
<1>. SUFFICES ASSUME MailInv, MailPlayer PROVE MailInv'
  OBVIOUS
<1>1. PICK c \in Char :
        \/ \E i \in Thing : SetItem(c, i)
        \/ \E z \in 0 .. Wealth : SetZeny(c, z)
        \/ \E d \in Char : Hand(c, d) \/ mail_send(c, d, TRUE) \/ mail_send(c, d, FALSE)
        \/ RefreshInbox(c) \/ MailQuit(c) \/ MailLogin(c)
        \/ \E m \in inbox[c] : ReadMail(c, m) \/ GetAttach(c, m) \/ DeleteMail(c, m)
                                 \/ ReturnMail(c, m)
  BY DEF MailPlayer
<1>2. playing \subseteq Char
  BY DEF MailInv, MailOK
<1>3. CASE \E d \in Char : Hand(c, d) \/ mail_send(c, d, TRUE) \/ mail_send(c, d, FALSE)
  BY <1>3, HandInv, SendInv
<1>4. CASE (\E i \in Thing : SetItem(c, i)) \/ (\E z \in 0 .. Wealth : SetZeny(c, z)) \/ MailQuit(c)
  BY <1>2, <1>4, QuietSteps DEF SetItem, SetZeny, MailQuit
<1>5. ASSUME NEW s, Quiet(s), Ask(s), UNCHANGED <<bag, mails, last_id, mailToMap>>,
             playing' \subseteq Char
      PROVE  MailInv'
  BY <1>5, QuietSteps
<1>6. CASE RefreshInbox(c)
  <2>1. PICK s : s = Refresh(c) /\ Ask(s)
    BY <1>6 DEF RefreshInbox
  <2>. QED BY <1>2, <1>5, <1>6, <2>1, QuietRefresh DEF RefreshInbox
<1>7. CASE MailLogin(c)
  <2>. DEFINE p == [type |-> "inbox", char |-> c]
  <2>1. p.type \notin {"send", "sent", "attached"}
    OBVIOUS
  <2>2. Ask(<<p>>) /\ UNCHANGED <<bag, mails, last_id, mailToMap>> /\ playing' \subseteq Char
    BY <1>2, <1>7 DEF MailLogin
  <2>. HIDE DEF p
  <2>. QED BY <1>5, <2>1, <2>2, QuietOne
<1>8. ASSUME NEW m \in inbox[c], ReadMail(c, m) PROVE MailInv'
  <2>1. PICK s : s = Opening(c, m) /\ Ask(s)
    BY <1>8 DEF ReadMail
  <2>. QED BY <1>2, <1>5, <1>8, <2>1, QuietOpening DEF ReadMail
<1>9. ASSUME NEW m \in inbox[c], GetAttach(c, m) PROVE MailInv'
  <2>. DEFINE p == [type |-> "getattach", char |-> c, id |-> m.id]
  <2>1. p.type \notin {"send", "sent", "attached"}
    OBVIOUS
  <2>2. Ask(Opening(c, m) \o <<p>>) /\ UNCHANGED <<bag, mails, last_id, mailToMap, playing>>
    BY <1>9 DEF GetAttach
  <2>. HIDE DEF p
  <2>3. PICK s : s = Opening(c, m) \o <<p>> /\ Ask(s)
    BY <2>2
  <2>4. Quiet(Opening(c, m)) /\ Quiet(<<p>>)
    BY <2>1, QuietOpening, QuietOne
  <2>5. Quiet(Opening(c, m) \o <<p>>)
    BY <2>4, QuietBoth
  <2>. QED BY <1>2, <1>5, <2>2, <2>3, <2>5
<1>10. ASSUME NEW m \in inbox[c], DeleteMail(c, m) \/ ReturnMail(c, m) PROVE MailInv'
  <2>1. PICK t \in {"delete", "return"} : Ask(<<[type |-> t, char |-> c, id |-> m.id]>>)
    BY <1>10 DEF DeleteMail, ReturnMail
  <2>. DEFINE p == [type |-> t, char |-> c, id |-> m.id]
  <2>2. p.type \notin {"send", "sent", "attached"} /\ Ask(<<p>>)
    BY <2>1
  <2>3. UNCHANGED <<bag, mails, last_id, mailToMap, playing>>
    BY <1>10 DEF DeleteMail, ReturnMail, mailMemory
  <2>. HIDE DEF p
  <2>. QED BY <1>2, <1>5, <2>2, <2>3, QuietOne
<1>. QED BY <1>1, <1>3, <1>4, <1>6, <1>7, <1>8, <1>9, <1>10

-----------------------------------------------------------------------------
(* The handlers of the char-server *)

LEMMA RowsStillMails ==
  ASSUME NEW m, IsMail(m)
  PROVE  /\ \A r : LET n == [m EXCEPT !.read = r] IN IsMail(n) /\ n.item = m.item
         /\ \A x : LET n == [m EXCEPT !.id = x] IN IsMail(n) /\ n.item = m.item /\ n.id = x
<1>1. PICK a, b, c, d, f, g : m = [id |-> a, from |-> b, to |-> c, item |-> d, zeny |-> f, read |-> g]
  BY DEF IsMail
<1>2. ASSUME NEW r
      PROVE  LET n == [m EXCEPT !.read = r] IN IsMail(n) /\ n.item = m.item
  <2>. DEFINE n == [m EXCEPT !.read = r]
  <2>1. n = [id |-> a, from |-> b, to |-> c, item |-> d, zeny |-> f, read |-> r]
    BY <1>1
  <2>. HIDE DEF n
  <2>2. IsMail(n) /\ n.item = m.item
    BY <1>1, <2>1 DEF IsMail
  <2>. QED BY <2>2 DEF n
<1>3. ASSUME NEW x
      PROVE  LET n == [m EXCEPT !.id = x] IN IsMail(n) /\ n.item = m.item /\ n.id = x
  <2>. DEFINE n == [m EXCEPT !.id = x]
  <2>1. n = [id |-> x, from |-> b, to |-> c, item |-> d, zeny |-> f, read |-> g]
    BY <1>1
  <2>. HIDE DEF n
  <2>2. IsMail(n) /\ n.item = m.item /\ n.id = x
    BY <1>1, <2>1 DEF IsMail
  <2>. QED BY <2>2 DEF n
<1>. QED BY <1>2, <1>3

LEMMA DetachedRow ==
  ASSUME NEW m, IsMail(m)
  PROVE  LET n == [m EXCEPT !.item = None, !.zeny = 0] IN IsMail(n) /\ n.item = None
<1>1. PICK a, b, c, d, f, g : m = [id |-> a, from |-> b, to |-> c, item |-> d, zeny |-> f, read |-> g]
  BY DEF IsMail
<1>. DEFINE k == [m EXCEPT !.item = None]
            n == [m EXCEPT !.item = None, !.zeny = 0]
<1>2. k = [id |-> a, from |-> b, to |-> c, item |-> None, zeny |-> f, read |-> g]
  BY <1>1
<1>3. n = [k EXCEPT !.zeny = 0]
  OBVIOUS
<1>. HIDE DEF k, n
<1>4. n = [id |-> a, from |-> b, to |-> c, item |-> None, zeny |-> 0, read |-> g]
  BY <1>2, <1>3
<1>5. IsMail(n) /\ n.item = None
  BY <1>4 DEF IsMail
<1>. QED BY <1>5 DEF n

LEMMA ReturnedRow ==
  ASSUME NEW m, IsMail(m), NEW x
  PROVE  LET n == [m EXCEPT !.id = x, !.from = m.to, !.to = m.from, !.read = FALSE]
         IN  IsMail(n) /\ n.item = m.item
<1>1. PICK a, b, c, d, f, g : m = [id |-> a, from |-> b, to |-> c, item |-> d, zeny |-> f, read |-> g]
  BY DEF IsMail
<1>2. m.to = c /\ m.from = b /\ m.item = d
  BY <1>1
<1>. DEFINE k1 == [m EXCEPT !.id = x]
            k2 == [k1 EXCEPT !.from = c]
            k3 == [k2 EXCEPT !.to = b]
            n == [m EXCEPT !.id = x, !.from = m.to, !.to = m.from, !.read = FALSE]
<1>3. n = [k3 EXCEPT !.read = FALSE]
  BY <1>2
<1>4. k1 = [id |-> x, from |-> b, to |-> c, item |-> d, zeny |-> f, read |-> g]
  BY <1>1
<1>. HIDE DEF k1, n
<1>5. k2 = [id |-> x, from |-> c, to |-> c, item |-> d, zeny |-> f, read |-> g]
  BY <1>4
<1>. HIDE DEF k2
<1>6. k3 = [id |-> x, from |-> c, to |-> b, item |-> d, zeny |-> f, read |-> g]
  BY <1>5
<1>. HIDE DEF k3
<1>7. n = [id |-> x, from |-> c, to |-> b, item |-> d, zeny |-> f, read |-> FALSE]
  BY <1>3, <1>6
<1>8. IsMail(n) /\ n.item = m.item
  BY <1>2, <1>7 DEF IsMail
<1>. QED BY <1>8 DEF n

\* A handler that moves nothing between a packet and the table.
LEMMA HandlerInv ==
  ASSUME MailInv, mailToChar # <<>>, mailToChar' = Tail(mailToChar), UNCHANGED <<playing, bag>>,
         last_id' \in Nat, \A m \in mails' : IsMail(m),
         \A i \in Thing : KeptOnce(RowsWith(i)', RowsWith(i)),
         UNCHANGED mailToMap \/ \E s : Quiet(s) /\ Reply(s)
  PROVE  MailInv'
<1>0. MailOK /\ ThingsKept /\ MailSent
  BY DEF MailInv, MailOK
<1>1. MailSent' /\ \A i \in Thing : KeptOnce(Carrying(mailToChar', i), Carrying(mailToChar, i))
  BY <1>0, AskTaken
<1>2. PICK S : mailToMap \in Seq(S)
  BY <1>0 DEF MailOK
<1>3. /\ \E T : mailToMap' \in Seq(T)
      /\ \A i \in Thing : Carrying(mailToMap', i) = Carrying(mailToMap, i)
  <2>1. CASE UNCHANGED mailToMap
    BY <1>2, <2>1
  <2>2. CASE \E s : Quiet(s) /\ Reply(s)
    BY <1>2, <2>2, RepliedIdle
  <2>. QED BY <2>1, <2>2
<1>4. MailPlacesKept
  BY <1>0, <1>1, <1>3, BagsStay, EachAtMostOne DEF MailPlacesKept, KeptOnce
<1>5. ThingsKept'
  BY <1>0, <1>4, ThingsStay
<1>. QED BY <1>0, <1>1, <1>3, <1>5 DEF MailInv, MailOK

LEMMA SomeoneTold == \A c : Quiet(NewMail(c))
<1>. SUFFICES ASSUME NEW c PROVE Quiet(NewMail(c))
  OBVIOUS
<1>. DEFINE p == [type |-> "new", char |-> c]
<1>1. p.type \notin {"send", "sent", "attached"} /\ NewMail(c) = <<p>>
  BY DEF NewMail
<1>. HIDE DEF p
<1>. QED BY <1>1, QuietOne

LEMMA RemovalTold == \A c, id, fail : Quiet(Removed(c, id, fail))
<1>. SUFFICES ASSUME NEW c, NEW id, NEW fail PROVE Quiet(Removed(c, id, fail))
  OBVIOUS
<1>. DEFINE p == [type |-> "removed", char |-> c, id |-> id, fail |-> fail]
<1>1. p.type \notin {"send", "sent", "attached"} /\ Removed(c, id, fail) = <<p>>
  BY DEF Removed
<1>. HIDE DEF p
<1>. QED BY <1>1, QuietOne

\* The attachment goes from the row to the answer.
LEMMA AttachmentGiven ==
  ASSUME MailInv, mailToChar # <<>>, mailToChar' = Tail(mailToChar),
         UNCHANGED <<playing, bag, last_id>>, NEW m \in mails, mails' = Detached(m),
         NEW p, p.type = "attached", p.item = m.item, Reply(<<p>>)
  PROVE  MailInv'
<1>0. MailOK /\ ThingsKept /\ MailSent
  BY DEF MailInv, MailOK
<1>1. MailSent' /\ \A i \in Thing : KeptOnce(Carrying(mailToChar', i), Carrying(mailToChar, i))
  BY <1>0, AskTaken
<1>2. PICK S : mailToMap \in Seq(S)
  BY <1>0 DEF MailOK
<1>3. PICK n : IsMail(n) /\ n.item = None /\ mails' = (mails \ {m}) \union {n}
  <2>1. IsMail(m)
    BY <1>0 DEF MailOK
  <2>. QED BY <2>1, DetachedRow DEF Detached
<1>4. \A i \in Thing : RowsWith(i)' = RowsWith(i) \ {m}
  <2>1. None \notin Thing
    BY MailAssumption
  <2>. QED BY <1>3, <2>1 DEF RowsWith
<1>5. Carried(p).item = m.item
  BY DEF Carried
<1>6. mailToMap' = mailToMap \o <<p>> /\ \E T : mailToMap' \in Seq(T)
  <2>1. mailToMap \in Seq(S \union {p}) /\ <<p>> \in Seq(S \union {p})
    BY <1>2
  <2>. QED BY <2>1 DEF Reply
<1>7. \A i \in Thing :
        /\ m.item # i => Carrying(mailToMap', i) = Carrying(mailToMap, i)
        /\ Carrying(mailToMap, i) = {} => AtMostOne(Carrying(mailToMap', i))
  <2>1. <<p>> \o <<>> = <<p>>
    OBVIOUS
  <2>2. \A i \in Thing :
          /\ Carried(p).item # i
               => Carrying(mailToMap \o (<<p>> \o <<>>), i) = Carrying(mailToMap, i)
          /\ Carrying(mailToMap, i) = {} => AtMostOne(Carrying(mailToMap \o (<<p>> \o <<>>), i))
    BY <1>2, CarriedMore
  <2>. QED BY <1>5, <1>6, <2>1, <2>2
<1>8. ASSUME NEW i \in Thing
      PROVE  Exclusive(Packs(i)', RowsWith(i)', Carrying(mailToChar', i),
                       Carrying(mailToMap', i), {})
  <2>1. Exclusive(Packs(i), RowsWith(i), Carrying(mailToChar, i), Carrying(mailToMap, i), {})
    BY <1>0 DEF ThingsKept, ThingInOnePlace
  <2>2. Packs(i)' = Packs(i) /\ KeptOnce(Carrying(mailToChar', i), Carrying(mailToChar, i))
    BY <1>1 DEF Packs
  <2>3. CASE i = m.item
    <3>1. m \in RowsWith(i)
      BY <2>3 DEF RowsWith
    <3>2. /\ RowsWith(i)' = {} /\ Packs(i) = {} /\ Carrying(mailToChar, i) = {}
          /\ Carrying(mailToMap, i) = {}
      BY <1>4, <2>1, <3>1 DEF Exclusive, AtMostOne
    <3>3. AtMostOne(Carrying(mailToMap', i))
      BY <1>7, <3>2
    <3>. QED BY <2>2, <3>2, <3>3 DEF Exclusive, AtMostOne, KeptOnce
  <2>4. CASE i # m.item
    <3>1. RowsWith(i)' = RowsWith(i)
      BY <1>4, <2>4 DEF RowsWith
    <3>2. Carrying(mailToMap', i) = Carrying(mailToMap, i)
      BY <1>7, <2>4
    <3>. QED BY <2>1, <2>2, <3>1, <3>2 DEF Exclusive, KeptOnce
  <2>. QED BY <2>3, <2>4
<1>9. ThingsKept'
  BY <1>8 DEF ThingsKept, ThingInOnePlace
<1>. QED BY <1>0, <1>1, <1>3, <1>6, <1>9 DEF MailInv, MailOK

\* The attachment goes from the request to a row, or back to the sender.
LEMMA MailStored ==
  ASSUME MailInv, mailToChar # <<>>, mailToChar' = Tail(mailToChar), UNCHANGED <<playing, bag>>,
         Head(mailToChar).type = "send", mapif_parse_Mail_send(Head(mailToChar).msg)
  PROVE  MailInv'
<1>0. MailOK /\ ThingsKept /\ MailSent
  BY DEF MailInv, MailOK
<1>1. PICK msg : msg = Head(mailToChar).msg
  OBVIOUS
<1>2. /\ MailSent' /\ IsMail(msg)
      /\ \A i \in Thing : /\ KeptOnce(Carrying(mailToChar', i), Carrying(mailToChar, i))
                          /\ msg.item = i
                               => Carrying(mailToChar, i) # {} /\ Carrying(mailToChar', i) = {}
  <2>1. Carried(Head(mailToChar)).item = msg.item
    BY <1>1 DEF Carried
  <2>2. /\ MailSent' /\ IsMail(Head(mailToChar).msg)
        /\ \A i \in Thing :
             /\ KeptOnce(Carrying(mailToChar', i), Carrying(mailToChar, i))
             /\ Carried(Head(mailToChar)).item = i
                  => Carrying(mailToChar, i) # {} /\ Carrying(mailToChar', i) = {}
    BY <1>0, AskTaken
  <2>. QED BY <1>1, <2>1, <2>2
<1>3. PICK S : mailToMap \in Seq(S)
  BY <1>0 DEF MailOK
<1>4. PICK n : IsMail(n) /\ n.item = msg.item /\ n.id = last_id + 1 /\ n = [msg EXCEPT !.id = last_id + 1]
  BY <1>2, RowsStillMails
<1>5. \A i \in Thing : Packs(i)' = Packs(i)
  BY DEF Packs
<1>6. last_id \in Nat
  BY <1>0 DEF MailOK
<1>7. CASE /\ mails' = mails \union {n} /\ last_id' = last_id + 1
           /\ Reply(<<[type |-> "sent", msg |-> n]>> \o NewMail(msg.to))
  <2>. DEFINE p == [type |-> "sent", msg |-> n]
              s == NewMail(msg.to)
  <2>0. n.id # 0 /\ IsMail(n)
    BY <1>4, <1>6
  <2>1. Carried(p).item = None
    BY <2>0 DEF Carried, Nothing
  <2>2. mailToMap' = mailToMap \o (<<p>> \o s)
    BY <1>7 DEF Reply
  <2>. HIDE DEF p, s
  <2>3. Quiet(s)
    BY SomeoneTold DEF s
  <2>4. \E T : mailToMap' \in Seq(T)
    <3>1. PICK T : s \in Seq(T)
      BY <2>3 DEF Quiet
    <3>2. mailToMap' \in Seq(S \union T \union {p})
      BY <1>3, <2>2, <3>1
    <3>. QED BY <3>2
  <2>5. \A i \in Thing : Carrying(mailToMap', i) = Carrying(mailToMap, i)
    <3>1. \A i \in Thing : Carried(p).item # i
      BY <2>1, MailAssumption
    <3>2. \A i \in Thing : Carrying(mailToMap \o (<<p>> \o s), i) = Carrying(mailToMap, i)
      BY <1>3, <2>3, <3>1, CarriedMore
    <3>. QED BY <2>2, <3>2
  <2>6. \A i \in Thing : RowsWith(i)' = RowsWith(i) \union {x \in {n} : x.item = i}
    BY <1>7 DEF RowsWith
  <2>7. ASSUME NEW i \in Thing
        PROVE  Exclusive(Packs(i)', RowsWith(i)', Carrying(mailToChar', i),
                         Carrying(mailToMap', i), {})
    <3>1. Exclusive(Packs(i), RowsWith(i), Carrying(mailToChar, i), Carrying(mailToMap, i), {})
      BY <1>0 DEF ThingsKept, ThingInOnePlace
    <3>2. CASE i = msg.item
      <4>1. /\ Packs(i) = {} /\ RowsWith(i) = {} /\ Carrying(mailToMap, i) = {}
            /\ Carrying(mailToChar', i) = {}
        BY <1>2, <3>1, <3>2 DEF Exclusive
      <4>2. RowsWith(i)' = {n}
        BY <1>4, <2>6, <3>2, <4>1
      <4>. QED BY <1>5, <2>5, <4>1, <4>2 DEF Exclusive, AtMostOne
    <3>3. CASE i # msg.item
      <4>1. RowsWith(i)' = RowsWith(i)
        BY <1>4, <2>6, <3>3
      <4>. QED BY <1>2, <1>5, <2>5, <3>1, <4>1 DEF Exclusive, KeptOnce
    <3>. QED BY <3>2, <3>3
  <2>8. ThingsKept'
    BY <2>7 DEF ThingsKept, ThingInOnePlace
  <2>9. \A m \in mails' : IsMail(m)
    BY <1>0, <1>7, <2>0 DEF MailOK
  <2>10. last_id' \in Nat
    BY <1>6, <1>7
  <2>. QED BY <1>0, <1>2, <2>4, <2>8, <2>9, <2>10 DEF MailInv, MailOK
<1>8. CASE UNCHANGED <<mails, last_id>> /\ Reply(<<[type |-> "sent", msg |-> msg]>>)
  <2>. DEFINE p == [type |-> "sent", msg |-> msg]
  <2>1. Carried(p).item \in {msg.item, None}
    BY DEF Carried, Nothing
  <2>. HIDE DEF p
  <2>2. mailToMap' = mailToMap \o <<p>> /\ \E T : mailToMap' \in Seq(T)
    <3>1. mailToMap \in Seq(S \union {p}) /\ <<p>> \in Seq(S \union {p})
      BY <1>3
    <3>. QED BY <1>8, <3>1 DEF Reply, p
  <2>3. \A i \in Thing :
          /\ msg.item # i => Carrying(mailToMap', i) = Carrying(mailToMap, i)
          /\ Carrying(mailToMap, i) = {} => AtMostOne(Carrying(mailToMap', i))
    <3>1. <<p>> \o <<>> = <<p>>
      OBVIOUS
    <3>2. \A i \in Thing :
            /\ Carried(p).item # i
                 => Carrying(mailToMap \o (<<p>> \o <<>>), i) = Carrying(mailToMap, i)
            /\ Carrying(mailToMap, i) = {}
                 => AtMostOne(Carrying(mailToMap \o (<<p>> \o <<>>), i))
      BY <1>3, CarriedMore
    <3>3. \A i \in Thing : msg.item # i => Carried(p).item # i
      BY <2>1, MailAssumption
    <3>. QED BY <2>2, <3>1, <3>2, <3>3
  <2>4. ASSUME NEW i \in Thing
        PROVE  Exclusive(Packs(i)', RowsWith(i)', Carrying(mailToChar', i),
                         Carrying(mailToMap', i), {})
    <3>1. Exclusive(Packs(i), RowsWith(i), Carrying(mailToChar, i), Carrying(mailToMap, i), {})
      BY <1>0 DEF ThingsKept, ThingInOnePlace
    <3>2. RowsWith(i)' = RowsWith(i)
      BY <1>8 DEF RowsWith
    <3>3. CASE i = msg.item
      <4>1. /\ Packs(i) = {} /\ RowsWith(i) = {} /\ Carrying(mailToMap, i) = {}
            /\ Carrying(mailToChar', i) = {}
        BY <1>2, <3>1, <3>3 DEF Exclusive
      <4>2. AtMostOne(Carrying(mailToMap', i))
        BY <2>3, <4>1
      <4>. QED BY <1>5, <3>2, <4>1, <4>2 DEF Exclusive, AtMostOne
    <3>4. CASE i # msg.item
      BY <1>2, <1>5, <2>3, <3>1, <3>2, <3>4 DEF Exclusive, KeptOnce
    <3>. QED BY <3>3, <3>4
  <2>5. ThingsKept'
    BY <2>4 DEF ThingsKept, ThingInOnePlace
  <2>. QED BY <1>0, <1>2, <1>8, <2>2, <2>5 DEF MailInv, MailOK
<1>. QED BY <1>1, <1>4, <1>7, <1>8 DEF mapif_parse_Mail_send

LEMMA CharHandlesMail == MailInv /\ CharHandles => MailInv'
<1>. SUFFICES ASSUME MailInv, CharHandles PROVE MailInv'
  OBVIOUS
<1>. DEFINE p == Head(mailToChar)
<1>0. MailOK /\ ThingsKept /\ last_id \in Nat /\ \A m \in mails : IsMail(m)
  BY DEF MailInv, MailOK
<1>1. /\ mailToChar # <<>> /\ mailToChar' = Tail(mailToChar)
      /\ UNCHANGED <<playing, bag>>
  BY DEF CharHandles, mailMemory
<1>2. ASSUME UNCHANGED last_id, \A m \in mails' : IsMail(m),
             \A i \in Thing : KeptOnce(RowsWith(i)', RowsWith(i)),
             UNCHANGED mailToMap \/ \E s : Quiet(s) /\ Reply(s)
      PROVE  MailInv'
  BY <1>0, <1>1, <1>2, HandlerInv
<1>3. ASSUME NEW c, mapif_Mail_sendinbox(c) PROVE MailInv'
  <2>1. PICK rows, more : Reply(<<[type |-> "inboxreceived", char |-> c, rows |-> rows, full |-> more]>>)
    BY <1>3 DEF mapif_Mail_sendinbox
  <2>. DEFINE q == [type |-> "inboxreceived", char |-> c, rows |-> rows, full |-> more]
  <2>2. q.type \notin {"send", "sent", "attached"} /\ Reply(<<q>>)
    BY <2>1
  <2>. HIDE DEF q
  <2>3. UNCHANGED <<mails, last_id>>
    BY <1>3 DEF mapif_Mail_sendinbox
  <2>. QED BY <1>0, <1>2, <2>2, <2>3, QuietOne, RowsStay
<1>4. ASSUME NEW id, mapif_parse_Mail_read(id) PROVE MailInv'
  <2>1. /\ mails' = (mails \ Rows(id)) \union {[m EXCEPT !.read = TRUE] : m \in Rows(id)}
        /\ UNCHANGED <<last_id, mailToMap>>
    BY <1>4 DEF mapif_parse_Mail_read
  <2>2. ASSUME NEW n \in mails'
        PROVE  IsMail(n) /\ \E m \in mails : m.item = n.item /\ (n = m \/ n = [m EXCEPT !.read = TRUE])
    <3>1. CASE n \in mails
      BY <1>0, <3>1
    <3>2. CASE n \in {[m EXCEPT !.read = TRUE] : m \in Rows(id)}
      <4>1. PICK m \in mails : n = [m EXCEPT !.read = TRUE]
        BY <3>2 DEF Rows
      <4>. QED BY <1>0, <4>1, RowsStillMails
    <3>. QED BY <2>1, <3>1, <3>2
  <2>3. ASSUME NEW i \in Thing PROVE KeptOnce(RowsWith(i)', RowsWith(i))
    <3>1. AtMostOne(RowsWith(i))
      BY <1>0, EachAtMostOne
    <3>2. CASE RowsWith(i) = {}
      BY <2>2, <3>2 DEF RowsWith, KeptOnce, AtMostOne
    <3>3. CASE RowsWith(i) # {}
      <4>1. PICK r : RowsWith(i) = {r} /\ r \in mails
        BY <3>1, <3>3 DEF AtMostOne, RowsWith
      <4>2. \A n \in RowsWith(i)' : n \in mails' /\ n.item = i
        BY DEF RowsWith
      <4>3. \A n \in RowsWith(i)' : n = r \/ n = [r EXCEPT !.read = TRUE]
        BY <2>2, <4>1, <4>2 DEF RowsWith
      <4>4. r \in Rows(id) => RowsWith(i)' \subseteq {[r EXCEPT !.read = TRUE]}
        <5>. SUFFICES ASSUME r \in Rows(id), NEW n \in RowsWith(i)', n # [r EXCEPT !.read = TRUE]
                      PROVE  FALSE
          OBVIOUS
        <5>1. n = r /\ n \in mails'
          BY <4>2, <4>3
        <5>2. n \in {[m EXCEPT !.read = TRUE] : m \in Rows(id)}
          BY <2>1, <5>1
        <5>3. PICK m \in Rows(id) : n = [m EXCEPT !.read = TRUE]
          BY <5>2
        <5>4. m \in mails /\ m.item = n.item
          BY <1>0, <5>3, RowsStillMails DEF Rows
        <5>5. m = r
          BY <4>1, <4>2, <5>4 DEF RowsWith
        <5>. QED BY <5>3, <5>5
      <4>5. r \notin Rows(id) => RowsWith(i)' \subseteq {r}
        <5>. SUFFICES ASSUME r \notin Rows(id), NEW n \in RowsWith(i)', n # r
                      PROVE  FALSE
          OBVIOUS
        <5>1. n \in mails' /\ n.item = i
          BY <4>2
        <5>2. n \notin mails
          BY <4>1, <5>1 DEF RowsWith
        <5>3. n \in {[m EXCEPT !.read = TRUE] : m \in Rows(id)}
          BY <2>1, <5>1, <5>2
        <5>4. PICK m \in Rows(id) : n = [m EXCEPT !.read = TRUE]
          BY <5>3
        <5>5. m \in mails /\ m.item = n.item
          BY <1>0, <5>4, RowsStillMails DEF Rows
        <5>6. m = r
          BY <4>1, <5>1, <5>5 DEF RowsWith
        <5>. QED BY <5>4, <5>6
      <4>. QED BY <3>3, <4>4, <4>5 DEF KeptOnce, AtMostOne
    <3>. QED BY <3>2, <3>3
  <2>. QED BY <1>2, <2>1, <2>2, <2>3
<1>5. ASSUME NEW c, NEW id, mapif_Mail_getattach(c, id) PROVE MailInv'
  <2>1. CASE UNCHANGED <<mails, mailToMap>>
    BY <1>0, <1>2, <1>5, <2>1, RowsStay DEF mapif_Mail_getattach
  <2>2. CASE \E m \in mails :
               /\ mails' = Detached(m)
               /\ Reply(<<[type |-> "attached", char |-> c, item |-> m.item, zeny |-> m.zeny]>>)
    <3>1. PICK m \in mails :
               /\ mails' = Detached(m)
               /\ Reply(<<[type |-> "attached", char |-> c, item |-> m.item, zeny |-> m.zeny]>>)
      BY <2>2
    <3>. DEFINE q == [type |-> "attached", char |-> c, item |-> m.item, zeny |-> m.zeny]
    <3>2. q.type = "attached" /\ q.item = m.item /\ Reply(<<q>>)
      BY <3>1
    <3>. HIDE DEF q
    <3>3. UNCHANGED <<playing, bag, last_id>>
      BY <1>1, <1>5 DEF mapif_Mail_getattach
    <3>. QED BY <1>1, <3>1, <3>2, <3>3, AttachmentGiven
  <2>. QED BY <1>5, <2>1, <2>2 DEF mapif_Mail_getattach, Rows
<1>6. ASSUME NEW c, NEW id, mapif_Mail_delete(c, id) PROVE MailInv'
  <2>1. mails' \subseteq mails /\ UNCHANGED last_id
    BY <1>6 DEF mapif_Mail_delete
  <2>2. \A i \in Thing : KeptOnce(RowsWith(i)', RowsWith(i))
    BY <1>0, <2>1, EachAtMostOne DEF RowsWith, KeptOnce, AtMostOne
  <2>3. PICK s : s = Removed(c, id, FALSE) /\ Reply(s)
    BY <1>6 DEF mapif_Mail_delete, Removed
  <2>. QED BY <1>0, <1>2, <2>1, <2>2, <2>3, RemovalTold
<1>7. ASSUME NEW c, NEW id, mapif_Mail_return(c, id) PROVE MailInv'
  <2>1. CASE Reply(Removed(c, id, TRUE)) /\ UNCHANGED <<mails, last_id>>
    <3>1. PICK s : s = Removed(c, id, TRUE) /\ Reply(s)
      BY <2>1
    <3>. QED BY <1>0, <1>2, <2>1, <3>1, RemovalTold, RowsStay
  <2>2. CASE \E m \in Rows(id) :
               /\ mails' = (mails \ {m}) \union {[m EXCEPT !.id = last_id + 1, !.from = m.to,
                                                           !.to = m.from, !.read = FALSE]}
               /\ last_id' = last_id + 1
               /\ Reply(NewMail(m.from) \o Removed(c, id, FALSE))
    <3>1. PICK m \in mails :
               /\ mails' = (mails \ {m}) \union {[m EXCEPT !.id = last_id + 1, !.from = m.to,
                                                           !.to = m.from, !.read = FALSE]}
               /\ last_id' = last_id + 1
               /\ Reply(NewMail(m.from) \o Removed(c, id, FALSE))
      BY <2>2 DEF Rows
    <3>2. PICK n : IsMail(n) /\ n.item = m.item /\ mails' = (mails \ {m}) \union {n}
      BY <1>0, <3>1, ReturnedRow
    <3>3. ASSUME NEW i \in Thing PROVE KeptOnce(RowsWith(i)', RowsWith(i))
      <4>1. AtMostOne(RowsWith(i))
        BY <1>0, EachAtMostOne
      <4>2. RowsWith(i)' = (RowsWith(i) \ {m}) \union {x \in {n} : x.item = i}
        BY <3>2 DEF RowsWith
      <4>3. m \in RowsWith(i) <=> n.item = i
        BY <3>2 DEF RowsWith
      <4>. QED BY <4>1, <4>2, <4>3 DEF KeptOnce, AtMostOne
    <3>4. PICK s, t : s = NewMail(m.from) /\ t = Removed(c, id, FALSE) /\ Reply(s \o t)
      BY <3>1
    <3>5. Quiet(s \o t)
      BY <3>4, SomeoneTold, RemovalTold, QuietBoth
    <3>6. last_id' \in Nat /\ \A x \in mails' : IsMail(x)
      BY <1>0, <3>1, <3>2
    <3>. QED BY <1>1, <3>3, <3>4, <3>5, <3>6, HandlerInv
  <2>. QED BY <1>7, <2>1, <2>2 DEF mapif_Mail_return
<1>8. CASE p.type = "send" /\ mapif_parse_Mail_send(p.msg)
  BY <1>1, <1>8, MailStored
<1>. QED BY <1>3, <1>4, <1>5, <1>6, <1>7, <1>8 DEF CharHandles

-----------------------------------------------------------------------------
(* The answers *)

LEMMA ParcelReceived ==
  ASSUME MailInv, mailToMap # <<>>, mailToMap' = Tail(mailToMap),
         UNCHANGED <<playing, mails, last_id, mailToChar>>, NEW c \in playing, NEW j, NEW z,
         ReceiveParcel(c, j, z), Carried(Head(mailToMap)).item = j
  PROVE  MailInv'
<1>0. MailOK /\ ThingsKept
  BY DEF MailInv
<1>1. /\ \E T : mailToMap' \in Seq(T)
      /\ \A i \in Thing : /\ KeptOnce(Carrying(mailToMap', i), Carrying(mailToMap, i))
                          /\ i = j => Carrying(mailToMap, i) # {} /\ Carrying(mailToMap', i) = {}
  BY <1>0, ReplyTaken
<1>2. PICK fits \in SUBSET ({j} \ {None}) : bag' = [bag EXCEPT ![c] = @ \union fits]
  BY DEF ReceiveParcel
<1>3. bag' = [x \in Char |-> IF x = c THEN bag[x] \union fits ELSE bag[x]]
  BY <1>0, <1>2 DEF MailOK
<1>4. bag' = [x \in Char |-> bag'[x]]
  BY <1>3
<1>5. \A i : /\ i # j => Packs(i)' = Packs(i)
             /\ Packs(i)' \subseteq Packs(i) \union {c}
  BY <1>2, <1>3 DEF Packs
<1>6. ASSUME NEW i \in Thing
      PROVE  Exclusive(Packs(i)', RowsWith(i)', Carrying(mailToChar', i),
                       Carrying(mailToMap', i), {})
  <2>1. Exclusive(Packs(i), RowsWith(i), Carrying(mailToChar, i), Carrying(mailToMap, i), {})
    BY <1>0 DEF ThingsKept, ThingInOnePlace
  <2>2. RowsWith(i)' = RowsWith(i) /\ mailToChar' = mailToChar
    BY DEF RowsWith
  <2>3. CASE i = j
    <3>1. /\ Packs(i) = {} /\ RowsWith(i) = {} /\ Carrying(mailToChar, i) = {}
          /\ Carrying(mailToMap', i) = {}
      BY <1>1, <2>1, <2>3 DEF Exclusive
    <3>2. AtMostOne(Packs(i)')
      BY <1>5, <3>1 DEF AtMostOne
    <3>. QED BY <2>2, <3>1, <3>2 DEF Exclusive, AtMostOne
  <2>4. CASE i # j
    BY <1>1, <1>5, <2>1, <2>2, <2>4 DEF Exclusive, KeptOnce
  <2>. QED BY <2>3, <2>4
<1>7. ThingsKept'
  BY <1>6 DEF ThingsKept, ThingInOnePlace
<1>. QED BY <1>0, <1>1, <1>4, <1>7 DEF MailInv, MailOK, MailSent

LEMMA MailMapHandlesInv == MailInv /\ MailMapHandles => MailInv'
<1>. SUFFICES ASSUME MailInv, MailMapHandles PROVE MailInv'
  OBVIOUS
<1>. DEFINE p == Head(mailToMap)
<1>0. MailOK /\ ThingsKept /\ MailSent
  BY DEF MailInv, MailOK
<1>1. /\ mailToMap # <<>> /\ mailToMap' = Tail(mailToMap)
      /\ UNCHANGED <<playing, mails, last_id>>
  BY DEF MailMapHandles
<1>2. PICK c : c = IF p.type = "sent" THEN p.msg.from ELSE p.char
  OBVIOUS
<1>3. ASSUME UNCHANGED bag, UNCHANGED mailToChar \/ \E s : Quiet(s) /\ Ask(s)
      PROVE  MailInv'
  <2>1. PICK s : Quiet(s) /\ (Ask(s) \/ UNCHANGED mailToChar)
    BY <1>3, QuietNone
  <2>2. MailSent' /\ \A i \in Thing : Carrying(mailToChar', i) = Carrying(mailToChar, i)
    BY <1>0, <2>1, AskedIdle
  <2>3. /\ \E T : mailToMap' \in Seq(T)
        /\ \A i \in Thing : KeptOnce(Carrying(mailToMap', i), Carrying(mailToMap, i))
    BY <1>0, <1>1, ReplyTaken
  <2>4. MailPlacesKept
    BY <1>0, <1>1, <1>3, <2>2, <2>3, BagsStay, RowsStay, EachAtMostOne DEF MailPlacesKept, KeptOnce
  <2>5. ThingsKept'
    BY <1>0, <2>4, ThingsStay
  <2>. QED BY <1>0, <1>1, <1>3, <2>2, <2>3, <2>5 DEF MailInv, MailOK
<1>4. ASSUME c \in playing, Forget(c, p.id, p.fail), UNCHANGED bag PROVE MailInv'
  <2>. DEFINE q == [type |-> "inbox", char |-> c]
  <2>1. q.type \notin {"send", "sent", "attached"} /\ (Ask(<<q>>) \/ Ask(<<>>))
    BY <1>4 DEF Forget
  <2>. HIDE DEF q
  <2>2. Quiet(<<q>>) /\ Quiet(<<>>)
    BY <2>1, QuietOne, QuietNone
  <2>3. \E s : Quiet(s) /\ Ask(s)
    BY <2>1, <2>2
  <2>. QED BY <1>3, <1>4, <2>3
<1>5. CASE c \in playing /\ p.type = "attached" /\ ReceiveParcel(c, p.item, p.zeny)
           /\ UNCHANGED mailToChar
  <2>1. PICK j, z : j = p.item /\ z = p.zeny
    OBVIOUS
  <2>2. Carried(p).item = j
    BY <1>5, <2>1 DEF Carried
  <2>. QED BY <1>1, <1>5, <2>1, <2>2, ParcelReceived
<1>6. CASE c \in playing /\ p.type = "sent" /\ p.msg.id = 0
           /\ ReceiveParcel(c, p.msg.item, p.msg.zeny) /\ UNCHANGED mailToChar
  <2>1. PICK j, z : j = p.msg.item /\ z = p.msg.zeny
    OBVIOUS
  <2>2. Carried(p).item = j
    BY <1>6, <2>1 DEF Carried
  <2>. QED BY <1>1, <1>6, <2>1, <2>2, ParcelReceived
<1>7. \/ UNCHANGED <<bag, mailToChar>>
      \/ c \in playing /\ Forget(c, p.id, p.fail) /\ UNCHANGED bag
      \/ c \in playing /\ p.type = "attached" /\ ReceiveParcel(c, p.item, p.zeny)
           /\ UNCHANGED mailToChar
      \/ c \in playing /\ p.type = "sent" /\ p.msg.id = 0
           /\ ReceiveParcel(c, p.msg.item, p.msg.zeny) /\ UNCHANGED mailToChar
  BY <1>2 DEF MailMapHandles, intif_parse_Mail_inboxreceived, Forget
<1>. QED BY <1>3, <1>4, <1>5, <1>6, <1>7

LEMMA MailInitInv == MailInit => MailInv
<1>. SUFFICES ASSUME MailInit PROVE MailInv
  OBVIOUS
<1>. DEFINE S == {}
<1>1. <<>> \in Seq(S) /\ \A p \in S : p.type = "send" => IsMail(p.msg)
  OBVIOUS
<1>. HIDE DEF S
<1>2. MailSent /\ \E T : mailToMap \in Seq(T)
  BY <1>1 DEF MailInit, MailSent
<1>3. MailOK
  BY <1>2 DEF MailInit, MailOK
<1>4. ASSUME NEW i \in Thing PROVE ThingInOnePlace(i)
  <2>1. RowsWith(i) = {} /\ Carrying(mailToChar, i) = {} /\ Carrying(mailToMap, i) = {}
    BY DEF MailInit, RowsWith, Carrying
  <2>2. AtMostOne(Packs(i))
    BY DEF MailInit, Packs, AtMostOne
  <2>. QED BY <2>1, <2>2 DEF ThingInOnePlace, Exclusive, AtMostOne
<1>. QED BY <1>3, <1>4 DEF MailInv, ThingsKept

LEMMA MailStepInv == MailInv /\ [MailNext]_mailVars => MailInv'
<1>. SUFFICES ASSUME MailInv, [MailNext]_mailVars PROVE MailInv'
  OBVIOUS
<1>1. CASE MailPlayer
  BY <1>1, MailPlayerInv
<1>2. CASE CharHandles
  BY <1>2, CharHandlesMail
<1>3. CASE MailMapHandles
  BY <1>3, MailMapHandlesInv
<1>4. CASE MailLinkLost
  <2>0. MailOK /\ ThingsKept
    BY DEF MailInv
  <2>1. mailToChar' = <<>> /\ mailToMap' = <<>> /\ UNCHANGED <<playing, bag, mails, last_id>>
    BY <1>4 DEF MailLinkLost, mailMemory
  <2>2. \A i : Carrying(mailToChar', i) = {} /\ Carrying(mailToMap', i) = {}
    BY <2>1 DEF Carrying
  <2>3. MailPlacesKept
    BY <2>0, <2>1, <2>2, BagsStay, RowsStay DEF MailPlacesKept, KeptOnce, AtMostOne
  <2>. DEFINE S == {}
  <2>4. <<>> \in Seq(S) /\ \A p \in S : p.type = "send" => IsMail(p.msg)
    OBVIOUS
  <2>. HIDE DEF S
  <2>5. MailSent' /\ \E T : mailToMap' \in Seq(T)
    BY <2>1, <2>4 DEF MailSent
  <2>6. ThingsKept'
    BY <2>0, <2>3, ThingsStay
  <2>. QED BY <2>0, <2>1, <2>5, <2>6 DEF MailInv, MailOK
<1>5. CASE MailLinkUp \/ UNCHANGED mailVars
  <2>1. UNCHANGED <<playing, bag, mails, last_id, mailToMap, mailToChar>>
    BY <1>5 DEF MailLinkUp, mailMemory, mailVars
  <2>2. playing \subseteq Char
    BY DEF MailInv, MailOK
  <2>. QED BY <2>1, <2>2, QuietSteps
<1>. QED BY <1>1, <1>2, <1>3, <1>4, <1>5 DEF MailNext

\* However often a mail is asked for, returned, deleted or refused, on
\* whatever copy of the inbox, what was attached to it is in one place: a
\* pack, a row or a packet (mail.c: mail_send, mail_removeitem; int_mail.c:
\* mapif_Mail_getattach, mapif_Mail_return, mapif_parse_Mail_send).
THEOREM MailsAreOnce == MailSpec => []MailedOnce
<1>1. MailInv => MailedOnce
  BY ThingsOnce DEF MailInv
<1>. QED BY <1>1, MailInitInv, MailStepInv, PTL DEF MailSpec

-----------------------------------------------------------------------------
(* Shops: loops over lines *)

LEMMA FirstOne ==
  ASSUME NEW S \in SUBSET Nat, S # {}
  PROVE  \E x \in S : \A y \in S : x <= y
<1>. DEFINE R == OpToRel(<, Nat)
<1>1. \A x, y \in Nat : <<x, y>> \in R <=> x < y
  BY Zenon DEF OpToRel
<1>2. IsWellFoundedOn(R, Nat)
  BY NatLessThanWellFounded
<1>. HIDE DEF R
<1>3. PICK x \in S : \A y \in S : ~(<<y, x>> \in R)
  BY <1>2, WFMin
<1>4. ASSUME NEW y \in S PROVE x <= y
  <2>1. x \in Nat /\ y \in Nat /\ ~(y < x)
    BY <1>1, <1>3
  <2>. QED BY <2>1
<1>. QED BY <1>4

\* What holds at the start of a loop and is kept by each turn holds at the end.
LEMMA TurnByTurn ==
  ASSUME NEW n \in Nat, NEW S, 0 \in S, \A k \in 1 .. n : k - 1 \in S => k \in S
  PROVE  \A k \in 0 .. n : k \in S
<1>. DEFINE T == {k \in 0 .. n : k \notin S}
<1>1. SUFFICES ASSUME T # {} PROVE FALSE
  OBVIOUS
<1>2. T \in SUBSET Nat
  OBVIOUS
<1>3. PICK k \in T : \A y \in T : k <= y
  BY <1>1, <1>2, FirstOne
<1>4. k # 0 /\ k \in 0 .. n
  BY <1>3
<1>5. k - 1 \in 0 .. n /\ k - 1 \notin T /\ k \in 1 .. n
  BY <1>3, <1>4
<1>. QED BY <1>3, <1>5

\* The turns of a loop that makes f[k][x] of x in turn k.
Within(X, n, f) == \A k \in 1 .. n : \A x \in X : f[k][x] \in X
Turns(X, s, n, f) ==
  {a \in [0 .. n -> X] : a[0] = s /\ \A k \in 1 .. n : a[k] = f[k][a[k - 1]]}

LEMMA LoopExists ==
  ASSUME NEW X, NEW s \in X, NEW n \in Nat, NEW f, Within(X, n, f)
  PROVE  \E a : a \in Turns(X, s, n, f)
<1>. USE DEF Within, Turns
<1>. DEFINE Run(m, a) == a \in [0 .. m -> X] /\ a[0] = s /\ \A k \in 1 .. m : a[k] = f[k][a[k - 1]]
            S == {m \in 0 .. n : \E a : Run(m, a)}
<1>1. 0 \in S
  <2>. DEFINE a == [k \in 0 .. 0 |-> s]
  <2>1. Run(0, a)
    OBVIOUS
  <2>. HIDE DEF a, Run
  <2>2. 0 \in 0 .. n
    OBVIOUS
  <2>. QED BY <2>1, <2>2
<1>2. ASSUME NEW m \in 1 .. n, m - 1 \in S PROVE m \in S
  <2>1. PICK g : Run(m - 1, g)
    BY <1>2
  <2>. DEFINE a == [k \in 0 .. m |-> IF k = m THEN f[m][g[m - 1]] ELSE g[k]]
  <2>2. m - 1 \in 0 .. m - 1 /\ g[m - 1] \in X
    BY <2>1
  <2>3. f[m][g[m - 1]] \in X
    BY <2>2
  <2>4. a \in [0 .. m -> X]
    BY <2>1, <2>3
  <2>5. a[0] = s
    BY <2>1
  <2>6. ASSUME NEW k \in 1 .. m PROVE a[k] = f[k][a[k - 1]]
    <3>1. k - 1 \in 0 .. m /\ k - 1 # m /\ k \in 0 .. m /\ a[k - 1] = g[k - 1]
      OBVIOUS
    <3>2. CASE k = m
      BY <3>1, <3>2
    <3>3. CASE k # m
      <4>1. k \in 1 .. m - 1
        BY <3>3
      <4>. QED BY <2>1, <3>1, <3>3, <4>1
    <3>. QED BY <3>2, <3>3
  <2>7. Run(m, a)
    BY <2>4, <2>5, <2>6
  <2>. HIDE DEF a, Run
  <2>8. m \in 0 .. n
    OBVIOUS
  <2>. QED BY <2>7, <2>8
<1>3. n \in S
  <2>. HIDE DEF S
  <2>1. \A k \in 0 .. n : k \in S
    BY <1>1, <1>2, TurnByTurn
  <2>. QED BY <2>1
<1>. QED BY <1>3

\* What Selected says of its loop.
LEMMA SelectedRun ==
  ASSUME NEW X, NEW s \in Seq(X), NEW P
  PROVE  \E a : /\ Selected(s, P) = a[Len(s)] /\ a[0] = <<>>
                /\ \A k \in 1 .. Len(s) :
                     a[k] = IF k \in P THEN Append(a[k - 1], s[k]) ELSE a[k - 1]
<1>. DEFINE n == Len(s)
            f == [k \in 1 .. n |-> [x \in Seq(X) |-> IF k \in P THEN Append(x, s[k]) ELSE x]]
            Loop(a) == a = [k \in 0 .. n |-> IF k = 0 THEN <<>>
                              ELSE IF k \in P THEN Append(a[k - 1], s[k]) ELSE a[k - 1]]
<1>1. n \in Nat /\ <<>> \in Seq(X) /\ \A k \in 1 .. n : s[k] \in X
  OBVIOUS
<1>2. \A k \in 1 .. n : \A x \in Seq(X) :
        f[k][x] = (IF k \in P THEN Append(x, s[k]) ELSE x) /\ f[k][x] \in Seq(X)
  BY <1>1
<1>3. PICK g : g \in Turns(Seq(X), <<>>, n, f)
  <2>. HIDE DEF f, n
  <2>1. Within(Seq(X), n, f)
    BY <1>2 DEF Within
  <2>2. <<>> \in Seq(X)
    OBVIOUS
  <2>. QED BY <1>1, <2>1, <2>2, LoopExists
<1>. USE DEF Turns
<1>4. \A k \in 1 .. n : g[k] = IF k \in P THEN Append(g[k - 1], s[k]) ELSE g[k - 1]
  <2>. HIDE DEF f
  <2>1. \A k \in 1 .. n : g[k - 1] \in Seq(X)
    BY <1>1, <1>3
  <2>. QED BY <1>2, <1>3, <2>1
<1>5. Loop(g)
  <2>. HIDE DEF f, n
  <2>1. \A k \in 0 .. n : k = 0 \/ k \in 1 .. n
    BY <1>1
  <2>. QED BY <1>3, <1>4, <2>1
<1>6. PICK a : a = (CHOOSE b : Loop(b))
  OBVIOUS
<1>7. Loop(a)
  BY <1>5, <1>6
<1>8. Selected(s, P) = a[n]
  BY <1>6 DEF Selected
<1>9. a[0] = <<>>
  BY <1>1, <1>7
<1>10. \A k \in 1 .. n : a[k] = IF k \in P THEN Append(a[k - 1], s[k]) ELSE a[k - 1]
  <2>1. \A k \in 1 .. n : k \in 0 .. n /\ k # 0
    BY <1>1
  <2>. QED BY <1>7, <2>1
<1>. QED BY <1>8, <1>9, <1>10

\* t has the entries of s at the places in P, each once and in their order.
Picked(t, s, k, P, pos) ==
  /\ pos \in [1 .. Len(t) -> 1 .. k]
  /\ \A i \in 1 .. Len(t) : pos[i] \in P /\ t[i] = s[pos[i]]
  /\ \A i, j \in 1 .. Len(t) : i # j => pos[i] # pos[j]
  /\ \A j \in 1 .. k : j \in P => \E i \in 1 .. Len(t) : pos[i] = j

LEMMA SelectedArePicked ==
  ASSUME NEW X, NEW s \in Seq(X), NEW P
  PROVE  /\ Selected(s, P) \in Seq(X)
         /\ \E pos : Picked(Selected(s, P), s, Len(s), P, pos)
         /\ 1 .. Len(s) \subseteq P => Selected(s, P) = s
<1>. DEFINE n == Len(s)
<1>1. PICK a : /\ Selected(s, P) = a[n] /\ a[0] = <<>>
               /\ \A k \in 1 .. n : a[k] = IF k \in P THEN Append(a[k - 1], s[k]) ELSE a[k - 1]
  BY SelectedRun
<1>2. n \in Nat /\ \A k \in 1 .. n : s[k] \in X
  OBVIOUS
<1>. DEFINE S == {k \in 0 .. n : /\ a[k] \in Seq(X)
                                 /\ \E pos : Picked(a[k], s, k, P, pos)
                                 /\ 1 .. k \subseteq P =>
                                      Len(a[k]) = k /\ \A i \in 1 .. k : a[k][i] = s[i]}
<1>. HIDE DEF n
<1>3. 0 \in S
  <2>. DEFINE pos == [i \in 1 .. 0 |-> 1]
  <2>1. a[0] \in Seq(X) /\ Len(a[0]) = 0
    BY <1>1
  <2>2. Picked(a[0], s, 0, P, pos)
    BY <2>1 DEF Picked
  <2>. QED BY <1>2, <2>1, <2>2
<1>4. ASSUME NEW k \in 1 .. n, k - 1 \in S PROVE k \in S
  <2>1. PICK u \in Seq(X) : u = a[k - 1]
    BY <1>4
  <2>2. PICK t : t = a[k]
    OBVIOUS
  <2>3. t = IF k \in P THEN Append(u, s[k]) ELSE u
    BY <1>1, <2>1, <2>2
  <2>4. PICK p : Picked(u, s, k - 1, P, p)
    BY <1>4, <2>1
  <2>5. s[k] \in X /\ k \in Nat /\ k \in 0 .. n /\ Len(u) \in Nat
    BY <1>2, <2>1
  <2>6. 1 .. k - 1 \subseteq P => Len(u) = k - 1 /\ \A i \in 1 .. k - 1 : u[i] = s[i]
    BY <1>4, <2>1
  <2>7. CASE k \notin P
    <3>1. t = u /\ ~(1 .. k \subseteq P)
      BY <2>3, <2>7
    <3>2. Picked(t, s, k, P, p)
      <4>1. p \in [1 .. Len(u) -> 1 .. k - 1]
        BY <2>4 DEF Picked
      <4>2. \A i \in 1 .. Len(u) : p[i] \in 1 .. k
        BY <2>5, <4>1
      <4>3. p \in [1 .. Len(u) -> 1 .. k]
        BY <4>1, <4>2
      <4>4. \A j \in 1 .. k : j \in P => j \in 1 .. k - 1
        BY <2>5, <2>7
      <4>. QED BY <2>4, <3>1, <4>3, <4>4 DEF Picked
    <3>. QED BY <2>1, <2>2, <2>5, <3>1, <3>2
  <2>8. CASE k \in P
    <3>1. t = Append(u, s[k])
      BY <2>3, <2>8
    <3>2. /\ t \in Seq(X) /\ Len(t) = Len(u) + 1
          /\ \A i \in 1 .. Len(u) : t[i] = u[i]
          /\ t[Len(t)] = s[k]
      BY <2>5, <3>1
    <3>. DEFINE pos == [i \in 1 .. Len(t) |-> IF i = Len(t) THEN k ELSE p[i]]
    <3>3. \A i \in 1 .. Len(t) : i = Len(t) \/ i \in 1 .. Len(u)
      BY <2>5, <3>2
    <3>4. \A i \in 1 .. Len(u) : p[i] \in 1 .. k - 1 /\ p[i] # k /\ i \in 1 .. Len(t) /\ i # Len(t)
      BY <2>4, <2>5, <3>2 DEF Picked
    <3>5. Len(t) \in 1 .. Len(t)
      BY <2>5, <3>2
    <3>6. pos \in [1 .. Len(t) -> 1 .. k]
      <4>1. k \in 1 .. k /\ \A i \in 1 .. Len(u) : p[i] \in 1 .. k
        BY <2>5, <3>4
      <4>2. \A i \in 1 .. Len(t) : (IF i = Len(t) THEN k ELSE p[i]) \in 1 .. k
        BY <3>3, <4>1
      <4>. QED BY <4>2
    <3>7. /\ pos[Len(t)] = k
          /\ \A i \in 1 .. Len(u) : pos[i] = p[i]
      BY <3>4, <3>5
    <3>. HIDE DEF pos
    <3>8. \A i \in 1 .. Len(t) : pos[i] \in P /\ t[i] = s[pos[i]]
      BY <2>4, <2>8, <3>2, <3>3, <3>7 DEF Picked
    <3>9. \A i, j \in 1 .. Len(t) : i # j => pos[i] # pos[j]
      BY <2>4, <3>3, <3>4, <3>7 DEF Picked
    <3>10. ASSUME NEW j \in 1 .. k, j \in P PROVE \E i \in 1 .. Len(t) : pos[i] = j
      <4>1. j = k \/ j \in 1 .. k - 1
        OBVIOUS
      <4>. QED BY <2>4, <3>4, <3>5, <3>7, <3>10, <4>1 DEF Picked
    <3>11. Picked(t, s, k, P, pos)
      BY <3>6, <3>8, <3>9, <3>10 DEF Picked
    <3>12. ASSUME 1 .. k \subseteq P PROVE Len(t) = k /\ \A i \in 1 .. k : t[i] = s[i]
      <4>1. 1 .. k - 1 \subseteq P
        BY <2>5, <3>12
      <4>2. Len(u) = k - 1 /\ \A i \in 1 .. k - 1 : u[i] = s[i]
        BY <2>6, <4>1
      <4>3. \A i \in 1 .. k : i = k \/ i \in 1 .. k - 1
        BY <2>5
      <4>4. Len(t) = k
        BY <2>5, <3>2, <4>2
      <4>. QED BY <3>2, <4>2, <4>3, <4>4
    <3>. QED BY <2>2, <2>5, <3>2, <3>11, <3>12
  <2>. QED BY <2>7, <2>8
<1>5. n \in S
  <2>. HIDE DEF S
  <2>1. \A k \in 0 .. n : k \in S
    BY <1>2, <1>3, <1>4, TurnByTurn
  <2>. QED BY <1>2, <2>1
<1>6. ASSUME 1 .. n \subseteq P PROVE Selected(s, P) = s
  <2>1. a[n] \in Seq(X) /\ Len(a[n]) = n /\ \A i \in 1 .. n : a[n][i] = s[i]
    BY <1>5, <1>6
  <2>. QED BY <1>1, <2>1 DEF n
<1>. QED BY <1>1, <1>5, <1>6 DEF n

LEMMA TotalIsInt ==
  ASSUME NEW s \in Seq(Int)
  PROVE  Total(s) \in Int
<1>. DEFINE n == Len(s)
            f == [k \in 1 .. n |-> [x \in Int |-> x + s[k]]]
            Loop(a) == a = [k \in 0 .. n |-> IF k = 0 THEN 0 ELSE a[k - 1] + s[k]]
<1>1. n \in Nat /\ \A k \in 1 .. n : s[k] \in Int
  OBVIOUS
<1>2. \A k \in 1 .. n : \A x \in Int : f[k][x] = x + s[k] /\ f[k][x] \in Int
  BY <1>1
<1>. HIDE DEF f, n
<1>3. PICK g : g \in Turns(Int, 0, n, f)
  <2>1. Within(Int, n, f)
    BY <1>2 DEF Within
  <2>2. 0 \in Int
    OBVIOUS
  <2>. QED BY <1>1, <2>1, <2>2, LoopExists
<1>. USE DEF Turns
<1>4. \A k \in 1 .. n : g[k] = g[k - 1] + s[k]
  <2>1. \A k \in 1 .. n : g[k - 1] \in Int
    BY <1>1, <1>3
  <2>. QED BY <1>2, <1>3, <2>1
<1>5. Loop(g)
  <2>1. \A k \in 0 .. n : k = 0 \/ k \in 1 .. n
    BY <1>1
  <2>. QED BY <1>3, <1>4, <2>1
<1>6. PICK a : a = (CHOOSE b : Loop(b))
  OBVIOUS
<1>7. Loop(a)
  BY <1>5, <1>6
<1>8. Total(s) = a[n]
  BY <1>6 DEF Total, n
<1>. DEFINE S == {k \in 0 .. n : a[k] \in Int}
<1>9. 0 \in S
  BY <1>1, <1>7
<1>10. \A k \in 1 .. n : k - 1 \in S => k \in S
  BY <1>1, <1>7
<1>. HIDE DEF S, Loop
<1>11. \A k \in 0 .. n : k \in S
  BY <1>1, <1>9, <1>10, TurnByTurn
<1>. QED BY <1>1, <1>8, <1>11 DEF S

-----------------------------------------------------------------------------
(* What holds of shops and stores *)

\* Carts in which each item is in one cell.
CartOK(crt) ==
  /\ crt \in [CartCells -> [ware : Ware \union {NoWare}, amount : Nat, numbered : BOOLEAN]]
  /\ \A c, d \in CartCells : crt[c].ware # NoWare /\ crt[c].ware = crt[d].ware => c = d

\* What a list of entries offers from a cart, and rows that say so.
OffersOK(list, crt) ==
  /\ list \in Seq([index : CartCells, amount : Nat, value : Nat])
  /\ \A m, n \in 1 .. Len(list) : list[m].index = list[n].index => m = n
  /\ \A n \in 1 .. Len(list) : /\ crt[list[n].index].ware # NoWare
                               /\ list[n].amount \in 1 .. crt[list[n].index].amount

RowFor(entry, crt) == [ware |-> crt[entry.index].ware, amount |-> entry.amount, value |-> entry.value]

WaresOnce(rows) == \A j, k \in 1 .. Len(rows) : rows[j].ware = rows[k].ware => j = k

\* The rows are those of the entries that are not sold out.
Tells(rows, list, crt) ==
  /\ rows \in Seq([ware : Ware, amount : Nat, value : Nat]) /\ WaresOnce(rows)
  /\ \A n \in 1 .. Len(list) : list[n].amount > 0 =>
       \E k \in 1 .. Len(rows) : rows[k] = RowFor(list[n], crt)
  /\ \A k \in 1 .. Len(rows) : \E n \in 1 .. Len(list) :
       list[n].amount > 0 /\ rows[k] = RowFor(list[n], crt)

ShopOK ==
  IF Vends
  THEN /\ presence \in {"here", "autotrade"} /\ ~Buys /\ vender_id <= nextid
       /\ saved.cart = cart /\ OffersOK(vending, cart)
       /\ \E r \in vendings :
            /\ vendings = {r}
            /\ r = [id |-> vender_id, auto |-> (presence = "autotrade"), items |-> r.items]
            /\ Tells(r.items, vending, cart)
  ELSE vending = <<>> /\ vendings = {}

\* What a store asks for, and the rows of stores.
Want == [ware : Ware, amount : Nat, price : Nat]
ListOK(list) ==
  /\ list \in [DOMAIN list -> Want]
  /\ \A j, k \in DOMAIN list : list[j].ware = list[k].ware => j = k
RowsFor(list) == {[index |-> k, item |-> list[k]] : k \in {j \in DOMAIN list : list[j].amount > 0}}
StoreItems(items) == \A q \in items : q = [index |-> q.index, item |-> q.item] /\ q.item \in Want /\ q.item.amount > 0
RowOK(r) ==
  /\ r = [id |-> r.id, auto |-> r.auto, limit |-> r.limit, items |-> r.items]
  /\ r.id \in Nat /\ 1 <= r.id /\ r.id <= nextid /\ r.auto \in BOOLEAN /\ r.limit \in Int /\ StoreItems(r.items)

StoreOK ==
  /\ \A r \in buyingstores : RowOK(r)
  /\ Buys =>
       /\ presence \in {"here", "autotrade"} /\ buyer_id <= nextid
       /\ buyingstore = [items |-> buyingstore.items, zenylimit |-> buyingstore.zenylimit]
       /\ buyingstore.zenylimit \in Int /\ ListOK(buyingstore.items)
       /\ \E r \in buyingstores :
            /\ r.id = buyer_id /\ r.auto = (presence = "autotrade")
            /\ r.limit >= buyingstore.zenylimit /\ r.items = RowsFor(buyingstore.items)
            /\ \A q \in buyingstores : q.id = buyer_id => q = r

\* What the tables said when the server started.
FoundOK(rows, crt) ==
  /\ rows \in Seq([ware : Ware, amount : Nat, value : Nat]) /\ WaresOnce(rows)
  /\ \A k \in 1 .. Len(rows) :
       \E c \in CartCells : crt[c].ware = rows[k].ware /\ rows[k].amount \in 1 .. crt[c].amount
LoadingOK ==
  presence = "loading" =>
    /\ autotrader.kind = "shop" => FoundOK(autotrader.items, cart)
    /\ autotrader.kind = "store" => StoreItems(autotrader.items) /\ autotrader.limit \in Int

\* Purses, inventories and the cart, in memory and in the tables.
WealthOK ==
  pocket \in [Person -> [Ware -> Int]] /\ cash \in [Person -> Int] /\ CartOK(cart)
SavedOK ==
  /\ saved = [pocket |-> saved.pocket, cash |-> saved.cash, cart |-> saved.cart]
  /\ saved.pocket \in [Person -> [Ware -> Int]] /\ saved.cash \in [Person -> Int]
  /\ CartOK(saved.cart)
IdsOK ==
  /\ nextid \in Nat /\ vender_id \in Nat /\ buyer_id \in Nat
  /\ presence \in {"here", "autotrade", "out", "loading"}

ShopInv == WealthOK /\ SavedOK /\ IdsOK /\ ShopOK /\ StoreOK /\ LoadingOK

-----------------------------------------------------------------------------
(* A sale *)

Entries == [index : CartCells, amount : Nat, value : Nat]
RowSet == [ware : Ware, amount : Nat, value : Nat]

LEMMA OneMin == ASSUME NEW n \in Nat PROVE Min({n}) = n
BY DEF Min

LEMMA EntryFound ==
  ASSUME OffersOK(vending, cart), NEW l, NEW n \in 1 .. Len(vending), vending[n].index = l.index
  PROVE  EntryOf(l) = n
<1>1. {m \in 1 .. Len(vending) : vending[m].index = l.index} = {n}
  BY DEF OffersOK
<1>2. n \in Nat
  BY DEF OffersOK
<1>. QED BY <1>1, <1>2, OneMin DEF EntryOf

\* Removing the row of an entry that is sold out, or changing its amount,
\* leaves the rows of the others.
LEMMA RowsAreKept ==
  ASSUME NEW rows, NEW list \in Seq(Entries), NEW crt, Tells(rows, list, crt),
         CartOK(crt),
         \A m, n \in 1 .. Len(list) : list[m].index = list[n].index => m = n,
         NEW e \in 1 .. Len(list), list[e].amount > 0, crt[list[e].index].ware # NoWare,
         NEW left \in Nat
  PROVE  Tells(RowsAfter(rows, crt[list[e].index].ware, left), [list EXCEPT ![e].amount = left], crt)
<1>. DEFINE w == crt[list[e].index].ware
            new == [list EXCEPT ![e].amount = left]
            after == RowsAfter(rows, w, left)
<1>1. /\ rows \in Seq(RowSet) /\ WaresOnce(rows)
      /\ \A n \in 1 .. Len(list) : list[n].amount > 0 =>
           \E k \in 1 .. Len(rows) : rows[k] = RowFor(list[n], crt)
      /\ \A k \in 1 .. Len(rows) : \E n \in 1 .. Len(list) :
           list[n].amount > 0 /\ rows[k] = RowFor(list[n], crt)
  BY DEF Tells, RowSet
<1>2. Len(new) = Len(list) /\ \A n \in 1 .. Len(list) :
        /\ n # e => new[n] = list[n]
        /\ new[e] = [list[e] EXCEPT !.amount = left]
  OBVIOUS
<1>3. \A n \in 1 .. Len(list) : list[n] \in Entries /\ list[n].index \in CartCells
  <2>1. \A n \in 1 .. Len(list) : list[n] \in Entries
    OBVIOUS
  <2>. QED BY <2>1 DEF Entries
<1>4. \A n \in 1 .. Len(list) : n # e => crt[list[n].index].ware # w
  BY <1>3 DEF CartOK
<1>5. /\ new[e].amount = left
      /\ RowFor(new[e], crt) = [ware |-> w, amount |-> left, value |-> list[e].value]
      /\ RowFor(list[e], crt) = [ware |-> w, amount |-> list[e].amount, value |-> list[e].value]
  BY <1>2, <1>3 DEF RowFor, Entries
<1>. HIDE DEF new, w
<1>6. \A n \in 1 .. Len(list) : RowFor(list[n], crt).ware = crt[list[n].index].ware
  BY DEF RowFor
<1>7. \A k \in 1 .. Len(rows) : rows[k] \in RowSet
  BY <1>1
<1>8. PICK r \in 1 .. Len(rows) : rows[r] = RowFor(list[e], crt)
  BY <1>1
<1>9. \A k \in 1 .. Len(rows) : rows[k].ware = w <=> k = r
  <2>1. rows[r].ware = w
    BY <1>5, <1>8
  <2>2. \A j, k \in 1 .. Len(rows) : rows[j].ware = rows[k].ware => j = k
    BY <1>1 DEF WaresOnce
  <2>. QED BY <2>1, <2>2
<1>10. \A k \in 1 .. Len(rows) : k # r => \E n \in 1 .. Len(list) :
         n # e /\ list[n].amount > 0 /\ rows[k] = RowFor(list[n], crt)
  <2>1. SUFFICES ASSUME NEW k \in 1 .. Len(rows), k # r
                 PROVE  \E n \in 1 .. Len(list) :
                          n # e /\ list[n].amount > 0 /\ rows[k] = RowFor(list[n], crt)
    OBVIOUS
  <2>2. PICK n \in 1 .. Len(list) : list[n].amount > 0 /\ rows[k] = RowFor(list[n], crt)
    BY <1>1
  <2>3. n # e
    BY <1>8, <1>9, <2>1, <2>2
  <2>. QED BY <2>2, <2>3
<1>11. \A n \in 1 .. Len(list) : n # e /\ list[n].amount > 0 =>
         \E k \in 1 .. Len(rows) : k # r /\ rows[k] = RowFor(list[n], crt)
  <2>1. SUFFICES ASSUME NEW n \in 1 .. Len(list), n # e, list[n].amount > 0
                 PROVE  \E k \in 1 .. Len(rows) : k # r /\ rows[k] = RowFor(list[n], crt)
    OBVIOUS
  <2>2. PICK k \in 1 .. Len(rows) : rows[k] = RowFor(list[n], crt)
    BY <1>1, <2>1
  <2>3. rows[k].ware # w
    BY <1>4, <1>6, <2>1, <2>2
  <2>. QED BY <1>9, <2>2, <2>3
<1>12. CASE left > 0
  <2>. DEFINE altered == [n \in 1 .. Len(rows) |-> IF n = r THEN RowFor(new[e], crt) ELSE rows[n]]
  <2>1. after = altered
    <3>1. after = [n \in DOMAIN rows |-> IF rows[n].ware = w THEN [rows[n] EXCEPT !.amount = left]
                                         ELSE rows[n]]
      BY <1>12 DEF RowsAfter
    <3>2. [rows[r] EXCEPT !.amount = left] = RowFor(new[e], crt)
      BY <1>5, <1>8
    <3>3. DOMAIN rows = 1 .. Len(rows)
      BY <1>1
    <3>. QED BY <1>9, <3>1, <3>2, <3>3
  <2>2. RowFor(new[e], crt) \in RowSet /\ RowFor(new[e], crt).ware = w
    BY <1>3, <1>5, <1>7, <1>8, <1>9 DEF RowSet, Entries
  <2>3. altered \in Seq(RowSet) /\ Len(altered) = Len(rows)
    BY <1>1, <1>7, <2>2
  <2>4. \A k \in 1 .. Len(rows) : altered[k].ware = rows[k].ware
    BY <1>9, <2>2
  <2>5. WaresOnce(altered)
    BY <1>1, <2>3, <2>4 DEF WaresOnce
  <2>6. \A n \in 1 .. Len(list) : new[n].amount > 0 =>
          \E k \in 1 .. Len(rows) : altered[k] = RowFor(new[n], crt)
    BY <1>2, <1>11
  <2>7. \A k \in 1 .. Len(rows) : \E n \in 1 .. Len(list) :
          new[n].amount > 0 /\ altered[k] = RowFor(new[n], crt)
    BY <1>2, <1>5, <1>10, <1>12
  <2>. HIDE DEF altered
  <2>8. Tells(altered, new, crt)
    BY <1>2, <2>3, <2>5, <2>6, <2>7 DEF Tells, RowSet
  <2>. QED BY <2>1, <2>8 DEF new, w
<1>13. CASE left = 0
  <2>. DEFINE P == {n \in DOMAIN rows : rows[n].ware # w}
  <2>1. after = Selected(rows, P)
    BY <1>13 DEF RowsAfter
  <2>2. PICK t : t = Selected(rows, P)
    OBVIOUS
  <2>3. \A k \in 1 .. Len(rows) : k \in P <=> k # r
    <3>1. DOMAIN rows = 1 .. Len(rows)
      BY <1>1
    <3>. QED BY <1>9, <3>1
  <2>. HIDE DEF P
  <2>4. t \in Seq(RowSet) /\ \E pos : Picked(t, rows, Len(rows), P, pos)
    BY <1>1, <2>2, SelectedArePicked
  <2>5. PICK pos : Picked(t, rows, Len(rows), P, pos)
    BY <2>4
  <2>6. \A i \in 1 .. Len(t) : pos[i] \in 1 .. Len(rows) /\ pos[i] # r /\ t[i] = rows[pos[i]]
    BY <2>3, <2>5 DEF Picked
  <2>7. WaresOnce(t)
    <3>1. \A j, k \in 1 .. Len(rows) : rows[j].ware = rows[k].ware => j = k
      BY <1>1 DEF WaresOnce
    <3>2. \A i, j \in 1 .. Len(t) : i # j => pos[i] # pos[j]
      BY <2>5 DEF Picked
    <3>3. ASSUME NEW i \in 1 .. Len(t), NEW j \in 1 .. Len(t), t[i].ware = t[j].ware PROVE i = j
      <4>1. rows[pos[i]].ware = rows[pos[j]].ware
        BY <2>6, <3>3
      <4>2. pos[i] = pos[j]
        BY <2>6, <3>1, <4>1
      <4>. QED BY <3>2, <4>2
    <3>. QED BY <3>3 DEF WaresOnce
  <2>8. \A n \in 1 .. Len(list) : new[n].amount > 0 =>
          \E k \in 1 .. Len(t) : t[k] = RowFor(new[n], crt)
    <3>1. SUFFICES ASSUME NEW n \in 1 .. Len(list), new[n].amount > 0
                   PROVE  \E k \in 1 .. Len(t) : t[k] = RowFor(new[n], crt)
      OBVIOUS
    <3>2. n # e
      BY <1>5, <1>13, <3>1
    <3>3. PICK k \in 1 .. Len(rows) : k # r /\ rows[k] = RowFor(list[n], crt)
      BY <1>2, <1>11, <3>1, <3>2
    <3>4. PICK i \in 1 .. Len(t) : pos[i] = k
      BY <2>3, <2>5, <3>3 DEF Picked
    <3>. QED BY <1>2, <2>6, <3>2, <3>3, <3>4
  <2>9. \A k \in 1 .. Len(t) : \E n \in 1 .. Len(list) :
          new[n].amount > 0 /\ t[k] = RowFor(new[n], crt)
    <3>1. SUFFICES ASSUME NEW k \in 1 .. Len(t)
                   PROVE  \E n \in 1 .. Len(list) : new[n].amount > 0 /\ t[k] = RowFor(new[n], crt)
      OBVIOUS
    <3>2. PICK n \in 1 .. Len(list) : n # e /\ list[n].amount > 0 /\ rows[pos[k]] = RowFor(list[n], crt)
      BY <1>10, <2>6
    <3>. QED BY <1>2, <2>6, <3>2
  <2>10. Tells(t, new, crt)
    BY <1>2, <2>4, <2>7, <2>8, <2>9 DEF Tells, RowSet
  <2>. QED BY <2>1, <2>2, <2>10 DEF new, w
<1>. QED BY <1>12, <1>13

LEMMA WareCount == Cardinality(Ware) \in Nat
BY FS_CardinalityType, ShopAssumption DEF ShopAssumption

LEMMA ListIsSeq ==
  ASSUME NEW S, NEW n \in Nat, NEW s \in [1 .. n -> S]
  PROVE  s \in Seq(S) /\ Len(s) = n
OBVIOUS

LEMMA LinesAreSeq ==
  ASSUME NEW lines, lines \in PurchaseLines
  PROVE  /\ lines \in Seq([index : CartCells, amount : 1 .. Stack])
         /\ Len(lines) \in Nat /\ DOMAIN lines = 1 .. Len(lines)
         /\ \A k \in 1 .. Len(lines) :
              lines[k].index \in CartCells /\ lines[k].amount \in Nat /\ lines[k].amount > 0
<1>. DEFINE S == [index : CartCells, amount : 1 .. Stack]
<1>1. PICK m \in 1 .. Cardinality(Ware) : lines \in [1 .. m -> S]
  BY DEF PurchaseLines, UpTo, Lines
<1>2. m \in Nat
  BY <1>1, WareCount
<1>. HIDE DEF S
<1>3. lines \in Seq(S) /\ Len(lines) = m /\ DOMAIN lines = 1 .. m
  BY <1>1, <1>2, ListIsSeq
<1>4. \A k \in 1 .. m : lines[k] \in S
  BY <1>1
<1>5. \A l \in S : l.index \in CartCells /\ l.amount \in Nat /\ l.amount > 0
  BY ShopAssumption DEF S, ShopAssumption
<1>. QED BY <1>2, <1>3, <1>4, <1>5 DEF S

Box == [ware : Ware \union {NoWare}, amount : Int, numbered : BOOLEAN]
IntRows == [ware : Ware, amount : Int, value : Nat]
Tills(n) ==
  [pocket : [Ware -> Int], vending : [1 .. n -> [index : CartCells, amount : Int, value : Nat]],
   items : Seq(IntRows), cart : [CartCells -> Box]]

LEMMA AddedStays ==
  ASSUME NEW b \in [Ware -> Int], NEW w \in Ware \union {NoWare}, NEW n \in Int
  PROVE  Added(b, w, n) \in [Ware -> Int]
<1>1. CASE Accepts(b, w, n)
  <2>1. w \in Ware
    BY <1>1 DEF Accepts
  <2>. QED BY <1>1, <2>1 DEF Added
<1>2. CASE ~Accepts(b, w, n)
  BY <1>2 DEF Added
<1>. QED BY <1>1, <1>2

LEMMA EmptyIsBox == EmptyCell \in Box
BY DEF EmptyCell, Box

LEMMA WithoutStays ==
  ASSUME NEW crt \in [CartCells -> Box], NEW c \in CartCells, NEW n \in Int
  PROVE  Without(crt, c, n) \in [CartCells -> Box]
<1>1. crt[c] \in Box
  OBVIOUS
<1>2. crt[c].amount \in Int /\ [crt[c] EXCEPT !.amount = @ - n] \in Box
  BY <1>1 DEF Box
<1>3. [crt EXCEPT ![c].amount = @ - n] = [crt EXCEPT ![c] = [crt[c] EXCEPT !.amount = @ - n]]
  OBVIOUS
<1>. QED BY <1>2, <1>3, EmptyIsBox DEF Without

LEMMA AmountChanged ==
  ASSUME NEW n \in Int, NEW r \in IntRows
  PROVE  [r EXCEPT !.amount = n] \in IntRows
BY DEF IntRows

LEMMA RowsAfterStays ==
  ASSUME NEW rows \in Seq(IntRows), NEW w, NEW n \in Int
  PROVE  RowsAfter(rows, w, n) \in Seq(IntRows)
<1>1. CASE n > 0
  <2>1. \A k \in 1 .. Len(rows) : rows[k] \in IntRows
    OBVIOUS
  <2>2. DOMAIN rows = 1 .. Len(rows) /\ Len(rows) \in Nat
    OBVIOUS
  <2>3. [k \in 1 .. Len(rows) |-> IF rows[k].ware = w THEN [rows[k] EXCEPT !.amount = n] ELSE rows[k]]
          \in [1 .. Len(rows) -> IntRows]
    BY <2>1, AmountChanged
  <2>4. RowsAfter(rows, w, n) \in [1 .. Len(rows) -> IntRows]
    BY <1>1, <2>2, <2>3 DEF RowsAfter
  <2>. QED BY <2>2, <2>4, ListIsSeq
<1>2. CASE ~(n > 0)
  <2>1. RowsAfter(rows, w, n) = Selected(rows, {k \in DOMAIN rows : rows[k].ware # w})
    BY <1>2 DEF RowsAfter
  <2>2. \A P : Selected(rows, P) \in Seq(IntRows)
    BY SelectedArePicked
  <2>. QED BY <2>1, <2>2
<1>. QED BY <1>1, <1>2

LEMMA HandedStays ==
  ASSUME NEW n \in Nat, NEW st \in Tills(n), NEW l, l.index \in CartCells, l.amount \in Nat,
         EntryOf(l) \in 1 .. n
  PROVE  Handed(st, l) \in Tills(n)
<1>. DEFINE e == EntryOf(l)
            w == st.cart[l.index].ware
            left == st.vending[e].amount - l.amount
            S == [index : CartCells, amount : Int, value : Nat]
            R == Seq(IntRows)
<1>1. /\ st.pocket \in [Ware -> Int] /\ st.vending \in [1 .. n -> S]
      /\ st.items \in R /\ st.cart \in [CartCells -> Box]
  BY DEF Tills
<1>2. w \in Ware \union {NoWare}
  <2>1. st.cart[l.index] \in Box
    BY <1>1
  <2>. QED BY <2>1 DEF Box
<1>3. st.vending[e] \in S
  BY <1>1
<1>4. left \in Int
  BY <1>3
<1>5. [st.vending[e] EXCEPT !.amount = left] \in S
  <2>. HIDE DEF left, e
  <2>. QED BY <1>3, <1>4
<1>. HIDE DEF S, R, left, w, e
<1>6. [st.vending EXCEPT ![e].amount = left] \in [1 .. n -> S]
  <2>1. [st.vending EXCEPT ![e].amount = left] = [st.vending EXCEPT ![e] = [st.vending[e] EXCEPT !.amount = left]]
    OBVIOUS
  <2>2. e \in 1 .. n
    BY DEF e
  <2>. QED BY <1>1, <1>5, <2>1, <2>2
<1>7. Added(st.pocket, w, l.amount) \in [Ware -> Int]
  <2>1. st.pocket \in [Ware -> Int] /\ l.amount \in Int
    BY <1>1
  <2>. QED BY <1>2, <2>1, AddedStays
<1>8. RowsAfter(st.items, w, left) \in R
  BY <1>1, <1>4, RowsAfterStays DEF R
<1>9. Without(st.cart, l.index, l.amount) \in [CartCells -> Box]
  BY <1>1, WithoutStays
<1>10. Handed(st, l) = [pocket |-> Added(st.pocket, w, l.amount),
                       vending |-> [st.vending EXCEPT ![e].amount = left],
                       items |-> RowsAfter(st.items, w, left),
                       cart |-> Without(st.cart, l.index, l.amount)]
  BY DEF Handed, w, left, e
<1>11. Handed(st, l) \in [pocket : [Ware -> Int], vending : [1 .. n -> S], items : R, cart : [CartCells -> Box]]
  BY <1>6, <1>7, <1>8, <1>9, <1>10
<1>. QED BY <1>11 DEF Tills, S, R

\* A sale is a run of lines, in which the row of the shop is looked up once.
LEMMA SaleRun ==
  ASSUME NEW lines \in PurchaseLines, NEW n \in Nat,
         [pocket |-> pocket[Customer], vending |-> vending, items |-> ShopRow.items, cart |-> cart]
           \in Tills(n),
         \A k \in 1 .. Len(lines) : EntryOf(lines[k]) \in 1 .. n
  PROVE  \E sold : /\ SaleOf(lines) = sold[Len(lines)]
                   /\ sold[0] = [pocket |-> pocket[Customer], vending |-> vending,
                                 items |-> ShopRow.items, cart |-> cart]
                   /\ \A k \in 1 .. Len(lines) : sold[k] = Handed(sold[k - 1], lines[k])
                   /\ \A k \in 0 .. Len(lines) : sold[k] \in Tills(n)
<1>. DEFINE m == Len(lines)
            s == [pocket |-> pocket[Customer], vending |-> vending, items |-> ShopRow.items, cart |-> cart]
            f == [k \in 1 .. m |-> [x \in Tills(n) |-> Handed(x, lines[k])]]
            Loop(a) == a = [k \in 0 .. m |-> IF k = 0 THEN s ELSE Handed(a[k - 1], lines[k])]
<1>1. m \in Nat /\ \A k \in 1 .. m : lines[k].index \in CartCells /\ lines[k].amount \in Nat
  BY LinesAreSeq
<1>2. s \in Tills(n)
  OBVIOUS
<1>. HIDE DEF m, s
<1>3. \A k \in 1 .. m : \A x \in Tills(n) : Handed(x, lines[k]) \in Tills(n)
  <2>1. \A k \in 1 .. m : EntryOf(lines[k]) \in 1 .. n
    BY DEF m
  <2>. QED BY <1>1, <2>1, HandedStays
<1>4. \A k \in 1 .. m : \A x \in Tills(n) : f[k][x] = Handed(x, lines[k]) /\ f[k][x] \in Tills(n)
  BY <1>3
<1>. HIDE DEF f
<1>5. PICK g : g \in Turns(Tills(n), s, m, f)
  <2>1. Within(Tills(n), m, f)
    BY <1>4 DEF Within
  <2>. QED BY <1>1, <1>2, <2>1, LoopExists
<1>6. g \in [0 .. m -> Tills(n)] /\ g[0] = s /\ \A k \in 1 .. m : g[k] = f[k][g[k - 1]]
  BY <1>5 DEF Turns
<1>7. \A k \in 1 .. m : g[k] = Handed(g[k - 1], lines[k])
  <2>1. \A k \in 1 .. m : g[k - 1] \in Tills(n)
    BY <1>1, <1>6
  <2>. QED BY <1>4, <1>6, <2>1
<1>8. Loop(g)
  <2>1. \A k \in 0 .. m : k = 0 \/ k \in 1 .. m
    BY <1>1
  <2>. QED BY <1>6, <1>7, <2>1
<1>9. PICK a : a = (CHOOSE b : Loop(b))
  OBVIOUS
<1>10. Loop(a)
  BY <1>8, <1>9
<1>11. SaleOf(lines) = a[m]
  BY <1>9 DEF SaleOf, m, s
<1>12. a[0] = s /\ \A k \in 1 .. m : a[k] = Handed(a[k - 1], lines[k])
  <2>1. \A k \in 1 .. m : k \in 0 .. m /\ k # 0
    BY <1>1
  <2>2. 0 \in 0 .. m
    BY <1>1
  <2>. QED BY <1>10, <2>1, <2>2
<1>. HIDE DEF Loop
<1>13. \A k \in 0 .. m : a[k] \in Tills(n)
  <2>. DEFINE T == {k \in 0 .. m : a[k] \in Tills(n)}
  <2>1. 0 \in T
    BY <1>1, <1>2, <1>12
  <2>2. \A k \in 1 .. m : k - 1 \in T => k \in T
    BY <1>1, <1>3, <1>12
  <2>. HIDE DEF T
  <2>3. \A k \in 0 .. m : k \in T
    BY <1>1, <2>1, <2>2, TurnByTurn
  <2>. QED BY <2>3 DEF T
<1>. QED BY <1>11, <1>12, <1>13 DEF m, s

LEMMA EntriesTyped ==
  ASSUME NEW list \in Seq(Entries)
  PROVE  /\ Len(list) \in Nat /\ DOMAIN list = 1 .. Len(list)
         /\ \A n \in 1 .. Len(list) :
              /\ list[n] \in Entries /\ list[n].index \in CartCells
              /\ list[n].amount \in Nat /\ list[n].value \in Nat
<1>1. \A n \in 1 .. Len(list) : list[n] \in Entries
  OBVIOUS
<1>2. \A x \in Entries : x.index \in CartCells /\ x.amount \in Nat /\ x.value \in Nat
  BY DEF Entries
<1>. QED BY <1>1, <1>2

\* The copy of the list in each turn of the check.
LEMMA CountRun ==
  ASSUME NEW lines \in PurchaseLines, vending \in Seq(Entries), CartOK(cart),
         \A k \in 1 .. Len(lines) : EntryOf(lines[k]) \in 1 .. Len(vending)
  PROVE  \E a : /\ CountedDown(lines) = a
                /\ a[0] = [n \in 1 .. Len(vending) |-> vending[n].amount]
                /\ \A k \in 1 .. Len(lines) :
                     a[k] = [a[k - 1] EXCEPT ![EntryOf(lines[k])] =
                               Least(a[k - 1][EntryOf(lines[k])], cart[lines[k].index].amount)
                                 - lines[k].amount]
                /\ \A k \in 0 .. Len(lines) : a[k] \in [1 .. Len(vending) -> Int]
<1>. DEFINE m == Len(lines)
            X == [1 .. Len(vending) -> Int]
            s == [n \in DOMAIN vending |-> vending[n].amount]
            Next1(k, x) == [x EXCEPT ![EntryOf(lines[k])] =
                              Least(x[EntryOf(lines[k])], cart[lines[k].index].amount) - lines[k].amount]
            f == [k \in 1 .. m |-> [x \in X |-> Next1(k, x)]]
            Loop(a) == a = [k \in 0 .. m |-> IF k = 0 THEN s ELSE Next1(k, a[k - 1])]
<1>1. m \in Nat /\ \A k \in 1 .. m : lines[k].index \in CartCells /\ lines[k].amount \in Nat
  BY LinesAreSeq
<1>2. s \in X /\ s = [n \in 1 .. Len(vending) |-> vending[n].amount]
  BY EntriesTyped
<1>3. ASSUME NEW k \in 1 .. m, NEW x \in X PROVE Next1(k, x) \in X
  <2>1. cart[lines[k].index].amount \in Nat
    BY <1>1 DEF CartOK
  <2>2. EntryOf(lines[k]) \in 1 .. Len(vending)
    OBVIOUS
  <2>3. x[EntryOf(lines[k])] \in Int
    BY <2>2
  <2>4. Least(x[EntryOf(lines[k])], cart[lines[k].index].amount) - lines[k].amount \in Int
    BY <1>1, <2>1, <2>3 DEF Least
  <2>. QED BY <2>2, <2>4
<1>. HIDE DEF m, s, X, Next1
<1>4. \A k \in 1 .. m : \A x \in X : f[k][x] = Next1(k, x) /\ f[k][x] \in X
  BY <1>3
<1>. HIDE DEF f
<1>5. PICK g : g \in Turns(X, s, m, f)
  <2>1. Within(X, m, f)
    BY <1>4 DEF Within
  <2>. QED BY <1>1, <1>2, <2>1, LoopExists
<1>6. g \in [0 .. m -> X] /\ g[0] = s /\ \A k \in 1 .. m : g[k] = f[k][g[k - 1]]
  BY <1>5 DEF Turns
<1>7. \A k \in 1 .. m : g[k] = Next1(k, g[k - 1])
  <2>1. \A k \in 1 .. m : g[k - 1] \in X
    BY <1>1, <1>6
  <2>. QED BY <1>4, <1>6, <2>1
<1>8. Loop(g)
  <2>1. \A k \in 0 .. m : k = 0 \/ k \in 1 .. m
    BY <1>1
  <2>. QED BY <1>6, <1>7, <2>1
<1>9. PICK a : a = (CHOOSE b : Loop(b))
  OBVIOUS
<1>10. Loop(a)
  BY <1>8, <1>9
<1>11. CountedDown(lines) = a
  BY <1>9 DEF CountedDown, m, s, Next1
<1>12. a[0] = s /\ \A k \in 1 .. m : a[k] = Next1(k, a[k - 1])
  <2>1. \A k \in 1 .. m : k \in 0 .. m /\ k # 0
    BY <1>1
  <2>2. 0 \in 0 .. m
    BY <1>1
  <2>. QED BY <1>10, <2>1, <2>2
<1>. HIDE DEF Loop
<1>13. \A k \in 0 .. m : a[k] \in X
  <2>. DEFINE T == {k \in 0 .. m : a[k] \in X}
  <2>1. 0 \in T
    BY <1>1, <1>2, <1>12
  <2>2. \A k \in 1 .. m : k - 1 \in T => k \in T
    BY <1>1, <1>3, <1>12
  <2>. HIDE DEF T
  <2>3. \A k \in 0 .. m : k \in T
    BY <1>1, <2>1, <2>2, TurnByTurn
  <2>. QED BY <2>3 DEF T
<1>. QED BY <1>2, <1>11, <1>12, <1>13 DEF m, X, Next1

\* What holds after some lines: the amounts are those of the copy, the cart has
\* what is still on offer, and the rows tell of it.
SoFar(st, count) ==
  /\ st \in Tills(Len(vending))
  /\ st.vending \in Seq(Entries) /\ Len(st.vending) = Len(vending)
  /\ \A n \in 1 .. Len(vending) :
       /\ st.vending[n].index = vending[n].index
       /\ st.vending[n].amount = count[n] /\ st.vending[n].amount <= vending[n].amount
       /\ st.vending[n].amount > 0 =>
            /\ st.cart[vending[n].index].ware = cart[vending[n].index].ware
            /\ st.cart[vending[n].index].amount >= st.vending[n].amount
  /\ \A c \in CartCells : st.cart[c].ware \in {NoWare, cart[c].ware} /\ st.cart[c].amount \in Nat
  /\ Tells(st.items, st.vending, cart)

LEMMA OneMoreLine ==
  ASSUME NEW st, NEW count, NEW next, SoFar(st, count),
         OffersOK(vending, cart), CartOK(cart),
         count \in [1 .. Len(vending) -> Int],
         NEW l, l.index \in CartCells, l.amount \in Nat, l.amount > 0, OnOffer(l),
         l.amount <= Least(count[EntryOf(l)], cart[l.index].amount),
         next = [count EXCEPT ![EntryOf(l)] =
                   Least(count[EntryOf(l)], cart[l.index].amount) - l.amount]
  PROVE  SoFar(Handed(st, l), next)
<1>1. PICK e \in 1 .. Len(vending) : vending[e].index = l.index
  BY DEF OnOffer
<1>2. EntryOf(l) = e
  BY <1>1, EntryFound
<1>. DEFINE list == st.vending
            left == list[e].amount - l.amount
            new == [list EXCEPT ![e].amount = left]
            i == l.index
            hand == Handed(st, l)
<1>3. vending \in Seq(Entries) /\ list \in Seq(Entries) /\ Len(list) = Len(vending)
  BY DEF OffersOK, Entries, SoFar
<1>4. /\ Len(vending) \in Nat
      /\ \A n \in 1 .. Len(vending) :
           /\ list[n].amount \in Nat /\ vending[n].amount \in Nat
           /\ list[n].index \in CartCells /\ list[n] \in Entries
  BY <1>3, EntriesTyped
<1>5. /\ count[e] = list[e].amount /\ list[e].amount <= vending[e].amount
      /\ vending[e].amount <= cart[i].amount /\ cart[i].amount \in Nat
      /\ cart[i].ware # NoWare /\ list[e].index = i
  <2>1. count[e] = list[e].amount /\ list[e].amount <= vending[e].amount /\ list[e].index = i
    BY <1>1 DEF SoFar
  <2>2. cart[i].ware # NoWare /\ vending[e].amount \in 1 .. cart[i].amount
    BY <1>1 DEF OffersOK
  <2>3. cart[i].amount \in Nat
    BY DEF CartOK
  <2>. QED BY <1>4, <2>1, <2>2, <2>3
<1>6. Least(count[e], cart[i].amount) = list[e].amount
  BY <1>4, <1>5 DEF Least
<1>7. left \in Nat /\ list[e].amount > 0 /\ l.amount <= list[e].amount
  BY <1>2, <1>4, <1>6
<1>8. next = [count EXCEPT ![e] = left]
  BY <1>2, <1>6
<1>9. /\ st.cart[i].ware = cart[i].ware /\ st.cart[i].amount >= list[e].amount
      /\ \A c \in CartCells : st.cart[c].amount \in Nat /\ st.cart[c] \in Box
      /\ st.cart \in [CartCells -> Box]
  <2>1. st.cart \in [CartCells -> Box]
    BY DEF SoFar, Tills
  <2>. QED BY <1>1, <1>7, <2>1 DEF SoFar
<1>10. /\ hand.vending = new /\ hand.cart = Without(st.cart, i, l.amount)
       /\ hand.items = RowsAfter(st.items, cart[i].ware, left)
  BY <1>2, <1>9 DEF Handed
<1>11. hand \in Tills(Len(vending))
  BY <1>2, <1>4, HandedStays DEF SoFar
<1>12. /\ new \in Seq(Entries) /\ Len(new) = Len(vending)
       /\ \A n \in 1 .. Len(vending) :
            /\ n # e => new[n] = list[n]
            /\ new[n].index = list[n].index
       /\ new[e].amount = left
  <2>. DEFINE x == [list[e] EXCEPT !.amount = left]
  <2>1. x \in Entries /\ x.amount = left /\ x.index = list[e].index
    <3>. HIDE DEF left
    <3>1. list[e] \in Entries
      BY <1>4
    <3>. QED BY <1>7, <3>1 DEF Entries
  <2>2. new = [list EXCEPT ![e] = x]
    OBVIOUS
  <2>. HIDE DEF x, left, new, list
  <2>. QED BY <1>1, <1>3, <2>1, <2>2
<1>13. Tells(hand.items, new, cart)
  <2>1. Tells(st.items, list, cart)
    BY DEF SoFar
  <2>2. \A m, n \in 1 .. Len(list) : list[m].index = list[n].index => m = n
    BY <1>3 DEF SoFar, OffersOK
  <2>3. e \in 1 .. Len(list)
    BY <1>3
  <2>. HIDE DEF left, list
  <2>4. Tells(RowsAfter(st.items, cart[list[e].index].ware, left), [list EXCEPT ![e].amount = left], cart)
    BY <1>3, <1>5, <1>7, <2>1, <2>2, <2>3, RowsAreKept
  <2>. QED BY <1>5, <1>10, <2>4
<1>. DEFINE crt == Without(st.cart, i, l.amount)
<1>14. /\ \A c \in CartCells : c # i => crt[c] = st.cart[c]
       /\ st.cart[i].amount = l.amount => crt[i] = EmptyCell
       /\ st.cart[i].amount > l.amount =>
            crt[i].ware = st.cart[i].ware /\ crt[i].amount = st.cart[i].amount - l.amount
  <2>1. ~(st.cart[i].amount < l.amount)
    BY <1>4, <1>7, <1>9
  <2>2. CASE st.cart[i].amount = l.amount
    <3>1. crt = [st.cart EXCEPT ![i] = EmptyCell]
      BY <2>1, <2>2 DEF Without
    <3>. QED BY <1>9, <2>2, <3>1
  <2>3. CASE st.cart[i].amount # l.amount
    <3>1. crt = [st.cart EXCEPT ![i].amount = @ - l.amount]
      BY <2>1, <2>3 DEF Without
    <3>2. st.cart[i] \in Box
      BY <1>9
    <3>3. crt[i] = [st.cart[i] EXCEPT !.amount = @ - l.amount]
      BY <1>9, <3>1
    <3>4. crt[i].ware = st.cart[i].ware /\ crt[i].amount = st.cart[i].amount - l.amount
      BY <3>2, <3>3 DEF Box
    <3>. QED BY <1>9, <2>3, <3>1, <3>4
  <2>. QED BY <2>2, <2>3
<1>15. \A c \in CartCells : crt[c].ware \in {NoWare, cart[c].ware} /\ crt[c].amount \in Nat
  <2>1. \A c \in CartCells : st.cart[c].ware \in {NoWare, cart[c].ware} /\ st.cart[c].amount \in Nat
    BY DEF SoFar
  <2>2. EmptyCell.ware = NoWare /\ EmptyCell.amount = 0
    BY DEF EmptyCell
  <2>3. st.cart[i].amount >= l.amount
    BY <1>4, <1>7, <1>9
  <2>. HIDE DEF crt
  <2>4. crt[i].ware \in {NoWare, cart[i].ware} /\ crt[i].amount \in Nat
    BY <1>9, <1>14, <2>1, <2>2, <2>3
  <2>. QED BY <1>14, <2>1, <2>4
<1>16. ASSUME NEW n \in 1 .. Len(vending), new[n].amount > 0
       PROVE  /\ crt[vending[n].index].ware = cart[vending[n].index].ware
              /\ crt[vending[n].index].amount >= new[n].amount
  <2>. HIDE DEF crt, new, left
  <2>1. CASE n = e
    <3>1. left > 0 /\ left = list[e].amount - l.amount
      BY <1>12, <1>16, <2>1 DEF left
    <3>2. st.cart[i].amount > l.amount /\ st.cart[i].amount - l.amount >= left
      BY <1>4, <1>7, <1>9, <3>1
    <3>. QED BY <1>1, <1>9, <1>12, <1>14, <2>1, <3>2
  <2>2. CASE n # e
    <3>1. vending[n].index # i
      BY <1>1, <2>2 DEF OffersOK
    <3>2. new[n] = list[n] /\ list[n].amount > 0
      BY <1>12, <1>16, <2>2
    <3>3. vending[n].index \in CartCells
      BY <1>4 DEF SoFar
    <3>4. crt[vending[n].index] = st.cart[vending[n].index]
      BY <1>14, <3>1, <3>3
    <3>5. /\ st.cart[vending[n].index].ware = cart[vending[n].index].ware
          /\ st.cart[vending[n].index].amount >= list[n].amount
      BY <3>2 DEF SoFar
    <3>. QED BY <3>2, <3>4, <3>5
  <2>. QED BY <2>1, <2>2
<1>17. \A n \in 1 .. Len(vending) : new[n].amount = next[n] /\ new[n].amount <= vending[n].amount
  <2>. HIDE DEF new, left
  <2>1. left <= list[e].amount
    BY <1>4, <1>7 DEF left
  <2>2. next[e] = left /\ \A n \in 1 .. Len(vending) : n # e => next[n] = count[n]
    BY <1>8
  <2>3. \A n \in 1 .. Len(vending) : list[n].amount = count[n] /\ list[n].amount <= vending[n].amount
    BY DEF SoFar
  <2>4. \A n \in 1 .. Len(vending) : n # e => new[n].amount = next[n] /\ new[n].amount <= vending[n].amount
    BY <1>12, <2>2, <2>3
  <2>5. new[e].amount = next[e] /\ new[e].amount <= vending[e].amount
    BY <1>4, <1>5, <1>7, <1>12, <2>1, <2>2
  <2>. QED BY <2>4, <2>5
<1>18. \A n \in 1 .. Len(vending) : new[n].index = vending[n].index
  BY <1>12 DEF SoFar
<1>. HIDE DEF new, crt, hand
<1>19. hand.cart = crt
  BY <1>10 DEF crt
<1>20. SoFar(hand, next)
  BY <1>10, <1>11, <1>12, <1>13, <1>15, <1>16, <1>17, <1>18, <1>19 DEF SoFar
<1>. QED BY <1>20 DEF hand

LEMMA SaleSells ==
  ASSUME OffersOK(vending, cart), CartOK(cart), pocket[Customer] \in [Ware -> Int],
         Tells(ShopRow.items, vending, cart),
         NEW lines \in PurchaseLines, \A k \in DOMAIN lines : OnOffer(lines[k]), InStock(lines)
  PROVE  \E count : SoFar(SaleOf(lines), count)
<1>. DEFINE m == Len(lines)
            n == Len(vending)
            s == [pocket |-> pocket[Customer], vending |-> vending, items |-> ShopRow.items, cart |-> cart]
<1>1. m \in Nat /\ DOMAIN lines = 1 .. m
      /\ \A k \in 1 .. m : lines[k].index \in CartCells /\ lines[k].amount \in Nat /\ lines[k].amount > 0
  BY LinesAreSeq
<1>2. vending \in Seq(Entries) /\ n \in Nat
      /\ \A k \in 1 .. n : /\ vending[k] \in Entries /\ vending[k].index \in CartCells
                           /\ vending[k].amount \in Nat /\ vending[k].value \in Nat
  <2>1. vending \in Seq(Entries)
    BY DEF OffersOK, Entries
  <2>. QED BY <2>1, EntriesTyped
<1>3. \A k \in 1 .. m : EntryOf(lines[k]) \in 1 .. n
  <2>1. SUFFICES ASSUME NEW k \in 1 .. m PROVE EntryOf(lines[k]) \in 1 .. n
    OBVIOUS
  <2>2. PICK e \in 1 .. n : vending[e].index = lines[k].index
    BY <1>1 DEF OnOffer
  <2>. QED BY <2>2, EntryFound
<1>4. cart \in [CartCells -> Box] /\ \A c \in CartCells : cart[c].amount \in Nat
  BY DEF CartOK, Box
<1>5. s \in Tills(n)
  <2>. DEFINE V == [index : CartCells, amount : Int, value : Nat]
              R == Seq(IntRows)
  <2>1. vending \in [1 .. n -> V]
    <3>1. Entries \subseteq V
      BY DEF Entries
    <3>2. DOMAIN vending = 1 .. n /\ \A k \in 1 .. n : vending[k] \in V
      BY <1>2, <3>1
    <3>3. vending = [k \in 1 .. n |-> vending[k]]
      BY <1>2, <3>2
    <3>. HIDE DEF V
    <3>. QED BY <3>2, <3>3
  <2>2. ShopRow.items \in R
    <3>1. ShopRow.items \in Seq(RowSet)
      BY DEF Tells, RowSet
    <3>2. RowSet \subseteq IntRows
      BY DEF RowSet, IntRows
    <3>3. Seq(RowSet) \subseteq Seq(IntRows)
      BY <3>2
    <3>. QED BY <3>1, <3>3
  <2>. HIDE DEF V, R
  <2>3. s \in [pocket : [Ware -> Int], vending : [1 .. n -> V], items : R, cart : [CartCells -> Box]]
    BY <1>4, <2>1, <2>2
  <2>. QED BY <2>3 DEF Tills, V, R
<1>6. PICK sold : /\ SaleOf(lines) = sold[m] /\ sold[0] = s
                  /\ \A k \in 1 .. m : sold[k] = Handed(sold[k - 1], lines[k])
                  /\ \A k \in 0 .. m : sold[k] \in Tills(n)
  BY <1>2, <1>3, <1>5, SaleRun
<1>7. PICK a : /\ CountedDown(lines) = a
               /\ a[0] = [k \in 1 .. n |-> vending[k].amount]
               /\ \A k \in 1 .. m :
                    a[k] = [a[k - 1] EXCEPT ![EntryOf(lines[k])] =
                              Least(a[k - 1][EntryOf(lines[k])], cart[lines[k].index].amount)
                                - lines[k].amount]
               /\ \A k \in 0 .. m : a[k] \in [1 .. n -> Int]
  BY <1>2, <1>3, CountRun
<1>8. \A k \in 1 .. m : lines[k].amount <= Least(a[k - 1][EntryOf(lines[k])], cart[lines[k].index].amount)
  BY <1>1, <1>7 DEF InStock
<1>. DEFINE T == {k \in 0 .. m : SoFar(sold[k], a[k])}
<1>9. 0 \in T
  <2>1. s.vending = vending /\ s.cart = cart /\ s.items = ShopRow.items
    OBVIOUS
  <2>2. \A k \in 1 .. n : /\ vending[k].amount = a[0][k] /\ vending[k].amount <= vending[k].amount
                          /\ cart[vending[k].index].amount >= vending[k].amount
    <3>1. SUFFICES ASSUME NEW k \in 1 .. n
                   PROVE  /\ vending[k].amount = a[0][k] /\ vending[k].amount <= vending[k].amount
                          /\ cart[vending[k].index].amount >= vending[k].amount
      OBVIOUS
    <3>2. vending[k].amount \in 1 .. cart[vending[k].index].amount
      BY DEF OffersOK
    <3>3. vending[k].amount \in Nat /\ cart[vending[k].index].amount \in Nat
      BY <1>2, <1>4
    <3>4. a[0][k] = vending[k].amount
      BY <1>7
    <3>. QED BY <3>2, <3>3, <3>4
  <2>. HIDE DEF s, n
  <2>3. SoFar(s, a[0])
    BY <1>2, <1>4, <1>5, <2>1, <2>2 DEF SoFar, n
  <2>. QED BY <1>1, <1>6, <2>3
<1>10. ASSUME NEW k \in 1 .. m, k - 1 \in T PROVE k \in T
  <2>1. SoFar(sold[k - 1], a[k - 1])
    BY <1>10
  <2>2. a[k - 1] \in [1 .. n -> Int]
    BY <1>1, <1>7
  <2>3. /\ lines[k].index \in CartCells /\ lines[k].amount \in Nat /\ lines[k].amount > 0
        /\ OnOffer(lines[k])
    BY <1>1
  <2>4. SoFar(Handed(sold[k - 1], lines[k]), a[k])
    <3>1. PICK x : x = sold[k - 1]
      OBVIOUS
    <3>2. PICK b : b = a[k - 1]
      OBVIOUS
    <3>3. PICK l : l = lines[k]
      OBVIOUS
    <3>4. PICK nx : nx = a[k]
      OBVIOUS
    <3>5. /\ SoFar(x, b) /\ b \in [1 .. Len(vending) -> Int]
          /\ l.index \in CartCells /\ l.amount \in Nat /\ l.amount > 0 /\ OnOffer(l)
      BY <2>1, <2>2, <2>3, <3>1, <3>2, <3>3
    <3>6. /\ l.amount <= Least(b[EntryOf(l)], cart[l.index].amount)
          /\ nx = [b EXCEPT ![EntryOf(l)] = Least(b[EntryOf(l)], cart[l.index].amount) - l.amount]
      BY <1>7, <1>8, <3>2, <3>3, <3>4
    <3>7. SoFar(Handed(x, l), nx)
      BY <3>5, <3>6, OneMoreLine
    <3>. QED BY <3>1, <3>3, <3>4, <3>7
  <2>. QED BY <1>1, <1>6, <2>4
<1>. HIDE DEF T
<1>11. \A k \in 0 .. m : k \in T
  BY <1>1, <1>9, <1>10, TurnByTurn
<1>. QED BY <1>1, <1>6, <1>11 DEF T

\* What the shop has left to offer, and the rows that say so.
LEMMA SaleTells ==
  ASSUME OffersOK(vending, cart), CartOK(cart), NEW st, NEW count, SoFar(st, count)
  PROVE  /\ CartOK(st.cart) /\ st.pocket \in [Ware -> Int]
         /\ OffersOK(Compacted(st.vending), st.cart)
         /\ Tells(st.items, Compacted(st.vending), st.cart)
<1>. DEFINE list == st.vending
            P == {n \in DOMAIN list : list[n].amount # 0}
            crt == st.cart
<1>1. /\ list \in Seq(Entries) /\ Len(list) = Len(vending) /\ Len(list) \in Nat
      /\ DOMAIN list = 1 .. Len(list)
      /\ \A n \in 1 .. Len(list) : list[n] \in Entries /\ list[n].amount \in Nat /\ list[n].index \in CartCells
  BY EntriesTyped DEF SoFar
<1>2. /\ \A n \in 1 .. Len(list) :
           /\ list[n].index = vending[n].index
           /\ list[n].amount > 0 =>
                /\ crt[list[n].index].ware = cart[list[n].index].ware
                /\ crt[list[n].index].amount >= list[n].amount
      /\ \A c \in CartCells : crt[c].ware \in {NoWare, cart[c].ware} /\ crt[c].amount \in Nat
      /\ Tells(st.items, list, cart)
  BY <1>1 DEF SoFar
<1>3. \A n \in 1 .. Len(list) : cart[list[n].index].ware # NoWare
  BY <1>1, <1>2 DEF OffersOK
<1>4. st.pocket \in [Ware -> Int] /\ crt \in [CartCells -> Box]
  BY DEF SoFar, Tills
<1>5. CartOK(crt)
  <2>. HIDE DEF crt
  <2>1. \A c \in CartCells : crt[c] \in [ware : Ware \union {NoWare}, amount : Nat, numbered : BOOLEAN]
    <3>1. \A c \in CartCells : crt[c] \in Box /\ crt[c].amount \in Nat
      BY <1>2, <1>4
    <3>. QED BY <3>1 DEF Box
  <2>2. crt \in [CartCells -> [ware : Ware \union {NoWare}, amount : Nat, numbered : BOOLEAN]]
    BY <1>4, <2>1
  <2>3. \A c, d \in CartCells : crt[c].ware # NoWare /\ crt[c].ware = crt[d].ware => c = d
    BY <1>2 DEF CartOK
  <2>. QED BY <2>2, <2>3 DEF CartOK
<1>6. PICK t : t = Selected(list, P)
  OBVIOUS
<1>7. Compacted(st.vending) = t
  BY <1>6 DEF Compacted
<1>. HIDE DEF P
<1>8. t \in Seq(Entries) /\ \E pos : Picked(t, list, Len(list), P, pos)
  BY <1>1, <1>6, SelectedArePicked
<1>9. PICK pos : Picked(t, list, Len(list), P, pos)
  BY <1>8
<1>10. \A i \in 1 .. Len(t) : /\ pos[i] \in 1 .. Len(list) /\ list[pos[i]].amount > 0
                              /\ t[i] = list[pos[i]]
  BY <1>1, <1>9 DEF Picked, P
<1>11. \A n \in 1 .. Len(list) : list[n].amount > 0 => \E i \in 1 .. Len(t) : t[i] = list[n]
  <2>1. SUFFICES ASSUME NEW n \in 1 .. Len(list), list[n].amount > 0
                 PROVE  \E i \in 1 .. Len(t) : t[i] = list[n]
    OBVIOUS
  <2>2. n \in P
    BY <1>1, <2>1 DEF P
  <2>3. PICK i \in 1 .. Len(t) : pos[i] = n
    BY <1>9, <2>2 DEF Picked
  <2>. QED BY <1>10, <2>3
<1>. HIDE DEF list, crt
<1>12. OffersOK(t, crt)
  <2>1. t \in Seq([index : CartCells, amount : Nat, value : Nat])
    BY <1>8 DEF Entries
  <2>2. ASSUME NEW i \in 1 .. Len(t), NEW j \in 1 .. Len(t), t[i].index = t[j].index PROVE i = j
    <3>1. vending[pos[i]].index = vending[pos[j]].index /\ pos[i] \in 1 .. Len(vending) /\ pos[j] \in 1 .. Len(vending)
      BY <1>1, <1>2, <1>10, <2>2
    <3>2. pos[i] = pos[j]
      BY <3>1 DEF OffersOK
    <3>. QED BY <1>9, <3>2 DEF Picked
  <2>3. ASSUME NEW i \in 1 .. Len(t)
        PROVE  crt[t[i].index].ware # NoWare /\ t[i].amount \in 1 .. crt[t[i].index].amount
    <3>1. PICK n \in 1 .. Len(list) : list[n].amount > 0 /\ t[i] = list[n]
      BY <1>10
    <3>2. crt[list[n].index].amount \in Nat
      BY <1>1, <1>2
    <3>. QED BY <1>1, <1>2, <1>3, <3>1, <3>2
  <2>. QED BY <2>1, <2>2, <2>3 DEF OffersOK
<1>13. Tells(st.items, t, crt)
  <2>1. /\ st.items \in Seq([ware : Ware, amount : Nat, value : Nat]) /\ WaresOnce(st.items)
        /\ \A n \in 1 .. Len(list) : list[n].amount > 0 =>
             \E k \in 1 .. Len(st.items) : st.items[k] = RowFor(list[n], cart)
        /\ \A k \in 1 .. Len(st.items) : \E n \in 1 .. Len(list) :
             list[n].amount > 0 /\ st.items[k] = RowFor(list[n], cart)
    BY <1>2 DEF Tells
  <2>2. \A n \in 1 .. Len(list) : list[n].amount > 0 => RowFor(list[n], cart) = RowFor(list[n], crt)
    BY <1>2 DEF RowFor
  <2>3. \A i \in 1 .. Len(t) : \E k \in 1 .. Len(st.items) : st.items[k] = RowFor(t[i], crt)
    BY <1>10, <2>1, <2>2
  <2>4. ASSUME NEW k \in 1 .. Len(st.items)
        PROVE  \E i \in 1 .. Len(t) : t[i].amount > 0 /\ st.items[k] = RowFor(t[i], crt)
    <3>1. PICK n \in 1 .. Len(list) : list[n].amount > 0 /\ st.items[k] = RowFor(list[n], cart)
      BY <2>1
    <3>2. PICK i \in 1 .. Len(t) : t[i] = list[n]
      BY <1>11, <3>1
    <3>. QED BY <2>2, <3>1, <3>2
  <2>. QED BY <2>1, <2>3, <2>4 DEF Tells
<1>. QED BY <1>4, <1>5, <1>7, <1>12, <1>13 DEF crt

LEMMA SaleLinesAreSeq ==
  ASSUME NEW lines, lines \in SaleLines
  PROVE  /\ Len(lines) \in Nat /\ DOMAIN lines = 1 .. Len(lines)
         /\ \A k \in 1 .. Len(lines) :
              lines[k].ware \in Ware /\ lines[k].amount \in Nat /\ lines[k].amount > 0
<1>. DEFINE S == [ware : Plain, amount : 1 .. Stack]
<1>1. PICK m \in 1 .. Cardinality(Ware) : lines \in [1 .. m -> S]
  BY DEF SaleLines, UpTo, Lines
<1>2. m \in Nat
  BY <1>1, WareCount
<1>. HIDE DEF S
<1>3. Len(lines) = m /\ DOMAIN lines = 1 .. m
  BY <1>1, <1>2, ListIsSeq
<1>4. \A k \in 1 .. m : lines[k] \in S
  BY <1>1
<1>5. \A l \in S : l.ware \in Ware /\ l.amount \in Nat /\ l.amount > 0
  BY ShopAssumption DEF S, ShopAssumption
<1>. QED BY <1>2, <1>3, <1>4, <1>5

Wish == [ware : Ware, amount : Int, price : Nat]
WishRow(D) == [index : D, item : Wish]
Purses(D) == [buyer : [Ware -> Int], seller : [Ware -> Int], list : [D -> Wish], items : SUBSET WishRow(D)]

LEMMA BoughtStays ==
  ASSUME NEW D, NEW st \in Purses(D), NEW l, l.ware \in Ware, l.amount \in Nat, ListIndex(l.ware) \in D
  PROVE  Bought(st, l) \in Purses(D)
<1>. DEFINE k == ListIndex(l.ware)
            left == st.list[k].amount - l.amount
            rows == StoreRowsAfter(st.items, k, left)
            W == [Ware -> Int]
            L == [D -> Wish]
<1>1. st.buyer \in W /\ st.seller \in W /\ st.list \in L /\ st.items \in SUBSET WishRow(D)
  BY DEF Purses
<1>2. st.list[k] \in Wish
  BY <1>1
<1>3. left \in Int
  BY <1>2 DEF Wish
<1>. HIDE DEF left
<1>4. [st.list[k] EXCEPT !.amount = left] \in Wish
  BY <1>2, <1>3 DEF Wish
<1>5. [st.list EXCEPT ![k].amount = left] \in L
  <2>1. [st.list EXCEPT ![k].amount = left] = [st.list EXCEPT ![k] = [st.list[k] EXCEPT !.amount = left]]
    OBVIOUS
  <2>. HIDE DEF k
  <2>. QED BY <1>1, <1>4, <2>1
<1>6. Added(st.buyer, l.ware, l.amount) \in W
  BY <1>1, AddedStays
<1>7. [st.seller EXCEPT ![l.ware] = @ - l.amount] \in W
  BY <1>1
<1>8. rows \subseteq WishRow(D)
  <2>1. \A r \in WishRow(D) : [r EXCEPT !.item.amount = left] \in WishRow(D)
    <3>1. SUFFICES ASSUME NEW r \in WishRow(D) PROVE [r EXCEPT !.item.amount = left] \in WishRow(D)
      OBVIOUS
    <3>2. r = [index |-> r.index, item |-> r.item] /\ r.index \in D /\ r.item \in Wish
      BY DEF WishRow
    <3>3. [r.item EXCEPT !.amount = left] \in Wish
      BY <1>3, <3>2 DEF Wish
    <3>4. [r EXCEPT !.item.amount = left] = [index |-> r.index, item |-> [r.item EXCEPT !.amount = left]]
      BY <3>2
    <3>. QED BY <3>2, <3>3, <3>4 DEF WishRow
  <2>. QED BY <1>1, <2>1 DEF StoreRowsAfter
<1>9. Bought(st, l) = [buyer |-> Added(st.buyer, l.ware, l.amount),
                       seller |-> [st.seller EXCEPT ![l.ware] = @ - l.amount],
                       list |-> [st.list EXCEPT ![k].amount = left], items |-> rows]
  BY DEF Bought, left
<1>. HIDE DEF W, L, rows
<1>10. Bought(st, l) \in [buyer : W, seller : W, list : L, items : SUBSET WishRow(D)]
  BY <1>5, <1>6, <1>7, <1>8, <1>9
<1>. QED BY <1>10 DEF Purses, W, L

\* A trade with a store is a run of lines.
LEMMA PurchaseRun ==
  ASSUME NEW lines \in SaleLines, NEW D,
         [buyer |-> pocket[Merchant], seller |-> pocket[Customer],
          list |-> buyingstore.items, items |-> StoreRow.items] \in Purses(D),
         \A k \in 1 .. Len(lines) : ListIndex(lines[k].ware) \in D
  PROVE  \E bought : /\ PurchaseOf(lines) = bought[Len(lines)]
                     /\ bought[0] = [buyer |-> pocket[Merchant], seller |-> pocket[Customer],
                                     list |-> buyingstore.items, items |-> StoreRow.items]
                     /\ \A k \in 1 .. Len(lines) : bought[k] = Bought(bought[k - 1], lines[k])
                     /\ \A k \in 0 .. Len(lines) : bought[k] \in Purses(D)
<1>. DEFINE m == Len(lines)
            s == [buyer |-> pocket[Merchant], seller |-> pocket[Customer],
                  list |-> buyingstore.items, items |-> StoreRow.items]
            f == [k \in 1 .. m |-> [x \in Purses(D) |-> Bought(x, lines[k])]]
            Loop(a) == a = [k \in 0 .. m |-> IF k = 0 THEN s ELSE Bought(a[k - 1], lines[k])]
<1>1. m \in Nat /\ \A k \in 1 .. m : lines[k].ware \in Ware /\ lines[k].amount \in Nat
  BY SaleLinesAreSeq
<1>2. s \in Purses(D)
  OBVIOUS
<1>. HIDE DEF m, s
<1>3. \A k \in 1 .. m : \A x \in Purses(D) : Bought(x, lines[k]) \in Purses(D)
  <2>1. \A k \in 1 .. m : ListIndex(lines[k].ware) \in D
    BY DEF m
  <2>. QED BY <1>1, <2>1, BoughtStays
<1>4. \A k \in 1 .. m : \A x \in Purses(D) : f[k][x] = Bought(x, lines[k]) /\ f[k][x] \in Purses(D)
  BY <1>3
<1>. HIDE DEF f
<1>5. PICK g : g \in Turns(Purses(D), s, m, f)
  <2>1. Within(Purses(D), m, f)
    BY <1>4 DEF Within
  <2>. QED BY <1>1, <1>2, <2>1, LoopExists
<1>6. g \in [0 .. m -> Purses(D)] /\ g[0] = s /\ \A k \in 1 .. m : g[k] = f[k][g[k - 1]]
  BY <1>5 DEF Turns
<1>7. \A k \in 1 .. m : g[k] = Bought(g[k - 1], lines[k])
  <2>1. \A k \in 1 .. m : g[k - 1] \in Purses(D)
    BY <1>1, <1>6
  <2>. QED BY <1>4, <1>6, <2>1
<1>8. Loop(g)
  <2>1. \A k \in 0 .. m : k = 0 \/ k \in 1 .. m
    BY <1>1
  <2>. QED BY <1>6, <1>7, <2>1
<1>9. PICK a : a = (CHOOSE b : Loop(b))
  OBVIOUS
<1>10. Loop(a)
  BY <1>8, <1>9
<1>11. PurchaseOf(lines) = a[m]
  BY <1>9 DEF PurchaseOf, m, s
<1>12. a[0] = s /\ \A k \in 1 .. m : a[k] = Bought(a[k - 1], lines[k])
  <2>1. \A k \in 1 .. m : k \in 0 .. m /\ k # 0
    BY <1>1
  <2>2. 0 \in 0 .. m
    BY <1>1
  <2>. QED BY <1>10, <2>1, <2>2
<1>. HIDE DEF Loop
<1>13. \A k \in 0 .. m : a[k] \in Purses(D)
  <2>. DEFINE T == {k \in 0 .. m : a[k] \in Purses(D)}
  <2>1. 0 \in T
    BY <1>1, <1>2, <1>12
  <2>2. \A k \in 1 .. m : k - 1 \in T => k \in T
    BY <1>1, <1>3, <1>12
  <2>. HIDE DEF T
  <2>3. \A k \in 0 .. m : k \in T
    BY <1>1, <2>1, <2>2, TurnByTurn
  <2>. QED BY <2>3 DEF T
<1>. QED BY <1>11, <1>12, <1>13 DEF m, s

\* What holds after some lines of a trade: the rows are those of the list, and
\* the items of the lines to come are asked for as before.
Wishes(list, rows) ==
  /\ DOMAIN list = DOMAIN buyingstore.items
  /\ \A j \in DOMAIN list : list[j] \in Want /\ list[j].ware = buyingstore.items[j].ware
  /\ rows = RowsFor(list)

LEMMA OneMoreWish ==
  ASSUME NEW list, NEW rows, Wishes(list, rows), NEW k \in DOMAIN list, NEW n \in Nat,
         n > 0, n <= list[k].amount, NEW left, left = list[k].amount - n
  PROVE  Wishes([list EXCEPT ![k].amount = left], StoreRowsAfter(rows, k, left))
<1>. DEFINE x == [list[k] EXCEPT !.amount = left]
            new == [list EXCEPT ![k].amount = left]
            D == DOMAIN list
<1>1. list[k] \in Want /\ list[k].amount \in Nat
  BY DEF Wishes, Want
<1>2. left \in Nat
  BY <1>1
<1>3. x \in Want /\ x.amount = left /\ x.ware = list[k].ware
  BY <1>1, <1>2 DEF Want
<1>4. DOMAIN new = D /\ new[k] = x /\ \A j \in D : j # k => new[j] = list[j]
  OBVIOUS
<1>. HIDE DEF x, new
<1>5. \A j \in D : new[j] \in Want /\ new[j].ware = buyingstore.items[j].ware
  BY <1>3, <1>4 DEF Wishes
<1>6. rows = {[index |-> j, item |-> list[j]] : j \in {i \in D : list[i].amount > 0}}
  BY DEF Wishes, RowsFor
<1>7. \A j : [[index |-> j, item |-> list[k]] EXCEPT !.item.amount = left] = [index |-> j, item |-> x]
  BY DEF x
<1>8. list[k].amount > 0
  BY <1>1
<1>9. StoreRowsAfter(rows, k, left) = {[index |-> j, item |-> new[j]] : j \in {i \in D : new[i].amount > 0}}
  <2>1. ASSUME NEW r \in StoreRowsAfter(rows, k, left)
        PROVE  \E j \in D : new[j].amount > 0 /\ r = [index |-> j, item |-> new[j]]
    <3>1. CASE r \in rows /\ r.index # k
      <4>1. PICK j \in D : list[j].amount > 0 /\ r = [index |-> j, item |-> list[j]]
        BY <1>6, <3>1
      <4>2. j # k
        BY <3>1, <4>1
      <4>. QED BY <1>4, <4>1, <4>2
    <3>2. CASE left > 0 /\ \E q \in rows : q.index = k /\ r = [q EXCEPT !.item.amount = left]
      <4>1. PICK q \in rows : q.index = k /\ r = [q EXCEPT !.item.amount = left]
        BY <3>2
      <4>2. q = [index |-> k, item |-> list[k]]
        BY <1>6, <4>1
      <4>3. r = [index |-> k, item |-> x]
        BY <1>7, <4>1, <4>2
      <4>. QED BY <1>3, <1>4, <3>2, <4>3
    <3>. QED BY <2>1, <3>1, <3>2 DEF StoreRowsAfter
  <2>2. ASSUME NEW j \in D, new[j].amount > 0
        PROVE  [index |-> j, item |-> new[j]] \in StoreRowsAfter(rows, k, left)
    <3>1. CASE j # k
      <4>1. [index |-> j, item |-> list[j]] \in rows /\ new[j] = list[j]
        BY <1>4, <1>6, <2>2, <3>1
      <4>2. [index |-> j, item |-> list[j]].index # k
        BY <3>1
      <4>. QED BY <4>1, <4>2 DEF StoreRowsAfter
    <3>2. CASE j = k
      <4>1. [index |-> k, item |-> list[k]] \in rows /\ [index |-> k, item |-> list[k]].index = k
        BY <1>6, <1>8
      <4>2. left > 0 /\ [index |-> k, item |-> new[k]] = [[index |-> k, item |-> list[k]] EXCEPT !.item.amount = left]
        BY <1>3, <1>4, <1>7, <2>2, <3>2
      <4>. QED BY <3>2, <4>1, <4>2 DEF StoreRowsAfter
    <3>. QED BY <3>1, <3>2
  <2>. QED BY <2>1, <2>2
<1>10. Wishes(new, StoreRowsAfter(rows, k, left))
  BY <1>4, <1>5, <1>9 DEF Wishes, RowsFor
<1>. QED BY <1>10 DEF new

\* The list of a store after a trade, and its rows.
LEMMA PurchaseTells ==
  ASSUME ListOK(buyingstore.items), StoreRow.items = RowsFor(buyingstore.items),
         pocket \in [Person -> [Ware -> Int]],
         NEW lines \in SaleLines,
         \A k \in DOMAIN lines :
           StillWanted(lines[k]) /\ \A j \in DOMAIN lines : lines[j].ware = lines[k].ware => j = k
  PROVE  LET st == PurchaseOf(lines)
         IN  ListOK(st.list) /\ st.items = RowsFor(st.list) /\ st.buyer \in [Ware -> Int] /\ st.seller \in [Ware -> Int]
<1>. DEFINE m == Len(lines)
            D == DOMAIN buyingstore.items
            Index(k) == ListIndex(lines[k].ware)
            s == [buyer |-> pocket[Merchant], seller |-> pocket[Customer],
                  list |-> buyingstore.items, items |-> StoreRow.items]
<1>1. m \in Nat /\ DOMAIN lines = 1 .. m
      /\ \A k \in 1 .. m : lines[k].ware \in Ware /\ lines[k].amount \in Nat /\ lines[k].amount > 0
  BY SaleLinesAreSeq
<1>2. \A k \in 1 .. m : /\ Index(k) \in D /\ buyingstore.items[Index(k)].ware = lines[k].ware
                        /\ buyingstore.items[Index(k)].amount >= lines[k].amount
  <2>1. SUFFICES ASSUME NEW k \in 1 .. m
                 PROVE  /\ Index(k) \in D /\ buyingstore.items[Index(k)].ware = lines[k].ware
                        /\ buyingstore.items[Index(k)].amount >= lines[k].amount
    OBVIOUS
  <2>2. PICK j \in D : buyingstore.items[j].ware = lines[k].ware /\ buyingstore.items[j].amount >= lines[k].amount
    BY <1>1 DEF StillWanted
  <2>3. Index(k) = j
    BY <2>2 DEF ListIndex, ListOK
  <2>. QED BY <2>2, <2>3
<1>3. buyingstore.items \in [D -> Want] /\ Want \subseteq Wish
  BY DEF ListOK, Want, Wish
<1>4. s \in Purses(D)
  <2>1. buyingstore.items \in [D -> Wish]
    <3>1. \A j \in D : buyingstore.items[j] \in Wish
      BY <1>3
    <3>2. buyingstore.items = [j \in D |-> buyingstore.items[j]]
      BY <1>3
    <3>. HIDE DEF D
    <3>. QED BY <3>1, <3>2
  <2>2. RowsFor(buyingstore.items) \subseteq WishRow(D)
    BY <2>1 DEF RowsFor, WishRow
  <2>3. pocket[Merchant] \in [Ware -> Int] /\ pocket[Customer] \in [Ware -> Int]
    BY DEF Person
  <2>. HIDE DEF D
  <2>. QED BY <2>1, <2>2, <2>3 DEF Purses
<1>5. PICK bought : /\ PurchaseOf(lines) = bought[m] /\ bought[0] = s
                    /\ \A k \in 1 .. m : bought[k] = Bought(bought[k - 1], lines[k])
                    /\ \A k \in 0 .. m : bought[k] \in Purses(D)
  BY <1>2, <1>4, PurchaseRun
<1>. DEFINE T == {k \in 0 .. m : /\ Wishes(bought[k].list, bought[k].items)
                                 /\ \A i \in 1 .. m : i > k =>
                                      bought[k].list[Index(i)] = buyingstore.items[Index(i)]}
<1>. HIDE DEF Index
<1>6. 0 \in T
  <2>1. bought[0].list = buyingstore.items /\ bought[0].items = RowsFor(buyingstore.items)
    BY <1>5
  <2>2. Wishes(bought[0].list, bought[0].items)
    BY <1>3, <2>1 DEF Wishes
  <2>. QED BY <1>1, <2>1, <2>2
<1>7. ASSUME NEW k \in 1 .. m, k - 1 \in T PROVE k \in T
  <2>1. PICK x : x = bought[k - 1]
    OBVIOUS
  <2>2. /\ Wishes(x.list, x.items)
        /\ \A i \in 1 .. m : i > k - 1 => x.list[Index(i)] = buyingstore.items[Index(i)]
    BY <1>7, <2>1
  <2>3. k > k - 1 /\ k \in 0 .. m
    BY <1>1
  <2>4. x.list[Index(k)] = buyingstore.items[Index(k)] /\ DOMAIN x.list = D
    BY <2>2, <2>3 DEF Wishes
  <2>. DEFINE left == x.list[Index(k)].amount - lines[k].amount
  <2>5. bought[k].list = [x.list EXCEPT ![Index(k)].amount = left] /\ bought[k].items = StoreRowsAfter(x.items, Index(k), left)
    <3>1. bought[k] = Bought(x, lines[k])
      BY <1>5, <2>1
    <3>2. PICK y : y = Bought(x, lines[k])
      OBVIOUS
    <3>3. y.list = [x.list EXCEPT ![Index(k)].amount = left] /\ y.items = StoreRowsAfter(x.items, Index(k), left)
      BY <3>2 DEF Bought, Index
    <3>. QED BY <3>1, <3>2, <3>3
  <2>6. Wishes(bought[k].list, bought[k].items)
    <3>1. Index(k) \in DOMAIN x.list /\ lines[k].amount \in Nat /\ lines[k].amount > 0
          /\ lines[k].amount <= x.list[Index(k)].amount
      <4>2. Index(k) \in D /\ buyingstore.items[Index(k)].amount >= lines[k].amount
        BY <1>2 DEF Index
      <4>1. buyingstore.items[Index(k)].amount \in Nat
        <5>1. buyingstore.items[Index(k)] \in Want
          BY <1>3, <4>2
        <5>. QED BY <5>1 DEF Want
      <4>3. lines[k].amount \in Nat /\ lines[k].amount > 0
        BY <1>1
      <4>. QED BY <2>4, <4>1, <4>2, <4>3
    <3>2. PICK list, rows, j, n : list = x.list /\ rows = x.items /\ j = Index(k) /\ n = lines[k].amount
      OBVIOUS
    <3>3. Wishes(list, rows) /\ j \in DOMAIN list /\ n \in Nat /\ n > 0 /\ n <= list[j].amount
          /\ left = list[j].amount - n
      BY <2>2, <3>1, <3>2
    <3>. HIDE DEF left
    <3>4. Wishes([list EXCEPT ![j].amount = left], StoreRowsAfter(rows, j, left))
      BY <3>3, OneMoreWish
    <3>. QED BY <2>5, <3>2, <3>4
  <2>7. ASSUME NEW i \in 1 .. m, i > k PROVE bought[k].list[Index(i)] = buyingstore.items[Index(i)]
    <3>1. lines[i].ware # lines[k].ware
      BY <1>1, <2>7
    <3>2. Index(i) # Index(k)
      BY <1>2, <3>1 DEF Index
    <3>3. x.list[Index(i)] = buyingstore.items[Index(i)]
      BY <1>1, <2>2, <2>7
    <3>4. Index(i) \in DOMAIN x.list
      BY <1>2, <2>4 DEF Index
    <3>. HIDE DEF left
    <3>. QED BY <2>5, <3>2, <3>3, <3>4
  <2>. QED BY <2>3, <2>6, <2>7
<1>. HIDE DEF T
<1>8. \A k \in 0 .. m : k \in T
  BY <1>1, <1>6, <1>7, TurnByTurn
<1>9. PICK st : st = PurchaseOf(lines)
  OBVIOUS
<1>10. Wishes(st.list, st.items) /\ st \in Purses(D)
  BY <1>1, <1>5, <1>8, <1>9 DEF T
<1>11. ListOK(st.list)
  <2>1. \A j \in DOMAIN st.list : st.list[j] \in Want
    BY <1>10 DEF Wishes
  <2>2. st.list \in [D -> Wish] /\ DOMAIN st.list = D
    BY <1>10 DEF Purses, Wishes
  <2>3. st.list \in [DOMAIN st.list -> Want]
    <3>1. st.list = [j \in D |-> st.list[j]]
      BY <2>2
    <3>. HIDE DEF D
    <3>. QED BY <2>1, <2>2, <3>1
  <2>4. \A j, k \in DOMAIN st.list : st.list[j].ware = st.list[k].ware => j = k
    BY <1>10 DEF Wishes, ListOK
  <2>. QED BY <2>3, <2>4 DEF ListOK
<1>. QED BY <1>9, <1>10, <1>11 DEF Wishes, Purses

\* The items of a set one after the other.
LEMMA OneByOne ==
  ASSUME NEW S, IsFiniteSet(S), NEW order, order \in SetToSeqs(S)
  PROVE  /\ order \in [1 .. Cardinality(S) -> S] /\ Cardinality(S) \in Nat
         /\ Len(order) = Cardinality(S)
         /\ \A i, j \in 1 .. Cardinality(S) : order[i] = order[j] => i = j
         /\ \A x \in S : \E i \in 1 .. Cardinality(S) : order[i] = x
<1>. DEFINE n == Cardinality(S)
<1>1. n \in Nat /\ ExistsBijection(1 .. n, S)
  BY FS_CardinalityType
<1>2. order \in [1 .. n -> S] /\ \A i, j \in 1 .. n : order[i] = order[j] => i = j
  BY DEF SetToSeqs
<1>3. Len(order) = n
  BY <1>1, <1>2, ListIsSeq
<1>4. order \in Injection(1 .. n, S)
  BY <1>2 DEF Injection, IsInjective
<1>5. PICK k \in Nat : k = n
  BY <1>1
<1>6. Cardinality(1 .. k) = Cardinality(S)
  BY <1>1, <1>5, FS_CountingElements, FS_Interval, FS_Bijection
<1>7. order \in Surjection(1 .. k, S)
  BY <1>4, <1>5, <1>6, FS_Injection
<1>8. \A x \in S : \E i \in 1 .. n : order[i] = x
  BY <1>5, <1>7 DEF Surjection
<1>. QED BY <1>1, <1>2, <1>3, <1>8

LEMMA SeqOfSet ==
  ASSUME NEW S, IsFiniteSet(S)
  PROVE  SetToSeq(S) \in SetToSeqs(S)
<1>. DEFINE n == Cardinality(S)
            Good(f) == f \in [1 .. n -> S] /\ IsInjective(f)
<1>1. ExistsBijection(1 .. n, S)
  BY FS_CardinalityType
<1>2. PICK f \in Bijection(1 .. n, S) : TRUE
  BY <1>1 DEF ExistsBijection
<1>3. Good(f)
  BY <1>2 DEF Bijection, Injection
<1>4. Good(SetToSeq(S))
  <2>1. SetToSeq(S) = CHOOSE g \in [1 .. n -> S] : IsInjective(g)
    BY DEF SetToSeq
  <2>. HIDE DEF n
  <2>. QED BY <1>3, <2>1
<1>. QED BY <1>4 DEF SetToSeqs, IsInjective

LEMMA CellCount ==
  /\ IsFiniteSet(CartCells) /\ Cardinality(CartCells) = Cardinality(Ware)
  /\ \A S \in SUBSET CartCells : IsFiniteSet(S) /\ Cardinality(S) \in Nat /\ Cardinality(S) <= Cardinality(Ware)
<1>1. IsFiniteSet(CartCells) /\ Cardinality(CartCells) = Cardinality(Ware)
  BY WareCount, FS_Interval DEF CartCells
<1>. QED BY <1>1, FS_Subset, FS_CardinalityType

\* A cart that is loaded has what was saved, in other cells.
LEMMA Packed ==
  ASSUME NEW crt, CartOK(crt), NEW new, new \in Packings(crt)
  PROVE  /\ CartOK(new)
         /\ \A c \in CartCells : crt[c].ware # NoWare =>
              \E d \in CartCells : new[d].ware = crt[c].ware /\ new[d].amount = crt[c].amount
<1>. DEFINE N == [ware : Ware \union {NoWare}, amount : Nat, numbered : BOOLEAN]
            used == {c \in CartCells : crt[c].ware # NoWare}
            n == Cardinality(used)
<1>1. PICK order \in SetToSeqs(used) :
        new = [c \in CartCells |-> IF c <= Len(order) THEN [crt[order[c]] EXCEPT !.numbered = TRUE]
                                   ELSE EmptyCell]
  BY DEF Packings
<1>2. IsFiniteSet(used) /\ n \in Nat /\ n <= Cardinality(Ware)
  BY CellCount
<1>3. /\ order \in [1 .. n -> used] /\ Len(order) = n
      /\ \A i, j \in 1 .. n : order[i] = order[j] => i = j
      /\ \A x \in used : \E i \in 1 .. n : order[i] = x
  <2>1. order \in SetToSeqs(used)
    OBVIOUS
  <2>. HIDE DEF used
  <2>. QED BY <1>2, <2>1, OneByOne
<1>4. CartCells = 1 .. Cardinality(Ware) /\ Cardinality(Ware) \in Nat
  BY WareCount DEF CartCells
<1>5. crt \in [CartCells -> N] /\ \A c, d \in CartCells : crt[c].ware # NoWare /\ crt[c].ware = crt[d].ware => c = d
  BY DEF CartOK
<1>6. \A c \in CartCells : crt[c] \in N
  BY <1>5
<1>7. \A c \in CartCells : /\ [crt[c] EXCEPT !.numbered = TRUE] \in N
                           /\ [crt[c] EXCEPT !.numbered = TRUE].ware = crt[c].ware
                           /\ [crt[c] EXCEPT !.numbered = TRUE].amount = crt[c].amount
  BY <1>6
<1>8. EmptyCell \in N /\ EmptyCell.ware = NoWare
  BY DEF EmptyCell
<1>. HIDE DEF N, n
<1>9. \A c \in CartCells : c <= n => c \in 1 .. n /\ order[c] \in used /\ order[c] \in CartCells
  BY <1>2, <1>3, <1>4
<1>10. \A c \in CartCells : c <= n => new[c] \in N /\ new[c].ware = crt[order[c]].ware /\ new[c].amount = crt[order[c]].amount
  BY <1>1, <1>3, <1>7, <1>9
<1>11. \A c \in CartCells : ~(c <= n) => new[c] \in N /\ new[c].ware = NoWare
  BY <1>1, <1>3, <1>8
<1>12. new \in [CartCells -> N]
  BY <1>1, <1>10, <1>11
<1>13. ASSUME NEW c \in CartCells, NEW d \in CartCells, new[c].ware # NoWare, new[c].ware = new[d].ware
       PROVE  c = d
  <2>1. c <= n /\ d <= n
    BY <1>11, <1>13
  <2>2. order[c] = order[d]
    BY <1>5, <1>9, <1>10, <1>13, <2>1
  <2>. QED BY <1>3, <1>9, <2>1, <2>2
<1>14. ASSUME NEW c \in CartCells, crt[c].ware # NoWare
       PROVE  \E d \in CartCells : new[d].ware = crt[c].ware /\ new[d].amount = crt[c].amount
  <2>1. PICK i \in 1 .. n : order[i] = c
    BY <1>3, <1>14
  <2>2. i \in CartCells /\ i <= n
    BY <1>2, <1>4, <2>1
  <2>. QED BY <1>10, <2>1, <2>2
<1>. QED BY <1>12, <1>13, <1>14 DEF CartOK, N

LEMMA RowsFound ==
  ASSUME NEW rows, NEW list, NEW crt, CartOK(crt), OffersOK(list, crt), Tells(rows, list, crt),
         NEW new, new \in Packings(crt)
  PROVE  FoundOK(rows, new)
<1>1. rows \in Seq([ware : Ware, amount : Nat, value : Nat]) /\ WaresOnce(rows)
  BY DEF Tells
<1>2. ASSUME NEW k \in 1 .. Len(rows)
      PROVE  \E c \in CartCells : new[c].ware = rows[k].ware /\ rows[k].amount \in 1 .. new[c].amount
  <2>1. PICK n \in 1 .. Len(list) : rows[k] = RowFor(list[n], crt)
    BY DEF Tells
  <2>2. list \in Seq(Entries)
    BY DEF OffersOK, Entries
  <2>3. list[n].index \in CartCells
    BY <2>2, EntriesTyped
  <2>4. /\ crt[list[n].index].ware # NoWare
        /\ list[n].amount \in 1 .. crt[list[n].index].amount
    BY DEF OffersOK
  <2>5. rows[k].ware = crt[list[n].index].ware /\ rows[k].amount = list[n].amount
    BY <2>1 DEF RowFor
  <2>6. PICK c \in CartCells : /\ new[c].ware = crt[list[n].index].ware
                               /\ new[c].amount = crt[list[n].index].amount
    BY <2>3, <2>4, Packed
  <2>. QED BY <2>4, <2>5, <2>6
<1>. QED BY <1>1, <1>2 DEF FoundOK

\* What a shop that opens is asked for.
Asked(request) ==
  /\ request \in Seq(Entries)
  /\ \A m, n \in 1 .. Len(request) : request[m].index = request[n].index => m = n
  /\ \A n \in 1 .. Len(request) : request[n].amount > 0 /\ Sellable(request[n])

LEMMA RequestAsks ==
  ASSUME NEW items, CartOK(cart), FoundOK(items, cart)
  PROVE  Asked(RequestOf(items)) /\ Len(RequestOf(items)) = Len(items)
<1>. DEFINE R == [ware : Ware, amount : Nat, value : Nat]
            Index(n) == CHOOSE c \in CartCells : cart[c].ware = items[n].ware
            r == [n \in 1 .. Len(items) |-> [index |-> Index(n), amount |-> items[n].amount, value |-> items[n].value]]
<1>1. items \in Seq(R) /\ WaresOnce(items) /\ Len(items) \in Nat /\ DOMAIN items = 1 .. Len(items)
  <2>1. items \in Seq(R) /\ WaresOnce(items)
    BY DEF FoundOK
  <2>. HIDE DEF R
  <2>. QED BY <2>1
<1>2. \A n \in 1 .. Len(items) : items[n] \in R
  <2>. HIDE DEF R
  <2>. QED BY <1>1
<1>3. \A n \in 1 .. Len(items) : items[n].ware \in Ware /\ items[n].amount \in Nat /\ items[n].value \in Nat
  BY <1>2
<1>4. \A n \in 1 .. Len(items) :
        \E c \in CartCells : cart[c].ware = items[n].ware /\ items[n].amount \in 1 .. cart[c].amount
  BY DEF FoundOK
<1>5. \A n \in 1 .. Len(items) :
        Index(n) \in CartCells /\ cart[Index(n)].ware = items[n].ware /\ items[n].amount \in 1 .. cart[Index(n)].amount
  <2>1. SUFFICES ASSUME NEW n \in 1 .. Len(items)
                 PROVE  Index(n) \in CartCells /\ cart[Index(n)].ware = items[n].ware
                          /\ items[n].amount \in 1 .. cart[Index(n)].amount
    OBVIOUS
  <2>2. PICK c \in CartCells : cart[c].ware = items[n].ware /\ items[n].amount \in 1 .. cart[c].amount
    BY <1>4
  <2>3. items[n].ware # NoWare
    BY <1>3, ShopAssumption DEF ShopAssumption
  <2>4. Index(n) = c
    BY <2>2, <2>3 DEF CartOK
  <2>. QED BY <2>2, <2>4
<1>6. Selected(items, {n \in DOMAIN items : FoundInCart(items[n])}) = items
  <2>1. 1 .. Len(items) \subseteq {n \in DOMAIN items : FoundInCart(items[n])}
    BY <1>1, <1>4 DEF FoundInCart
  <2>. QED BY <1>1, <2>1, SelectedArePicked
<1>7. RequestOf(items) = r
  BY <1>1, <1>6 DEF RequestOf
<1>. HIDE DEF Index
<1>8. \A n \in 1 .. Len(items) : r[n] \in Entries
  BY <1>3, <1>5 DEF Entries
<1>9. r \in Seq(Entries) /\ Len(r) = Len(items)
  <2>1. r \in [1 .. Len(items) -> Entries]
    BY <1>8
  <2>. QED BY <1>1, <2>1, ListIsSeq
<1>10. \A n \in 1 .. Len(items) : r[n].index = Index(n) /\ r[n].amount = items[n].amount
  OBVIOUS
<1>. HIDE DEF r
<1>11. ASSUME NEW m \in 1 .. Len(items), NEW n \in 1 .. Len(items), r[m].index = r[n].index PROVE m = n
  <2>1. items[m].ware = items[n].ware
    BY <1>5, <1>10, <1>11
  <2>. QED BY <1>1, <2>1 DEF WaresOnce
<1>12. ASSUME NEW n \in 1 .. Len(items) PROVE r[n].amount > 0 /\ Sellable(r[n])
  <2>1. cart[Index(n)].amount \in Nat
    BY <1>5 DEF CartOK
  <2>2. cart[Index(n)].ware # NoWare
    BY <1>3, <1>5, ShopAssumption DEF ShopAssumption
  <2>. QED BY <1>5, <1>10, <2>1, <2>2 DEF Sellable
<1>. QED BY <1>7, <1>9, <1>11, <1>12 DEF Asked

\* A shop that opens offers what it was asked for, and its rows say so.
LEMMA OpenedTells ==
  ASSUME CartOK(cart), NEW request, Asked(request), NEW auto, vendings = {},
         Opened(request, Len(request), auto)
  PROVE  /\ vending' = request /\ OffersOK(request, cart)
         /\ vender_id' = nextid + 1 /\ nextid' = nextid + 1
         /\ \E r : /\ vendings' = {r} /\ r = [id |-> nextid + 1, auto |-> auto, items |-> r.items]
                   /\ Tells(r.items, request, cart)
<1>. DEFINE n == Len(request)
            rows == [k \in 1 .. n |-> RowOf(request[k])]
<1>1. /\ n \in Nat /\ DOMAIN request = 1 .. n
      /\ \A k \in 1 .. n : /\ request[k] \in Entries /\ request[k].index \in CartCells
                           /\ request[k].amount \in Nat /\ request[k].value \in Nat
  BY EntriesTyped DEF Asked
<1>2. SellableOf(request) = request
  <2>1. 1 .. n \subseteq {k \in DOMAIN request : Sellable(request[k])}
    BY <1>1 DEF Asked
  <2>. QED BY <2>1, SelectedArePicked DEF SellableOf, Asked
<1>3. /\ vending' = request /\ vender_id' = nextid + 1 /\ nextid' = nextid + 1
      /\ \E rest : vendings' = {[id |-> nextid + 1, auto |-> auto,
                                 items |-> [k \in 1 .. n |-> IF k <= n THEN RowOf(request[k]) ELSE rest[k]]]}
  BY <1>2 DEF Opened
<1>4. \A rest : [k \in 1 .. n |-> IF k <= n THEN RowOf(request[k]) ELSE rest[k]] = rows
  BY <1>1
<1>5. vendings' = {[id |-> nextid + 1, auto |-> auto, items |-> rows]}
  BY <1>3, <1>4
<1>6. \A k \in 1 .. n : /\ cart[request[k].index].ware # NoWare /\ request[k].amount > 0
                        /\ request[k].amount <= cart[request[k].index].amount
                        /\ cart[request[k].index].ware \in Ware /\ cart[request[k].index].amount \in Nat
  <2>1. \A c \in CartCells : cart[c].ware \in Ware \union {NoWare} /\ cart[c].amount \in Nat
    BY DEF CartOK
  <2>. QED BY <1>1, <2>1 DEF Asked, Sellable
<1>7. OffersOK(request, cart)
  <2>1. request \in Seq([index : CartCells, amount : Nat, value : Nat])
    BY DEF Asked, Entries
  <2>2. \A k \in 1 .. n : cart[request[k].index].ware # NoWare /\ request[k].amount \in 1 .. cart[request[k].index].amount
    BY <1>1, <1>6
  <2>3. \A j, k \in 1 .. n : request[j].index = request[k].index => j = k
    BY DEF Asked
  <2>. QED BY <2>1, <2>2, <2>3 DEF OffersOK
<1>8. \A k \in 1 .. n : RowOf(request[k]) = RowFor(request[k], cart)
  BY DEF RowOf, RowFor
<1>9. \A k \in 1 .. n : RowOf(request[k]) \in RowSet
  BY <1>1, <1>6 DEF RowOf, RowSet
<1>10. rows \in Seq(RowSet) /\ Len(rows) = n
  <2>1. rows \in [1 .. n -> RowSet]
    BY <1>9
  <2>. QED BY <1>1, <2>1, ListIsSeq
<1>11. \A k \in 1 .. n : rows[k] = RowFor(request[k], cart) /\ rows[k].ware = cart[request[k].index].ware
  BY <1>8 DEF RowFor
<1>. HIDE DEF rows
<1>12. WaresOnce(rows)
  <2>1. ASSUME NEW j \in 1 .. n, NEW k \in 1 .. n, rows[j].ware = rows[k].ware PROVE j = k
    <3>1. request[j].index = request[k].index
      BY <1>1, <1>6, <1>11, <2>1 DEF CartOK
    <3>. QED BY <3>1 DEF Asked
  <2>. QED BY <1>10, <2>1 DEF WaresOnce
<1>13. Tells(rows, request, cart)
  <2>1. rows \in Seq([ware : Ware, amount : Nat, value : Nat])
    BY <1>10 DEF RowSet
  <2>2. \A k \in 1 .. n : request[k].amount > 0 => \E j \in 1 .. Len(rows) : rows[j] = RowFor(request[k], cart)
    BY <1>10, <1>11
  <2>3. \A j \in 1 .. Len(rows) : \E k \in 1 .. n : request[k].amount > 0 /\ rows[j] = RowFor(request[k], cart)
    BY <1>6, <1>10, <1>11
  <2>. QED BY <1>12, <2>1, <2>2, <2>3 DEF Tells
<1>14. PICK r : r = [id |-> nextid + 1, auto |-> auto, items |-> rows]
  OBVIOUS
<1>15. r.items = rows /\ vendings' = {r}
  BY <1>5, <1>14
<1>16. r = [id |-> nextid + 1, auto |-> auto, items |-> r.items] /\ Tells(r.items, request, cart)
  BY <1>13, <1>14, <1>15
<1>. QED BY <1>3, <1>7, <1>15, <1>16

LEMMA WithIsPerson == Merchant \in Person /\ Customer \in Person
BY DEF Person

\* What a save leaves in the tables.
LEMMA SaveOneStays ==
  ASSUME SavedOK, WealthOK', NEW p \in Person, SaveOne(p)
  PROVE  SavedOK' /\ saved'.cart = IF p = Merchant THEN cart' ELSE saved.cart
<1>1. pocket'[p] \in [Ware -> Int] /\ cash'[p] \in Int
  BY DEF WealthOK
<1>2. [saved.pocket EXCEPT ![p] = pocket'[p]] \in [Person -> [Ware -> Int]]
  BY <1>1 DEF SavedOK
<1>3. [saved.cash EXCEPT ![p] = cash'[p]] \in [Person -> Int]
  BY <1>1 DEF SavedOK
<1>4. /\ saved' = [pocket |-> saved'.pocket, cash |-> saved'.cash, cart |-> saved'.cart]
      /\ saved'.pocket = [saved.pocket EXCEPT ![p] = pocket'[p]]
      /\ saved'.cash = [saved.cash EXCEPT ![p] = cash'[p]]
      /\ saved'.cart = IF p = Merchant THEN cart' ELSE saved.cart
  BY DEF SaveOne
<1>5. CartOK(saved'.cart)
  BY <1>4 DEF SavedOK, WealthOK
<1>. QED BY <1>2, <1>3, <1>4, <1>5 DEF SavedOK

LEMMA SaveBothStays ==
  ASSUME WealthOK', SaveBoth
  PROVE  SavedOK' /\ saved'.cart = cart'
<1>1. /\ saved' = [pocket |-> saved'.pocket, cash |-> saved'.cash, cart |-> saved'.cart]
      /\ saved'.pocket = pocket' /\ saved'.cash = cash' /\ saved'.cart = cart'
  BY DEF SaveBoth
<1>2. CartOK(saved'.cart)
  BY <1>1 DEF WealthOK
<1>. QED BY <1>1, <1>2 DEF SavedOK, WealthOK

\* Wealth that nobody touches.
LEMMA WealthStays ==
  ASSUME WealthOK, UNCHANGED wealth
  PROVE  WealthOK'
BY DEF WealthOK, wealth, CartOK

\* A shop that nobody touches.
LEMMA ShopStays ==
  ASSUME ShopOK, UNCHANGED shop,
         Vends => cart' = cart /\ saved'.cart = cart' /\ ~Buys' /\ presence' = presence /\ nextid' = nextid
  PROVE  ShopOK'
<1>1. Vends' <=> Vends
  BY DEF Vends, shop
<1>2. CASE Vends
  <2>1. /\ presence \in {"here", "autotrade"} /\ vender_id <= nextid /\ OffersOK(vending, cart)
        /\ \E r \in vendings : /\ vendings = {r}
                               /\ r = [id |-> vender_id, auto |-> (presence = "autotrade"), items |-> r.items]
                               /\ Tells(r.items, vending, cart)
    BY <1>2 DEF ShopOK
  <2>2. /\ cart' = cart /\ saved'.cart = cart' /\ ~Buys' /\ presence' = presence /\ nextid' = nextid
        /\ vending' = vending /\ vender_id' = vender_id /\ vendings' = vendings
    BY <1>2 DEF shop
  <2>3. OffersOK(vending, cart)' /\ \A x : Tells(x, vending', cart') <=> Tells(x, vending, cart)
    BY <2>1, <2>2 DEF OffersOK
  <2>. QED BY <1>1, <1>2, <2>1, <2>2, <2>3 DEF ShopOK
<1>3. CASE ~Vends
  BY <1>1, <1>3 DEF ShopOK, shop
<1>. QED BY <1>2, <1>3

LEMMA RowsGone ==
  ASSUME ShopOK
  PROVE  RowsWithout(vendings, vender_id) = {}
<1>1. CASE Vends
  <2>1. PICK r \in vendings : vendings = {r} /\ r = [id |-> vender_id, auto |-> (presence = "autotrade"), items |-> r.items]
    BY <1>1 DEF ShopOK
  <2>2. r.id = vender_id
    BY <2>1
  <2>. QED BY <2>1, <2>2 DEF RowsWithout
<1>2. CASE ~Vends
  BY <1>2 DEF ShopOK, RowsWithout
<1>. QED BY <1>1, <1>2

\* A shop that closes.
LEMMA ShopGoes ==
  ASSUME ShopOK, vender_id' = 0, vending' = <<>>, vendings' = RowsWithout(vendings, vender_id)
  PROVE  ShopOK'
BY RowsGone DEF ShopOK, Vends

\* A store that nobody touches.
LEMMA RowHolds ==
  ASSUME IdsOK, nextid' \in Nat, nextid' >= nextid, NEW r, RowOK(r)
  PROVE  RowOK(r)'
BY DEF RowOK, IdsOK, StoreItems, Want

LEMMA StoreStays ==
  ASSUME IdsOK, StoreOK, UNCHANGED <<store, nextid>>, Buys => presence' = presence
  PROVE  StoreOK'
<1>1. \A r \in buyingstores' : RowOK(r)'
  BY RowHolds DEF StoreOK, store, IdsOK
<1>2. CASE Buys
  <2>1. /\ buyingstore' = buyingstore /\ buyer_id' = buyer_id /\ buyingstores' = buyingstores
        /\ nextid' = nextid /\ presence' = presence
    BY <1>2 DEF store
  <2>. QED BY <1>1, <1>2, <2>1 DEF StoreOK, Buys, ListOK, RowsFor, Want
<1>3. CASE ~Buys
  BY <1>1, <1>3 DEF StoreOK, Buys, store
<1>. QED BY <1>2, <1>3

\* A store that closes, whether or not its row is removed.
LEMMA StoreGoes ==
  ASSUME IdsOK, StoreOK, buyer_id' = 0, buyingstores' \subseteq buyingstores,
         nextid' \in Nat, nextid' >= nextid
  PROVE  StoreOK'
<1>1. \A r \in buyingstores' : RowOK(r)'
  BY RowHolds DEF StoreOK
<1>. QED BY <1>1 DEF StoreOK, Buys

LEMMA LoadingStays ==
  ASSUME LoadingOK, presence' = presence, UNCHANGED <<cart, autotrader>>
  PROVE  LoadingOK'
BY DEF LoadingOK, FoundOK, StoreItems, Want

LEMMA NotLoading ==
  ASSUME presence' # "loading"
  PROVE  LoadingOK'
BY DEF LoadingOK

-----------------------------------------------------------------------------
(* Steps that leave shops and stores alone *)

NatBox == [ware : Ware \union {NoWare}, amount : Nat, numbered : BOOLEAN]

LEMMA BoxesTyped ==
  ASSUME CartOK(cart)
  PROVE  /\ cart \in [CartCells -> NatBox]
         /\ \A c \in CartCells : /\ cart[c] \in NatBox /\ cart[c].ware \in Ware \union {NoWare}
                                 /\ cart[c].amount \in Nat
         /\ EmptyCell \in NatBox /\ EmptyCell.ware = NoWare
<1>1. cart \in [CartCells -> NatBox]
  BY DEF CartOK, NatBox
<1>2. \A c \in CartCells : cart[c] \in NatBox
  BY <1>1
<1>3. EmptyCell \in NatBox /\ EmptyCell.ware = NoWare
  BY DEF EmptyCell, NatBox
<1>. QED BY <1>1, <1>2, <1>3 DEF NatBox

\* A cell gets other pieces: those of an item that no other cell has.
LEMMA CellFilled ==
  ASSUME CartOK(cart), NEW c \in CartCells, NEW box \in NatBox,
         box.ware # NoWare => \A d \in CartCells : cart[d].ware = box.ware => d = c
  PROVE  CartOK([cart EXCEPT ![c] = box])
<1>. DEFINE new == [cart EXCEPT ![c] = box]
<1>1. new \in [CartCells -> NatBox] /\ new[c] = box /\ \A d \in CartCells : d # c => new[d] = cart[d]
  BY BoxesTyped
<1>. HIDE DEF new
<1>2. \A d, e \in CartCells : new[d].ware # NoWare /\ new[d].ware = new[e].ware => d = e
  BY <1>1 DEF CartOK
<1>3. CartOK(new)
  BY <1>1, <1>2 DEF CartOK, NatBox
<1>. QED BY <1>3 DEF new

LEMMA PocketSet ==
  ASSUME WealthOK, NEW p \in Person, NEW w \in Ware, NEW n \in Int
  PROVE  /\ pocket[p][w] \in Int
         /\ [pocket EXCEPT ![p][w] = n] \in [Person -> [Ware -> Int]]
         /\ [pocket EXCEPT ![p][w] = @ + n] \in [Person -> [Ware -> Int]]
<1>1. pocket \in [Person -> [Ware -> Int]] /\ pocket[p] \in [Ware -> Int] /\ pocket[p][w] \in Int
  BY DEF WealthOK
<1>2. \A m \in Int : [pocket EXCEPT ![p][w] = m] \in [Person -> [Ware -> Int]]
  BY <1>1
<1>3. [pocket EXCEPT ![p][w] = @ + n] = [pocket EXCEPT ![p][w] = pocket[p][w] + n]
  OBVIOUS
<1>4. pocket[p][w] + n \in Int
  BY <1>1
<1>. QED BY <1>1, <1>2, <1>3, <1>4

LEMMA PutItemToCartKeeps ==
  ASSUME ShopInv, NEW w \in Ware, PutItemToCart(w)
  PROVE  ShopInv'
<1>. DEFINE n == pocket[Merchant][w]
<1>1. n \in Int /\ n > 0
  <2>1. pocket[Merchant][w] \in Int
    BY PocketSet, WithIsPerson DEF ShopInv
  <2>. QED BY <2>1 DEF PutItemToCart
<1>2. n \in Nat
  BY <1>1
<1>3. CartOK(cart)
  BY DEF ShopInv, WealthOK
<1>4. w # NoWare
  BY ShopAssumption DEF ShopAssumption
<1>. HIDE DEF n
<1>5. CartOK(cart')
  <2>1. CASE \E c \in CartCells : cart[c].ware = w /\ cart' = [cart EXCEPT ![c].amount = @ + n]
    <3>1. PICK c \in CartCells : cart[c].ware = w /\ cart' = [cart EXCEPT ![c].amount = @ + n]
      BY <2>1
    <3>. DEFINE box == [cart[c] EXCEPT !.amount = @ + n]
    <3>2. cart' = [cart EXCEPT ![c] = box]
      BY <3>1
    <3>3. box \in NatBox /\ box.ware = w
      BY <1>2, <1>3, <3>1, BoxesTyped DEF NatBox
    <3>. HIDE DEF box
    <3>4. \A d \in CartCells : cart[d].ware = w => d = c
      BY <1>3, <1>4, <3>1 DEF CartOK
    <3>. QED BY <1>3, <3>2, <3>3, <3>4, CellFilled
  <2>2. CASE /\ \A c \in CartCells : cart[c].ware # w
             /\ \E c \in CartCells : cart' = [cart EXCEPT ![c] = [ware |-> w, amount |-> n, numbered |-> FALSE]]
    <3>1. PICK c \in CartCells : cart' = [cart EXCEPT ![c] = [ware |-> w, amount |-> n, numbered |-> FALSE]]
      BY <2>2
    <3>2. [ware |-> w, amount |-> n, numbered |-> FALSE] \in NatBox
      BY <1>2 DEF NatBox
    <3>. QED BY <1>3, <2>2, <3>1, <3>2, CellFilled
  <2>. QED BY <2>1, <2>2 DEF PutItemToCart, n
<1>6. WealthOK'
  <2>1. pocket' \in [Person -> [Ware -> Int]] /\ cash' = cash
    <3>1. pocket' = [pocket EXCEPT ![Merchant][w] = 0] /\ cash' = cash
      BY DEF PutItemToCart
    <3>2. [pocket EXCEPT ![Merchant][w] = 0] \in [Person -> [Ware -> Int]]
      BY PocketSet, WithIsPerson DEF ShopInv
    <3>. QED BY <3>1, <3>2
  <2>. QED BY <1>5, <2>1 DEF WealthOK, ShopInv
<1>7. ~Vends /\ ~Buys /\ presence = "here" /\ UNCHANGED <<saved, shop, store, whereabouts>>
  BY DEF PutItemToCart, Idle
<1>8. ShopOK' /\ StoreOK' /\ LoadingOK'
  BY <1>7, ShopStays, StoreStays, NotLoading DEF ShopInv, whereabouts
<1>9. SavedOK' /\ IdsOK'
  BY <1>7 DEF ShopInv, SavedOK, IdsOK, whereabouts, shop, store, CartOK
<1>. QED BY <1>6, <1>8, <1>9 DEF ShopInv

LEMMA GetItemFromCartKeeps ==
  ASSUME ShopInv, NEW c \in CartCells, GetItemFromCart(c)
  PROVE  ShopInv'
<1>1. CartOK(cart)
  BY DEF ShopInv, WealthOK
<1>2. cart[c].ware \in Ware /\ cart[c].amount \in Nat
  BY <1>1, BoxesTyped DEF GetItemFromCart
<1>3. CartOK(cart')
  <2>1. cart' = [cart EXCEPT ![c] = EmptyCell]
    BY <1>2 DEF GetItemFromCart, Without
  <2>. QED BY <1>1, <2>1, BoxesTyped, CellFilled
<1>4. WealthOK'
  <2>1. pocket' \in [Person -> [Ware -> Int]] /\ cash' = cash
    <3>1. /\ pocket' = [pocket EXCEPT ![Merchant][cart[c].ware] = @ + cart[c].amount]
          /\ cash' = cash
      BY DEF GetItemFromCart
    <3>2. cart[c].amount \in Int
      BY <1>2
    <3>3. [pocket EXCEPT ![Merchant][cart[c].ware] = @ + cart[c].amount] \in [Person -> [Ware -> Int]]
      BY <1>2, <3>2, PocketSet, WithIsPerson DEF ShopInv
    <3>. QED BY <3>1, <3>3
  <2>. QED BY <1>3, <2>1 DEF WealthOK, ShopInv
<1>5. ~Vends /\ presence = "here" /\ UNCHANGED <<saved, shop, store, whereabouts>>
  BY DEF GetItemFromCart, MayUseCart
<1>6. ShopOK' /\ StoreOK' /\ LoadingOK'
  BY <1>5, ShopStays, StoreStays, NotLoading DEF ShopInv, whereabouts
<1>7. SavedOK' /\ IdsOK'
  BY <1>5 DEF ShopInv, SavedOK, IdsOK, whereabouts, shop, store, CartOK
<1>. QED BY <1>4, <1>6, <1>7 DEF ShopInv

LEMMA SpendElsewhereKeeps ==
  ASSUME ShopInv, SpendElsewhere
  PROVE  ShopInv'
<1>1. presence = "here" /\ Buys /\ UNCHANGED <<pocket, cart, saved, shop, store, whereabouts>>
  BY DEF SpendElsewhere
<1>2. WealthOK'
  <2>1. cash' \in [Person -> Int]
    BY WithIsPerson DEF ShopInv, WealthOK, SpendElsewhere
  <2>. QED BY <1>1, <2>1 DEF ShopInv, WealthOK, CartOK
<1>3. ~Vends
  BY <1>1 DEF ShopInv, ShopOK
<1>4. ShopOK' /\ StoreOK' /\ LoadingOK'
  BY <1>1, <1>3, ShopStays, StoreStays, NotLoading DEF ShopInv, whereabouts
<1>5. SavedOK' /\ IdsOK'
  BY <1>1 DEF ShopInv, SavedOK, IdsOK, whereabouts, shop, store, CartOK
<1>. QED BY <1>2, <1>4, <1>5 DEF ShopInv

LEMMA IdsStay ==
  ASSUME IdsOK, UNCHANGED <<shop, store, whereabouts>>
  PROVE  IdsOK'
BY DEF IdsOK, shop, store, whereabouts

LEMMA VendsNotBuys ==
  ASSUME ShopInv, Vends
  PROVE  ~Buys /\ saved.cart = cart /\ presence \in {"here", "autotrade"} /\ vender_id <= nextid
BY DEF ShopInv, ShopOK

LEMMA AutosaveKeeps ==
  ASSUME ShopInv, NEW p \in Person, Autosave(p)
  PROVE  ShopInv'
<1>1. UNCHANGED <<wealth, shop, store, whereabouts>> /\ SaveOne(p)
  BY DEF Autosave
<1>2. WealthOK' /\ IdsOK'
  BY <1>1, WealthStays, IdsStay DEF ShopInv
<1>3. SavedOK' /\ saved'.cart = IF p = Merchant THEN cart' ELSE saved.cart
  BY <1>1, <1>2, SaveOneStays DEF ShopInv
<1>4. cart' = cart /\ presence' = presence /\ nextid' = nextid /\ autotrader' = autotrader /\ buyer_id' = buyer_id
  BY <1>1 DEF wealth, whereabouts, store
<1>5. ShopOK'
  <2>1. Vends => saved'.cart = cart' /\ ~Buys'
    BY <1>3, <1>4, VendsNotBuys DEF Buys
  <2>. QED BY <1>1, <1>4, <2>1, ShopStays DEF ShopInv
<1>6. StoreOK' /\ LoadingOK'
  BY <1>1, <1>4, StoreStays, LoadingStays DEF ShopInv
<1>. QED BY <1>2, <1>3, <1>5, <1>6 DEF ShopInv

LEMMA ViewKeeps ==
  ASSUME ShopInv, UNCHANGED <<wealth, saved, shop, store, whereabouts>>
  PROVE  ShopInv'
<1>1. WealthOK' /\ IdsOK'
  BY WealthStays, IdsStay DEF ShopInv
<1>2. SavedOK'
  BY DEF ShopInv, SavedOK, CartOK
<1>3. cart' = cart /\ presence' = presence /\ nextid' = nextid /\ autotrader' = autotrader /\ buyer_id' = buyer_id
  BY DEF wealth, whereabouts, store
<1>4. ShopOK'
  <2>1. Vends => saved'.cart = cart' /\ ~Buys'
    BY <1>3, VendsNotBuys DEF Buys
  <2>. QED BY <1>3, <2>1, ShopStays DEF ShopInv
<1>5. StoreOK' /\ LoadingOK'
  BY <1>3, StoreStays, LoadingStays DEF ShopInv
<1>. QED BY <1>1, <1>2, <1>4, <1>5 DEF ShopInv

LEMMA StutterKeeps ==
  ASSUME ShopInv, UNCHANGED shopVars
  PROVE  ShopInv'
BY ViewKeeps DEF shopVars, wealth, shop, store, whereabouts

-----------------------------------------------------------------------------
(* Steps of shops *)

\* A shop that opened: what it offers is in the cart and in the rows.
LEMMA OpensKeeps ==
  ASSUME IdsOK, CartOK(cart), NEW request, Asked(request), NEW auto \in BOOLEAN, vendings = {},
         Opened(request, Len(request), auto), ~Buys', cart' = cart, saved'.cart = cart',
         presence' = IF auto THEN "autotrade" ELSE "here"
  PROVE  ShopOK' /\ nextid' = nextid + 1 /\ vender_id' = nextid + 1
<1>1. /\ vending' = request /\ OffersOK(request, cart)
      /\ vender_id' = nextid + 1 /\ nextid' = nextid + 1
  BY OpenedTells
<1>2. PICK r : /\ vendings' = {r} /\ r = [id |-> nextid + 1, auto |-> auto, items |-> r.items]
               /\ Tells(r.items, request, cart)
  BY OpenedTells
<1>3. Vends' /\ vender_id' <= nextid'
  BY <1>1 DEF IdsOK, Vends
<1>4. OffersOK(vending', cart') /\ Tells(r.items, vending', cart')
  BY <1>1, <1>2
<1>5. r = [id |-> vender_id', auto |-> (presence' = "autotrade"), items |-> r.items] /\ r \in vendings'
  BY <1>1, <1>2
<1>6. ShopOK'
  BY <1>2, <1>3, <1>4, <1>5 DEF ShopOK
<1>. QED BY <1>1, <1>6

LEMMA RowsHold ==
  ASSUME IdsOK, StoreOK, ~Buys, ~Buys', buyingstores' = buyingstores, nextid' = nextid + 1
  PROVE  StoreOK'
<1>1. nextid' \in Nat /\ nextid' >= nextid
  BY DEF IdsOK
<1>. QED BY <1>1, StoreGoes DEF Buys

LEMMA OpenVendingKeeps ==
  ASSUME ~Filtered, ShopInv, NEW request \in ShopRequests, OpenVending(request)
  PROVE  ShopInv'
<1>1. /\ presence = "here" /\ ~Vends /\ ~Buys
      /\ \A n \in DOMAIN request : Sellable(request[n])
      /\ Opened(request, Len(request), FALSE)
      /\ UNCHANGED <<wealth, store, presence, autotrader>> /\ SaveOne(Merchant)
  BY DEF OpenVending, Idle
<1>2. Asked(request)
  <2>. DEFINE S == [index : CartCells, amount : 1 .. Stack, value : Prices]
  <2>1. PICK m \in 1 .. Cardinality(Ware) : request \in [1 .. m -> S]
    BY DEF ShopRequests, UpTo, Lines
  <2>2. \A l \in S : l \in Entries /\ l.amount > 0
    BY ShopAssumption DEF S, ShopAssumption, Entries
  <2>3. m \in Nat
    BY <2>1, WareCount
  <2>. HIDE DEF S
  <2>4. request \in [1 .. m -> Entries] /\ \A n \in 1 .. m : request[n].amount > 0
    BY <2>1, <2>2
  <2>5. request \in Seq(Entries) /\ Len(request) = m /\ DOMAIN request = 1 .. m
    BY <2>3, <2>4, ListIsSeq
  <2>6. \A j, k \in DOMAIN request : request[j].index = request[k].index => j = k
    BY DEF ShopRequests
  <2>. QED BY <1>1, <2>4, <2>5, <2>6 DEF Asked
<1>3. WealthOK'
  BY <1>1, WealthStays DEF ShopInv
<1>4. SavedOK' /\ saved'.cart = cart' /\ cart' = cart
  BY <1>1, <1>3, WithIsPerson, SaveOneStays DEF ShopInv, wealth
<1>5. ~Buys' /\ vendings = {} /\ buyingstores' = buyingstores /\ buyer_id' = buyer_id
  BY <1>1 DEF store, Buys, ShopInv, ShopOK
<1>6. ShopOK' /\ nextid' = nextid + 1 /\ vender_id' = nextid + 1
  <2>1. IdsOK /\ CartOK(cart) /\ presence' = "here"
    BY <1>1 DEF ShopInv, WealthOK
  <2>. QED BY <1>1, <1>2, <1>4, <1>5, <2>1, OpensKeeps
<1>7. StoreOK' /\ LoadingOK'
  BY <1>1, <1>5, <1>6, RowsHold, NotLoading DEF ShopInv
<1>8. IdsOK'
  BY <1>1, <1>5, <1>6 DEF ShopInv, IdsOK
<1>. QED BY <1>3, <1>4, <1>6, <1>7, <1>8 DEF ShopInv

LEMMA CloseVendingKeeps ==
  ASSUME ShopInv, CloseVending
  PROVE  ShopInv'
<1>1. /\ presence = "here" /\ UNCHANGED <<wealth, saved, store, whereabouts>>
      /\ vender_id' = 0 /\ vending' = <<>> /\ vendings' = RowsWithout(vendings, vender_id)
  BY DEF CloseVending, ShopClosed
<1>2. WealthOK' /\ ShopOK' /\ StoreOK' /\ LoadingOK'
  BY <1>1, WealthStays, ShopGoes, StoreStays, NotLoading DEF ShopInv, whereabouts
<1>3. SavedOK' /\ IdsOK'
  BY <1>1 DEF ShopInv, SavedOK, IdsOK, whereabouts, store, CartOK
<1>. QED BY <1>2, <1>3 DEF ShopInv

LEMMA CostIsInt ==
  ASSUME OffersOK(vending, cart), NEW lines \in PurchaseLines, \A k \in DOMAIN lines : OnOffer(lines[k])
  PROVE  Cost(lines) \in Int
<1>. DEFINE m == Len(lines)
            s == [k \in DOMAIN lines |-> lines[k].amount * vending[EntryOf(lines[k])].value]
<1>1. /\ m \in Nat /\ DOMAIN lines = 1 .. m
      /\ \A k \in 1 .. m : lines[k].index \in CartCells /\ lines[k].amount \in Nat
  BY LinesAreSeq
<1>2. vending \in Seq(Entries)
  BY DEF OffersOK, Entries
<1>3. \A k \in 1 .. m : lines[k].amount * vending[EntryOf(lines[k])].value \in Int
  <2>1. SUFFICES ASSUME NEW k \in 1 .. m PROVE lines[k].amount * vending[EntryOf(lines[k])].value \in Int
    OBVIOUS
  <2>2. PICK e \in 1 .. Len(vending) : vending[e].index = lines[k].index
    BY <1>1 DEF OnOffer
  <2>3. EntryOf(lines[k]) = e
    BY <2>2, EntryFound
  <2>4. vending[e].value \in Nat
    BY <1>2, EntriesTyped
  <2>. QED BY <1>1, <2>3, <2>4
<1>4. s \in [1 .. m -> Int]
  BY <1>1, <1>3
<1>5. s \in Seq(Int)
  BY <1>1, <1>4, ListIsSeq
<1>. QED BY <1>5, TotalIsInt DEF Cost

LEMMA PurchaseReqKeeps ==
  ASSUME ShopInv, NEW lines \in PurchaseLines, PurchaseReq(lines)
  PROVE  ShopInv'
<1>. DEFINE sale == SaleOf(lines)
            rest == Compacted(sale.vending)
            ends == presence = "autotrade" /\ rest = <<>>
<1>1. /\ Vends /\ \A k \in DOMAIN lines : OnOffer(lines[k])
      /\ InStock(lines)
  BY DEF PurchaseReq, ShopIsSeen
<1>2. /\ cash' = [cash EXCEPT ![Customer] = @ - Cost(lines), ![Merchant] = @ + Cost(lines)]
      /\ pocket' = [pocket EXCEPT ![Customer] = sale.pocket] /\ cart' = sale.cart
      /\ UNCHANGED <<buyingstores, nextid, autotrader>> /\ SaveBoth
  BY DEF PurchaseReq
<1>3. IF ends
      THEN Leaves /\ vendings' = RowsWithout(vendings, vender_id)
      ELSE /\ vending' = rest
           /\ vendings' = RowsWithout(vendings, vender_id) \union {[ShopRow EXCEPT !.items = sale.items]}
           /\ UNCHANGED <<vender_id, buyingstore, buyer_id, presence>>
  BY DEF PurchaseReq
<1>4. /\ presence \in {"here", "autotrade"} /\ ~Buys /\ vender_id <= nextid /\ OffersOK(vending, cart)
      /\ CartOK(cart) /\ pocket \in [Person -> [Ware -> Int]] /\ cash \in [Person -> Int]
  BY <1>1 DEF ShopInv, ShopOK, WealthOK
<1>5. PICK r \in vendings : /\ vendings = {r}
                            /\ r = [id |-> vender_id, auto |-> (presence = "autotrade"), items |-> r.items]
                            /\ Tells(r.items, vending, cart)
  BY <1>1 DEF ShopInv, ShopOK
<1>6. ShopRow = r
  <2>1. r.id = vender_id
    BY <1>5
  <2>. QED BY <1>5, <2>1 DEF ShopRow
<1>7. PICK count : SoFar(sale, count)
  <2>1. pocket[Customer] \in [Ware -> Int]
    BY <1>4, WithIsPerson
  <2>. QED BY <1>1, <1>4, <1>5, <1>6, <2>1, SaleSells
<1>8. /\ CartOK(sale.cart) /\ sale.pocket \in [Ware -> Int]
      /\ OffersOK(rest, sale.cart) /\ Tells(sale.items, rest, sale.cart)
  <2>1. PICK st : st = sale
    OBVIOUS
  <2>. QED BY <1>4, <1>7, <2>1, SaleTells
<1>. HIDE DEF sale, rest
<1>9. Cost(lines) \in Int
  BY <1>1, <1>4, CostIsInt
<1>10. WealthOK'
  <2>1. pocket' \in [Person -> [Ware -> Int]] /\ cash' \in [Person -> Int]
    BY <1>2, <1>4, <1>8, <1>9, WithIsPerson
  <2>. QED BY <1>2, <1>8, <2>1 DEF WealthOK
<1>11. SavedOK' /\ saved'.cart = cart'
  BY <1>2, <1>10, SaveBothStays
<1>12. CASE ends
  <2>1. /\ presence' = "out" /\ vending' = <<>> /\ vender_id' = 0 /\ buyer_id' = 0
        /\ vendings' = RowsWithout(vendings, vender_id)
    BY <1>3, <1>12 DEF Leaves
  <2>2. ShopOK' /\ LoadingOK'
    BY <2>1, ShopGoes, NotLoading DEF ShopInv
  <2>3. StoreOK'
    BY <1>2, <2>1, StoreGoes DEF ShopInv, IdsOK
  <2>4. IdsOK'
    BY <1>2, <2>1 DEF ShopInv, IdsOK
  <2>. QED BY <1>10, <1>11, <2>2, <2>3, <2>4 DEF ShopInv
<1>13. CASE ~ends
  <2>1. /\ vending' = rest /\ UNCHANGED <<vender_id, buyingstore, buyer_id, presence>>
        /\ vendings' = RowsWithout(vendings, vender_id) \union {[ShopRow EXCEPT !.items = sale.items]}
    BY <1>3, <1>13
  <2>. DEFINE row == [r EXCEPT !.items = sale.items]
  <2>2. vendings' = {row}
    BY <1>6, <2>1, RowsGone DEF ShopInv
  <2>3. row = [id |-> vender_id', auto |-> (presence' = "autotrade"), items |-> row.items] /\ row.items = sale.items
    BY <1>5, <2>1
  <2>. HIDE DEF row
  <2>4. OffersOK(vending', cart') /\ Tells(row.items, vending', cart')
    BY <1>2, <1>8, <2>1, <2>3
  <2>5. Vends' /\ ~Buys' /\ presence' \in {"here", "autotrade"} /\ vender_id' <= nextid'
    BY <1>1, <1>2, <1>4, <2>1 DEF Vends, Buys
  <2>6. ShopOK'
    BY <1>11, <2>2, <2>3, <2>4, <2>5 DEF ShopOK
  <2>7. StoreOK' /\ LoadingOK'
    BY <1>2, <2>1, <2>5, StoreStays, NotLoading DEF ShopInv, store
  <2>8. IdsOK'
    BY <1>2, <2>1 DEF ShopInv, IdsOK
  <2>. QED BY <1>10, <1>11, <2>6, <2>7, <2>8 DEF ShopInv
<1>. QED BY <1>12, <1>13

-----------------------------------------------------------------------------
(* Steps of stores *)

\* A store that opened: its row is that of its list, and its number is new.
LEMMA CreatedKeeps ==
  ASSUME IdsOK, StoreOK, WealthOK, NEW list, list \in [DOMAIN list -> Want],
         \A k \in DOMAIN list : list[k].amount > 0, NEW limit \in Int, NEW auto \in BOOLEAN,
         Created(list, limit, auto), presence' = IF auto THEN "autotrade" ELSE "here"
  PROVE  StoreOK' /\ nextid' = nextid + 1 /\ buyer_id' = nextid + 1
<1>. PICK row : row = [id |-> nextid + 1, auto |-> auto, limit |-> limit, items |-> RowsFor(list)]
  OBVIOUS
<1>1. /\ buyingstore' = [items |-> list, zenylimit |-> limit]
      /\ buyer_id' = nextid + 1 /\ nextid' = nextid + 1
      /\ buyingstores' = buyingstores \union {StoreRows(nextid + 1, list, limit, auto)}
      /\ \A j, k \in DOMAIN list : list[j].ware = list[k].ware => j = k
  BY DEF Created, Wantable
<1>2. StoreRows(nextid + 1, list, limit, auto) = row
  <2>1. {[index |-> k, item |-> list[k]] : k \in DOMAIN list} = RowsFor(list)
    BY DEF RowsFor
  <2>. QED BY <2>1 DEF StoreRows
<1>3. nextid \in Nat /\ nextid' \in Nat /\ nextid' >= nextid
  BY <1>1 DEF IdsOK
<1>4. \A r \in buyingstores : RowOK(r) /\ RowOK(r)' /\ r.id # nextid + 1
  <2>1. \A r \in buyingstores : RowOK(r)
    BY DEF StoreOK
  <2>2. \A r \in buyingstores : r.id # nextid + 1
    BY <1>3, <2>1 DEF RowOK
  <2>. QED BY <1>3, <2>1, <2>2, RowHolds
<1>5. StoreItems(RowsFor(list))
  <2>1. \A k \in DOMAIN list : list[k] \in Want
    OBVIOUS
  <2>. QED BY <2>1 DEF StoreItems, RowsFor
<1>6. RowOK(row)'
  <2>1. /\ row = [id |-> row.id, auto |-> row.auto, limit |-> row.limit, items |-> row.items]
        /\ row.id = nextid + 1 /\ row.auto = auto /\ row.limit = limit /\ row.items = RowsFor(list)
    OBVIOUS
  <2>2. 1 <= nextid + 1 /\ nextid + 1 \in Nat /\ nextid + 1 <= nextid'
    BY <1>1, <1>3
  <2>. QED BY <1>5, <2>1, <2>2 DEF RowOK
<1>7. \A r \in buyingstores' : RowOK(r)'
  BY <1>1, <1>2, <1>4, <1>6
<1>8. row \in buyingstores' /\ \A q \in buyingstores' : q.id = nextid + 1 => q = row
  <2>1. row.id = nextid + 1
    OBVIOUS
  <2>. QED BY <1>1, <1>2, <1>4, <2>1
<1>9. buyingstore'.items = list /\ buyingstore'.zenylimit = limit
  BY <1>1
<1>10. ListOK(list) /\ presence' \in {"here", "autotrade"} /\ auto = (presence' = "autotrade")
  BY <1>1 DEF ListOK
<1>11. row.id = nextid + 1 /\ row.auto = auto /\ row.limit = limit /\ row.items = RowsFor(list)
  OBVIOUS
<1>12. limit >= limit /\ buyer_id' <= nextid'
  BY <1>1, <1>3
<1>13. /\ presence' \in {"here", "autotrade"} /\ buyer_id' <= nextid'
       /\ buyingstore' = [items |-> buyingstore'.items, zenylimit |-> buyingstore'.zenylimit]
       /\ buyingstore'.zenylimit \in Int /\ ListOK(buyingstore'.items)
  BY <1>1, <1>9, <1>10, <1>12
<1>14. /\ row.id = buyer_id' /\ row.auto = (presence' = "autotrade")
       /\ row.limit >= buyingstore'.zenylimit /\ row.items = RowsFor(buyingstore'.items)
       /\ \A q \in buyingstores' : q.id = buyer_id' => q = row
  BY <1>1, <1>8, <1>9, <1>10, <1>11, <1>12
<1>15. StoreOK'
  BY <1>7, <1>8, <1>13, <1>14 DEF StoreOK
<1>. QED BY <1>1, <1>15

LEMMA StoreListsTyped ==
  ASSUME NEW list \in StoreLists
  PROVE  list \in [DOMAIN list -> Want] /\ \A k \in DOMAIN list : list[k].amount > 0
<1>. DEFINE S == [ware : Plain, amount : 1 .. Stack, price : OfferPrices]
<1>1. PICK m \in 1 .. Cardinality(Ware) : list \in [1 .. m -> S]
  BY DEF StoreLists, UpTo, Lines
<1>2. \A l \in S : l \in Want /\ l.amount > 0
  BY ShopAssumption DEF S, ShopAssumption, Want
<1>. HIDE DEF S
<1>. QED BY <1>1, <1>2

LEMMA CreateStoreKeeps ==
  ASSUME ShopInv, NEW list \in StoreLists, NEW limit \in 1 .. Funds, CreateStore(list, limit)
  PROVE  ShopInv'
<1>1. /\ presence = "here" /\ ~Vends /\ ~Buys /\ Created(list, limit, FALSE)
      /\ UNCHANGED <<wealth, saved, shop, presence, autotrader>>
  BY DEF CreateStore, Idle
<1>2. limit \in Int
  OBVIOUS
<1>3. StoreOK' /\ nextid' = nextid + 1 /\ buyer_id' = nextid + 1
  BY <1>1, <1>2, StoreListsTyped, CreatedKeeps DEF ShopInv
<1>4. WealthOK' /\ ShopOK' /\ LoadingOK'
  BY <1>1, WealthStays, ShopStays, NotLoading DEF ShopInv
<1>5. SavedOK' /\ IdsOK'
  BY <1>1, <1>3 DEF ShopInv, SavedOK, IdsOK, shop, CartOK
<1>. QED BY <1>3, <1>4, <1>5 DEF ShopInv

LEMMA CloseStoreKeeps ==
  ASSUME ShopInv, CloseStore
  PROVE  ShopInv'
<1>1. /\ presence = "here" /\ Buys /\ UNCHANGED <<wealth, saved, shop, whereabouts>>
      /\ buyer_id' = 0 /\ buyingstores' \subseteq buyingstores
  BY DEF CloseStore, StoreClosed, RowsWithout
<1>2. ~Vends
  BY <1>1, VendsNotBuys
<1>3. StoreOK'
  BY <1>1, StoreGoes DEF ShopInv, whereabouts, IdsOK
<1>4. WealthOK' /\ ShopOK' /\ LoadingOK'
  BY <1>1, <1>2, WealthStays, ShopStays, NotLoading DEF ShopInv, whereabouts
<1>5. SavedOK' /\ IdsOK'
  BY <1>1 DEF ShopInv, SavedOK, IdsOK, shop, whereabouts, CartOK
<1>. QED BY <1>3, <1>4, <1>5 DEF ShopInv

LEMMA TradeRefusedKeeps ==
  ASSUME ShopInv, TradeRefused
  PROVE  ShopInv'
<1>1. /\ Buys /\ cash[Merchant] < buyingstore.zenylimit
      /\ buyingstore' = [buyingstore EXCEPT !.zenylimit = cash[Merchant]]
      /\ UNCHANGED <<wealth, saved, shop, buyer_id, buyingstores, whereabouts>>
  BY DEF TradeRefused
<1>2. /\ presence \in {"here", "autotrade"} /\ buyer_id <= nextid
      /\ buyingstore = [items |-> buyingstore.items, zenylimit |-> buyingstore.zenylimit]
      /\ buyingstore.zenylimit \in Int /\ ListOK(buyingstore.items)
      /\ \A r \in buyingstores : RowOK(r)
  BY <1>1 DEF ShopInv, StoreOK
<1>3. PICK r \in buyingstores :
        /\ r.id = buyer_id /\ r.auto = (presence = "autotrade")
        /\ r.limit >= buyingstore.zenylimit /\ r.items = RowsFor(buyingstore.items)
        /\ \A q \in buyingstores : q.id = buyer_id => q = r
  BY <1>1 DEF ShopInv, StoreOK
<1>4. cash[Merchant] \in Int
  BY WithIsPerson DEF ShopInv, WealthOK
<1>5. /\ buyingstore'.items = buyingstore.items /\ buyingstore'.zenylimit = cash[Merchant]
      /\ buyingstore' = [items |-> buyingstore'.items, zenylimit |-> buyingstore'.zenylimit]
  BY <1>1, <1>2
<1>6. /\ UNCHANGED <<presence, buyer_id, nextid, buyingstores, vender_id, autotrader, cart>>
  BY <1>1 DEF whereabouts, shop, wealth
<1>7. \A q \in buyingstores' : RowOK(q)'
  <2>1. nextid' \in Nat /\ nextid' >= nextid
    BY <1>6 DEF ShopInv, IdsOK
  <2>. QED BY <1>2, <1>6, <2>1, RowHolds DEF ShopInv
<1>8. r.limit >= cash[Merchant]
  <2>1. r.limit \in Int
    BY <1>2 DEF RowOK
  <2>. QED BY <1>1, <1>2, <1>3, <1>4, <2>1
<1>9. /\ presence' \in {"here", "autotrade"} /\ buyer_id' <= nextid'
      /\ buyingstore'.zenylimit \in Int /\ ListOK(buyingstore'.items)
  BY <1>2, <1>4, <1>5, <1>6
<1>10. /\ r \in buyingstores' /\ r.id = buyer_id' /\ r.auto = (presence' = "autotrade")
       /\ r.limit >= buyingstore'.zenylimit /\ r.items = RowsFor(buyingstore'.items)
       /\ \A q \in buyingstores' : q.id = buyer_id' => q = r
  BY <1>3, <1>5, <1>6, <1>8
<1>11. StoreOK'
  BY <1>5, <1>7, <1>9, <1>10 DEF StoreOK
<1>12. ~Vends
  BY <1>1, VendsNotBuys
<1>13. WealthOK' /\ ShopOK' /\ LoadingOK'
  BY <1>1, <1>6, <1>12, WealthStays, ShopStays, LoadingStays DEF ShopInv
<1>14. SavedOK' /\ IdsOK'
  BY <1>1, <1>6 DEF ShopInv, SavedOK, IdsOK, CartOK
<1>. QED BY <1>11, <1>13, <1>14 DEF ShopInv

LEMMA EarningsIsInt ==
  ASSUME ListOK(buyingstore.items), NEW lines \in SaleLines, \A k \in DOMAIN lines : StillWanted(lines[k])
  PROVE  Earnings(lines) \in Int
<1>. DEFINE m == Len(lines)
            s == [k \in DOMAIN lines |-> lines[k].amount * buyingstore.items[ListIndex(lines[k].ware)].price]
<1>1. m \in Nat /\ DOMAIN lines = 1 .. m /\ \A k \in 1 .. m : lines[k].amount \in Nat
  BY SaleLinesAreSeq
<1>2. \A k \in 1 .. m : lines[k].amount * buyingstore.items[ListIndex(lines[k].ware)].price \in Int
  <2>1. SUFFICES ASSUME NEW k \in 1 .. m
                 PROVE  lines[k].amount * buyingstore.items[ListIndex(lines[k].ware)].price \in Int
    OBVIOUS
  <2>2. PICK j \in DOMAIN buyingstore.items : buyingstore.items[j].ware = lines[k].ware
    BY <1>1 DEF StillWanted
  <2>3. ListIndex(lines[k].ware) = j
    BY <2>2 DEF ListIndex, ListOK
  <2>4. buyingstore.items[j] \in Want
    BY DEF ListOK
  <2>5. buyingstore.items[j].price \in Nat
    BY <2>4 DEF Want
  <2>. QED BY <1>1, <2>3, <2>5
<1>3. s \in [1 .. m -> Int]
  BY <1>1, <1>2
<1>4. s \in Seq(Int)
  BY <1>1, <1>3, ListIsSeq
<1>. QED BY <1>4, TotalIsInt DEF Earnings

LEMMA TradeStoreKeeps ==
  ASSUME ShopInv, NEW lines \in SaleLines, TradeStore(lines)
  PROVE  ShopInv'
<1>. DEFINE sale == PurchaseOf(lines)
            limit == CurrentLimit - Earnings(lines)
            ends == limit = 0 \/ \A k \in DOMAIN sale.list : sale.list[k].amount = 0
<1>1. /\ Buys
      /\ \A k \in DOMAIN lines :
           StillWanted(lines[k]) /\ \A j \in DOMAIN lines : lines[j].ware = lines[k].ware => j = k
  BY DEF TradeStore
<1>2. /\ pocket' = [pocket EXCEPT ![Merchant] = sale.buyer, ![Customer] = sale.seller]
      /\ cash' = [cash EXCEPT
                    ![Merchant] = IF @ >= Earnings(lines) THEN @ - Earnings(lines) ELSE @,
                    ![Customer] = @ + Earnings(lines)]
      /\ UNCHANGED <<cart, vendings, nextid, autotrader>> /\ SaveBoth
  BY DEF TradeStore
<1>3. IF ends
      THEN /\ buyingstores' = RowsWithout(buyingstores, buyer_id)
           /\ IF presence = "autotrade" THEN Leaves
              ELSE /\ buyer_id' = 0 /\ buyingstore' = NoStore
                   /\ UNCHANGED <<presence, vending, vender_id>>
      ELSE /\ buyingstore' = [items |-> sale.list, zenylimit |-> limit]
           /\ buyingstores' = RowsWithout(buyingstores, buyer_id)
                                \union {[StoreRow EXCEPT !.items = sale.items, !.limit = limit]}
           /\ UNCHANGED <<buyer_id, presence, vending, vender_id>>
  BY DEF TradeStore
<1>4. /\ presence \in {"here", "autotrade"} /\ buyer_id <= nextid
      /\ buyingstore.zenylimit \in Int /\ ListOK(buyingstore.items)
      /\ \A r \in buyingstores : RowOK(r)
      /\ pocket \in [Person -> [Ware -> Int]] /\ cash \in [Person -> Int] /\ CartOK(cart)
  BY <1>1 DEF ShopInv, StoreOK, WealthOK
<1>5. PICK r \in buyingstores :
        /\ r.id = buyer_id /\ r.auto = (presence = "autotrade")
        /\ r.limit >= buyingstore.zenylimit /\ r.items = RowsFor(buyingstore.items)
        /\ \A q \in buyingstores : q.id = buyer_id => q = r
  BY <1>1 DEF ShopInv, StoreOK
<1>6. StoreRow = r
  BY <1>5 DEF StoreRow
<1>7. ~Vends /\ vending = <<>> /\ vendings = {}
  BY <1>1, VendsNotBuys DEF ShopInv, ShopOK
<1>8. /\ ListOK(sale.list) /\ sale.items = RowsFor(sale.list)
      /\ sale.buyer \in [Ware -> Int] /\ sale.seller \in [Ware -> Int]
  BY <1>1, <1>4, <1>5, <1>6, PurchaseTells
<1>9. Earnings(lines) \in Int /\ limit \in Int
  <2>1. cash[Merchant] \in Int
    BY <1>4, WithIsPerson
  <2>2. Earnings(lines) \in Int
    BY <1>1, <1>4, EarningsIsInt
  <2>. QED BY <1>4, <2>1, <2>2 DEF CurrentLimit, Least
<1>. HIDE DEF sale, limit
<1>10. WealthOK'
  <2>1. pocket' \in [Person -> [Ware -> Int]]
    BY <1>2, <1>4, <1>8
  <2>2. cash' \in [Person -> Int]
    BY <1>2, <1>4, <1>9, WithIsPerson
  <2>. QED BY <1>2, <1>4, <2>1, <2>2 DEF WealthOK
<1>11. SavedOK'
  BY <1>2, <1>10, SaveBothStays
<1>12. nextid' = nextid /\ nextid \in Nat /\ nextid' >= nextid /\ vendings' = {}
  BY <1>2, <1>7 DEF ShopInv, IdsOK
<1>13. CASE ends
  <2>1. /\ buyer_id' = 0 /\ vending' = <<>> /\ vender_id' = 0 /\ buyingstores' \subseteq buyingstores
        /\ presence' \in {"here", "out"}
    BY <1>3, <1>4, <1>7, <1>13 DEF Leaves, Vends, RowsWithout
  <2>2. ShopOK' /\ LoadingOK'
    BY <1>12, <2>1, NotLoading DEF ShopOK, Vends
  <2>3. StoreOK'
    BY <1>12, <2>1, StoreGoes DEF ShopInv
  <2>4. IdsOK'
    BY <1>2, <1>12, <2>1 DEF ShopInv, IdsOK
  <2>. QED BY <1>10, <1>11, <2>2, <2>3, <2>4 DEF ShopInv
<1>14. CASE ~ends
  <2>1. /\ buyingstore' = [items |-> sale.list, zenylimit |-> limit]
        /\ buyingstores' = RowsWithout(buyingstores, buyer_id)
                             \union {[StoreRow EXCEPT !.items = sale.items, !.limit = limit]}
        /\ UNCHANGED <<buyer_id, presence, vending, vender_id>>
    BY <1>3, <1>14
  <2>. DEFINE row == [r EXCEPT !.items = sale.items, !.limit = limit]
  <2>2. /\ row = [id |-> r.id, auto |-> r.auto, limit |-> limit, items |-> sale.items]
        /\ row.id = r.id /\ row.auto = r.auto /\ row.limit = limit /\ row.items = sale.items
    <3>1. r = [id |-> r.id, auto |-> r.auto, limit |-> r.limit, items |-> r.items]
      BY <1>4 DEF RowOK
    <3>. HIDE DEF sale, limit
    <3>2. PICK a, b, c, d : r = [id |-> a, auto |-> b, limit |-> c, items |-> d]
      BY <3>1
    <3>3. row = [id |-> a, auto |-> b, limit |-> limit, items |-> sale.items]
      <4>1. PICK i, z : i = sale.items /\ z = limit
        OBVIOUS
      <4>2. [r EXCEPT !.items = i, !.limit = z] = [id |-> a, auto |-> b, limit |-> z, items |-> i]
        <5>1. [r EXCEPT !.items = i, !.limit = z] = [[r EXCEPT !.items = i] EXCEPT !.limit = z]
          OBVIOUS
        <5>2. PICK q : q = [r EXCEPT !.items = i]
          OBVIOUS
        <5>3. q = [id |-> a, auto |-> b, limit |-> c, items |-> i]
          BY <3>2, <5>2
        <5>4. [q EXCEPT !.limit = z] = [id |-> a, auto |-> b, limit |-> z, items |-> i]
          BY <5>3
        <5>. QED BY <5>1, <5>2, <5>4
      <4>. QED BY <4>1, <4>2
    <3>. QED BY <3>2, <3>3
  <2>3. buyingstores' = RowsWithout(buyingstores, buyer_id) \union {row}
    BY <1>6, <2>1
  <2>. HIDE DEF row
  <2>4. StoreItems(sale.items)
    <3>1. \A k \in DOMAIN sale.list : sale.list[k] \in Want
      BY <1>8 DEF ListOK
    <3>. QED BY <1>8, <3>1 DEF StoreItems, RowsFor
  <2>5. RowOK(row)
    <3>1. RowOK(r)
      BY <1>4
    <3>. QED BY <1>9, <2>2, <2>4, <3>1 DEF RowOK
  <2>6. \A q \in buyingstores' : RowOK(q)'
    <3>1. \A q \in buyingstores' : RowOK(q)
      BY <1>4, <2>3, <2>5 DEF RowsWithout
    <3>. QED BY <1>12, <3>1, RowHolds DEF ShopInv
  <2>7. row \in buyingstores' /\ \A q \in buyingstores' : q.id = buyer_id' => q = row
    BY <1>5, <2>1, <2>2, <2>3 DEF RowsWithout
  <2>8. buyingstore'.items = sale.list /\ buyingstore'.zenylimit = limit
    BY <2>1
  <2>9. row.limit >= limit
    BY <1>9, <2>2
  <2>10. /\ presence' \in {"here", "autotrade"} /\ buyer_id' <= nextid'
         /\ buyingstore' = [items |-> buyingstore'.items, zenylimit |-> buyingstore'.zenylimit]
         /\ buyingstore'.zenylimit \in Int /\ ListOK(buyingstore'.items)
    BY <1>4, <1>8, <1>9, <1>12, <2>1, <2>8
  <2>11. /\ row.id = buyer_id' /\ row.auto = (presence' = "autotrade")
         /\ row.limit >= buyingstore'.zenylimit /\ row.items = RowsFor(buyingstore'.items)
    BY <1>5, <1>8, <2>1, <2>2, <2>8, <2>9
  <2>12. StoreOK'
    BY <2>6, <2>7, <2>10, <2>11 DEF StoreOK
  <2>13. ShopOK' /\ LoadingOK'
    BY <1>4, <1>7, <1>12, <2>1, NotLoading DEF ShopOK, Vends
  <2>14. IdsOK'
    BY <1>12, <2>1 DEF ShopInv, IdsOK
  <2>. QED BY <1>10, <1>11, <2>12, <2>13, <2>14 DEF ShopInv
<1>. QED BY <1>13, <1>14

-----------------------------------------------------------------------------
(* Absent merchants *)

LEMMA MarkedRow ==
  ASSUME NEW r, NEW x \in BOOLEAN, RowOK(r)
  PROVE  LET q == [r EXCEPT !.auto = @ \/ x]
         IN  /\ RowOK(q) /\ q.id = r.id /\ q.limit = r.limit /\ q.items = r.items
             /\ q.auto = (r.auto \/ x)
<1>1. /\ r = [id |-> r.id, auto |-> r.auto, limit |-> r.limit, items |-> r.items]
      /\ r.id \in Nat /\ 1 <= r.id /\ r.id <= nextid /\ r.auto \in BOOLEAN /\ r.limit \in Int
      /\ StoreItems(r.items)
  BY DEF RowOK
<1>2. PICK a, b, c, d : r = [id |-> a, auto |-> b, limit |-> c, items |-> d]
  BY <1>1
<1>3. PICK y \in BOOLEAN : y = (r.auto \/ x)
  OBVIOUS
<1>4. PICK q : q = [r EXCEPT !.auto = y]
  OBVIOUS
<1>5. q = [id |-> a, auto |-> y, limit |-> c, items |-> d]
  BY <1>2, <1>4
<1>6. RowOK(q) /\ q.id = r.id /\ q.limit = r.limit /\ q.items = r.items /\ q.auto = y
  BY <1>1, <1>2, <1>5 DEF RowOK
<1>7. [r EXCEPT !.auto = @ \/ x] = q
  BY <1>3, <1>4
<1>. QED BY <1>3, <1>6, <1>7

LEMMA AutotradeKeeps ==
  ASSUME ShopInv, Autotrade
  PROVE  ShopInv'
<1>. DEFINE Mark(r) == [r EXCEPT !.auto = @ \/ (Buys /\ r.id = buyer_id)]
<1>1. /\ presence = "here" /\ (Vends \/ Buys) /\ presence' = "autotrade"
      /\ vendings' = {[r EXCEPT !.auto = @ \/ (Vends /\ r.id = vender_id)] : r \in vendings}
      /\ buyingstores' = {Mark(r) : r \in buyingstores}
      /\ UNCHANGED <<wealth, vending, vender_id, buyingstore, buyer_id, nextid, autotrader>>
      /\ SaveOne(Merchant)
  BY DEF Autotrade
<1>2. WealthOK' /\ cart' = cart
  BY <1>1, WealthStays DEF ShopInv, wealth
<1>3. SavedOK' /\ saved'.cart = cart'
  BY <1>1, <1>2, WithIsPerson, SaveOneStays DEF ShopInv
<1>4. IdsOK' /\ LoadingOK'
  BY <1>1, NotLoading DEF ShopInv, IdsOK
<1>5. ShopOK'
  <2>1. CASE Vends
    <3>1. /\ ~Buys /\ vender_id <= nextid /\ OffersOK(vending, cart)
      BY <2>1 DEF ShopInv, ShopOK
    <3>2. PICK r \in vendings : /\ vendings = {r}
                                /\ r = [id |-> vender_id, auto |-> (presence = "autotrade"), items |-> r.items]
                                /\ Tells(r.items, vending, cart)
      BY <2>1 DEF ShopInv, ShopOK
    <3>3. PICK q : q = [id |-> vender_id, auto |-> TRUE, items |-> r.items]
      OBVIOUS
    <3>4. [r EXCEPT !.auto = @ \/ (Vends /\ r.id = vender_id)] = q
      <4>1. r.id = vender_id /\ (r.auto \/ (Vends /\ r.id = vender_id)) = TRUE
        BY <2>1, <3>2
      <4>2. [r EXCEPT !.auto = @ \/ (Vends /\ r.id = vender_id)] = [r EXCEPT !.auto = TRUE]
        BY <4>1
      <4>3. [r EXCEPT !.auto = TRUE] = q
        <5>1. PICK a, b, c : r = [id |-> a, auto |-> b, items |-> c]
          BY <3>2
        <5>2. a = vender_id /\ c = r.items
          BY <3>2, <5>1
        <5>3. PICK t : t = TRUE
          OBVIOUS
        <5>4. [r EXCEPT !.auto = t] = [id |-> a, auto |-> t, items |-> c]
          BY <5>1
        <5>. QED BY <3>3, <5>2, <5>3, <5>4, Zenon
      <4>. QED BY <4>2, <4>3
    <3>5. vendings' = {q}
      BY <1>1, <3>2, <3>4
    <3>6. q = [id |-> vender_id', auto |-> (presence' = "autotrade"), items |-> q.items] /\ q.items = r.items
      BY <1>1, <3>3
    <3>7. Vends' /\ ~Buys' /\ vender_id' <= nextid' /\ OffersOK(vending', cart') /\ Tells(q.items, vending', cart')
      BY <1>1, <1>2, <2>1, <3>1, <3>2, <3>6 DEF Vends, Buys
    <3>. QED BY <1>1, <1>3, <3>5, <3>6, <3>7 DEF ShopOK
  <2>2. CASE ~Vends
    BY <1>1, <2>2 DEF ShopInv, ShopOK, Vends
  <2>. QED BY <2>1, <2>2
<1>6. StoreOK'
  <2>1. \A r \in buyingstores : RowOK(r)
    BY DEF ShopInv, StoreOK
  <2>2. \A r \in buyingstores :
          /\ RowOK(Mark(r)) /\ Mark(r).id = r.id /\ Mark(r).limit = r.limit /\ Mark(r).items = r.items
          /\ Mark(r).auto = (r.auto \/ (Buys /\ r.id = buyer_id))
    <3>1. SUFFICES ASSUME NEW r \in buyingstores
                   PROVE  /\ RowOK(Mark(r)) /\ Mark(r).id = r.id
                          /\ Mark(r).limit = r.limit /\ Mark(r).items = r.items
                          /\ Mark(r).auto = (r.auto \/ (Buys /\ r.id = buyer_id))
      OBVIOUS
    <3>2. PICK x \in BOOLEAN : x = (Buys /\ r.id = buyer_id)
      OBVIOUS
    <3>3. PICK q : q = [r EXCEPT !.auto = @ \/ x]
      OBVIOUS
    <3>4. Mark(r) = q
      BY <3>2, <3>3
    <3>5. /\ RowOK(q) /\ q.id = r.id /\ q.limit = r.limit /\ q.items = r.items
          /\ q.auto = (r.auto \/ x)
      BY <2>1, <3>3, MarkedRow
    <3>. HIDE DEF Mark
    <3>. QED BY <3>2, <3>4, <3>5
  <2>3. \A q \in buyingstores' : RowOK(q)'
    <3>1. \A q \in buyingstores' : RowOK(q)
      BY <1>1, <2>2
    <3>2. nextid' \in Nat /\ nextid' >= nextid
      BY <1>1 DEF ShopInv, IdsOK
    <3>. QED BY <3>1, <3>2, RowHolds DEF ShopInv
  <2>4. CASE ~Buys
    BY <1>1, <2>3, <2>4 DEF StoreOK, Buys
  <2>5. CASE Buys
    <3>1. /\ buyer_id <= nextid
          /\ buyingstore = [items |-> buyingstore.items, zenylimit |-> buyingstore.zenylimit]
          /\ buyingstore.zenylimit \in Int /\ ListOK(buyingstore.items)
      BY <2>5 DEF ShopInv, StoreOK
    <3>2. PICK r \in buyingstores :
            /\ r.id = buyer_id
            /\ r.limit >= buyingstore.zenylimit /\ r.items = RowsFor(buyingstore.items)
            /\ \A q \in buyingstores : q.id = buyer_id => q = r
      BY <2>5 DEF ShopInv, StoreOK
    <3>3. PICK m : m = Mark(r)
      OBVIOUS
    <3>4. m \in buyingstores' /\ m.id = buyer_id /\ m.limit = r.limit /\ m.items = r.items /\ m.auto = TRUE
      BY <1>1, <2>2, <2>5, <3>2, <3>3
    <3>5. ASSUME NEW q \in buyingstores', q.id = buyer_id PROVE q = m
      <4>1. PICK s \in buyingstores : q = Mark(s)
        BY <1>1
      <4>2. s.id = buyer_id
        BY <2>2, <3>5, <4>1
      <4>. QED BY <3>2, <3>3, <4>1, <4>2
    <3>6. /\ presence' \in {"here", "autotrade"} /\ buyer_id' <= nextid'
          /\ buyingstore' = [items |-> buyingstore'.items, zenylimit |-> buyingstore'.zenylimit]
          /\ buyingstore'.zenylimit \in Int /\ ListOK(buyingstore'.items)
      BY <1>1, <3>1
    <3>7. /\ m.id = buyer_id' /\ m.auto = (presence' = "autotrade")
          /\ m.limit >= buyingstore'.zenylimit /\ m.items = RowsFor(buyingstore'.items)
          /\ \A q \in buyingstores' : q.id = buyer_id' => q = m
      BY <1>1, <3>2, <3>4, <3>5
    <3>. QED BY <2>3, <3>4, <3>6, <3>7 DEF StoreOK
  <2>. QED BY <2>4, <2>5
<1>. QED BY <1>2, <1>3, <1>4, <1>5, <1>6 DEF ShopInv

\* The session of a merchant ends: its shop is removed from the table, and its
\* store too or not.
LEMMA LeavesKeeps ==
  ASSUME ShopInv, Leaves, vendings' = RowsWithout(vendings, vender_id), buyingstores' \subseteq buyingstores,
         UNCHANGED <<wealth, nextid>>, SaveOne(Merchant)
  PROVE  ShopInv'
<1>1. /\ presence' = "out" /\ vending' = <<>> /\ vender_id' = 0 /\ buyer_id' = 0
  BY DEF Leaves
<1>2. WealthOK'
  BY WealthStays DEF ShopInv
<1>3. SavedOK'
  BY <1>2, WithIsPerson, SaveOneStays DEF ShopInv
<1>4. IdsOK' /\ LoadingOK' /\ ShopOK'
  BY <1>1, NotLoading, ShopGoes DEF ShopInv, IdsOK
<1>5. StoreOK'
  BY <1>1, StoreGoes DEF ShopInv, IdsOK
<1>. QED BY <1>2, <1>3, <1>4, <1>5 DEF ShopInv

LEMMA GoesKeeps ==
  ASSUME ShopInv, LogOut \/ Disconnected \/ AutotradeEnds
  PROVE  ShopInv'
<1>1. /\ Leaves /\ vendings' = RowsWithout(vendings, vender_id) /\ SaveOne(Merchant)
      /\ UNCHANGED <<wealth, nextid>>
      /\ buyingstores' = RowsWithout(buyingstores, buyer_id) \/ buyingstores' = buyingstores
  BY DEF LogOut, Disconnected, AutotradeEnds
<1>2. buyingstores' \subseteq buyingstores
  BY <1>1 DEF RowsWithout
<1>. QED BY <1>1, <1>2, LeavesKeeps

LEMMA NothingOpen ==
  ASSUME ShopInv, presence \in {"out", "loading"}
  PROVE  ~Vends /\ ~Buys /\ vending = <<>> /\ vendings = {}
BY DEF ShopInv, ShopOK, StoreOK

LEMMA LoginKeeps ==
  ASSUME ShopInv, Login
  PROVE  ShopInv'
<1>1. /\ presence = "out" /\ presence' = "here" /\ cart' \in Packings(cart)
      /\ UNCHANGED <<pocket, cash, saved, shop, store, nextid, autotrader>>
  BY DEF Login
<1>2. ~Vends /\ ~Buys
  BY <1>1, NothingOpen
<1>3. CartOK(cart')
  BY <1>1, Packed DEF ShopInv, WealthOK
<1>4. WealthOK' /\ SavedOK' /\ IdsOK'
  BY <1>1, <1>3 DEF ShopInv, WealthOK, SavedOK, IdsOK, shop, store, CartOK
<1>5. ShopOK' /\ StoreOK' /\ LoadingOK'
  BY <1>1, <1>2, ShopStays, StoreStays, NotLoading DEF ShopInv
<1>. QED BY <1>4, <1>5 DEF ShopInv

LEMMA CrashKeeps ==
  ASSUME ShopInv, Crash
  PROVE  ShopInv'
<1>1. /\ pocket' = saved.pocket /\ cash' = saved.cash /\ cart' \in Packings(saved.cart)
      /\ vending' = <<>> /\ vender_id' = 0 /\ buyer_id' = 0 /\ nextid' = 0
      /\ vendings' = {} /\ buyingstores' = {} /\ saved' = saved
      /\ \/ presence' = "out"
         \/ presence' = "loading" /\ autotrader' \in Absentees
  BY DEF Crash
<1>2. CartOK(cart')
  BY <1>1, Packed DEF ShopInv, SavedOK
<1>3. WealthOK' /\ SavedOK' /\ IdsOK'
  BY <1>1, <1>2 DEF ShopInv, WealthOK, SavedOK, IdsOK, CartOK
<1>4. ShopOK' /\ StoreOK'
  BY <1>1 DEF ShopOK, StoreOK, Vends, Buys
<1>5. LoadingOK'
  <2>1. CASE presence' = "out"
    BY <2>1, NotLoading
  <2>2. CASE autotrader' \in Absentees
    <3>1. CASE \E r \in vendings : autotrader' = [kind |-> "shop", items |-> r.items]
      <4>1. PICK r \in vendings : autotrader' = [kind |-> "shop", items |-> r.items]
        BY <3>1
      <4>2. Vends
        BY DEF ShopInv, ShopOK
      <4>3. saved.cart = cart /\ OffersOK(vending, cart) /\ CartOK(cart)
        BY <4>2 DEF ShopInv, ShopOK, WealthOK
      <4>4. Tells(r.items, vending, cart)
        BY <4>2 DEF ShopInv, ShopOK
      <4>5. FoundOK(r.items, cart')
        BY <1>1, <4>3, <4>4, RowsFound
      <4>6. autotrader'.kind = "shop" /\ autotrader'.items = r.items
        BY <4>1
      <4>. QED BY <4>5, <4>6 DEF LoadingOK
    <3>2. CASE \E r \in buyingstores : autotrader' = [kind |-> "store", items |-> r.items, limit |-> r.limit]
      <4>1. PICK r \in buyingstores : autotrader' = [kind |-> "store", items |-> r.items, limit |-> r.limit]
        BY <3>2
      <4>2. StoreItems(r.items) /\ r.limit \in Int
        BY DEF ShopInv, StoreOK, RowOK
      <4>3. autotrader'.kind = "store" /\ autotrader'.items = r.items /\ autotrader'.limit = r.limit
        BY <4>1
      <4>4. StoreItems(autotrader'.items) /\ autotrader'.limit \in Int
        BY <4>2, <4>3
      <4>. QED BY <4>3, <4>4 DEF LoadingOK, StoreItems, Want
    <3>. QED BY <2>2, <3>1, <3>2 DEF Absentees
  <2>. QED BY <1>1, <2>1, <2>2
<1>. QED BY <1>3, <1>4, <1>5 DEF ShopInv

LEMMA ReopenShopKeeps ==
  ASSUME ShopInv, ReopenShop
  PROVE  ShopInv'
<1>. DEFINE request == RequestOf(autotrader.items)
<1>1. /\ presence = "loading" /\ autotrader.kind = "shop"
      /\ \/ Opened(request, Len(autotrader.items), TRUE) /\ presence' = "autotrade"
         \/ presence' = "out" /\ UNCHANGED <<shop, nextid>>
      /\ UNCHANGED <<wealth, store>> /\ SaveOne(Merchant)
  BY DEF ReopenShop
<1>2. ~Vends /\ ~Buys /\ vendings = {}
  BY <1>1, NothingOpen
<1>3. WealthOK' /\ cart' = cart
  BY <1>1, WealthStays DEF ShopInv, wealth
<1>4. SavedOK' /\ saved'.cart = cart'
  BY <1>1, <1>3, WithIsPerson, SaveOneStays DEF ShopInv
<1>5. buyer_id' = buyer_id /\ ~Buys' /\ buyingstores' = buyingstores
  BY <1>1, <1>2 DEF store, Buys
<1>6. CASE Opened(request, Len(autotrader.items), TRUE) /\ presence' = "autotrade"
  <2>1. CartOK(cart) /\ IdsOK
    BY DEF ShopInv, WealthOK
  <2>2. Asked(request) /\ Len(request) = Len(autotrader.items)
    BY <1>1, <2>1, RequestAsks DEF ShopInv, LoadingOK
  <2>. HIDE DEF request
  <2>3. ShopOK' /\ nextid' = nextid + 1 /\ vender_id' = nextid + 1
    BY <1>2, <1>3, <1>4, <1>5, <1>6, <2>1, <2>2, OpensKeeps
  <2>4. StoreOK' /\ LoadingOK'
    BY <1>2, <1>5, <1>6, <2>3, RowsHold, NotLoading DEF ShopInv
  <2>5. IdsOK'
    BY <1>5, <1>6, <2>3 DEF ShopInv, IdsOK
  <2>. QED BY <1>3, <1>4, <2>3, <2>4, <2>5 DEF ShopInv
<1>7. CASE presence' = "out" /\ UNCHANGED <<shop, nextid>>
  <2>1. ShopOK' /\ StoreOK' /\ LoadingOK'
    BY <1>1, <1>2, <1>7, ShopStays, StoreStays, NotLoading DEF ShopInv
  <2>2. IdsOK'
    BY <1>5, <1>7 DEF ShopInv, IdsOK, shop
  <2>. QED BY <1>3, <1>4, <2>1, <2>2 DEF ShopInv
<1>. QED BY <1>1, <1>6, <1>7

\* The list of a store that opens again has the items of its rows.
LEMMA ListsTyped ==
  ASSUME NEW items, StoreItems(items), NEW list \in ListsOf(items)
  PROVE  list \in [DOMAIN list -> Want] /\ \A k \in DOMAIN list : list[k].amount > 0
<1>1. PICK rows \in SetToSeqs(items) : list = [n \in DOMAIN rows |-> rows[n].item]
  BY DEF ListsOf
<1>2. \A n \in DOMAIN rows : rows[n] \in items
  BY DEF SetToSeqs
<1>3. \A q \in items : q.item \in Want /\ q.item.amount > 0
  BY DEF StoreItems
<1>4. DOMAIN list = DOMAIN rows /\ \A n \in DOMAIN rows : list[n] = rows[n].item
  BY <1>1
<1>. HIDE DEF Want
<1>5. \A n \in DOMAIN list : list[n] \in Want /\ list[n].amount > 0
  BY <1>2, <1>3, <1>4
<1>6. list = [n \in DOMAIN list |-> list[n]]
  BY <1>1
<1>. QED BY <1>5, <1>6

LEMMA ReopenStoreKeeps ==
  ASSUME ShopInv, ReopenStore
  PROVE  ShopInv'
<1>1. PICK list \in ListsOf(autotrader.items) :
        \/ Created(list, autotrader.limit, TRUE) /\ presence' = "autotrade"
        \/ presence' = "out" /\ UNCHANGED <<store, nextid>>
  BY DEF ReopenStore
<1>2. /\ presence = "loading" /\ autotrader.kind = "store"
      /\ UNCHANGED <<wealth, shop>> /\ SaveOne(Merchant)
  BY DEF ReopenStore
<1>3. ~Vends /\ ~Buys /\ vending = <<>> /\ vendings = {}
  BY <1>2, NothingOpen
<1>4. WealthOK'
  BY <1>2, WealthStays DEF ShopInv
<1>5. SavedOK'
  BY <1>2, <1>4, WithIsPerson, SaveOneStays DEF ShopInv
<1>6. ShopOK' /\ LoadingOK'
  BY <1>1, <1>2, <1>3, ShopStays, NotLoading DEF ShopInv
<1>7. CASE Created(list, autotrader.limit, TRUE) /\ presence' = "autotrade"
  <2>1. StoreItems(autotrader.items) /\ autotrader.limit \in Int
    BY <1>2 DEF ShopInv, LoadingOK
  <2>2. list \in [DOMAIN list -> Want] /\ \A k \in DOMAIN list : list[k].amount > 0
    BY <2>1, ListsTyped
  <2>3. StoreOK' /\ nextid' = nextid + 1 /\ buyer_id' = nextid + 1
    <3>1. PICK limit \in Int : limit = autotrader.limit
      BY <2>1
    <3>. QED BY <1>7, <2>2, <3>1, CreatedKeeps DEF ShopInv
  <2>4. IdsOK'
    BY <1>2, <1>7, <2>3 DEF ShopInv, IdsOK, shop
  <2>. QED BY <1>4, <1>5, <1>6, <2>3, <2>4 DEF ShopInv
<1>8. CASE presence' = "out" /\ UNCHANGED <<store, nextid>>
  <2>1. StoreOK'
    BY <1>3, <1>8, StoreStays DEF ShopInv
  <2>2. IdsOK'
    BY <1>2, <1>8 DEF ShopInv, IdsOK, shop, store
  <2>. QED BY <1>4, <1>5, <1>6, <2>1, <2>2 DEF ShopInv
<1>. QED BY <1>1, <1>7, <1>8

-----------------------------------------------------------------------------
(* All steps *)

LEMMA ShopStarts ==
  ASSUME ShopInit
  PROVE  ShopInv
<1>1. PICK owner \in [Ware -> Person \union {"cart"}] :
        /\ pocket = [p \in Person |-> [w \in Ware |-> IF owner[w] = p THEN Pieces[w] ELSE 0]]
        /\ LET packed == SetToSeq({w \in Ware : owner[w] = "cart"})
           IN  cart = [c \in CartCells |->
                         IF c <= Len(packed)
                         THEN [ware |-> packed[c], amount |-> Pieces[packed[c]], numbered |-> TRUE]
                         ELSE EmptyCell]
  BY DEF ShopInit
<1>2. /\ cash = [p \in Person |-> Funds] /\ vending = <<>> /\ vender_id = 0 /\ buyer_id = 0
      /\ nextid = 0 /\ presence = "here" /\ vendings = {} /\ buyingstores = {}
      /\ saved = [pocket |-> pocket, cash |-> cash, cart |-> cart]
  BY DEF ShopInit
<1>3. \A w \in Ware : Pieces[w] \in Nat /\ w # NoWare
  BY ShopAssumption DEF ShopAssumption
<1>. DEFINE S == {w \in Ware : owner[w] = "cart"}
            n == Cardinality(S)
<1>4. PICK packed : packed = SetToSeq(S)
  OBVIOUS
<1>5. IsFiniteSet(S)
  BY ShopAssumption, FS_Subset DEF ShopAssumption
<1>6. packed \in SetToSeqs(S)
  <2>. HIDE DEF S
  <2>. QED BY <1>4, <1>5, SeqOfSet
<1>7. cart = [c \in CartCells |-> IF c <= Len(packed)
                                  THEN [ware |-> packed[c], amount |-> Pieces[packed[c]], numbered |-> TRUE]
                                  ELSE EmptyCell]
  BY <1>1, <1>4
<1>8. S \subseteq Ware
  OBVIOUS
<1>. HIDE DEF S
<1>9. /\ packed \in [1 .. n -> S] /\ n \in Nat /\ Len(packed) = n
      /\ \A i, j \in 1 .. n : packed[i] = packed[j] => i = j
  BY <1>5, <1>6, OneByOne
<1>. HIDE DEF n
<1>10. CartOK(cart)
  <2>1. \A c \in CartCells : c <= n => c \in 1 .. n /\ packed[c] \in Ware
    BY <1>8, <1>9, WareCount DEF CartCells
  <2>2. \A c \in CartCells : c <= n =>
          cart[c] = [ware |-> packed[c], amount |-> Pieces[packed[c]], numbered |-> TRUE]
    BY <1>7, <1>9
  <2>3. \A c \in CartCells : ~(c <= n) => cart[c] = EmptyCell
    BY <1>7, <1>9
  <2>4. EmptyCell \in NatBox /\ EmptyCell.ware = NoWare
    BY DEF EmptyCell, NatBox
  <2>5. \A c \in CartCells : cart[c] \in NatBox
    <3>1. SUFFICES ASSUME NEW c \in CartCells, c <= n PROVE cart[c] \in NatBox
      BY <2>3, <2>4
    <3>2. packed[c] \in Ware /\ Pieces[packed[c]] \in Nat
      BY <1>3, <2>1, <3>1
    <3>3. [ware |-> packed[c], amount |-> Pieces[packed[c]], numbered |-> TRUE] \in NatBox
      BY <3>2 DEF NatBox
    <3>. QED BY <2>2, <3>1, <3>3
  <2>6. cart \in [CartCells -> NatBox]
    BY <1>7, <2>5
  <2>7. ASSUME NEW c \in CartCells, NEW d \in CartCells, cart[c].ware # NoWare, cart[c].ware = cart[d].ware
        PROVE  c = d
    <3>1. c <= n /\ d <= n
      BY <2>3, <2>4, <2>7
    <3>2. packed[c] = packed[d]
      <4>1. cart[c].ware = packed[c] /\ cart[d].ware = packed[d]
        <5>1. /\ cart[c] = [ware |-> packed[c], amount |-> Pieces[packed[c]], numbered |-> TRUE]
              /\ cart[d] = [ware |-> packed[d], amount |-> Pieces[packed[d]], numbered |-> TRUE]
          BY <2>2, <3>1
        <5>2. PICK t : t = TRUE
          OBVIOUS
        <5>3. /\ cart[c] = [ware |-> packed[c], amount |-> Pieces[packed[c]], numbered |-> t]
              /\ cart[d] = [ware |-> packed[d], amount |-> Pieces[packed[d]], numbered |-> t]
          BY <5>1, <5>2, Zenon
        <5>. QED BY <5>3
      <4>. QED BY <2>7, <4>1
    <3>. QED BY <1>9, <2>1, <3>1, <3>2
  <2>. QED BY <2>6, <2>7 DEF CartOK, NatBox
<1>11. pocket \in [Person -> [Ware -> Int]] /\ cash \in [Person -> Int]
  BY <1>1, <1>2, <1>3, ShopAssumption DEF ShopAssumption
<1>12. WealthOK /\ SavedOK
  <2>1. saved.pocket = pocket /\ saved.cash = cash /\ saved.cart = cart
        /\ saved = [pocket |-> saved.pocket, cash |-> saved.cash, cart |-> saved.cart]
    BY <1>2
  <2>. QED BY <1>10, <1>11, <2>1 DEF WealthOK, SavedOK
<1>13. IdsOK /\ ShopOK /\ StoreOK /\ LoadingOK
  BY <1>2 DEF IdsOK, ShopOK, StoreOK, LoadingOK, Vends, Buys
<1>. QED BY <1>12, <1>13 DEF ShopInv

LEMMA ShopNextKeeps ==
  ASSUME ~Filtered, ShopInv, [ShopNext]_shopVars
  PROVE  ShopInv'
<1>1. CASE MerchantActs
  <2>1. ASSUME NEW w \in Ware, PutItemToCart(w) PROVE ShopInv'
    BY <2>1, PutItemToCartKeeps
  <2>2. ASSUME NEW c \in CartCells, GetItemFromCart(c) PROVE ShopInv'
    BY <2>2, GetItemFromCartKeeps
  <2>3. ASSUME NEW r \in ShopRequests, OpenVending(r) PROVE ShopInv'
    BY <2>3, OpenVendingKeeps
  <2>4. ASSUME NEW l \in StoreLists, NEW z \in 1 .. Funds, CreateStore(l, z) PROVE ShopInv'
    BY <2>4, CreateStoreKeeps
  <2>. QED BY <1>1, <2>1, <2>2, <2>3, <2>4, CloseVendingKeeps, CloseStoreKeeps, SpendElsewhereKeeps,
              AutotradeKeeps, GoesKeeps, LoginKeeps DEF MerchantActs
<1>2. CASE CustomerActs
  <2>1. ASSUME VendingListReq PROVE ShopInv'
    BY <2>1, ViewKeeps DEF VendingListReq
  <2>2. ASSUME NEW l \in PurchaseLines, PurchaseReq(l) PROVE ShopInv'
    BY <2>2, PurchaseReqKeeps
  <2>3. ASSUME NEW l \in SaleLines, TradeStore(l) PROVE ShopInv'
    BY <2>3, TradeStoreKeeps
  <2>. QED BY <1>2, <2>1, <2>2, <2>3, TradeRefusedKeeps DEF CustomerActs
<1>3. CASE ServerActs
  BY <1>3, AutosaveKeeps, GoesKeeps, CrashKeeps, ReopenShopKeeps, ReopenStoreKeeps DEF ServerActs
<1>4. CASE UNCHANGED shopVars
  BY <1>4, StutterKeeps
<1>. QED BY <1>1, <1>2, <1>3, <1>4 DEF ShopNext

LEMMA ShopInvTells ==
  ASSUME ShopInv
  PROVE  RowsTellShop
<1>1. ASSUME Vends
      PROVE  \E r \in vendings :
               /\ r.id = vender_id /\ r.auto = (presence = "autotrade")
               /\ \A n \in 1 .. Len(vending) : OfferInCart(n) /\ \E k \in DOMAIN r.items :
                    r.items[k] = [ware |-> cart[vending[n].index].ware, amount |-> vending[n].amount,
                                  value |-> vending[n].value]
  <2>1. OffersOK(vending, cart)
    BY <1>1 DEF ShopInv, ShopOK
  <2>2. PICK r \in vendings : /\ r = [id |-> vender_id, auto |-> (presence = "autotrade"), items |-> r.items]
                              /\ Tells(r.items, vending, cart)
    BY <1>1 DEF ShopInv, ShopOK
  <2>3. \A n \in 1 .. Len(vending) : OfferInCart(n) /\ vending[n].amount > 0
    <3>1. \A c \in CartCells : cart[c].amount \in Nat
      BY DEF ShopInv, WealthOK, CartOK
    <3>2. \A n \in 1 .. Len(vending) : vending[n].index \in CartCells /\ vending[n].amount \in Nat
      <4>1. vending \in Seq(Entries)
        BY <2>1 DEF OffersOK, Entries
      <4>. QED BY <4>1, EntriesTyped
    <3>. QED BY <2>1, <3>1, <3>2 DEF OffersOK, OfferInCart
  <2>4. DOMAIN r.items = 1 .. Len(r.items)
    <3>1. r.items \in Seq(RowSet)
      BY <2>2 DEF Tells, RowSet
    <3>. QED BY <3>1
  <2>5. \A n \in 1 .. Len(vending) : \E k \in DOMAIN r.items : r.items[k] = RowFor(vending[n], cart)
    BY <2>2, <2>3, <2>4 DEF Tells
  <2>6. r.id = vender_id /\ r.auto = (presence = "autotrade")
    BY <2>2
  <2>. QED BY <2>3, <2>5, <2>6 DEF RowFor
<1>2. ASSUME Buys
      PROVE  \E r \in buyingstores :
               /\ r.id = buyer_id /\ r.auto = (presence = "autotrade")
               /\ r.limit >= buyingstore.zenylimit
               /\ r.items = {[index |-> k, item |-> buyingstore.items[k]] :
                               k \in {j \in DOMAIN buyingstore.items : buyingstore.items[j].amount > 0}}
  BY <1>2 DEF ShopInv, StoreOK, RowsFor
<1>. QED BY <1>1, <1>2 DEF RowsTellShop

\* Whatever is sold and however a shop or store was opened, what it offers is in
\* the cart and in the rows a restart reads, when clients ask only for what can
\* be sold (vending_openvending, vending_purchasereq, vending_reopen,
\* buyingstore_create, buyingstore_trade).
THEOREM ShopRowsTell ==
  ASSUME ~Filtered
  PROVE  ShopSpec => []RowsTellShop
<1>1. ShopInit => ShopInv
  BY ShopStarts
<1>2. ShopInv /\ [ShopNext]_shopVars => ShopInv'
  BY ShopNextKeeps
<1>3. ShopInv => RowsTellShop
  BY ShopInvTells
<1>. QED BY <1>1, <1>2, <1>3, PTL DEF ShopSpec

=============================================================================
