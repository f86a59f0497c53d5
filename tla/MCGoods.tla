------------------------------- MODULE MCGoods ------------------------------
(***************************************************************************)
(* What players own and belong to, for TLC: the storage of a guild, mails  *)
(* between two characters, an auction of three, a merchant's shop, and     *)
(* parties.  They share nothing but the code that adds and takes items, so *)
(* a behaviour has steps of only one of them and the others rest where     *)
(* they started.                                                           *)
(***************************************************************************)
EXTENDS Storage, Mail, Auction, Shop, Party

CONSTANTS w1, t1, m1, m2, f1, f2, f3

VARIABLE part

MCName == [w \in Ware |-> "name"]
MCPieces == [w \in Ware |-> IF w = w1 THEN 2 ELSE 1]

StorageRests == gstor_db = Item \ Bound /\ pack_db[Master] = Bound
MailRests == purse = [c \in Char |-> 0] /\ bag = [c \in Char |-> {}]
\* Any trader may be the one who has the item at the start: they are alike.
FirstSeller == lots[t1] = Lot
ShopRests == pocket = [p \in Person |-> [w \in Ware |-> 0]]

\* Two or three players in a party of f1's; f2 is on another map-server.
MCParty ==
  /\ at = (f1 :> m1 @@ f2 :> m2 @@ f3 :> m1)
  /\ level = (f1 :> 1 @@ f2 :> 3 @@ f3 :> 2)
  /\ party_db[1] # NoParty
  /\ party_db[1].leader = f1 /\ party_db[1].exp /\ f2 \in party_db[1].member
PartyRests == at = [f \in Fellow |-> m1] /\ level = [f \in Fellow |-> 1] /\ last_party = 0

\* One item or one zeny in the mails.
OneParcel ==
  \/ (\A c \in Char : purse[c] = 0) /\ UNION {bag[c] : c \in Char} = Thing
  \/ Zeny = Wealth /\ \A c \in Char : bag[c] = {}

GoodsInit ==
  /\ part \in {"storage", "mail", "auction", "shop", "party"}
  /\ StorageInit /\ (part # "storage" => StorageRests)
  /\ MailInit /\ (IF part = "mail" THEN OneParcel ELSE MailRests)
  /\ AuctionInit /\ FirstSeller
  /\ ShopInit /\ (part # "shop" => ShopRests)
  /\ PartyInit /\ (IF part = "party" THEN MCParty ELSE PartyRests)

GoodsNext ==
  /\ part' = part
  /\ \/ part = "storage" /\ StorageNext /\ UNCHANGED <<mailVars, auctionVars, shopVars, partyVars>>
     \/ part = "mail" /\ MailNext /\ UNCHANGED <<storageVars, auctionVars, shopVars, partyVars>>
     \/ part = "auction" /\ AuctionNext /\ UNCHANGED <<storageVars, mailVars, shopVars, partyVars>>
     \/ part = "shop" /\ ShopNext /\ UNCHANGED <<storageVars, mailVars, auctionVars, partyVars>>
     \/ part = "party" /\ PartyNext /\ UNCHANGED <<storageVars, mailVars, auctionVars, shopVars>>

GoodsSpec ==
  GoodsInit /\ [][GoodsNext]_<<part, storageVars, mailVars, auctionVars, shopVars, partyVars>>

\* The type invariants of the five modules, each of the one that has steps.
GoodsTypeOK ==
  /\ part = "storage" => StorageTypeOK
  /\ part = "mail" => MailTypeOK
  /\ part = "auction" => AuctionTypeOK
  /\ part = "shop" => ShopTypeOK
  /\ part = "party" => PartyTypeOK

\* No step of mails, auctions and shops makes zeny or items, and what is lost
\* is lost only where the modules say so.
GoodsKept ==
  [][/\ part = "mail" => KeepsAttachment
     /\ part = "auction" => KeepsMoney
     /\ part = "shop" => KeepsWares]_<<mailVars, auctionVars, shopVars>>
=============================================================================
