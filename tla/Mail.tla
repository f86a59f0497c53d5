-------------------------------- MODULE Mail --------------------------------
(***************************************************************************)
(* Mail between players: the map-server's part with the inbox it keeps for *)
(* each player (map/mail.c, map/intif.c, map/clif.c), the char-server's    *)
(* table (char/int_mail.c), and the packets between them.                  *)
(***************************************************************************)
EXTENDS Integers, Sequences, FiniteSetsExt

CONSTANTS Char,        \* characters, each of an account of its own
          Thing,       \* items that can be mailed
          None,        \* no item
          Wealth,      \* all the zeny there is
          InboxSize,   \* MAIL_MAX_INBOX
          MaxMails,    \* bound: rows ever inserted
          MaxMailPackets \* bound: packets under way in each direction

ASSUME MailAssumption ==
  /\ None \notin Thing /\ IsFiniteSet(Thing) /\ IsFiniteSet(Char)
  /\ {Wealth, InboxSize, MaxMails, MaxMailPackets} \subseteq Nat

VARIABLES playing,     \* characters in the game
          bag, purse,  \* their items and zeny
          attach,      \* sd->mail: what the next mail will carry
          inbox,       \* sd->mail.inbox: copies of rows
          full, changed,
          mails,       \* the table
          last_id,     \* the last id given to a row
          mailLink, mailToChar, mailToMap,
          vain         \* ghost: mails whose attachment was asked for in vain

mailVars == <<playing, bag, purse, attach, inbox, full, changed, mails, last_id,
              mailLink, mailToChar, mailToMap, vain>>
mailMemory == <<playing, bag, purse, attach, inbox, full, changed>>

Nothing == [item |-> None, zeny |-> 0]
Goods == [item : Thing \union {None}, zeny : 0 .. Wealth]
Has(m) == m.item # None \/ m.zeny > 0
Message == [id : 0 .. MaxMails, from : Char, to : Char, item : Thing \union {None},
            zeny : 0 .. Wealth, read : BOOLEAN]

MailRequest ==
  [type : {"inbox"}, char : Char]
    \union [type : {"read"}, id : 1 .. MaxMails]
    \union [type : {"getattach", "delete", "return"}, char : Char, id : 1 .. MaxMails]
    \union [type : {"send"}, msg : Message]
MailAnswer ==
  [type : {"inboxreceived"}, char : Char, rows : SUBSET Message, full : BOOLEAN]
    \union [type : {"attached"}, char : Char, item : Thing \union {None}, zeny : 0 .. Wealth]
    \union [type : {"removed"}, char : Char, id : 1 .. MaxMails, fail : BOOLEAN]
    \union [type : {"sent"}, msg : Message]
    \union [type : {"new"}, char : Char]

MailInit ==
  /\ playing = Char
  /\ bag \in [Char -> SUBSET Thing]
  /\ \A c, d \in Char : c # d => bag[c] \intersect bag[d] = {}
  /\ purse \in [Char -> 0 .. Wealth] /\ MapThenSumSet(LAMBDA c : purse[c], Char) <= Wealth
  /\ attach = [c \in Char |-> Nothing]
  /\ inbox = [c \in Char |-> {}]
  /\ full = {} /\ changed = {}
  /\ mails = {} /\ last_id = 0
  /\ mailLink = TRUE /\ mailToChar = <<>> /\ mailToMap = <<>>
  /\ vain = {}

-----------------------------------------------------------------------------
(* The player's requests *)

MailRoom == Len(mailToChar) < MaxMailPackets
Ask(packets) == mailToChar' = IF mailLink THEN mailToChar \o packets ELSE mailToChar
Cleared(c) == attach' = [attach EXCEPT ![c] = Nothing]

\* mail_setitem: the item stays in the inventory.
SetItem(c, i) ==
  /\ c \in playing /\ mailLink
  /\ i \in bag[c]
  /\ attach' = [attach EXCEPT ![c].item = i]
  /\ UNCHANGED <<playing, bag, purse, inbox, full, changed, mails, last_id, mailLink,
                 mailToChar, mailToMap, vain>>

SetZeny(c, z) ==
  /\ c \in playing /\ mailLink
  /\ attach' = [attach EXCEPT ![c].zeny = IF z > purse[c] THEN purse[c] ELSE z]
  /\ UNCHANGED <<playing, bag, purse, inbox, full, changed, mails, last_id, mailLink,
                 mailToChar, mailToMap, vain>>

\* Meanwhile things and zeny go from hand to hand.
Hand(c, d) ==
  /\ {c, d} \subseteq playing /\ c # d
  /\ \/ \E i \in bag[c] :
          /\ bag' = [bag EXCEPT ![c] = @ \ {i}, ![d] = @ \union {i}]
          /\ UNCHANGED purse
     \/ /\ purse[c] > 0
        /\ purse' = [purse EXCEPT ![c] = @ - 1, ![d] = @ + 1]
        /\ UNCHANGED bag
  /\ UNCHANGED <<playing, attach, inbox, full, changed, mails, last_id, mailLink,
                 mailToChar, mailToMap, vain>>

(* Mutant: the attachment is sent as it was chosen. *)
mail_setattachment_Unchecked(c) == TRUE

\* What was chosen must still be there.
mail_setattachment(c) ==
  /\ attach[c].zeny <= purse[c]
  /\ attach[c].item # None => attach[c].item \in bag[c]

(* Mutant: the item stays in the inventory. *)
Taken_ZenyOnly(c) ==
  purse' = [purse EXCEPT ![c] = @ - attach[c].zeny] /\ UNCHANGED bag

\* mail_removeitem and mail_removezeny
Taken(c) ==
  /\ bag' = [bag EXCEPT ![c] = @ \ {attach[c].item}]
  /\ purse' = [purse EXCEPT ![c] = @ - attach[c].zeny]

Pending == {k \in DOMAIN mailToChar : mailToChar[k].type \in {"send", "return"}}

\* mail_send, without a check that the receiver exists; a mail without title
\* is dropped after its attachment has been taken.
mail_send(c, to, titled) ==
  /\ c \in playing /\ mailLink /\ MailRoom
  /\ last_id + Cardinality(Pending) < MaxMails
  /\ IF mail_setattachment(c)
     THEN /\ Taken(c)
          /\ Ask(IF titled
                 THEN <<[type |-> "send",
                         msg |-> [id |-> 0, from |-> c, to |-> to, read |-> FALSE,
                                  item |-> attach[c].item, zeny |-> attach[c].zeny]]>>
                 ELSE <<>>)
     ELSE UNCHANGED <<bag, purse, mailToChar>>
  /\ Cleared(c)
  /\ UNCHANGED <<playing, inbox, full, changed, mails, last_id, mailLink, mailToMap, vain>>

\* clif_parse_Mail_refreshinbox
Refresh(c) ==
  IF Cardinality(inbox[c]) < InboxSize /\ c \in full \union changed
  THEN <<[type |-> "inbox", char |-> c]>> ELSE <<>>

RefreshInbox(c) ==
  /\ c \in playing /\ MailRoom
  /\ Ask(Refresh(c))
  /\ Cleared(c)
  /\ UNCHANGED <<playing, bag, purse, inbox, full, changed, mails, last_id, mailLink,
                 mailToMap, vain>>

\* clif_Mail_read: the first reading is recorded in the copy and, if the link
\* is there, in the table.
Opening(c, m) ==
  IF m.read THEN <<>> ELSE <<[type |-> "read", id |-> m.id]>> \o Refresh(c)

ReadMail(c, m) ==
  /\ c \in playing /\ m \in inbox[c] /\ ~m.read
  /\ MailRoom
  /\ inbox' = [inbox EXCEPT ![c] = (@ \ {m}) \union {[m EXCEPT !.read = TRUE]}]
  /\ Ask(Opening(c, m))
  /\ Cleared(c)
  /\ UNCHANGED <<playing, bag, purse, full, changed, mails, last_id, mailLink, mailToMap, vain>>

\* clif_parse_Mail_getattach, when there is room for the attachment: the copy
\* is emptied before the request is sent.
GetAttach(c, m) ==
  /\ c \in playing /\ m \in inbox[c]
  /\ mailLink /\ MailRoom
  /\ Has(m)
  /\ inbox' = [inbox EXCEPT ![c] = (@ \ {m})
                  \union {[m EXCEPT !.read = TRUE, !.item = None, !.zeny = 0]}]
  /\ Ask(Opening(c, m) \o <<[type |-> "getattach", char |-> c, id |-> m.id]>>)
  /\ attach' = [attach EXCEPT ![c] = IF m.read THEN @ ELSE Nothing]
  /\ UNCHANGED <<playing, bag, purse, full, changed, mails, last_id, mailLink, mailToMap, vain>>

(* Mutant: the attachment is not looked at. *)
MayDelete_Always(m) == TRUE

\* "can't delete mail without removing attachment first"
MayDelete(m) == ~Has(m)

DeleteMail(c, m) ==
  /\ c \in playing /\ m \in inbox[c]
  /\ mailLink /\ MailRoom
  /\ MayDelete(m)
  /\ Ask(<<[type |-> "delete", char |-> c, id |-> m.id]>>)
  /\ UNCHANGED <<mailMemory, mails, last_id, mailLink, mailToMap, vain>>

ReturnMail(c, m) ==
  /\ c \in playing /\ m \in inbox[c]
  /\ mailLink /\ MailRoom
  /\ last_id + Cardinality(Pending) < MaxMails
  /\ Ask(<<[type |-> "return", char |-> c, id |-> m.id]>>)
  /\ UNCHANGED <<mailMemory, mails, last_id, mailLink, mailToMap, vain>>

MailQuit(c) ==
  /\ c \in playing
  /\ playing' = playing \ {c}
  /\ inbox' = [inbox EXCEPT ![c] = {}]
  /\ full' = full \ {c} /\ changed' = changed \ {c}
  /\ Cleared(c)
  /\ UNCHANGED <<bag, purse, mails, last_id, mailLink, mailToChar, mailToMap, vain>>

\* pc_reg_received asks for the inbox.
MailLogin(c) ==
  /\ c \notin playing /\ mailLink /\ MailRoom
  /\ playing' = playing \union {c}
  /\ Ask(<<[type |-> "inbox", char |-> c]>>)
  /\ UNCHANGED <<bag, purse, attach, inbox, full, changed, mails, last_id, mailLink,
                 mailToMap, vain>>

-----------------------------------------------------------------------------
(* The char-server *)

Rows(id) == {m \in mails : m.id = id}
Reply(packets) == mailToMap' = mailToMap \o packets
NewMail(to) == <<[type |-> "new", char |-> to]>>

\* mail_fromsql: the first InboxSize rows by id.
mapif_Mail_sendinbox(c) ==
  LET his == {m \in mails : m.to = c}
      rows == {m \in his : Cardinality({n \in his : n.id < m.id}) < InboxSize}
  IN  /\ Reply(<<[type |-> "inboxreceived", char |-> c, rows |-> rows,
                  full |-> Cardinality(his) > InboxSize]>>)
      /\ UNCHANGED <<mails, last_id, vain>>

mapif_parse_Mail_read(id) ==
  /\ mails' = (mails \ Rows(id)) \union {[m EXCEPT !.read = TRUE] : m \in Rows(id)}
  /\ UNCHANGED <<last_id, mailToMap, vain>>

(* Mutant: the attachment stays in the table. *)
Detached_Not(m) == mails

\* mail_DeleteAttach
Detached(m) == (mails \ {m}) \union {[m EXCEPT !.item = None, !.zeny = 0]}

\* A mail that is not marked as read in the table gives nothing.
mapif_Mail_getattach(c, id) ==
  LET ready == {m \in Rows(id) : m.to = c /\ m.read /\ Has(m)}
  IN  /\ \/ /\ ready = {}
            /\ UNCHANGED <<mails, mailToMap>>
            /\ vain' = vain \union {m.id : m \in {r \in Rows(id) : Has(r)}}
         \/ \E m \in ready :
              /\ mails' = Detached(m)
              /\ Reply(<<[type |-> "attached", char |-> c, item |-> m.item, zeny |-> m.zeny]>>)
              /\ UNCHANGED vain
      /\ UNCHANGED last_id

\* Any row is deleted, whatever is attached to it and whose it is.
mapif_Mail_delete(c, id) ==
  /\ mails' = mails \ Rows(id)
  /\ Reply(<<[type |-> "removed", char |-> c, id |-> id, fail |-> FALSE]>>)
  /\ UNCHANGED <<last_id, vain>>

Removed(c, id, fail) == <<[type |-> "removed", char |-> c, id |-> id, fail |-> fail]>>

mapif_Mail_return(c, id) ==
  \/ /\ Rows(id) = {}
     /\ Reply(Removed(c, id, TRUE))
     /\ UNCHANGED <<mails, last_id, vain>>
  \/ \E m \in Rows(id) :
       /\ m.to = c
       /\ mails' = (mails \ {m}) \union {[m EXCEPT !.id = last_id + 1, !.from = m.to,
                                                   !.to = m.from, !.read = FALSE]}
       /\ last_id' = last_id + 1
       /\ Reply(NewMail(m.from) \o Removed(c, id, FALSE))
       /\ UNCHANGED vain

\* A receiver that does not exist or is of the same account: the sender gets
\* the mail back with the id 0.
mapif_parse_Mail_send(msg) ==
  /\ \/ /\ msg.to # msg.from
        /\ mails' = mails \union {[msg EXCEPT !.id = last_id + 1]}
        /\ last_id' = last_id + 1
        /\ Reply(<<[type |-> "sent", msg |-> [msg EXCEPT !.id = last_id + 1]]>> \o NewMail(msg.to))
     \/ /\ msg.to = msg.from
        /\ Reply(<<[type |-> "sent", msg |-> msg]>>)
        /\ UNCHANGED <<mails, last_id>>
  /\ UNCHANGED vain

CharHandles ==
  /\ mailToChar # <<>> /\ mailLink /\ Len(mailToMap) < MaxMailPackets
  /\ LET p == Head(mailToChar) IN
       \/ p.type = "inbox" /\ mapif_Mail_sendinbox(p.char)
       \/ p.type = "read" /\ mapif_parse_Mail_read(p.id)
       \/ p.type = "getattach" /\ mapif_Mail_getattach(p.char, p.id)
       \/ p.type = "delete" /\ mapif_Mail_delete(p.char, p.id)
       \/ p.type = "return" /\ mapif_Mail_return(p.char, p.id)
       \/ p.type = "send" /\ mapif_parse_Mail_send(p.msg)
  /\ mailToChar' = Tail(mailToChar)
  /\ UNCHANGED <<mailMemory, mailLink>>

-----------------------------------------------------------------------------
(* The answers *)

\* pc_additem and pc_getzeny, by what else the player carries: what does not
\* fit is lost.
ReceiveParcel(c, item, zeny) ==
  /\ \E fits \in SUBSET ({item} \ {None}) : bag' = [bag EXCEPT ![c] = @ \union fits]
  /\ \E z \in {0, zeny} : purse' = [purse EXCEPT ![c] = @ + z]

intif_parse_Mail_inboxreceived(c, rows, isFull) ==
  /\ inbox' = [inbox EXCEPT ![c] = rows]
  /\ full' = IF isFull THEN full \union {c} ELSE full \ {c}
  /\ changed' = changed \ {c}
  /\ UNCHANGED <<bag, purse, attach, mailToChar>>

\* intif_parse_Mail_delete and intif_parse_Mail_return
Forget(c, id, fail) ==
  /\ inbox' = IF fail THEN inbox ELSE [inbox EXCEPT ![c] = {m \in @ : m.id # id}]
  /\ Ask(IF ~fail /\ c \in full THEN <<[type |-> "inbox", char |-> c]>> ELSE <<>>)
  /\ UNCHANGED <<bag, purse, attach, full, changed>>

MailMapHandles ==
  /\ mailToMap # <<>>
  /\ LET p == Head(mailToMap)
         c == IF p.type = "sent" THEN p.msg.from ELSE p.char
     IN  \/ /\ c \notin playing
            /\ UNCHANGED <<bag, purse, attach, inbox, full, changed, mailToChar>>
         \/ /\ c \in playing
            /\ \/ /\ p.type = "inboxreceived"
                  /\ intif_parse_Mail_inboxreceived(c, p.rows, p.full)
               \/ /\ p.type = "attached"
                  /\ ReceiveParcel(c, p.item, p.zeny)
                  /\ UNCHANGED <<attach, inbox, full, changed, mailToChar>>
               \/ p.type = "removed" /\ Forget(c, p.id, p.fail)
               \/ /\ p.type = "sent"
                  /\ IF p.msg.id = 0 THEN ReceiveParcel(c, p.msg.item, p.msg.zeny)
                     ELSE UNCHANGED <<bag, purse>>
                  /\ UNCHANGED <<attach, inbox, full, changed, mailToChar>>
               \/ /\ p.type = "new"
                  /\ changed' = changed \union {c}
                  /\ UNCHANGED <<bag, purse, attach, inbox, full, mailToChar>>
  /\ mailToMap' = Tail(mailToMap)
  /\ UNCHANGED <<playing, mails, last_id, mailLink, vain>>

\* The link is lost with what is under way.
MailLinkLost ==
  /\ mailLink
  /\ mailLink' = FALSE /\ mailToChar' = <<>> /\ mailToMap' = <<>>
  /\ vain' = vain \union
       {m.id : m \in {r \in mails : Has(r) /\ \E k \in DOMAIN mailToChar :
                        mailToChar[k] = [type |-> "getattach", char |-> r.to, id |-> r.id]}}
  /\ UNCHANGED <<mailMemory, mails, last_id>>

MailLinkUp ==
  /\ ~mailLink
  /\ mailLink' = TRUE
  /\ UNCHANGED <<mailMemory, mails, last_id, mailToChar, mailToMap, vain>>

MailPlayer ==
  \E c \in Char :
    \/ \E i \in Thing : SetItem(c, i)
    \/ \E z \in 0 .. Wealth : SetZeny(c, z)
    \/ \E d \in Char : Hand(c, d) \/ mail_send(c, d, TRUE) \/ mail_send(c, d, FALSE)
    \/ RefreshInbox(c) \/ MailQuit(c) \/ MailLogin(c)
    \/ \E m \in inbox[c] : ReadMail(c, m) \/ GetAttach(c, m) \/ DeleteMail(c, m) \/ ReturnMail(c, m)

MailNext == MailPlayer \/ CharHandles \/ MailMapHandles \/ MailLinkLost \/ MailLinkUp

MailSpec == MailInit /\ [][MailNext]_mailVars

-----------------------------------------------------------------------------
(* Properties *)

MailTypeOK ==
  /\ playing \subseteq Char /\ full \subseteq Char /\ changed \subseteq Char
  /\ bag \in [Char -> SUBSET Thing] /\ purse \in [Char -> 0 .. Wealth]
  /\ attach \in [Char -> Goods] /\ inbox \in [Char -> SUBSET Message]
  /\ mails \subseteq Message /\ last_id \in 0 .. MaxMails
  /\ mailLink \in BOOLEAN /\ vain \subseteq 1 .. MaxMails
  /\ mailToChar \in Seq(MailRequest) /\ mailToMap \in Seq(MailAnswer)

\* What a packet carries: a mail to be stored, one that came back, or an
\* attachment.
Carried(p) ==
  IF p.type = "send" \/ (p.type = "sent" /\ p.msg.id = 0)
  THEN [item |-> p.msg.item, zeny |-> p.msg.zeny]
  ELSE IF p.type = "attached" THEN [item |-> p.item, zeny |-> p.zeny] ELSE Nothing

Copies(i) ==
  Cardinality({c \in Char : i \in bag[c]}) + Cardinality({m \in mails : m.item = i})
    + Cardinality({k \in DOMAIN mailToChar : Carried(mailToChar[k]).item = i})
    + Cardinality({k \in DOMAIN mailToMap : Carried(mailToMap[k]).item = i})

Zeny ==
  MapThenSumSet(LAMBDA c : purse[c], Char) + MapThenSumSet(LAMBDA m : m.zeny, mails)
    + MapThenSumSet(LAMBDA k : Carried(mailToChar[k]).zeny, DOMAIN mailToChar)
    + MapThenSumSet(LAMBDA k : Carried(mailToMap[k]).zeny, DOMAIN mailToMap)

\* However often a mail is asked for, returned or refused, on whatever copy of
\* the inbox, an item is in one place: a pack, a row or a packet.
MailedOnce == \A i \in Thing : Copies(i) <= 1

\* No step makes zeny, and what is attached to a row leaves it for a packet
\* or for another row: a row is never deleted with its attachment unless that
\* was asked for in vain.
KeepsAttachment ==
  \/ UNCHANGED <<purse, mails, mailToChar, mailToMap>>
  \/ /\ Zeny' <= Zeny
     /\ \A m \in mails \ mails' :
          m.item # None /\ m.id \notin vain =>
            \/ \E n \in mails' : n.item = m.item
            \/ \E k \in DOMAIN mailToMap' : Carried(mailToMap'[k]).item = m.item

\* "can't delete mail without removing attachment first" (src/map/clif.c):
\* KeepsAttachment without the exception.
AttachmentNeverDeleted ==
  [][\A m \in mails \ mails' :
       m.item # None =>
         \/ \E n \in mails' : n.item = m.item
         \/ \E k \in DOMAIN mailToMap' : Carried(mailToMap'[k]).item = m.item]_mailVars

=============================================================================
