------------------------------ MODULE Storage -------------------------------
(***************************************************************************)
(* The storage of one guild: the copy a map-server keeps (map/storage.c),  *)
(* the packets between it and the char-server (map/intif.c,                *)
(* char/int_storage.c), the saves of the players that use it               *)
(* (map/chrif.c) and the retrieval of guild bound items from members that  *)
(* are expelled (map/guild.c).  Items are told apart, none is made or used *)
(* up here.                                                                *)
(***************************************************************************)
EXTENDS Naturals, Sequences, FiniteSets

CONSTANTS Player,    \* characters of the guild
          Master,    \* its master
          Item,      \* the items that move around
          Bound,     \* those bound to the guild
          Capacity,  \* MAX_GUILD_STORAGE
          NoStorage, \* no struct guild_storage
          MaxPackets \* bound: packets under way in each direction

Nobody == "nobody"
guild_storage == [items : SUBSET Item, dirty : BOOLEAN, locked : BOOLEAN,
                  opened : Player \union {Nobody}]

ASSUME StorageAssumption ==
  /\ IsFiniteSet(Player) /\ Master \in Player /\ Nobody \notin Player
  /\ Bound \subseteq Item /\ IsFiniteSet(Item)
  /\ {Capacity, MaxPackets} \subseteq Nat /\ NoStorage \notin guild_storage

VARIABLES gstor,        \* guild_storage_db on the map-server
          pack,         \* inventories in the memory of the map-server
          storage_flag, \* players with the window of the guild storage open
          active,       \* players in the game
          quitting,     \* players kept until their final save is acknowledged
          guildsmen,    \* players in the game whose guild_id is set
          member,       \* members by the char-server
          linked,       \* the link between the two servers
          toInter, fromInter,
          pack_db, gstor_db, \* the tables
          returned,     \* ghost: a retrieval changed the storage since it was sent
          raced         \* ghost: items retrieved from a character that was logging in

storageVars == <<gstor, pack, storage_flag, active, quitting, guildsmen, member, linked,
                 toInter, fromInter, pack_db, gstor_db, returned, raced>>
mapMemory == <<gstor, pack, storage_flag, active, quitting, guildsmen, returned>>
tables == <<member, pack_db, gstor_db, raced>>

Loaded(items) == [items |-> items, dirty |-> FALSE, locked |-> FALSE, opened |-> Nobody]

InterPacket ==
  [type : {"auth", "load", "retrieve", "expel"}, char : Player]
    \union [type : {"gstorage"}, items : SUBSET Item]
    \union [type : {"char"}, char : Player, items : SUBSET Item, final : BOOLEAN]
MapPacket ==
  [type : {"authok"}, char : Player, items : SUBSET Item, guild : BOOLEAN]
    \union [type : {"loaded"}, char : Player, items : SUBSET Item]
    \union [type : {"stored"}]
    \union [type : {"saved", "withdraw"}, char : Player]
    \union [type : {"retrieved"}, items : SUBSET Item]

StorageInit ==
  /\ gstor = NoStorage
  /\ active = {} /\ quitting = {} /\ guildsmen = {} /\ storage_flag = {}
  /\ pack = [c \in Player |-> {}]
  /\ member = Player /\ linked = TRUE
  /\ toInter = <<>> /\ fromInter = <<>>
  /\ \E owner \in [Item -> Player \union {Nobody}] :
       /\ \A i \in Bound : owner[i] # Nobody
       /\ pack_db = [c \in Player |-> {i \in Item : owner[i] = c}]
       /\ gstor_db = {i \in Item : owner[i] = Nobody}
  /\ returned = FALSE /\ raced = {}

-----------------------------------------------------------------------------
(* Saving *)

Send(packets) == toInter' = IF linked THEN toInter \o packets ELSE toInter
Request(packet) == toInter' = IF linked THEN Append(toInter, packet) ELSE toInter
Room == Len(toInter) < MaxPackets

Opens(c) == c \in storage_flag /\ c \in guildsmen /\ gstor # NoStorage

\* gstorage_storagesave: only what changed is sent.
StoragePacket(gs) == IF gs.dirty THEN <<[type |-> "gstorage", items |-> gs.items]>> ELSE <<>>

\* chrif_save: the storage first if the window is open, then the character.
SavePackets(c, items, final) ==
  (IF Opens(c) THEN StoragePacket(gstor) ELSE <<>>)
    \o <<[type |-> "char", char |-> c, items |-> items, final |-> final]>>

\* The storage as it is after c's save has been sent or not.
Sent == returned' = IF linked /\ gstor.dirty THEN FALSE ELSE returned

\* gstorage_storageclose by c, who has a window: whoever opened it is
\* closed, and the save is skipped without the link.
gstorage_storageclose(c) ==
  /\ storage_flag' = storage_flag \ {c}
  /\ IF gstor # NoStorage /\ gstor.opened # Nobody
     THEN /\ Send(SavePackets(c, pack[c], FALSE))
          /\ gstor' = [gstor EXCEPT !.opened = Nobody]
          /\ IF Opens(c) THEN Sent ELSE UNCHANGED returned
     ELSE UNCHANGED <<toInter, gstor, returned>>

-----------------------------------------------------------------------------
(* Players *)

LoggingIn(c) ==
  \/ [type |-> "auth", char |-> c] \in {toInter[k] : k \in DOMAIN toInter}
  \/ \E k \in DOMAIN fromInter : fromInter[k].type = "authok" /\ fromInter[k].char = c

\* chrif_authreq: not while the character quits.
StorageLogin(c) ==
  /\ c \notin active \union quitting /\ ~LoggingIn(c)
  /\ linked /\ Room
  /\ Request([type |-> "auth", char |-> c])
  /\ UNCHANGED <<mapMemory, linked, fromInter, tables>>

\* The answer brings the character as it was when it was sent.
Authok(c, items, guild) ==
  /\ active' = active \union {c}
  /\ pack' = [pack EXCEPT ![c] = items]
  /\ guildsmen' = IF guild THEN guildsmen \union {c} ELSE guildsmen
  /\ UNCHANGED <<gstor, storage_flag, quitting, toInter, returned>>

MayOpen(c) == c \in active /\ c \in guildsmen /\ c \notin storage_flag

\* gstorage_storageopen, when the storage has still to be fetched.
RequestStorage(c) ==
  /\ MayOpen(c) /\ gstor = NoStorage
  /\ linked /\ Room
  /\ Request([type |-> "load", char |-> c])
  /\ UNCHANGED <<mapMemory, linked, fromInter, tables>>

Free(gs) == gs.opened = Nobody /\ ~gs.locked

StorageOpen(c) ==
  /\ MayOpen(c) /\ gstor # NoStorage
  /\ Free(gstor)
  /\ gstor' = [gstor EXCEPT !.opened = c]
  /\ storage_flag' = storage_flag \union {c}
  /\ UNCHANGED <<pack, active, quitting, guildsmen, returned, linked, toInter, fromInter, tables>>

Uses(c) == Opens(c) /\ gstor.opened = c /\ ~gstor.locked

StorageAdd(c, i) ==
  /\ Uses(c)
  /\ i \in pack[c]
  /\ Cardinality(gstor.items) < Capacity
  /\ pack' = [pack EXCEPT ![c] = @ \ {i}]
  /\ gstor' = [gstor EXCEPT !.items = @ \union {i}, !.dirty = TRUE]
  /\ UNCHANGED <<storage_flag, active, quitting, guildsmen, returned, linked, toInter,
                 fromInter, tables>>

StorageGet(c, i) ==
  /\ Uses(c)
  /\ i \in gstor.items
  /\ pack' = [pack EXCEPT ![c] = @ \union {i}]
  /\ gstor' = [gstor EXCEPT !.items = @ \ {i}, !.dirty = TRUE]
  /\ UNCHANGED <<storage_flag, active, quitting, guildsmen, returned, linked, toInter,
                 fromInter, tables>>

\* A locked storage closes the window of who tries to use it; the client or a
\* warp closes it too.
StorageClose(c) ==
  /\ c \in storage_flag /\ c \in guildsmen /\ Room
  /\ gstorage_storageclose(c)
  /\ UNCHANGED <<pack, active, quitting, guildsmen, linked, fromInter, tables>>

StorageAutosave(c) ==
  /\ c \in active /\ linked /\ Room
  /\ Send(SavePackets(c, pack[c], FALSE))
  /\ IF Opens(c) THEN Sent ELSE UNCHANGED returned
  /\ UNCHANGED <<gstor, pack, storage_flag, active, quitting, guildsmen, linked, fromInter, tables>>

\* map_quit: unit_remove_map closes the storage, chrif_save sends the final
\* save.  While a teleport menu is open the window is left to chrif_save,
\* which does nothing without the link.
Quit(c, teleport) ==
  LET closes == c \in storage_flag /\ c \in guildsmen /\ gstor # NoStorage
                  /\ gstor.opened # Nobody /\ (linked \/ ~teleport)
  IN  /\ c \in active /\ Room
      /\ Send((IF closes /\ ~teleport THEN SavePackets(c, pack[c], FALSE) ELSE <<>>)
              \o (IF closes /\ teleport THEN SavePackets(c, pack[c], TRUE)
                  ELSE <<[type |-> "char", char |-> c, items |-> pack[c], final |-> TRUE]>>))
      /\ gstor' = IF closes THEN [gstor EXCEPT !.opened = Nobody] ELSE gstor
      /\ IF closes /\ Opens(c) THEN Sent ELSE UNCHANGED returned
      /\ storage_flag' = storage_flag \ {c}
      /\ active' = active \ {c} /\ guildsmen' = guildsmen \ {c}
      /\ quitting' = quitting \union {c}
      /\ UNCHANGED <<pack, linked, fromInter, tables>>

-----------------------------------------------------------------------------
(* Expulsion, and guild bound items *)

\* guild_leave of c, or guild_expulsion by another member in the game: "Can't
\* expel the GL!"
Expel(c) ==
  /\ c \in member \ {Master} /\ guildsmen # {} /\ linked /\ Room
  /\ \A k \in DOMAIN toInter : toInter[k] # [type |-> "expel", char |-> c]
  /\ Request([type |-> "expel", char |-> c])
  /\ UNCHANGED <<mapMemory, linked, fromInter, tables>>

\* gstorage_guild2storage makes an empty storage if there is none.
Ensured == IF gstor = NoStorage THEN Loaded({}) ELSE gstor

\* Mutant: a full storage takes them all the same.
Fits_Full(items, more) == {S \in SUBSET more : TRUE}

Fits(items, more) == {S \in SUBSET more : S = {} \/ Cardinality(items \union S) <= Capacity}

Kept(items, more) == CHOOSE S \in Fits(items, more) :
                       \A T \in Fits(items, more) : Cardinality(T) <= Cardinality(S)

\* guild_retrieveitembound for c in the game: whoever uses the storage is
\* closed and saved, c's bound items go into it or are lost, nothing is saved.
\* An opener that is gone is not found; then it is c who is saved and closed.
RetrieveOnline(c) ==
  LET bound == pack[c] \cap Bound
      opener == IF gstor = NoStorage THEN Nobody ELSE gstor.opened
      found == opener # Nobody /\ opener \in guildsmen
      kept == Kept(Ensured.items, bound)
      gs == [Ensured EXCEPT !.opened = Nobody]
  IN  /\ pack' = [pack EXCEPT ![c] = @ \ bound]
      /\ IF c \in guildsmen
         THEN /\ storage_flag' = storage_flag \ {opener, c}
              /\ Send(IF found THEN SavePackets(opener, pack[opener], FALSE)
                      ELSE IF opener # Nobody THEN SavePackets(c, pack'[c], FALSE) ELSE <<>>)
              /\ gstor' = [gs EXCEPT !.items = @ \union kept, !.dirty = @ \/ kept # {}]
              /\ returned' = (kept # {} \/ returned)
         ELSE UNCHANGED <<gstor, toInter, storage_flag, returned>>

\* ... and for c who is not: the storage is locked until the char-server answers.
RetrieveOffline(c) ==
  LET opener == IF gstor = NoStorage THEN Nobody ELSE gstor.opened
      closes == opener # Nobody /\ opener \in guildsmen
  IN  /\ toInter' = toInter
           \o (IF closes THEN SavePackets(opener, pack[opener], FALSE) ELSE <<>>)
           \o <<[type |-> "retrieve", char |-> c]>>
      /\ gstor' = IF gstor = NoStorage THEN gstor
                  ELSE [gstor EXCEPT !.locked = TRUE,
                                     !.opened = IF closes THEN Nobody ELSE @]
      /\ storage_flag' = storage_flag \ {opener}
      /\ IF closes /\ Opens(opener) THEN Sent ELSE UNCHANGED returned
      /\ UNCHANGED pack

\* guild_member_withdraw, which closes the window of a member without bound
\* items.
Withdraw(c) ==
  /\ \/ c \notin active /\ RetrieveOffline(c)
     \/ c \in active /\ pack[c] \cap Bound # {} /\ RetrieveOnline(c)
     \/ /\ c \in active /\ pack[c] \cap Bound = {}
        /\ IF c \in storage_flag \cap guildsmen THEN gstorage_storageclose(c)
           ELSE UNCHANGED <<gstor, toInter, storage_flag, returned>>
        /\ UNCHANGED pack
  /\ guildsmen' = guildsmen \ {c}
  /\ UNCHANGED <<active, quitting>>

-----------------------------------------------------------------------------
(* Packets for the map-server *)

\* intif_parse_LoadGuildStorage: a storage in use or not saved yet is kept.
LoadGuildStorage(c, items) ==
  /\ IF c \notin active \/ (gstor # NoStorage /\ (gstor.opened # Nobody \/ gstor.dirty))
     THEN UNCHANGED <<gstor, storage_flag>>
     ELSE LET fresh == Loaded(items)
              opens == c \in guildsmen /\ c \notin storage_flag
          IN  /\ gstor' = [fresh EXCEPT !.opened = IF opens THEN c ELSE Nobody]
              /\ storage_flag' = IF opens THEN storage_flag \union {c} ELSE storage_flag
  /\ UNCHANGED <<pack, active, quitting, guildsmen, toInter, returned>>

\* Mutant: an acknowledgement clears the mark of a storage in use as well.
gstorage_storagesaved_Open ==
  /\ gstor' = IF gstor # NoStorage THEN [gstor EXCEPT !.dirty = FALSE] ELSE gstor
  /\ UNCHANGED <<pack, storage_flag, active, quitting, guildsmen, toInter, returned>>

\* "Storage has been correctly saved."
gstorage_storagesaved ==
  /\ gstor' = IF gstor # NoStorage /\ gstor.opened = Nobody
              THEN [gstor EXCEPT !.dirty = FALSE] ELSE gstor
  /\ UNCHANGED <<pack, storage_flag, active, quitting, guildsmen, toInter, returned>>

\* Mutant: the lock is removed only when items came.
Retrieved_Locked(items) ==
  LET kept == Kept(Ensured.items, items)
  IN  /\ gstor' = IF items = {} THEN gstor
                  ELSE [Ensured EXCEPT !.items = @ \union kept, !.dirty = @ \/ kept # {},
                                       !.locked = FALSE, !.opened = Nobody]
      /\ returned' = (items # {} \/ returned)
      /\ UNCHANGED <<pack, storage_flag, active, quitting, guildsmen, toInter>>

\* intif_parse_itembound_ack and intif_parse_itembound_store2gstorage
Retrieved(items) ==
  LET gs == IF items = {} THEN gstor ELSE Ensured
      kept == Kept(gs.items, items)
  IN  /\ gstor' = IF gs = NoStorage THEN gs
                  ELSE IF items = {} THEN [gs EXCEPT !.locked = FALSE]
                  ELSE [gs EXCEPT !.items = @ \union kept, !.dirty = @ \/ kept # {},
                                  !.locked = FALSE, !.opened = Nobody]
      /\ returned' = (items # {} \/ returned)
      /\ UNCHANGED <<pack, storage_flag, active, quitting, guildsmen, toInter>>

\* chrif_save_ack ends the wait of a quitting character.
CharSaved(c) ==
  /\ quitting' = quitting \ {c}
  /\ UNCHANGED <<gstor, pack, storage_flag, active, guildsmen, toInter, returned>>

MapHandles ==
  /\ fromInter # <<>>
  /\ LET p == Head(fromInter) IN
       \/ p.type = "authok" /\ Authok(p.char, p.items, p.guild)
       \/ p.type = "loaded" /\ LoadGuildStorage(p.char, p.items)
       \/ p.type = "stored" /\ gstorage_storagesaved
       \/ p.type = "saved" /\ CharSaved(p.char)
       \/ p.type = "withdraw" /\ Withdraw(p.char)
       \/ p.type = "retrieved" /\ Retrieved(p.items)
  /\ fromInter' = Tail(fromInter)
  /\ UNCHANGED <<linked, tables>>

-----------------------------------------------------------------------------
(* Packets for the char-server *)

LoadedPacket(c) == [type |-> "loaded", char |-> c, items |-> gstor_db]

\* Mutant: the items are read and not deleted.
ItemboundRetrieve_Keep(c) ==
  LET bound == pack_db[c] \cap Bound
  IN  /\ fromInter' = Append(fromInter, [type |-> "retrieved", items |-> bound])
      /\ raced' = IF c \in active \union quitting \/ LoggingIn(c) THEN raced \union bound ELSE raced
      /\ UNCHANGED <<member, gstor_db, pack_db>>

\* mapif_parse_itembound_retrieve: the member's bound items are read, those of
\* all characters are deleted.
ItemboundRetrieve(c) ==
  LET bound == pack_db[c] \cap Bound
  IN  /\ pack_db' = IF bound = {} THEN pack_db
                    ELSE [d \in Player |-> pack_db[d] \ Bound]
      /\ fromInter' = Append(fromInter, [type |-> "retrieved", items |-> bound])
      /\ raced' = IF c \in active \union quitting \/ LoggingIn(c) THEN raced \union bound ELSE raced
      /\ UNCHANGED <<member, gstor_db>>

InterHandles ==
  /\ toInter # <<>> /\ linked /\ Len(fromInter) < MaxPackets
  /\ LET p == Head(toInter) IN
       \/ /\ p.type = "load"
          /\ fromInter' = Append(fromInter, LoadedPacket(p.char))
          /\ UNCHANGED tables
       \/ /\ p.type = "auth"
          /\ fromInter' = Append(fromInter, [type |-> "authok", char |-> p.char,
                                     items |-> pack_db[p.char], guild |-> p.char \in member])
          /\ UNCHANGED tables
       \/ /\ p.type = "gstorage"
          /\ gstor_db' = p.items
          /\ fromInter' = Append(fromInter, [type |-> "stored"])
          /\ UNCHANGED <<member, pack_db, raced>>
       \/ /\ p.type = "char"
          /\ pack_db' = [pack_db EXCEPT ![p.char] = p.items]
          /\ fromInter' = IF p.final THEN Append(fromInter, [type |-> "saved", char |-> p.char])
                          ELSE fromInter
          /\ UNCHANGED <<member, gstor_db, raced>>
       \/ /\ p.type = "expel"
          /\ member' = member \ {p.char}
          /\ fromInter' = IF p.char \in member
                          THEN Append(fromInter, [type |-> "withdraw", char |-> p.char])
                          ELSE fromInter
          /\ UNCHANGED <<pack_db, gstor_db, raced>>
       \/ p.type = "retrieve" /\ ItemboundRetrieve(p.char)
  /\ toInter' = Tail(toInter)
  /\ UNCHANGED <<mapMemory, linked>>

\* What is under way is lost with the link.
LinkLost ==
  /\ linked
  /\ linked' = FALSE /\ toInter' = <<>> /\ fromInter' = <<>>
  /\ UNCHANGED <<mapMemory, tables>>

\* chrif_on_ready: final saves are sent again, then what is dirty and closed.
LinkUp ==
  /\ ~linked
  /\ linked' = TRUE
  /\ \E order \in [1 .. Cardinality(quitting) -> quitting] :
       /\ \A c \in quitting : \E k \in DOMAIN order : order[k] = c
       /\ toInter' = [k \in DOMAIN order |->
                        [type |-> "char", char |-> order[k], items |-> pack[order[k]], final |-> TRUE]]
                     \o (IF gstor # NoStorage /\ gstor.opened = Nobody
                         THEN StoragePacket(gstor) ELSE <<>>)
  /\ returned' = IF gstor # NoStorage /\ gstor.opened = Nobody /\ gstor.dirty
                 THEN FALSE ELSE returned
  /\ UNCHANGED <<gstor, pack, storage_flag, active, quitting, guildsmen, fromInter, tables>>

StoragePlayer ==
  \E c \in Player :
    \/ StorageLogin(c) \/ RequestStorage(c) \/ StorageOpen(c) \/ StorageClose(c)
    \/ StorageAutosave(c) \/ Quit(c, TRUE) \/ Quit(c, FALSE) \/ Expel(c)
    \/ \E i \in Item : StorageAdd(c, i) \/ StorageGet(c, i)

StorageNext == StoragePlayer \/ MapHandles \/ InterHandles \/ LinkLost \/ LinkUp

\* Both servers go on reading what they were sent.
StorageFairness == WF_storageVars(MapHandles) /\ WF_storageVars(InterHandles)

StorageSpec == StorageInit /\ [][StorageNext]_storageVars /\ StorageFairness

-----------------------------------------------------------------------------
(* Properties *)

StorageTypeOK ==
  /\ gstor \in guild_storage \union {NoStorage}
  /\ pack \in [Player -> SUBSET Item] /\ pack_db \in [Player -> SUBSET Item]
  /\ gstor_db \subseteq Item /\ Cardinality(gstor_db) <= Capacity
  /\ {storage_flag, active, quitting, guildsmen, member} \subseteq SUBSET Player
  /\ toInter \in Seq(InterPacket) /\ fromInter \in Seq(MapPacket)
  /\ linked \in BOOLEAN /\ returned \in BOOLEAN /\ raced \subseteq Bound

\* A quitting character's items are those of its node until the table has
\* them.
Stored(c) == \E k \in DOMAIN fromInter : fromInter[k] = [type |-> "saved", char |-> c]
PackOf(c) == IF c \in active \/ (c \in quitting /\ ~Stored(c)) THEN pack[c] ELSE pack_db[c]
StorageItems == IF gstor = NoStorage THEN gstor_db ELSE gstor.items
OnTheWay(k) == IF fromInter[k].type = "retrieved" THEN fromInter[k].items ELSE {}

\* No item is in two places, whatever is lost, repeated or read late: neither
\* a storage that was asked for twice, nor a save, nor a retrieval brings back
\* something that has been taken.  Left out are the items retrieved from a
\* character whose login was under way: it has them already.
ItemInOnePlace ==
  \A i \in Item \ raced :
    Cardinality({c \in Player : i \in PackOf(c)})
      + Cardinality({k \in DOMAIN fromInter : i \in OnTheWay(k)})
      + (IF i \in StorageItems THEN 1 ELSE 0) <= 1

StorageSaves == {k \in DOMAIN toInter : toInter[k].type = "gstorage"}
LastSent == IF StorageSaves = {} THEN gstor_db
            ELSE toInter[CHOOSE k \in StorageSaves : \A j \in StorageSaves : j <= k].items

\* The acknowledgement of a save clears the dirty mark only if the present
\* contents have been sent: a storage changed since is open, unless what
\* changed it was a retrieval.
AckClearsSaved ==
  [][gstor # NoStorage /\ gstor' # NoStorage =>
       (gstor.dirty /\ ~gstor'.dirty => gstor.items = LastSent \/ returned)]_storageVars

Retrieving ==
  \/ \E k \in DOMAIN toInter : toInter[k].type = "retrieve"
  \/ \E k \in DOMAIN fromInter : fromInter[k].type = "retrieved"

\* A storage that is locked for a retrieval is unlocked by its answer unless
\* the link is lost first.
LockReleased ==
  gstor # NoStorage /\ gstor.locked /\ Retrieving
    ~> gstor = NoStorage \/ ~gstor.locked \/ ~linked

\* A storage on the map-server has everything that the table has and no
\* player took: "overflowed item's stack won't disturbs the guild storage
\* table" (src/char/int_storage.c).
StorageIsWhole ==
  gstor # NoStorage => gstor_db \subseteq gstor.items \union UNION {pack[c] : c \in Player}

=============================================================================
