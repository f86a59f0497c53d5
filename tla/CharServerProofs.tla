-------------------------- MODULE CharServerProofs --------------------------
(***************************************************************************)
(* Proofs about CharServer for any accounts, any characters of theirs, any *)
(* number of client sessions, map-servers and logins.                      *)
(*                                                                         *)
(* The inductive invariant is TypeOK /\ EntriesOK /\ FdOwned.  EntriesOK   *)
(* says of each entry by itself what SelectConsistent and NoUserOnDeadMap  *)
(* say of the table, so that a handler is checked by what its helper does  *)
(* to one entry.                                                           *)
(***************************************************************************)
EXTENDS CharServer, SequenceTheorems, WellFoundedInduction, TLAPS

USE IndexAssumption, OwnerAssumption, NullAssumption

(* An entry by itself, when the map-servers up are linked. *)
EntryOK(e, up) ==
  e # NULL =>
    /\ e \in online_char_data
    /\ e.char_id = -1 <=> e.server = SELECTING
    /\ e.waiting => e.server # SELECTING
    /\ e.server > -1 => e.server \in up

(* All entries are in order. *)
EntriesOK ==
  /\ online_char_db \in [Accounts -> online_char_data \cup {NULL}]
  /\ \A a \in Accounts : EntryOK(online_char_db[a], map_server)

-----------------------------------------------------------------------------
(* What the helpers do to one entry. *)

(* A created entry, or the existing one, is in order (idb_ensure). *)
LEMMA EnsuredOK ==
  ASSUME EntriesOK, NEW a \in Accounts
  PROVE  Ensured(a) \in online_char_data /\ EntryOK(Ensured(a), map_server)
<1>1. CASE online_char_db[a] = NULL
  BY <1>1 DEF Ensured, char_create_online_data, EntryOK, online_char_data,
              SELECTING, UNKNOWN
<1>2. CASE online_char_db[a] # NULL
  BY <1>2 DEF EntriesOK, EntryOK, Ensured
<1>. QED BY <1>1, <1>2

(* An account put back at character select is in order. *)
LEMMA CharSelectOK ==
  ASSUME NEW e \in online_char_data, NEW up
  PROVE  LET p == char_set_charselect(e) IN
         p \in online_char_data /\ EntryOK(p, up) /\ p.fd = e.fd
<1>. DEFINE p == char_set_charselect(e)
<1>1. p \in online_char_data
  BY DEF char_set_charselect, online_char_data
<1>2. p.char_id = -1 /\ p.server = SELECTING /\ p.waiting = FALSE /\ p.fd = e.fd
  BY DEF char_set_charselect, online_char_data
<1>3. ~(SELECTING > -1)
  BY DEF SELECTING
<1>4. EntryOK(p, up)
  BY <1>1, <1>2, <1>3 DEF EntryOK
<1>. QED BY <1>1, <1>2, <1>4

(* An account marked online on a linked map-server, or on none, is in      *)
(* order.                                                                  *)
LEMMA CharOnlineOK ==
  ASSUME NEW e \in online_char_data, NEW up,
         NEW m \in (MapServers \cap up) \cup {UNKNOWN}, NEW c \in Chars
  PROVE  LET p == char_set_char_online(e, m, c) IN
         p \in online_char_data /\ EntryOK(p, up) /\ p.fd = e.fd
<1>. DEFINE p == char_set_char_online(e, m, c)
<1>1. p \in online_char_data
  BY DEF char_set_char_online, online_char_data
<1>2. p.char_id = c /\ p.server = m /\ p.waiting = FALSE /\ p.fd = e.fd
  BY DEF char_set_char_online, online_char_data
<1>3. c # -1 /\ m # SELECTING /\ (m > -1 => m \in up)
  BY DEF SELECTING, UNKNOWN
<1>4. EntryOK(p, up)
  BY <1>1, <1>2, <1>3 DEF EntryOK
<1>. QED BY <1>1, <1>2, <1>4

(* An account that moves to a linked map-server keeps its timer and is in  *)
(* order.                                                                  *)
LEMMA MovedOK ==
  ASSUME NEW e \in online_char_data, NEW up, EntryOK(e, up),
         NEW m \in MapServers \cap up, NEW c \in Chars
  PROVE  LET p == [e EXCEPT !.char_id = c, !.server = m] IN
         p \in online_char_data /\ EntryOK(p, up) /\ p.fd = e.fd
<1>. DEFINE p == [e EXCEPT !.char_id = c, !.server = m]
<1>1. p \in online_char_data
  BY DEF online_char_data
<1>2. p.char_id = c /\ p.server = m /\ p.fd = e.fd
  BY DEF online_char_data
<1>3. c # -1 /\ m # SELECTING /\ m \in up
  BY DEF SELECTING
<1>4. EntryOK(p, up)
  BY <1>1, <1>2, <1>3 DEF EntryOK
<1>. QED BY <1>1, <1>2, <1>4

(* Setting a character offline keeps the entry in order, whichever         *)
(* character the entry has.                                                *)
LEMMA CharOfflineOK ==
  ASSUME NEW e \in online_char_data \cup {NULL}, NEW up, EntryOK(e, up), NEW c
  PROVE  LET p == char_set_char_offline(e, c) IN
         /\ p \in online_char_data \cup {NULL}
         /\ EntryOK(p, up)
         /\ p = NULL <=> e = NULL
         /\ p # NULL => p.fd = e.fd /\ p.server \in {e.server, SELECTING}
<1>1. CASE e = NULL
  BY <1>1 DEF char_set_char_offline, EntryOK
<1>2. CASE e # NULL /\ e.char_id = c
  <2>1. char_set_char_offline(e, c) = char_set_charselect(e)
    BY <1>2 DEF char_set_char_offline, char_set_charselect
  <2>2. char_set_charselect(e).server = SELECTING
    BY <1>2 DEF char_set_charselect, online_char_data
  <2>. QED BY <1>2, <2>1, <2>2, CharSelectOK
<1>3. CASE e # NULL /\ e.char_id # c
  <2>. DEFINE p == [e EXCEPT !.waiting = FALSE]
  <2>1. p \in online_char_data
    BY <1>3 DEF online_char_data
  <2>2. /\ p.char_id = e.char_id /\ p.server = e.server
        /\ p.waiting = FALSE /\ p.fd = e.fd
    BY <1>3 DEF online_char_data
  <2>3. EntryOK(p, up)
    BY <1>3, <2>1, <2>2 DEF EntryOK
  <2>4. char_set_char_offline(e, c) = p
    BY <1>3 DEF char_set_char_offline
  <2>. QED BY <1>3, <2>1, <2>2, <2>3, <2>4
<1>. QED BY <1>1, <1>2, <1>3

(* An account on a map-server may wait for its disconnection. *)
LEMMA WaitingOK ==
  ASSUME NEW e \in online_char_data, NEW up, EntryOK(e, up), e.server > -1
  PROVE  LET p == [e EXCEPT !.waiting = TRUE] IN
         p \in online_char_data /\ EntryOK(p, up) /\ p.fd = e.fd
           /\ p.server = e.server
<1>. DEFINE p == [e EXCEPT !.waiting = TRUE]
<1>1. p \in online_char_data
  BY DEF online_char_data
<1>2. p.char_id = e.char_id /\ p.server = e.server /\ p.fd = e.fd
  BY DEF online_char_data
<1>3. e.server # SELECTING
  BY DEF SELECTING
<1>4. EntryOK(p, up)
  BY <1>1, <1>2, <1>3 DEF EntryOK
<1>. QED BY <1>1, <1>2, <1>4

(* The session number does not matter to the order of an entry. *)
LEMMA FdOK ==
  ASSUME NEW e \in online_char_data, NEW up, EntryOK(e, up), NEW f \in Fds \cup {-1}
  PROVE  LET p == [e EXCEPT !.fd = f] IN
         p \in online_char_data /\ EntryOK(p, up) /\ p.fd = f /\ p.server = e.server
<1>. DEFINE p == [e EXCEPT !.fd = f]
<1>1. p \in online_char_data
  BY DEF online_char_data
<1>2. /\ p.char_id = e.char_id /\ p.server = e.server
      /\ p.waiting = e.waiting /\ p.fd = f
  BY DEF online_char_data
<1>3. EntryOK(p, up)
  BY <1>1, <1>2 DEF EntryOK
<1>. QED BY <1>1, <1>2, <1>3

(* When a map-server is lost its accounts become unknown. *)
LEMMA SetOfflineOK ==
  ASSUME NEW e \in online_char_data \cup {NULL}, NEW up, EntryOK(e, up),
         NEW m \in MapServers
  PROVE  LET p == char_db_setoffline(e, m) IN
         /\ p \in online_char_data \cup {NULL}
         /\ EntryOK(p, up \ {m}) /\ EntryOK(p, up)
         /\ p = NULL <=> e = NULL
         /\ p # NULL => p.fd = e.fd /\ p.server \in {e.server, UNKNOWN}
<1>1. CASE e # NULL /\ e.server = m
  <2>. DEFINE p == [e EXCEPT !.server = UNKNOWN]
  <2>1. p \in online_char_data
    BY <1>1 DEF online_char_data
  <2>2. /\ p.char_id = e.char_id /\ p.server = UNKNOWN /\ p.fd = e.fd
    BY <1>1 DEF online_char_data
  <2>3. UNKNOWN # SELECTING /\ ~(UNKNOWN > -1) /\ m # SELECTING
    BY DEF SELECTING, UNKNOWN
  <2>4. e.char_id # -1
    BY <1>1, <2>3 DEF EntryOK
  <2>5. EntryOK(p, up) /\ EntryOK(p, up \ {m})
    BY <2>1, <2>2, <2>3, <2>4 DEF EntryOK
  <2>6. char_db_setoffline(e, m) = p
    BY <1>1 DEF char_db_setoffline
  <2>. QED BY <1>1, <2>1, <2>2, <2>5, <2>6
<1>2. CASE ~(e # NULL /\ e.server = m)
  BY <1>2 DEF char_db_setoffline, EntryOK
<1>. QED BY <1>1, <1>2

(* Replacing one entry by one in order keeps the table in order. *)
LEMMA SetEntryOK ==
  ASSUME EntriesOK, NEW a \in Accounts, NEW e \in online_char_data \cup {NULL},
         EntryOK(e, map_server), SetEntry(a, e), map_server' = map_server
  PROVE  EntriesOK'
  BY DEF EntriesOK, SetEntry

(* A step that leaves the table, and loses no map-server, keeps it in order. *)
LEMMA SameEntriesOK ==
  ASSUME EntriesOK, online_char_db' = online_char_db, map_server \subseteq map_server'
  PROVE  EntriesOK'
  BY DEF EntriesOK, EntryOK

-----------------------------------------------------------------------------
(* What the handlers do to the table. *)

(* A client is refused, or authenticated with its session number in the    *)
(* entry (char_auth_ok).                                                   *)
LEMMA AuthEntriesOK ==
  ASSUME EntriesOK, NEW f \in Fds, NEW s, s.aid \in Accounts,
         char_auth_ok(f, s), map_server' = map_server
  PROVE  EntriesOK'
<1>. DEFINE a == s.aid
            entry == online_char_db[a]
<1>0. EntryOK(entry, map_server) /\ entry \in online_char_data \cup {NULL}
  BY DEF EntriesOK
<1>1. CASE OnMap(a) /\ SetEntry(a, [entry EXCEPT !.waiting = TRUE])
  <2>1. entry \in online_char_data /\ entry.server > -1
    BY <1>0, <1>1 DEF OnMap
  <2>. QED BY <1>0, <1>1, <2>1, WaitingOK, SetEntryOK
<1>2. CASE online_char_db' = online_char_db
  BY <1>2, SameEntriesOK
<1>3. CASE SetEntry(a, char_set_charselect(
             IF entry = NULL THEN char_create_online_data ELSE [entry EXCEPT !.fd = f]))
  <2>. DEFINE e == IF entry = NULL THEN char_create_online_data
                                   ELSE [entry EXCEPT !.fd = f]
  <2>1. e \in online_char_data
    <3>1. CASE entry = NULL
      BY <1>0, <3>1, EnsuredOK DEF Ensured
    <3>2. CASE entry # NULL
      BY <1>0, <3>2, FdOK
    <3>. QED BY <3>1, <3>2
  <2>2. /\ char_set_charselect(e) \in online_char_data
        /\ EntryOK(char_set_charselect(e), map_server)
    BY <2>1, CharSelectOK
  <2>3. SetEntry(a, char_set_charselect(e))
    BY <1>3
  <2>. HIDE DEF e
  <2>. QED BY <2>2, <2>3, SetEntryOK
<1>. QED BY <1>1, <1>2, <1>3 DEF char_auth_ok

(* A character is marked online on a linked map-server, or on none.        *)
LEMMA OnlineEntriesOK ==
  ASSUME EntriesOK, NEW a \in Accounts, NEW c \in Chars,
         NEW m \in (MapServers \cap map_server) \cup {UNKNOWN},
         SetEntry(a, char_set_char_online(Ensured(a), m, c)),
         map_server' = map_server
  PROVE  EntriesOK'
  BY EnsuredOK, CharOnlineOK, SetEntryOK

(* A character is set offline (char_set_char_offline). *)
LEMMA OfflineEntriesOK ==
  ASSUME EntriesOK, NEW a \in Accounts, NEW c,
         SetEntry(a, char_set_char_offline(online_char_db[a], c)),
         map_server' = map_server
  PROVE  EntriesOK'
<1>1. EntryOK(online_char_db[a], map_server)
        /\ online_char_db[a] \in online_char_data \cup {NULL}
  BY DEF EntriesOK
<1>. QED BY <1>1, CharOfflineOK, SetEntryOK

(* Selecting a character marks it online on no map-server, or sets it      *)
(* offline again (chclif_parse_charselect).                                *)
LEMMA SelectEntriesOK ==
  ASSUME EntriesOK, NEW f \in Fds, NEW c \in Chars, CharSelect(f, c)
  PROVE  EntriesOK'
<1>. DEFINE a == Owner[c]
            entry == char_set_char_online(Ensured(a), UNKNOWN, c)
<1>0. map_server' = map_server /\ a \in Accounts
  BY DEF CharSelect, links
<1>1. entry \in online_char_data /\ EntryOK(entry, map_server)
  BY <1>0, EnsuredOK, CharOnlineOK
<1>2. \/ SetEntry(a, char_set_char_offline(entry, c))
      \/ SetEntry(a, entry)
  BY DEF CharSelect
<1>. HIDE DEF entry
<1>. QED BY <1>0, <1>1, <1>2, CharOfflineOK, SetEntryOK

(* The end of a session clears its number, and sets an account that no     *)
(* map-server has offline (chclif_parse).                                  *)
LEMMA CloseEntriesOK ==
  ASSUME EntriesOK, NEW f \in Fds, Close(f), session[f].aid \in Accounts
  PROVE  EntriesOK'
<1>. DEFINE a == session[f].aid
            entry == IF online_char_db[a] # NULL /\ online_char_db[a].fd = f
                       THEN [online_char_db[a] EXCEPT !.fd = -1]
                       ELSE online_char_db[a]
<1>0. map_server' = map_server
  BY DEF Close, links
<1>1. entry \in online_char_data \cup {NULL} /\ EntryOK(entry, map_server)
  <2>1. /\ online_char_db[a] \in online_char_data \cup {NULL}
        /\ EntryOK(online_char_db[a], map_server)
    BY DEF EntriesOK
  <2>. QED BY <2>1, FdOK
<1>2. \/ SetEntry(a, char_set_char_offline(entry, -1))
      \/ SetEntry(a, entry)
      \/ online_char_db' = online_char_db
  BY DEF Close
<1>. HIDE DEF entry
<1>. QED BY <1>0, <1>1, <1>2, CharOfflineOK, SetEntryOK, SameEntriesOK

(* A kick makes the account wait, closes a session or sets it offline      *)
(* (chlogif_parse_askkick).                                                *)
LEMMA KickEntriesOK ==
  ASSUME EntriesOK, NEW a \in Accounts, LoginKick(a)
  PROVE  EntriesOK'
<1>. DEFINE entry == online_char_db[a]
<1>0. /\ map_server' = map_server
      /\ EntryOK(entry, map_server) /\ entry \in online_char_data \cup {NULL}
  BY DEF LoginKick, EntriesOK, links
<1>1. CASE OnMap(a) /\ SetEntry(a, [entry EXCEPT !.waiting = TRUE])
  <2>1. entry \in online_char_data /\ entry.server > -1
    BY <1>0, <1>1 DEF OnMap
  <2>. QED BY <1>0, <1>1, <2>1, WaitingOK, SetEntryOK
<1>2. CASE SetEntry(a, char_set_char_offline(entry, -1))
  BY <1>0, <1>2, OfflineEntriesOK
<1>3. CASE online_char_db' = online_char_db
  BY <1>0, <1>3, SameEntriesOK
<1>. QED BY <1>1, <1>2, <1>3 DEF LoginKick

(* A player goes back to character select (chmapif_parse_authok). *)
LEMMA BackEntriesOK ==
  ASSUME EntriesOK, NEW m, NEW a \in Accounts, NEW l, CharSelectReq(m, a, l)
  PROVE  EntriesOK'
<1>1. SetEntry(a, char_set_charselect(Ensured(a))) /\ map_server' = map_server
  BY DEF CharSelectReq, links
<1>. QED BY <1>1, EnsuredOK, CharSelectOK, SetEntryOK

(* A player is recorded on the linked map-server it changes to             *)
(* (chmapif_parse_reqchangemapserv).                                       *)
LEMMA ChangeEntriesOK ==
  ASSUME EntriesOK, NEW m, NEW c \in Chars, NEW l, NEW n \in MapServers,
         ChangeMapServer(m, c, l, n)
  PROVE  EntriesOK'
<1>. DEFINE p == [Ensured(Owner[c]) EXCEPT !.char_id = c, !.server = n]
<1>1. SetEntry(Owner[c], p) /\ map_server' = map_server /\ n \in map_server
  BY DEF ChangeMapServer, links
<1>2. p \in online_char_data /\ EntryOK(p, map_server)
  BY <1>1, EnsuredOK, MovedOK
<1>. HIDE DEF p
<1>. QED BY <1>1, <1>2, SetEntryOK

(* The users a map-server lists are recorded on it, its other users become *)
(* unknown (chmapif_parse_regmapuser).                                     *)
LEMMA UsersEntriesOK ==
  ASSUME EntriesOK, NEW m \in MapServers, NEW users \in UserLists,
         RegMapUser(m, users)
  PROVE  EntriesOK'
<1>0. map_server' = map_server /\ m \in map_server
  BY DEF RegMapUser, links
<1>1. ASSUME NEW a \in Accounts
      PROVE  /\ online_char_db'[a] \in online_char_data \cup {NULL}
             /\ EntryOK(online_char_db'[a], map_server)
  <2>1. CASE \E c \in users : Owner[c] = a
    <3>. DEFINE c == CHOOSE c \in users : Owner[c] = a
                p == [Ensured(a) EXCEPT !.char_id = c, !.server = m]
    <3>1. c \in Chars
      BY <2>1 DEF UserLists
    <3>2. online_char_db'[a] = [Ensured(a) EXCEPT !.server = m, !.char_id = c]
      BY <2>1 DEF RegMapUser
    <3>. HIDE DEF c
    <3>3. online_char_db'[a] = p
      BY <3>2, EnsuredOK DEF online_char_data
    <3>4. p \in online_char_data /\ EntryOK(p, map_server)
      BY <1>0, <3>1, EnsuredOK, MovedOK
    <3>. QED BY <3>3, <3>4
  <2>2. CASE ~\E c \in users : Owner[c] = a
    <3>1. online_char_db'[a] = char_db_setoffline(online_char_db[a], m)
      BY <2>2 DEF RegMapUser
    <3>2. /\ online_char_db[a] \in online_char_data \cup {NULL}
          /\ EntryOK(online_char_db[a], map_server)
      BY DEF EntriesOK
    <3>3. LET p == char_db_setoffline(online_char_db[a], m) IN
          p \in online_char_data \cup {NULL} /\ EntryOK(p, map_server)
      BY <3>2, SetOfflineOK
    <3>. QED BY <3>1, <3>3
  <2>. QED BY <2>1, <2>2
<1>2. \E g : online_char_db' = [a \in Accounts |-> g[a]]
  <2>1. online_char_db' = [a \in Accounts |-> online_char_db'[a]]
    BY DEF RegMapUser
  <2>. QED BY <2>1
<1>. QED BY <1>0, <1>1, <1>2 DEF EntriesOK

(* The accounts of a lost map-server become unknown (chmapif_server_reset). *)
LEMMA LostEntriesOK ==
  ASSUME EntriesOK, NEW m \in MapServers, MapDisconnect(m)
  PROVE  EntriesOK'
<1>1. /\ map_server' = map_server \ {m}
      /\ online_char_db' = [a \in Accounts |-> char_db_setoffline(online_char_db[a], m)]
  BY DEF MapDisconnect
<1>2. ASSUME NEW a \in Accounts
      PROVE  LET p == char_db_setoffline(online_char_db[a], m) IN
             p \in online_char_data \cup {NULL} /\ EntryOK(p, map_server \ {m})
  <2>1. /\ online_char_db[a] \in online_char_data \cup {NULL}
        /\ EntryOK(online_char_db[a], map_server)
    BY DEF EntriesOK
  <2>. QED BY <2>1, SetOfflineOK
<1>. QED BY <1>1, <1>2 DEF EntriesOK

(* The cleanup frees entries and changes none (char_online_data_cleanup). *)
LEMMA CleanupEntriesOK ==
  ASSUME EntriesOK, OnlineDataCleanup
  PROVE  EntriesOK'
<1>1. map_server' = map_server
  BY DEF OnlineDataCleanup, links
<1>2. online_char_db' = [a \in Accounts |-> IF Idle(a) THEN NULL ELSE online_char_db[a]]
  BY DEF OnlineDataCleanup
<1>3. EntryOK(NULL, map_server)
  BY DEF EntryOK
<1>. QED BY <1>1, <1>2, <1>3 DEF EntriesOK

(* A new process has no entries. *)
LEMMA RestartEntriesOK == Restart => EntriesOK'
  BY DEF Restart, EntriesOK, EntryOK

(* What a map-server asks keeps the table in order. *)
LEMMA MapEntriesOK ==
  ASSUME EntriesOK, NEW m \in MapServers, MapServer(m)
  PROVE  EntriesOK'
<1>0. ASSUME NEW c \in Chars, NEW a, NEW reply, m \in map_server, a = Owner[c],
             GoOnline(m, a, c, reply), UNCHANGED links
      PROVE  EntriesOK'
  BY <1>0, OnlineEntriesOK DEF GoOnline, links
<1>1. CASE MapConnect(m)
  BY <1>1, SameEntriesOK DEF MapConnect, tables
<1>2. CASE MapDisconnect(m)
  BY <1>2, LostEntriesOK
<1>3. ASSUME NEW c \in Chars, NEW l \in LoginIds, MapReqAuth(m, c, l)
      PROVE  EntriesOK'
  BY <1>3, <1>0 DEF MapReqAuth
<1>4. ASSUME NEW c \in Chars, MapReqAutotrade(m, c) PROVE EntriesOK'
  BY <1>4, <1>0 DEF MapReqAutotrade
<1>5. ASSUME NEW c \in Chars, MapReqAuthFail(m, c) PROVE EntriesOK'
  BY <1>5, SameEntriesOK DEF MapReqAuthFail, tables, links
<1>6. ASSUME NEW c \in Chars, NEW final \in BOOLEAN, SaveChar(m, c, final)
      PROVE  EntriesOK'
  <2>1. m \in map_server /\ map_server' = map_server
    BY <1>6 DEF SaveChar, links
  <2>2. CASE GoOnline(m, Owner[c], c, {})
    BY <1>6, <2>1, <2>2, <1>0 DEF SaveChar
  <2>3. CASE SetEntry(Owner[c], char_set_char_offline(online_char_db[Owner[c]], c))
    BY <2>1, <2>3, OfflineEntriesOK
  <2>4. CASE online_char_db' = online_char_db
    BY <2>1, <2>4, SameEntriesOK
  <2>. QED BY <1>6, <2>2, <2>3, <2>4 DEF SaveChar
<1>7. ASSUME NEW c \in Chars, NEW l \in LoginIds, NEW n \in MapServers,
             ChangeMapServer(m, c, l, n)
      PROVE  EntriesOK'
  BY <1>7, ChangeEntriesOK
<1>8. ASSUME NEW c \in Chars, SetCharOffline(m, c) PROVE EntriesOK'
  BY <1>8, OfflineEntriesOK DEF SetCharOffline, links
<1>9. ASSUME NEW c \in Chars, SetCharOnline(m, c) PROVE EntriesOK'
  BY <1>9, <1>0 DEF SetCharOnline
<1>10. ASSUME NEW a \in Accounts, NEW l \in LoginIds, CharSelectReq(m, a, l)
       PROVE  EntriesOK'
  BY <1>10, BackEntriesOK
<1>11. ASSUME NEW a \in Accounts, NEW n \in MapServers, ChangeMapServerFail(m, a, n)
       PROVE  EntriesOK'
  BY <1>11, SameEntriesOK DEF ChangeMapServerFail, tables, links
<1>12. CASE SetAllOffline(m)
  BY <1>12, SameEntriesOK DEF SetAllOffline, tables, links
<1>13. ASSUME NEW users \in UserLists, RegMapUser(m, users) PROVE EntriesOK'
  BY <1>13, UsersEntriesOK
<1>. QED
  BY <1>1, <1>2, <1>3, <1>4, <1>5, <1>6, <1>7, <1>8, <1>9, <1>10, <1>11, <1>12,
     <1>13 DEF MapServer

(* Every handler and timer keeps the table in order. *)
LEMMA StepEntries == TypeOK /\ EntriesOK /\ [Next]_vars => EntriesOK'
<1>. SUFFICES ASSUME TypeOK, EntriesOK, [Next]_vars PROVE EntriesOK'
  OBVIOUS
<1>0. \A f \in Fds : session[f] # NULL => session[f].aid \in Accounts
  BY DEF TypeOK, char_session_data
<1>1. ASSUME NEW f \in Fds, NEW a \in Accounts, NEW l \in LoginIds,
             ConnectWithNode(f, a, l) \/ ConnectFromLogin(f, a, l)
      PROVE  EntriesOK'
  <2>1. CASE ConnectWithNode(f, a, l)
    <3>1. NewSession(a, l).aid = a
      BY DEF NewSession
    <3>. QED BY <2>1, <3>1, AuthEntriesOK DEF ConnectWithNode, links
  <2>2. CASE ConnectFromLogin(f, a, l)
    BY <2>2, SameEntriesOK DEF ConnectFromLogin, links
  <2>. QED BY <1>1, <2>1, <2>2
<1>2. ASSUME NEW f \in Fds, NEW c \in Chars, CharSelect(f, c) PROVE EntriesOK'
  BY <1>2, SelectEntriesOK
<1>3. ASSUME NEW f \in Fds, ClientQuit(f) PROVE EntriesOK'
  BY <1>3, SameEntriesOK DEF ClientQuit, links
<1>4. ASSUME NEW f \in Fds, Close(f) PROVE EntriesOK'
  BY <1>4, <1>0, CloseEntriesOK DEF Close
<1>5. ASSUME NEW f \in Fds, LoginAck(f) PROVE EntriesOK'
  BY <1>5, <1>0, AuthEntriesOK DEF LoginAck, links
<1>6. ASSUME NEW a \in Accounts, LoginKick(a) PROVE EntriesOK'
  BY <1>6, KickEntriesOK
<1>7. ASSUME NEW a \in Accounts, AccountBan(a) PROVE EntriesOK'
  BY <1>7, SameEntriesOK DEF AccountBan, links
<1>8. ASSUME LoginLost \/ LoginConnect \/ SendAccounts PROVE EntriesOK'
  BY <1>8, SameEntriesOK DEF LoginLost, LoginConnect, SendAccounts, tables, links
<1>9. ASSUME NEW m \in MapServers, MapServer(m) PROVE EntriesOK'
  BY <1>9, MapEntriesOK
<1>10. ASSUME NEW a \in Accounts, WaitingDisconnect(a) PROVE EntriesOK'
  BY <1>10, OfflineEntriesOK DEF WaitingDisconnect, links
<1>11. CASE OnlineDataCleanup
  BY <1>11, CleanupEntriesOK
<1>12. CASE Restart
  BY <1>12, RestartEntriesOK
<1>13. CASE UNCHANGED vars
  BY <1>13, SameEntriesOK DEF vars, tables, links
<1>. QED
  BY <1>1, <1>2, <1>3, <1>4, <1>5, <1>6, <1>7, <1>8, <1>9, <1>10, <1>11, <1>12,
     <1>13 DEF Next, Client, LoginServer, Timers

-----------------------------------------------------------------------------
(* The packets a step writes. *)

(* The packets are well-formed. *)
PacketsOK == toLogin \in Seq(LoginPacket) /\ toMap \in SUBSET MapPacket

(* One packet, or none, is a well-formed output to the login-server, and   *)
(* one that is not sent for want of a link is none.                        *)
LEMMA LoginOutput ==
  /\ << >> \in Seq(LoginPacket)
  /\ \A p \in LoginPacket : <<p>> \in Seq(LoginPacket)
  /\ \A ps \in Seq(LoginPacket) : SendLogin(ps) => toLogin' \in Seq(LoginPacket)
<1>1. << >> \in Seq(LoginPacket)
  OBVIOUS
<1>2. ASSUME NEW p \in LoginPacket PROVE <<p>> \in Seq(LoginPacket)
  OBVIOUS
<1>3. ASSUME NEW ps \in Seq(LoginPacket), SendLogin(ps)
      PROVE  toLogin' \in Seq(LoginPacket)
  BY <1>1, <1>3 DEF SendLogin
<1>. QED BY <1>1, <1>2, <1>3

(* The reports about accounts are packets of the login-server protocol.    *)
LEMMA ReportType ==
  /\ \A a \in Accounts : <<Online(a)>> \in Seq(LoginPacket)
  /\ \A S \in SUBSET Accounts : <<Offline(S)>> \in Seq(LoginPacket)
<1>1. ASSUME NEW a \in Accounts PROVE Online(a) \in LoginPacket
  BY DEF Online, LoginPacket
<1>2. ASSUME NEW S \in SUBSET Accounts PROVE Offline(S) \in LoginPacket
  BY DEF Offline, LoginPacket
<1>. QED BY <1>1, <1>2, LoginOutput

(* What char_set_char_offline reports is well-formed. *)
LEMMA OfflineReportType ==
  ASSUME NEW a \in Accounts, NEW e, NEW c
  PROVE  OfflineReport(a, e, c) \in Seq(LoginPacket)
<1>1. <<Offline({a})>> \in Seq(LoginPacket)
  BY ReportType
<1>. QED BY <1>1, LoginOutput DEF OfflineReport

(* A report that is sent, or lost, is well-formed. *)
LEMMA SendReport ==
  ASSUME NEW a \in Accounts,
         \/ SendLogin(<<Online(a)>>)
         \/ \E S \in SUBSET Accounts : SendLogin(<<Offline(S)>>)
         \/ \E e, c : SendLogin(OfflineReport(a, e, c))
         \/ \E e, c : SendLogin(<<Online(a)>> \o OfflineReport(a, e, c))
         \/ toLogin' = << >>
  PROVE  toLogin' \in Seq(LoginPacket)
<1>1. ASSUME NEW e, NEW c
      PROVE  <<Online(a)>> \o OfflineReport(a, e, c) \in Seq(LoginPacket)
  BY ReportType, OfflineReportType, ConcatProperties
<1>. QED BY <1>1, ReportType, OfflineReportType, LoginOutput

(* A request to disconnect an account is a packet for a map-server. *)
LEMMA DisconnectType ==
  ASSUME NEW m \in MapServers, NEW a \in Accounts
  PROVE  Disconnect(m, a) \in MapPacket
  BY DEF Disconnect, MapPacket

(* The recorded map-server of an account in game is a slot. *)
LEMMA OnMapServer ==
  ASSUME EntriesOK, NEW a \in Accounts, OnMap(a)
  PROVE  /\ online_char_db[a] \in online_char_data
         /\ online_char_db[a].server \in MapServers \cap map_server
<1>1. EntryOK(online_char_db[a], map_server)
  BY DEF EntriesOK
<1>2. /\ online_char_db[a] \in online_char_data
      /\ online_char_db[a].server \in map_server
  BY <1>1 DEF OnMap, EntryOK
<1>. QED BY <1>2 DEF OnMap, online_char_data, SELECTING, UNKNOWN

(* The packet that disconnects an account in game is well-formed. *)
LEMMA KickType ==
  ASSUME EntriesOK, NEW a \in Accounts, OnMap(a)
  PROVE  Disconnect(online_char_db[a].server, a) \in MapPacket
<1>1. online_char_db[a].server \in MapServers
  BY OnMapServer
<1>. QED BY <1>1, DisconnectType

(* Whom an account's arrival tells to disconnect it is a map-server. *)
LEMMA ConflictType ==
  ASSUME EntriesOK, NEW a \in Accounts, NEW m
  PROVE  OnlineConflict(a, m) \in SUBSET MapPacket
<1>1. CASE OnMap(a)
  BY <1>1, KickType DEF OnlineConflict
<1>2. CASE ~OnMap(a)
  BY <1>2 DEF OnlineConflict
<1>. QED BY <1>1, <1>2

(* The packets of an authentication are well-formed (char_auth_ok). *)
LEMMA AuthPackets ==
  ASSUME EntriesOK, NEW f \in Fds, NEW s, s.aid \in Accounts, char_auth_ok(f, s)
  PROVE  PacketsOK'
<1>. DEFINE a == s.aid
<1>1. CASE OnMap(a) /\ toLogin' = << >>
             /\ SendMap({Disconnect(online_char_db[a].server, a)})
  BY <1>1, KickType, LoginOutput DEF PacketsOK, SendMap
<1>2. CASE Silent
  BY <1>2, LoginOutput DEF Silent, PacketsOK
<1>3. CASE SendLogin(<<Online(a)>>) /\ SendMap({})
  BY <1>3, SendReport DEF PacketsOK, SendMap
<1>. QED BY <1>1, <1>2, <1>3 DEF char_auth_ok

(* The packets of a kick are well-formed (chlogif_parse_askkick). *)
LEMMA KickPackets ==
  ASSUME EntriesOK, NEW a \in Accounts, LoginKick(a)
  PROVE  PacketsOK'
<1>1. CASE OnMap(a) /\ toLogin' = << >>
             /\ SendMap({Disconnect(online_char_db[a].server, a)})
  BY <1>1, KickType, LoginOutput DEF PacketsOK, SendMap
<1>2. CASE Silent
  BY <1>2, LoginOutput DEF Silent, PacketsOK
<1>3. CASE SendLogin(<<Offline({a})>>) /\ SendMap({})
  BY <1>3, SendReport DEF PacketsOK, SendMap
<1>. QED BY <1>1, <1>2, <1>3 DEF LoginKick

(* The packets of a client's request or departure are well-formed. *)
LEMMA ClientPackets ==
  ASSUME TypeOK, EntriesOK, NEW f \in Fds, Client(f)
  PROVE  PacketsOK'
<1>0. session[f] # NULL => session[f].aid \in Accounts
  BY DEF TypeOK, char_session_data
<1>1. ASSUME NEW a \in Accounts, NEW l \in LoginIds, ConnectWithNode(f, a, l)
      PROVE  PacketsOK'
  <2>1. NewSession(a, l).aid = a
    BY DEF NewSession
  <2>. QED BY <1>1, <2>1, AuthPackets DEF ConnectWithNode
<1>2. ASSUME NEW a \in Accounts, NEW l \in LoginIds, ConnectFromLogin(f, a, l)
      PROVE  PacketsOK'
  <2>. DEFINE p == [type |-> "reqauth", aid |-> a, lid |-> l, fd |-> f]
  <2>1. p \in LoginPacket
    BY DEF LoginPacket
  <2>2. SendLogin(<<p>>) /\ SendMap({})
    BY <1>2 DEF ConnectFromLogin
  <2>. HIDE DEF p
  <2>. QED BY <2>1, <2>2, LoginOutput DEF PacketsOK, SendMap
<1>3. ASSUME NEW c \in Chars, CharSelect(f, c) PROVE PacketsOK'
  <2>1. SendMap(OnlineConflict(Owner[c], UNKNOWN))
    BY <1>3 DEF CharSelect
  <2>2. \/ SendLogin(<<Online(Owner[c])>>)
        \/ \E e, d : SendLogin(<<Online(Owner[c])>> \o OfflineReport(Owner[c], e, d))
    BY <1>3 DEF CharSelect
  <2>3. toLogin' \in Seq(LoginPacket)
    BY <2>2, SendReport
  <2>. QED BY <2>1, <2>3, ConflictType DEF PacketsOK, SendMap
<1>4. CASE ClientQuit(f)
  BY <1>4, LoginOutput DEF ClientQuit, Silent, PacketsOK
<1>5. CASE Close(f)
  <2>1. session[f].aid \in Accounts /\ SendMap({})
    BY <1>0, <1>5 DEF Close
  <2>2. toLogin' = << >> \/ SendLogin(<<Offline({session[f].aid})>>)
    BY <1>5 DEF Close
  <2>. QED BY <2>1, <2>2, SendReport DEF PacketsOK, SendMap
<1>. QED BY <1>1, <1>2, <1>3, <1>4, <1>5 DEF Client

(* The packets a character's arrival makes a handler write are well-formed *)
(* if its answer is.                                                       *)
LEMMA OnlinePackets ==
  ASSUME EntriesOK, NEW m, NEW c \in Chars, NEW reply \in SUBSET MapPacket,
         GoOnline(m, Owner[c], c, reply)
  PROVE  PacketsOK'
<1>1. /\ SendLogin(<<Online(Owner[c])>>)
      /\ SendMap(OnlineConflict(Owner[c], m) \cup reply)
  BY DEF GoOnline
<1>. QED BY <1>1, SendReport, ConflictType DEF PacketsOK, SendMap

(* The packets of a map-server's requests are well-formed. *)
LEMMA MapPackets ==
  ASSUME TypeOK, EntriesOK, NEW m \in MapServers, MapServer(m)
  PROVE  PacketsOK'
<1>1. ASSUME Silent PROVE PacketsOK'
  BY <1>1, LoginOutput DEF Silent, PacketsOK
<1>2. ASSUME NEW c \in Chars, NEW b \in BOOLEAN,
             GoOnline(m, Owner[c], c, {[type |-> "authok", to |-> m, aid |-> Owner[c],
                                        char_id |-> c, changing |-> b]})
      PROVE  PacketsOK'
  <2>. DEFINE p == [type |-> "authok", to |-> m, aid |-> Owner[c], char_id |-> c,
                    changing |-> b]
  <2>1. p \in MapPacket
    BY DEF MapPacket
  <2>2. GoOnline(m, Owner[c], c, {p})
    BY <1>2
  <2>. HIDE DEF p
  <2>. QED BY <2>1, <2>2, OnlinePackets
<1>3. ASSUME NEW c \in Chars, NEW l \in LoginIds, MapReqAuth(m, c, l)
      PROVE  PacketsOK'
  <2>1. auth_db[Owner[c]] \in auth_node
    BY <1>3 DEF MapReqAuth, TypeOK
  <2>2. auth_db[Owner[c]].changing \in BOOLEAN
    BY <2>1 DEF auth_node
  <2>. QED BY <1>2, <1>3, <2>2 DEF MapReqAuth
<1>4. ASSUME NEW c \in Chars, MapReqAutotrade(m, c) PROVE PacketsOK'
  BY <1>2, <1>4 DEF MapReqAutotrade
<1>5. ASSUME NEW c \in Chars, MapReqAuthFail(m, c) PROVE PacketsOK'
  <2>. DEFINE p == [type |-> "authfail", to |-> m, aid |-> Owner[c], char_id |-> c]
  <2>1. p \in MapPacket
    BY DEF MapPacket
  <2>2. toLogin' = << >> /\ toMap' = {p}
    BY <1>5 DEF MapReqAuthFail, SendMap
  <2>. QED BY <2>1, <2>2, LoginOutput DEF PacketsOK
<1>6. ASSUME NEW c \in Chars, NEW final \in BOOLEAN, SaveChar(m, c, final)
      PROVE  PacketsOK'
  <2>. DEFINE p == [type |-> "saveack", to |-> m, aid |-> Owner[c], char_id |-> c]
  <2>1. p \in MapPacket
    BY DEF MapPacket
  <2>2. CASE GoOnline(m, Owner[c], c, {})
    BY <2>2, OnlinePackets
  <2>3. CASE /\ SendLogin(OfflineReport(Owner[c], online_char_db[Owner[c]], c))
             /\ SendMap({p})
    BY <2>1, <2>3, SendReport DEF PacketsOK, SendMap
  <2>. QED BY <1>1, <1>6, <2>2, <2>3 DEF SaveChar
<1>7. ASSUME NEW c \in Chars, NEW l \in LoginIds, NEW n \in MapServers,
             ChangeMapServer(m, c, l, n)
      PROVE  PacketsOK'
  <2>. DEFINE p == [type |-> "changeok", to |-> m, aid |-> Owner[c], target |-> n]
  <2>1. p \in MapPacket
    BY DEF MapPacket
  <2>2. toLogin' = << >> /\ toMap' = {p}
    BY <1>7 DEF ChangeMapServer, SendMap
  <2>. QED BY <2>1, <2>2, LoginOutput DEF PacketsOK
<1>8. ASSUME NEW c \in Chars, SetCharOffline(m, c) PROVE PacketsOK'
  BY <1>8, SendReport DEF SetCharOffline, PacketsOK, SendMap
<1>9. ASSUME NEW c \in Chars, SetCharOnline(m, c) PROVE PacketsOK'
  BY <1>9, OnlinePackets DEF SetCharOnline
<1>10. ASSUME NEW a \in Accounts, NEW l \in LoginIds, CharSelectReq(m, a, l)
       PROVE  PacketsOK'
  <2>. DEFINE p == [type |-> "charselok", to |-> m, aid |-> a]
  <2>1. p \in MapPacket
    BY DEF MapPacket
  <2>2. SendLogin(<<Online(a)>>) /\ toMap' = {p}
    BY <1>10 DEF CharSelectReq, SendMap
  <2>. QED BY <2>1, <2>2, SendReport DEF PacketsOK
<1>11. ASSUME NEW a \in Accounts, NEW n \in MapServers, ChangeMapServerFail(m, a, n)
       PROVE  PacketsOK'
  <2>. DEFINE p == [type |-> "changefail", to |-> m, aid |-> a, target |-> n]
  <2>1. p \in MapPacket
    BY DEF MapPacket
  <2>2. toLogin' = << >> /\ toMap' = {p}
    BY <1>11 DEF ChangeMapServerFail, SendMap
  <2>. QED BY <2>1, <2>2, LoginOutput DEF PacketsOK
<1>12. CASE SetAllOffline(m)
  <2>1. toLogin' = << >> /\ toMap' \in SUBSET {Disconnect(m, a) : a \in Accounts}
    BY <1>12 DEF SetAllOffline, SendMap
  <2>. QED BY <2>1, DisconnectType, LoginOutput DEF PacketsOK
<1>13. ASSUME NEW users \in UserLists, RegMapUser(m, users) PROVE PacketsOK'
  <2>1. ASSUME NEW c \in users, OnMap(Owner[c])
        PROVE  Disconnect(online_char_db[Owner[c]].server, Owner[c]) \in MapPacket
    <3>1. c \in Chars
      BY DEF UserLists
    <3>. QED BY <2>1, <3>1, KickType
  <2>2. toMap' \in SUBSET {Disconnect(online_char_db[Owner[c]].server, Owner[c]) :
                             c \in {d \in users : OnMap(Owner[d])}}
    BY <1>13 DEF RegMapUser, SendMap
  <2>3. toLogin' = << >>
    BY <1>13 DEF RegMapUser
  <2>. QED BY <2>1, <2>2, <2>3, LoginOutput DEF PacketsOK
<1>. QED
  BY <1>1, <1>3, <1>4, <1>5, <1>6, <1>7, <1>8, <1>9, <1>10, <1>11, <1>12, <1>13
  DEF MapServer, MapConnect, MapDisconnect

(* The packets of every step are well-formed. *)
LEMMA StepPackets == TypeOK /\ EntriesOK /\ [Next]_vars => PacketsOK'
<1>. SUFFICES ASSUME TypeOK, EntriesOK, [Next]_vars PROVE PacketsOK'
  OBVIOUS
<1>0. \A f \in Fds : session[f] # NULL => session[f].aid \in Accounts
  BY DEF TypeOK, char_session_data
<1>1. ASSUME NEW f \in Fds, LoginAck(f) PROVE PacketsOK'
  BY <1>0, <1>1, AuthPackets DEF LoginAck
<1>2. ASSUME NEW a \in Accounts, LoginKick(a) PROVE PacketsOK'
  BY <1>2, KickPackets
<1>3. ASSUME NEW a \in Accounts, AccountBan(a) PROVE PacketsOK'
  <2>1. \A m \in map_server : [type |-> "ban", to |-> m, aid |-> a] \in MapPacket
    BY DEF MapPacket, TypeOK
  <2>2. /\ toLogin' = << >>
        /\ toMap' = {[type |-> "ban", to |-> m, aid |-> a] : m \in map_server}
    BY <1>3 DEF AccountBan, SendMap
  <2>. QED BY <2>1, <2>2, LoginOutput DEF PacketsOK
<1>4. CASE LoginLost \/ LoginConnect \/ Restart
  BY <1>4, LoginOutput DEF LoginLost, LoginConnect, Restart, Silent, PacketsOK
<1>5. CASE SendAccounts
  <2>. DEFINE p == [type |-> "updonlinedb", aids |-> {a \in Accounts : OnMap(a)}]
  <2>1. p \in LoginPacket
    BY DEF LoginPacket
  <2>2. SendLogin(<<p>>) /\ toMap' = {}
    BY <1>5 DEF SendAccounts, SendMap
  <2>. HIDE DEF p
  <2>. QED BY <2>1, <2>2, LoginOutput DEF PacketsOK
<1>6. ASSUME NEW a \in Accounts, WaitingDisconnect(a) PROVE PacketsOK'
  BY <1>6, SendReport DEF WaitingDisconnect, PacketsOK, SendMap
<1>7. CASE OnlineDataCleanup
  <2>1. PICK S \in SUBSET Accounts : SendLogin(<<Offline(S)>>) /\ toMap' = {}
    BY <1>7 DEF OnlineDataCleanup, SendMap
  <2>. QED BY <2>1, ReportType, LoginOutput DEF PacketsOK
<1>8. CASE UNCHANGED vars
  BY <1>8 DEF TypeOK, vars, output, PacketsOK
<1>. QED
  BY <1>1, <1>2, <1>3, <1>4, <1>5, <1>6, <1>7, <1>8, ClientPackets, MapPackets
  DEF Next, LoginServer, Timers

-----------------------------------------------------------------------------
(* Nodes, sessions and links. *)

(* The nodes, sessions, links and histories are well-formed. *)
RestOK ==
  /\ auth_db \in [Accounts -> auth_node \cup {NULL}]
  /\ session \in [Fds -> char_session_data \cup {NULL}]
  /\ map_server \in SUBSET MapServers
  /\ login_fd \in {Lost, Absent, Linked}
  /\ granted \in SUBSET LoginIds

(* A client's session after char_auth_ok is well-formed, and only this one *)
(* changes.                                                                *)
LEMMA AuthSession ==
  ASSUME NEW f \in Fds, NEW s \in char_session_data, char_auth_ok(f, s),
         session \in [Fds -> char_session_data \cup {NULL}]
  PROVE  session' \in [Fds -> char_session_data \cup {NULL}]
<1>1. PICK t \in {s, [s EXCEPT !.auth = TRUE]} : session' = [session EXCEPT ![f] = t]
  BY DEF char_auth_ok
<1>2. [s EXCEPT !.auth = TRUE] \in char_session_data
  BY DEF char_session_data
<1>. QED BY <1>1, <1>2

(* Marking a session for closing keeps it well-formed. *)
LEMMA EofSession ==
  ASSUME session \in [Fds -> char_session_data \cup {NULL}],
         NEW f \in Fds, session[f] # NULL, SetEof(f)
  PROVE  session' \in [Fds -> char_session_data \cup {NULL}]
<1>1. [session[f] EXCEPT !.eof = TRUE] \in char_session_data
  BY DEF char_session_data
<1>2. session' = [session EXCEPT ![f] = [session[f] EXCEPT !.eof = TRUE]]
  BY DEF SetEof
<1>. QED BY <1>1, <1>2

(* A set of session numbers has a least one (the fd_max scan ends at it). *)
LEMMA LeastNumber ==
  ASSUME NEW S \in SUBSET Nat, S # {}
  PROVE  \E x \in S : \A y \in S : x <= y
<1>. DEFINE R == OpToRel(<, Nat)
<1>1. \A x, y \in Nat : <<x, y>> \in R <=> x < y
  BY Zenon DEF OpToRel
<1>2. IsWellFoundedOn(R, Nat)
  BY NatLessThanWellFounded, Zenon
<1>. HIDE DEF R
<1>3. PICK x \in S : \A y \in S : ~(<<y, x>> \in R)
  BY <1>2, WFMin
<1>4. ASSUME NEW y \in S PROVE x <= y
  <2>1. x \in Nat /\ y \in Nat /\ ~(y < x)
    BY <1>1, <1>3
  <2>. QED BY <2>1
<1>. QED BY <1>4

(* The first session of an account, if it has one, is a session of it. *)
LEMMA FirstSessionType ==
  ASSUME NEW a \in Accounts, FirstSession(a) # NULL
  PROVE  FirstSession(a) \in Fds /\ session[FirstSession(a)] # NULL
<1>. DEFINE S == {f \in Fds : session[f] # NULL /\ session[f].aid = a}
<1>1. S # {}
  BY DEF FirstSession
<1>2. \E f \in S : \A g \in S : f <= g
  BY <1>1, LeastNumber
<1>3. FirstSession(a) = CHOOSE f \in S : \A g \in S : f <= g
  BY <1>1 DEF FirstSession
<1>4. FirstSession(a) \in S
  BY <1>2, <1>3
<1>. QED BY <1>4

(* What a map-server asks keeps nodes, sessions and links well-formed. *)
LEMMA MapRest ==
  ASSUME RestOK, NEW m \in MapServers, MapServer(m)
  PROVE  RestOK'
<1>1. ASSUME UNCHANGED <<session, login_fd, granted>>,
             map_server' \in SUBSET MapServers,
             \/ auth_db' = auth_db
             \/ \E a \in Accounts, n \in auth_node \cup {NULL} : SetNode(a, n)
      PROVE  RestOK'
  BY <1>1 DEF RestOK, SetNode
<1>2. ASSUME NEW c \in Chars, NEW final \in BOOLEAN, SaveChar(m, c, final)
      PROVE  RestOK'
  <2>1. UNCHANGED <<auth_db, session, links, granted>>
    BY <1>2 DEF SaveChar
  <2>. QED BY <2>1 DEF RestOK, links
<1>3. ASSUME NEW c \in Chars, NEW l \in LoginIds, NEW n \in MapServers,
             ChangeMapServer(m, c, l, n)
      PROVE  RestOK'
  <2>1. [char_id |-> c, lid |-> l, changing |-> TRUE] \in auth_node
    BY DEF auth_node
  <2>. QED BY <1>1, <1>3, <2>1 DEF ChangeMapServer, links, RestOK
<1>4. ASSUME NEW a \in Accounts, NEW l \in LoginIds, CharSelectReq(m, a, l)
      PROVE  RestOK'
  <2>1. [char_id |-> CHARSELECT, lid |-> l, changing |-> FALSE] \in auth_node
    BY DEF auth_node
  <2>. QED BY <1>1, <1>4, <2>1 DEF CharSelectReq, links, RestOK
<1>5. ASSUME NEW c \in Chars, NEW l \in LoginIds, MapReqAuth(m, c, l)
      PROVE  RestOK'
  BY <1>1, <1>5 DEF MapReqAuth, links, RestOK
<1>6. CASE MapConnect(m) \/ MapDisconnect(m)
  BY <1>1, <1>6 DEF MapConnect, MapDisconnect, tables, RestOK
<1>7. ASSUME NEW c \in Chars,
             \/ MapReqAutotrade(m, c) \/ MapReqAuthFail(m, c)
             \/ SetCharOffline(m, c) \/ SetCharOnline(m, c)
      PROVE  RestOK'
  BY <1>1, <1>7 DEF MapReqAutotrade, MapReqAuthFail, SetCharOffline, SetCharOnline,
                    tables, links, RestOK
<1>8. ASSUME NEW a \in Accounts, NEW n \in MapServers, ChangeMapServerFail(m, a, n)
      PROVE  RestOK'
  BY <1>1, <1>8 DEF ChangeMapServerFail, tables, links, RestOK
<1>9. ASSUME SetAllOffline(m) \/ \E users \in UserLists : RegMapUser(m, users)
      PROVE  RestOK'
  <2>1. UNCHANGED <<auth_db, session, links, granted>>
    BY <1>9 DEF SetAllOffline, RegMapUser, tables
  <2>. QED BY <1>1, <2>1 DEF links, RestOK
<1>. QED
  BY <1>2, <1>3, <1>4, <1>5, <1>6, <1>7, <1>8, <1>9 DEF MapServer

(* What a client does keeps nodes, sessions and links well-formed. *)
LEMMA ClientRest ==
  ASSUME RestOK, NEW f \in Fds, Client(f)
  PROVE  RestOK'
<1>. USE DEF links
<1>1. ASSUME NEW a \in Accounts, NEW l \in LoginIds, ConnectWithNode(f, a, l)
      PROVE  RestOK'
  <2>1. NewSession(a, l) \in char_session_data
    BY DEF NewSession, char_session_data
  <2>2. session' \in [Fds -> char_session_data \cup {NULL}]
    BY <1>1, <2>1, AuthSession DEF ConnectWithNode, RestOK
  <2>. QED BY <1>1, <2>2 DEF ConnectWithNode, RestOK, SetNode
<1>2. ASSUME NEW a \in Accounts, NEW l \in LoginIds, ConnectFromLogin(f, a, l)
      PROVE  RestOK'
  <2>1. NewSession(a, l) \in char_session_data
    BY DEF NewSession, char_session_data
  <2>. QED BY <1>2, <2>1 DEF ConnectFromLogin, RestOK
<1>3. ASSUME NEW c \in Chars, CharSelect(f, c) PROVE RestOK'
  <2>1. session[f].lid \in LoginIds
    BY <1>3 DEF CharSelect, AuthedSession, Live, RestOK, char_session_data
  <2>2. [char_id |-> c, lid |-> session[f].lid, changing |-> FALSE] \in auth_node
    BY <2>1 DEF auth_node
  <2>3. \/ auth_db' = auth_db
        \/ SetNode(Owner[c], [char_id |-> c, lid |-> session[f].lid, changing |-> FALSE])
    BY <1>3 DEF CharSelect
  <2>4. auth_db' \in [Accounts -> auth_node \cup {NULL}]
    BY <2>2, <2>3 DEF RestOK, SetNode
  <2>5. UNCHANGED <<session, links, granted>>
    BY <1>3 DEF CharSelect
  <2>. QED BY <2>4, <2>5 DEF RestOK
<1>4. CASE ClientQuit(f)
  <2>1. session' \in [Fds -> char_session_data \cup {NULL}]
    BY <1>4, EofSession DEF ClientQuit, Live, RestOK
  <2>. QED BY <1>4, <2>1 DEF ClientQuit, RestOK
<1>5. CASE Close(f)
  BY <1>5 DEF Close, RestOK
<1>. QED BY <1>1, <1>2, <1>3, <1>4, <1>5 DEF Client

(* Every step keeps nodes, sessions and links well-formed. *)
LEMMA StepRest == RestOK /\ [Next]_vars => RestOK'
<1>. SUFFICES ASSUME RestOK, [Next]_vars PROVE RestOK'
  OBVIOUS
<1>1. ASSUME NEW f \in Fds, LoginAck(f) PROVE RestOK'
  <2>1. session[f] \in char_session_data /\ session[f].lid \in LoginIds
    BY <1>1 DEF LoginAck, RestOK, char_session_data
  <2>2. session' \in [Fds -> char_session_data \cup {NULL}]
    BY <1>1, <2>1, AuthSession DEF LoginAck, RestOK
  <2>. QED BY <1>1, <2>1, <2>2 DEF LoginAck, RestOK, links
<1>2. ASSUME NEW a \in Accounts, LoginKick(a) \/ AccountBan(a) PROVE RestOK'
  <2>1. \/ session' = session
        \/ FirstSession(a) # NULL /\ SetEof(FirstSession(a))
    BY <1>2 DEF LoginKick, AccountBan
  <2>2. session' \in [Fds -> char_session_data \cup {NULL}]
    BY <2>1, FirstSessionType, EofSession DEF RestOK
  <2>3. auth_db' = auth_db \/ SetNode(a, NULL)
    BY <1>2 DEF LoginKick, AccountBan
  <2>4. UNCHANGED <<links, granted>>
    BY <1>2 DEF LoginKick, AccountBan
  <2>. QED BY <2>2, <2>3, <2>4 DEF RestOK, SetNode, links
<1>3. CASE LoginLost \/ LoginConnect \/ SendAccounts
  BY <1>3 DEF LoginLost, LoginConnect, SendAccounts, tables, links, RestOK
<1>4. CASE Timers
  BY <1>4 DEF Timers, OnlineDataCleanup, WaitingDisconnect, links, RestOK
<1>5. CASE Restart
  BY <1>5 DEF Restart, RestOK
<1>6. CASE UNCHANGED vars
  BY <1>6 DEF vars, tables, links, output, RestOK
<1>. QED
  BY <1>1, <1>2, <1>3, <1>4, <1>5, <1>6, ClientRest, MapRest DEF Next, LoginServer

-----------------------------------------------------------------------------
(* Session numbers. *)

(* The session number of account a's entry is kept or dropped. *)
FdKept(a) ==
  \/ online_char_db'[a] = NULL
  \/ online_char_db'[a].fd = -1
  \/ online_char_db[a] # NULL /\ online_char_db'[a].fd = online_char_db[a].fd

(* An authenticated session stays, for the same account. *)
SessionKept(f) ==
  session[f] # NULL /\ session[f].auth
    => session'[f] # NULL /\ session'[f].aid = session[f].aid /\ session'[f].auth

(* A step that keeps authenticated sessions and gives no entry a session   *)
(* number keeps the numbers right.                                         *)
LEMMA FrameFd ==
  ASSUME EntriesOK, FdOwned, \A a \in Accounts : FdKept(a), \A f \in Fds : SessionKept(f)
  PROVE  FdOwned'
<1>. SUFFICES ASSUME NEW a \in Accounts, online_char_db'[a] # NULL,
                     online_char_db'[a].fd # -1
              PROVE  LET s == session'[online_char_db'[a].fd] IN
                     s # NULL /\ s.aid = a /\ s.auth
  BY DEF FdOwned
<1>1. online_char_db[a] # NULL /\ online_char_db'[a].fd = online_char_db[a].fd
  BY DEF FdKept
<1>2. online_char_db[a].fd \in Fds
  BY <1>1 DEF EntriesOK, online_char_data
<1>. QED BY <1>1, <1>2 DEF FdOwned, SessionKept

(* A session that did not change is kept. *)
LEMMA SameSessions == session' = session => \A f \in Fds : SessionKept(f)
  BY DEF SessionKept

(* Marking a session for closing keeps it. *)
LEMMA EofKept ==
  ASSUME session \in [Fds -> char_session_data \cup {NULL}],
         NEW g \in Fds, session[g] # NULL, SetEof(g), NEW f \in Fds
  PROVE  SessionKept(f)
<1>1. session' = [session EXCEPT ![g] = [session[g] EXCEPT !.eof = TRUE]]
  BY DEF SetEof
<1>2. session[g] \in char_session_data
  OBVIOUS
<1>3. [session[g] EXCEPT !.eof = TRUE] \in char_session_data
  BY <1>2 DEF char_session_data
<1>4. /\ [session[g] EXCEPT !.eof = TRUE].aid = session[g].aid
      /\ [session[g] EXCEPT !.eof = TRUE].auth = session[g].auth
  BY <1>2 DEF char_session_data
<1>. QED BY <1>1, <1>2, <1>3, <1>4 DEF SessionKept

(* Replacing one entry by one with the same session number, or none, keeps *)
(* the numbers of all.                                                     *)
LEMMA SetEntryFd ==
  ASSUME EntriesOK, NEW a \in Accounts, NEW e, SetEntry(a, e),
         \/ e = NULL
         \/ e.fd = -1
         \/ online_char_db[a] # NULL /\ e.fd = online_char_db[a].fd
  PROVE  \A b \in Accounts : FdKept(b)
  BY DEF EntriesOK, SetEntry, FdKept

(* An ensured entry has the number it had, or none. *)
LEMMA EnsuredFd ==
  ASSUME NEW a \in Accounts
  PROVE  \/ Ensured(a).fd = -1
         \/ online_char_db[a] # NULL /\ Ensured(a).fd = online_char_db[a].fd
  BY DEF Ensured, char_create_online_data

(* A character marked online leaves the number in the entry. *)
LEMMA OnlineFd ==
  ASSUME EntriesOK, NEW a \in Accounts, NEW m, NEW c,
         SetEntry(a, char_set_char_online(Ensured(a), m, c))
  PROVE  \A b \in Accounts : FdKept(b)
<1>1. char_set_char_online(Ensured(a), m, c).fd = Ensured(a).fd
  BY EnsuredOK DEF char_set_char_online, online_char_data
<1>. QED BY <1>1, EnsuredFd, SetEntryFd

(* A character set offline leaves the number in the entry. *)
LEMMA OfflineFd ==
  ASSUME EntriesOK, NEW a \in Accounts, NEW c,
         SetEntry(a, char_set_char_offline(online_char_db[a], c))
  PROVE  \A b \in Accounts : FdKept(b)
<1>. DEFINE p == char_set_char_offline(online_char_db[a], c)
<1>1. EntryOK(online_char_db[a], map_server)
        /\ online_char_db[a] \in online_char_data \cup {NULL}
  BY DEF EntriesOK
<1>2. p = NULL \/ (online_char_db[a] # NULL /\ p.fd = online_char_db[a].fd)
  BY <1>1, CharOfflineOK
<1>3. SetEntry(a, p)
  OBVIOUS
<1>. HIDE DEF p
<1>. QED BY <1>2, <1>3, SetEntryFd

(* Marking the users of a lost map-server leaves the session number. *)
LEMMA SetOfflineFd ==
  ASSUME EntriesOK, NEW b \in Accounts, NEW m \in MapServers,
         online_char_db'[b] = char_db_setoffline(online_char_db[b], m)
  PROVE  FdKept(b)
<1>. DEFINE p == char_db_setoffline(online_char_db[b], m)
<1>1. /\ online_char_db[b] \in online_char_data \cup {NULL}
      /\ EntryOK(online_char_db[b], map_server)
  BY DEF EntriesOK
<1>2. p = NULL \/ (online_char_db[b] # NULL /\ p.fd = online_char_db[b].fd)
  BY <1>1, SetOfflineOK
<1>3. online_char_db'[b] = p
  OBVIOUS
<1>. HIDE DEF p
<1>. QED BY <1>2, <1>3 DEF FdKept

(* Requests of map-servers keep the session numbers: they concern where    *)
(* the account is, not its client at character select.                     *)
LEMMA MapFd ==
  ASSUME EntriesOK, FdOwned, NEW m \in MapServers, MapServer(m)
  PROVE  FdOwned'
<1>1. session' = session
  BY DEF MapServer, MapConnect, MapDisconnect, MapReqAuth, MapReqAutotrade,
         MapReqAuthFail, SaveChar, ChangeMapServer, SetCharOffline, SetCharOnline,
         CharSelectReq, ChangeMapServerFail, SetAllOffline, RegMapUser, tables
<1>2. ASSUME online_char_db' = online_char_db PROVE \A b \in Accounts : FdKept(b)
  BY <1>2 DEF FdKept
<1>3. ASSUME NEW c \in Chars, NEW reply, GoOnline(m, Owner[c], c, reply)
      PROVE  \A b \in Accounts : FdKept(b)
  BY <1>3, OnlineFd DEF GoOnline
<1>4. ASSUME MapDisconnect(m), NEW b \in Accounts PROVE FdKept(b)
  <2>1. online_char_db'[b] = char_db_setoffline(online_char_db[b], m)
    BY <1>4 DEF MapDisconnect
  <2>. QED BY <2>1, SetOfflineFd
<1>5. ASSUME NEW c \in Chars, NEW l \in LoginIds, NEW n \in MapServers,
             ChangeMapServer(m, c, l, n)
      PROVE  \A b \in Accounts : FdKept(b)
  <2>. DEFINE p == [Ensured(Owner[c]) EXCEPT !.char_id = c, !.server = n]
  <2>1. SetEntry(Owner[c], p)
    BY <1>5 DEF ChangeMapServer
  <2>2. p.fd = Ensured(Owner[c]).fd
    BY EnsuredOK DEF online_char_data
  <2>. HIDE DEF p
  <2>. QED BY <2>1, <2>2, EnsuredFd, SetEntryFd
<1>6. ASSUME NEW a \in Accounts, NEW l \in LoginIds, CharSelectReq(m, a, l)
      PROVE  \A b \in Accounts : FdKept(b)
  <2>1. SetEntry(a, char_set_charselect(Ensured(a)))
    BY <1>6 DEF CharSelectReq
  <2>2. char_set_charselect(Ensured(a)).fd = Ensured(a).fd
    BY EnsuredOK, CharSelectOK
  <2>. QED BY <2>1, <2>2, EnsuredFd, SetEntryFd
<1>7. ASSUME NEW users \in UserLists, RegMapUser(m, users), NEW b \in Accounts
      PROVE  FdKept(b)
  <2>1. CASE \E c \in users : Owner[c] = b
    <3>1. online_char_db'[b] = [Ensured(b) EXCEPT !.server = m,
                                  !.char_id = CHOOSE c \in users : Owner[c] = b]
      BY <1>7, <2>1 DEF RegMapUser
    <3>2. online_char_db'[b].fd = Ensured(b).fd
      BY <3>1, EnsuredOK DEF online_char_data
    <3>. QED BY <3>2, EnsuredFd DEF FdKept
  <2>2. CASE ~\E c \in users : Owner[c] = b
    <3>1. online_char_db'[b] = char_db_setoffline(online_char_db[b], m)
      BY <1>7, <2>2 DEF RegMapUser
    <3>. QED BY <3>1, SetOfflineFd
  <2>. QED BY <2>1, <2>2
<1>8. \A b \in Accounts : FdKept(b)
  BY <1>2, <1>3, <1>4, <1>5, <1>6, <1>7, OfflineFd
  DEF MapServer, MapConnect, MapReqAuth, MapReqAutotrade, MapReqAuthFail, SaveChar,
      SetCharOffline, SetCharOnline, ChangeMapServerFail, SetAllOffline, tables
<1>. QED BY <1>1, <1>8, SameSessions, FrameFd

(* A client that is authenticated gets its number into the entry, and one  *)
(* that is refused does not (char_auth_ok).                                *)
LEMMA AuthFd ==
  ASSUME EntriesOK, FdOwned, session \in [Fds -> char_session_data \cup {NULL}],
         NEW f \in Fds, NEW s \in char_session_data, s.auth = FALSE,
         session[f] \in {NULL, s}, char_auth_ok(f, s)
  PROVE  FdOwned'
<1>. DEFINE a == s.aid
            entry == online_char_db[a]
<1>0. a \in Accounts /\ s # NULL
  BY DEF char_session_data
<1>1. ASSUME NEW t \in char_session_data, session' = [session EXCEPT ![f] = t]
      PROVE  \A g \in Fds : SessionKept(g)
  BY <1>1, <1>0 DEF SessionKept
<1>2. CASE /\ OnMap(a) /\ SetEntry(a, [entry EXCEPT !.waiting = TRUE])
           /\ session' = [session EXCEPT ![f] = s]
  <2>1. [entry EXCEPT !.waiting = TRUE].fd = entry.fd /\ entry # NULL
    BY <1>0, <1>2, OnMapServer DEF online_char_data, OnMap
  <2>2. \A b \in Accounts : FdKept(b)
    BY <1>0, <1>2, <2>1, SetEntryFd
  <2>. QED BY <1>1, <1>2, <2>2, FrameFd
<1>3. CASE online_char_db' = online_char_db /\ session' = [session EXCEPT ![f] = s]
  <2>1. \A b \in Accounts : FdKept(b)
    BY <1>3 DEF FdKept
  <2>. QED BY <1>1, <1>3, <2>1, FrameFd
<1>4. CASE /\ SetEntry(a, char_set_charselect(
                IF entry = NULL THEN char_create_online_data ELSE [entry EXCEPT !.fd = f]))
           /\ session' = [session EXCEPT ![f] = [s EXCEPT !.auth = TRUE]]
  <2>. DEFINE e == IF entry = NULL THEN char_create_online_data
                                   ELSE [entry EXCEPT !.fd = f]
              p == char_set_charselect(e)
              t == [s EXCEPT !.auth = TRUE]
  <2>1. e \in online_char_data /\ e.fd \in {-1, f}
    <3>1. entry \in online_char_data \cup {NULL}
      BY <1>0 DEF EntriesOK
    <3>2. CASE entry = NULL
      BY <3>2 DEF char_create_online_data, online_char_data, SELECTING
    <3>3. CASE entry # NULL
      BY <3>1, <3>3 DEF online_char_data
    <3>. QED BY <3>2, <3>3
  <2>2. p.fd \in {-1, f}
    BY <2>1, CharSelectOK
  <2>3. t \in char_session_data /\ t.aid = a /\ t.auth
    BY DEF char_session_data
  <2>4. SetEntry(a, p) /\ session' = [session EXCEPT ![f] = t]
    BY <1>4
  <2>. HIDE DEF p, t, a
  <2>5. ASSUME NEW b \in Accounts, online_char_db'[b] # NULL, online_char_db'[b].fd # -1
        PROVE  LET r == session'[online_char_db'[b].fd] IN r # NULL /\ r.aid = b /\ r.auth
    <3>1. CASE b = a
      <4>1. online_char_db'[b].fd = f
        BY <1>0, <2>2, <2>4, <2>5, <3>1 DEF SetEntry, EntriesOK
      <4>. QED BY <2>3, <2>4, <3>1, <4>1
    <3>2. CASE b # a
      <4>1. online_char_db'[b] = online_char_db[b]
        BY <2>4, <3>2 DEF SetEntry, EntriesOK
      <4>2. online_char_db[b].fd \in Fds
        BY <2>5, <4>1 DEF EntriesOK, online_char_data
      <4>3. /\ session[online_char_db[b].fd] # NULL
            /\ session[online_char_db[b].fd].aid = b
            /\ session[online_char_db[b].fd].auth
        BY <2>5, <4>1 DEF FdOwned
      <4>4. \A g \in Fds : SessionKept(g)
        BY <1>1, <2>3, <2>4
      <4>. QED BY <4>1, <4>2, <4>3, <4>4 DEF SessionKept
    <3>. QED BY <3>1, <3>2
  <2>. QED BY <2>5 DEF FdOwned
<1>. QED BY <1>2, <1>3, <1>4 DEF char_auth_ok, Silent

(* The end of a session takes its number out of its account's entry, and   *)
(* no other entry has it (chclif_parse).                                   *)
LEMMA CloseFd ==
  ASSUME EntriesOK, FdOwned, session \in [Fds -> char_session_data \cup {NULL}],
         NEW f \in Fds, Close(f)
  PROVE  FdOwned'
<1>. DEFINE a == session[f].aid
            entry == IF online_char_db[a] # NULL /\ online_char_db[a].fd = f
                       THEN [online_char_db[a] EXCEPT !.fd = -1]
                       ELSE online_char_db[a]
<1>0. /\ session' = [session EXCEPT ![f] = NULL]
      /\ session[f] # NULL /\ a \in Accounts
  BY DEF Close, char_session_data
<1>1. /\ entry \in online_char_data \cup {NULL} /\ EntryOK(entry, map_server)
      /\ entry # NULL => /\ online_char_db[a] # NULL
                         /\ entry.fd \in {-1, online_char_db[a].fd}
                         /\ entry.fd # f
  <2>1. /\ online_char_db[a] \in online_char_data \cup {NULL}
        /\ EntryOK(online_char_db[a], map_server)
    BY <1>0 DEF EntriesOK
  <2>2. f # -1
    OBVIOUS
  <2>. QED BY <2>1, <2>2, FdOK
<1>2. \/ session[f].auth /\ SetEntry(a, char_set_char_offline(entry, -1))
      \/ session[f].auth /\ SetEntry(a, entry)
      \/ ~session[f].auth /\ online_char_db' = online_char_db
  BY DEF Close
<1>. HIDE DEF entry
<1>3. ASSUME NEW b \in Accounts, online_char_db'[b] # NULL, online_char_db'[b].fd # -1
      PROVE  /\ online_char_db[b] # NULL
             /\ online_char_db'[b].fd = online_char_db[b].fd
             /\ online_char_db'[b].fd # f
  <2>1. CASE b = a /\ session[f].auth
    <3>1. PICK p : /\ SetEntry(a, p)
                   /\ p # NULL => entry # NULL /\ p.fd = entry.fd
      BY <1>1, <1>2, <2>1, CharOfflineOK
    <3>2. online_char_db'[b] = p
      BY <1>0, <2>1, <3>1 DEF SetEntry, EntriesOK
    <3>. QED BY <1>1, <1>3, <2>1, <3>1, <3>2
  <2>2. CASE ~(b = a /\ session[f].auth)
    <3>1. online_char_db'[b] = online_char_db[b]
      BY <1>2, <2>2 DEF SetEntry, EntriesOK
    <3>2. online_char_db[b].fd # f
      BY <1>3, <2>2, <3>1 DEF FdOwned
    <3>. QED BY <1>3, <3>1, <3>2
  <2>. QED BY <2>1, <2>2
<1>4. ASSUME NEW b \in Accounts, online_char_db'[b] # NULL, online_char_db'[b].fd # -1
      PROVE  LET r == session'[online_char_db'[b].fd] IN r # NULL /\ r.aid = b /\ r.auth
  <2>1. online_char_db[b].fd \in Fds \ {f}
    BY <1>3, <1>4 DEF EntriesOK, online_char_data
  <2>2. session'[online_char_db'[b].fd] = session[online_char_db[b].fd]
    BY <1>0, <1>3, <1>4, <2>1
  <2>. QED BY <1>3, <1>4, <2>2 DEF FdOwned
<1>. QED BY <1>4 DEF FdOwned

(* Every step leaves the recorded session numbers right. *)
LEMMA StepFd == TypeOK /\ EntriesOK /\ FdOwned /\ [Next]_vars => FdOwned'
<1>. SUFFICES ASSUME TypeOK, EntriesOK, FdOwned, [Next]_vars PROVE FdOwned'
  OBVIOUS
<1>0. session \in [Fds -> char_session_data \cup {NULL}]
  BY DEF TypeOK
<1>1. ASSUME UNCHANGED <<online_char_db, session>> PROVE FdOwned'
  BY <1>1 DEF FdOwned
<1>2. ASSUME UNCHANGED session, \A b \in Accounts : FdKept(b) PROVE FdOwned'
  BY <1>2, SameSessions, FrameFd
<1>3. ASSUME UNCHANGED online_char_db, NEW g \in Fds, session[g] # NULL, SetEof(g)
      PROVE  FdOwned'
  <2>1. \A b \in Accounts : FdKept(b)
    BY <1>3 DEF FdKept
  <2>. QED BY <1>0, <1>3, <2>1, EofKept, FrameFd
<1>4. ASSUME NEW f \in Fds, NEW a \in Accounts, NEW l \in LoginIds,
             ConnectWithNode(f, a, l)
      PROVE  FdOwned'
  <2>1. NewSession(a, l) \in char_session_data /\ NewSession(a, l).auth = FALSE
    BY DEF NewSession, char_session_data
  <2>. QED BY <1>0, <1>4, <2>1, AuthFd DEF ConnectWithNode
<1>5. ASSUME NEW f \in Fds, NEW a \in Accounts, NEW l \in LoginIds,
             ConnectFromLogin(f, a, l)
      PROVE  FdOwned'
  <2>1. \A g \in Fds : SessionKept(g)
    BY <1>0, <1>5 DEF ConnectFromLogin, SessionKept
  <2>2. \A b \in Accounts : FdKept(b)
    BY <1>5 DEF ConnectFromLogin, FdKept
  <2>. QED BY <2>1, <2>2, FrameFd
<1>6. ASSUME NEW f \in Fds, NEW c \in Chars, CharSelect(f, c) PROVE FdOwned'
  <2>. DEFINE a == Owner[c]
              e == char_set_char_online(Ensured(a), UNKNOWN, c)
              p == char_set_char_offline(e, c)
  <2>1. e \in online_char_data /\ EntryOK(e, map_server) /\ e.fd = Ensured(a).fd
    BY EnsuredOK, CharOnlineOK
  <2>2. p # NULL => p.fd = e.fd
    <3>. HIDE DEF e
    <3>. QED BY <2>1, CharOfflineOK
  <2>3. (SetEntry(a, e) \/ SetEntry(a, p)) /\ UNCHANGED session
    BY <1>6 DEF CharSelect
  <2>. HIDE DEF e, p
  <2>. QED BY <1>2, <2>1, <2>2, <2>3, EnsuredFd, SetEntryFd
<1>7. ASSUME NEW f \in Fds, ClientQuit(f) PROVE FdOwned'
  BY <1>3, <1>7 DEF ClientQuit, Live
<1>8. ASSUME NEW f \in Fds, Close(f) PROVE FdOwned'
  BY <1>0, <1>8, CloseFd
<1>9. ASSUME NEW f \in Fds, LoginAck(f) PROVE FdOwned'
  <2>1. session[f] \in char_session_data
    BY <1>0, <1>9 DEF LoginAck
  <2>2. session[f].auth = FALSE
    BY <1>9, <2>1 DEF LoginAck, char_session_data
  <2>. QED BY <1>0, <1>9, <2>1, <2>2, AuthFd DEF LoginAck
<1>10. ASSUME NEW a \in Accounts, LoginKick(a) PROVE FdOwned'
  <2>1. CASE OnMap(a) /\ UNCHANGED session
               /\ SetEntry(a, [online_char_db[a] EXCEPT !.waiting = TRUE])
    <3>1. /\ online_char_db[a] # NULL
          /\ [online_char_db[a] EXCEPT !.waiting = TRUE].fd = online_char_db[a].fd
      BY <2>1, OnMapServer DEF OnMap, online_char_data
    <3>. QED BY <1>2, <2>1, <3>1, SetEntryFd
  <2>2. CASE /\ FirstSession(a) # NULL /\ SetEof(FirstSession(a))
             /\ UNCHANGED online_char_db
    BY <1>3, <2>2, FirstSessionType
  <2>3. CASE /\ SetEntry(a, char_set_char_offline(online_char_db[a], -1))
             /\ UNCHANGED session
    BY <1>2, <2>3, OfflineFd
  <2>4. CASE UNCHANGED <<online_char_db, session>>
    BY <1>1, <2>4
  <2>. QED BY <1>10, <2>1, <2>2, <2>3, <2>4 DEF LoginKick
<1>11. ASSUME NEW a \in Accounts, AccountBan(a) PROVE FdOwned'
  BY <1>1, <1>3, <1>11, FirstSessionType DEF AccountBan
<1>12. CASE LoginLost \/ LoginConnect \/ SendAccounts \/ UNCHANGED vars
  BY <1>1, <1>12 DEF LoginLost, LoginConnect, SendAccounts, tables, vars
<1>13. ASSUME NEW a \in Accounts, WaitingDisconnect(a) PROVE FdOwned'
  BY <1>2, <1>13, OfflineFd DEF WaitingDisconnect
<1>14. CASE OnlineDataCleanup
  <2>1. \A b \in Accounts : FdKept(b)
    BY <1>14 DEF OnlineDataCleanup, FdKept
  <2>. QED BY <1>2, <1>14, <2>1 DEF OnlineDataCleanup
<1>15. CASE Restart
  BY <1>15 DEF Restart, FdOwned
<1>. QED
  BY <1>4, <1>5, <1>6, <1>7, <1>8, <1>9, <1>10, <1>11, <1>12, <1>13, <1>14, <1>15,
     MapFd DEF Next, Client, LoginServer, Timers

-----------------------------------------------------------------------------
(* The inductive invariant and what follows from it. *)

(* The tables in order, everything well-formed, and the numbers right. *)
IInv == EntriesOK /\ RestOK /\ PacketsOK /\ FdOwned

(* The inductive invariant gives the type invariant. *)
LEMMA IInvType == IInv <=> TypeOK /\ EntriesOK /\ FdOwned
  BY DEF IInv, EntriesOK, RestOK, PacketsOK, TypeOK

(* A fresh process satisfies the invariant. *)
LEMMA InitIInv == Init => IInv
<1>. SUFFICES ASSUME Init PROVE IInv
  OBVIOUS
<1>1. EntriesOK
  BY DEF Init, EntriesOK, EntryOK
<1>2. RestOK /\ PacketsOK
  BY LoginOutput DEF Init, RestOK, PacketsOK
<1>3. FdOwned
  BY DEF Init, FdOwned
<1>. QED BY <1>1, <1>2, <1>3 DEF IInv

(* Every step preserves it. *)
LEMMA StepIInv == IInv /\ [Next]_vars => IInv'
<1>. SUFFICES ASSUME IInv, [Next]_vars PROVE IInv'
  OBVIOUS
<1>1. TypeOK /\ EntriesOK /\ RestOK /\ FdOwned
  BY IInvType DEF IInv
<1>. QED BY <1>1, StepEntries, StepRest, StepPackets, StepFd DEF IInv

(* So it always holds. *)
LEMMA Inductive == Spec => []IInv
  BY InitIInv, StepIInv, PTL DEF Spec

(* The tables, links and packets of the char-server are always well-formed. *)
THEOREM TypeCorrect == Spec => []TypeOK
<1>1. IInv => TypeOK
  BY IInvType
<1>. QED BY <1>1, Inductive, PTL

(* The session number in an entry always belongs to an authenticated       *)
(* session of that very account, however numbers are reused.               *)
THEOREM FdsOwned == Spec => []FdOwned
<1>1. IInv => FdOwned
  BY DEF IInv
<1>. QED BY <1>1, Inductive, PTL

(* No account is ever recorded on a map-server whose link is down. *)
THEOREM NoUserOnDead == Spec => []NoUserOnDeadMap
<1>1. IInv => NoUserOnDeadMap
  BY OnMapServer DEF IInv, NoUserOnDeadMap
<1>. QED BY <1>1, Inductive, PTL

(* An account at character select has no character and no pending          *)
(* disconnect timer.                                                       *)
THEOREM SelectIsConsistent == Spec => []SelectConsistent
<1>1. IInv => SelectConsistent
  BY DEF IInv, EntriesOK, EntryOK, SelectConsistent
<1>. QED BY <1>1, Inductive, PTL

-----------------------------------------------------------------------------
(* Moves between map-servers. *)

(* What NoSilentMove says of account a. *)
Challenged(a) ==
  OnMap(a) /\ OnMap(a)' /\ online_char_db'[a].server # online_char_db[a].server
    => \/ Disconnect(online_char_db[a].server, a) \in toMap'
       \/ \E p \in toMap' : p.type = "changeok" /\ p.aid = a

(* An entry that stays on its map-server, or leaves it for none, moves     *)
(* nobody.                                                                 *)
LEMMA StayChallenged ==
  ASSUME EntriesOK, NEW b \in Accounts, NEW e, SetEntry(b, e), NEW a \in Accounts,
         \/ e = NULL
         \/ ~(e.server > -1)
         \/ online_char_db[b] # NULL /\ e.server = online_char_db[b].server
  PROVE  Challenged(a)
<1>1. CASE a = b
  <2>1. online_char_db'[a] = e
    BY <1>1 DEF SetEntry, EntriesOK
  <2>. QED BY <1>1, <2>1 DEF Challenged, OnMap
<1>2. CASE a # b
  BY <1>2 DEF SetEntry, EntriesOK, Challenged
<1>. QED BY <1>1, <1>2

(* A table that does not change moves nobody. *)
LEMMA SameChallenged ==
  online_char_db' = online_char_db => \A a \in Accounts : Challenged(a)
  BY DEF Challenged

(* Setting a character offline moves nobody. *)
LEMMA OfflineChallenged ==
  ASSUME EntriesOK, NEW b \in Accounts, NEW c, NEW a \in Accounts,
         SetEntry(b, char_set_char_offline(online_char_db[b], c))
  PROVE  Challenged(a)
<1>. DEFINE e == char_set_char_offline(online_char_db[b], c)
<1>1. EntryOK(online_char_db[b], map_server)
        /\ online_char_db[b] \in online_char_data \cup {NULL}
  BY DEF EntriesOK
<1>2. \/ e = NULL \/ e.server = SELECTING
      \/ online_char_db[b] # NULL /\ e.server = online_char_db[b].server
  BY <1>1, CharOfflineOK
<1>3. ~(SELECTING > -1)
  BY DEF SELECTING
<1>4. SetEntry(b, e)
  OBVIOUS
<1>. HIDE DEF e
<1>. QED BY <1>2, <1>3, <1>4, StayChallenged

(* An account that comes online elsewhere is disconnected where it was     *)
(* (char_set_char_online).                                                 *)
LEMMA OnlineChallenged ==
  ASSUME EntriesOK, NEW m \in MapServers, NEW b \in Accounts, NEW c, NEW reply,
         GoOnline(m, b, c, reply), NEW a \in Accounts
  PROVE  Challenged(a)
<1>1. CASE a = b
  <2>1. SetEntry(a, char_set_char_online(Ensured(a), m, c))
    BY <1>1 DEF GoOnline
  <2>2. online_char_db'[a] = char_set_char_online(Ensured(a), m, c)
    BY <2>1 DEF SetEntry, EntriesOK
  <2>3. online_char_db'[a].server = m
    BY <2>2, EnsuredOK DEF char_set_char_online, online_char_data
  <2>4. SUFFICES ASSUME OnMap(a), online_char_db[a].server # m
                 PROVE  Disconnect(online_char_db[a].server, a) \in toMap'
    BY <2>3 DEF Challenged
  <2>5. online_char_db[a].char_id # -1
    BY <2>4 DEF EntriesOK, EntryOK, OnMap, SELECTING
  <2>. QED BY <1>1, <2>4, <2>5 DEF GoOnline, SendMap, OnlineConflict
<1>2. CASE a # b
  BY <1>2 DEF GoOnline, SetEntry, EntriesOK, Challenged
<1>. QED BY <1>1, <1>2

(* Whatever a map-server asks, an account that it takes over is challenged *)
(* at its former map-server, or had asked for the change.                  *)
LEMMA MapChallenged ==
  ASSUME EntriesOK, NEW m \in MapServers, MapServer(m), NEW a \in Accounts
  PROVE  Challenged(a)
<1>1. ASSUME NEW c \in Chars, NEW reply, GoOnline(m, Owner[c], c, reply)
      PROVE  Challenged(a)
  BY <1>1, OnlineChallenged
<1>2. CASE MapDisconnect(m)
  <2>1. online_char_db'[a] = char_db_setoffline(online_char_db[a], m)
    BY <1>2 DEF MapDisconnect
  <2>2. ~(UNKNOWN > -1)
    BY DEF UNKNOWN
  <2>3. /\ online_char_db[a] \in online_char_data \cup {NULL}
        /\ EntryOK(online_char_db[a], map_server)
    BY DEF EntriesOK
  <2>4. LET p == char_db_setoffline(online_char_db[a], m) IN
        p = NULL \/ p.server \in {online_char_db[a].server, UNKNOWN}
    BY <2>3, SetOfflineOK
  <2>. QED BY <2>1, <2>2, <2>4 DEF Challenged, OnMap
<1>3. ASSUME NEW c \in Chars, NEW l \in LoginIds, NEW n \in MapServers,
             ChangeMapServer(m, c, l, n)
      PROVE  Challenged(a)
  <2>. DEFINE p == [type |-> "changeok", to |-> m, aid |-> Owner[c], target |-> n]
  <2>1. p \in toMap' /\ p.type = "changeok" /\ p.aid = Owner[c]
    BY <1>3 DEF ChangeMapServer, SendMap
  <2>2. CASE a = Owner[c]
    BY <2>1, <2>2 DEF Challenged
  <2>3. CASE a # Owner[c]
    BY <1>3, <2>3 DEF ChangeMapServer, SetEntry, EntriesOK, Challenged
  <2>. QED BY <2>2, <2>3
<1>4. ASSUME NEW b \in Accounts, NEW l \in LoginIds, CharSelectReq(m, b, l)
      PROVE  Challenged(a)
  <2>1. SetEntry(b, char_set_charselect(Ensured(b)))
    BY <1>4 DEF CharSelectReq
  <2>2. char_set_charselect(Ensured(b)).server = SELECTING
    BY EnsuredOK DEF char_set_charselect, online_char_data
  <2>3. ~(char_set_charselect(Ensured(b)).server > -1)
    BY <2>2 DEF SELECTING
  <2>. QED BY <2>1, <2>3, StayChallenged
<1>5. ASSUME NEW users \in UserLists, RegMapUser(m, users) PROVE Challenged(a)
  <2>1. CASE \E c \in users : Owner[c] = a
    <3>1. online_char_db'[a] = [Ensured(a) EXCEPT !.server = m,
                                  !.char_id = CHOOSE c \in users : Owner[c] = a]
      BY <1>5, <2>1 DEF RegMapUser
    <3>2. online_char_db'[a].server = m
      BY <3>1, EnsuredOK DEF online_char_data
    <3>3. SUFFICES ASSUME OnMap(a), online_char_db[a].server # m
                   PROVE  Disconnect(online_char_db[a].server, a) \in toMap'
      BY <3>2 DEF Challenged
    <3>. QED BY <1>5, <2>1, <3>3 DEF RegMapUser, SendMap
  <2>2. CASE ~\E c \in users : Owner[c] = a
    <3>1. online_char_db'[a] = char_db_setoffline(online_char_db[a], m)
      BY <1>5, <2>2 DEF RegMapUser
    <3>2. /\ online_char_db[a] \in online_char_data \cup {NULL}
          /\ EntryOK(online_char_db[a], map_server) /\ ~(UNKNOWN > -1)
      BY DEF EntriesOK, UNKNOWN
    <3>3. LET p == char_db_setoffline(online_char_db[a], m) IN
          p = NULL \/ p.server \in {online_char_db[a].server, UNKNOWN}
      BY <3>2, SetOfflineOK
    <3>. QED BY <3>1, <3>2, <3>3 DEF Challenged, OnMap
  <2>. QED BY <2>1, <2>2
<1>. QED
  BY <1>1, <1>2, <1>3, <1>4, <1>5, OfflineChallenged, SameChallenged
  DEF MapServer, MapConnect, MapReqAuth, MapReqAutotrade, MapReqAuthFail, SaveChar,
      SetCharOffline, SetCharOnline, ChangeMapServerFail, SetAllOffline, tables

(* A client's authentication moves nobody (char_auth_ok). *)
LEMMA AuthChallenged ==
  ASSUME EntriesOK, NEW f \in Fds, NEW s, s.aid \in Accounts, char_auth_ok(f, s),
         NEW a \in Accounts
  PROVE  Challenged(a)
<1>. DEFINE b == s.aid
            entry == online_char_db[b]
<1>1. CASE OnMap(b) /\ SetEntry(b, [entry EXCEPT !.waiting = TRUE])
  <2>1. entry # NULL /\ [entry EXCEPT !.waiting = TRUE].server = entry.server
    BY <1>1, OnMapServer DEF OnMap, online_char_data
  <2>. QED BY <1>1, <2>1, StayChallenged
<1>2. CASE online_char_db' = online_char_db
  BY <1>2, SameChallenged
<1>3. CASE SetEntry(b, char_set_charselect(
             IF entry = NULL THEN char_create_online_data ELSE [entry EXCEPT !.fd = f]))
  <2>. DEFINE e == IF entry = NULL THEN char_create_online_data
                                   ELSE [entry EXCEPT !.fd = f]
              p == char_set_charselect(e)
  <2>1. e \in online_char_data
    <3>1. entry \in online_char_data \cup {NULL}
      BY DEF EntriesOK
    <3>2. char_create_online_data \in online_char_data
      BY DEF char_create_online_data, online_char_data, SELECTING
    <3>. QED BY <3>1, <3>2 DEF online_char_data
  <2>2. p.server = SELECTING
    BY <2>1 DEF char_set_charselect, online_char_data
  <2>3. ~(p.server > -1)
    BY <2>2 DEF SELECTING
  <2>4. SetEntry(b, p)
    BY <1>3
  <2>. HIDE DEF p
  <2>. QED BY <2>3, <2>4, StayChallenged
<1>. QED BY <1>1, <1>2, <1>3 DEF char_auth_ok

(* A character choice, and the end of a session, move nobody. *)
LEMMA ClientChallenged ==
  ASSUME EntriesOK, NEW f \in Fds, session[f] # NULL => session[f].aid \in Accounts,
         Client(f), NEW a \in Accounts
  PROVE  Challenged(a)
<1>1. ASSUME NEW b \in Accounts, NEW l \in LoginIds, ConnectWithNode(f, b, l)
      PROVE  Challenged(a)
  <2>1. NewSession(b, l).aid = b
    BY DEF NewSession
  <2>. QED BY <1>1, <2>1, AuthChallenged DEF ConnectWithNode
<1>2. ASSUME NEW c \in Chars, CharSelect(f, c) PROVE Challenged(a)
  <2>. DEFINE b == Owner[c]
              e == char_set_char_online(Ensured(b), UNKNOWN, c)
              p == char_set_char_offline(e, c)
  <2>1. e \in online_char_data /\ EntryOK(e, map_server)
    BY EnsuredOK, CharOnlineOK
  <2>2. e.server = UNKNOWN
    BY EnsuredOK DEF char_set_char_online, online_char_data
  <2>3. p = NULL \/ p.server \in {UNKNOWN, SELECTING}
    <3>. HIDE DEF e
    <3>. QED BY <2>1, <2>2, CharOfflineOK
  <2>4. ~(UNKNOWN > -1) /\ ~(SELECTING > -1)
    BY DEF UNKNOWN, SELECTING
  <2>5. SetEntry(b, e) \/ SetEntry(b, p)
    BY <1>2 DEF CharSelect
  <2>. HIDE DEF e, p
  <2>. QED BY <2>2, <2>3, <2>4, <2>5, StayChallenged
<1>3. CASE Close(f)
  <2>. DEFINE b == session[f].aid
              e == IF online_char_db[b] # NULL /\ online_char_db[b].fd = f
                     THEN [online_char_db[b] EXCEPT !.fd = -1]
                     ELSE online_char_db[b]
              p == char_set_char_offline(e, -1)
  <2>1. b \in Accounts
    BY <1>3 DEF Close
  <2>2. /\ online_char_db[b] \in online_char_data \cup {NULL}
        /\ EntryOK(online_char_db[b], map_server)
    BY <2>1 DEF EntriesOK
  <2>3. /\ e \in online_char_data \cup {NULL} /\ EntryOK(e, map_server)
        /\ e # NULL => online_char_db[b] # NULL /\ e.server = online_char_db[b].server
    BY <2>2, FdOK
  <2>4. SetEntry(b, e) \/ SetEntry(b, p) \/ online_char_db' = online_char_db
    BY <1>3 DEF Close
  <2>5. p = NULL \/ (e # NULL /\ p.server \in {e.server, SELECTING})
    <3>. HIDE DEF e
    <3>. QED BY <2>3, CharOfflineOK
  <2>6. ~(SELECTING > -1)
    BY DEF SELECTING
  <2>. HIDE DEF e, p
  <2>. QED BY <2>1, <2>3, <2>4, <2>5, <2>6, StayChallenged, SameChallenged
<1>. QED
  BY <1>1, <1>2, <1>3, SameChallenged DEF Client, ConnectFromLogin, ClientQuit

(* No account moves from one map-server to another unless the first is     *)
(* told to disconnect it or has asked for the change.                      *)
THEOREM NoMoveIsSilent == Spec => NoSilentMove
<1>1. IInv /\ [Next]_vars => [\A a \in Accounts : Challenged(a)]_vars
  <2>. SUFFICES ASSUME IInv, Next, NEW a \in Accounts PROVE Challenged(a)
    OBVIOUS
  <2>0. EntriesOK /\ \A f \in Fds : session[f] # NULL => session[f].aid \in Accounts
    BY DEF IInv, RestOK, char_session_data
  <2>1. ASSUME NEW f \in Fds, LoginAck(f) PROVE Challenged(a)
    BY <2>0, <2>1, AuthChallenged DEF LoginAck
  <2>2. ASSUME NEW b \in Accounts, LoginKick(b) PROVE Challenged(a)
    <3>1. CASE OnMap(b) /\ SetEntry(b, [online_char_db[b] EXCEPT !.waiting = TRUE])
      <4>1. /\ online_char_db[b] # NULL
            /\ [online_char_db[b] EXCEPT !.waiting = TRUE].server
                 = online_char_db[b].server
        BY <2>0, <3>1, OnMapServer DEF OnMap, online_char_data
      <4>. QED BY <2>0, <3>1, <4>1, StayChallenged
    <3>. QED BY <2>0, <2>2, <3>1, OfflineChallenged, SameChallenged DEF LoginKick
  <2>3. ASSUME NEW b \in Accounts, WaitingDisconnect(b) PROVE Challenged(a)
    BY <2>0, <2>3, OfflineChallenged DEF WaitingDisconnect
  <2>4. CASE OnlineDataCleanup \/ Restart
    BY <2>4 DEF OnlineDataCleanup, Restart, Challenged, OnMap
  <2>. QED
    BY <2>0, <2>1, <2>2, <2>3, <2>4, ClientChallenged, MapChallenged, SameChallenged
    DEF Next, LoginServer, Timers, AccountBan, LoginLost, LoginConnect, SendAccounts,
        tables
<1>2. [\A a \in Accounts : Challenged(a)]_vars
        <=> [\A a \in Accounts : OnMap(a) /\ OnMap(a)'
               /\ online_char_db'[a].server # online_char_db[a].server
                 => \/ Disconnect(online_char_db[a].server, a) \in toMap'
                    \/ \E p \in toMap' : p.type = "changeok" /\ p.aid = a]_vars
  BY DEF Challenged
<1>. QED BY <1>1, <1>2, Inductive, PTL DEF Spec, NoSilentMove
=============================================================================
