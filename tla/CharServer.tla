----------------------------- MODULE CharServer -----------------------------
(***************************************************************************)
(* The char-server's session tables (src/char/char.c, char_clif.c,         *)
(* char_logif.c, char_mapif.c): online_char_db says where each account is, *)
(* auth_db holds the nodes with which a client moves between char-server   *)
(* and map-servers, and the sessions are the clients at character select.  *)
(*                                                                         *)
(* The process is single-threaded: an action is a packet handler or a      *)
(* timer callback.  The login-server, the map-servers and the clients are  *)
(* the environment: a linked map-server may send any request about any     *)
(* account; the login-server grants a login id once (AuthSingleUse of      *)
(* LoginServer).  Packets written in a step are toLogin (in order) and     *)
(* toMap (a set of packet and slot), both empty otherwise.                 *)
(*                                                                         *)
(* Abstractions: a login_id1/login_id2/sex triple is a member of LoginIds; *)
(* waiting_disconnect is whether a timer is pending, for the callback      *)
(* ignores any timer but the entry's own; reading a character from SQL may *)
(* fail; bans, deletions and guild-bound retrieval only make a selection   *)
(* refuse, which changes nothing here; the user counts are left out.       *)
(***************************************************************************)
EXTENDS Integers, Sequences

CONSTANTS
  Accounts,     \* account ids
  Chars,        \* char ids
  Owner,        \* char -> its account
  LoginIds,     \* values the login-server may have drawn
  Fds,          \* client session numbers
  MapServers,   \* indices of the map_server array
  NULL          \* no entry, no node, no session

ASSUME IndexAssumption == Chars \subseteq Nat \ {0} /\ Fds \subseteq Nat
                            /\ MapServers \subseteq Nat

ASSUME OwnerAssumption == Owner \in [Chars -> Accounts]

CHARSELECT == 0   \* char_id of a node that leads back to character select
SELECTING == -1   \* server of an account at character select
UNKNOWN == -2     \* server between servers, or on a map-server that is gone

Lost == "lost"       \* login_fd is -1: every client is dropped
Absent == "absent"   \* login_fd is 0: a connection attempt failed
Linked == "linked"   \* login_fd is a session

online_char_data ==
  [char_id : Chars \cup {-1}, server : MapServers \cup {SELECTING, UNKNOWN},
   fd : Fds \cup {-1}, waiting : BOOLEAN]

auth_node == [char_id : Chars \cup {CHARSELECT}, lid : LoginIds, changing : BOOLEAN]

char_session_data ==
  [aid : Accounts, lid : LoginIds, auth : BOOLEAN, eof : BOOLEAN]

ASSUME NullAssumption ==
  NULL \notin online_char_data \cup auth_node \cup char_session_data

VARIABLES
  online_char_db,   \* account -> where it is, or NULL
  auth_db,          \* account -> its auth node, or NULL
  session,          \* fd -> the client's session_data, or NULL
  map_server,       \* the slots whose link is up
  login_fd,         \* state of the link to the login-server
  toLogin, toMap,   \* packets written in the last step
  granted           \* history: login ids the login-server has granted

tables == <<online_char_db, auth_db, session>>
links == <<map_server, login_fd>>
output == <<toLogin, toMap>>
vars == <<tables, links, output, granted>>

LoginPacket ==
  [type : {"reqauth"}, aid : Accounts, lid : LoginIds, fd : Fds]
    \cup [type : {"setacconline"}, aid : Accounts]
    \cup [type : {"setaccoffline", "updonlinedb"}, aids : SUBSET Accounts]

MapPacket ==
  [type : {"authok"}, to : MapServers, aid : Accounts, char_id : Chars, changing : BOOLEAN]
    \cup [type : {"authfail", "saveack"}, to : MapServers, aid : Accounts, char_id : Chars]
    \cup [type : {"disconnect", "ban", "charselok"}, to : MapServers, aid : Accounts]
    \cup [type : {"changeok", "changefail"}, to : MapServers, aid : Accounts, target : MapServers]

TypeOK ==
  /\ online_char_db \in [Accounts -> online_char_data \cup {NULL}]
  /\ auth_db \in [Accounts -> auth_node \cup {NULL}]
  /\ session \in [Fds -> char_session_data \cup {NULL}]
  /\ map_server \in SUBSET MapServers
  /\ login_fd \in {Lost, Absent, Linked}
  /\ toLogin \in Seq(LoginPacket)
  /\ toMap \in SUBSET MapPacket
  /\ granted \in SUBSET LoginIds

Init ==
  /\ online_char_db = [a \in Accounts |-> NULL]
  /\ auth_db = [a \in Accounts |-> NULL]
  /\ session = [f \in Fds |-> NULL]
  /\ map_server = {}
  /\ login_fd = Lost
  /\ toLogin = << >> /\ toMap = {}
  /\ granted = {}

-----------------------------------------------------------------------------
(* Helpers of the handlers. *)

(* Packets for the login-server are dropped unless it is connected. *)
SendLogin(packets) == toLogin' = IF login_fd = Linked THEN packets ELSE << >>

SendMap(packets) == toMap' = packets

Silent == toLogin' = << >> /\ toMap' = {}

Online(a) == [type |-> "setacconline", aid |-> a]

(* One packet for each account of S. *)
Offline(S) == [type |-> "setaccoffline", aids |-> S]

(* mapif_disconnectplayer *)
Disconnect(m, a) == [type |-> "disconnect", to |-> m, aid |-> a]

(* Mutant: the session number is left zero. *)
char_create_online_data_ZeroFd ==
  [char_id |-> -1, server |-> SELECTING, fd |-> 0, waiting |-> FALSE]

char_create_online_data ==
  [char_id |-> -1, server |-> SELECTING, fd |-> -1, waiting |-> FALSE]

(* idb_ensure *)
Ensured(a) == IF online_char_db[a] = NULL THEN char_create_online_data
                                          ELSE online_char_db[a]

OnMap(a) == online_char_db[a] # NULL /\ online_char_db[a].server > -1

SetEntry(a, entry) == online_char_db' = [online_char_db EXCEPT ![a] = entry]
SetNode(a, node) == auth_db' = [auth_db EXCEPT ![a] = node]

(* The entry that char_set_charselect leaves. *)
char_set_charselect(entry) ==
  [entry EXCEPT !.char_id = -1, !.server = SELECTING, !.waiting = FALSE]

(* The entry that char_set_char_online leaves. *)
char_set_char_online(entry, m, c) ==
  [entry EXCEPT !.char_id = c, !.server = m, !.waiting = FALSE]

(* Mutant: the map-server that lost the account is not told. *)
OnlineConflict_Forget(a, m) == {}

(* ... and whom it tells to disconnect the account. *)
OnlineConflict(a, m) ==
  IF OnMap(a) /\ online_char_db[a].char_id # -1 /\ online_char_db[a].server # m
    THEN {Disconnect(online_char_db[a].server, a)}
    ELSE {}

(* Mutant: the disconnect timer of the entry is not deleted. *)
char_set_char_offline_KeepTimer(entry, c) ==
  IF entry = NULL THEN NULL
  ELSE IF entry.char_id = c
    THEN [entry EXCEPT !.char_id = -1, !.server = SELECTING]
    ELSE entry

(* The entry that char_set_char_offline leaves: another character of the   *)
(* account only loses its timer.                                           *)
char_set_char_offline(entry, c) ==
  IF entry = NULL THEN NULL
  ELSE IF entry.char_id = c
    THEN [entry EXCEPT !.char_id = -1, !.server = SELECTING, !.waiting = FALSE]
    ELSE [entry EXCEPT !.waiting = FALSE]

(* ... and what it reports: nothing while the client is still connected to *)
(* the char-server, unless all characters of the account are set offline.  *)
OfflineReport(a, entry, c) ==
  IF c = -1 \/ entry = NULL THEN <<Offline({a})>>
  ELSE IF entry.fd = -1 THEN <<Offline({a})>> ELSE << >>

(* The entry once the accounts of map-server m are marked unknown. *)
char_db_setoffline(entry, m) ==
  IF entry # NULL /\ entry.server = m THEN [entry EXCEPT !.server = UNKNOWN]
                                      ELSE entry

(* fd_max scan: the first session of account a, or NULL. *)
FirstSession(a) ==
  LET S == {f \in Fds : session[f] # NULL /\ session[f].aid = a}
  IN IF S = {} THEN NULL ELSE CHOOSE f \in S : \A g \in S : f <= g

SetEof(f) == session' = [session EXCEPT ![f].eof = TRUE]

Live(f) == session[f] # NULL /\ ~session[f].eof /\ login_fd # Lost

AuthedSession(f) == Live(f) /\ session[f].auth

-----------------------------------------------------------------------------
(* Clients. *)

(* char_auth_ok for client f with session data s.  The account is in game: *)
(* its map-server is told to disconnect it, a timer bounds the wait, the   *)
(* client is refused.  Another client is at character select: refused.     *)
(* Otherwise the client is authenticated; its fd is recorded only in an    *)
(* entry that already exists.                                              *)
char_auth_ok(f, s) ==
  LET a == s.aid
      entry == online_char_db[a] IN
  \/ /\ OnMap(a)
     /\ SetEntry(a, [entry EXCEPT !.waiting = TRUE])
     /\ session' = [session EXCEPT ![f] = s]
     /\ toLogin' = << >>
     /\ SendMap({Disconnect(entry.server, a)})
  \/ /\ entry # NULL /\ ~OnMap(a) /\ entry.fd >= 0 /\ entry.fd # f
     /\ session' = [session EXCEPT ![f] = s]
     /\ UNCHANGED online_char_db
     /\ Silent
  \/ /\ entry # NULL => ~OnMap(a) /\ entry.fd \in {-1, f}
     /\ SetEntry(a, char_set_charselect(
          IF entry = NULL THEN char_create_online_data ELSE [entry EXCEPT !.fd = f]))
     /\ session' = [session EXCEPT ![f] = [s EXCEPT !.auth = TRUE]]
     /\ SendLogin(<<Online(a)>>)
     /\ SendMap({})

NewSession(a, l) == [aid |-> a, lid |-> l, auth |-> FALSE, eof |-> FALSE]

(* chclif_parse_reqtoconnect: the client comes from a map-server, or went  *)
(* through character select before: its node is used up.                   *)
ConnectWithNode(f, a, l) ==
  /\ session[f] = NULL /\ login_fd # Lost
  /\ auth_db[a] # NULL /\ auth_db[a].lid = l
  /\ SetNode(a, NULL)
  /\ char_auth_ok(f, NewSession(a, l))
  /\ UNCHANGED <<links, granted>>

(* chclif_parse_reqtoconnect: the client comes from the login-server,      *)
(* which is asked, or if it is away the client is refused.                 *)
ConnectFromLogin(f, a, l) ==
  /\ session[f] = NULL /\ login_fd # Lost
  /\ auth_db[a] # NULL => auth_db[a].lid # l
  /\ session' = [session EXCEPT ![f] = NewSession(a, l)]
  /\ SendLogin(<<[type |-> "reqauth", aid |-> a, lid |-> l, fd |-> f]>>)
  /\ SendMap({})
  /\ UNCHANGED <<online_char_db, auth_db, links, granted>>

(* chlogif_parse_ackaccreq, result ok: the client may have gone meanwhile, *)
(* and its session number may be another client's.                         *)
LoginAck(f) ==
  /\ login_fd = Linked
  /\ session[f] # NULL /\ ~session[f].eof /\ ~session[f].auth
  /\ session[f].lid \notin granted
  /\ granted' = granted \cup {session[f].lid}
  /\ char_auth_ok(f, session[f])
  /\ UNCHANGED <<auth_db, links>>

(* chclif_parse_charselect: the character is marked online on no server,   *)
(* then read.  It may fail to load and is set offline again; its map may   *)
(* be served by no map-server, and it stays marked; or the client is sent  *)
(* to a map-server with a node.                                            *)
CharSelect(f, c) ==
  /\ AuthedSession(f) /\ session[f].aid = Owner[c]
  /\ LET a == Owner[c]
         entry == char_set_char_online(Ensured(a), UNKNOWN, c) IN
     /\ SendMap(OnlineConflict(a, UNKNOWN))
     /\ \/ /\ SetEntry(a, char_set_char_offline(entry, c))
           /\ SendLogin(<<Online(a)>> \o OfflineReport(a, entry, c))
           /\ UNCHANGED auth_db
        \/ /\ SetEntry(a, entry)
           /\ SendLogin(<<Online(a)>>)
           /\ \/ UNCHANGED auth_db
              \/ /\ map_server # {}
                 /\ SetNode(a, [char_id |-> c, lid |-> session[f].lid, changing |-> FALSE])
  /\ UNCHANGED <<session, links, granted>>

(* The client closes the connection, or it stalls. *)
ClientQuit(f) ==
  /\ Live(f)
  /\ SetEof(f)
  /\ Silent
  /\ UNCHANGED <<online_char_db, auth_db, links, granted>>

(* Mutant: the session number stays in the entry. *)
Close_KeepFd(f) ==
  /\ session[f] # NULL /\ (session[f].eof \/ login_fd = Lost)
  /\ session' = [session EXCEPT ![f] = NULL]
  /\ SendMap({})
  /\ LET a == session[f].aid IN
       IF session[f].auth
            /\ (online_char_db[a] # NULL => online_char_db[a].server = SELECTING)
         THEN /\ SetEntry(a, char_set_char_offline(online_char_db[a], -1))
              /\ SendLogin(<<Offline({a})>>)
         ELSE /\ UNCHANGED online_char_db
              /\ toLogin' = << >>
  /\ UNCHANGED <<auth_db, links, granted>>

(* chclif_parse at the end of a session, or of any session while the link  *)
(* to the login-server is lost: an account that no map-server has is set   *)
(* offline.                                                                *)
Close(f) ==
  /\ session[f] # NULL /\ (session[f].eof \/ login_fd = Lost)
  /\ session' = [session EXCEPT ![f] = NULL]
  /\ SendMap({})
  /\ LET a == session[f].aid
         entry == IF online_char_db[a] # NULL /\ online_char_db[a].fd = f
                    THEN [online_char_db[a] EXCEPT !.fd = -1]
                    ELSE online_char_db[a]
     IN IF session[f].auth
          THEN IF entry # NULL => entry.server = SELECTING
                 THEN /\ SetEntry(a, char_set_char_offline(entry, -1))
                      /\ SendLogin(<<Offline({a})>>)
                 ELSE SetEntry(a, entry) /\ toLogin' = << >>
          ELSE UNCHANGED online_char_db /\ toLogin' = << >>
  /\ UNCHANGED <<auth_db, links, granted>>

-----------------------------------------------------------------------------
(* The login-server. *)

(* chlogif_parse_askkick: the account's map-server is told to disconnect   *)
(* it, or its first session is closed, or it is set offline.  Its node is  *)
(* dropped in any case.                                                    *)
LoginKick(a) ==
  /\ login_fd = Linked
  /\ SetNode(a, NULL)
  /\ \/ /\ OnMap(a)
        /\ SetEntry(a, [online_char_db[a] EXCEPT !.waiting = TRUE])
        /\ toLogin' = << >> /\ SendMap({Disconnect(online_char_db[a].server, a)})
        /\ UNCHANGED session
     \/ /\ online_char_db[a] # NULL /\ ~OnMap(a)
        /\ FirstSession(a) # NULL
        /\ SetEof(FirstSession(a))
        /\ Silent
        /\ UNCHANGED online_char_db
     \/ /\ online_char_db[a] # NULL /\ ~OnMap(a)
        /\ FirstSession(a) = NULL
        /\ SetEntry(a, char_set_char_offline(online_char_db[a], -1))
        /\ SendLogin(<<Offline({a})>>) /\ SendMap({})
        /\ UNCHANGED session
     \/ /\ online_char_db[a] = NULL
        /\ Silent
        /\ UNCHANGED <<online_char_db, session>>
  /\ UNCHANGED <<links, granted>>

(* chlogif_parse_accbannotification: all map-servers are told, and the     *)
(* account's first session is closed.                                      *)
AccountBan(a) ==
  /\ login_fd = Linked
  /\ toLogin' = << >>
  /\ SendMap({[type |-> "ban", to |-> m, aid |-> a] : m \in map_server})
  /\ IF FirstSession(a) = NULL THEN UNCHANGED session ELSE SetEof(FirstSession(a))
  /\ UNCHANGED <<online_char_db, auth_db, links, granted>>

(* chlogif_parse sees the end of the link. *)
LoginLost ==
  /\ login_fd = Linked
  /\ login_fd' = Lost
  /\ Silent
  /\ UNCHANGED <<tables, map_server, granted>>

(* chlogif_check_connect_logserver: the attempt succeeds or fails. *)
LoginConnect ==
  /\ login_fd # Linked
  /\ login_fd' \in {Linked, Absent}
  /\ Silent
  /\ UNCHANGED <<tables, map_server, granted>>

(* chlogif_send_acc_tologin: when the link is ready, then every hour. *)
SendAccounts ==
  /\ login_fd = Linked
  /\ SendLogin(<<[type |-> "updonlinedb", aids |-> {a \in Accounts : OnMap(a)}]>>)
  /\ SendMap({})
  /\ UNCHANGED <<tables, links, granted>>

-----------------------------------------------------------------------------
(* The map-servers. *)

(* chclif_parse_maplogin: the first free slot is taken. *)
MapConnect(m) ==
  /\ m \notin map_server
  /\ \A n \in MapServers : n < m => n \in map_server
  /\ map_server' = map_server \cup {m}
  /\ Silent
  /\ UNCHANGED <<tables, login_fd, granted>>

(* chmapif_parse sees the end of the link: chmapif_server_reset. *)
MapDisconnect(m) ==
  /\ m \in map_server
  /\ map_server' = map_server \ {m}
  /\ online_char_db' =
       [a \in Accounts |-> char_db_setoffline(online_char_db[a], m)]
  /\ Silent
  /\ UNCHANGED <<auth_db, session, login_fd, granted>>

(* char_set_char_online for a request of map-server m, which gets reply. *)
GoOnline(m, a, c, reply) ==
  /\ SetEntry(a, char_set_char_online(Ensured(a), m, c))
  /\ SendLogin(<<Online(a)>>)
  /\ SendMap(OnlineConflict(a, m) \cup reply)

(* chmapif_parse_reqauth: the node matches and is used up. *)
MapReqAuth(m, c, l) ==
  LET a == Owner[c] IN
  /\ m \in map_server
  /\ auth_db[a] # NULL /\ auth_db[a].char_id = c /\ auth_db[a].lid = l
  /\ SetNode(a, NULL)
  /\ GoOnline(m, a, c, {[type |-> "authok", to |-> m, aid |-> a, char_id |-> c,
                         changing |-> auth_db[a].changing]})
  /\ UNCHANGED <<session, links, granted>>

(* chmapif_parse_reqauth for a vendor that the map-server brings back: no  *)
(* node is asked for.                                                      *)
MapReqAutotrade(m, c) ==
  LET a == Owner[c] IN
  /\ m \in map_server
  /\ GoOnline(m, a, c, {[type |-> "authok", to |-> m, aid |-> a, char_id |-> c,
                         changing |-> FALSE]})
  /\ UNCHANGED <<auth_db, session, links, granted>>

(* chmapif_parse_reqauth: no node, another one, or the character cannot be *)
(* read.                                                                   *)
MapReqAuthFail(m, c) ==
  /\ m \in map_server
  /\ toLogin' = << >>
  /\ SendMap({[type |-> "authfail", to |-> m, aid |-> Owner[c], char_id |-> c]})
  /\ UNCHANGED <<tables, links, granted>>

(* What chmapif_parse_reqsavechar accepts: a final save, the recorded      *)
(* character, and every character whose id has a low byte other than zero, *)
(* for the byte tested after the flag is the first of the saved record.    *)
SaveAccepted(a, c, final) ==
  \/ final
  \/ c % 256 # 0
  \/ online_char_db[a] # NULL /\ online_char_db[a].char_id = c

(* chmapif_parse_reqsavechar: a refused save marks the character online; a *)
(* final one, which is never refused, sets it offline and is acknowledged. *)
SaveChar(m, c, final) ==
  LET a == Owner[c] IN
  /\ m \in map_server
  /\ \/ /\ ~SaveAccepted(a, c, final)
        /\ GoOnline(m, a, c, {})
     \/ /\ SaveAccepted(a, c, final) /\ ~final
        /\ Silent /\ UNCHANGED online_char_db
     \/ /\ final
        /\ SetEntry(a, char_set_char_offline(online_char_db[a], c))
        /\ SendLogin(OfflineReport(a, online_char_db[a], c))
        /\ SendMap({[type |-> "saveack", to |-> m, aid |-> a, char_id |-> c]})
  /\ UNCHANGED <<auth_db, session, links, granted>>

(* chmapif_parse_authok: a player returns to character select. *)
CharSelectReq(m, a, l) ==
  /\ m \in map_server
  /\ SetNode(a, [char_id |-> CHARSELECT, lid |-> l, changing |-> FALSE])
  /\ SetEntry(a, char_set_charselect(Ensured(a)))
  /\ SendLogin(<<Online(a)>>)
  /\ SendMap({[type |-> "charselok", to |-> m, aid |-> a]})
  /\ UNCHANGED <<session, links, granted>>

(* Mutant: the target need not be linked. *)
ChangeMapServer_AnyTarget(m, c, l, n) ==
  LET a == Owner[c] IN
  /\ m \in map_server
  /\ SetNode(a, [char_id |-> c, lid |-> l, changing |-> TRUE])
  /\ SetEntry(a, [Ensured(a) EXCEPT !.char_id = c, !.server = n])
  /\ toLogin' = << >>
  /\ SendMap({[type |-> "changeok", to |-> m, aid |-> a, target |-> n]})
  /\ UNCHANGED <<session, links, granted>>

(* chmapif_parse_reqchangemapserv: the account is recorded on the target n *)
(* and gets a node for it.                                                 *)
ChangeMapServer(m, c, l, n) ==
  LET a == Owner[c] IN
  /\ {m, n} \subseteq map_server
  /\ SetNode(a, [char_id |-> c, lid |-> l, changing |-> TRUE])
  /\ SetEntry(a, [Ensured(a) EXCEPT !.char_id = c, !.server = n])
  /\ toLogin' = << >>
  /\ SendMap({[type |-> "changeok", to |-> m, aid |-> a, target |-> n]})
  /\ UNCHANGED <<session, links, granted>>

(* chmapif_parse_reqchangemapserv: the target is away, or the character    *)
(* cannot be read.                                                         *)
ChangeMapServerFail(m, a, n) ==
  /\ m \in map_server
  /\ toLogin' = << >>
  /\ SendMap({[type |-> "changefail", to |-> m, aid |-> a, target |-> n]})
  /\ UNCHANGED <<tables, links, granted>>

(* chmapif_parse_setcharoffline *)
SetCharOffline(m, c) ==
  LET a == Owner[c] IN
  /\ m \in map_server
  /\ SetEntry(a, char_set_char_offline(online_char_db[a], c))
  /\ SendLogin(OfflineReport(a, online_char_db[a], c))
  /\ SendMap({})
  /\ UNCHANGED <<auth_db, session, links, granted>>

(* chmapif_parse_setcharonline *)
SetCharOnline(m, c) ==
  /\ m \in map_server
  /\ GoOnline(m, Owner[c], c, {})
  /\ UNCHANGED <<auth_db, session, links, granted>>

(* chmapif_parse_setalloffline: the map-server is told to disconnect all   *)
(* its accounts, which stay as they are.                                   *)
SetAllOffline(m) ==
  /\ m \in map_server
  /\ toLogin' = << >>
  /\ SendMap({Disconnect(m, a) : a \in {b \in Accounts : OnMap(b)
                                         /\ online_char_db[b].server = m}})
  /\ UNCHANGED <<tables, links, granted>>

(* chmapif_parse_regmapuser: the accounts of m are marked unknown, then    *)
(* those it lists are recorded on m; a map-server that had one of them is  *)
(* told to disconnect it.                                                  *)
RegMapUser(m, users) ==
  /\ m \in map_server
  /\ online_char_db' = [a \in Accounts |->
       IF \E c \in users : Owner[c] = a
         THEN [Ensured(a) EXCEPT !.server = m,
                                 !.char_id = CHOOSE c \in users : Owner[c] = a]
         ELSE char_db_setoffline(online_char_db[a], m)]
  /\ toLogin' = << >>
  /\ SendMap({Disconnect(online_char_db[a].server, a) : a \in {Owner[c] : c \in
                {d \in users : OnMap(Owner[d])
                                 /\ online_char_db[Owner[d]].server # m}}})
  /\ UNCHANGED <<auth_db, session, links, granted>>

(* The user lists a map-server can send: a player has one character. *)
UserLists == {users \in SUBSET Chars :
                \A c, d \in users : Owner[c] = Owner[d] => c = d}

-----------------------------------------------------------------------------
(* Timers, and the end of the process. *)

(* Mutant: the callback spares an account whose map-server is gone. *)
WaitingDisconnect_OnMap(a) ==
  LET entry == online_char_db[a] IN
  /\ OnMap(a)
  /\ entry.waiting
  /\ SetEntry(a, char_set_char_offline(entry, entry.char_id))
  /\ SendLogin(OfflineReport(a, entry, entry.char_id))
  /\ SendMap({})
  /\ UNCHANGED <<auth_db, session, links, granted>>

(* char_chardb_waiting_disconnect: the map-server did not answer in time.  *)
WaitingDisconnect(a) ==
  LET entry == online_char_db[a] IN
  /\ entry # NULL
  /\ entry.waiting
  /\ SetEntry(a, char_set_char_offline(entry, entry.char_id))
  /\ SendLogin(OfflineReport(a, entry, entry.char_id))
  /\ SendMap({})
  /\ UNCHANGED <<auth_db, session, links, granted>>

(* char_online_data_cleanup_sub for one account: no client is connected    *)
(* and no map-server has it.                                               *)
Idle(a) == /\ online_char_db[a] # NULL
           /\ online_char_db[a].fd = -1
           /\ online_char_db[a].server < 0

(* Mutant: only accounts at character select are freed. *)
OnlineDataCleanup_SkipUnknown ==
  LET gone == {a \in Accounts : Idle(a) /\ online_char_db[a].server = SELECTING} IN
  /\ gone # {}
  /\ online_char_db' = [a \in Accounts |-> IF a \in gone THEN NULL ELSE online_char_db[a]]
  /\ Silent
  /\ UNCHANGED <<auth_db, session, links, granted>>

(* char_online_data_cleanup: an account on no server is set offline first. *)
OnlineDataCleanup ==
  LET unknown == {a \in Accounts : Idle(a) /\ online_char_db[a].server = UNKNOWN} IN
  /\ \E a \in Accounts : Idle(a)
  /\ online_char_db' = [a \in Accounts |-> IF Idle(a) THEN NULL ELSE online_char_db[a]]
  /\ SendLogin(<<Offline(unknown)>>)
  /\ SendMap({})
  /\ UNCHANGED <<auth_db, session, links, granted>>

(* The process stops or crashes and is started again. *)
Restart ==
  /\ online_char_db' = [a \in Accounts |-> NULL]
  /\ auth_db' = [a \in Accounts |-> NULL]
  /\ session' = [f \in Fds |-> NULL]
  /\ map_server' = {}
  /\ login_fd' = Lost
  /\ Silent
  /\ UNCHANGED granted

Client(f) ==
  \/ \E a \in Accounts, l \in LoginIds :
       ConnectWithNode(f, a, l) \/ ConnectFromLogin(f, a, l)
  \/ \E c \in Chars : CharSelect(f, c)
  \/ ClientQuit(f)
  \/ Close(f)

LoginServer ==
  \/ \E f \in Fds : LoginAck(f)
  \/ \E a \in Accounts : LoginKick(a) \/ AccountBan(a)
  \/ LoginLost \/ LoginConnect \/ SendAccounts

MapServer(m) ==
  \/ MapConnect(m) \/ MapDisconnect(m)
  \/ \E c \in Chars :
       \/ \E l \in LoginIds : MapReqAuth(m, c, l)
       \/ MapReqAutotrade(m, c) \/ MapReqAuthFail(m, c)
       \/ \E final \in BOOLEAN : SaveChar(m, c, final)
       \/ \E l \in LoginIds, n \in MapServers : ChangeMapServer(m, c, l, n)
       \/ SetCharOffline(m, c) \/ SetCharOnline(m, c)
  \/ \E a \in Accounts :
       \/ \E l \in LoginIds : CharSelectReq(m, a, l)
       \/ \E n \in MapServers : ChangeMapServerFail(m, a, n)
  \/ SetAllOffline(m)
  \/ \E users \in UserLists : RegMapUser(m, users)

Timers == OnlineDataCleanup \/ \E a \in Accounts : WaitingDisconnect(a)

Next ==
  \/ \E f \in Fds : Client(f)
  \/ LoginServer
  \/ \E m \in MapServers : MapServer(m)
  \/ Timers
  \/ Restart

(* Due timers run in every cycle of the core loop. *)
Fairness == WF_vars(OnlineDataCleanup)
              /\ \A a \in Accounts : WF_vars(WaitingDisconnect(a))

Spec == Init /\ [][Next]_vars /\ Fairness

-----------------------------------------------------------------------------
(* Safety. *)

(* The session number an entry records is the live session of an           *)
(* authenticated client of that very account: session numbers are reused,  *)
(* so a stale one would make another player's connection stand for this    *)
(* account (char.c:1844-1849, char_clif.c:1115).                           *)
FdOwned ==
  \A a \in Accounts :
    online_char_db[a] # NULL /\ online_char_db[a].fd # -1
      => LET s == session[online_char_db[a].fd] IN s # NULL /\ s.aid = a /\ s.auth

(* No account is recorded on a map-server whose link is down: nobody there *)
(* could be told to disconnect it (char_mapif.c:1546, 645).                *)
NoUserOnDeadMap ==
  \A a \in Accounts : OnMap(a) => online_char_db[a].server \in map_server

(* An account at character select, and no other, has no character; and a   *)
(* disconnect timer is only pending for an account that a map-server may   *)
(* still have, so that its callback never sets a player at character       *)
(* select offline (char.c:103-109, 183, 2037-2040).                        *)
SelectConsistent ==
  \A a \in Accounts : online_char_db[a] # NULL =>
    /\ online_char_db[a].char_id = -1 <=> online_char_db[a].server = SELECTING
    /\ online_char_db[a].waiting => online_char_db[a].server # SELECTING

(* An account recorded on one map-server is never recorded on another one  *)
(* unless the first is told to disconnect it, or has asked for the change: *)
(* whoever claims the account, the older claim is challenged (char.c:125,  *)
(* char_mapif.c:365).                                                      *)
NoSilentMove ==
  [][\A a \in Accounts : OnMap(a) /\ OnMap(a)'
       /\ online_char_db'[a].server # online_char_db[a].server
         => \/ Disconnect(online_char_db[a].server, a) \in toMap'
            \/ \E p \in toMap' : p.type = "changeok" /\ p.aid = a]_vars

(* "There's already a connection from this account that hasn't picked a    *)
(* char yet" (char.c:1844): a second client of the account is refused.     *)
OneCharSelectSession ==
  \A f, g \in Fds :
    AuthedSession(f) /\ AuthedSession(g) /\ session[f].aid = session[g].aid => f = g

-----------------------------------------------------------------------------
(* Liveness. *)

(* An account whose map-server vanished, or that never arrived at one, is  *)
(* freed once its client is gone: "If any chars remain in -2, they will be *)
(* cleaned in the cleanup timer" (char_mapif.c:374).                       *)
UnknownReleased ==
  \A a \in Accounts :
    (online_char_db[a] # NULL /\ online_char_db[a].server = UNKNOWN
        /\ online_char_db[a].fd = -1)
      ~> (online_char_db[a] = NULL \/ online_char_db[a].server # UNKNOWN
            \/ online_char_db[a].fd # -1)

(* A player that a map-server was told to disconnect does not block the    *)
(* account for ever, whether the map-server answers, is lost, or lets the  *)
(* player change servers meanwhile (char.c:2031-2042).                     *)
KickExpires ==
  \A a \in Accounts :
    (online_char_db[a] # NULL /\ online_char_db[a].waiting)
      ~> (online_char_db[a] = NULL \/ ~online_char_db[a].waiting)
=============================================================================
