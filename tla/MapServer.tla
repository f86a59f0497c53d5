----------------------------- MODULE MapServer -----------------------------
(***************************************************************************)
(* The tables with which a map-server (src/map/chrif.c, map.c, clif.c,     *)
(* pc.c, vending.c) takes clients in and lets them go: pc_db holds the     *)
(* active players, auth_db the nodes of characters that are logging in     *)
(* (ST_LOGIN), quitting (ST_LOGOUT) or moving to another map-server        *)
(* (ST_MAPCHANGE), and session[f].sd is the session_data of a client.      *)
(*                                                                         *)
(* The process is single-threaded: an action is a packet handler or a      *)
(* timer callback.  The clients and the char-server are the environment;   *)
(* what the char-server answers arrives only on the link on which it was   *)
(* asked.  toChar is the set of packets the last step wrote to it.         *)
(*                                                                         *)
(* Abstractions: a session_data is its char_id and login ids (the account  *)
(* is Owner[char_id]), NULL login ids being those of a restored vendor;    *)
(* everything else a player owns is one bit, whether it changed since it   *)
(* was last sent (unsaved); a shop stands for a vending or a buying store; *)
(* the other map-servers' maps are known while their count is positive;    *)
(* last_point is on this server, as the char-server chose it by that map.  *)
(***************************************************************************)
EXTENDS Integers, FiniteSets

CONSTANTS
  Accounts,          \* account ids
  Chars,             \* char ids
  Owner,             \* char -> its account
  LoginIds,          \* login ids of clients
  Fds,               \* client session numbers
  MaxMapServers,     \* bound: other map-servers
  MaxTimers,         \* bound: pending clif_delayquit timers of an account
  FeatureAutotrade,  \* battle_config.feature_autotrade
  NULL               \* no entry, no session_data, no session

ASSUME FdAssumption == Fds \subseteq Nat \ {0}

ASSUME BoundAssumption == MaxMapServers \in Nat /\ MaxTimers \in Nat

ASSUME OwnerAssumption == Owner \in [Chars -> Accounts]

ASSUME SwitchAssumption == FeatureAutotrade \in BOOLEAN

RUNNING == "running"     \* MAPSERVER_ST_RUNNING
SHUTDOWN == "shutdown"   \* MAPSERVER_ST_SHUTDOWN: waits for auth_db to empty
STOPPING == "stopping"   \* CORE_ST_STOP: the core loop ends, do_final follows
STOPPED == "stopped"     \* no process

Down == "down"     \* no connection to the char-server
Up == "up"         \* connected, the maps not yet acknowledged
Ready == "ready"   \* chrif_state is 2

session_data == [char_id : Chars, lid : LoginIds \cup {NULL}]

socket_data == [sd : session_data \cup {NULL}, eof : BOOLEAN]

auth_node ==
  [sd : session_data, state : {"ST_LOGIN", "ST_LOGOUT", "ST_MAPCHANGE"},
   fd : Fds \cup {0}, loaded : BOOLEAN]

map_session_data ==
  [sd : session_data, fd : Fds \cup {0}, autotrade : {"none", "loading", "open"}]

ASSUME NullAssumption ==
  NULL \notin LoginIds \cup session_data \cup socket_data \cup auth_node \cup map_session_data

VARIABLES
  session,               \* fd -> the connection, or NULL
  auth_db,               \* account -> its node, or NULL
  pc_db,                 \* account -> its active player, or NULL
  quit_timers,           \* account -> number of pending clif_delayquit timers
  link,                  \* state of the link to the char-server
  other_mapserver_count,
  runflag,
  vendings,              \* SQL: characters whose shop has a row with autotrade = 1
  toChar,                \* packets written in the last step
  unsaved                \* history: characters changed here since last sent

players == <<session, auth_db, pc_db>>
server == <<link, other_mapserver_count, runflag>>
vars == <<players, quit_timers, server, vendings, toChar, unsaved>>

CharPacket ==
  [type : {"reqauth"}, sd : session_data]
    \cup [type : {"save"}, char_id : Chars, final : BOOLEAN]
    \cup [type : {"offline", "change", "charselect"}, char_id : Chars]
    \cup [type : {"users"}, chars : SUBSET Chars]
    \cup [type : {"alloffline"}]

TypeOK ==
  /\ session \in [Fds -> socket_data \cup {NULL}]
  /\ auth_db \in [Accounts -> auth_node \cup {NULL}]
  /\ pc_db \in [Accounts -> map_session_data \cup {NULL}]
  /\ quit_timers \in [Accounts -> 0 .. MaxTimers]
  /\ link \in {Down, Up, Ready}
  /\ other_mapserver_count \in 0 .. MaxMapServers
  /\ runflag \in {RUNNING, SHUTDOWN, STOPPING, STOPPED}
  /\ vendings \in SUBSET Chars
  /\ toChar \in SUBSET CharPacket
  /\ unsaved \in SUBSET Chars

NoPlayers ==
  /\ session = [f \in Fds |-> NULL]
  /\ auth_db = [a \in Accounts |-> NULL]
  /\ pc_db = [a \in Accounts |-> NULL]
  /\ quit_timers = [a \in Accounts |-> 0]

Init ==
  /\ NoPlayers
  /\ link = Down /\ other_mapserver_count = 0 /\ runflag = RUNNING
  /\ vendings = {} /\ toChar = {} /\ unsaved = {}

-----------------------------------------------------------------------------
(* Helpers of the handlers. *)

(* chrif_isconnected, by which each packet for the char-server is guarded. *)
Send(packets) == toChar' = IF link = Ready THEN packets ELSE {}

Silent == toChar' = {}

Save(c, final) == [type |-> "save", char_id |-> c, final |-> final]
Packet(type, c) == [type |-> type, char_id |-> c]

(* What remains unsaved when the characters of S are sent. *)
Sent(S) == unsaved' = IF link = Ready THEN unsaved \ S ELSE unsaved

Alive == runflag # STOPPED

AccountOf(f) == Owner[session[f].sd.char_id]

HasData(f) == session[f] # NULL /\ session[f].sd # NULL

(* The session_data of f is that of the active player of its account. *)
IsActive(f) == HasData(f) /\ pc_db[AccountOf(f)] # NULL /\ pc_db[AccountOf(f)].fd = f

(* Sessions after set_eof of those in eofs, with no session_data in cleared. *)
Marked(eofs, cleared) ==
  [f \in Fds |->
     IF session[f] = NULL THEN NULL
     ELSE [sd |-> IF f \in cleared THEN NULL ELSE session[f].sd,
           eof |-> session[f].eof \/ f \in eofs]]

SetEof(f) == session' = Marked({f}, {})

SetNode(a, node) == auth_db' = [auth_db EXCEPT ![a] = node]
SetPlayer(a, entry) == pc_db' = [pc_db EXCEPT ![a] = entry]

HasNode(a, state) == auth_db[a] # NULL /\ auth_db[a].state = state

(* Mutant: the client keeps the session_data that was freed. *)
chrif_auth_delete_KeepData(a) == auth_db' = [auth_db EXCEPT ![a] = NULL] /\ UNCHANGED session

(* Mutant: the node is never found to be in the state asked for. *)
chrif_auth_delete_Never(a) == SetNode(a, auth_db[a]) /\ session' = Marked({}, {})

(* Forget the node and the session_data it owns. *)
chrif_auth_delete(a) ==
  /\ SetNode(a, NULL)
  /\ session' = Marked({}, {auth_db[a].fd})

(* ... after the client was refused. *)
RefuseAndDelete(a) ==
  /\ SetNode(a, NULL)
  /\ session' = Marked({auth_db[a].fd}, {auth_db[a].fd})

(* The nodes after chrif_sd_to_auth, which fails on an account with a node. *)
chrif_sd_to_auth(sd, state, fd) ==
  [a \in Accounts |->
     IF a = Owner[sd.char_id] /\ auth_db[a] = NULL
       THEN [sd |-> sd, state |-> state, fd |-> fd, loaded |-> FALSE]
       ELSE auth_db[a]]

CharsOf(S) == {pc_db[a].sd.char_id : a \in S}
FdsOf(S) == {pc_db[a].fd : a \in S}

(* The nodes after chrif_auth_logout of the players of S. *)
chrif_auth_logout(S) ==
  [a \in Accounts |->
     IF a \in S /\ auth_db[a] = NULL
       THEN [sd |-> pc_db[a].sd, state |-> "ST_LOGOUT", fd |-> 0, loaded |-> FALSE]
       ELSE auth_db[a]]

(* The players of S leave: each becomes a node that waits for the char-    *)
(* server's ack, and is sent for the last time.  The caller clears the     *)
(* session_data of FdsOf(S).                                               *)
map_quit(S) ==
  /\ auth_db' = chrif_auth_logout(S)
  /\ pc_db' = [a \in Accounts |-> IF a \in S THEN NULL ELSE pc_db[a]]
  /\ Send({Save(c, TRUE) : c \in CharsOf(S)})
  /\ Sent(CharsOf(S))

(* vending_closevending, buyingstore_close: the row goes with an open shop. *)
CloseShop(a) ==
  vendings' = IF pc_db[a].autotrade = "open" THEN vendings \ {pc_db[a].sd.char_id} ELSE vendings

(* runflag after chrif_check_shutdown, given auth_db and runflag. *)
chrif_check_shutdown(db, flag) ==
  IF flag = SHUTDOWN /\ \A a \in Accounts : db[a] = NULL THEN STOPPING ELSE flag

-----------------------------------------------------------------------------
(* The clients. *)

(* Mutant: an account that plays may log in. *)
MayConnect_Playing(a, c) ==
  /\ runflag = RUNNING
  /\ auth_db[a] # NULL => auth_db[a].sd.char_id = c /\ auth_db[a].state = "ST_LOGIN"

(* An existing node is valid only if it is for this login. *)
MayConnect(a, c) ==
  /\ runflag = RUNNING
  /\ pc_db[a] = NULL
  /\ auth_db[a] # NULL => auth_db[a].sd.char_id = c /\ auth_db[a].state = "ST_LOGIN"

(* Whether chrif_authreq asks the char-server; otherwise it drops f. *)
MayAsk(a) == auth_db[a] = NULL /\ link = Ready

(* A new connection, or one whose session_data is gone, asks to enter:     *)
(* clif_parse_WantToConnection, then chrif_authreq.                        *)
WantToConnection(f, c, l) ==
  LET a == Owner[c]
      sd == [char_id |-> c, lid |-> l]
      asks == MayConnect(a, c) /\ MayAsk(a)
  IN /\ Alive
     /\ session[f] # NULL => session[f].sd = NULL /\ ~session[f].eof
     /\ session' = [session EXCEPT ![f] =
                      [sd |-> IF MayConnect(a, c) THEN sd ELSE NULL, eof |-> ~asks]]
     /\ auth_db' = IF asks THEN chrif_sd_to_auth(sd, "ST_LOGIN", f) ELSE auth_db
     /\ toChar' = IF asks THEN {[type |-> "reqauth", sd |-> sd]} ELSE {}
     /\ UNCHANGED <<pc_db, quit_timers, server, vendings, unsaved>>

(* The connection breaks, or clif_parse_QuitGame. *)
ClientGone(f) ==
  /\ Alive /\ session[f] # NULL /\ ~session[f].eof
  /\ SetEof(f) /\ Silent
  /\ UNCHANGED <<auth_db, pc_db, quit_timers, server, vendings, unsaved>>

Closed(f) == session' = [session EXCEPT ![f] = NULL]

(* clif_parse on a session at eof: no session_data. *)
CloseUnknown(f) ==
  /\ Alive /\ session[f] # NULL /\ session[f].eof /\ session[f].sd = NULL
  /\ Closed(f) /\ Silent
  /\ UNCHANGED <<auth_db, pc_db, quit_timers, server, vendings, unsaved>>

(* ... an @autotrade player stays without a session. *)
CloseVendor(f) ==
  /\ Alive /\ IsActive(f) /\ session[f].eof
  /\ pc_db[AccountOf(f)].autotrade # "none"
  /\ Closed(f) /\ Silent
  /\ pc_db' = [pc_db EXCEPT ![AccountOf(f)].fd = 0]
  /\ UNCHANGED <<auth_db, quit_timers, server, vendings, unsaved>>

(* ... clif_quitsave: the player may log out. *)
CloseAndQuit(f) ==
  /\ Alive /\ IsActive(f) /\ session[f].eof
  /\ pc_db[AccountOf(f)].autotrade = "none"
  /\ Closed(f)
  /\ map_quit({AccountOf(f)})
  /\ UNCHANGED <<quit_timers, server, vendings>>

(* Mutant: no timer will end the player. *)
StayInCombat_NoTimer(a) ==
  pc_db' = [pc_db EXCEPT ![a].fd = 0] /\ UNCHANGED quit_timers

(* Mutant: two timers are started. *)
StayInCombat_TwoTimers(a) ==
  /\ pc_db' = [pc_db EXCEPT ![a].fd = 0]
  /\ quit_timers' = [quit_timers EXCEPT ![a] = @ + 2]

StayInCombat(a) ==
  /\ pc_db' = [pc_db EXCEPT ![a].fd = 0]
  /\ quit_timers' = [quit_timers EXCEPT ![a] = @ + 1]

(* ... clif_quitsave: prevent_logout keeps the player for ten seconds. *)
CloseInCombat(f) ==
  /\ Alive /\ IsActive(f) /\ session[f].eof
  /\ pc_db[AccountOf(f)].autotrade = "none"
  /\ quit_timers[AccountOf(f)] < MaxTimers
  /\ Closed(f) /\ Silent
  /\ StayInCombat(AccountOf(f))
  /\ UNCHANGED <<auth_db, server, vendings, unsaved>>

(* Mutant: closing a session leaves its node. *)
ForgottenOnClose_None(a, c) == FALSE

(* map_quit of an inactive player: the node of its character goes, except  *)
(* when logging out, even if another session asked for it.                 *)
ForgottenOnClose(a, c) ==
  auth_db[a] # NULL /\ auth_db[a].sd.char_id = c /\ auth_db[a].state # "ST_LOGOUT"

(* ... during login, logout or a change of map-server. *)
CloseInactive(f) ==
  LET a == AccountOf(f)
  IN /\ Alive /\ HasData(f) /\ ~IsActive(f) /\ session[f].eof
     /\ IF ForgottenOnClose(a, session[f].sd.char_id)
          THEN /\ SetNode(a, NULL)
               /\ session' = [Marked({}, {auth_db[a].fd}) EXCEPT ![f] = NULL]
          ELSE Closed(f) /\ UNCHANGED auth_db
     /\ Silent
     /\ UNCHANGED <<pc_db, quit_timers, server, vendings, unsaved>>

(* clif_delayquit *)
DelayQuit(a) ==
  /\ Alive /\ quit_timers[a] > 0
  /\ quit_timers' = [quit_timers EXCEPT ![a] = @ - 1]
  /\ IF pc_db[a] # NULL /\ pc_db[a].fd = 0
       THEN map_quit({a})
       ELSE Silent /\ UNCHANGED <<auth_db, pc_db, unsaved>>
  /\ UNCHANGED <<session, server, vendings>>

-----------------------------------------------------------------------------
(* The active players. *)

(* A player's data changes. *)
Play(a) ==
  /\ Alive /\ pc_db[a] # NULL
  /\ unsaved' = unsaved \cup {pc_db[a].sd.char_id}
  /\ Silent
  /\ UNCHANGED <<players, quit_timers, server, vendings>>

(* pc_autosave and the other callers of chrif_save(sd, 0). *)
Autosave(a) ==
  /\ Alive /\ pc_db[a] # NULL
  /\ Send({Save(pc_db[a].sd.char_id, FALSE)})
  /\ Sent({pc_db[a].sd.char_id})
  /\ UNCHANGED <<players, quit_timers, server, vendings>>

(* A packet of the client is parsed. *)
Playing(a) ==
  Alive /\ pc_db[a] # NULL /\ pc_db[a].fd \in Fds /\ ~session[pc_db[a].fd].eof

(* chrif_charselectreq; the client leaves when it is answered. *)
CharSelectReq(a) ==
  /\ Playing(a)
  /\ Send({Packet("charselect", pc_db[a].sd.char_id)})
  /\ UNCHANGED <<players, quit_timers, server, vendings, unsaved>>

(* @autotrade of a player whose shop is open. *)
Autotrade(a) ==
  /\ Playing(a) /\ pc_db[a].autotrade = "none"
  /\ pc_db' = [pc_db EXCEPT ![a].autotrade = "open"]
  /\ vendings' = vendings \cup {pc_db[a].sd.char_id}
  /\ SetEof(pc_db[a].fd)
  /\ Send({Save(pc_db[a].sd.char_id, FALSE)})
  /\ Sent({pc_db[a].sd.char_id})
  /\ UNCHANGED <<auth_db, quit_timers, server>>

(* pc_autotrade_timer, vending_reopen: a restored shop opens. *)
VendorReopen(a) ==
  /\ Alive /\ pc_db[a] # NULL /\ pc_db[a].autotrade = "loading"
  /\ pc_db' = [pc_db EXCEPT ![a].autotrade = "open"]
  /\ vendings' = vendings \cup {pc_db[a].sd.char_id}
  /\ Send({Save(pc_db[a].sd.char_id, FALSE)})
  /\ Sent({pc_db[a].sd.char_id})
  /\ UNCHANGED <<session, auth_db, quit_timers, server>>

(* ... or its wares are gone. *)
VendorFails(a) ==
  /\ Alive /\ pc_db[a] # NULL /\ pc_db[a].autotrade = "loading"
  /\ map_quit({a})
  /\ UNCHANGED <<session, quit_timers, server, vendings>>

(* A shop is sold out, or its time is over. *)
VendorDone(a) ==
  /\ Alive /\ pc_db[a] # NULL /\ pc_db[a].autotrade = "open"
  /\ CloseShop(a)
  /\ session' = Marked({}, {pc_db[a].fd})
  /\ map_quit({a})
  /\ UNCHANGED <<quit_timers, server>>

(* clif_GM_kick *)
Kick(a) ==
  /\ Alive /\ pc_db[a] # NULL
  /\ IF pc_db[a].fd # 0
       THEN /\ SetEof(pc_db[a].fd) /\ Silent
            /\ UNCHANGED <<auth_db, pc_db, vendings, unsaved>>
       ELSE CloseShop(a) /\ map_quit({a}) /\ UNCHANGED session
  /\ UNCHANGED <<quit_timers, server>>

(* pc_setpos to a map of another map-server: chrif_save(sd, 2), then       *)
(* chrif_changemapserver.  The node keeps the session.                     *)
ChangeMapServer(a) ==
  /\ Alive /\ pc_db[a] # NULL /\ pc_db[a].autotrade # "open"
  /\ auth_db[a] = NULL /\ other_mapserver_count > 0
  /\ auth_db' = chrif_sd_to_auth(pc_db[a].sd, "ST_MAPCHANGE", pc_db[a].fd)
  /\ SetPlayer(a, NULL)
  /\ Send({Save(pc_db[a].sd.char_id, FALSE), Packet("change", pc_db[a].sd.char_id)})
  /\ Sent({pc_db[a].sd.char_id})
  /\ UNCHANGED <<session, quit_timers, server, vendings>>

-----------------------------------------------------------------------------
(* The char-server's packets. *)

Accepted(a, c, l) ==
  runflag = RUNNING /\ auth_db[a].sd = [char_id |-> c, lid |-> l]

(* chrif_authok; fits is whether pc_authok succeeds.  A node of another    *)
(* character is reported offline, its client is dropped, and it stays.     *)
AuthOk(a, c, l, fits) ==
  /\ Alive /\ link = Ready
  /\ pc_db[a] = NULL /\ HasNode(a, "ST_LOGIN")
  /\ IF Accepted(a, c, l) /\ fits
       THEN /\ auth_db' = [auth_db EXCEPT ![a].loaded = TRUE]
            /\ Silent /\ UNCHANGED session
       ELSE /\ Send({Packet("offline", auth_db[a].sd.char_id)})
            /\ IF auth_db[a].sd.char_id = c
                 THEN RefuseAndDelete(a)
                 ELSE SetEof(auth_db[a].fd) /\ UNCHANGED auth_db
  /\ UNCHANGED <<pc_db, quit_timers, server, vendings, unsaved>>

(* chrif_authfail *)
AuthFail(a, c, l) ==
  /\ Alive /\ link = Ready
  /\ HasNode(a, "ST_LOGIN") /\ auth_db[a].sd = [char_id |-> c, lid |-> l]
  /\ RefuseAndDelete(a)
  /\ Silent
  /\ UNCHANGED <<pc_db, quit_timers, server, vendings, unsaved>>

(* Mutant: the node outlives the login it was made for. *)
chrif_auth_finished_Never(a) == UNCHANGED auth_db

(* The session_data is the player's now. *)
chrif_auth_finished(a) == SetNode(a, NULL)

(* intif_parse_Registers, pc_reg_received: the player becomes active. *)
RegReceived(a) ==
  /\ Alive /\ link = Ready /\ HasNode(a, "ST_LOGIN") /\ auth_db[a].loaded
  /\ SetPlayer(a, [sd |-> auth_db[a].sd, fd |-> auth_db[a].fd,
                   autotrade |-> IF auth_db[a].sd.lid = NULL THEN "loading" ELSE "none"])
  /\ chrif_auth_finished(a)
  /\ Silent
  /\ UNCHANGED <<session, quit_timers, server, vendings, unsaved>>

(* chrif_disconnectplayer on an account that is logging in: the client is  *)
(* left without session_data.                                              *)
DisconnectLogin(a) ==
  /\ Alive /\ link # Down
  /\ pc_db[a] = NULL /\ HasNode(a, "ST_LOGIN")
  /\ chrif_auth_delete(a)
  /\ Silent
  /\ UNCHANGED <<pc_db, quit_timers, server, vendings, unsaved>>

(* Without a connection only a vendor is removed; a player has a timer. *)
DisconnectsAtOnce(a) == pc_db[a].fd = 0 /\ pc_db[a].autotrade # "none"

(* ... on an active player. *)
DisconnectPlayer(a) ==
  /\ Alive /\ link # Down /\ pc_db[a] # NULL
  /\ \/ /\ pc_db[a].fd # 0
        /\ SetEof(pc_db[a].fd) /\ Silent
        /\ UNCHANGED <<auth_db, pc_db, vendings, unsaved>>
     \/ DisconnectsAtOnce(a) /\ CloseShop(a) /\ map_quit({a}) /\ UNCHANGED session
  /\ UNCHANGED <<quit_timers, server>>

(* chrif_ban: the shop's row stays. *)
Ban(a) ==
  /\ Alive /\ link # Down /\ pc_db[a] # NULL
  /\ session' = Marked({pc_db[a].fd}, {pc_db[a].fd})
  /\ map_quit({a})
  /\ UNCHANGED <<quit_timers, server, vendings>>

(* chrif_changemapserverack *)
ChangeAck(a, c, ok) ==
  /\ Alive /\ link = Ready
  /\ HasNode(a, "ST_MAPCHANGE") /\ auth_db[a].sd.char_id = c
  /\ IF ok THEN chrif_auth_delete(a) ELSE RefuseAndDelete(a)
  /\ Silent
  /\ UNCHANGED <<pc_db, quit_timers, server, vendings, unsaved>>

(* chrif_save_ack *)
SaveAck(a, c) ==
  /\ Alive /\ link = Ready
  /\ auth_db' = IF HasNode(a, "ST_LOGOUT") /\ auth_db[a].sd.char_id = c
                  THEN [auth_db EXCEPT ![a] = NULL] ELSE auth_db
  /\ runflag' = chrif_check_shutdown(auth_db', runflag)
  /\ Silent
  /\ UNCHANGED <<session, pc_db, quit_timers, link, other_mapserver_count, vendings, unsaved>>

(* auth_db_cleanup_sub, on a node of more than a minute. *)
Cleanup(a) ==
  /\ Alive /\ link = Ready /\ auth_db[a] # NULL
  /\ IF HasNode(a, "ST_LOGOUT")
       THEN /\ Send({Save(auth_db[a].sd.char_id, TRUE)})
            /\ Sent({auth_db[a].sd.char_id})
            /\ UNCHANGED <<auth_db, session>>
       ELSE /\ Send({Packet("offline", auth_db[a].sd.char_id)})
            /\ chrif_auth_delete(a)
            /\ UNCHANGED unsaved
  /\ UNCHANGED <<pc_db, quit_timers, server, vendings>>

-----------------------------------------------------------------------------
(* The link to the char-server, and the process. *)

(* check_connect_char_server, then chrif_connectack. *)
LinkUp ==
  /\ Alive /\ link = Down
  /\ link' = Up
  /\ Silent
  /\ UNCHANGED <<players, quit_timers, other_mapserver_count, runflag, vendings, unsaved>>

In(state) == {a \in Accounts : HasNode(a, state)}
NodeFds(S) == {auth_db[a].fd : a \in S}
NodeChars(S) == {auth_db[a].sd.char_id : a \in S}

(* The nodes after chrif_reconnect: a login cannot be asked again. *)
chrif_reconnect == [a \in Accounts |-> IF a \in In("ST_LOGIN") THEN NULL ELSE auth_db[a]]

(* Mutant: final saves are not sent again. *)
ResentSaves_None == {}

ResentSaves == NodeChars(In("ST_LOGOUT"))

(* Change requests sent again, if another map-server is known. *)
ResentChanges == IF other_mapserver_count > 0 THEN NodeChars(In("ST_MAPCHANGE")) ELSE {}

(* Clients whose login or change of map-server cannot go on. *)
Unreachable ==
  NodeFds(In("ST_LOGIN"))
    \cup IF other_mapserver_count > 0 THEN {} ELSE NodeFds(In("ST_MAPCHANGE"))

(* The shops do_init_vending_autotrade restores: one for each account      *)
(* without a node, for chrif_authreq refuses the others.  It does not ask  *)
(* whether the account's player is active.                                 *)
Restorable(V) ==
  LET free == {c \in vendings : chrif_reconnect[Owner[c]] = NULL}
  IN /\ V \subseteq free
     /\ \A c, d \in V : Owner[c] = Owner[d] => c = d
     /\ \A c \in free : \E d \in V : Owner[d] = Owner[c]

Vendor(c) == [char_id |-> c, lid |-> NULL]

VendorNode(c) == [sd |-> Vendor(c), state |-> "ST_LOGIN", fd |-> 0, loaded |-> FALSE]

Restored(V) ==
  [a \in Accounts |->
     IF \E c \in V : Owner[c] = a THEN VendorNode(CHOOSE c \in V : Owner[c] = a)
                                  ELSE chrif_reconnect[a]]

(* chrif_sendmapack, chrif_on_ready *)
OnReady ==
  /\ Alive /\ link = Up
  /\ link' = Ready
  /\ runflag' = chrif_check_shutdown(auth_db, runflag)
  /\ session' = Marked(Unreachable, NodeFds(In("ST_LOGIN")))
  /\ unsaved' = unsaved \ ResentSaves
  /\ \E V \in SUBSET vendings :
       /\ IF FeatureAutotrade THEN Restorable(V) ELSE V = {}
       /\ auth_db' = Restored(V)
       /\ toChar' =
            {[type |-> "users", chars |-> CharsOf({a \in Accounts : pc_db[a] # NULL})]}
              \cup {Packet("offline", c) : c \in NodeChars(In("ST_LOGIN"))}
              \cup {Save(c, TRUE) : c \in ResentSaves}
              \cup {Packet("change", c) : c \in ResentChanges}
              \cup {[type |-> "reqauth", sd |-> Vendor(c)] : c \in V}
  /\ vendings' = {}
  /\ UNCHANGED <<pc_db, quit_timers, other_mapserver_count>>

(* chrif_on_disconnect *)
LinkLost ==
  /\ Alive /\ link # Down
  /\ link' = Down /\ other_mapserver_count' = 0
  /\ Silent
  /\ UNCHANGED <<players, quit_timers, runflag, vendings, unsaved>>

(* chrif_recvmap, chrif_removemap *)
MapsReceived ==
  /\ Alive /\ link # Down /\ other_mapserver_count < MaxMapServers
  /\ other_mapserver_count' = other_mapserver_count + 1
  /\ Silent
  /\ UNCHANGED <<players, quit_timers, link, runflag, vendings, unsaved>>

MapsRemoved ==
  /\ Alive /\ link # Down /\ other_mapserver_count > 0
  /\ other_mapserver_count' = other_mapserver_count - 1
  /\ Silent
  /\ UNCHANGED <<players, quit_timers, link, runflag, vendings, unsaved>>

(* do_shutdown *)
DoShutdown ==
  LET detached == {a \in Accounts : pc_db[a] # NULL /\ pc_db[a].fd = 0}
  IN /\ runflag = RUNNING
     /\ session' = Marked({pc_db[a].fd : a \in {b \in Accounts : pc_db[b] # NULL}}, {})
     /\ map_quit(detached)
     /\ runflag' = chrif_check_shutdown(auth_db', SHUTDOWN)
     /\ UNCHANGED <<quit_timers, link, other_mapserver_count, vendings>>

Ended == link' = Down /\ other_mapserver_count' = 0 /\ runflag' = STOPPED

Emptied ==
  /\ session' = [f \in Fds |-> NULL]
  /\ auth_db' = [a \in Accounts |-> NULL]
  /\ pc_db' = [a \in Accounts |-> NULL]
  /\ quit_timers' = [a \in Accounts |-> 0]

(* The core loop ends; do_final *)
Stop ==
  LET leaving == CharsOf({a \in Accounts : pc_db[a] # NULL})
  IN /\ runflag = STOPPING
     /\ Emptied /\ Ended
     /\ Send({Save(c, TRUE) : c \in leaving} \cup {[type |-> "alloffline"]})
     /\ Sent(leaving)
     /\ UNCHANGED vendings

(* The process dies; nothing is claimed of what it had not sent. *)
Crash ==
  /\ Alive
  /\ Emptied /\ Ended
  /\ Silent /\ unsaved' = {}
  /\ UNCHANGED vendings

(* A new process. *)
Start ==
  /\ runflag = STOPPED
  /\ runflag' = RUNNING
  /\ Silent /\ unsaved' = {}
  /\ UNCHANGED <<players, quit_timers, link, other_mapserver_count, vendings>>

-----------------------------------------------------------------------------
CloseSession(f) ==
  CloseUnknown(f) \/ CloseVendor(f) \/ CloseAndQuit(f) \/ CloseInCombat(f) \/ CloseInactive(f)

ClientStep ==
  \E f \in Fds :
    \/ \E c \in Chars, l \in LoginIds : WantToConnection(f, c, l)
    \/ ClientGone(f)
    \/ CloseSession(f)

PlayerStep ==
  \E a \in Accounts :
    \/ DelayQuit(a)
    \/ Play(a) \/ Autosave(a) \/ CharSelectReq(a) \/ ChangeMapServer(a) \/ Kick(a)
    \/ Autotrade(a) \/ VendorReopen(a) \/ VendorFails(a) \/ VendorDone(a)

CharServerStep ==
  \E a \in Accounts :
    \/ \E c \in {d \in Chars : Owner[d] = a} :
         \/ \E l \in LoginIds \cup {NULL} :
              (\E fits \in BOOLEAN : AuthOk(a, c, l, fits)) \/ AuthFail(a, c, l)
         \/ \E ok \in BOOLEAN : ChangeAck(a, c, ok)
         \/ SaveAck(a, c)
    \/ RegReceived(a) \/ DisconnectLogin(a) \/ DisconnectPlayer(a) \/ Ban(a) \/ Cleanup(a)

LinkStep == LinkUp \/ OnReady \/ LinkLost \/ MapsReceived \/ MapsRemoved

ProcessStep == DoShutdown \/ Stop \/ Crash \/ Start

Next == ClientStep \/ PlayerStep \/ CharServerStep \/ LinkStep \/ ProcessStep

Spec == Init /\ [][Next]_vars

(* The core loop runs do_timer and parses every session in each cycle. *)
Fairness ==
  /\ \A f \in Fds : WF_vars(CloseSession(f))
  /\ \A a \in Accounts : WF_vars(DelayQuit(a)) /\ WF_vars(Cleanup(a))
  /\ WF_vars(LinkUp) /\ WF_vars(OnReady) /\ WF_vars(Stop)

FairSpec == Spec /\ Fairness

-----------------------------------------------------------------------------
(* Correctness. *)

(* The session_data sd is the one that session f points to. *)
PointsTo(f, sd) == f \in Fds => session[f] # NULL /\ session[f].sd = sd

(* A session_data is freed by deleting a node, by the char-server's ack of *)
(* a final save and by closing its session, and a player, a node and a     *)
(* session may all point to it: what a player or a node holds is still its *)
(* session's, a quitting one has let go of it, and no two of them share a  *)
(* session (chrif_auth_delete, chrif_auth_logout, chrif_auth_finished).    *)
DataOwned ==
  \A a \in Accounts :
    /\ pc_db[a] # NULL => PointsTo(pc_db[a].fd, pc_db[a].sd)
    /\ auth_db[a] # NULL => PointsTo(auth_db[a].fd, auth_db[a].sd)
    /\ HasNode(a, "ST_LOGOUT") => auth_db[a].fd = 0
    /\ pc_db[a] # NULL /\ auth_db[a] # NULL /\ pc_db[a].fd # 0
         => auth_db[a].fd # pc_db[a].fd

(* An account has one client that is not being dropped: not one logging in *)
(* and one playing, nor two logging in (clif_parse_WantToConnection,       *)
(* chrif_authreq).                                                         *)
OneClientPerAccount ==
  \A f, g \in Fds :
    HasData(f) /\ HasData(g) /\ ~session[f].eof /\ ~session[g].eof
      /\ AccountOf(f) = AccountOf(g) => f = g

(* While shops are not restored, an account does not play while a node of  *)
(* it waits: its player could neither quit nor change map-server, for      *)
(* chrif_sd_to_auth fails on an account that has a node.                   *)
NodeOrPlayer == \A a \in Accounts : ~(pc_db[a] # NULL /\ auth_db[a] # NULL)

(* A player without a connection leaves some day: it has a shop, or a      *)
(* clif_delayquit timer is pending (chrif_disconnectplayer counts on it).  *)
GhostTimed ==
  \A a \in Accounts :
    pc_db[a] # NULL /\ pc_db[a].fd = 0 /\ pc_db[a].autotrade = "none" => quit_timers[a] > 0

(* While the process lives, the node of a quitting character goes only     *)
(* when everything of it was sent to the char-server: losing the link,     *)
(* late acks and clean-ups never drop it (chrif_save_ack, chrif_reconnect, *)
(* auth_db_cleanup_sub, map_quit of a session of the same character).      *)
QuitterKept ==
  [][\A a \in Accounts :
       HasNode(a, "ST_LOGOUT") /\ auth_db'[a] # auth_db[a] /\ runflag' # STOPPED
         => auth_db[a].sd.char_id \notin unsaved']_vars

(* chrif_char_offline is sent only of an account that does not play here:  *)
(* the char-server would let it in a second time.                          *)
OfflineIsTrue ==
  [][\A c \in Chars : Packet("offline", c) \in toChar' => pc_db'[Owner[c]] = NULL]_vars

(* A player whose client left in combat is gone in the end.                *)
GhostLeaves ==
  \A a \in Accounts :
    (pc_db[a] # NULL /\ pc_db[a].fd = 0 /\ pc_db[a].autotrade = "none")
      ~> ~(pc_db[a] # NULL /\ pc_db[a].fd = 0 /\ pc_db[a].autotrade = "none")

(* A node of a login or a move that is never answered is dropped, if the   *)
(* link lasts (auth_db_cleanup).                                           *)
StaleNodeGone ==
  \A a \in Accounts :
    (HasNode(a, "ST_LOGIN") \/ HasNode(a, "ST_MAPCHANGE"))
      ~> (~HasNode(a, "ST_LOGIN") /\ ~HasNode(a, "ST_MAPCHANGE")) \/ link # Ready

-----------------------------------------------------------------------------
(* What the source says of itself, and does not do. *)

(* "Character is saved on reconnect." (chrif_save) *)
SavedOnReconnect ==
  [][link = Up /\ link' = Ready =>
       \A a \in Accounts :
         HasNode(a, "ST_LOGOUT") \/ HasNode(a, "ST_MAPCHANGE")
           => auth_db[a].sd.char_id \notin unsaved']_vars

(* "If all the conditions are met, it stops the core loop." (the comment   *)
(* of chrif_check_shutdown): told to stop, with no character left and the  *)
(* char-server there, the server stops.                                    *)
ShutdownCompletes ==
  (/\ runflag = SHUTDOWN /\ link = Ready
   /\ \A a \in Accounts : auth_db[a] = NULL /\ pc_db[a] = NULL)
    ~> (runflag # SHUTDOWN \/ link # Ready)
=============================================================================
