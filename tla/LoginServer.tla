---------------------------- MODULE LoginServer ----------------------------
(***************************************************************************)
(* The login-server's session tables (src/login/login.c, loginclif.c and   *)
(* loginchrif.c): online_db says where each account is, auth_db holds the  *)
(* one-use authentication nodes that a client cashes in at a char-server,  *)
(* and one waiting_disconnect timer per online entry bounds how long a     *)
(* stale entry may block the account.                                      *)
(*                                                                         *)
(* The login-server is a single thread: a handler runs to completion, so   *)
(* each action below is one packet handler or one timer callback.  The     *)
(* char-servers are the environment here: any linked char-server may send  *)
(* any request about any account at any time.  Packets the handler writes  *)
(* are the value of "sent" after the step, one slot per char-server.       *)
(*                                                                         *)
(* Abstractions: a login_id1/login_id2/sex triple drawn by login_mmo_auth  *)
(* is one member of LoginIds, never drawn twice; the account checks of     *)
(* login_mmo_auth (password, ban, expiry) only decide whether an attempt   *)
(* reaches logclif_auth_ok, so a refused attempt is a stuttering step; a   *)
(* timer id may be reused as soon as the timer is deleted.                 *)
(***************************************************************************)
EXTENDS Integers

CONSTANTS
  Accounts,     \* account ids
  CharServers,  \* indices of the ch_server array
  LoginIds,     \* values login_mmo_auth may draw
  TimerIds,     \* indices of timer_data
  NULL          \* no entry, no node, no packet, no callback

INVALID_TIMER == -1

AUTHED == -1   \* char_server of an account that has not reached a char-server
LOST   == -2   \* char_server once the link to the account's server is cut

(* One entry of online_db. *)
online_login_data ==
  [char_server : CharServers \cup {AUTHED, LOST},
   waiting_disconnect : TimerIds \cup {INVALID_TIMER}]

(* Packets to a char-server: 0x2734 asks it to kick the account, 0x2713    *)
(* answers an authentication request.                                      *)
Packet ==
  [type : {"kick"}, aid : Accounts]
    \cup [type : {"authok", "authfail"}, aid : Accounts, lid : LoginIds]

ASSUME IndexAssumption == CharServers \subseteq Nat /\ TimerIds \subseteq Nat

ASSUME NullAssumption ==
  /\ NULL \notin online_login_data
  /\ NULL \notin Packet
  /\ NULL \notin Accounts
  /\ NULL \notin LoginIds

VARIABLES
  online_db,    \* account -> its online entry, or NULL
  auth_db,      \* account -> the login id of its auth node, or NULL
  timer_data,   \* timer -> the account its pending callback is for, or NULL
  ch_server,    \* the char-servers whose link is up
  stalled,      \* char-server -> account of the packet its FIFO is stuck on
  sent,         \* char-server -> packet written in the last step, or NULL
  issued,       \* history: login ids handed to clients so far
  newest,       \* history: account -> login id of its latest login, or NULL
  grants        \* history: login id -> number of requests it satisfied

tables == <<online_db, auth_db, timer_data>>
history == <<issued, newest, grants>>
vars == <<tables, ch_server, stalled, sent, history>>

TypeOK ==
  /\ online_db \in [Accounts -> online_login_data \cup {NULL}]
  /\ auth_db \in [Accounts -> LoginIds \cup {NULL}]
  /\ timer_data \in [TimerIds -> Accounts \cup {NULL}]
  /\ ch_server \in SUBSET CharServers
  /\ stalled \in [CharServers -> Accounts \cup {NULL}]
  /\ sent \in [CharServers -> Packet \cup {NULL}]
  /\ issued \in SUBSET LoginIds
  /\ newest \in [Accounts -> LoginIds \cup {NULL}]
  /\ grants \in [LoginIds -> Nat]

Init ==
  /\ online_db = [a \in Accounts |-> NULL]
  /\ auth_db = [a \in Accounts |-> NULL]
  /\ timer_data = [t \in TimerIds |-> NULL]
  /\ ch_server = {}
  /\ stalled = [c \in CharServers |-> NULL]
  /\ sent = [c \in CharServers |-> NULL]
  /\ issued = {}
  /\ newest = [a \in Accounts |-> NULL]
  /\ grants = [l \in LoginIds |-> 0]

-----------------------------------------------------------------------------
(* Helpers of the handlers. *)

Quiet == sent' = [c \in CharServers |-> NULL]

Reply(c, p) == sent' = [d \in CharServers |-> IF d = c THEN p ELSE NULL]

(* logchrif_sendallwos(-1, ...): every linked char-server gets the packet. *)
SendAll(p) == sent' = [d \in CharServers |-> IF d \in ch_server THEN p ELSE NULL]

FreeTimer(t) == timer_data[t] = NULL

Timer(a) == IF online_db[a] = NULL THEN INVALID_TIMER
                                   ELSE online_db[a].waiting_disconnect

(* timer_data after delete_timer of the waiting_disconnect of each account *)
(* in S.                                                                   *)
delete_timer(S) ==
  [t \in TimerIds |-> IF \E a \in S : Timer(a) = t THEN NULL ELSE timer_data[t]]

(* Mutant: the timer field is cleared to zero instead of INVALID_TIMER. *)
login_add_online_user_NoReset(c, a) ==
  /\ online_db' = [online_db EXCEPT
       ![a] = [char_server |-> c, waiting_disconnect |-> NULL]]
  /\ timer_data' = delete_timer({a})

(* Mark account a as being on server c, cancelling its pending timer. *)
login_add_online_user(c, a) ==
  /\ online_db' = [online_db EXCEPT
       ![a] = [char_server |-> c, waiting_disconnect |-> INVALID_TIMER]]
  /\ timer_data' = delete_timer({a})

(* Mutant: the pending timer survives its entry. *)
login_remove_online_user_KeepTimer(S) ==
  /\ online_db' = [a \in Accounts |-> IF a \in S THEN NULL ELSE online_db[a]]
  /\ UNCHANGED timer_data

(* Drop every account of S from online_db, with its pending timer.  The    *)
(* auth node stays.                                                        *)
login_remove_online_user(S) ==
  /\ online_db' = [a \in Accounts |-> IF a \in S THEN NULL ELSE online_db[a]]
  /\ timer_data' = delete_timer(S)

(* The entry of a once the accounts of server c are marked disconnected. *)
login_online_db_setoffline(c, a) ==
  IF online_db[a] # NULL /\ online_db[a].char_server = c
    THEN [online_db[a] EXCEPT !.char_server = LOST]
    ELSE online_db[a]

(* The handlers of a link run only while the link is up and its FIFO moves. *)
Linked(c) == c \in ch_server /\ stalled[c] = NULL

-----------------------------------------------------------------------------
(* Clients. *)

(* Mutant: every refused attempt starts the wait anew. *)
AuthAlreadyOnline_Rearm(a) ==
  /\ ch_server # {}
  /\ online_db[a] # NULL
  /\ online_db[a].char_server > -1
  /\ SendAll([type |-> "kick", aid |-> a])
  /\ \E t \in TimerIds :
       /\ FreeTimer(t)
       /\ online_db' = [online_db EXCEPT ![a].waiting_disconnect = t]
       /\ timer_data' = [delete_timer({a}) EXCEPT ![t] = a]
  /\ UNCHANGED <<auth_db, ch_server, stalled, history>>

(* logclif_auth_ok: the account is on a char-server.  All char-servers are *)
(* asked to kick it, a timer bounds the wait, the client is refused.       *)
AuthAlreadyOnline(a) ==
  /\ ch_server # {}
  /\ online_db[a] # NULL
  /\ online_db[a].char_server > -1
  /\ SendAll([type |-> "kick", aid |-> a])
  /\ IF online_db[a].waiting_disconnect = INVALID_TIMER
       THEN \E t \in TimerIds :
              /\ FreeTimer(t)
              /\ online_db' = [online_db EXCEPT ![a].waiting_disconnect = t]
              /\ timer_data' = [timer_data EXCEPT ![t] = a]
       ELSE UNCHANGED <<online_db, timer_data>>
  /\ UNCHANGED <<auth_db, ch_server, stalled, history>>

(* Mutant: the timer is set first and login_add_online_user deletes it. *)
AuthOk_TimerFirst(a, l) ==
  /\ ch_server # {}
  /\ online_db[a] # NULL => online_db[a].char_server < 0
  /\ l \notin issued
  /\ auth_db' = [auth_db EXCEPT ![a] = l]
  /\ login_add_online_user(AUTHED, a)
  /\ issued' = issued \cup {l}
  /\ newest' = [newest EXCEPT ![a] = l]
  /\ Quiet
  /\ UNCHANGED <<ch_server, stalled, grants>>

(* Mutant: an existing auth node is kept (idb_ensure for idb_put). *)
AuthOk_KeepNode(a, l) ==
  /\ ch_server # {}
  /\ online_db[a] # NULL => online_db[a].char_server < 0
  /\ l \notin issued
  /\ auth_db' = [auth_db EXCEPT ![a] = IF @ = NULL THEN l ELSE @]
  /\ \E t \in TimerIds :
       /\ FreeTimer(t)
       /\ online_db' = [online_db EXCEPT
            ![a] = [char_server |-> AUTHED, waiting_disconnect |-> t]]
       /\ timer_data' = [delete_timer({a}) EXCEPT ![t] = a]
  /\ issued' = issued \cup {l}
  /\ newest' = [newest EXCEPT ![a] = l]
  /\ Quiet
  /\ UNCHANGED <<ch_server, stalled, grants>>

(* logclif_auth_ok: the account is free, or authenticated and never seen   *)
(* at a char-server (its earlier session is wiped), or its char-server is  *)
(* gone.  A fresh node replaces any older one and its deletion is          *)
(* scheduled.                                                              *)
AuthOk(a, l) ==
  /\ ch_server # {}
  /\ online_db[a] # NULL => online_db[a].char_server < 0
  /\ l \notin issued
  /\ auth_db' = [auth_db EXCEPT ![a] = l]
  /\ \E t \in TimerIds :
       /\ FreeTimer(t)
       /\ online_db' = [online_db EXCEPT
            ![a] = [char_server |-> AUTHED, waiting_disconnect |-> t]]
       /\ timer_data' = [delete_timer({a}) EXCEPT ![t] = a]
  /\ issued' = issued \cup {l}
  /\ newest' = [newest EXCEPT ![a] = l]
  /\ Quiet
  /\ UNCHANGED <<ch_server, stalled, grants>>

(* logclif_parse_reqcharconnec: a char-server takes its free slot. *)
CharConnect(c) ==
  /\ c \notin ch_server
  /\ ch_server' = ch_server \cup {c}
  /\ Quiet
  /\ UNCHANGED <<tables, stalled, history>>

-----------------------------------------------------------------------------
(* Requests of a linked char-server. *)

(* Mutant: the node is left in auth_db. *)
ReqAuthOk_KeepNode(c, a, l) ==
  /\ Linked(c)
  /\ auth_db[a] = l
  /\ Reply(c, [type |-> "authok", aid |-> a, lid |-> l])
  /\ grants' = [grants EXCEPT ![l] = @ + 1]
  /\ UNCHANGED <<tables, ch_server, stalled, issued, newest>>

(* logchrif_parse_reqauth: the node matches; it is used up. *)
ReqAuthOk(c, a, l) ==
  /\ Linked(c)
  /\ auth_db[a] = l
  /\ Reply(c, [type |-> "authok", aid |-> a, lid |-> l])
  /\ auth_db' = [auth_db EXCEPT ![a] = NULL]
  /\ grants' = [grants EXCEPT ![l] = @ + 1]
  /\ UNCHANGED <<online_db, timer_data, ch_server, stalled, issued, newest>>

(* logchrif_parse_reqauth: no node, or one of another login. *)
ReqAuthFail(c, a, l) ==
  /\ Linked(c)
  /\ auth_db[a] # l
  /\ Reply(c, [type |-> "authfail", aid |-> a, lid |-> l])
  /\ UNCHANGED <<tables, ch_server, stalled, history>>

(* logchrif_parse_setacconline *)
SetAccOnline(c, a) ==
  /\ Linked(c)
  /\ login_add_online_user(c, a)
  /\ Quiet
  /\ UNCHANGED <<auth_db, ch_server, stalled, history>>

(* logchrif_parse_setaccoffline: whichever server the entry belongs to. *)
SetAccOffline(c, a) ==
  /\ Linked(c)
  /\ login_remove_online_user({a})
  /\ Quiet
  /\ UNCHANGED <<auth_db, ch_server, stalled, history>>

(* logchrif_parse_updonlinedb, S the account ids the handler reads. *)
UpdOnlineDb(c, S) ==
  /\ Linked(c)
  /\ online_db' = [a \in Accounts |->
       IF a \in S THEN [char_server |-> c, waiting_disconnect |-> INVALID_TIMER]
                  ELSE login_online_db_setoffline(c, a)]
  /\ timer_data' = delete_timer(S)
  /\ Quiet
  /\ UNCHANGED <<auth_db, ch_server, stalled, history>>

(* logchrif_parse_setalloffline *)
SetAllOffline(c) ==
  /\ Linked(c)
  /\ online_db' = [a \in Accounts |-> login_online_db_setoffline(c, a)]
  /\ Quiet
  /\ UNCHANGED <<auth_db, timer_data, ch_server, stalled, history>>

(* logchrif_parse_pincode_authfail: the account is dropped, if it is       *)
(* online.  If it is not, the handler returns before skipping the packet,  *)
(* which stays at the head of the link's FIFO.                             *)
PincodeAuthFail(c, a) ==
  /\ c \in ch_server
  /\ stalled[c] \in {NULL, a}
  /\ IF online_db[a] # NULL
       THEN /\ login_remove_online_user({a})
            /\ stalled' = [stalled EXCEPT ![c] = NULL]
       ELSE /\ stalled' = [stalled EXCEPT ![c] = a]
            /\ UNCHANGED <<online_db, timer_data>>
  /\ Quiet
  /\ UNCHANGED <<auth_db, ch_server, history>>

(* Mutant: logchrif_server_reset forgets the server's accounts. *)
CharDisconnect_NoReset(c) ==
  /\ c \in ch_server
  /\ ch_server' = ch_server \ {c}
  /\ stalled' = [stalled EXCEPT ![c] = NULL]
  /\ Quiet
  /\ UNCHANGED <<tables, history>>

(* logchrif_parse sees the end of the link: logchrif_on_disconnect. *)
CharDisconnect(c) ==
  /\ c \in ch_server
  /\ ch_server' = ch_server \ {c}
  /\ online_db' = [a \in Accounts |-> login_online_db_setoffline(c, a)]
  /\ stalled' = [stalled EXCEPT ![c] = NULL]
  /\ Quiet
  /\ UNCHANGED <<auth_db, timer_data, history>>

-----------------------------------------------------------------------------
(* Timers, and the end of the process. *)

(* Mutant: the callback spares an account that is not on a char-server. *)
WaitingDisconnectTimer_SkipAuthed(t) ==
  /\ timer_data[t] # NULL
  /\ LET a == timer_data[t] IN
       IF Timer(a) = t /\ online_db[a].char_server # AUTHED
         THEN /\ online_db' = [online_db EXCEPT ![a] = NULL]
              /\ auth_db' = [auth_db EXCEPT ![a] = NULL]
         ELSE UNCHANGED <<online_db, auth_db>>
  /\ timer_data' = [timer_data EXCEPT ![t] = NULL]
  /\ Quiet
  /\ UNCHANGED <<ch_server, stalled, history>>

(* login_waiting_disconnect_timer: only the entry that still waits for     *)
(* this very timer is dropped, together with the auth node.                *)
WaitingDisconnectTimer(t) ==
  /\ timer_data[t] # NULL
  /\ LET a == timer_data[t] IN
       IF Timer(a) = t
         THEN /\ online_db' = [online_db EXCEPT ![a] = NULL]
              /\ auth_db' = [auth_db EXCEPT ![a] = NULL]
         ELSE UNCHANGED <<online_db, auth_db>>
  /\ timer_data' = [timer_data EXCEPT ![t] = NULL]
  /\ Quiet
  /\ UNCHANGED <<ch_server, stalled, history>>

(* Mutant: the sweep looks for the wrong marker. *)
OnlineDataCleanup_WrongMark ==
  /\ LET gone == {a \in Accounts : online_db[a] # NULL
                                     /\ online_db[a].char_server = AUTHED}
     IN gone # {} /\ login_remove_online_user(gone)
  /\ Quiet
  /\ UNCHANGED <<auth_db, ch_server, stalled, history>>

(* login_online_data_cleanup: accounts of vanished char-servers go. *)
OnlineDataCleanup ==
  /\ LET gone == {a \in Accounts : online_db[a] # NULL
                                     /\ online_db[a].char_server = LOST}
     IN gone # {} /\ login_remove_online_user(gone)
  /\ Quiet
  /\ UNCHANGED <<auth_db, ch_server, stalled, history>>

(* The process stops or crashes and is started again: nothing is kept. *)
Restart ==
  /\ online_db' = [a \in Accounts |-> NULL]
  /\ auth_db' = [a \in Accounts |-> NULL]
  /\ timer_data' = [t \in TimerIds |-> NULL]
  /\ ch_server' = {}
  /\ stalled' = [c \in CharServers |-> NULL]
  /\ Quiet
  /\ UNCHANGED history

Client == \E a \in Accounts :
  \/ AuthAlreadyOnline(a)
  \/ \E l \in LoginIds : AuthOk(a, l)

CharServerRequest(c) ==
  \/ \E a \in Accounts :
       \/ \E l \in LoginIds : ReqAuthOk(c, a, l) \/ ReqAuthFail(c, a, l)
       \/ SetAccOnline(c, a)
       \/ SetAccOffline(c, a)
       \/ PincodeAuthFail(c, a)
  \/ \E S \in SUBSET Accounts : UpdOnlineDb(c, S)
  \/ SetAllOffline(c)

Next ==
  \/ Client
  \/ \E c \in CharServers :
       CharConnect(c) \/ CharServerRequest(c) \/ CharDisconnect(c)
  \/ \E t \in TimerIds : WaitingDisconnectTimer(t)
  \/ OnlineDataCleanup
  \/ Restart

(* do_timer runs in every cycle of the core loop, so a due callback is     *)
(* executed; a link whose FIFO holds data is parsed again in every cycle.  *)
Fairness ==
  /\ \A t \in TimerIds : WF_vars(WaitingDisconnectTimer(t))
  /\ WF_vars(OnlineDataCleanup)
  /\ \A c \in CharServers, a \in Accounts :
       WF_vars(stalled[c] = a /\ PincodeAuthFail(c, a))

Spec == Init /\ [][Next]_vars /\ Fairness

-----------------------------------------------------------------------------
(* Safety. *)

(* Every pending waiting_disconnect callback is the one its account's      *)
(* entry waits for, and every entry that waits has a pending callback for  *)
(* its own account: no path of the code loses, leaks or shares a timer     *)
(* (login.c:96-100, 115-118, 135; loginclif.c:95-96, 154).                 *)
TimersOwned ==
  /\ \A t \in TimerIds : timer_data[t] # NULL => Timer(timer_data[t]) = t
  /\ \A a \in Accounts :
       Timer(a) # INVALID_TIMER => timer_data[Timer(a)] = a

(* An account that authenticated and has not been seen at a char-server is *)
(* always on its way out: its entry waits for a timer (loginclif.c:152).   *)
AuthedIsTimed ==
  \A a \in Accounts :
    online_db[a] # NULL /\ online_db[a].char_server = AUTHED
      => Timer(a) # INVALID_TIMER

(* No account is recorded on a char-server whose link is down: a second    *)
(* login of it would wait for a kick that nobody receives                  *)
(* (loginchrif.c:931, 855-859).                                            *)
NoUserOnDeadServer ==
  \A a \in Accounts :
    online_db[a] # NULL /\ online_db[a].char_server > -1
      => online_db[a].char_server \in ch_server

(* "each auth entry can only be used once" (loginchrif.c:111): one login   *)
(* opens at most one char-server session, whatever the char-servers ask    *)
(* and however often an account logs in, is kicked or is reported offline. *)
AuthSingleUse == \A l \in LoginIds : grants[l] <= 1

(* What a char-server is granted is the account's latest login: a session  *)
(* key that a later login replaced is dead everywhere (loginclif.c:104,    *)
(* 148).                                                                   *)
GrantsNewest ==
  [][\A l \in LoginIds : grants'[l] > grants[l]
       => \E a \in Accounts : newest[a] = l]_vars

-----------------------------------------------------------------------------
(* Liveness. *)

(* An account that authenticated but never reaches a char-server does not  *)
(* stay marked online for ever (login.c:122-140), provided its owner stops *)
(* logging in: LoginIds is finite in every run.                            *)
AuthedReleased ==
  \A a \in Accounts :
    (online_db[a] # NULL /\ online_db[a].char_server = AUTHED)
      ~> (online_db[a] = NULL \/ online_db[a].char_server # AUTHED)

(* An account that a second login asked to be kicked is freed, or reported *)
(* online again by a char-server, or its server is lost: no account is     *)
(* locked out for ever by a kick that nobody answers (loginclif.c:95-96).  *)
KickResolves ==
  \A a \in Accounts :
    (online_db[a] # NULL /\ online_db[a].char_server > -1
        /\ Timer(a) # INVALID_TIMER)
      ~> (online_db[a] = NULL \/ Timer(a) = INVALID_TIMER)

(* The accounts of a char-server that vanished are released or taken over  *)
(* by a server that reports them (login.c:173-192).                        *)
LostReleased ==
  \A a \in Accounts :
    (online_db[a] # NULL /\ online_db[a].char_server = LOST)
      ~> (online_db[a] = NULL \/ online_db[a].char_server # LOST)
=============================================================================
