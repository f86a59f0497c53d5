------------------------- MODULE LoginServerProofs -------------------------
(***************************************************************************)
(* Proofs about LoginServer for any accounts, any number of char-servers,  *)
(* any logins and any timers.                                              *)
(***************************************************************************)
EXTENDS LoginServer, TLAPS

USE IndexAssumption, NullAssumption

-----------------------------------------------------------------------------
(* Facts about the helpers. *)

(* The timer an account waits for is a timer or INVALID_TIMER. *)
LEMMA TimerType ==
  ASSUME TypeOK, NEW a \in Accounts
  PROVE  /\ Timer(a) \in TimerIds \cup {INVALID_TIMER}
         /\ online_db[a] = NULL => Timer(a) = INVALID_TIMER
  BY DEF TypeOK, Timer, online_login_data, INVALID_TIMER

(* Deleting timers keeps timer_data a table of callbacks. *)
LEMMA DeleteTimerType ==
  ASSUME TypeOK, NEW S \in SUBSET Accounts
  PROVE  delete_timer(S) \in [TimerIds -> Accounts \cup {NULL}]
  BY DEF TypeOK, delete_timer

(* Marking a server's accounts disconnected keeps the entries well-formed  *)
(* and touches neither who has an entry nor what an entry waits for.       *)
LEMMA SetOfflineType ==
  ASSUME TypeOK, NEW c \in CharServers, NEW a \in Accounts
  PROVE  LET p == login_online_db_setoffline(c, a) IN
         /\ p \in online_login_data \cup {NULL}
         /\ p = NULL <=> online_db[a] = NULL
         /\ p # NULL => /\ p.waiting_disconnect = online_db[a].waiting_disconnect
                        /\ p.char_server # c
                        /\ p.char_server \in {online_db[a].char_server, LOST}
<1>1. CASE online_db[a] # NULL /\ online_db[a].char_server = c
  BY <1>1 DEF TypeOK, login_online_db_setoffline, online_login_data, LOST
<1>2. CASE ~(online_db[a] # NULL /\ online_db[a].char_server = c)
  BY <1>2 DEF TypeOK, login_online_db_setoffline, online_login_data, LOST
<1>. QED BY <1>1, <1>2

-----------------------------------------------------------------------------
(* Type correctness. *)

(* A fresh process has well-formed tables.                                 *)
LEMMA InitType == Init => TypeOK
  BY DEF Init, TypeOK

(* A handler that writes nothing leaves an empty packet slot per server.   *)
LEMMA QuietType == Quiet => sent' \in [CharServers -> Packet \cup {NULL}]
  BY DEF Quiet

(* An answer to one char-server is a packet in that server's slot.         *)
LEMMA ReplyType ==
  ASSUME NEW c, NEW p \in Packet, Reply(c, p)
  PROVE  sent' \in [CharServers -> Packet \cup {NULL}]
  BY DEF Reply

(* A broadcast to the char-servers is a packet in each linked slot.        *)
LEMMA SendAllType ==
  ASSUME NEW p \in Packet, SendAll(p)
  PROVE  sent' \in [CharServers -> Packet \cup {NULL}]
  BY DEF SendAll

(* Every handler and callback keeps the tables well-formed.                *)
LEMMA StepType == TypeOK /\ [Next]_vars => TypeOK'
<1>. SUFFICES ASSUME TypeOK, [Next]_vars PROVE TypeOK'
  OBVIOUS
<1>. USE QuietType
<1>1. ASSUME NEW a \in Accounts, AuthAlreadyOnline(a) PROVE TypeOK'
  <2>1. sent' \in [CharServers -> Packet \cup {NULL}]
    <3>. DEFINE p == [type |-> "kick", aid |-> a]
    <3>1. p \in Packet BY DEF Packet
    <3>2. SendAll(p) BY <1>1 DEF AuthAlreadyOnline
    <3>. QED BY <3>1, <3>2, SendAllType
  <2>2. /\ online_db' \in [Accounts -> online_login_data \cup {NULL}]
        /\ timer_data' \in [TimerIds -> Accounts \cup {NULL}]
    <3>1. CASE online_db[a].waiting_disconnect = INVALID_TIMER
      <4>1. PICK t \in TimerIds :
              /\ online_db' = [online_db EXCEPT ![a].waiting_disconnect = t]
              /\ timer_data' = [timer_data EXCEPT ![t] = a]
        BY <1>1, <3>1 DEF AuthAlreadyOnline
      <4>2. online_db[a] \in online_login_data
        BY <1>1 DEF AuthAlreadyOnline, TypeOK
      <4>3. [online_db[a] EXCEPT !.waiting_disconnect = t] \in online_login_data
        BY <4>2 DEF online_login_data
      <4>. QED BY <4>1, <4>3 DEF TypeOK
    <3>2. CASE online_db[a].waiting_disconnect # INVALID_TIMER
      BY <1>1, <3>2 DEF AuthAlreadyOnline, TypeOK
    <3>. QED BY <3>1, <3>2
  <2>. QED BY <1>1, <2>1, <2>2 DEF AuthAlreadyOnline, TypeOK, history
<1>2. ASSUME NEW a \in Accounts, NEW l \in LoginIds, AuthOk(a, l) PROVE TypeOK'
  <2>1. PICK t \in TimerIds :
          /\ online_db' = [online_db EXCEPT
               ![a] = [char_server |-> AUTHED, waiting_disconnect |-> t]]
          /\ timer_data' = [delete_timer({a}) EXCEPT ![t] = a]
    BY <1>2 DEF AuthOk
  <2>2. [char_server |-> AUTHED, waiting_disconnect |-> t] \in online_login_data
    BY DEF online_login_data
  <2>3. online_db' \in [Accounts -> online_login_data \cup {NULL}]
    BY <2>1, <2>2 DEF TypeOK
  <2>4. timer_data' \in [TimerIds -> Accounts \cup {NULL}]
    BY <2>1, DeleteTimerType
  <2>. QED BY <1>2, <2>3, <2>4 DEF AuthOk, TypeOK
<1>3. ASSUME NEW c \in CharServers, CharConnect(c) PROVE TypeOK'
  BY <1>3 DEF CharConnect, TypeOK, tables, history
<1>4. ASSUME NEW c \in CharServers, NEW a \in Accounts, NEW l \in LoginIds,
             ReqAuthOk(c, a, l)
      PROVE  TypeOK'
  <2>1. sent' \in [CharServers -> Packet \cup {NULL}]
    <3>. DEFINE p == [type |-> "authok", aid |-> a, lid |-> l]
    <3>1. p \in Packet BY DEF Packet
    <3>2. Reply(c, p) BY <1>4 DEF ReqAuthOk
    <3>. QED BY <3>1, <3>2, ReplyType
  <2>. QED BY <1>4, <2>1 DEF ReqAuthOk, TypeOK
<1>5. ASSUME NEW c \in CharServers, NEW a \in Accounts, NEW l \in LoginIds,
             ReqAuthFail(c, a, l)
      PROVE  TypeOK'
  <2>1. sent' \in [CharServers -> Packet \cup {NULL}]
    <3>. DEFINE p == [type |-> "authfail", aid |-> a, lid |-> l]
    <3>1. p \in Packet BY DEF Packet
    <3>2. Reply(c, p) BY <1>5 DEF ReqAuthFail
    <3>. QED BY <3>1, <3>2, ReplyType
  <2>. QED BY <1>5, <2>1 DEF ReqAuthFail, TypeOK, tables, history
<1>6. ASSUME NEW c \in CharServers, NEW a \in Accounts, SetAccOnline(c, a)
      PROVE  TypeOK'
  <2>1. [char_server |-> c, waiting_disconnect |-> INVALID_TIMER]
          \in online_login_data
    BY DEF online_login_data
  <2>. QED BY <1>6, <2>1, DeleteTimerType
           DEF SetAccOnline, login_add_online_user, TypeOK, history
<1>7. ASSUME NEW c \in CharServers, NEW a \in Accounts, SetAccOffline(c, a)
      PROVE  TypeOK'
  BY <1>7, DeleteTimerType
     DEF SetAccOffline, login_remove_online_user, TypeOK, history
<1>8. ASSUME NEW c \in CharServers, NEW a \in Accounts, PincodeAuthFail(c, a)
      PROVE  TypeOK'
  BY <1>8, DeleteTimerType
     DEF PincodeAuthFail, login_remove_online_user, TypeOK, history
<1>9. ASSUME NEW c \in CharServers, NEW S \in SUBSET Accounts, UpdOnlineDb(c, S)
      PROVE  TypeOK'
  <2>1. [char_server |-> c, waiting_disconnect |-> INVALID_TIMER]
          \in online_login_data
    BY DEF online_login_data
  <2>2. \A a \in Accounts :
          login_online_db_setoffline(c, a) \in online_login_data \cup {NULL}
    BY SetOfflineType
  <2>. QED BY <1>9, <2>1, <2>2, DeleteTimerType DEF UpdOnlineDb, TypeOK, history
<1>10. ASSUME NEW c \in CharServers, SetAllOffline(c) PROVE TypeOK'
  <2>1. \A a \in Accounts :
          login_online_db_setoffline(c, a) \in online_login_data \cup {NULL}
    BY SetOfflineType
  <2>. QED BY <1>10, <2>1 DEF SetAllOffline, TypeOK, history
<1>11. ASSUME NEW c \in CharServers, CharDisconnect(c) PROVE TypeOK'
  <2>1. \A a \in Accounts :
          login_online_db_setoffline(c, a) \in online_login_data \cup {NULL}
    BY SetOfflineType
  <2>. QED BY <1>11, <2>1 DEF CharDisconnect, TypeOK, history
<1>12. ASSUME NEW t \in TimerIds, WaitingDisconnectTimer(t) PROVE TypeOK'
  BY <1>12 DEF WaitingDisconnectTimer, TypeOK, history
<1>13. ASSUME OnlineDataCleanup PROVE TypeOK'
  BY <1>13, DeleteTimerType
     DEF OnlineDataCleanup, login_remove_online_user, TypeOK, history
<1>14. ASSUME Restart PROVE TypeOK'
  BY <1>14 DEF Restart, TypeOK, history
<1>15. CASE UNCHANGED vars
  BY <1>15 DEF TypeOK, vars, tables, history
<1>. QED
  BY <1>1, <1>2, <1>3, <1>4, <1>5, <1>6, <1>7, <1>8, <1>9, <1>10, <1>11,
     <1>12, <1>13, <1>14, <1>15 DEF Next, Client, CharServerRequest

(* Whatever the clients and the char-servers do, the tables of the         *)
(* login-server hold what their declarations say.                          *)
THEOREM TypeCorrect == Spec => []TypeOK
  BY InitType, StepType, PTL DEF Spec

-----------------------------------------------------------------------------
(* Timers. *)

(* A step that leaves the callbacks and what each entry waits for alone. *)
LEMMA FrameTimers ==
  ASSUME TypeOK, TimersOwned, timer_data' = timer_data,
         \A a \in Accounts : Timer(a)' = Timer(a)
  PROVE  TimersOwned'
<1>1. \A t \in TimerIds : timer_data'[t] # NULL => (Timer(timer_data[t]))' = t
  <2>. SUFFICES ASSUME NEW t \in TimerIds, timer_data'[t] # NULL
                PROVE  (Timer(timer_data[t]))' = t
    OBVIOUS
  <2>1. timer_data[t] \in Accounts /\ Timer(timer_data[t]) = t
    BY DEF TimersOwned, TypeOK
  <2>. QED BY <2>1 DEF Timer
<1>2. \A a \in Accounts :
        Timer(a)' # INVALID_TIMER => timer_data'[Timer(a)'] = a
  BY DEF TimersOwned
<1>. QED BY <1>1, <1>2 DEF TimersOwned

(* A step that deletes the timers of S and stops the entries of S waiting. *)
LEMMA DropTimers ==
  ASSUME TypeOK, TimersOwned, NEW S \in SUBSET Accounts,
         timer_data' = delete_timer(S),
         \A a \in S : Timer(a)' = INVALID_TIMER,
         \A a \in Accounts \ S : Timer(a)' = Timer(a)
  PROVE  TimersOwned'
<1>1. \A t \in TimerIds : timer_data'[t] # NULL => (Timer(timer_data[t]))' = t
  <2>. SUFFICES ASSUME NEW t \in TimerIds, timer_data'[t] # NULL
                PROVE  (Timer(timer_data[t]))' = t
    OBVIOUS
  <2>1. timer_data'[t] = timer_data[t] /\ \A a \in S : Timer(a) # t
    BY DEF delete_timer
  <2>2. timer_data[t] \in Accounts /\ Timer(timer_data[t]) = t
    BY <2>1 DEF TimersOwned, TypeOK
  <2>3. timer_data[t] \in Accounts \ S
    BY <2>1, <2>2
  <2>. QED BY <2>1, <2>2, <2>3 DEF Timer
<1>2. ASSUME NEW a \in Accounts, Timer(a)' # INVALID_TIMER
      PROVE  timer_data'[Timer(a)'] = a
  <2>1. a \in Accounts \ S /\ Timer(a)' = Timer(a)
    BY <1>2
  <2>2. Timer(a) \in TimerIds /\ timer_data[Timer(a)] = a
    BY <1>2, <2>1, TimerType DEF TimersOwned
  <2>3. \A b \in S : Timer(b) # Timer(a)
    BY <1>2, <2>1, <2>2 DEF TimersOwned
  <2>. QED BY <2>1, <2>2, <2>3 DEF delete_timer
<1>. QED BY <1>1, <1>2 DEF TimersOwned

(* A step that deletes the timer of account a and starts a free one for it. *)
LEMMA SetTimer ==
  ASSUME TypeOK, TimersOwned, NEW a \in Accounts, NEW t \in TimerIds,
         FreeTimer(t), timer_data' = [delete_timer({a}) EXCEPT ![t] = a],
         Timer(a)' = t, \A b \in Accounts \ {a} : Timer(b)' = Timer(b)
  PROVE  TimersOwned'
<1>1. \A u \in TimerIds : timer_data'[u] # NULL => (Timer(timer_data[u]))' = u
  <2>. SUFFICES ASSUME NEW u \in TimerIds, timer_data'[u] # NULL
                PROVE  (Timer(timer_data[u]))' = u
    OBVIOUS
  <2>1. CASE u = t
    <3>1. timer_data'[u] = a BY <2>1 DEF delete_timer
    <3>. QED BY <2>1, <3>1 DEF Timer
  <2>2. CASE u # t
    <3>1. timer_data'[u] = timer_data[u] /\ Timer(a) # u
      BY <2>2 DEF delete_timer
    <3>2. timer_data[u] \in Accounts /\ Timer(timer_data[u]) = u
      BY <3>1 DEF TimersOwned, TypeOK
    <3>. QED BY <3>1, <3>2 DEF Timer
  <2>. QED BY <2>1, <2>2
<1>2. ASSUME NEW b \in Accounts, Timer(b)' # INVALID_TIMER
      PROVE  timer_data'[Timer(b)'] = b
  <2>1. CASE b = a
    BY <2>1 DEF delete_timer
  <2>2. CASE b # a
    <3>1. Timer(b) \in TimerIds /\ timer_data[Timer(b)] = b
      BY <1>2, <2>2, TimerType DEF TimersOwned
    <3>2. Timer(b) # t
      BY <3>1 DEF FreeTimer
    <3>3. Timer(a) # Timer(b)
      BY <2>2, <3>1 DEF TimersOwned, INVALID_TIMER
    <3>. QED BY <2>2, <3>1, <3>2, <3>3 DEF delete_timer
  <2>. QED BY <2>1, <2>2
<1>. QED BY <1>1, <1>2 DEF TimersOwned

(* A fresh process has no timer and no entry that waits.                   *)
LEMMA InitTimers == Init => TimersOwned
  BY DEF Init, TimersOwned, Timer

(* Every handler and callback keeps add_timer and delete_timer paired.     *)
LEMMA StepTimers == TypeOK /\ TimersOwned /\ [Next]_vars => TimersOwned'
<1>. SUFFICES ASSUME TypeOK, TimersOwned, [Next]_vars PROVE TimersOwned'
  OBVIOUS
<1>1. ASSUME NEW a \in Accounts, AuthAlreadyOnline(a) PROVE TimersOwned'
  <2>1. CASE online_db[a].waiting_disconnect = INVALID_TIMER
    <3>1. PICK t \in TimerIds :
            /\ FreeTimer(t)
            /\ online_db' = [online_db EXCEPT ![a].waiting_disconnect = t]
            /\ timer_data' = [timer_data EXCEPT ![t] = a]
      BY <1>1, <2>1 DEF AuthAlreadyOnline
    <3>2. Timer(a) = INVALID_TIMER /\ online_db[a] \in online_login_data
      BY <1>1, <2>1 DEF AuthAlreadyOnline, Timer, TypeOK
    <3>3. delete_timer({a}) = timer_data
      BY <3>2 DEF delete_timer, TypeOK, INVALID_TIMER
    <3>4. online_db'[a] = [online_db[a] EXCEPT !.waiting_disconnect = t]
      BY <3>1 DEF TypeOK
    <3>5. online_db'[a] # NULL /\ online_db'[a].waiting_disconnect = t
      BY <3>2, <3>4 DEF online_login_data
    <3>6. Timer(a)' = t /\ \A b \in Accounts \ {a} : Timer(b)' = Timer(b)
      BY <3>1, <3>5 DEF Timer, TypeOK
    <3>. QED BY <3>1, <3>3, <3>6, SetTimer
  <2>2. CASE online_db[a].waiting_disconnect # INVALID_TIMER
    BY <1>1, <2>2, FrameTimers DEF AuthAlreadyOnline, Timer
  <2>. QED BY <2>1, <2>2
<1>2. ASSUME NEW a \in Accounts, NEW l \in LoginIds, AuthOk(a, l)
      PROVE  TimersOwned'
  <2>1. PICK t \in TimerIds :
          /\ FreeTimer(t)
          /\ online_db' = [online_db EXCEPT
               ![a] = [char_server |-> AUTHED, waiting_disconnect |-> t]]
          /\ timer_data' = [delete_timer({a}) EXCEPT ![t] = a]
    BY <1>2 DEF AuthOk
  <2>2. [char_server |-> AUTHED, waiting_disconnect |-> t] # NULL
    BY DEF online_login_data
  <2>3. Timer(a)' = t /\ \A b \in Accounts \ {a} : Timer(b)' = Timer(b)
    BY <2>1, <2>2 DEF Timer, TypeOK
  <2>. QED BY <2>1, <2>3, SetTimer
<1>3. ASSUME NEW c \in CharServers, NEW a \in Accounts, SetAccOnline(c, a)
      PROVE  TimersOwned'
  <2>1. Timer(a)' = INVALID_TIMER
    BY <1>3 DEF SetAccOnline, login_add_online_user, Timer, TypeOK
  <2>2. \A b \in Accounts \ {a} : Timer(b)' = Timer(b)
    BY <1>3 DEF SetAccOnline, login_add_online_user, Timer, TypeOK
  <2>. QED BY <1>3, <2>1, <2>2, DropTimers
           DEF SetAccOnline, login_add_online_user
<1>4. ASSUME NEW S \in SUBSET Accounts, login_remove_online_user(S)
      PROVE  TimersOwned'
  <2>1. \A a \in S : Timer(a)' = INVALID_TIMER
    BY <1>4 DEF login_remove_online_user, Timer
  <2>2. \A a \in Accounts \ S : Timer(a)' = Timer(a)
    BY <1>4 DEF login_remove_online_user, Timer
  <2>. QED BY <1>4, <2>1, <2>2, DropTimers DEF login_remove_online_user
<1>5. ASSUME NEW c \in CharServers, NEW a \in Accounts, SetAccOffline(c, a)
      PROVE  TimersOwned'
  BY <1>4, <1>5 DEF SetAccOffline
<1>6. ASSUME NEW c \in CharServers, NEW a \in Accounts, PincodeAuthFail(c, a)
      PROVE  TimersOwned'
  BY <1>4, <1>6, FrameTimers DEF PincodeAuthFail, Timer
<1>7. ASSUME NEW c \in CharServers, NEW S \in SUBSET Accounts, UpdOnlineDb(c, S)
      PROVE  TimersOwned'
  <2>1. \A a \in S : Timer(a)' = INVALID_TIMER
    BY <1>7 DEF UpdOnlineDb, Timer
  <2>2. \A a \in Accounts \ S : online_db'[a] = login_online_db_setoffline(c, a)
    BY <1>7 DEF UpdOnlineDb
  <2>3. \A a \in Accounts \ S : Timer(a)' = Timer(a)
    BY <2>2, SetOfflineType DEF Timer
  <2>. QED BY <1>7, <2>1, <2>3, DropTimers DEF UpdOnlineDb
<1>8. ASSUME NEW c \in CharServers, SetAllOffline(c) \/ CharDisconnect(c)
      PROVE  TimersOwned'
  <2>1. \A a \in Accounts : online_db'[a] = login_online_db_setoffline(c, a)
    BY <1>8 DEF SetAllOffline, CharDisconnect
  <2>2. \A a \in Accounts : Timer(a)' = Timer(a)
    BY <2>1, SetOfflineType DEF Timer
  <2>. QED BY <1>8, <2>2, FrameTimers DEF SetAllOffline, CharDisconnect
<1>9. ASSUME NEW t \in TimerIds, WaitingDisconnectTimer(t) PROVE TimersOwned'
  <2>1. PICK a \in Accounts : timer_data[t] = a /\ Timer(a) = t
    BY <1>9 DEF WaitingDisconnectTimer, TimersOwned, TypeOK
  <2>2. online_db' = [online_db EXCEPT ![a] = NULL]
    BY <1>9, <2>1 DEF WaitingDisconnectTimer
  <2>3. timer_data' = delete_timer({a})
    BY <1>9, <2>1 DEF delete_timer, TypeOK, WaitingDisconnectTimer
  <2>4. Timer(a)' = INVALID_TIMER /\ \A b \in Accounts \ {a} : Timer(b)' = Timer(b)
    BY <2>2 DEF TypeOK, Timer
  <2>. QED BY <2>3, <2>4, DropTimers
<1>10. ASSUME OnlineDataCleanup PROVE TimersOwned'
  BY <1>4, <1>10 DEF OnlineDataCleanup
<1>11. ASSUME Restart PROVE TimersOwned'
  BY <1>11 DEF Restart, TimersOwned, Timer
<1>12. ASSUME UNCHANGED <<online_db, timer_data>> PROVE TimersOwned'
  BY <1>12, FrameTimers DEF Timer
<1>. QED
  BY <1>1, <1>2, <1>3, <1>5, <1>6, <1>7, <1>8, <1>9, <1>10, <1>11, <1>12
  DEF Next, Client, CharServerRequest, CharConnect, ReqAuthOk, ReqAuthFail,
      vars, tables

(* No handler loses, leaks or shares a waiting_disconnect timer: add_timer *)
(* and delete_timer stay paired with the entry's field on every path.      *)
THEOREM TimersAreOwned == Spec => []TimersOwned
<1>1. Spec => []TypeOK
  BY TypeCorrect
<1>2. TypeOK /\ TimersOwned /\ [Next]_vars => TimersOwned'
  BY StepTimers
<1>. QED BY <1>1, <1>2, InitTimers, PTL DEF Spec

-----------------------------------------------------------------------------
(* Who is recorded where. *)

(* What a step may do to one entry of online_db, whatever the handler: the *)
(* entry is kept as it is, disappears, is marked disconnected, moves to a  *)
(* linked server, is given a timer, or starts afresh with one.             *)
EntryStep(a) ==
  \/ online_db'[a] = online_db[a]
  \/ online_db'[a] = NULL
  \/ /\ online_db[a] # NULL
     /\ online_db'[a] # NULL
     /\ online_db'[a].char_server = LOST
  \/ /\ online_db'[a] # NULL
     /\ online_db'[a].char_server \in ch_server'
  \/ /\ online_db[a] # NULL
     /\ online_db'[a] # NULL
     /\ online_db'[a].char_server = online_db[a].char_server
     /\ Timer(a)' # INVALID_TIMER
  \/ /\ online_db'[a] # NULL
     /\ online_db'[a].char_server = AUTHED
     /\ Timer(a)' # INVALID_TIMER

(* The entries of the linked server c are marked disconnected or untouched. *)
LEMMA SetOfflineEntry ==
  ASSUME TypeOK, NEW c \in CharServers, NEW a \in Accounts,
         online_db'[a] = login_online_db_setoffline(c, a)
  PROVE  EntryStep(a) /\ (online_db'[a] = NULL \/ online_db'[a].char_server # c)
<1>1. CASE online_db[a] # NULL /\ online_db[a].char_server = c
  <2>1. online_db[a] \in online_login_data
    BY <1>1 DEF TypeOK
  <2>2. /\ online_db'[a] \in online_login_data
        /\ online_db'[a].char_server = LOST
    BY <1>1, <2>1 DEF login_online_db_setoffline, online_login_data
  <2>. QED BY <1>1, <2>2 DEF EntryStep, LOST
<1>2. CASE ~(online_db[a] # NULL /\ online_db[a].char_server = c)
  BY <1>2 DEF login_online_db_setoffline, EntryStep
<1>. QED BY <1>1, <1>2

(* Every step changes an account's entry only in the ways of EntryStep.    *)
LEMMA StepEntry ==
  ASSUME TypeOK, [Next]_vars, NEW a \in Accounts
  PROVE  EntryStep(a)
<1>1. ASSUME NEW b \in Accounts, AuthAlreadyOnline(b) PROVE EntryStep(a)
  <2>1. CASE online_db[b].waiting_disconnect = INVALID_TIMER
    <3>1. PICK t \in TimerIds :
            online_db' = [online_db EXCEPT ![b].waiting_disconnect = t]
      BY <1>1, <2>1 DEF AuthAlreadyOnline
    <3>2. online_db[b] \in online_login_data
      BY <1>1 DEF AuthAlreadyOnline, TypeOK
    <3>3. CASE a = b
      <4>1. online_db'[a] = [online_db[a] EXCEPT !.waiting_disconnect = t]
        BY <3>1, <3>3 DEF TypeOK
      <4>2. /\ online_db'[a] \in online_login_data
            /\ online_db'[a].char_server = online_db[a].char_server
            /\ online_db'[a].waiting_disconnect = t
        BY <3>2, <3>3, <4>1 DEF online_login_data
      <4>3. Timer(a)' # INVALID_TIMER
        BY <4>2 DEF Timer, INVALID_TIMER
      <4>. QED BY <3>2, <3>3, <4>2, <4>3 DEF EntryStep
    <3>4. CASE a # b
      BY <3>1, <3>4 DEF EntryStep, TypeOK
    <3>. QED BY <3>3, <3>4
  <2>2. CASE online_db[b].waiting_disconnect # INVALID_TIMER
    BY <1>1, <2>2 DEF AuthAlreadyOnline, EntryStep
  <2>. QED BY <2>1, <2>2
<1>2. ASSUME NEW b \in Accounts, NEW l \in LoginIds, AuthOk(b, l)
      PROVE  EntryStep(a)
  <2>1. PICK t \in TimerIds :
          online_db' = [online_db EXCEPT
            ![b] = [char_server |-> AUTHED, waiting_disconnect |-> t]]
    BY <1>2 DEF AuthOk
  <2>2. [char_server |-> AUTHED, waiting_disconnect |-> t] # NULL
    BY DEF online_login_data
  <2>3. CASE a = b
    <3>1. online_db'[a] = [char_server |-> AUTHED, waiting_disconnect |-> t]
      BY <2>1, <2>3 DEF TypeOK
    <3>2. Timer(a)' # INVALID_TIMER
      BY <2>2, <3>1 DEF Timer, INVALID_TIMER
    <3>. QED BY <2>2, <3>1, <3>2 DEF EntryStep
  <2>4. CASE a # b
    BY <2>1, <2>4 DEF EntryStep, TypeOK
  <2>. QED BY <2>3, <2>4
<1>3. ASSUME NEW c \in CharServers, NEW b \in Accounts, SetAccOnline(c, b)
      PROVE  EntryStep(a)
  <2>1. [char_server |-> c, waiting_disconnect |-> INVALID_TIMER] # NULL
    BY DEF online_login_data
  <2>. QED BY <1>3, <2>1
           DEF SetAccOnline, login_add_online_user, EntryStep, TypeOK, Linked
<1>4. ASSUME NEW S \in SUBSET Accounts, login_remove_online_user(S)
      PROVE  EntryStep(a)
  BY <1>4 DEF login_remove_online_user, EntryStep
<1>5. ASSUME NEW c \in CharServers, NEW S \in SUBSET Accounts, UpdOnlineDb(c, S)
      PROVE  EntryStep(a)
  <2>1. [char_server |-> c, waiting_disconnect |-> INVALID_TIMER] # NULL
    BY DEF online_login_data
  <2>2. CASE a \in S
    BY <1>5, <2>1, <2>2 DEF UpdOnlineDb, EntryStep, Linked
  <2>3. CASE a \notin S
    BY <1>5, <2>3, SetOfflineEntry DEF UpdOnlineDb
  <2>. QED BY <2>2, <2>3
<1>6. ASSUME NEW c \in CharServers, SetAllOffline(c) \/ CharDisconnect(c)
      PROVE  EntryStep(a)
  BY <1>6, SetOfflineEntry DEF SetAllOffline, CharDisconnect
<1>7. ASSUME NEW t \in TimerIds, WaitingDisconnectTimer(t) PROVE EntryStep(a)
  BY <1>7 DEF WaitingDisconnectTimer, EntryStep, TypeOK
<1>8. ASSUME Restart PROVE EntryStep(a)
  BY <1>8 DEF Restart, EntryStep
<1>9. ASSUME UNCHANGED online_db PROVE EntryStep(a)
  BY <1>9 DEF EntryStep
<1>. QED
  BY <1>1, <1>2, <1>3, <1>4, <1>5, <1>6, <1>7, <1>8, <1>9
  DEF Next, Client, CharServerRequest, SetAccOffline, PincodeAuthFail,
      OnlineDataCleanup, CharConnect, ReqAuthOk, ReqAuthFail, vars, tables

(* An account that is authenticated and not on a char-server always waits  *)
(* for a timer: no order of requests leaves it marked online for ever.     *)
THEOREM AuthedAlwaysTimed == Spec => []AuthedIsTimed
<1>1. Spec => []TypeOK
  BY TypeCorrect
<1>2. Init => AuthedIsTimed
  BY DEF Init, AuthedIsTimed
<1>3. TypeOK /\ AuthedIsTimed /\ [Next]_vars => AuthedIsTimed'
  <2>. SUFFICES ASSUME TypeOK, AuthedIsTimed, [Next]_vars, NEW a \in Accounts,
                       online_db'[a] # NULL, online_db'[a].char_server = AUTHED
                PROVE  Timer(a)' # INVALID_TIMER
    BY DEF AuthedIsTimed
  <2>1. EntryStep(a)
    BY StepEntry
  <2>2. AUTHED # LOST /\ AUTHED \notin CharServers
    BY DEF AUTHED, LOST
  <2>3. ch_server' \in SUBSET CharServers
    BY StepType DEF TypeOK
  <2>4. CASE online_db'[a] = online_db[a]
    BY <2>4 DEF AuthedIsTimed, Timer
  <2>5. CASE online_db'[a] # online_db[a]
    BY <2>1, <2>2, <2>3, <2>5 DEF EntryStep
  <2>. QED BY <2>4, <2>5
<1>. QED BY <1>1, <1>2, <1>3, PTL DEF Spec

(* A link leaves ch_server only with all its accounts marked disconnected. *)
LEMMA StepLinks ==
  ASSUME TypeOK, [Next]_vars, NEW a \in Accounts, online_db'[a] # NULL,
         online_db'[a].char_server \in ch_server
  PROVE  online_db'[a].char_server \in ch_server'
<1>1. ASSUME NEW c \in CharServers, CharDisconnect(c)
      PROVE  online_db'[a].char_server \in ch_server'
  <2>1. online_db'[a] = login_online_db_setoffline(c, a)
    BY <1>1 DEF CharDisconnect
  <2>2. online_db'[a].char_server # c
    BY <2>1, SetOfflineEntry
  <2>. QED BY <1>1, <2>2 DEF CharDisconnect
<1>2. ASSUME Restart PROVE FALSE
  BY <1>2 DEF Restart
<1>3. ASSUME ch_server \subseteq ch_server'
      PROVE  online_db'[a].char_server \in ch_server'
  BY <1>3
<1>4. ASSUME NEW c \in CharServers, CharServerRequest(c)
      PROVE  ch_server' = ch_server
  BY <1>4 DEF CharServerRequest, ReqAuthOk, ReqAuthFail, SetAccOnline,
              SetAccOffline, PincodeAuthFail, UpdOnlineDb, SetAllOffline
<1>5. ASSUME Client PROVE ch_server' = ch_server
  BY <1>5 DEF Client, AuthAlreadyOnline, AuthOk
<1>6. ASSUME NEW c \in CharServers, CharConnect(c)
      PROVE  ch_server \subseteq ch_server'
  BY <1>6 DEF CharConnect
<1>7. ASSUME NEW t \in TimerIds, WaitingDisconnectTimer(t)
      PROVE  ch_server' = ch_server
  BY <1>7 DEF WaitingDisconnectTimer
<1>8. ASSUME OnlineDataCleanup PROVE ch_server' = ch_server
  BY <1>8 DEF OnlineDataCleanup
<1>9. ASSUME UNCHANGED vars PROVE ch_server' = ch_server
  BY <1>9 DEF vars
<1>. QED
  BY <1>1, <1>2, <1>3, <1>4, <1>5, <1>6, <1>7, <1>8, <1>9 DEF Next

(* No account is recorded on a char-server that cannot be asked to kick    *)
(* it: logchrif_on_disconnect reaches every entry of the lost server.      *)
THEOREM NoUserOnDead == Spec => []NoUserOnDeadServer
<1>1. Spec => []TypeOK
  BY TypeCorrect
<1>2. Init => NoUserOnDeadServer
  BY DEF Init, NoUserOnDeadServer
<1>3. TypeOK /\ NoUserOnDeadServer /\ [Next]_vars => NoUserOnDeadServer'
  <2>. SUFFICES ASSUME TypeOK, NoUserOnDeadServer, [Next]_vars, NEW a \in Accounts,
                       online_db'[a] # NULL, online_db'[a].char_server > -1
                PROVE  online_db'[a].char_server \in ch_server'
    BY DEF NoUserOnDeadServer
  <2>1. EntryStep(a)
    BY StepEntry
  <2>2. CASE \/ online_db'[a] = online_db[a]
             \/ /\ online_db[a] # NULL
                /\ online_db'[a].char_server = online_db[a].char_server
    <3>1. online_db'[a].char_server \in ch_server
      BY <2>2 DEF NoUserOnDeadServer
    <3>. QED BY <3>1, StepLinks
  <2>3. CASE online_db'[a].char_server \in {AUTHED, LOST}
    BY <2>3 DEF AUTHED, LOST
  <2>. QED BY <2>1, <2>2, <2>3 DEF EntryStep
<1>. QED BY <1>1, <1>2, <1>3, PTL DEF Spec

-----------------------------------------------------------------------------
(* Single use of an auth node. *)

(* Why one login is granted once: the node of an account is its latest     *)
(* login, that login has not been granted, no two accounts share one, and  *)
(* nothing is granted that was never issued.                               *)
NodesUnspent ==
  /\ \A a \in Accounts : auth_db[a] # NULL =>
       /\ auth_db[a] \in issued
       /\ grants[auth_db[a]] = 0
       /\ newest[a] = auth_db[a]
  /\ \A a, b \in Accounts :
       auth_db[a] # NULL /\ auth_db[a] = auth_db[b] => a = b
  /\ \A l \in LoginIds : l \notin issued => grants[l] = 0

GrantInv == NodesUnspent /\ AuthSingleUse

(* A fresh process has no node and has granted nothing.                    *)
LEMMA InitGrant == Init => GrantInv
  BY DEF Init, GrantInv, NodesUnspent, AuthSingleUse

(* A step that issues and grants nothing and adds no node. *)
LEMMA FrameGrant ==
  ASSUME GrantInv, UNCHANGED history,
         \A a \in Accounts : auth_db'[a] \in {auth_db[a], NULL}
  PROVE  GrantInv'
  BY DEF GrantInv, NodesUnspent, AuthSingleUse, history

(* Every handler keeps the login ids of auth nodes unspent.                *)
LEMMA StepGrant == TypeOK /\ GrantInv /\ [Next]_vars => GrantInv'
<1>. SUFFICES ASSUME TypeOK, GrantInv, [Next]_vars PROVE GrantInv'
  OBVIOUS
<1>1. ASSUME NEW a \in Accounts, NEW l \in LoginIds, AuthOk(a, l)
      PROVE  GrantInv'
  <2>1. /\ auth_db' = [auth_db EXCEPT ![a] = l]
        /\ issued' = issued \cup {l}
        /\ newest' = [newest EXCEPT ![a] = l]
        /\ grants' = grants
        /\ l \notin issued
    BY <1>1 DEF AuthOk
  <2>2. grants[l] = 0
    BY <2>1 DEF GrantInv, NodesUnspent
  <2>3. \A b \in Accounts : auth_db[b] # l
    BY <2>1 DEF GrantInv, NodesUnspent
  <2>. QED BY <2>1, <2>2, <2>3 DEF GrantInv, NodesUnspent, AuthSingleUse, TypeOK
<1>2. ASSUME NEW c \in CharServers, NEW a \in Accounts, NEW l \in LoginIds,
             ReqAuthOk(c, a, l)
      PROVE  GrantInv'
  <2>1. /\ auth_db[a] = l
        /\ auth_db' = [auth_db EXCEPT ![a] = NULL]
        /\ grants' = [grants EXCEPT ![l] = grants[l] + 1]
        /\ issued' = issued
        /\ newest' = newest
    BY <1>2 DEF ReqAuthOk
  <2>2. grants[l] = 0 /\ l \in issued
    BY <2>1 DEF GrantInv, NodesUnspent
  <2>3. \A b \in Accounts \ {a} : auth_db[b] # l
    BY <2>1 DEF GrantInv, NodesUnspent
  <2>4. grants'[l] = 1 /\ \A m \in LoginIds \ {l} : grants'[m] = grants[m]
    BY <2>1, <2>2 DEF TypeOK
  <2>5. NodesUnspent'
    BY <2>1, <2>2, <2>3, <2>4 DEF GrantInv, NodesUnspent, TypeOK
  <2>6. AuthSingleUse'
    BY <2>4 DEF GrantInv, AuthSingleUse
  <2>. QED BY <2>5, <2>6 DEF GrantInv
<1>3. ASSUME NEW t \in TimerIds, WaitingDisconnectTimer(t) PROVE GrantInv'
  BY <1>3, FrameGrant DEF WaitingDisconnectTimer, TypeOK
<1>4. ASSUME Restart PROVE GrantInv'
  BY <1>4, FrameGrant DEF Restart
<1>5. ASSUME UNCHANGED <<auth_db, history>> PROVE GrantInv'
  BY <1>5, FrameGrant
<1>. QED
  BY <1>1, <1>2, <1>3, <1>4, <1>5
  DEF Next, Client, CharServerRequest, AuthAlreadyOnline, CharConnect,
      ReqAuthFail, SetAccOnline, SetAccOffline, PincodeAuthFail, UpdOnlineDb,
      SetAllOffline, CharDisconnect, OnlineDataCleanup, vars, tables

(* The login id of an auth node has never been granted, on any path.       *)
LEMMA GrantInvariant == Spec => []GrantInv
<1>1. Spec => []TypeOK
  BY TypeCorrect
<1>2. TypeOK /\ GrantInv /\ [Next]_vars => GrantInv'
  BY StepGrant
<1>. QED BY <1>1, <1>2, InitGrant, PTL DEF Spec

(* A login opens at most one char-server session, however requests, kicks, *)
(* timers and restarts interleave.                                         *)
THEOREM SingleUse == Spec => []AuthSingleUse
<1>1. GrantInv => AuthSingleUse
  BY DEF GrantInv
<1>. QED BY <1>1, GrantInvariant, PTL

(* Only an account's latest login is ever granted. *)
THEOREM OnlyNewestGranted == Spec => GrantsNewest
<1>1. TypeOK /\ GrantInv /\ [Next]_vars =>
        [\A l \in LoginIds : grants'[l] > grants[l]
           => \E a \in Accounts : newest[a] = l]_vars
  <2>. SUFFICES ASSUME TypeOK, GrantInv, [Next]_vars, NEW l \in LoginIds,
                       grants'[l] > grants[l]
                PROVE  \E a \in Accounts : newest[a] = l
    OBVIOUS
  <2>1. ASSUME UNCHANGED grants PROVE FALSE
    BY <2>1 DEF TypeOK
  <2>2. ASSUME NEW c \in CharServers, NEW a \in Accounts, NEW m \in LoginIds,
               ReqAuthOk(c, a, m)
        PROVE  newest[a] = l
    <3>1. grants' = [grants EXCEPT ![m] = grants[m] + 1] /\ auth_db[a] = m
      BY <2>2 DEF ReqAuthOk
    <3>2. l = m
      BY <3>1 DEF TypeOK
    <3>. QED BY <3>1, <3>2 DEF GrantInv, NodesUnspent
  <2>. QED
    BY <2>1, <2>2
    DEF Next, Client, CharServerRequest, AuthAlreadyOnline, AuthOk, CharConnect,
        ReqAuthFail, SetAccOnline, SetAccOffline, PincodeAuthFail, UpdOnlineDb,
        SetAllOffline, CharDisconnect, WaitingDisconnectTimer,
        OnlineDataCleanup, Restart, vars, history
<1>. QED BY <1>1, TypeCorrect, GrantInvariant, PTL DEF Spec, GrantsNewest
=============================================================================
