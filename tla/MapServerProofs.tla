-------------------------- MODULE MapServerProofs --------------------------
(***************************************************************************)
(* Proofs about MapServer for any accounts, characters, clients and        *)
(* sessions, with or without restored shops.                               *)
(*                                                                         *)
(* The inductive invariant has three parts.  Tables relates session,       *)
(* auth_db, pc_db and quit_timers: who owns the session_data of a session, *)
(* and who ends a player that lost its session.  QuittersSent says that a  *)
(* quitter waits for nothing but its ack while the link is ready.  RestOK  *)
(* types what no table depends on.                                         *)
(*                                                                         *)
(* DataOwned alone is not inductive.  That a player and a node of the same *)
(* account do not share a session has to be known more exactly (a node     *)
(* beside a player is that of a restored vendor, which has none), and that *)
(* a step of one account leaves the others' session_data alone follows     *)
(* from Owner: the data of a session names the account that has it.        *)
(*                                                                         *)
(* A step is shown to keep Tables in three stages: what it does to the     *)
(* sessions (SessionStep), to each account (NodeFrom, PlayerFrom) and,     *)
(* for the two shapes most steps have, by one lemma each: players that     *)
(* quit (QuitTables) and nodes that go (DropTables).                       *)
(***************************************************************************)
EXTENDS MapServer, TLAPS

USE FdAssumption, OwnerAssumption, NullAssumption

NodeOK(a) ==
  auth_db[a] # NULL =>
    /\ auth_db[a] \in auth_node
    /\ Owner[auth_db[a].sd.char_id] = a
    /\ PointsTo(auth_db[a].fd, auth_db[a].sd)
    /\ auth_db[a].state = "ST_LOGOUT" => auth_db[a].fd = 0
    /\ auth_db[a].state = "ST_LOGIN" => (auth_db[a].fd = 0 <=> auth_db[a].sd.lid = NULL)

PlayerOK(a) ==
  pc_db[a] # NULL =>
    /\ pc_db[a] \in map_session_data
    /\ Owner[pc_db[a].sd.char_id] = a
    /\ PointsTo(pc_db[a].fd, pc_db[a].sd)
    /\ pc_db[a].fd = 0 /\ pc_db[a].autotrade = "none" => quit_timers[a] > 0
    /\ pc_db[a].autotrade = "loading" => pc_db[a].fd = 0
    /\ auth_db[a] # NULL =>
         auth_db[a].fd = 0 /\ auth_db[a].state = "ST_LOGIN" /\ ~auth_db[a].loaded

(* The player or the node of account a has session f. *)
OwnedBy(f, a) ==
  \/ pc_db[a] # NULL /\ pc_db[a].fd = f
  \/ auth_db[a] # NULL /\ auth_db[a].fd = f

(* The client of f, unless it is being dropped, is its account's.          *)
ClientOK(f) == HasData(f) /\ ~session[f].eof => OwnedBy(f, AccountOf(f))

Tables ==
  /\ session \in [Fds -> socket_data \cup {NULL}]
  /\ auth_db \in [Accounts -> auth_node \cup {NULL}]
  /\ pc_db \in [Accounts -> map_session_data \cup {NULL}]
  /\ quit_timers \in [Accounts -> 0 .. MaxTimers]
  /\ \A a \in Accounts : NodeOK(a) /\ PlayerOK(a)
  /\ \A f \in Fds : ClientOK(f)

QuittersSent ==
  link = Ready =>
    \A a \in Accounts : HasNode(a, "ST_LOGOUT") => auth_db[a].sd.char_id \notin unsaved

RestOK ==
  /\ link \in {Down, Up, Ready}
  /\ other_mapserver_count \in 0 .. MaxMapServers
  /\ runflag \in {RUNNING, SHUTDOWN, STOPPING, STOPPED}
  /\ vendings \in SUBSET Chars
  /\ toChar \in SUBSET CharPacket
  /\ unsaved \in SUBSET Chars

IInv == Tables /\ QuittersSent /\ RestOK

-----------------------------------------------------------------------------
(* How a step treats the sessions. *)

Keeps(f) ==
  /\ session[f] = NULL => session'[f] = NULL
  /\ session[f] # NULL =>
       /\ session'[f] # NULL /\ session'[f].sd = session[f].sd
       /\ session[f].eof => session'[f].eof

Drops(f) == session'[f] # NULL => session'[f].sd = NULL

(* The sessions of C lose their session_data, the others keep it.          *)
SessionStep(C) ==
  /\ session' \in [Fds -> socket_data \cup {NULL}]
  /\ \A f \in Fds : IF f \in C THEN Drops(f) ELSE Keeps(f)

(* Marking keeps the data of the sessions it does not clear (set_eof,      *)
(* chrif_auth_delete).                                                     *)
LEMMA MarkedEntry ==
  ASSUME Tables, NEW E, NEW C, NEW f \in Fds, session[f] # NULL
  PROVE  /\ Marked(E, C)[f] \in socket_data
         /\ Marked(E, C)[f].sd = IF f \in C THEN NULL ELSE session[f].sd
         /\ session[f].eof => Marked(E, C)[f].eof
<1>1. session[f] \in socket_data
  BY DEF Tables
<1>2. session[f].sd \in session_data \cup {NULL} /\ session[f].eof \in BOOLEAN
  BY <1>1 DEF socket_data
<1>. DEFINE sd == IF f \in C THEN NULL ELSE session[f].sd
            eof == session[f].eof \/ f \in E
<1>3. Marked(E, C)[f] = [sd |-> sd, eof |-> eof]
  BY DEF Marked
<1>4. sd \in session_data \cup {NULL}
  BY <1>2
<1>5. eof \in BOOLEAN /\ (session[f].eof => eof)
  BY <1>2
<1>. HIDE DEF sd, eof
<1>6. /\ Marked(E, C)[f] \in socket_data
      /\ Marked(E, C)[f].sd = sd /\ Marked(E, C)[f].eof = eof
  BY <1>3, <1>4, <1>5 DEF socket_data
<1>7. session[f].eof => Marked(E, C)[f].eof
  BY <1>5, <1>6
<1>. QED BY <1>6, <1>7 DEF sd

LEMMA MarkedStep ==
  ASSUME Tables, NEW E, NEW C, session' = Marked(E, C)
  PROVE  SessionStep(C)
<1>1. \A f \in Fds : session[f] = NULL => session'[f] = NULL
  BY DEF Marked
<1>2. session' \in [Fds -> socket_data \cup {NULL}]
  BY <1>1, MarkedEntry DEF Marked
<1>3. ASSUME NEW f \in Fds
      PROVE  IF f \in C THEN Drops(f) ELSE Keeps(f)
  <2>1. CASE session[f] = NULL
    BY <1>1, <2>1 DEF Drops, Keeps
  <2>2. CASE session[f] # NULL
    BY <2>2, MarkedEntry DEF Drops, Keeps
  <2>. QED BY <2>1, <2>2
<1>. QED BY <1>2, <1>3 DEF SessionStep

(* ... also if another session is closed with it.                          *)
LEMMA MarkedAndClosed ==
  ASSUME Tables, NEW g, NEW f \in Fds,
         session' = [Marked({}, {g}) EXCEPT ![f] = NULL]
  PROVE  SessionStep({f, g})
<1>1. session' = [h \in Fds |-> IF h = f THEN NULL ELSE Marked({}, {g})[h]]
  BY DEF Marked
<1>. HIDE DEF Marked
<1>2. \A h \in Fds : session[h] = NULL => Marked({}, {g})[h] = NULL
  BY DEF Marked
<1>3. session' \in [Fds -> socket_data \cup {NULL}]
  <2>1. \A h \in Fds : Marked({}, {g})[h] \in socket_data \cup {NULL}
    BY <1>2, MarkedEntry
  <2>. QED BY <1>1, <2>1
<1>4. ASSUME NEW h \in Fds
      PROVE  IF h \in {f, g} THEN Drops(h) ELSE Keeps(h)
  <2>1. CASE h = f
    BY <1>1, <2>1 DEF Drops
  <2>2. CASE h # f /\ session[h] = NULL
    BY <1>1, <1>2, <2>2 DEF Drops, Keeps
  <2>3. CASE h # f /\ session[h] # NULL
    <3>1. session'[h] = Marked({}, {g})[h]
      BY <1>1, <2>3
    <3>. QED BY <2>3, <3>1, MarkedEntry DEF Drops, Keeps
  <2>. QED BY <2>1, <2>2, <2>3
<1>. QED BY <1>3, <1>4 DEF SessionStep

(* Closing a session drops its data (do_close).                            *)
LEMMA ClosedStep ==
  ASSUME Tables, NEW f \in Fds, Closed(f)
  PROVE  SessionStep({f})
<1>1. session' = [session EXCEPT ![f] = NULL]
  BY DEF Closed
<1>2. session' \in [Fds -> socket_data \cup {NULL}]
  BY <1>1 DEF Tables
<1>3. \A g \in Fds : g # f => session'[g] = session[g]
  BY <1>1 DEF Tables
<1>4. session'[f] = NULL
  BY <1>1 DEF Tables
<1>. QED BY <1>2, <1>3, <1>4 DEF SessionStep, Drops, Keeps

(* Unchanged sessions keep their data.                                     *)
LEMMA SameStep ==
  ASSUME Tables, session' = session, NEW C, \A f \in Fds : f \notin C
  PROVE  SessionStep(C)
BY DEF SessionStep, Keeps, Tables

(* A session_data that is kept is still its session's.                     *)
LEMMA PointsKept ==
  ASSUME NEW C, SessionStep(C), NEW f, f \notin C \cap Fds, NEW sd, PointsTo(f, sd)
  PROVE  f \in Fds => session'[f] # NULL /\ session'[f].sd = sd
BY DEF PointsTo, SessionStep, Keeps

(* An account's player and node have sessions of its own: no other account *)
(* has them, nor they each other (Owner, chrif_auth_logout).               *)
LEMMA FdsApart ==
  ASSUME Tables, NEW a \in Accounts, NEW x \in Accounts
  PROVE  /\ pc_db[a] # NULL /\ pc_db[x] # NULL /\ a # x /\ pc_db[x].fd \in Fds
              => pc_db[x].fd # pc_db[a].fd
         /\ pc_db[a] # NULL /\ auth_db[x] # NULL /\ pc_db[a].fd \in Fds
              => auth_db[x].fd # pc_db[a].fd
         /\ auth_db[a] # NULL /\ auth_db[x] # NULL /\ a # x /\ auth_db[x].fd \in Fds
              => auth_db[x].fd # auth_db[a].fd
<1>1. pc_db[a] # NULL /\ pc_db[x] # NULL /\ a # x /\ pc_db[x].fd \in Fds
        => pc_db[x].fd # pc_db[a].fd
  BY DEF Tables, PlayerOK, PointsTo
<1>2. pc_db[a] # NULL /\ auth_db[x] # NULL /\ pc_db[a].fd \in Fds
        => auth_db[x].fd # pc_db[a].fd
  <2>1. CASE a = x
    BY <2>1 DEF Tables, PlayerOK
  <2>2. CASE a # x
    BY <2>2 DEF Tables, PlayerOK, NodeOK, PointsTo
  <2>. QED BY <2>1, <2>2
<1>3. auth_db[a] # NULL /\ auth_db[x] # NULL /\ a # x /\ auth_db[x].fd \in Fds
        => auth_db[x].fd # auth_db[a].fd
  BY DEF Tables, NodeOK, PointsTo
<1>. QED BY <1>1, <1>2, <1>3

-----------------------------------------------------------------------------
(* How a step treats an account. *)

(* The node is as before, or took the place of the player, or is new and   *)
(* has no session.                                                         *)
NodeFrom(a, C) ==
  auth_db'[a] # NULL =>
    /\ auth_db'[a].fd \notin C \cap Fds
    /\ auth_db'[a].state = "ST_LOGOUT" => auth_db'[a].fd = 0
    /\ auth_db'[a].state = "ST_LOGIN" => (auth_db'[a].fd = 0 <=> auth_db'[a].sd.lid = NULL)
    /\ \/ auth_db[a] # NULL /\ auth_db'[a].fd = auth_db[a].fd /\ auth_db'[a].sd = auth_db[a].sd
       \/ pc_db[a] # NULL /\ auth_db'[a].fd = pc_db[a].fd /\ auth_db'[a].sd = pc_db[a].sd
       \/ auth_db'[a].fd = 0 /\ Owner[auth_db'[a].sd.char_id] = a

(* The player is as before, lost its session, or took the place of a node. *)
PlayerFrom(a, C) ==
  pc_db'[a] # NULL =>
    /\ pc_db'[a].fd \notin C \cap Fds
    /\ \/ /\ pc_db[a] # NULL /\ pc_db'[a].sd = pc_db[a].sd
          /\ pc_db'[a].fd = pc_db[a].fd \/ pc_db'[a].fd = 0
       \/ auth_db[a] # NULL /\ pc_db'[a].fd = auth_db[a].fd /\ pc_db'[a].sd = auth_db[a].sd
    /\ pc_db'[a].fd = 0 /\ pc_db'[a].autotrade = "none" => quit_timers'[a] > 0
    /\ pc_db'[a].autotrade = "loading" => pc_db'[a].fd = 0
    /\ auth_db'[a] # NULL =>
         auth_db'[a].fd = 0 /\ auth_db'[a].state = "ST_LOGIN" /\ ~auth_db'[a].loaded

Typed ==
  /\ auth_db \in [Accounts -> auth_node \cup {NULL}]
  /\ pc_db \in [Accounts -> map_session_data \cup {NULL}]
  /\ quit_timers \in [Accounts -> 0 .. MaxTimers]

(* The three tables stay in order when every account and every session     *)
(* that keeps its data does.                                               *)
LEMMA TablesStep ==
  ASSUME Tables, NEW C, SessionStep(C), Typed',
         \A a \in Accounts : NodeFrom(a, C) /\ PlayerFrom(a, C),
         \A a \in Accounts, f \in Fds : f \notin C /\ OwnedBy(f, a) => OwnedBy(f, a)'
  PROVE  Tables'
<1>1. ASSUME NEW a \in Accounts
      PROVE  NodeOK(a)'
  <2>. SUFFICES ASSUME auth_db'[a] # NULL
                PROVE  /\ auth_db'[a] \in auth_node
                       /\ Owner[auth_db'[a].sd.char_id] = a
                       /\ PointsTo(auth_db[a].fd, auth_db[a].sd)'
                       /\ auth_db'[a].state = "ST_LOGOUT" => auth_db'[a].fd = 0
                       /\ auth_db'[a].state = "ST_LOGIN"
                            => (auth_db'[a].fd = 0 <=> auth_db'[a].sd.lid = NULL)
    BY DEF NodeOK
  <2>1. auth_db'[a] \in auth_node
    BY DEF Typed
  <2>. DEFINE f == auth_db'[a].fd
              sd == auth_db'[a].sd
  <2>2. /\ f \notin C \cap Fds
        /\ auth_db'[a].state = "ST_LOGOUT" => f = 0
        /\ auth_db'[a].state = "ST_LOGIN" => (f = 0 <=> sd.lid = NULL)
    BY DEF NodeFrom
  <2>3. Owner[sd.char_id] = a /\ (f = 0 \/ PointsTo(f, sd))
    <3>1. CASE f = 0 /\ Owner[sd.char_id] = a
      BY <3>1
    <3>2. CASE auth_db[a] # NULL /\ f = auth_db[a].fd /\ sd = auth_db[a].sd
      BY <3>2 DEF Tables, NodeOK
    <3>3. CASE pc_db[a] # NULL /\ f = pc_db[a].fd /\ sd = pc_db[a].sd
      BY <3>3 DEF Tables, PlayerOK
    <3>. QED BY <3>1, <3>2, <3>3 DEF NodeFrom
  <2>4. f \in Fds => session'[f] # NULL /\ session'[f].sd = sd
    BY <2>2, <2>3, PointsKept
  <2>. QED BY <2>1, <2>2, <2>3, <2>4 DEF PointsTo
<1>2. ASSUME NEW a \in Accounts
      PROVE  PlayerOK(a)'
  <2>. SUFFICES ASSUME pc_db'[a] # NULL
                PROVE  Owner[pc_db'[a].sd.char_id] = a /\ PointsTo(pc_db[a].fd, pc_db[a].sd)'
    BY DEF PlayerOK, PlayerFrom, Typed
  <2>. DEFINE f == pc_db'[a].fd
              sd == pc_db'[a].sd
  <2>1. f \notin C \cap Fds
    BY DEF PlayerFrom
  <2>2. Owner[sd.char_id] = a /\ (f = 0 \/ PointsTo(f, sd))
    <3>1. CASE auth_db[a] # NULL /\ f = auth_db[a].fd /\ sd = auth_db[a].sd
      BY <3>1 DEF Tables, NodeOK
    <3>2. CASE pc_db[a] # NULL /\ sd = pc_db[a].sd /\ (f = pc_db[a].fd \/ f = 0)
      BY <3>2 DEF Tables, PlayerOK
    <3>. QED BY <3>1, <3>2 DEF PlayerFrom
  <2>3. f \in Fds => session'[f] # NULL /\ session'[f].sd = sd
    BY <2>1, <2>2, PointsKept
  <2>. QED BY <2>2, <2>3 DEF PointsTo
<1>3. ASSUME NEW f \in Fds
      PROVE  ClientOK(f)'
  <2>. SUFFICES ASSUME HasData(f)', ~session'[f].eof
                PROVE  \E a \in Accounts : a = AccountOf(f)' /\ OwnedBy(f, a)'
    BY DEF ClientOK, OwnedBy
  <2>1. f \notin C /\ HasData(f) /\ session'[f].sd = session[f].sd /\ ~session[f].eof
    BY DEF SessionStep, Drops, Keeps, HasData
  <2>2. AccountOf(f)' = AccountOf(f)
    BY <2>1 DEF AccountOf
  <2>3. AccountOf(f) \in Accounts
    <3>1. session[f].sd \in session_data
      BY <2>1 DEF HasData, Tables, socket_data
    <3>. QED BY <3>1 DEF AccountOf, session_data
  <2>4. OwnedBy(f, AccountOf(f))
    BY <2>1 DEF Tables, ClientOK
  <2>. QED BY <2>1, <2>2, <2>3, <2>4
<1>. QED BY <1>1, <1>2, <1>3 DEF Tables, Typed, SessionStep

(* The players of S quit, and the sessions of C, theirs and nobody else's, *)
(* lose their session_data.                                                *)
Quit(S, C) ==
  /\ S \subseteq {a \in Accounts : pc_db[a] # NULL}
  /\ auth_db' = chrif_auth_logout(S)
  /\ pc_db' = [a \in Accounts |-> IF a \in S THEN NULL ELSE pc_db[a]]
  /\ quit_timers' \in [Accounts -> 0 .. MaxTimers]
  /\ \A a \in Accounts \ S :
       pc_db[a] # NULL /\ pc_db[a].fd = 0 => quit_timers'[a] = quit_timers[a]
  /\ SessionStep(C)
  /\ \A f \in Fds : f \in C <=> \E a \in S : pc_db[a].fd = f

(* Quitting players leave no session_data behind, and only that of their   *)
(* own sessions goes (map_quit).                                           *)
LEMMA QuitTables ==
  ASSUME Tables, NEW S, NEW C, Quit(S, C)
  PROVE  Tables'
<1>. USE DEF Quit
<1>1. ASSUME NEW a \in Accounts
      PROVE  /\ auth_db'[a] \in auth_node \cup {NULL}
             /\ pc_db'[a] \in map_session_data \cup {NULL}
             /\ NodeFrom(a, C) /\ PlayerFrom(a, C)
             /\ \A f \in Fds \ C : OwnedBy(f, a) => OwnedBy(f, a)'
  <2>0. auth_db[a] \in auth_node \cup {NULL} /\ pc_db[a] \in map_session_data \cup {NULL}
    BY DEF Tables
  <2>1. CASE a \in S /\ auth_db[a] = NULL
    <3>. DEFINE node == [sd |-> pc_db[a].sd, state |-> "ST_LOGOUT", fd |-> 0, loaded |-> FALSE]
    <3>1. auth_db'[a] = node /\ pc_db'[a] = NULL
      BY <2>1 DEF chrif_auth_logout
    <3>2. pc_db[a] # NULL /\ pc_db[a].sd \in session_data
      BY <2>0, <2>1 DEF map_session_data
    <3>3. node \in auth_node
      BY <3>2 DEF auth_node
    <3>4. node # NULL
      BY <3>3
    <3>5. NodeFrom(a, C)
      BY <3>1, <3>2 DEF NodeFrom, Tables, PlayerOK
    <3>6. PlayerFrom(a, C)
      BY <3>1 DEF PlayerFrom
    <3>7. \A f \in Fds \ C : ~OwnedBy(f, a)
      BY <2>1 DEF OwnedBy
    <3>. QED BY <3>1, <3>3, <3>5, <3>6, <3>7
  <2>2. CASE a \in S /\ auth_db[a] # NULL
    <3>1. auth_db'[a] = auth_db[a] /\ pc_db'[a] = NULL
      BY <2>2 DEF chrif_auth_logout
    <3>2. auth_db[a].fd = 0 /\ auth_db[a].state = "ST_LOGIN" /\ NodeOK(a)
      BY <2>2 DEF Tables, PlayerOK
    <3>3. NodeFrom(a, C)
      BY <2>2, <3>1, <3>2 DEF NodeFrom, NodeOK
    <3>4. PlayerFrom(a, C)
      BY <3>1 DEF PlayerFrom
    <3>5. \A f \in Fds \ C : ~OwnedBy(f, a)
      BY <2>2, <3>2 DEF OwnedBy
    <3>. QED BY <2>0, <3>1, <3>3, <3>4, <3>5
  <2>3. CASE a \notin S
    <3>1. auth_db'[a] = auth_db[a] /\ pc_db'[a] = pc_db[a]
      BY <2>3 DEF chrif_auth_logout
    <3>2. ASSUME auth_db[a] # NULL, auth_db[a].fd \in C \cap Fds
          PROVE  FALSE
      <4>1. PICK x \in S : pc_db[x].fd = auth_db[a].fd
        BY <3>2
      <4>. QED BY <3>2, <4>1, FdsApart
    <3>3. ASSUME pc_db[a] # NULL, pc_db[a].fd \in C \cap Fds
          PROVE  FALSE
      <4>1. PICK x \in S : pc_db[x].fd = pc_db[a].fd
        BY <3>3
      <4>. QED BY <2>3, <3>3, <4>1, FdsApart
    <3>4. NodeOK(a) /\ PlayerOK(a)
      BY DEF Tables
    <3>5. NodeFrom(a, C)
      BY <3>1, <3>2, <3>4 DEF NodeFrom, NodeOK
    <3>6. PlayerFrom(a, C)
      BY <2>3, <3>1, <3>3, <3>4 DEF PlayerFrom, PlayerOK
    <3>. QED BY <2>0, <3>1, <3>5, <3>6 DEF OwnedBy
  <2>. QED BY <2>1, <2>2, <2>3
<1>2. Typed'
  BY <1>1 DEF Typed, chrif_auth_logout
<1>. QED BY <1>1, <1>2, TablesStep

(* A node without a session may take the place of another.                 *)
Vacant(a) ==
  /\ auth_db'[a] \in auth_node
  /\ auth_db'[a].fd = 0 /\ auth_db'[a].state = "ST_LOGIN" /\ ~auth_db'[a].loaded
  /\ auth_db'[a].sd.lid = NULL /\ Owner[auth_db'[a].sd.char_id] = a

(* The nodes of D go, and the sessions of C, theirs and nobody else's,     *)
(* lose their session_data.                                                *)
Drop(D, C) ==
  /\ D \subseteq {a \in Accounts : auth_db[a] # NULL}
  /\ auth_db' \in [Accounts -> auth_node \cup {NULL}]
  /\ \A a \in D : auth_db'[a] = NULL \/ Vacant(a)
  /\ \A a \in Accounts \ D :
       auth_db'[a] = auth_db[a] \/ (auth_db[a] = NULL /\ Vacant(a))
  /\ pc_db' = pc_db /\ quit_timers' = quit_timers
  /\ SessionStep(C)
  /\ \A a \in D : auth_db[a].fd \in Fds => auth_db[a].fd \in C
  /\ \A a \in Accounts : pc_db[a] # NULL => pc_db[a].fd \notin C \cap Fds
  /\ \A a \in Accounts \ D : auth_db[a] # NULL => auth_db[a].fd \notin C \cap Fds

(* Deleted nodes leave no session_data behind, and nobody else loses his   *)
(* (chrif_auth_delete, chrif_reconnect).                                   *)
LEMMA DropTables ==
  ASSUME Tables, NEW D, NEW C, Drop(D, C)
  PROVE  Tables'
<1>. USE DEF Drop
<1>1. ASSUME NEW a \in Accounts
      PROVE  /\ NodeFrom(a, C) /\ PlayerFrom(a, C)
             /\ \A f \in Fds \ C : OwnedBy(f, a) => OwnedBy(f, a)'
  <2>0. NodeOK(a) /\ PlayerOK(a)
    BY DEF Tables
  <2>1. CASE auth_db'[a] = NULL /\ a \in D
    <3>1. NodeFrom(a, C)
      BY <2>1 DEF NodeFrom
    <3>2. PlayerFrom(a, C)
      BY <2>0, <2>1 DEF PlayerFrom, PlayerOK
    <3>. QED BY <2>1, <3>1, <3>2 DEF OwnedBy
  <2>2. CASE Vacant(a) /\ (a \in D \/ auth_db[a] = NULL)
    <3>1. NodeFrom(a, C)
      BY <2>2 DEF NodeFrom, Vacant
    <3>2. PlayerFrom(a, C)
      BY <2>0, <2>2 DEF PlayerFrom, PlayerOK, Vacant
    <3>. QED BY <2>2, <3>1, <3>2 DEF OwnedBy
  <2>3. CASE auth_db'[a] = auth_db[a] /\ a \notin D
    <3>1. NodeFrom(a, C)
      BY <2>0, <2>3 DEF NodeFrom, NodeOK
    <3>2. PlayerFrom(a, C)
      BY <2>0, <2>3 DEF PlayerFrom, PlayerOK
    <3>. QED BY <2>3, <3>1, <3>2 DEF OwnedBy
  <2>. QED BY <2>1, <2>2, <2>3
<1>2. Typed'
  BY DEF Typed, Tables
<1>. QED BY <1>1, <1>2, TablesStep

(* A node is deleted with its session_data (chrif_auth_delete).            *)
LEMMA DeleteTables ==
  ASSUME Tables, NEW a \in Accounts, auth_db[a] # NULL,
         SetNode(a, NULL), NEW E, session' = Marked(E, {auth_db[a].fd}),
         pc_db[a] # NULL => auth_db[a].fd = 0,
         pc_db' = pc_db, quit_timers' = quit_timers
  PROVE  Tables'
<1>1. SessionStep({auth_db[a].fd})
  BY MarkedStep
<1>2. auth_db' \in [Accounts -> auth_node \cup {NULL}] /\ auth_db'[a] = NULL
  BY DEF SetNode, Tables
<1>3. \A x \in Accounts \ {a} : auth_db'[x] = auth_db[x]
  BY DEF SetNode, Tables
<1>4. \A x \in Accounts : pc_db[x] # NULL => pc_db[x].fd \notin {auth_db[a].fd} \cap Fds
  BY FdsApart
<1>5. \A x \in Accounts \ {a} :
        auth_db[x] # NULL => auth_db[x].fd \notin {auth_db[a].fd} \cap Fds
  BY FdsApart
<1>6. Drop({a}, {auth_db[a].fd})
  BY <1>1, <1>2, <1>3, <1>4, <1>5 DEF Drop
<1>. QED BY <1>6, DropTables

(* Sessions only reach eof (set_eof).                                      *)
LEMMA EofTables ==
  ASSUME Tables, NEW E, session' = Marked(E, {}),
         UNCHANGED <<auth_db, pc_db, quit_timers>>
  PROVE  Tables'
<1>1. SessionStep({})
  BY MarkedStep
<1>2. Drop({}, {})
  BY <1>1 DEF Drop, Tables
<1>. QED BY <1>2, DropTables

(* The sessions are not concerned.                                         *)
LEMMA IdleTables ==
  ASSUME Tables, UNCHANGED <<players, quit_timers>>
  PROVE  Tables'
BY DEF Tables, players, NodeOK, PlayerOK, ClientOK, OwnedBy, PointsTo, HasData, AccountOf

-----------------------------------------------------------------------------
(* The steps of clients. *)

(* The owner of a session is the account of its session_data.              *)
LEMMA OwnerOfData ==
  ASSUME Tables, NEW f \in Fds, NEW a \in Accounts, OwnedBy(f, a)
  PROVE  HasData(f) /\ AccountOf(f) = a
<1>1. ASSUME pc_db[a] # NULL, pc_db[a].fd = f
      PROVE  session[f] # NULL /\ session[f].sd = pc_db[a].sd /\ Owner[pc_db[a].sd.char_id] = a
             /\ pc_db[a].sd \in session_data
  BY <1>1 DEF Tables, PlayerOK, PointsTo, map_session_data
<1>2. ASSUME auth_db[a] # NULL, auth_db[a].fd = f
      PROVE  session[f] # NULL /\ session[f].sd = auth_db[a].sd
             /\ Owner[auth_db[a].sd.char_id] = a /\ auth_db[a].sd \in session_data
  BY <1>2 DEF Tables, NodeOK, PointsTo, auth_node
<1>. QED BY <1>1, <1>2 DEF OwnedBy, HasData, AccountOf

(* The step of a session that nobody owns (CloseUnknown, CloseInactive).   *)
LEMMA StrayTables ==
  ASSUME Tables, NEW f \in Fds, Closed(f), \A a \in Accounts : ~OwnedBy(f, a),
         UNCHANGED <<auth_db, pc_db, quit_timers>>
  PROVE  Tables'
<1>1. SessionStep({f})
  BY ClosedStep
<1>2. \A a \in Accounts : /\ pc_db[a] # NULL => pc_db[a].fd \notin {f} \cap Fds
                          /\ auth_db[a] # NULL => auth_db[a].fd \notin {f} \cap Fds
  BY DEF OwnedBy
<1>3. Drop({}, {f})
  BY <1>1, <1>2 DEF Drop, Tables
<1>. QED BY <1>3, DropTables

LEMMA CloseUnknownTables ==
  ASSUME Tables, NEW f \in Fds, CloseUnknown(f)
  PROVE  Tables'
<1>1. ~HasData(f) /\ Closed(f) /\ UNCHANGED <<auth_db, pc_db, quit_timers>>
  BY DEF CloseUnknown, HasData
<1>2. \A a \in Accounts : ~OwnedBy(f, a)
  BY <1>1, OwnerOfData
<1>. QED BY <1>1, <1>2, StrayTables

(* The session of an active player is closed, and the player stays.        *)
LEMMA DetachTables ==
  ASSUME Tables, NEW f \in Fds, NEW a \in Accounts,
         pc_db[a] # NULL, pc_db[a].fd = f, Closed(f),
         pc_db' = [pc_db EXCEPT ![a].fd = 0], auth_db' = auth_db,
         quit_timers' \in [Accounts -> 0 .. MaxTimers],
         \A x \in Accounts \ {a} : quit_timers'[x] = quit_timers[x],
         pc_db[a].autotrade = "none" => quit_timers'[a] > 0
  PROVE  Tables'
<1>1. SessionStep({f})
  BY ClosedStep
<1>2. ASSUME NEW x \in Accounts
      PROVE  auth_db[x] # NULL => auth_db[x].fd # f
  BY FdsApart
<1>3. \A x \in Accounts : auth_db[x] # NULL => auth_db[x].fd \notin {f} \cap Fds
  BY <1>2
<1>4. ASSUME NEW x \in Accounts
      PROVE  NodeFrom(x, {f})
  BY <1>3 DEF NodeFrom, Tables, NodeOK
<1>5. pc_db'[a] = [pc_db[a] EXCEPT !.fd = 0] /\ pc_db[a] \in map_session_data
  BY DEF Tables
<1>6. /\ pc_db'[a] \in map_session_data /\ pc_db'[a].fd = 0
      /\ pc_db'[a].sd = pc_db[a].sd /\ pc_db'[a].autotrade = pc_db[a].autotrade
  BY <1>5 DEF map_session_data
<1>7. \A x \in Accounts \ {a} : pc_db'[x] = pc_db[x]
  BY DEF Tables
<1>8. PlayerFrom(a, {f})
  BY <1>6 DEF PlayerFrom, Tables, PlayerOK
<1>9. ASSUME NEW x \in Accounts, x # a
      PROVE  PlayerFrom(x, {f})
  <2>1. pc_db[x] # NULL => pc_db[x].fd \notin {f} \cap Fds
    BY <1>9, FdsApart
  <2>2. pc_db'[x] = pc_db[x] /\ quit_timers'[x] = quit_timers[x] /\ PlayerOK(x)
    BY <1>7, <1>9 DEF Tables
  <2>. QED BY <2>1, <2>2 DEF PlayerFrom, PlayerOK
<1>10. \A x \in Accounts, g \in Fds : g \notin {f} /\ OwnedBy(g, x) => OwnedBy(g, x)'
  BY <1>6, <1>7 DEF OwnedBy
<1>11. Typed'
  <2>1. pc_db' \in [Accounts -> map_session_data \cup {NULL}]
    BY <1>6, <1>7 DEF Tables
  <2>. QED BY <2>1 DEF Typed, Tables
<1>. QED BY <1>1, <1>4, <1>8, <1>9, <1>10, <1>11, TablesStep

(* An active player has the session of its account.                        *)
LEMMA ActiveAccount ==
  ASSUME Tables, NEW f \in Fds, IsActive(f)
  PROVE  AccountOf(f) \in Accounts /\ pc_db[AccountOf(f)] # NULL /\ pc_db[AccountOf(f)].fd = f
<1>1. session[f].sd \in session_data
  BY DEF IsActive, HasData, Tables, socket_data
<1>2. AccountOf(f) \in Accounts
  BY <1>1 DEF AccountOf, session_data
<1>. QED BY <1>2 DEF IsActive

LEMMA CloseVendorTables ==
  ASSUME Tables, NEW f \in Fds, CloseVendor(f)
  PROVE  Tables'
<1>. DEFINE a == AccountOf(f)
<1>1. /\ a \in Accounts /\ pc_db[a] # NULL /\ pc_db[a].fd = f
  BY ActiveAccount DEF CloseVendor
<1>2. /\ Closed(f) /\ pc_db' = [pc_db EXCEPT ![a].fd = 0] /\ auth_db' = auth_db
      /\ quit_timers' = quit_timers /\ pc_db[a].autotrade # "none"
  BY DEF CloseVendor
<1>3. quit_timers' \in [Accounts -> 0 .. MaxTimers]
  BY <1>2 DEF Tables
<1>. HIDE DEF a
<1>. QED BY <1>1, <1>2, <1>3, DetachTables

LEMMA CloseInCombatTables ==
  ASSUME Tables, NEW f \in Fds, CloseInCombat(f)
  PROVE  Tables'
<1>. DEFINE a == AccountOf(f)
<1>1. /\ a \in Accounts /\ pc_db[a] # NULL /\ pc_db[a].fd = f
  BY ActiveAccount DEF CloseInCombat
<1>2. /\ Closed(f) /\ pc_db' = [pc_db EXCEPT ![a].fd = 0] /\ auth_db' = auth_db
      /\ quit_timers' = [quit_timers EXCEPT ![a] = @ + 1] /\ quit_timers[a] < MaxTimers
  BY DEF CloseInCombat, StayInCombat
<1>. HIDE DEF a
<1>3. /\ quit_timers' \in [Accounts -> 0 .. MaxTimers]
      /\ \A x \in Accounts \ {a} : quit_timers'[x] = quit_timers[x]
      /\ quit_timers'[a] > 0
  BY <1>1, <1>2, BoundAssumption DEF Tables
<1>. QED BY <1>1, <1>2, <1>3, DetachTables

(* One player quits, and its session, if it has one, is cleared or closed. *)
LEMMA OneQuits ==
  ASSUME Tables, NEW a \in Accounts, pc_db[a] # NULL, map_quit({a}),
         quit_timers' \in [Accounts -> 0 .. MaxTimers],
         \A x \in Accounts \ {a} : quit_timers'[x] = quit_timers[x],
         SessionStep({pc_db[a].fd})
  PROVE  Tables'
<1>1. Quit({a}, {pc_db[a].fd})
  BY DEF Quit, map_quit
<1>. QED BY <1>1, QuitTables

LEMMA CloseAndQuitTables ==
  ASSUME Tables, NEW f \in Fds, CloseAndQuit(f)
  PROVE  Tables'
<1>. DEFINE a == AccountOf(f)
<1>1. /\ a \in Accounts /\ pc_db[a] # NULL /\ pc_db[a].fd = f
  BY ActiveAccount DEF CloseAndQuit
<1>2. Closed(f) /\ map_quit({a}) /\ quit_timers' = quit_timers
  BY DEF CloseAndQuit
<1>. HIDE DEF a
<1>3. SessionStep({pc_db[a].fd})
  BY <1>1, <1>2, ClosedStep
<1>4. quit_timers' \in [Accounts -> 0 .. MaxTimers]
  BY <1>2 DEF Tables
<1>. QED BY <1>1, <1>2, <1>3, <1>4, OneQuits

LEMMA DelayQuitTables ==
  ASSUME Tables, NEW a \in Accounts, DelayQuit(a)
  PROVE  Tables'
<1>1. /\ quit_timers' \in [Accounts -> 0 .. MaxTimers]
      /\ \A x \in Accounts \ {a} : quit_timers'[x] = quit_timers[x]
  BY BoundAssumption DEF DelayQuit, Tables
<1>2. CASE pc_db[a] # NULL /\ pc_db[a].fd = 0
  <2>1. SessionStep({pc_db[a].fd})
    BY <1>2, SameStep DEF DelayQuit
  <2>. QED BY <1>1, <1>2, <2>1, OneQuits DEF DelayQuit
<1>3. CASE ~(pc_db[a] # NULL /\ pc_db[a].fd = 0)
  <2>1. session' = session /\ auth_db' = auth_db /\ pc_db' = pc_db
    BY <1>3 DEF DelayQuit
  <2>2. \A x \in Accounts : NodeOK(x)'
    BY <2>1 DEF Tables, NodeOK, PointsTo
  <2>3. ASSUME NEW x \in Accounts
        PROVE  PlayerOK(x)'
    <3>1. PlayerOK(x)
      BY DEF Tables
    <3>. QED BY <1>1, <1>3, <2>1, <3>1 DEF PlayerOK, PointsTo
  <2>4. \A f \in Fds : ClientOK(f)'
    BY <2>1 DEF Tables, ClientOK, HasData, OwnedBy, AccountOf
  <2>. QED BY <1>1, <2>1, <2>2, <2>3, <2>4 DEF Tables
<1>. QED BY <1>2, <1>3

(* Closing the session of an inactive player deletes the node that refers  *)
(* to it, or one nobody's session: a session at eof may be left over.      *)
LEMMA CloseInactiveTables ==
  ASSUME Tables, NEW f \in Fds, CloseInactive(f)
  PROVE  Tables'
<1>. DEFINE a == AccountOf(f)
            c == session[f].sd.char_id
<1>1. /\ HasData(f) /\ ~IsActive(f) /\ pc_db' = pc_db /\ quit_timers' = quit_timers
      /\ IF ForgottenOnClose(a, c)
           THEN /\ SetNode(a, NULL)
                /\ session' = [Marked({}, {auth_db[a].fd}) EXCEPT ![f] = NULL]
           ELSE Closed(f) /\ UNCHANGED auth_db
  BY DEF CloseInactive
<1>2. a \in Accounts
  <2>1. session[f].sd \in session_data
    BY <1>1 DEF HasData, Tables, socket_data
  <2>. QED BY <2>1 DEF session_data, AccountOf
<1>3. ASSUME NEW x \in Accounts, pc_db[x] # NULL, pc_db[x].fd = f
      PROVE  FALSE
  BY <1>1, <1>3, OwnerOfData DEF OwnedBy, IsActive
<1>4. ASSUME NEW x \in Accounts, auth_db[x] # NULL, auth_db[x].fd = f
      PROVE  x = a /\ ForgottenOnClose(a, c)
  <2>1. x = a
    BY <1>4, OwnerOfData DEF OwnedBy
  <2>2. NodeOK(x)
    BY DEF Tables
  <2>. QED BY <1>4, <2>1, <2>2 DEF NodeOK, PointsTo, ForgottenOnClose
<1>5. CASE ~ForgottenOnClose(a, c)
  <2>1. \A x \in Accounts : ~OwnedBy(f, x)
    BY <1>3, <1>4, <1>5 DEF OwnedBy
  <2>2. Closed(f) /\ UNCHANGED <<auth_db, pc_db, quit_timers>>
    BY <1>1, <1>5
  <2>. QED BY <2>1, <2>2, StrayTables
<1>6. CASE ForgottenOnClose(a, c)
  <2>. DEFINE g == auth_db[a].fd
  <2>. HIDE DEF a, c
  <2>1. auth_db[a] # NULL /\ SetNode(a, NULL)
    BY <1>1, <1>6 DEF ForgottenOnClose
  <2>2. session' = [Marked({}, {g}) EXCEPT ![f] = NULL]
    BY <1>1, <1>6
  <2>3. SessionStep({f, g})
    BY <2>2, MarkedAndClosed
  <2>4. ASSUME NEW x \in Accounts
        PROVE  pc_db[x] # NULL => pc_db[x].fd \notin {f, g} \cap Fds
    BY <1>2, <1>3, <2>1, FdsApart
  <2>5. ASSUME NEW x \in Accounts \ {a}
        PROVE  auth_db[x] # NULL => auth_db[x].fd \notin {f, g} \cap Fds
    BY <1>2, <1>4, <2>1, FdsApart
  <2>6. auth_db' \in [Accounts -> auth_node \cup {NULL}] /\ auth_db'[a] = NULL
    BY <1>2, <2>1 DEF SetNode, Tables
  <2>7. \A x \in Accounts \ {a} : auth_db'[x] = auth_db[x]
    BY <2>1 DEF SetNode, Tables
  <2>8. Drop({a}, {f, g})
    BY <1>1, <1>2, <2>1, <2>3, <2>4, <2>5, <2>6, <2>7 DEF Drop
  <2>. QED BY <2>8, DropTables
<1>. QED BY <1>5, <1>6

(* Asking to enter creates the only owner of the session (chrif_authreq);  *)
(* a refused client is at eof.                                             *)
LEMMA WantTables ==
  ASSUME Tables, NEW f \in Fds, NEW c \in Chars, NEW l \in LoginIds, WantToConnection(f, c, l)
  PROVE  Tables'
<1>. DEFINE a == Owner[c]
            sd == [char_id |-> c, lid |-> l]
            asks == MayConnect(a, c) /\ MayAsk(a)
            entry == [sd |-> IF MayConnect(a, c) THEN sd ELSE NULL, eof |-> ~asks]
            node == [sd |-> sd, state |-> "ST_LOGIN", fd |-> f, loaded |-> FALSE]
<1>1. /\ ~HasData(f) /\ session' = [session EXCEPT ![f] = entry]
      /\ asks => auth_db' = [auth_db EXCEPT ![a] = node]
      /\ ~asks => auth_db' = auth_db
      /\ pc_db' = pc_db /\ quit_timers' = quit_timers
  <2>1. asks => chrif_sd_to_auth(sd, "ST_LOGIN", f) = [auth_db EXCEPT ![a] = node]
    BY DEF chrif_sd_to_auth, MayAsk, Tables
  <2>. QED BY <2>1 DEF WantToConnection, HasData
<1>2. a \in Accounts /\ sd \in session_data /\ sd # NULL
  <2>1. a \in Accounts /\ sd \in session_data
    BY DEF session_data
  <2>. QED BY <2>1
<1>3. entry \in socket_data /\ node \in auth_node /\ node # NULL /\ entry # NULL
  <2>. HIDE DEF asks, sd
  <2>1. (~asks) \in BOOLEAN
    BY DEF asks
  <2>2. entry \in socket_data
    BY <1>2, <2>1 DEF socket_data
  <2>3. node \in auth_node
    BY <1>2 DEF auth_node
  <2>. QED BY <2>2, <2>3
<1>4. asks => pc_db[a] = NULL /\ entry.sd = sd /\ MayConnect(a, c)
  BY DEF MayConnect
<1>5. ~asks => entry.eof
  OBVIOUS
<1>6. session' \in [Fds -> socket_data \cup {NULL}] /\ session'[f] = entry
      /\ \A g \in Fds \ {f} : session'[g] = session[g]
  BY <1>1, <1>3 DEF Tables
<1>7. \A x \in Accounts : ~OwnedBy(f, x)
  BY <1>1, OwnerOfData
<1>. HIDE DEF entry, asks, a
<1>8. auth_db' \in [Accounts -> auth_node \cup {NULL}]
  BY <1>1, <1>3 DEF Tables
<1>9. ASSUME NEW x \in Accounts
      PROVE  NodeOK(x)'
  <2>1. CASE asks /\ x = a
    <3>1. auth_db'[x] = node
      BY <1>1, <2>1 DEF Tables
    <3>. QED BY <1>3, <1>4, <1>6, <2>1, <3>1 DEF NodeOK, PointsTo, a
  <2>2. CASE ~(asks /\ x = a)
    <3>1. auth_db'[x] = auth_db[x] /\ NodeOK(x)
      BY <1>1, <2>2 DEF Tables
    <3>2. auth_db[x] # NULL => auth_db[x].fd # f
      BY <1>7 DEF OwnedBy
    <3>. QED BY <1>6, <3>1, <3>2 DEF NodeOK, PointsTo
  <2>. QED BY <2>1, <2>2
<1>10. ASSUME NEW x \in Accounts
       PROVE  PlayerOK(x)'
  <2>. SUFFICES ASSUME pc_db[x] # NULL
                PROVE  PlayerOK(x)'
    BY <1>1 DEF PlayerOK
  <2>1. PlayerOK(x) /\ pc_db'[x] = pc_db[x] /\ quit_timers'[x] = quit_timers[x]
    BY <1>1 DEF Tables
  <2>2. auth_db'[x] = auth_db[x]
    BY <1>1, <1>4 DEF Tables
  <2>3. pc_db[x].fd # f
    BY <1>7 DEF OwnedBy
  <2>. QED BY <1>6, <2>1, <2>2, <2>3 DEF PlayerOK, PointsTo
<1>11. ASSUME NEW g \in Fds
       PROVE  ClientOK(g)'
  <2>1. CASE g = f
    <3>1. asks => auth_db'[a] = node /\ AccountOf(f)' = a
      BY <1>1, <1>2, <1>4, <1>6 DEF Tables, AccountOf, a
    <3>. QED BY <1>3, <1>5, <1>6, <2>1, <3>1 DEF ClientOK, OwnedBy
  <2>2. CASE g # f
    <3>. SUFFICES ASSUME HasData(g), ~session[g].eof
                  PROVE  OwnedBy(g, AccountOf(g))'
      BY <1>6, <2>2 DEF ClientOK, HasData
    <3>1. AccountOf(g)' = AccountOf(g) /\ OwnedBy(g, AccountOf(g))
      BY <1>6, <2>2 DEF AccountOf, Tables, ClientOK
    <3>2. asks => auth_db[a] = NULL
      BY DEF asks, MayAsk
    <3>3. \A x \in Accounts : auth_db[x] # NULL => auth_db'[x] = auth_db[x]
      BY <1>1, <3>2 DEF Tables
    <3>4. AccountOf(g) \in Accounts
      <4>1. session[g].sd \in session_data
        BY DEF HasData, Tables, socket_data
      <4>. QED BY <4>1 DEF AccountOf, session_data
    <3>. QED BY <1>1, <3>1, <3>3, <3>4 DEF OwnedBy
  <2>. QED BY <2>1, <2>2
<1>12. pc_db' \in [Accounts -> map_session_data \cup {NULL}]
       /\ quit_timers' \in [Accounts -> 0 .. MaxTimers]
  BY <1>1 DEF Tables
<1>. QED BY <1>6, <1>8, <1>9, <1>10, <1>11, <1>12 DEF Tables

-----------------------------------------------------------------------------
(* The steps of players. *)

(* A shop opens (Autotrade, VendorReopen).                                 *)
LEMMA ShopTables ==
  ASSUME Tables, NEW a \in Accounts, pc_db[a] # NULL,
         pc_db' = [pc_db EXCEPT ![a].autotrade = "open"], SessionStep({}),
         auth_db' = auth_db, quit_timers' = quit_timers
  PROVE  Tables'
<1>1. pc_db'[a] = [pc_db[a] EXCEPT !.autotrade = "open"] /\ pc_db[a] \in map_session_data
  BY DEF Tables
<1>2. /\ pc_db'[a] \in map_session_data /\ pc_db'[a].fd = pc_db[a].fd
      /\ pc_db'[a].sd = pc_db[a].sd /\ pc_db'[a].autotrade = "open"
  BY <1>1 DEF map_session_data
<1>3. \A x \in Accounts \ {a} : pc_db'[x] = pc_db[x]
  BY DEF Tables
<1>4. ASSUME NEW x \in Accounts
      PROVE  NodeFrom(x, {})
  <2>1. NodeOK(x)
    BY DEF Tables
  <2>. QED BY <2>1 DEF NodeFrom, NodeOK
<1>5. ASSUME NEW x \in Accounts
      PROVE  PlayerFrom(x, {})
  <2>1. PlayerOK(x)
    BY DEF Tables
  <2>. QED BY <1>2, <1>3, <2>1 DEF PlayerFrom, PlayerOK
<1>6. \A x \in Accounts, f \in Fds : OwnedBy(f, x) => OwnedBy(f, x)'
  BY <1>2, <1>3 DEF OwnedBy
<1>7. Typed'
  <2>1. pc_db' \in [Accounts -> map_session_data \cup {NULL}]
    BY <1>2, <1>3 DEF Tables
  <2>. QED BY <2>1 DEF Typed, Tables
<1>. QED BY <1>4, <1>5, <1>6, <1>7, TablesStep

(* A player without a session quits where no session is touched.           *)
LEMMA DetachedQuits ==
  ASSUME Tables, NEW a \in Accounts, pc_db[a] # NULL, pc_db[a].fd = 0, map_quit({a}),
         session' = session, quit_timers' = quit_timers
  PROVE  Tables'
<1>1. SessionStep({pc_db[a].fd})
  BY SameStep
<1>2. quit_timers' \in [Accounts -> 0 .. MaxTimers]
  BY DEF Tables
<1>. QED BY <1>1, <1>2, OneQuits

(* A player quits and its session is left without session_data.            *)
LEMMA ClearedQuits ==
  ASSUME Tables, NEW a \in Accounts, pc_db[a] # NULL, map_quit({a}),
         NEW E, session' = Marked(E, {pc_db[a].fd}), quit_timers' = quit_timers
  PROVE  Tables'
<1>1. SessionStep({pc_db[a].fd})
  BY MarkedStep
<1>2. quit_timers' \in [Accounts -> 0 .. MaxTimers]
  BY DEF Tables
<1>. QED BY <1>1, <1>2, OneQuits

(* The node that moves takes the player's place (chrif_changemapserver).   *)
LEMMA ChangeTables ==
  ASSUME Tables, NEW a \in Accounts, ChangeMapServer(a)
  PROVE  Tables'
<1>. DEFINE node == [sd |-> pc_db[a].sd, state |-> "ST_MAPCHANGE",
                     fd |-> pc_db[a].fd, loaded |-> FALSE]
<1>1. pc_db[a] # NULL /\ pc_db[a] \in map_session_data /\ PlayerOK(a)
  BY DEF ChangeMapServer, Tables
<1>2. node \in auth_node
  BY <1>1 DEF map_session_data, auth_node
<1>3. auth_db' = [auth_db EXCEPT ![a] = node]
  <2>1. auth_db' = chrif_sd_to_auth(pc_db[a].sd, "ST_MAPCHANGE", pc_db[a].fd)
    BY DEF ChangeMapServer
  <2>2. auth_db[a] = NULL /\ Owner[pc_db[a].sd.char_id] = a
    BY <1>1 DEF ChangeMapServer, PlayerOK
  <2>3. auth_db' = [x \in Accounts |-> IF x = a THEN node ELSE auth_db[x]]
    BY <2>1, <2>2 DEF chrif_sd_to_auth
  <2>. HIDE DEF node
  <2>4. auth_db \in [Accounts -> auth_node \cup {NULL}]
    BY DEF Tables
  <2>. QED BY <2>3, <2>4
<1>4. /\ pc_db' = [pc_db EXCEPT ![a] = NULL] /\ quit_timers' = quit_timers
      /\ session' = session
  BY DEF ChangeMapServer, SetPlayer
<1>5. SessionStep({})
  BY <1>4, SameStep
<1>6. ASSUME NEW x \in Accounts
      PROVE  NodeFrom(x, {}) /\ PlayerFrom(x, {})
  <2>1. NodeOK(x) /\ PlayerOK(x)
    BY DEF Tables
  <2>2. CASE x = a
    <3>1. auth_db'[a] = node /\ pc_db'[a] = NULL
      BY <1>3, <1>4 DEF Tables
    <3>. QED BY <1>1, <2>2, <3>1 DEF NodeFrom, PlayerFrom
  <2>3. CASE x # a
    <3>1. auth_db'[x] = auth_db[x] /\ pc_db'[x] = pc_db[x]
      BY <1>3, <1>4, <2>3 DEF Tables
    <3>. QED BY <1>4, <2>1, <3>1 DEF NodeFrom, PlayerFrom, NodeOK, PlayerOK
  <2>. QED BY <2>2, <2>3
<1>7. ASSUME NEW x \in Accounts, NEW f \in Fds, OwnedBy(f, x)
      PROVE  OwnedBy(f, x)'
  <2>1. auth_db[a] = NULL
    BY DEF ChangeMapServer
  <2>2. auth_db'[a] = node /\ node # NULL
    BY <1>2, <1>3 DEF Tables
  <2>3. x # a => auth_db'[x] = auth_db[x] /\ pc_db'[x] = pc_db[x]
    BY <1>3, <1>4 DEF Tables
  <2>. QED BY <1>7, <2>1, <2>2, <2>3 DEF OwnedBy
<1>8. Typed'
  BY <1>2, <1>3, <1>4 DEF Typed, Tables
<1>. QED BY <1>5, <1>6, <1>7, <1>8, TablesStep

(* The steps of one player keep the tables in order.                       *)
LEMMA PlayerTables ==
  ASSUME Tables, NEW a \in Accounts,
         \/ DelayQuit(a)
         \/ Play(a) \/ Autosave(a) \/ CharSelectReq(a) \/ ChangeMapServer(a) \/ Kick(a)
         \/ Autotrade(a) \/ VendorReopen(a) \/ VendorFails(a) \/ VendorDone(a)
  PROVE  Tables'
<1>1. CASE DelayQuit(a)
  BY <1>1, DelayQuitTables
<1>2. CASE Play(a) \/ Autosave(a) \/ CharSelectReq(a)
  BY <1>2, IdleTables DEF Play, Autosave, CharSelectReq
<1>3. CASE ChangeMapServer(a)
  BY <1>3, ChangeTables
<1>4. CASE Kick(a)
  <2>1. CASE pc_db[a].fd # 0
    BY <1>4, <2>1, EofTables DEF Kick, SetEof
  <2>2. CASE pc_db[a].fd = 0
    BY <1>4, <2>2, DetachedQuits DEF Kick
  <2>. QED BY <2>1, <2>2
<1>5. CASE Autotrade(a)
  <2>1. SessionStep({})
    BY <1>5, MarkedStep DEF Autotrade, SetEof
  <2>. QED BY <1>5, <2>1, ShopTables DEF Autotrade, Playing
<1>6. CASE VendorReopen(a)
  <2>1. SessionStep({})
    BY <1>6, SameStep DEF VendorReopen
  <2>. QED BY <1>6, <2>1, ShopTables DEF VendorReopen
<1>7. CASE VendorFails(a)
  <2>1. pc_db[a] # NULL /\ pc_db[a].fd = 0
    BY <1>7 DEF VendorFails, Tables, PlayerOK
  <2>. QED BY <1>7, <2>1, DetachedQuits DEF VendorFails
<1>8. CASE VendorDone(a)
  BY <1>8, ClearedQuits DEF VendorDone
<1>. QED BY <1>1, <1>2, <1>3, <1>4, <1>5, <1>6, <1>7, <1>8

-----------------------------------------------------------------------------
(* The steps of the char-server, the link and the process. *)

(* The answer to a login (chrif_authok).                                   *)
LEMMA AuthOkTables ==
  ASSUME Tables, NEW a \in Accounts, NEW c, NEW l, NEW fits, AuthOk(a, c, l, fits)
  PROVE  Tables'
<1>1. /\ pc_db[a] = NULL /\ auth_db[a] # NULL
      /\ pc_db' = pc_db /\ quit_timers' = quit_timers
  BY DEF AuthOk, HasNode
<1>2. CASE auth_db' = [auth_db EXCEPT ![a].loaded = TRUE] /\ session' = session
  <2>1. auth_db[a] \in auth_node /\ auth_db'[a] = [auth_db[a] EXCEPT !.loaded = TRUE]
    BY <1>1, <1>2 DEF Tables
  <2>2. /\ auth_db'[a] \in auth_node /\ auth_db'[a].fd = auth_db[a].fd
        /\ auth_db'[a].sd = auth_db[a].sd /\ auth_db'[a].state = auth_db[a].state
    BY <2>1 DEF auth_node
  <2>3. \A x \in Accounts \ {a} : auth_db'[x] = auth_db[x]
    BY <1>2 DEF Tables
  <2>4. ASSUME NEW x \in Accounts
        PROVE  NodeFrom(x, {}) /\ PlayerFrom(x, {})
    <3>1. NodeOK(x) /\ PlayerOK(x)
      BY DEF Tables
    <3>2. auth_db'[x] # NULL =>
            /\ auth_db[x] # NULL
            /\ auth_db'[x].fd = auth_db[x].fd /\ auth_db'[x].sd = auth_db[x].sd
            /\ auth_db'[x].state = auth_db[x].state
      BY <1>1, <2>2, <2>3
    <3>3. NodeFrom(x, {})
      BY <3>1, <3>2 DEF NodeFrom, NodeOK
    <3>4. PlayerFrom(x, {})
      BY <1>1, <2>3, <3>1 DEF PlayerFrom, PlayerOK
    <3>. QED BY <3>3, <3>4
  <2>5. \A x \in Accounts, f \in Fds : OwnedBy(f, x) => OwnedBy(f, x)'
    <3>1. auth_db'[a] # NULL
      BY <2>2
    <3>. QED BY <1>1, <2>2, <2>3, <3>1 DEF OwnedBy
  <2>6. Typed'
    BY <1>1, <1>2, <2>2, <2>3 DEF Typed, Tables
  <2>7. SessionStep({})
    BY <1>2, SameStep
  <2>. QED BY <2>4, <2>5, <2>6, <2>7, TablesStep
<1>3. CASE RefuseAndDelete(a)
  BY <1>1, <1>3, DeleteTables DEF RefuseAndDelete
<1>4. CASE SetEof(auth_db[a].fd) /\ auth_db' = auth_db
  BY <1>1, <1>4, EofTables DEF SetEof
<1>. QED BY <1>2, <1>3, <1>4 DEF AuthOk

(* The node makes way for the player (pc_reg_received).                    *)
LEMMA RegTables ==
  ASSUME Tables, NEW a \in Accounts, RegReceived(a)
  PROVE  Tables'
<1>. DEFINE sd == auth_db[a].sd
            entry == [sd |-> sd, fd |-> auth_db[a].fd,
                      autotrade |-> IF sd.lid = NULL THEN "loading" ELSE "none"]
<1>1. /\ auth_db[a] # NULL /\ auth_db[a].state = "ST_LOGIN" /\ auth_db[a].loaded
      /\ auth_db' = [auth_db EXCEPT ![a] = NULL] /\ pc_db' = [pc_db EXCEPT ![a] = entry]
      /\ quit_timers' = quit_timers /\ session' = session
  BY DEF RegReceived, HasNode, chrif_auth_finished, SetNode, SetPlayer
<1>2. auth_db[a] \in auth_node /\ NodeOK(a) /\ pc_db[a] = NULL
  BY <1>1 DEF Tables, PlayerOK
<1>3. entry \in map_session_data
  BY <1>2 DEF auth_node, map_session_data
<1>4. /\ auth_db'[a] = NULL /\ pc_db'[a] = entry
      /\ \A x \in Accounts \ {a} : auth_db'[x] = auth_db[x] /\ pc_db'[x] = pc_db[x]
  BY <1>1 DEF Tables
<1>5. ASSUME NEW x \in Accounts
      PROVE  NodeFrom(x, {}) /\ PlayerFrom(x, {})
  <2>1. NodeOK(x) /\ PlayerOK(x)
    BY DEF Tables
  <2>2. CASE x = a
    BY <1>1, <1>2, <1>4, <2>2 DEF NodeFrom, PlayerFrom, NodeOK
  <2>3. CASE x # a
    BY <1>1, <1>4, <2>1, <2>3 DEF NodeFrom, PlayerFrom, NodeOK, PlayerOK
  <2>. QED BY <2>2, <2>3
<1>6. ASSUME NEW x \in Accounts, NEW f \in Fds, OwnedBy(f, x)
      PROVE  OwnedBy(f, x)'
  <2>1. entry # NULL
    BY <1>3
  <2>. QED BY <1>2, <1>4, <1>6, <2>1 DEF OwnedBy
<1>7. Typed'
  BY <1>1, <1>3 DEF Typed, Tables
<1>8. SessionStep({})
  BY <1>1, SameStep
<1>. QED BY <1>5, <1>6, <1>7, <1>8, TablesStep

(* A quitter is acknowledged (chrif_save_ack).                             *)
LEMMA SaveAckTables ==
  ASSUME Tables, NEW a \in Accounts, NEW c, SaveAck(a, c)
  PROVE  Tables'
<1>1. session' = session /\ pc_db' = pc_db /\ quit_timers' = quit_timers
  BY DEF SaveAck
<1>2. CASE HasNode(a, "ST_LOGOUT") /\ auth_db[a].sd.char_id = c
  <2>1. auth_db[a] # NULL /\ auth_db[a].fd = 0
    BY <1>2 DEF HasNode, Tables, NodeOK
  <2>2. auth_db' = [auth_db EXCEPT ![a] = NULL]
    BY <1>2 DEF SaveAck
  <2>3. /\ auth_db' \in [Accounts -> auth_node \cup {NULL}] /\ auth_db'[a] = NULL
        /\ \A x \in Accounts \ {a} : auth_db'[x] = auth_db[x]
    BY <2>2 DEF Tables
  <2>4. SessionStep({})
    BY <1>1, SameStep
  <2>5. Drop({a}, {})
    BY <1>1, <2>1, <2>3, <2>4 DEF Drop
  <2>. QED BY <2>5, DropTables
<1>3. CASE ~(HasNode(a, "ST_LOGOUT") /\ auth_db[a].sd.char_id = c)
  BY <1>1, <1>3, IdleTables DEF SaveAck, players
<1>. QED BY <1>2, <1>3

(* The char-server's packets and the clean-up keep the tables in order.    *)
LEMMA CharServerTables ==
  ASSUME Tables, CharServerStep
  PROVE  Tables'
<1>1. ASSUME NEW a \in Accounts, NEW c, NEW l, AuthFail(a, c, l)
      PROVE  Tables'
  <2>1. auth_db[a] # NULL /\ (pc_db[a] # NULL => auth_db[a].fd = 0)
    BY <1>1 DEF AuthFail, HasNode, Tables, PlayerOK
  <2>. QED BY <1>1, <2>1, DeleteTables DEF AuthFail, RefuseAndDelete
<1>2. ASSUME NEW a \in Accounts, NEW c, NEW ok, ChangeAck(a, c, ok)
      PROVE  Tables'
  <2>1. auth_db[a] # NULL /\ (pc_db[a] # NULL => auth_db[a].fd = 0)
    BY <1>2 DEF ChangeAck, HasNode, Tables, PlayerOK
  <2>. QED BY <1>2, <2>1, DeleteTables DEF ChangeAck, RefuseAndDelete, chrif_auth_delete
<1>3. ASSUME NEW a \in Accounts, DisconnectLogin(a)
      PROVE  Tables'
  BY <1>3, DeleteTables DEF DisconnectLogin, HasNode, chrif_auth_delete
<1>4. ASSUME NEW a \in Accounts, DisconnectPlayer(a)
      PROVE  Tables'
  <2>1. CASE pc_db[a].fd # 0 /\ SetEof(pc_db[a].fd) /\ UNCHANGED <<auth_db, pc_db>>
    BY <1>4, <2>1, EofTables DEF DisconnectPlayer, SetEof
  <2>2. CASE DisconnectsAtOnce(a) /\ map_quit({a}) /\ UNCHANGED session
    BY <1>4, <2>2, DetachedQuits DEF DisconnectPlayer, DisconnectsAtOnce
  <2>. QED BY <1>4, <2>1, <2>2 DEF DisconnectPlayer
<1>5. ASSUME NEW a \in Accounts, Ban(a)
      PROVE  Tables'
  BY <1>5, ClearedQuits DEF Ban
<1>6. ASSUME NEW a \in Accounts, Cleanup(a)
      PROVE  Tables'
  <2>1. auth_db[a] # NULL /\ (pc_db[a] # NULL => auth_db[a].fd = 0)
    BY <1>6 DEF Cleanup, Tables, PlayerOK
  <2>2. CASE HasNode(a, "ST_LOGOUT")
    BY <1>6, <2>2, IdleTables DEF Cleanup, players
  <2>3. CASE ~HasNode(a, "ST_LOGOUT")
    BY <1>6, <2>1, <2>3, DeleteTables DEF Cleanup, chrif_auth_delete
  <2>. QED BY <2>2, <2>3
<1>. QED
  BY <1>1, <1>2, <1>3, <1>4, <1>5, <1>6, AuthOkTables, RegTables, SaveAckTables
     DEF CharServerStep

(* The steps of clients keep the tables in order.                          *)
LEMMA ClientTables ==
  ASSUME Tables, ClientStep
  PROVE  Tables'
<1>1. ASSUME NEW f \in Fds, ClientGone(f)
      PROVE  Tables'
  BY <1>1, EofTables DEF ClientGone, SetEof
<1>. QED
  BY <1>1, WantTables, CloseUnknownTables, CloseVendorTables, CloseAndQuitTables,
     CloseInCombatTables, CloseInactiveTables DEF ClientStep, CloseSession

(* Once the link is ready, logins are given up and shops restored          *)
(* (chrif_on_ready).                                                       *)
LEMMA OnReadyTables ==
  ASSUME Tables, vendings \in SUBSET Chars, OnReady
  PROVE  Tables'
<1>. DEFINE D == In("ST_LOGIN")
            C == NodeFds(D)
<1>1. /\ pc_db' = pc_db /\ quit_timers' = quit_timers
      /\ session' = Marked(Unreachable, C)
  BY DEF OnReady
<1>2. PICK V \in SUBSET vendings :
        /\ IF FeatureAutotrade THEN Restorable(V) ELSE V = {}
        /\ auth_db' = Restored(V)
  BY DEF OnReady
<1>3. SessionStep(C)
  BY <1>1, MarkedStep
<1>4. \A a \in D : a \in Accounts /\ auth_db[a] # NULL /\ auth_db[a].fd \in C
  BY DEF In, HasNode, NodeFds
<1>5. ASSUME NEW x \in Accounts, pc_db[x] # NULL, pc_db[x].fd \in C \cap Fds
      PROVE  FALSE
  <2>1. PICK a \in D : auth_db[a].fd = pc_db[x].fd
    BY <1>5 DEF NodeFds
  <2>. QED BY <1>4, <1>5, <2>1, FdsApart
<1>6. ASSUME NEW x \in Accounts \ D, auth_db[x] # NULL, auth_db[x].fd \in C \cap Fds
      PROVE  FALSE
  <2>1. PICK a \in D : auth_db[a].fd = auth_db[x].fd
    BY <1>6 DEF NodeFds
  <2>. QED BY <1>4, <1>6, <2>1, FdsApart
<1>7. ASSUME NEW a \in Accounts
      PROVE  /\ a \in D => auth_db'[a] = NULL \/ Vacant(a)
             /\ a \notin D => auth_db'[a] = auth_db[a] \/ (auth_db[a] = NULL /\ Vacant(a))
  <2>1. chrif_reconnect[a] = IF a \in D THEN NULL ELSE auth_db[a]
    BY DEF chrif_reconnect
  <2>. HIDE DEF D
  <2>2. CASE \E c \in V : Owner[c] = a
    <3>1. PICK c \in V : Owner[c] = a /\ auth_db'[a] = VendorNode(c)
      BY <1>2, <2>2 DEF Restored
    <3>2. c \in Chars /\ chrif_reconnect[a] = NULL
      BY <1>2, <3>1 DEF Restorable
    <3>3. VendorNode(c) \in auth_node
      BY <3>2 DEF VendorNode, Vendor, auth_node, session_data
    <3>4. Vacant(a)
      BY <3>1, <3>3 DEF Vacant, VendorNode, Vendor
    <3>. QED BY <2>1, <3>2, <3>4
  <2>3. CASE ~\E c \in V : Owner[c] = a
    <3>1. auth_db'[a] = chrif_reconnect[a]
      BY <1>2, <2>3 DEF Restored
    <3>. QED BY <2>1, <3>1
  <2>. QED BY <2>2, <2>3
<1>8. auth_db' \in [Accounts -> auth_node \cup {NULL}]
  <2>1. \A a \in Accounts : auth_db'[a] \in auth_node \cup {NULL}
    BY <1>7 DEF Tables, Vacant
  <2>. QED BY <1>2, <2>1 DEF Restored
<1>. HIDE DEF D, C
<1>9. Drop(D, C)
  <2>1. D \subseteq {a \in Accounts : auth_db[a] # NULL}
    BY <1>4
  <2>. QED BY <1>1, <1>3, <1>4, <1>5, <1>6, <1>7, <1>8, <2>1 DEF Drop
<1>. QED BY <1>9, DropTables

(* Told to shut down, players without a connection quit at once and the    *)
(* others when their client is dropped (do_shutdown).                      *)
LEMMA ShutdownTables ==
  ASSUME Tables, DoShutdown
  PROVE  Tables'
<1>. DEFINE S == {a \in Accounts : pc_db[a] # NULL /\ pc_db[a].fd = 0}
<1>1. map_quit(S) /\ quit_timers' = quit_timers
  BY DEF DoShutdown
<1>2. SessionStep({})
  BY MarkedStep DEF DoShutdown
<1>3. quit_timers' \in [Accounts -> 0 .. MaxTimers]
  BY <1>1 DEF Tables
<1>4. \A f \in Fds : f \in {} <=> \E a \in S : pc_db[a].fd = f
  OBVIOUS
<1>5. Quit(S, {})
  BY <1>1, <1>2, <1>3, <1>4 DEF Quit, map_quit
<1>. QED BY <1>5, QuitTables

(* An ended process has no tables (Stop, Crash).                           *)
LEMMA EmptiedTables ==
  ASSUME Emptied
  PROVE  Tables'
<1>1. \A a \in Accounts : auth_db'[a] = NULL /\ pc_db'[a] = NULL
  BY DEF Emptied
<1>2. \A f \in Fds : session'[f] = NULL
  BY DEF Emptied
<1>. QED BY <1>1, <1>2, BoundAssumption
         DEF Tables, Emptied, NodeOK, PlayerOK, ClientOK, HasData

(* Every step keeps the tables in order.                                   *)
LEMMA StepTables ==
  ASSUME Tables, vendings \in SUBSET Chars, Next
  PROVE  Tables'
<1>1. CASE PlayerStep
  BY <1>1, PlayerTables DEF PlayerStep
<1>2. CASE LinkStep
  BY <1>2, OnReadyTables, IdleTables DEF LinkStep, LinkUp, LinkLost, MapsReceived, MapsRemoved
<1>3. CASE ProcessStep
  BY <1>3, ShutdownTables, EmptiedTables, IdleTables DEF ProcessStep, Stop, Crash, Start
<1>. QED BY <1>1, <1>2, <1>3, ClientTables, CharServerTables DEF Next

-----------------------------------------------------------------------------
(* What is typed besides the tables. *)

(* The characters of players and nodes are characters.                     *)
LEMMA CharsTyped ==
  ASSUME Tables, NEW a \in Accounts
  PROVE  /\ pc_db[a] # NULL => pc_db[a].sd.char_id \in Chars
         /\ auth_db[a] # NULL => auth_db[a].sd.char_id \in Chars
BY DEF Tables, map_session_data, auth_node, session_data

LEMMA PacketTyped ==
  ASSUME NEW c \in Chars
  PROVE  /\ Save(c, TRUE) \in CharPacket /\ Save(c, FALSE) \in CharPacket
         /\ Packet("offline", c) \in CharPacket /\ Packet("change", c) \in CharPacket
         /\ Packet("charselect", c) \in CharPacket
<1>1. Save(c, TRUE) \in [type : {"save"}, char_id : Chars, final : BOOLEAN]
  BY DEF Save
<1>2. Save(c, FALSE) \in [type : {"save"}, char_id : Chars, final : BOOLEAN]
  BY DEF Save
<1>3. \A t \in {"offline", "change", "charselect"} :
        Packet(t, c) \in [type : {"offline", "change", "charselect"}, char_id : Chars]
  BY DEF Packet
<1>. QED BY <1>1, <1>2, <1>3 DEF CharPacket

(* A step that writes P and marks S as sent keeps the types.               *)
LEMMA SendTyped ==
  ASSUME RestOK, NEW P \in SUBSET CharPacket, Send(P), NEW S, Sent(S)
  PROVE  toChar' \in SUBSET CharPacket /\ unsaved' \in SUBSET Chars
BY DEF RestOK, Send, Sent

LEMMA QuitTyped ==
  ASSUME Tables, RestOK, NEW S, S \subseteq {a \in Accounts : pc_db[a] # NULL}, map_quit(S)
  PROVE  toChar' \in SUBSET CharPacket /\ unsaved' \in SUBSET Chars
<1>1. CharsOf(S) \subseteq Chars
  BY CharsTyped DEF CharsOf
<1>2. {Save(c, TRUE) : c \in CharsOf(S)} \in SUBSET CharPacket
  BY <1>1, PacketTyped
<1>. QED BY <1>2, SendTyped DEF map_quit

LEMMA ClientRest ==
  ASSUME Tables, RestOK, ClientStep
  PROVE  RestOK'
<1>. USE DEF RestOK, server
<1>1. ASSUME NEW f \in Fds, NEW c \in Chars, NEW l \in LoginIds, WantToConnection(f, c, l)
      PROVE  RestOK'
  <2>. DEFINE sd == [char_id |-> c, lid |-> l]
  <2>1. [type |-> "reqauth", sd |-> sd] \in CharPacket
    <3>1. sd \in session_data
      BY DEF session_data
    <3>. QED BY <3>1 DEF CharPacket
  <2>2. toChar' \in SUBSET CharPacket
    BY <1>1, <2>1 DEF WantToConnection
  <2>. QED BY <1>1, <2>2 DEF WantToConnection
<1>2. ASSUME NEW f \in Fds, CloseAndQuit(f)
      PROVE  RestOK'
  <2>1. toChar' \in SUBSET CharPacket /\ unsaved' \in SUBSET Chars
    BY <1>2, ActiveAccount, QuitTyped DEF CloseAndQuit
  <2>. QED BY <1>2, <2>1 DEF CloseAndQuit
<1>3. ASSUME NEW f \in Fds,
             ClientGone(f) \/ CloseUnknown(f) \/ CloseVendor(f) \/ CloseInCombat(f)
               \/ CloseInactive(f)
      PROVE  RestOK'
  BY <1>3 DEF ClientGone, CloseUnknown, CloseVendor, CloseInCombat, CloseInactive, Silent
<1>. QED BY <1>1, <1>2, <1>3 DEF ClientStep, CloseSession

LEMMA PlayerRest ==
  ASSUME Tables, RestOK, PlayerStep
  PROVE  RestOK'
<1>. USE DEF RestOK, server
<1>1. PICK a \in Accounts :
        \/ DelayQuit(a)
        \/ Play(a) \/ Autosave(a) \/ CharSelectReq(a) \/ ChangeMapServer(a) \/ Kick(a)
        \/ Autotrade(a) \/ VendorReopen(a) \/ VendorFails(a) \/ VendorDone(a)
  BY DEF PlayerStep
<1>. DEFINE c == pc_db[a].sd.char_id
<1>2. pc_db[a] # NULL => c \in Chars
  BY CharsTyped
<1>. HIDE DEF c
<1>3. pc_db[a] # NULL /\ map_quit({a})
        => toChar' \in SUBSET CharPacket /\ unsaved' \in SUBSET Chars
  BY QuitTyped
<1>4. CASE DelayQuit(a)
  BY <1>3, <1>4 DEF DelayQuit, Silent
<1>5. CASE Play(a)
  BY <1>2, <1>5 DEF Play, Silent, c
<1>6. CASE Autosave(a)
  <2>1. c \in Chars /\ Send({Save(c, FALSE)}) /\ Sent({c})
    BY <1>2, <1>6 DEF Autosave, c
  <2>. QED BY <1>6, <2>1, PacketTyped, SendTyped DEF Autosave
<1>7. CASE CharSelectReq(a)
  <2>1. c \in Chars /\ Send({Packet("charselect", c)}) /\ unsaved' = unsaved
    BY <1>2, <1>7 DEF CharSelectReq, Playing, c
  <2>2. toChar' \in SUBSET CharPacket
    BY <2>1, PacketTyped DEF Send
  <2>. QED BY <1>7, <2>1, <2>2 DEF CharSelectReq
<1>8. CASE ChangeMapServer(a)
  <2>1. c \in Chars /\ Send({Save(c, FALSE), Packet("change", c)}) /\ Sent({c})
    BY <1>2, <1>8 DEF ChangeMapServer, c
  <2>. QED BY <1>8, <2>1, PacketTyped, SendTyped DEF ChangeMapServer
<1>9. CASE Kick(a)
  BY <1>3, <1>9 DEF Kick, CloseShop, Silent
<1>10. CASE Autotrade(a)
  <2>1. c \in Chars /\ Send({Save(c, FALSE)}) /\ Sent({c}) /\ vendings' = vendings \cup {c}
    BY <1>2, <1>10 DEF Autotrade, Playing, c
  <2>. QED BY <1>10, <2>1, PacketTyped, SendTyped DEF Autotrade
<1>11. CASE VendorReopen(a)
  <2>1. c \in Chars /\ Send({Save(c, FALSE)}) /\ Sent({c}) /\ vendings' = vendings \cup {c}
    BY <1>2, <1>11 DEF VendorReopen, c
  <2>. QED BY <1>11, <2>1, PacketTyped, SendTyped DEF VendorReopen
<1>12. CASE VendorFails(a)
  BY <1>3, <1>12 DEF VendorFails
<1>13. CASE VendorDone(a)
  BY <1>3, <1>13 DEF VendorDone, CloseShop
<1>. QED BY <1>1, <1>4, <1>5, <1>6, <1>7, <1>8, <1>9, <1>10, <1>11, <1>12, <1>13

LEMMA CharServerRest ==
  ASSUME Tables, RestOK, CharServerStep
  PROVE  RestOK'
<1>. USE DEF RestOK, server
<1>1. ASSUME NEW a \in Accounts, NEW c, NEW l, NEW fits, AuthOk(a, c, l, fits)
      PROVE  RestOK'
  <2>. DEFINE d == auth_db[a].sd.char_id
  <2>1. d \in Chars /\ (Silent \/ Send({Packet("offline", d)}))
    BY <1>1, CharsTyped DEF AuthOk, HasNode
  <2>. HIDE DEF d
  <2>2. {Packet("offline", d)} \in SUBSET CharPacket
    BY <2>1, PacketTyped
  <2>3. toChar' \in SUBSET CharPacket
    BY <2>1, <2>2 DEF Silent, Send
  <2>. QED BY <1>1, <2>3 DEF AuthOk
<1>2. ASSUME NEW a \in Accounts, NEW c, NEW l, NEW ok,
             \/ AuthFail(a, c, l) \/ ChangeAck(a, c, ok)
             \/ RegReceived(a) \/ DisconnectLogin(a)
      PROVE  RestOK'
  BY <1>2 DEF AuthFail, ChangeAck, RegReceived, DisconnectLogin, Silent
<1>3. ASSUME NEW a \in Accounts, NEW c, SaveAck(a, c)
      PROVE  RestOK'
  BY <1>3 DEF SaveAck, Silent, chrif_check_shutdown
<1>4. ASSUME NEW a \in Accounts, DisconnectPlayer(a)
      PROVE  RestOK'
  <2>1. pc_db[a] # NULL /\ map_quit({a})
          => toChar' \in SUBSET CharPacket /\ unsaved' \in SUBSET Chars
    BY QuitTyped
  <2>. QED BY <1>4, <2>1 DEF DisconnectPlayer, CloseShop, Silent
<1>5. ASSUME NEW a \in Accounts, Ban(a)
      PROVE  RestOK'
  <2>1. toChar' \in SUBSET CharPacket /\ unsaved' \in SUBSET Chars
    BY <1>5, QuitTyped DEF Ban
  <2>. QED BY <1>5, <2>1 DEF Ban
<1>6. ASSUME NEW a \in Accounts, Cleanup(a)
      PROVE  RestOK'
  <2>. DEFINE c == auth_db[a].sd.char_id
  <2>1. c \in Chars
    BY <1>6, CharsTyped DEF Cleanup
  <2>. HIDE DEF c
  <2>2. CASE HasNode(a, "ST_LOGOUT")
    <3>1. Send({Save(c, TRUE)}) /\ Sent({c})
      BY <1>6, <2>2 DEF Cleanup, c
    <3>. QED BY <1>6, <2>1, <3>1, PacketTyped, SendTyped DEF Cleanup
  <2>3. CASE ~HasNode(a, "ST_LOGOUT")
    <3>1. Send({Packet("offline", c)}) /\ unsaved' = unsaved
      BY <1>6, <2>3 DEF Cleanup, c
    <3>2. toChar' \in SUBSET CharPacket
      BY <2>1, <3>1, PacketTyped DEF Send
    <3>. QED BY <1>6, <3>1, <3>2 DEF Cleanup
  <2>. QED BY <2>2, <2>3
<1>. QED BY <1>1, <1>2, <1>3, <1>4, <1>5, <1>6 DEF CharServerStep

(* What is written when the link is ready.                                 *)
LEMMA OnReadyRest ==
  ASSUME Tables, RestOK, OnReady
  PROVE  RestOK'
<1>. DEFINE online == CharsOf({a \in Accounts : pc_db[a] # NULL})
<1>1. online \subseteq Chars
  BY CharsTyped DEF CharsOf
<1>2. /\ NodeChars(In("ST_LOGIN")) \subseteq Chars
      /\ ResentSaves \subseteq Chars /\ ResentChanges \subseteq Chars
  BY CharsTyped DEF NodeChars, In, HasNode, ResentSaves, ResentChanges
<1>3. [type |-> "users", chars |-> online] \in CharPacket
  <2>. HIDE DEF online
  <2>1. [type |-> "users", chars |-> online] \in [type : {"users"}, chars : SUBSET Chars]
    BY <1>1
  <2>. QED BY <2>1 DEF CharPacket
<1>4. {Packet("offline", c) : c \in NodeChars(In("ST_LOGIN"))} \subseteq CharPacket
  BY <1>2, PacketTyped
<1>5. {Save(c, TRUE) : c \in ResentSaves} \subseteq CharPacket
  BY <1>2, PacketTyped
<1>6. {Packet("change", c) : c \in ResentChanges} \subseteq CharPacket
  BY <1>2, PacketTyped
<1>7. ASSUME NEW V \in SUBSET vendings
      PROVE  {[type |-> "reqauth", sd |-> Vendor(c)] : c \in V} \subseteq CharPacket
  <2>1. \A c \in V : Vendor(c) \in session_data
    BY DEF Vendor, session_data, RestOK
  <2>. HIDE DEF Vendor
  <2>2. \A c \in V : [type |-> "reqauth", sd |-> Vendor(c)] \in [type : {"reqauth"}, sd : session_data]
    BY <2>1
  <2>. QED BY <2>2 DEF CharPacket
<1>8. toChar' \in SUBSET CharPacket
  <2>. HIDE DEF online
  <2>1. PICK V \in SUBSET vendings :
          toChar' = {[type |-> "users", chars |-> online]}
                      \cup {Packet("offline", c) : c \in NodeChars(In("ST_LOGIN"))}
                      \cup {Save(c, TRUE) : c \in ResentSaves}
                      \cup {Packet("change", c) : c \in ResentChanges}
                      \cup {[type |-> "reqauth", sd |-> Vendor(c)] : c \in V}
    BY DEF OnReady, online
  <2>. QED BY <1>3, <1>4, <1>5, <1>6, <1>7, <2>1
<1>. QED BY <1>8 DEF OnReady, RestOK, chrif_check_shutdown

LEMMA LinkRest ==
  ASSUME Tables, RestOK, LinkStep
  PROVE  RestOK'
<1>1. CASE LinkUp
  BY <1>1 DEF LinkUp, RestOK, Silent
<1>2. CASE LinkLost
  BY <1>2, BoundAssumption DEF LinkLost, RestOK, Silent
<1>3. CASE MapsReceived \/ MapsRemoved
  BY <1>3, BoundAssumption DEF MapsReceived, MapsRemoved, RestOK, Silent
<1>. QED BY <1>1, <1>2, <1>3, OnReadyRest DEF LinkStep

LEMMA ProcessRest ==
  ASSUME Tables, RestOK, ProcessStep
  PROVE  RestOK'
<1>1. CASE DoShutdown
  <2>1. toChar' \in SUBSET CharPacket /\ unsaved' \in SUBSET Chars
    BY <1>1, QuitTyped DEF DoShutdown
  <2>. QED BY <1>1, <2>1 DEF DoShutdown, RestOK, chrif_check_shutdown
<1>2. CASE Stop
  <2>. DEFINE leaving == CharsOf({a \in Accounts : pc_db[a] # NULL})
  <2>1. leaving \subseteq Chars
    BY CharsTyped DEF CharsOf
  <2>. HIDE DEF leaving
  <2>2. {Save(c, TRUE) : c \in leaving} \cup {[type |-> "alloffline"]} \in SUBSET CharPacket
    <3>1. [type |-> "alloffline"] \in CharPacket
      BY DEF CharPacket
    <3>. QED BY <2>1, <3>1, PacketTyped
  <2>3. toChar' \in SUBSET CharPacket /\ unsaved' \in SUBSET Chars
    <3>1. Send({Save(c, TRUE) : c \in leaving} \cup {[type |-> "alloffline"]}) /\ Sent(leaving)
      BY <1>2 DEF Stop, leaving
    <3>. QED BY <2>2, <3>1, SendTyped
  <2>. QED BY <1>2, <2>3, BoundAssumption DEF Stop, Ended, RestOK
<1>3. CASE Crash \/ Start
  BY <1>3, BoundAssumption DEF Crash, Start, Ended, RestOK, Silent
<1>. QED BY <1>1, <1>2, <1>3 DEF ProcessStep

-----------------------------------------------------------------------------
(* Quitters have nothing unsent while the link is ready. *)

(* Nothing more becomes unsaved, and whoever quits is sent.                *)
Sending ==
  /\ link' = Ready => link = Ready
  /\ unsaved' \subseteq unsaved
  /\ \A a \in Accounts :
       link' = Ready /\ HasNode(a, "ST_LOGOUT")' =>
         \/ HasNode(a, "ST_LOGOUT") /\ auth_db'[a].sd = auth_db[a].sd
         \/ auth_db'[a].sd.char_id \notin unsaved'

LEMMA SendingKeeps ==
  ASSUME QuittersSent, Sending
  PROVE  QuittersSent'
BY DEF QuittersSent, Sending

(* The quitting nodes are those of before, and nothing becomes unsaved.    *)
LEMMA NodesSending ==
  ASSUME link' = Ready => link = Ready, unsaved' \subseteq unsaved,
         \A a \in Accounts :
           HasNode(a, "ST_LOGOUT")' => auth_db'[a] = auth_db[a]
  PROVE  Sending
BY DEF Sending, HasNode

(* Whoever quits is sent (map_quit).                                       *)
LEMMA QuitSending ==
  ASSUME NEW S, S \subseteq Accounts, map_quit(S), link' = link
  PROVE  Sending
<1>1. auth_db' = chrif_auth_logout(S) /\ Sent(CharsOf(S))
  BY DEF map_quit
<1>2. unsaved' \subseteq unsaved /\ (link = Ready => unsaved' = unsaved \ CharsOf(S))
  BY <1>1 DEF Sent
<1>3. ASSUME NEW a \in Accounts, link' = Ready, HasNode(a, "ST_LOGOUT")'
      PROVE  \/ HasNode(a, "ST_LOGOUT") /\ auth_db'[a].sd = auth_db[a].sd
             \/ auth_db'[a].sd.char_id \notin unsaved'
  <2>1. CASE a \in S /\ auth_db[a] = NULL
    <3>1. auth_db'[a].sd = pc_db[a].sd
      BY <1>1, <2>1 DEF chrif_auth_logout
    <3>2. pc_db[a].sd.char_id \in CharsOf(S)
      BY <2>1 DEF CharsOf
    <3>. QED BY <1>2, <1>3, <3>1, <3>2
  <2>2. CASE ~(a \in S /\ auth_db[a] = NULL)
    <3>1. auth_db'[a] = auth_db[a]
      BY <1>1, <2>2 DEF chrif_auth_logout
    <3>. QED BY <1>3, <3>1 DEF HasNode
  <2>. QED BY <2>1, <2>2
<1>. QED BY <1>2, <1>3 DEF Sending

(* A node that is deleted quits no longer.                                 *)
LEMMA DeleteSending ==
  ASSUME Tables, NEW a \in Accounts, auth_db' = auth_db \/ SetNode(a, NULL),
         link' = link, unsaved' \subseteq unsaved
  PROVE  Sending
<1>1. \A x \in Accounts : auth_db'[x] = auth_db[x] \/ auth_db'[x] = NULL
  BY DEF SetNode, Tables
<1>. QED BY <1>1, NodesSending DEF HasNode

LEMMA ClientSending ==
  ASSUME Tables, ClientStep
  PROVE  Sending
<1>. USE DEF server
<1>1. ASSUME NEW f \in Fds, NEW c \in Chars, NEW l \in LoginIds, WantToConnection(f, c, l)
      PROVE  Sending
  <2>. DEFINE sd == [char_id |-> c, lid |-> l]
  <2>1. auth_db' = auth_db \/ auth_db' = chrif_sd_to_auth(sd, "ST_LOGIN", f)
    BY <1>1 DEF WantToConnection
  <2>. HIDE DEF sd
  <2>2. ASSUME NEW a \in Accounts, HasNode(a, "ST_LOGOUT")'
        PROVE  auth_db'[a] = auth_db[a]
    BY <2>1, <2>2 DEF HasNode, chrif_sd_to_auth
  <2>. QED BY <1>1, <2>2, NodesSending DEF WantToConnection
<1>2. ASSUME NEW f \in Fds, CloseAndQuit(f)
      PROVE  Sending
  BY <1>2, ActiveAccount, QuitSending DEF CloseAndQuit
<1>3. ASSUME NEW f \in Fds, CloseInactive(f)
      PROVE  Sending
  <2>. DEFINE a == AccountOf(f)
  <2>1. a \in Accounts
    <3>1. session[f].sd \in session_data
      BY <1>3 DEF CloseInactive, HasData, Tables, socket_data
    <3>. QED BY <3>1 DEF AccountOf, session_data
  <2>2. auth_db' = auth_db \/ SetNode(a, NULL)
    BY <1>3 DEF CloseInactive
  <2>. HIDE DEF a
  <2>. QED BY <1>3, <2>1, <2>2, DeleteSending DEF CloseInactive
<1>4. ASSUME NEW f \in Fds,
             ClientGone(f) \/ CloseUnknown(f) \/ CloseVendor(f) \/ CloseInCombat(f)
      PROVE  Sending
  <2>1. UNCHANGED <<auth_db, link, unsaved>>
    BY <1>4 DEF ClientGone, CloseUnknown, CloseVendor, CloseInCombat
  <2>. QED BY <2>1, NodesSending
<1>. QED BY <1>1, <1>2, <1>3, <1>4 DEF ClientStep, CloseSession

(* A player that plays is no quitter.                                      *)
LEMMA PlaySent ==
  ASSUME Tables, QuittersSent, NEW a \in Accounts, Play(a)
  PROVE  QuittersSent'
<1>1. /\ auth_db' = auth_db /\ link' = link /\ pc_db[a] # NULL
      /\ unsaved' = unsaved \cup {pc_db[a].sd.char_id}
  BY DEF Play, players, server
<1>2. ASSUME NEW x \in Accounts, HasNode(x, "ST_LOGOUT")
      PROVE  auth_db[x].sd.char_id # pc_db[a].sd.char_id
  <2>1. x # a
    BY <1>1, <1>2 DEF HasNode, Tables, PlayerOK
  <2>. QED BY <1>1, <1>2, <2>1 DEF HasNode, Tables, NodeOK, PlayerOK
<1>. QED BY <1>1, <1>2 DEF QuittersSent, HasNode

LEMMA PlayerSent ==
  ASSUME Tables, QuittersSent, PlayerStep
  PROVE  QuittersSent'
<1>. USE DEF server, players
<1>1. PICK a \in Accounts :
        \/ DelayQuit(a)
        \/ Play(a) \/ Autosave(a) \/ CharSelectReq(a) \/ ChangeMapServer(a) \/ Kick(a)
        \/ Autotrade(a) \/ VendorReopen(a) \/ VendorFails(a) \/ VendorDone(a)
  BY DEF PlayerStep
<1>2. CASE map_quit({a}) /\ link' = link
  BY <1>2, QuitSending, SendingKeeps
<1>3. CASE UNCHANGED <<auth_db, link>> /\ unsaved' \subseteq unsaved
  BY <1>3, NodesSending, SendingKeeps
<1>4. CASE ChangeMapServer(a)
  <2>1. /\ auth_db' = chrif_sd_to_auth(pc_db[a].sd, "ST_MAPCHANGE", pc_db[a].fd)
        /\ link' = link /\ unsaved' \subseteq unsaved
    BY <1>4 DEF ChangeMapServer, Sent
  <2>2. ASSUME NEW x \in Accounts, HasNode(x, "ST_LOGOUT")'
        PROVE  auth_db'[x] = auth_db[x]
    BY <2>1, <2>2 DEF HasNode, chrif_sd_to_auth
  <2>. QED BY <2>1, <2>2, NodesSending, SendingKeeps
<1>5. CASE DelayQuit(a)
  BY <1>2, <1>3, <1>5 DEF DelayQuit
<1>6. CASE Autosave(a) \/ CharSelectReq(a) \/ Autotrade(a) \/ VendorReopen(a)
  BY <1>3, <1>6 DEF Autosave, CharSelectReq, Autotrade, VendorReopen, Sent
<1>7. CASE Kick(a) \/ VendorFails(a) \/ VendorDone(a)
  BY <1>2, <1>3, <1>7 DEF Kick, VendorFails, VendorDone
<1>. QED BY <1>1, <1>4, <1>5, <1>6, <1>7, PlaySent

LEMMA CharServerSending ==
  ASSUME Tables, CharServerStep
  PROVE  Sending
<1>. USE DEF server
<1>1. ASSUME NEW a \in Accounts, NEW c, NEW l, NEW fits, AuthOk(a, c, l, fits)
      PROVE  Sending
  <2>1. CASE auth_db' = [auth_db EXCEPT ![a].loaded = TRUE]
    <3>1. \A x \in Accounts \ {a} : auth_db'[x] = auth_db[x]
      BY <2>1 DEF Tables
    <3>2. auth_db[a] \in auth_node /\ auth_db[a].state = "ST_LOGIN"
      BY <1>1 DEF AuthOk, HasNode, Tables
    <3>3. auth_db'[a].state = "ST_LOGIN"
      BY <2>1, <3>2 DEF Tables, auth_node
    <3>4. ASSUME NEW x \in Accounts, HasNode(x, "ST_LOGOUT")'
          PROVE  auth_db'[x] = auth_db[x]
      BY <3>1, <3>3, <3>4 DEF HasNode
    <3>. QED BY <1>1, <3>4, NodesSending DEF AuthOk
  <2>2. CASE auth_db' = auth_db \/ SetNode(a, NULL)
    BY <1>1, <2>2, DeleteSending DEF AuthOk
  <2>. QED BY <1>1, <2>1, <2>2 DEF AuthOk, RefuseAndDelete
<1>2. ASSUME NEW a \in Accounts, NEW c, NEW l, NEW ok,
             \/ AuthFail(a, c, l) \/ ChangeAck(a, c, ok)
             \/ RegReceived(a) \/ DisconnectLogin(a)
      PROVE  Sending
  <2>1. SetNode(a, NULL) /\ link' = link /\ unsaved' = unsaved
    BY <1>2 DEF AuthFail, ChangeAck, RegReceived, DisconnectLogin, RefuseAndDelete,
                chrif_auth_delete, chrif_auth_finished
  <2>. QED BY <2>1, DeleteSending
<1>3. ASSUME NEW a \in Accounts, NEW c, SaveAck(a, c)
      PROVE  Sending
  BY <1>3, DeleteSending DEF SaveAck, SetNode
<1>4. ASSUME NEW a \in Accounts, DisconnectPlayer(a)
      PROVE  Sending
  <2>1. CASE map_quit({a})
    BY <1>4, <2>1, QuitSending DEF DisconnectPlayer
  <2>2. CASE UNCHANGED <<auth_db, unsaved>>
    BY <1>4, <2>2, NodesSending DEF DisconnectPlayer
  <2>. QED BY <1>4, <2>1, <2>2 DEF DisconnectPlayer
<1>5. ASSUME NEW a \in Accounts, Ban(a)
      PROVE  Sending
  BY <1>5, QuitSending DEF Ban
<1>6. ASSUME NEW a \in Accounts, Cleanup(a)
      PROVE  Sending
  <2>1. /\ auth_db' = auth_db \/ SetNode(a, NULL)
        /\ link' = link /\ unsaved' \subseteq unsaved
    BY <1>6 DEF Cleanup, chrif_auth_delete, Sent
  <2>. QED BY <2>1, DeleteSending
<1>. QED BY <1>1, <1>2, <1>3, <1>4, <1>5, <1>6 DEF CharServerStep

(* When the link is ready, every quitter is sent again (chrif_reconnect).  *)
LEMMA OnReadySent ==
  ASSUME Tables, OnReady
  PROVE  QuittersSent'
<1>1. PICK V \in SUBSET vendings : auth_db' = Restored(V)
  BY DEF OnReady
<1>2. unsaved' = unsaved \ ResentSaves
  BY DEF OnReady
<1>3. ASSUME NEW a \in Accounts, HasNode(a, "ST_LOGOUT")'
      PROVE  auth_db'[a].sd.char_id \in ResentSaves
  <2>1. ~\E c \in V : Owner[c] = a
    BY <1>1, <1>3 DEF HasNode, Restored, VendorNode
  <2>2. auth_db'[a] = auth_db[a]
    BY <1>1, <1>3, <2>1 DEF HasNode, Restored, chrif_reconnect
  <2>. QED BY <1>3, <2>2 DEF HasNode, ResentSaves, NodeChars, In
<1>. QED BY <1>2, <1>3 DEF QuittersSent, HasNode

(* Every step keeps the quitters sent.                                     *)
LEMMA StepSent ==
  ASSUME Tables, QuittersSent, Next
  PROVE  QuittersSent'
<1>1. CASE LinkUp \/ LinkLost
  <2>1. link' # Ready
    BY <1>1 DEF LinkUp, LinkLost, Ready, Up, Down
  <2>. QED BY <2>1 DEF QuittersSent
<1>2. CASE MapsReceived \/ MapsRemoved
  <2>1. UNCHANGED <<auth_db, link, unsaved>>
    BY <1>2 DEF MapsReceived, MapsRemoved, players
  <2>. QED BY <2>1, NodesSending, SendingKeeps
<1>3. CASE DoShutdown
  <2>. DEFINE S == {a \in Accounts : pc_db[a] # NULL /\ pc_db[a].fd = 0}
  <2>1. map_quit(S) /\ link' = link /\ S \subseteq Accounts
    BY <1>3 DEF DoShutdown
  <2>. HIDE DEF S
  <2>. QED BY <2>1, QuitSending, SendingKeeps
<1>4. CASE Stop \/ Crash
  BY <1>4 DEF Stop, Crash, Ended, QuittersSent, Down, Ready
<1>5. CASE Start
  BY <1>5 DEF Start, players, QuittersSent, HasNode
<1>. QED
  BY <1>1, <1>2, <1>3, <1>4, <1>5, ClientSending, PlayerSent, CharServerSending, OnReadySent,
     SendingKeeps DEF Next, LinkStep, ProcessStep

-----------------------------------------------------------------------------
(* The theorems. *)

LEMMA InitInv == Init => IInv
<1>. SUFFICES ASSUME Init
              PROVE  IInv
  OBVIOUS
<1>1. Tables
  BY BoundAssumption
     DEF Init, NoPlayers, Tables, NodeOK, PlayerOK, ClientOK, HasData
<1>2. QuittersSent /\ RestOK
  BY BoundAssumption DEF Init, QuittersSent, RestOK, Down, Ready
<1>. QED BY <1>1, <1>2 DEF IInv

LEMMA NextInv == IInv /\ [Next]_vars => IInv'
<1>. SUFFICES ASSUME IInv, [Next]_vars
              PROVE  IInv'
  OBVIOUS
<1>1. CASE UNCHANGED vars
  <2>1. Tables'
    BY <1>1, IdleTables DEF vars, IInv
  <2>2. QuittersSent' /\ RestOK'
    BY <1>1 DEF vars, players, server, IInv, QuittersSent, HasNode, RestOK
  <2>. QED BY <2>1, <2>2 DEF IInv
<1>2. CASE Next
  <2>1. Tables'
    BY <1>2, StepTables DEF IInv, RestOK
  <2>2. QuittersSent'
    BY <1>2, StepSent DEF IInv
  <2>3. RestOK'
    BY <1>2, ClientRest, PlayerRest, CharServerRest, LinkRest, ProcessRest DEF IInv, Next
  <2>. QED BY <2>1, <2>2, <2>3 DEF IInv
<1>. QED BY <1>1, <1>2

LEMMA Inductive == Spec => []IInv
BY InitInv, NextInv, PTL DEF Spec

(* Every table holds what its C structure can hold.                        *)
THEOREM TypeCorrect == Spec => []TypeOK
<1>1. IInv => TypeOK
  BY DEF IInv, Tables, RestOK, TypeOK
<1>. QED BY <1>1, Inductive, PTL

(* A session_data in use is never freed under its player, node or client,  *)
(* and a player and a node never share a session (chrif_auth_delete,       *)
(* chrif_auth_logout, chrif_auth_finished).                                *)
THEOREM DataIsOwned == Spec => []DataOwned
<1>1. ASSUME IInv, NEW a \in Accounts
      PROVE  /\ pc_db[a] # NULL => PointsTo(pc_db[a].fd, pc_db[a].sd)
             /\ auth_db[a] # NULL => PointsTo(auth_db[a].fd, auth_db[a].sd)
             /\ HasNode(a, "ST_LOGOUT") => auth_db[a].fd = 0
             /\ pc_db[a] # NULL /\ auth_db[a] # NULL /\ pc_db[a].fd # 0
                  => auth_db[a].fd # pc_db[a].fd
  <2>1. NodeOK(a) /\ PlayerOK(a)
    BY <1>1 DEF IInv, Tables
  <2>. QED BY <2>1 DEF NodeOK, PlayerOK, HasNode
<1>2. IInv => DataOwned
  BY <1>1 DEF DataOwned
<1>. QED BY <1>2, Inductive, PTL

(* No account has two clients (clif_parse_WantToConnection, chrif_authreq). *)
THEOREM OneClient == Spec => []OneClientPerAccount
<1>1. ASSUME IInv, NEW f \in Fds, NEW g \in Fds, HasData(f), HasData(g),
             ~session[f].eof, ~session[g].eof, AccountOf(f) = AccountOf(g)
      PROVE  f = g
  <2>. DEFINE a == AccountOf(f)
  <2>1. session[f].sd \in session_data
    BY <1>1 DEF HasData, IInv, Tables, socket_data
  <2>2. a \in Accounts
    BY <2>1 DEF AccountOf, session_data
  <2>3. OwnedBy(f, a) /\ OwnedBy(g, a)
    BY <1>1 DEF IInv, Tables, ClientOK
  <2>4. PlayerOK(a)
    BY <1>1, <2>2 DEF IInv, Tables
  <2>. HIDE DEF a
  <2>. QED BY <2>3, <2>4 DEF OwnedBy, PlayerOK
<1>2. IInv => OneClientPerAccount
  BY <1>1 DEF OneClientPerAccount
<1>. QED BY <1>2, Inductive, PTL

(* A player whose client left in combat has a timer that will end it       *)
(* (clif_quitsave).                                                        *)
THEOREM GhostsTimed == Spec => []GhostTimed
<1>1. IInv => GhostTimed
  BY DEF IInv, Tables, PlayerOK, GhostTimed
<1>. QED BY <1>1, Inductive, PTL

(* Only an ack or the end of the process takes a quitting node.            *)
LEMMA QuitterStays ==
  ASSUME Tables, Next, NEW a \in Accounts, HasNode(a, "ST_LOGOUT"), runflag' # STOPPED
  PROVE  \/ auth_db'[a] = auth_db[a]
         \/ link = Ready /\ unsaved' = unsaved
<1>. USE DEF players, server
<1>1. auth_db[a] # NULL /\ auth_db[a].state = "ST_LOGOUT"
  BY DEF HasNode
<1>2. ASSUME NEW S, map_quit(S)
      PROVE  auth_db'[a] = auth_db[a]
  BY <1>1, <1>2 DEF map_quit, chrif_auth_logout
<1>3. ASSUME NEW sd, NEW state, NEW fd, auth_db' = chrif_sd_to_auth(sd, state, fd)
      PROVE  auth_db'[a] = auth_db[a]
  BY <1>1, <1>3 DEF chrif_sd_to_auth
<1>4. ASSUME NEW x \in Accounts, NEW v, auth_db' = [auth_db EXCEPT ![x] = v], x # a
      PROVE  auth_db'[a] = auth_db[a]
  BY <1>4 DEF Tables
<1>5. CASE ClientStep
  <2>1. ASSUME NEW f \in Fds, CloseInactive(f)
        PROVE  auth_db'[a] = auth_db[a]
    BY <1>1, <2>1 DEF CloseInactive, ForgottenOnClose, SetNode, Tables
  <2>. QED
    BY <1>2, <1>3, <1>5, <2>1
       DEF ClientStep, CloseSession, WantToConnection, ClientGone, CloseUnknown, CloseVendor,
           CloseAndQuit, CloseInCombat
<1>6. CASE PlayerStep
  BY <1>2, <1>3, <1>6
     DEF PlayerStep, DelayQuit, Play, Autosave, CharSelectReq, ChangeMapServer, Kick,
         Autotrade, VendorReopen, VendorFails, VendorDone
<1>7. CASE CharServerStep
  <2>1. ASSUME NEW x \in Accounts, NEW c, NEW l, NEW fits, AuthOk(x, c, l, fits)
        PROVE  auth_db'[a] = auth_db[a]
    <3>1. x # a
      BY <1>1, <2>1 DEF AuthOk, HasNode
    <3>. QED BY <2>1, <3>1 DEF AuthOk, RefuseAndDelete, SetNode, Tables
  <2>2. ASSUME NEW x \in Accounts, NEW c, NEW l, NEW ok,
               \/ AuthFail(x, c, l) \/ ChangeAck(x, c, ok)
               \/ RegReceived(x) \/ DisconnectLogin(x)
        PROVE  auth_db'[a] = auth_db[a]
    <3>1. x # a /\ SetNode(x, NULL)
      BY <1>1, <2>2 DEF AuthFail, ChangeAck, RegReceived, DisconnectLogin, HasNode,
                        RefuseAndDelete, chrif_auth_delete, chrif_auth_finished
    <3>. QED BY <1>4, <3>1 DEF SetNode
  <2>3. ASSUME NEW x \in Accounts, NEW c, SaveAck(x, c)
        PROVE  link = Ready /\ unsaved' = unsaved
    BY <2>3 DEF SaveAck
  <2>4. ASSUME NEW x \in Accounts, DisconnectPlayer(x) \/ Ban(x)
        PROVE  auth_db'[a] = auth_db[a]
    BY <1>2, <2>4 DEF DisconnectPlayer, Ban
  <2>5. ASSUME NEW x \in Accounts, Cleanup(x)
        PROVE  auth_db'[a] = auth_db[a]
    <3>1. CASE x = a
      BY <2>5, <3>1 DEF Cleanup
    <3>2. CASE x # a
      BY <1>4, <2>5, <3>2 DEF Cleanup, chrif_auth_delete, SetNode
    <3>. QED BY <3>1, <3>2
  <2>. QED BY <1>7, <2>1, <2>2, <2>3, <2>4, <2>5 DEF CharServerStep
<1>8. CASE OnReady
  <2>1. PICK V \in SUBSET vendings :
          /\ IF FeatureAutotrade THEN Restorable(V) ELSE V = {}
          /\ auth_db' = Restored(V)
    BY <1>8 DEF OnReady
  <2>2. chrif_reconnect[a] = auth_db[a]
    BY <1>1 DEF chrif_reconnect, In, HasNode
  <2>3. ~\E c \in V : Owner[c] = a
    BY <1>1, <2>1, <2>2 DEF Restorable
  <2>. QED BY <2>1, <2>2, <2>3 DEF Restored
<1>9. CASE LinkUp \/ LinkLost \/ MapsReceived \/ MapsRemoved \/ Start
  BY <1>9 DEF LinkUp, LinkLost, MapsReceived, MapsRemoved, Start
<1>10. CASE DoShutdown
  BY <1>2, <1>10 DEF DoShutdown
<1>11. CASE Stop \/ Crash
  BY <1>11 DEF Stop, Crash, Ended
<1>. QED
  BY <1>5, <1>6, <1>7, <1>8, <1>9, <1>10, <1>11 DEF Next, LinkStep, ProcessStep

(* No quitting character's node is dropped while something of it remains   *)
(* unsent, unless the process ends (chrif_save_ack, chrif_reconnect,       *)
(* auth_db_cleanup_sub).                                                   *)
THEOREM QuittersKept == Spec => QuitterKept
<1>1. ASSUME IInv, Next, NEW a \in Accounts,
             HasNode(a, "ST_LOGOUT"), auth_db'[a] # auth_db[a], runflag' # STOPPED
      PROVE  auth_db[a].sd.char_id \notin unsaved'
  <2>1. link = Ready /\ unsaved' = unsaved
    BY <1>1, QuitterStays DEF IInv
  <2>. QED BY <1>1, <2>1 DEF IInv, QuittersSent
<1>2. IInv /\ [Next]_vars =>
        [\A a \in Accounts :
           HasNode(a, "ST_LOGOUT") /\ auth_db'[a] # auth_db[a] /\ runflag' # STOPPED
             => auth_db[a].sd.char_id \notin unsaved']_vars
  BY <1>1
<1>. QED BY <1>2, Inductive, PTL DEF QuitterKept, Spec

-----------------------------------------------------------------------------
(* Without restored shops. *)

(* Every login is that of a client.                                        *)
LoginsHaveClients ==
  \A a \in Accounts : HasNode(a, "ST_LOGIN") => auth_db[a].fd # 0

LEMMA LoginsStep ==
  ASSUME FeatureAutotrade = FALSE, Tables, LoginsHaveClients, Next
  PROVE  LoginsHaveClients'
<1>. USE DEF players, server
<1>1. ASSUME \A a \in Accounts : HasNode(a, "ST_LOGIN")' =>
               auth_db'[a] = auth_db[a] \/ auth_db'[a].fd # 0
      PROVE  LoginsHaveClients'
  BY <1>1 DEF LoginsHaveClients, HasNode
<1>2. ASSUME NEW S, map_quit(S)
      PROVE  LoginsHaveClients'
  <2>1. ASSUME NEW a \in Accounts, HasNode(a, "ST_LOGIN")'
        PROVE  auth_db'[a] = auth_db[a]
    BY <1>2, <2>1 DEF map_quit, chrif_auth_logout, HasNode
  <2>. QED BY <1>1, <2>1
<1>3. CASE auth_db' = auth_db
  BY <1>1, <1>3
<1>4. ASSUME NEW a \in Accounts, SetNode(a, NULL)
      PROVE  LoginsHaveClients'
  <2>1. \A x \in Accounts : auth_db'[x] = auth_db[x] \/ auth_db'[x] = NULL
    BY <1>4 DEF SetNode, Tables
  <2>. QED BY <1>1, <2>1 DEF HasNode
<1>5. CASE ClientStep
  <2>1. ASSUME NEW f \in Fds, NEW c \in Chars, NEW l \in LoginIds, WantToConnection(f, c, l)
        PROVE  LoginsHaveClients'
    <3>. DEFINE sd == [char_id |-> c, lid |-> l]
    <3>1. auth_db' = auth_db \/ auth_db' = chrif_sd_to_auth(sd, "ST_LOGIN", f)
      BY <2>1 DEF WantToConnection
    <3>. HIDE DEF sd
    <3>2. \A a \in Accounts : auth_db'[a] = auth_db[a] \/ auth_db'[a].fd = f
      BY <3>1 DEF chrif_sd_to_auth
    <3>. QED BY <1>1, <3>2
  <2>2. ASSUME NEW f \in Fds, CloseInactive(f)
        PROVE  LoginsHaveClients'
    <3>. DEFINE a == AccountOf(f)
    <3>1. session[f].sd \in session_data
      BY <2>2 DEF CloseInactive, HasData, Tables, socket_data
    <3>2. a \in Accounts /\ (auth_db' = auth_db \/ SetNode(a, NULL))
      BY <2>2, <3>1 DEF CloseInactive, AccountOf, session_data
    <3>. HIDE DEF a
    <3>. QED BY <1>3, <1>4, <3>2
  <2>. QED
    BY <1>2, <1>3, <1>5, <2>1, <2>2
       DEF ClientStep, CloseSession, ClientGone, CloseUnknown, CloseVendor, CloseAndQuit,
           CloseInCombat
<1>6. CASE PlayerStep
  <2>1. ASSUME NEW a \in Accounts, ChangeMapServer(a)
        PROVE  LoginsHaveClients'
    <3>1. ASSUME NEW x \in Accounts, HasNode(x, "ST_LOGIN")'
          PROVE  auth_db'[x] = auth_db[x]
      BY <2>1, <3>1 DEF ChangeMapServer, chrif_sd_to_auth, HasNode
    <3>. QED BY <1>1, <3>1
  <2>. QED
    BY <1>2, <1>3, <1>6, <2>1
       DEF PlayerStep, DelayQuit, Play, Autosave, CharSelectReq, Kick, Autotrade, VendorReopen,
           VendorFails, VendorDone
<1>7. CASE CharServerStep
  <2>1. ASSUME NEW a \in Accounts, NEW c, NEW l, NEW fits, AuthOk(a, c, l, fits)
        PROVE  LoginsHaveClients'
    <3>1. CASE auth_db' = [auth_db EXCEPT ![a].loaded = TRUE]
      <4>1. auth_db[a] \in auth_node /\ HasNode(a, "ST_LOGIN")
        BY <2>1 DEF AuthOk, HasNode, Tables
      <4>2. auth_db'[a].fd = auth_db[a].fd /\ auth_db[a].fd # 0
        BY <3>1, <4>1 DEF Tables, auth_node, LoginsHaveClients
      <4>3. \A x \in Accounts \ {a} : auth_db'[x] = auth_db[x]
        BY <3>1 DEF Tables
      <4>. QED BY <1>1, <4>2, <4>3
    <3>2. CASE auth_db' = auth_db \/ SetNode(a, NULL)
      BY <1>3, <1>4, <3>2
    <3>. QED BY <2>1, <3>1, <3>2 DEF AuthOk, RefuseAndDelete
  <2>2. ASSUME NEW a \in Accounts, NEW c, NEW l, NEW ok,
               \/ AuthFail(a, c, l) \/ ChangeAck(a, c, ok) \/ SaveAck(a, c)
               \/ RegReceived(a) \/ DisconnectLogin(a) \/ Cleanup(a)
        PROVE  LoginsHaveClients'
    <3>1. auth_db' = auth_db \/ SetNode(a, NULL)
      BY <2>2 DEF AuthFail, ChangeAck, SaveAck, RegReceived, DisconnectLogin, Cleanup,
                  RefuseAndDelete, chrif_auth_delete, chrif_auth_finished, SetNode
    <3>. QED BY <1>3, <1>4, <3>1
  <2>3. ASSUME NEW a \in Accounts, DisconnectPlayer(a) \/ Ban(a)
        PROVE  LoginsHaveClients'
    BY <1>2, <1>3, <2>3 DEF DisconnectPlayer, Ban
  <2>. QED BY <1>7, <2>1, <2>2, <2>3 DEF CharServerStep
<1>8. CASE OnReady
  <2>1. auth_db' = Restored({})
    BY <1>8 DEF OnReady
  <2>2. \A a \in Accounts : auth_db'[a] = auth_db[a] \/ auth_db'[a] = NULL
    BY <2>1 DEF Restored, chrif_reconnect
  <2>. QED BY <1>1, <2>2 DEF HasNode
<1>9. CASE LinkUp \/ LinkLost \/ MapsReceived \/ MapsRemoved \/ Start
  BY <1>3, <1>9 DEF LinkUp, LinkLost, MapsReceived, MapsRemoved, Start
<1>10. CASE DoShutdown
  BY <1>2, <1>10 DEF DoShutdown
<1>11. CASE Stop \/ Crash
  BY <1>11 DEF Stop, Crash, Emptied, LoginsHaveClients, HasNode
<1>. QED
  BY <1>5, <1>6, <1>7, <1>8, <1>9, <1>10, <1>11 DEF Next, LinkStep, ProcessStep

(* While shops are not restored, no account plays beside a node of its     *)
(* own: chrif_sd_to_auth never fails, so that every player can quit and    *)
(* every move gets its node.                                               *)
THEOREM NodeExcludesPlayer ==
  ASSUME FeatureAutotrade = FALSE
  PROVE  Spec => []NodeOrPlayer
<1>1. Init => LoginsHaveClients
  BY DEF Init, NoPlayers, LoginsHaveClients, HasNode
<1>2. IInv /\ LoginsHaveClients /\ [Next]_vars => LoginsHaveClients'
  <2>1. IInv /\ LoginsHaveClients /\ Next => LoginsHaveClients'
    BY LoginsStep DEF IInv
  <2>2. LoginsHaveClients /\ UNCHANGED vars => LoginsHaveClients'
    BY DEF vars, players, LoginsHaveClients, HasNode
  <2>. QED BY <2>1, <2>2
<1>3. IInv /\ LoginsHaveClients => NodeOrPlayer
  BY DEF IInv, Tables, PlayerOK, LoginsHaveClients, HasNode, NodeOrPlayer
<1>. QED BY <1>1, <1>2, <1>3, Inductive, PTL DEF Spec

(* What a step reports offline does not play after it.                     *)
OfflineTrue == \A c \in Chars : Packet("offline", c) \in toChar' => pc_db'[Owner[c]] = NULL

LEMMA NothingOffline ==
  ASSUME \A p \in toChar' : p.type # "offline"
  PROVE  OfflineTrue
BY DEF OfflineTrue, Packet

LEMMA QuitReportsNobody ==
  ASSUME NEW S, map_quit(S)
  PROVE  OfflineTrue
<1>1. \A c \in CharsOf(S) : Save(c, TRUE).type # "offline"
  BY DEF Save
<1>2. \A p \in toChar' : p.type # "offline"
  BY <1>1 DEF map_quit, Send
<1>. QED BY <1>2, NothingOffline

(* The node of a is reported, and a has no player.                         *)
LEMMA NodeReported ==
  ASSUME Tables, NEW a \in Accounts, auth_db[a] # NULL, pc_db'[a] = NULL,
         toChar' \subseteq {Packet("offline", auth_db[a].sd.char_id)}
  PROVE  OfflineTrue
<1>1. Owner[auth_db[a].sd.char_id] = a
  BY DEF Tables, NodeOK
<1>2. \A c : Packet("offline", c).char_id = c
  BY DEF Packet
<1>. QED BY <1>1, <1>2 DEF OfflineTrue

LEMMA PlayerOffline ==
  ASSUME PlayerStep
  PROVE  OfflineTrue
<1>1. CASE Silent
  BY <1>1, NothingOffline DEF Silent
<1>2. ASSUME NEW S, map_quit(S)
      PROVE  OfflineTrue
  BY <1>2, QuitReportsNobody
<1>3. ASSUME NEW c, Send({Save(c, FALSE)}) \/ Send({Packet("charselect", c)})
                      \/ Send({Save(c, FALSE), Packet("change", c)})
      PROVE  OfflineTrue
  <2>1. /\ Save(c, FALSE).type # "offline"
        /\ Packet("charselect", c).type # "offline" /\ Packet("change", c).type # "offline"
    BY DEF Save, Packet
  <2>. QED BY <1>3, <2>1, NothingOffline DEF Send
<1>. QED
  BY <1>1, <1>2, <1>3
     DEF PlayerStep, DelayQuit, Play, Autosave, CharSelectReq, ChangeMapServer, Kick, Autotrade,
         VendorReopen, VendorFails, VendorDone

LEMMA OnReadyOffline ==
  ASSUME Tables, NodeOrPlayer, OnReady
  PROVE  OfflineTrue
<1>. DEFINE online == CharsOf({a \in Accounts : pc_db[a] # NULL})
<1>1. PICK V \in SUBSET vendings :
        toChar' = {[type |-> "users", chars |-> online]}
                    \cup {Packet("offline", c) : c \in NodeChars(In("ST_LOGIN"))}
                    \cup {Save(c, TRUE) : c \in ResentSaves}
                    \cup {Packet("change", c) : c \in ResentChanges}
                    \cup {[type |-> "reqauth", sd |-> Vendor(c)] : c \in V}
  BY DEF OnReady, online
<1>. HIDE DEF online
<1>2. /\ [type |-> "users", chars |-> online].type # "offline"
      /\ \A c : Save(c, TRUE).type # "offline" /\ Packet("change", c).type # "offline"
      /\ \A c : [type |-> "reqauth", sd |-> Vendor(c)].type # "offline"
  BY DEF Save, Packet
<1>3. \A c : Packet("offline", c).type = "offline" /\ Packet("offline", c).char_id = c
  BY DEF Packet
<1>4. ASSUME NEW c \in Chars, Packet("offline", c) \in toChar'
      PROVE  c \in NodeChars(In("ST_LOGIN"))
  <2>. DEFINE p == Packet("offline", c)
  <2>1. p.type = "offline" /\ p.char_id = c
    BY <1>3
  <2>2. p \in toChar'
    BY <1>4
  <2>. HIDE DEF p
  <2>3. PICK d \in NodeChars(In("ST_LOGIN")) : p = Packet("offline", d)
    <3>1. p # [type |-> "users", chars |-> online]
      BY <1>2, <2>1
    <3>2. \A d : p # Save(d, TRUE) /\ p # Packet("change", d)
                   /\ p # [type |-> "reqauth", sd |-> Vendor(d)]
      BY <1>2, <2>1
    <3>. QED BY <1>1, <2>2, <3>1, <3>2
  <2>. QED BY <1>3, <2>1, <2>3
<1>5. ASSUME NEW c \in NodeChars(In("ST_LOGIN"))
      PROVE  pc_db[Owner[c]] = NULL
  <2>1. PICK a \in Accounts : auth_db[a] # NULL /\ c = auth_db[a].sd.char_id
    BY <1>5 DEF NodeChars, In, HasNode
  <2>2. Owner[c] = a
    BY <2>1 DEF Tables, NodeOK
  <2>. QED BY <2>1, <2>2 DEF NodeOrPlayer
<1>6. pc_db' = pc_db
  BY DEF OnReady
<1>. QED BY <1>4, <1>5, <1>6 DEF OfflineTrue

LEMMA StepOffline ==
  ASSUME Tables, NodeOrPlayer, Next
  PROVE  OfflineTrue
<1>1. CASE Silent
  BY <1>1, NothingOffline DEF Silent
<1>2. CASE ClientStep
  <2>1. ASSUME NEW f \in Fds, NEW c \in Chars, NEW l \in LoginIds, WantToConnection(f, c, l)
        PROVE  OfflineTrue
    <3>1. \A p \in toChar' : p.type = "reqauth"
      BY <2>1 DEF WantToConnection
    <3>. QED BY <3>1, NothingOffline
  <2>2. ASSUME NEW f \in Fds, ClientGone(f) \/ CloseSession(f)
        PROVE  OfflineTrue
    <3>1. CASE CloseAndQuit(f)
      BY <3>1, QuitReportsNobody DEF CloseAndQuit
    <3>2. CASE ~CloseAndQuit(f)
      BY <1>1, <2>2, <3>2
         DEF ClientGone, CloseSession, CloseUnknown, CloseVendor, CloseInCombat, CloseInactive
    <3>. QED BY <3>1, <3>2
  <2>. QED BY <1>2, <2>1, <2>2 DEF ClientStep
<1>3. CASE CharServerStep
  <2>1. ASSUME NEW a \in Accounts, NEW c, NEW l, NEW fits, AuthOk(a, c, l, fits), ~Silent
        PROVE  OfflineTrue
    <3>1. auth_db[a] # NULL /\ pc_db'[a] = NULL
      BY <2>1 DEF AuthOk, HasNode
    <3>2. toChar' \subseteq {Packet("offline", auth_db[a].sd.char_id)}
      BY <2>1 DEF AuthOk, Send
    <3>. QED BY <3>1, <3>2, NodeReported
  <2>2. ASSUME NEW a \in Accounts, Cleanup(a)
        PROVE  OfflineTrue
    <3>1. CASE HasNode(a, "ST_LOGOUT")
      <4>1. Save(auth_db[a].sd.char_id, TRUE).type # "offline"
        BY DEF Save
      <4>2. \A p \in toChar' : p.type # "offline"
        BY <2>2, <3>1, <4>1 DEF Cleanup, Send
      <4>. QED BY <4>2, NothingOffline
    <3>2. CASE ~HasNode(a, "ST_LOGOUT")
      <4>1. auth_db[a] # NULL /\ pc_db'[a] = NULL
        BY <2>2 DEF Cleanup, NodeOrPlayer
      <4>2. toChar' \subseteq {Packet("offline", auth_db[a].sd.char_id)}
        BY <2>2, <3>2 DEF Cleanup, Send
      <4>. QED BY <4>1, <4>2, NodeReported
    <3>. QED BY <3>1, <3>2
  <2>3. ASSUME NEW a \in Accounts, NEW c, NEW l, NEW ok,
               \/ AuthFail(a, c, l) \/ ChangeAck(a, c, ok) \/ SaveAck(a, c)
               \/ RegReceived(a) \/ DisconnectLogin(a) \/ DisconnectPlayer(a) \/ Ban(a)
        PROVE  OfflineTrue
    BY <1>1, <2>3, QuitReportsNobody
       DEF AuthFail, ChangeAck, SaveAck, RegReceived, DisconnectLogin, DisconnectPlayer, Ban
  <2>. QED BY <1>1, <1>3, <2>1, <2>2, <2>3 DEF CharServerStep
<1>4. CASE LinkStep
  BY <1>1, <1>4, OnReadyOffline DEF LinkStep, LinkUp, LinkLost, MapsReceived, MapsRemoved
<1>5. CASE Stop
  <2>1. \A a \in Accounts : pc_db'[a] = NULL
    BY <1>5 DEF Stop, Emptied
  <2>. QED BY <2>1 DEF OfflineTrue
<1>6. CASE DoShutdown \/ Crash \/ Start
  BY <1>1, <1>6, QuitReportsNobody DEF DoShutdown, Crash, Start
<1>. QED BY <1>2, <1>3, <1>4, <1>5, <1>6, PlayerOffline DEF Next, ProcessStep

(* While shops are not restored, no account that plays is reported offline *)
(* (chrif_char_offline): not by a clean-up that is a minute late, nor by a *)
(* login that is refused, nor when the link is ready again.                *)
THEOREM OfflineReportsTrue ==
  ASSUME FeatureAutotrade = FALSE
  PROVE  Spec => OfflineIsTrue
<1>1. IInv /\ NodeOrPlayer /\ [Next]_vars =>
        [\A c \in Chars : Packet("offline", c) \in toChar' => pc_db'[Owner[c]] = NULL]_vars
  BY StepOffline DEF IInv, OfflineTrue
<1>. QED BY <1>1, Inductive, NodeExcludesPlayer, PTL DEF OfflineIsTrue, Spec
============================================================================
