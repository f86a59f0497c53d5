------------------------------- MODULE MCLive -------------------------------
(***************************************************************************)
(* What must eventually happen, for TLC: the storages, the guilds, the     *)
(* login-server, the char-server and the map-server, each on an instance   *)
(* small enough for its liveness properties.  A behaviour has steps of     *)
(* only one of them, the others rest, and fairness is asked of that one.   *)
(***************************************************************************)
EXTENDS Storage, Guild, Integers

CONSTANTS a1, c1, l1, l2, NULL, f1, f2

VARIABLES part,
  online_db, login_auth, timer_data, ch_server, stalled, sent, issued, newest, grants,
  online_char_db, char_auth, char_session, map_server, login_fd, toLogin, toMap, granted,
  session, auth_db, pc_db, quit_timers, link, other_mapserver_count, runflag, vendings,
  toChar, unsaved

loginVars == <<online_db, login_auth, timer_data, ch_server, stalled, sent, issued, newest, grants>>
charVars == <<online_char_db, char_auth, char_session, map_server, login_fd, toLogin, toMap,
              granted>>
mapVars == <<session, auth_db, pc_db, quit_timers, link, other_mapserver_count, runflag,
             vendings, toChar, unsaved>>

L == INSTANCE LoginServer WITH
       Accounts <- {a1}, CharServers <- {0, 1}, LoginIds <- {l1, l2}, TimerIds <- {0, 1},
       auth_db <- login_auth
C == INSTANCE CharServer WITH
       Accounts <- {a1}, Chars <- {150016}, Owner <- [c \in {150016} |-> a1], LoginIds <- {l1},
       Fds <- {1}, MapServers <- {0, 1}, auth_db <- char_auth, session <- char_session
M == INSTANCE MapServer WITH
       Accounts <- {a1}, Chars <- {c1}, Owner <- [c \in {c1} |-> a1], LoginIds <- {l1, l2},
       Fds <- {1}, MaxMapServers <- 1, MaxTimers <- 1, FeatureAutotrade <- TRUE

LiveInit ==
  /\ part \in {"storage", "guild", "login", "char", "map"}
  /\ StorageInit /\ L!Init /\ C!Init /\ M!Init
  /\ part # "storage" => gstor_db = Item \ Bound /\ pack_db[Master] = Bound
  /\ GuildInit /\ guild_db[1].master = f1 /\ guild_db[2].master = f2

LiveNext ==
  /\ part' = part
  /\ \/ part = "storage" /\ StorageNext /\ UNCHANGED <<guildVars, loginVars, charVars, mapVars>>
     \/ part = "guild" /\ GuildNext /\ UNCHANGED <<storageVars, loginVars, charVars, mapVars>>
     \/ part = "login" /\ L!Next /\ UNCHANGED <<storageVars, guildVars, charVars, mapVars>>
     \/ part = "char" /\ C!Next /\ UNCHANGED <<storageVars, guildVars, loginVars, mapVars>>
     \/ part = "map" /\ M!Next /\ UNCHANGED <<storageVars, guildVars, loginVars, charVars>>

\* StorageFairness, GuildFairness, L!Fairness, C!Fairness and M!Fairness, each asked of the
\* behaviours of its part only.
LiveFairness ==
  /\ WF_storageVars(part = "storage" /\ MapHandles)
  /\ WF_storageVars(part = "storage" /\ InterHandles)
  /\ WF_guildVars(part = "guild" /\ GuildSaveTimer)
  /\ \A t \in 0 .. 1 : WF_loginVars(part = "login" /\ L!WaitingDisconnectTimer(t))
  /\ WF_loginVars(part = "login" /\ L!OnlineDataCleanup)
  /\ \A c \in 0 .. 1 :
       WF_loginVars(part = "login" /\ stalled[c] = a1 /\ L!PincodeAuthFail(c, a1))
  /\ WF_charVars(part = "char" /\ C!OnlineDataCleanup)
  /\ WF_charVars(part = "char" /\ C!WaitingDisconnect(a1))
  /\ WF_mapVars(part = "map" /\ M!CloseSession(1))
  /\ WF_mapVars(part = "map" /\ M!DelayQuit(a1))
  /\ WF_mapVars(part = "map" /\ M!Cleanup(a1))
  /\ WF_mapVars(part = "map" /\ M!LinkUp)
  /\ WF_mapVars(part = "map" /\ M!OnReady)
  /\ WF_mapVars(part = "map" /\ M!Stop)

LiveSpec ==
  /\ LiveInit /\ [][LiveNext]_<<part, storageVars, guildVars, loginVars, charVars, mapVars>>
  /\ LiveFairness

\* Nothing stays stuck: a storage is unlocked again, a guild is saved, an account that was
\* authenticated, kicked or lost with its server is released, a player without
\* a client leaves, and a node that nobody answers is dropped.  Each conjunct
\* is a property of the module that it names.
NothingStuck ==
  /\ LockReleased /\ GuildSaved
  /\ L!AuthedReleased /\ L!KickResolves /\ L!LostReleased
  /\ C!UnknownReleased /\ C!KickExpires
  /\ M!GhostLeaves /\ M!StaleNodeGone
=============================================================================
