-------------------------------- MODULE Guild --------------------------------
(***************************************************************************)
(* The guilds of the char-server (char/int_guild.c).  A guild is read from *)
(* the tables when somebody first asks for it and changed in memory;       *)
(* save_flag says what of it the tables do not have yet, one run of        *)
(* guild_save_timer saves at most one guild, and a guild without members   *)
(* in the game is dropped once it is saved.  Some changes are written at   *)
(* once: a new guild, a member who leaves, a guild that is broken, a       *)
(* notice.                                                                 *)
(*                                                                         *)
(* Of the data of a guild the model keeps its master, its members (level   *)
(* and online mark), its allies and its enemies; "rest" stands for         *)
(* everything else in the guild's row and in the tables of positions,      *)
(* skills and expulsions.  Requests come from map-servers in any order, a  *)
(* request that map-servers would not send is left out where it is named.  *)
(***************************************************************************)
EXTENDS Naturals, FiniteSets, FiniteSetsExt

CONSTANTS Fellow,     \* characters
          NoGuild,    \* no row, or not in the cache
          NoMember,   \* not a member
          GuildSize,  \* bound: max_member
          MaxGuilds,  \* bound: guilds ever created
          MaxChanges  \* bound: requests of map-servers

Guild == 1 .. MaxGuilds
Level == 0 .. 1

\* struct guild_member and struct guild
MemberData == [level : Level, online : BOOLEAN]
GuildData ==
  [master : Fellow, rest : 0 .. 1, ally : SUBSET Guild, foe : SUBSET Guild,
   member : [Fellow -> MemberData \union {NoMember}]]

ASSUME GuildAssumption ==
  /\ IsFiniteSet(Fellow) /\ {GuildSize, MaxGuilds, MaxChanges} \subseteq Nat
  /\ NoMember \notin MemberData /\ NoGuild \notin GuildData

VARIABLES guild_db,     \* the tables
          guild_cache,  \* guild_db_: guilds in memory
          save_flag,    \* what is to be saved, and whether to drop it after
          modified,     \* members whose row is to be written
          last_id,      \* the guild saved last, 0 to start from the first
          last_guild,   \* the last guild_id given
          told,         \* requests to end the bonds of guilds with a broken one
          torn,         \* guilds for which a restart lost a change of bonds
          changes

guildVars == <<guild_db, guild_cache, save_flag, modified, last_id, last_guild, told, torn, changes>>

\* GS_MASK; "rest" stands for GS_EMBLEM, GS_CONNECT, GS_MES, GS_LEVEL,
\* GS_POSITION, GS_EXPULSION and GS_SKILL.
GsMask == {"basic", "member", "alliance", "rest"}
Bond == {"ally", "foe"}

Fresh(f) == [level |-> 0, online |-> TRUE]
Members(d) == {f \in Fellow : d.member[f] # NoMember}
Online(d) == {f \in Members(d) : d.member[f].online}

Cached == {g \in Guild : guild_cache[g] # NoGuild}
Dirty(g) == g \in Cached /\ save_flag[g] \intersect GsMask # {}

\* inter_guild_fromsql: a guild that is read carries GS_REMOVE, as save_flag
\* says of every guild that is not in memory.
Known(g) == IF g \in Cached THEN guild_cache[g] ELSE guild_db[g]
Exists(g) == Known(g) # NoGuild

GuildOf(f) == {g \in Guild : Exists(g) /\ f \in Members(Known(g))}

GuildInit ==
  /\ guild_db \in
       {[g \in Guild |-> IF g \in DOMAIN start THEN
           [master |-> start[g], rest |-> 0, ally |-> {}, foe |-> {},
            member |-> [f \in Fellow |->
                          IF f = start[g] THEN [level |-> 0, online |-> FALSE] ELSE NoMember]]
         ELSE NoGuild] :
          start \in {s \in [1 .. Min({2, MaxGuilds}) -> Fellow] :
                       \A g, h \in DOMAIN s : g # h => s[g] # s[h]}}
  /\ guild_cache = [g \in Guild |-> NoGuild]
  /\ save_flag = [g \in Guild |-> {"remove"}]
  /\ modified = [g \in Guild |-> {}]
  /\ last_id = 0 /\ last_guild = Min({2, MaxGuilds})
  /\ told = {} /\ torn = {} /\ changes = 0

-----------------------------------------------------------------------------
(* The tables *)

\* inter_guild_tosql: the row after the parts in flags are written.
RowOf(g, d, flags, marks) ==
  LET row == IF guild_db[g] = NoGuild THEN d ELSE guild_db[g]
  IN  [master |-> IF "basic" \in flags THEN d.master ELSE row.master,
       rest |-> IF "rest" \in flags THEN d.rest ELSE row.rest,
       ally |-> IF "alliance" \in flags THEN d.ally ELSE row.ally,
       foe |-> IF "alliance" \in flags THEN d.foe ELSE row.foe,
       member |-> [f \in Fellow |-> IF "member" \in flags /\ f \in marks \intersect Members(d)
                                    THEN d.member[f] ELSE row.member[f]]]

MarksAfter(flags, marks) == IF "member" \in flags THEN {} ELSE marks

SavedRow(g) == RowOf(g, guild_cache[g], save_flag[g], modified[g])

\* The guild in memory after a request, with what is to be saved of it.
Keep(g, d, flags, marks) ==
  /\ guild_cache' = [guild_cache EXCEPT ![g] = d]
  /\ save_flag' = [save_flag EXCEPT ![g] = flags]
  /\ modified' = [modified EXCEPT ![g] = marks]

Asked == changes < MaxChanges /\ changes' = changes + 1

-----------------------------------------------------------------------------
(* Requests of the map-servers *)

\* mapif_parse_CreateGuild: written at once.
CreateGuild(f) ==
  /\ Asked /\ GuildOf(f) = {} /\ last_guild < MaxGuilds
  /\ LET g == last_guild + 1
         d == [master |-> f, rest |-> 0, ally |-> {}, foe |-> {},
               member |-> [x \in Fellow |-> IF x = f THEN Fresh(f) ELSE NoMember]]
     IN  /\ last_guild' = g
         /\ guild_db' = [guild_db EXCEPT ![g] = d]
         /\ Keep(g, d, {}, {})
  /\ UNCHANGED <<last_id, told, torn>>

\* mapif_parse_GuildInfo.
GuildInfo(g) ==
  /\ Asked /\ Exists(g)
  /\ Keep(g, Known(g), save_flag[g], modified[g])
  /\ UNCHANGED <<guild_db, last_id, last_guild, told, torn>>

\* Mutant: who joins is not to be saved.
JoinFlags_None(flags) == flags \ {"remove"}

JoinFlags(flags) == (flags \union {"member"}) \ {"remove"}

\* mapif_parse_GuildAddMember, of a character without a guild.
GuildAddMember(g, f) ==
  /\ Asked /\ Exists(g) /\ GuildOf(f) = {}
  /\ LET d == Known(g)
     IN  IF Cardinality(Members(d)) < GuildSize
         THEN Keep(g, [d EXCEPT !.member[f] = Fresh(f)], JoinFlags(save_flag[g]),
                   modified[g] \union {f})
         ELSE Keep(g, d, save_flag[g], modified[g])
  /\ UNCHANGED <<guild_db, last_id, last_guild, told, torn>>

\* The bonds that the guilds in memory have with g.
BondsWith(g) ==
  {t \in (Cached \ {g}) \X {g} \X Bond :
     g \in (IF t[3] = "ally" THEN Known(t[1]).ally ELSE Known(t[1]).foe)}

\* mapif_parse_BreakGuild.  The tables forget the guild and so do the
\* map-servers, which ask in turn to end the bonds that guilds in memory have
\* with it (guild_broken_sub): they have a copy of every guild in memory here.
BreakGuild(g) ==
  /\ guild_db' = [h \in Guild |->
                    IF h = g \/ guild_db[h] = NoGuild THEN NoGuild
                    ELSE [guild_db[h] EXCEPT !.ally = @ \ {g}, !.foe = @ \ {g}]]
  /\ Keep(g, NoGuild, {"remove"}, {})
  /\ told' = {t \in told : t[1] # g} \union BondsWith(g)

\* guild_break: the last member.
Disband(g) ==
  /\ Asked /\ Exists(g) /\ Members(Known(g)) = {Known(g).master}
  /\ BreakGuild(g)
  /\ UNCHANGED <<last_id, last_guild, torn>>

\* Mutant: the row of the member stays.
RowsWithout_All(g, f) == guild_db

RowsWithout(g, f) == [guild_db EXCEPT ![g].member[f] = NoMember]

\* mapif_parse_GuildLeave: the member's row is deleted at once, and a guild
\* that is empty is broken.
GuildLeave(g, f) ==
  /\ Asked /\ Exists(g)
  /\ LET d == Known(g)
         left == [d EXCEPT !.member[f] = NoMember]
     IN  CASE f \notin Members(d) ->
                /\ Keep(g, d, save_flag[g], modified[g])
                /\ UNCHANGED <<guild_db, told>>
           [] f \in Members(d) /\ Members(left) = {} -> BreakGuild(g)
           [] OTHER ->
                /\ Keep(g, left, save_flag[g] \union {"rest"}, modified[g] \ {f})
                /\ guild_db' = RowsWithout(g, f)
                /\ UNCHANGED told
  /\ UNCHANGED <<last_id, last_guild, torn>>

\* mapif_parse_GuildChangeMemberInfoShort: the connected members and the
\* average level are counted again.
MemberInfoShort(g, f, online, level) ==
  /\ Asked /\ Exists(g)
  /\ LET d == Known(g)
         member == f \in Members(d)
         new == IF member THEN [d EXCEPT !.member[f] = [level |-> level, online |-> online]] ELSE d
     IN  Keep(g, new,
              (save_flag[g] \union {"member"} \union (IF new # d THEN {"rest"} ELSE {})) \ {"remove"},
              modified[g] \union (IF member THEN {f} ELSE {}))
  /\ UNCHANGED <<guild_db, last_id, last_guild, told, torn>>

\* mapif_parse_GuildMemberInfoChange; experience of a member is the guild's too.
MemberInfoChange(g, f, exp) ==
  /\ Asked /\ Exists(g)
  /\ LET d == Known(g)
     IN  IF f \in Members(d)
         THEN Keep(g, [d EXCEPT !.member[f].level = 1 - @],
                   save_flag[g] \union {"member"} \union (IF exp THEN {"rest"} ELSE {}),
                   modified[g] \union {f})
         ELSE Keep(g, d, save_flag[g], modified[g])
  /\ UNCHANGED <<guild_db, last_id, last_guild, told, torn>>

\* mapif_parse_GuildBasicInfoChange, GuildPosition, GuildSkillUp, GuildEmblem.
RestChange(g) ==
  /\ Asked /\ Exists(g)
  /\ Keep(g, [Known(g) EXCEPT !.rest = 1 - @], save_flag[g] \union {"rest"}, modified[g])
  /\ UNCHANGED <<guild_db, last_id, last_guild, told, torn>>

\* mapif_parse_GuildNotice: everything that is to be saved is written at once,
\* and written again by the timer, for the flags stay.
GuildNotice(g) ==
  /\ Asked /\ Exists(g)
  /\ LET d == Known(g)
         flags == save_flag[g] \union {"rest"}
     IN  /\ guild_db' = [guild_db EXCEPT ![g] = RowOf(g, d, flags, modified[g])]
         /\ Keep(g, d, flags, MarksAfter(flags, modified[g]))
  /\ UNCHANGED <<last_id, last_guild, told, torn>>

\* mapif_parse_GuildMasterChange: the two members trade places.
GuildMasterChange(g, f) ==
  /\ Asked /\ Exists(g)
  /\ LET d == Known(g)
     IN  IF f \in Members(d)
         THEN Keep(g, [d EXCEPT !.master = f], save_flag[g] \union {"basic", "member"},
                   modified[g] \union ({f, d.master} \intersect Members(d)))
         ELSE Keep(g, d, save_flag[g], modified[g])
  /\ UNCHANGED <<guild_db, last_id, last_guild, told, torn>>

\* The bonds of g after one of kind b with h begins or ends.
Bonded(g, h, b, on) ==
  LET with(S) == IF on THEN S \union {h} ELSE S \ {h}
  IN  IF b = "ally" THEN [Known(g) EXCEPT !.ally = with(@)] ELSE [Known(g) EXCEPT !.foe = with(@)]

\* Mutant: only the guild that asked is to be saved.
BondFlags_Asker(g, h) == [save_flag EXCEPT ![g] = @ \union {"alliance"}]

BondFlags(g, h) == [save_flag EXCEPT ![g] = @ \union {"alliance"}, ![h] = @ \union {"alliance"}]

\* Mutant: an alliance has one side, as an enmity has.
OtherSide_Kept(g, h, b, on) == Known(h)

OtherSide(g, h, b, on) == IF b = "ally" THEN Bonded(h, g, b, on) ELSE Known(h)

\* mapif_parse_GuildAlliance: an alliance has two sides, an enmity one.  Map-
\* servers ask for a bond only between guilds without one; they end an
\* alliance before they ask for an enmity, and enmities before an alliance.
GuildAlliance(g, h, b, on) ==
  /\ Asked /\ g # h /\ Exists(g) /\ Exists(h)
  /\ on => h \notin Known(g).ally \union Known(g).foe
  /\ on /\ b = "ally" => g \notin Known(h).ally \union Known(h).foe
  /\ guild_cache' = [guild_cache EXCEPT ![g] = Bonded(g, h, b, on), ![h] = OtherSide(g, h, b, on)]
  /\ save_flag' = BondFlags(g, h)
  /\ UNCHANGED <<guild_db, modified, last_id, last_guild, told, torn>>

\* mapif_parse_GuildDeleteAlliance: a map-server asks to end a bond with a
\* guild that was broken.
GuildDeleteAlliance(t) ==
  /\ t \in told
  /\ LET g == t[1]
         h == t[2]
         d == Known(g)
     IN  IF h \in d.ally \union d.foe
         THEN Keep(g, [d EXCEPT !.ally = @ \ {h}, !.foe = @ \ {h}],
                   save_flag[g] \union {"alliance"}, modified[g])
         ELSE Keep(g, d, save_flag[g], modified[g])
  /\ told' = told \ {t}
  /\ UNCHANGED <<guild_db, last_id, last_guild, torn, changes>>

-----------------------------------------------------------------------------
(* Characters, the timer and restarts *)

\* inter_guild_CharOnline: the mark is not to be saved by itself.
GuildCharOnline(f) ==
  /\ Asked
  /\ \E g \in GuildOf(f) :
       Keep(g, [Known(g) EXCEPT !.member[f].online = TRUE], save_flag[g] \ {"remove"},
            modified[g] \union {f})
  /\ UNCHANGED <<guild_db, last_id, last_guild, told, torn>>

\* inter_guild_CharOffline: the last to leave lets the guild be dropped.
GuildCharOffline(f) ==
  /\ Asked
  /\ \E g \in GuildOf(f) :
       LET d == [Known(g) EXCEPT !.member[f].online = FALSE]
       IN  Keep(g, d, IF Online(d) = {} THEN save_flag[g] \union {"remove"} ELSE save_flag[g],
                modified[g] \union {f})
  /\ UNCHANGED <<guild_db, last_id, last_guild, told, torn>>

\* The guilds after the one saved last, all when it starts from the first.
Upcoming == IF last_id = 0 THEN Cached
            ELSE IF last_id \in Cached THEN {g \in Cached : g > last_id} ELSE {}

\* Mutant: the place is kept when nothing was saved.
NextPlace_Kept(due) == IF due = {} THEN last_id ELSE Min(due)

NextPlace(due) == IF due = {} THEN 0 ELSE Min(due)

\* Mutant: a guild is dropped with what it has to save.
Droppable_Unsaved(flags) == "remove" \in flags

Droppable(flags) == flags = {"remove"}

\* guild_save_timer: the next guild with something to save is saved, and those
\* with nothing left to save and nobody in the game are dropped.
GuildSaveTimer ==
  LET due == {g \in Upcoming : Dirty(g)}
      saving(g) == due # {} /\ g = Min(due)
      flags(g) == IF saving(g) THEN save_flag[g] \ GsMask ELSE save_flag[g]
      dropped == {g \in Cached : Droppable(flags(g))}
  IN  /\ guild_db' = [g \in Guild |-> IF saving(g) THEN SavedRow(g) ELSE guild_db[g]]
      /\ guild_cache' = [g \in Guild |-> IF g \in dropped THEN NoGuild ELSE guild_cache[g]]
      /\ save_flag' = [g \in Guild |-> IF g \in dropped THEN {"remove"} ELSE flags(g)]
      /\ modified' = [g \in Guild |-> IF g \in dropped THEN {}
                                      ELSE IF saving(g) THEN MarksAfter(save_flag[g], modified[g])
                                      ELSE modified[g]]
      /\ last_id' = NextPlace(due)
      /\ UNCHANGED <<last_guild, told, torn, changes>>

Offline(row) ==
  [row EXCEPT !.member = [f \in Fellow |-> IF @[f] = NoMember THEN NoMember
                                           ELSE [@[f] EXCEPT !.online = FALSE]]]

\* The char-server stops, where guild_db_final saves what is to be saved, or
\* crashes, and starts; map-servers do not repeat what was under way.
GuildRestart(saves) ==
  /\ Asked
  /\ guild_db' = [g \in Guild |-> IF guild_db[g] = NoGuild THEN NoGuild
                                  ELSE Offline(IF saves /\ Dirty(g) THEN SavedRow(g)
                                               ELSE guild_db[g])]
  /\ guild_cache' = [g \in Guild |-> NoGuild]
  /\ save_flag' = [g \in Guild |-> {"remove"}]
  /\ modified' = [g \in Guild |-> {}]
  /\ last_id' = 0
  /\ torn' = torn \union {t[1] : t \in told} \union
             (IF saves THEN {} ELSE {g \in Cached : "alliance" \in save_flag[g]})
  /\ told' = {}
  /\ UNCHANGED last_guild

GuildRequest ==
  \/ \E f \in Fellow : CreateGuild(f) \/ GuildCharOnline(f) \/ GuildCharOffline(f)
  \/ \E g \in Guild : GuildInfo(g) \/ Disband(g) \/ RestChange(g) \/ GuildNotice(g)
  \/ \E g \in Guild, f \in Fellow :
       \/ GuildAddMember(g, f) \/ GuildLeave(g, f) \/ GuildMasterChange(g, f)
       \/ \E online \in BOOLEAN, level \in Level : MemberInfoShort(g, f, online, level)
       \/ \E exp \in BOOLEAN : MemberInfoChange(g, f, exp)
  \/ \E g, h \in Guild, b \in Bond, on \in BOOLEAN : GuildAlliance(g, h, b, on)
  \/ \E saves \in BOOLEAN : GuildRestart(saves)

GuildNext == GuildRequest \/ GuildSaveTimer \/ \E t \in told : GuildDeleteAlliance(t)

\* The timer runs again and again: it sets itself anew.
GuildFairness == WF_guildVars(GuildSaveTimer)

GuildSpec == GuildInit /\ [][GuildNext]_guildVars /\ GuildFairness

-----------------------------------------------------------------------------
(* Properties *)

\* Type invariant; a guild that is not in memory has nothing to be saved.
GuildTypeOK ==
  /\ {guild_db, guild_cache} \subseteq [Guild -> GuildData \union {NoGuild}]
  /\ save_flag \in [Guild -> SUBSET (GsMask \union {"remove"})]
  /\ modified \in [Guild -> SUBSET Fellow]
  /\ \A g \in Guild \ Cached : save_flag[g] = {"remove"} /\ modified[g] = {}
  /\ last_id \in 0 .. MaxGuilds /\ last_guild \in 0 .. MaxGuilds /\ changes \in 0 .. MaxChanges
  /\ told \subseteq Guild \X Guild \X Bond /\ torn \subseteq Guild

\* A guild in memory with nothing to save is in the tables as it is in memory,
\* but for the marks of who is in the game and for bonds that map-servers are
\* about to end: the flags that requests set name all that they changed
\* (int_guild.c: save_flag and modified).
BondsEnding(g, b) == {h \in Guild : <<g, h, b>> \in told}
Lasting(g, d) ==
  [master |-> d.master, rest |-> d.rest,
   levels |-> [f \in Fellow |-> IF d.member[f] = NoMember THEN NoMember ELSE d.member[f].level],
   ally |-> d.ally \ BondsEnding(g, "ally"), foe |-> d.foe \ BondsEnding(g, "foe")]
CleanIsSaved ==
  \A g \in Cached : ~Dirty(g) => Lasting(g, guild_db[g]) = Lasting(g, guild_cache[g])

\* The two together: what is not to be saved is nowhere but in the tables.
GuildsWhole == GuildTypeOK /\ CleanIsSaved

\* A guild's allies are its allies still, whichever of them is in memory, was
\* saved or dropped, and no guild has a bond with one that was broken; but for
\* bonds that map-servers are about to end and for what a restart lost.
AlliancesMutual ==
  \A g \in Guild \ torn : Exists(g) =>
    /\ \A h \in Known(g).ally \ torn :
         IF Exists(h) THEN g \in Known(h).ally ELSE <<g, h, "ally">> \in told
    /\ \A h \in Known(g).foe : Exists(h) \/ <<g, h, "foe">> \in told

\* What is to be saved is saved, or the guild is broken (guild_save_timer).
GuildSaved == \A g \in Guild : Dirty(g) ~> ~Dirty(g)
=============================================================================
