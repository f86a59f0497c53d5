----------------------------- MODULE GuildProofs -----------------------------
(***************************************************************************)
(* Proofs about Guild, and about Storage, which has the goods of guilds.   *)
(*                                                                         *)
(* GuildsWhole alone is not inductive, as a guild is written in parts:     *)
(* IInv says of each part what the tables have while its flag is not set,  *)
(* and for the members of each one that is not marked. AlliancesMutual     *)
(* needs it, since a guild that is dropped is from then on what its rows   *)
(* say.                                                                    *)
(*                                                                         *)
(* An acknowledgement says nothing of what it acknowledges; that it may    *)
(* clear the dirty mark of a storage nobody uses rests on StorageInv:      *)
(* while a save or its answer is under way, the last save sent has what is *)
(* in the storage. That no item is in two places rests on the order of     *)
(* what is under way: a character's final save is its last, its login is   *)
(* answered while it is away, and a storage that was asked for before it   *)
(* was saved and is read after it is dirty.                                *)
(***************************************************************************)
EXTENDS Guild, Storage, Integers, FiniteSetTheorems, FunctionTheorems,
        WellFoundedInduction, TLAPS

Flags == SUBSET (GsMask \union {"remove"})

SameMember(row, d, f) ==
  /\ row.member[f] = NoMember <=> d.member[f] = NoMember
  /\ row.member[f] # NoMember => row.member[f].level = d.member[f].level

Ending(g, b, asked) == {h \in Guild : <<g, h, b>> \in asked}

\* The row of g is d, but for what is to be saved and for bonds whose end has
\* been asked for.
RowFollows(g, row, d, flags, marks, asked) ==
  /\ "basic" \notin flags => row.master = d.master
  /\ "rest" \notin flags => row.rest = d.rest
  /\ "alliance" \notin flags =>
       /\ row.ally \subseteq d.ally /\ d.ally \subseteq row.ally \union Ending(g, "ally", asked)
       /\ row.foe \subseteq d.foe /\ d.foe \subseteq row.foe \union Ending(g, "foe", asked)
  /\ \A f \in Fellow : d.member[f] = NoMember => row.member[f] = NoMember
  /\ \A f \in Fellow : "member" \notin flags \/ f \notin marks => SameMember(row, d, f)

RowsFollow ==
  \A g \in Guild : guild_cache[g] # NoGuild =>
    /\ guild_db[g] # NoGuild
    /\ RowFollows(g, guild_db[g], guild_cache[g], save_flag[g], modified[g], told)

\* Ids are given once, and bonds are asked to end with guilds that are gone.
ToldOfBroken ==
  \A t \in told : Exists(t[1]) /\ ~Exists(t[2]) /\ t[2] <= last_guild

IdsGiven == \A g \in Guild : Exists(g) => g <= last_guild

IInv == GuildTypeOK /\ RowsFollow /\ ToldOfBroken /\ IdsGiven /\ AlliancesMutual

\* GuildTypeOK in the shape that the proofs use.
TypesOK ==
  /\ guild_db \in [Guild -> GuildData \union {NoGuild}]
  /\ guild_cache \in [Guild -> GuildData \union {NoGuild}]
  /\ save_flag \in [Guild -> Flags]
  /\ modified \in [Guild -> SUBSET Fellow]
  /\ \A g \in Guild : guild_cache[g] = NoGuild => save_flag[g] = {"remove"} /\ modified[g] = {}
  /\ told \subseteq Guild \X Guild \X Bond /\ torn \subseteq Guild

CountsOK == last_id \in 0 .. MaxGuilds /\ last_guild \in 0 .. MaxGuilds /\ changes \in 0 .. MaxChanges

LEMMA TypeParts == GuildTypeOK <=> TypesOK /\ CountsOK
  BY DEF GuildTypeOK, TypesOK, CountsOK, Flags, Cached

LEMMA TypePartsNext == GuildTypeOK' <=> TypesOK' /\ CountsOK'
  BY DEF GuildTypeOK, TypesOK, CountsOK, Flags, Cached

-----------------------------------------------------------------------------
(* IInv and the properties *)

LEMMA ExistsInTables ==
  ASSUME TypesOK, RowsFollow, NEW g \in Guild
  PROVE  /\ Exists(g) <=> guild_db[g] # NoGuild
         /\ Exists(g) <=> Known(g) \in GuildData
         /\ Exists(g) => guild_db[g] \in GuildData
         /\ guild_cache[g] # NoGuild => Known(g) = guild_cache[g]
         /\ guild_cache[g] = NoGuild => Known(g) = guild_db[g]
  BY GuildAssumption DEF TypesOK, RowsFollow, Exists, Known, Cached

LEMMA CleanRows == IInv => CleanIsSaved
<1>. SUFFICES ASSUME IInv, NEW g \in Cached, ~Dirty(g)
              PROVE  Lasting(g, guild_db[g]) = Lasting(g, guild_cache[g])
  BY DEF CleanIsSaved
<1>. DEFINE row == guild_db[g] d == guild_cache[g]
<1>1. TypesOK /\ RowsFollow
  BY TypeParts DEF IInv
<1>2. g \in Guild /\ guild_cache[g] # NoGuild /\ row \in GuildData /\ d \in GuildData
  BY <1>1 DEF Cached, TypesOK, RowsFollow
<1>3. save_flag[g] \intersect GsMask = {}
  BY DEF Dirty
<1>4. RowFollows(g, row, d, save_flag[g], modified[g], told)
  BY <1>1, <1>2 DEF RowsFollow
<1>5. row.master = d.master /\ row.rest = d.rest
  BY <1>3, <1>4 DEF RowFollows, GsMask
<1>6. /\ row.ally \ BondsEnding(g, "ally") = d.ally \ BondsEnding(g, "ally")
      /\ row.foe \ BondsEnding(g, "foe") = d.foe \ BondsEnding(g, "foe")
  BY <1>3, <1>4 DEF RowFollows, GsMask, BondsEnding, Ending
<1>7. ASSUME NEW f \in Fellow
      PROVE  /\ row.member[f] = NoMember <=> d.member[f] = NoMember
             /\ row.member[f] # NoMember => row.member[f].level = d.member[f].level
  BY <1>3, <1>4 DEF RowFollows, GsMask, SameMember
<1>8. [f \in Fellow |-> IF row.member[f] = NoMember THEN NoMember ELSE row.member[f].level]
       = [f \in Fellow |-> IF d.member[f] = NoMember THEN NoMember ELSE d.member[f].level]
  BY <1>7
<1>. QED BY <1>2, <1>5, <1>6, <1>8 DEF Lasting

-----------------------------------------------------------------------------
(* Steps that change one guild and no bonds *)

\* Bonds that no step touches stay mutual.
LEMMA SameBonds ==
  ASSUME IInv,
         \A g \in Guild : Exists(g)' <=> Exists(g),
         \A g \in Guild : Exists(g) => Known(g)'.ally = Known(g).ally /\ Known(g)'.foe = Known(g).foe,
         told' = told, torn' = torn, last_guild' = last_guild
  PROVE  AlliancesMutual' /\ ToldOfBroken' /\ IdsGiven'
<1>1. \A g \in Guild : Exists(g) => Known(g).ally \subseteq Guild /\ Known(g).foe \subseteq Guild
  BY TypeParts, ExistsInTables DEF IInv, GuildData
<1>2. told \subseteq Guild \X Guild \X Bond
  BY DEF IInv, GuildTypeOK
<1>3. AlliancesMutual'
  BY <1>1 DEF IInv, AlliancesMutual
<1>4. ToldOfBroken'
  BY <1>2 DEF IInv, ToldOfBroken
<1>. QED BY <1>3, <1>4 DEF IInv, IdsGiven

LEMMA KeepRow ==
  ASSUME IInv, NEW g \in Guild, Exists(g), NEW d \in GuildData, NEW row \in GuildData,
         NEW flags \in Flags, NEW marks \in SUBSET Fellow,
         Keep(g, d, flags, marks), guild_db' = [guild_db EXCEPT ![g] = row],
         UNCHANGED <<told, torn, last_guild>>, CountsOK',
         RowFollows(g, row, d, flags, marks, told),
         d.ally = Known(g).ally, d.foe = Known(g).foe
  PROVE  IInv'
<1>1. TypesOK /\ RowsFollow
  BY TypeParts DEF IInv
<1>2. TypesOK'
  BY <1>1, GuildAssumption DEF TypesOK, Keep
<1>3. RowsFollow'
  BY <1>1, GuildAssumption DEF TypesOK, RowsFollow, Keep
<1>4. /\ \A h \in Guild : Exists(h)' <=> Exists(h)
      /\ \A h \in Guild : Exists(h) => Known(h)'.ally = Known(h).ally /\ Known(h)'.foe = Known(h).foe
  BY <1>1, GuildAssumption DEF Exists, Known, Cached, Keep, TypesOK
<1>5. AlliancesMutual' /\ ToldOfBroken' /\ IdsGiven'
  BY <1>4, SameBonds
<1>. QED BY <1>2, <1>3, <1>5, TypePartsNext DEF IInv

\* ... and not the tables.
LEMMA KeepOnly ==
  ASSUME IInv, NEW g \in Guild, Exists(g), NEW d \in GuildData,
         NEW flags \in Flags, NEW marks \in SUBSET Fellow,
         Keep(g, d, flags, marks), UNCHANGED <<guild_db, told, torn, last_guild>>, CountsOK',
         RowFollows(g, guild_db[g], d, flags, marks, told),
         d.ally = Known(g).ally, d.foe = Known(g).foe
  PROVE  IInv'
<1>1. TypesOK /\ RowsFollow
  BY TypeParts DEF IInv
<1>2. guild_db[g] \in GuildData
  BY <1>1, ExistsInTables
<1>3. guild_db' = [guild_db EXCEPT ![g] = guild_db[g]]
  BY <1>1 DEF TypesOK
<1>. QED BY <1>2, <1>3, KeepRow

\* What a guild is in memory, or would be.
LEMMA KnownFollows ==
  ASSUME IInv, NEW g \in Guild, Exists(g)
  PROVE  /\ Known(g) \in GuildData /\ guild_db[g] \in GuildData
         /\ save_flag[g] \in Flags /\ modified[g] \in SUBSET Fellow
         /\ RowFollows(g, guild_db[g], Known(g), save_flag[g], modified[g], told)
<1>1. TypesOK /\ RowsFollow
  BY TypeParts DEF IInv
<1>2. CASE guild_cache[g] # NoGuild
  BY <1>1, <1>2, ExistsInTables DEF RowsFollow, TypesOK
<1>3. CASE guild_cache[g] = NoGuild
  <2>1. Known(g) = guild_db[g] /\ guild_db[g] \in GuildData
    BY <1>1, <1>3, ExistsInTables
  <2>. QED BY <1>1, <2>1 DEF RowFollows, SameMember, TypesOK
<1>. QED BY <1>2, <1>3

LEMMA AskedCounts ==
  ASSUME IInv, Asked, UNCHANGED <<last_id, last_guild>>
  PROVE  CountsOK'
  BY TypeParts, GuildAssumption DEF IInv, CountsOK, Asked

-----------------------------------------------------------------------------
(* The requests that change one guild *)

LEMMA GuildInfoInv ==
  ASSUME IInv, NEW g \in Guild, GuildInfo(g)
  PROVE  IInv'
  BY KnownFollows, KeepOnly, AskedCounts DEF GuildInfo

LEMMA FreshTyped == \A f \in Fellow : Fresh(f) \in MemberData
<1>1. 0 \in Level
  BY DEF Level
<1>. QED BY <1>1, Zenon DEF Fresh, MemberData

LEMMA AddMemberInv ==
  ASSUME IInv, NEW g \in Guild, NEW f \in Fellow, GuildAddMember(g, f)
  PROVE  IInv'
<1>. DEFINE d == Known(g) new == [d EXCEPT !.member[f] = Fresh(f)]
<1>1. /\ d \in GuildData /\ guild_db[g] \in GuildData
      /\ save_flag[g] \in Flags /\ modified[g] \in SUBSET Fellow
      /\ RowFollows(g, guild_db[g], d, save_flag[g], modified[g], told)
  BY KnownFollows DEF GuildAddMember
<1>2. CountsOK' /\ Exists(g) /\ UNCHANGED <<guild_db, told, torn, last_guild>>
  BY AskedCounts DEF GuildAddMember
<1>3. CASE Keep(g, d, save_flag[g], modified[g])
  BY <1>1, <1>2, <1>3, KeepOnly
<1>4. CASE Keep(g, new, JoinFlags(save_flag[g]), modified[g] \union {f})
  <2>1. Fresh(f) \in MemberData /\ Fresh(f) # NoMember
    BY GuildAssumption, FreshTyped
  <2>2. /\ new \in GuildData /\ new.ally = d.ally /\ new.foe = d.foe
        /\ new.master = d.master /\ new.rest = d.rest
        /\ new.member = [d.member EXCEPT ![f] = Fresh(f)]
    <3>1. d.member \in [Fellow -> MemberData \union {NoMember}]
      BY <1>1 DEF GuildData
    <3>2. [d.member EXCEPT ![f] = Fresh(f)] \in [Fellow -> MemberData \union {NoMember}]
      BY <2>1, <3>1
    <3>3. new = [d EXCEPT !.member = [d.member EXCEPT ![f] = Fresh(f)]]
      OBVIOUS
    <3>. HIDE DEF d, new
    <3>. QED BY <1>1, <3>2, <3>3 DEF GuildData
  <2>3. JoinFlags(save_flag[g]) \in Flags /\ "member" \in JoinFlags(save_flag[g])
    BY <1>1 DEF JoinFlags, Flags, GsMask
  <2>4. /\ "basic" \in save_flag[g] <=> "basic" \in JoinFlags(save_flag[g])
        /\ "rest" \in save_flag[g] <=> "rest" \in JoinFlags(save_flag[g])
        /\ "alliance" \in save_flag[g] <=> "alliance" \in JoinFlags(save_flag[g])
    BY DEF JoinFlags
  <2>. HIDE DEF new, d
  <2>5. d.member \in [Fellow -> MemberData \union {NoMember}]
    BY <1>1 DEF GuildData
  <2>6. RowFollows(g, guild_db[g], new, JoinFlags(save_flag[g]), modified[g] \union {f}, told)
    BY <1>1, <2>1, <2>2, <2>3, <2>4, <2>5 DEF RowFollows, SameMember
  <2>. QED BY <1>1, <1>2, <1>4, <2>2, <2>3, <2>6, KeepOnly DEF d
<1>. QED BY <1>3, <1>4 DEF GuildAddMember

\* A change of one member, which is marked and flagged to be saved.
LEMMA MarkMember ==
  ASSUME IInv, NEW g \in Guild, Exists(g), NEW f \in Fellow, NEW new \in GuildData,
         NEW flags \in Flags, NEW marks \in SUBSET Fellow,
         new.ally = Known(g).ally, new.foe = Known(g).foe,
         \/ new.master = Known(g).master
         \/ "basic" \in flags,
         \/ new.rest = Known(g).rest
         \/ "rest" \in flags,
         \A x \in Fellow : Known(g).member[x] = NoMember <=> new.member[x] = NoMember,
         \A x \in Fellow : x # f => Known(g).member[x] = new.member[x],
         f \in marks \/ new.member[f] = Known(g).member[f],
         \/ "member" \in flags
         \/ \A x \in Fellow : new.member[x] # NoMember => new.member[x].level = Known(g).member[x].level,
         modified[g] \subseteq marks, save_flag[g] \ {"remove"} \subseteq flags,
         Keep(g, new, flags, marks), UNCHANGED <<guild_db, told, torn, last_guild>>, CountsOK'
  PROVE  IInv'
<1>1. /\ Known(g) \in GuildData /\ guild_db[g] \in GuildData
      /\ RowFollows(g, guild_db[g], Known(g), save_flag[g], modified[g], told)
  BY KnownFollows
<1>2. ASSUME NEW x \in Fellow, "member" \notin flags \/ x \notin marks
      PROVE  SameMember(guild_db[g], new, x)
  <2>1. "member" \notin save_flag[g] \/ x \notin modified[g]
    BY <1>2
  <2>2. SameMember(guild_db[g], Known(g), x)
    BY <1>1, <2>1 DEF RowFollows
  <2>. QED BY <1>2, <2>2 DEF SameMember
<1>3. RowFollows(g, guild_db[g], new, flags, marks, told)
  BY <1>1, <1>2 DEF RowFollows
<1>. QED BY <1>1, <1>3, KeepOnly

LEMMA WithMember ==
  ASSUME NEW d \in GuildData, NEW f \in Fellow, NEW v \in MemberData \union {NoMember}
  PROVE  /\ [d EXCEPT !.member[f] = v] \in GuildData
         /\ [d EXCEPT !.member[f] = v].ally = d.ally
         /\ [d EXCEPT !.member[f] = v].foe = d.foe
         /\ [d EXCEPT !.member[f] = v].master = d.master
         /\ [d EXCEPT !.member[f] = v].rest = d.rest
         /\ [d EXCEPT !.member[f] = v].member = [d.member EXCEPT ![f] = v]
<1>. DEFINE m == [d.member EXCEPT ![f] = v]
<1>1. d.member \in [Fellow -> MemberData \union {NoMember}]
  BY DEF GuildData
<1>2. m \in [Fellow -> MemberData \union {NoMember}]
  BY <1>1
<1>3. [d EXCEPT !.member[f] = v] = [d EXCEPT !.member = m]
  OBVIOUS
<1>. HIDE DEF m
<1>. QED BY <1>2, <1>3 DEF GuildData, m

\* A member who is changed, marked and flagged.
LEMMA ChangeMember ==
  ASSUME IInv, NEW g \in Guild, Exists(g), NEW f \in Fellow, NEW v \in MemberData,
         Known(g).member[f] # NoMember,
         NEW flags \in Flags, "member" \in flags \/ v.level = Known(g).member[f].level,
         save_flag[g] \ {"remove"} \subseteq flags,
         Keep(g, [Known(g) EXCEPT !.member[f] = v], flags, modified[g] \union {f}),
         UNCHANGED <<guild_db, told, torn, last_guild>>, CountsOK'
  PROVE  IInv'
<1>. DEFINE new == [Known(g) EXCEPT !.member[f] = v]
<1>1. Known(g) \in GuildData /\ modified[g] \in SUBSET Fellow
  BY KnownFollows
<1>2. /\ new \in GuildData /\ new.ally = Known(g).ally /\ new.foe = Known(g).foe
      /\ new.master = Known(g).master /\ new.rest = Known(g).rest
      /\ new.member = [Known(g).member EXCEPT ![f] = v]
  BY <1>1, WithMember
<1>3. Known(g).member \in [Fellow -> MemberData \union {NoMember}] /\ v # NoMember
  BY <1>1, GuildAssumption DEF GuildData
<1>. DEFINE marks == modified[g] \union {f}
<1>4. Keep(g, new, flags, marks)
  OBVIOUS
<1>. HIDE DEF new
<1>5. /\ \A x \in Fellow : Known(g).member[x] = NoMember <=> new.member[x] = NoMember
      /\ \A x \in Fellow : x # f => Known(g).member[x] = new.member[x]
      /\ \/ "member" \in flags
         \/ \A x \in Fellow : new.member[x] # NoMember =>
              new.member[x].level = Known(g).member[x].level
  BY <1>2, <1>3
<1>6. marks \in SUBSET Fellow /\ modified[g] \subseteq marks /\ f \in marks
  BY <1>1
<1>. HIDE DEF marks
<1>7. /\ new.ally = Known(g).ally /\ new.foe = Known(g).foe
      /\ new.master = Known(g).master \/ "basic" \in flags
      /\ new.rest = Known(g).rest \/ "rest" \in flags
      /\ f \in marks \/ new.member[f] = Known(g).member[f]
  BY <1>2, <1>6
<1>8. new \in GuildData /\ Keep(g, new, flags, marks)
  BY <1>2, <1>4
<1>. QED BY <1>5, <1>6, <1>7, <1>8, MarkMember, SMTT(60)

\* Flags that are added leave those that were set, but for GS_REMOVE.
LEMMA FlagsAdded ==
  ASSUME NEW flags \in Flags, NEW more \in SUBSET GsMask
  PROVE  /\ flags \union more \in Flags /\ (flags \union more) \ {"remove"} \in Flags
         /\ flags \ {"remove"} \subseteq flags \union more
         /\ flags \ {"remove"} \subseteq (flags \union more) \ {"remove"}
         /\ flags \ {"remove"} \in Flags
  BY DEF Flags

\* Flags and marks only.
LEMMA MoreFlags ==
  ASSUME IInv, NEW g \in Guild, Exists(g),
         NEW flags \in Flags, NEW marks \in SUBSET Fellow,
         modified[g] \subseteq marks, save_flag[g] \ {"remove"} \subseteq flags,
         Keep(g, Known(g), flags, marks),
         UNCHANGED <<guild_db, told, torn, last_guild>>, CountsOK'
  PROVE  IInv'
<1>1. /\ Known(g) \in GuildData
      /\ RowFollows(g, guild_db[g], Known(g), save_flag[g], modified[g], told)
  BY KnownFollows
<1>2. RowFollows(g, guild_db[g], Known(g), flags, marks, told)
  BY <1>1 DEF RowFollows
<1>. QED BY <1>1, <1>2, KeepOnly

LEMMA InfoShortInv ==
  ASSUME IInv, NEW g \in Guild, NEW f \in Fellow, NEW online \in BOOLEAN, NEW level \in Level,
         MemberInfoShort(g, f, online, level)
  PROVE  IInv'
<1>. DEFINE v == [level |-> level, online |-> online]
            new == [Known(g) EXCEPT !.member[f] = v]
            more == {"member"} \union (IF new # Known(g) THEN {"rest"} ELSE {})
<1>1. Known(g) \in GuildData /\ modified[g] \in SUBSET Fellow /\ save_flag[g] \in Flags /\ Exists(g)
  BY KnownFollows DEF MemberInfoShort
<1>2. CountsOK' /\ UNCHANGED <<guild_db, told, torn, last_guild>>
  BY AskedCounts DEF MemberInfoShort
<1>3. v \in MemberData
  BY Zenon DEF MemberData
<1>4. CASE f \in Members(Known(g))
  <2>1. Keep(g, new, (save_flag[g] \union more) \ {"remove"}, modified[g] \union {f})
    <3>1. (save_flag[g] \union {"member"} \union (IF new # Known(g) THEN {"rest"} ELSE {})) \ {"remove"}
            = (save_flag[g] \union more) \ {"remove"}
      OBVIOUS
    <3>. QED BY <1>4, <3>1 DEF MemberInfoShort
  <2>2. more \in SUBSET GsMask /\ "member" \in more
    BY DEF GsMask
  <2>. HIDE DEF more, v
  <2>. DEFINE flags == (save_flag[g] \union more) \ {"remove"}
  <2>3. /\ flags \in Flags /\ "member" \in flags /\ save_flag[g] \ {"remove"} \subseteq flags
        /\ Keep(g, new, flags, modified[g] \union {f})
    BY <1>1, <2>1, <2>2, FlagsAdded
  <2>4. Known(g).member[f] # NoMember
    BY <1>4 DEF Members
  <2>. HIDE DEF flags
  <2>. QED BY <1>1, <1>2, <1>3, <2>3, <2>4, ChangeMember
<1>5. CASE f \notin Members(Known(g))
  <2>1. Keep(g, Known(g), (save_flag[g] \union {"member"}) \ {"remove"}, modified[g])
    <3>1. /\ (save_flag[g] \union {"member"} \union {}) \ {"remove"}
               = (save_flag[g] \union {"member"}) \ {"remove"}
          /\ modified[g] \union {} = modified[g]
      OBVIOUS
    <3>. QED BY <1>5, <3>1 DEF MemberInfoShort
  <2>2. {"member"} \in SUBSET GsMask
    BY DEF GsMask
  <2>. DEFINE flags == (save_flag[g] \union {"member"}) \ {"remove"}
  <2>3. /\ flags \in Flags /\ save_flag[g] \ {"remove"} \subseteq flags
        /\ Keep(g, Known(g), flags, modified[g])
    BY <1>1, <2>1, <2>2, FlagsAdded
  <2>. HIDE DEF flags
  <2>. QED BY <1>1, <1>2, <2>3, MoreFlags
<1>. QED BY <1>4, <1>5

LEMMA InfoChangeInv ==
  ASSUME IInv, NEW g \in Guild, NEW f \in Fellow, NEW exp \in BOOLEAN,
         MemberInfoChange(g, f, exp)
  PROVE  IInv'
<1>. DEFINE m == Known(g).member[f]
            v == [m EXCEPT !.level = 1 - @]
            more == {"member"} \union (IF exp THEN {"rest"} ELSE {})
<1>1. Known(g) \in GuildData /\ modified[g] \in SUBSET Fellow /\ save_flag[g] \in Flags /\ Exists(g)
  BY KnownFollows DEF MemberInfoChange
<1>2. CountsOK' /\ UNCHANGED <<guild_db, told, torn, last_guild>>
  BY AskedCounts DEF MemberInfoChange
<1>3. CASE f \in Members(Known(g))
  <2>1. m # NoMember /\ m \in MemberData
    BY <1>1, <1>3 DEF Members, GuildData
  <2>2. v \in MemberData
    <3>1. 1 - m.level \in Level
      BY <2>1 DEF MemberData, Level
    <3>. QED BY <2>1, <3>1 DEF MemberData
  <2>3. Keep(g, [Known(g) EXCEPT !.member[f] = v], save_flag[g] \union more, modified[g] \union {f})
    <3>1. save_flag[g] \union {"member"} \union (IF exp THEN {"rest"} ELSE {})
            = save_flag[g] \union more
      OBVIOUS
    <3>2. [Known(g) EXCEPT !.member[f].level = 1 - @] = [Known(g) EXCEPT !.member[f] = v]
      OBVIOUS
    <3>. QED BY <1>3, <3>1, <3>2 DEF MemberInfoChange
  <2>4. more \in SUBSET GsMask /\ "member" \in more
    BY DEF GsMask
  <2>. DEFINE flags == save_flag[g] \union more
  <2>. HIDE DEF v, more
  <2>5. /\ flags \in Flags /\ "member" \in flags /\ save_flag[g] \ {"remove"} \subseteq flags
        /\ Keep(g, [Known(g) EXCEPT !.member[f] = v], flags, modified[g] \union {f})
    BY <1>1, <2>3, <2>4, FlagsAdded
  <2>. HIDE DEF flags
  <2>. QED BY <1>1, <1>2, <2>1, <2>2, <2>5, ChangeMember
<1>4. CASE f \notin Members(Known(g))
  BY <1>1, <1>2, <1>4, MoreFlags DEF MemberInfoChange
<1>. QED BY <1>3, <1>4

LEMMA RestChangeInv ==
  ASSUME IInv, NEW g \in Guild, RestChange(g)
  PROVE  IInv'
<1>. DEFINE d == Known(g)
            new == [d EXCEPT !.rest = 1 - @]
            flags == save_flag[g] \union {"rest"}
<1>1. /\ d \in GuildData /\ modified[g] \in SUBSET Fellow /\ save_flag[g] \in Flags /\ Exists(g)
      /\ RowFollows(g, guild_db[g], d, save_flag[g], modified[g], told)
  BY KnownFollows DEF RestChange
<1>2. CountsOK' /\ UNCHANGED <<guild_db, told, torn, last_guild>>
  BY AskedCounts DEF RestChange
<1>3. /\ new \in GuildData /\ new.ally = d.ally /\ new.foe = d.foe
      /\ new.master = d.master /\ new.member = d.member
  <2>1. d.rest \in 0 .. 1
    BY <1>1 DEF GuildData
  <2>2. 1 - d.rest \in 0 .. 1
    BY <2>1
  <2>. HIDE DEF d
  <2>. QED BY <1>1, <2>2 DEF GuildData
<1>4. Keep(g, new, flags, modified[g])
  BY DEF RestChange
<1>5. flags \in Flags
  BY <1>1 DEF Flags, GsMask
<1>. HIDE DEF d, new
<1>6. RowFollows(g, guild_db[g], new, flags, modified[g], told)
  BY <1>1, <1>3 DEF RowFollows, SameMember
<1>. HIDE DEF flags
<1>. QED BY <1>1, <1>2, <1>3, <1>4, <1>5, <1>6, KeepOnly DEF d

LEMMA MasterChangeInv ==
  ASSUME IInv, NEW g \in Guild, NEW f \in Fellow, GuildMasterChange(g, f)
  PROVE  IInv'
<1>. DEFINE d == Known(g)
            new == [d EXCEPT !.master = f]
            flags == save_flag[g] \union {"basic", "member"}
            marks == modified[g] \union ({f, d.master} \intersect Members(d))
<1>1. /\ d \in GuildData /\ modified[g] \in SUBSET Fellow /\ save_flag[g] \in Flags /\ Exists(g)
      /\ RowFollows(g, guild_db[g], d, save_flag[g], modified[g], told)
  BY KnownFollows DEF GuildMasterChange
<1>2. CountsOK' /\ UNCHANGED <<guild_db, told, torn, last_guild>>
  BY AskedCounts DEF GuildMasterChange
<1>3. CASE Keep(g, d, save_flag[g], modified[g])
  BY <1>1, <1>2, <1>3, KeepOnly
<1>4. CASE Keep(g, new, flags, marks)
  <2>1. /\ new \in GuildData /\ new.ally = d.ally /\ new.foe = d.foe
        /\ new.rest = d.rest /\ new.member = d.member
    <3>. HIDE DEF d
    <3>. QED BY <1>1 DEF GuildData
  <2>2. flags \in Flags /\ marks \in SUBSET Fellow /\ modified[g] \subseteq marks
    BY <1>1 DEF Flags, GsMask, Members
  <2>. HIDE DEF d, new, marks
  <2>3. RowFollows(g, guild_db[g], new, flags, marks, told)
    BY <1>1, <2>1, <2>2 DEF RowFollows, SameMember
  <2>. HIDE DEF flags
  <2>. QED BY <1>1, <1>2, <1>4, <2>1, <2>2, <2>3, KeepOnly DEF d
<1>. QED BY <1>3, <1>4 DEF GuildMasterChange

\* Whether a member is in the game is not to be saved.
LEMMA OnlineMark ==
  ASSUME IInv, NEW g \in Guild, Exists(g), NEW f \in Members(Known(g)), NEW on \in BOOLEAN,
         NEW flags \in Flags, save_flag[g] \ {"remove"} \subseteq flags,
         Keep(g, [Known(g) EXCEPT !.member[f].online = on], flags, modified[g] \union {f}),
         UNCHANGED <<guild_db, told, torn, last_guild>>, CountsOK'
  PROVE  IInv'
<1>. DEFINE m == Known(g).member[f]
            v == [m EXCEPT !.online = on]
<1>1. f \in Fellow /\ m # NoMember /\ m \in MemberData
  BY KnownFollows DEF Members, GuildData
<1>2. v \in MemberData /\ v.level = m.level
  <2>. HIDE DEF m
  <2>. QED BY <1>1, Zenon DEF MemberData
<1>3. Keep(g, [Known(g) EXCEPT !.member[f] = v], flags, modified[g] \union {f})
  OBVIOUS
<1>. HIDE DEF v
<1>. QED BY <1>1, <1>2, <1>3, ChangeMember

LEMMA CharOnlineInv ==
  ASSUME IInv, NEW f \in Fellow, GuildCharOnline(f)
  PROVE  IInv'
<1>1. PICK g \in GuildOf(f) :
        Keep(g, [Known(g) EXCEPT !.member[f].online = TRUE], save_flag[g] \ {"remove"},
             modified[g] \union {f})
  BY DEF GuildCharOnline
<1>2. g \in Guild /\ Exists(g) /\ f \in Members(Known(g))
  BY DEF GuildOf
<1>3. CountsOK' /\ UNCHANGED <<guild_db, told, torn, last_guild>>
  BY AskedCounts DEF GuildCharOnline
<1>4. save_flag[g] \in Flags
  BY <1>2, KnownFollows
<1>. DEFINE flags == save_flag[g] \ {"remove"}
<1>5. flags \in Flags /\ save_flag[g] \ {"remove"} \subseteq flags
  BY <1>4 DEF Flags
<1>. HIDE DEF flags
<1>6. Keep(g, [Known(g) EXCEPT !.member[f].online = TRUE], flags, modified[g] \union {f})
  BY <1>1 DEF flags
<1>. QED BY <1>2, <1>3, <1>5, <1>6, OnlineMark

LEMMA CharOfflineInv ==
  ASSUME IInv, NEW f \in Fellow, GuildCharOffline(f)
  PROVE  IInv'
<1>1. PICK g \in GuildOf(f) :
        LET d == [Known(g) EXCEPT !.member[f].online = FALSE]
        IN  Keep(g, d, IF Online(d) = {} THEN save_flag[g] \union {"remove"} ELSE save_flag[g],
                 modified[g] \union {f})
  BY DEF GuildCharOffline
<1>2. g \in Guild /\ Exists(g) /\ f \in Members(Known(g))
  BY DEF GuildOf
<1>3. CountsOK' /\ UNCHANGED <<guild_db, told, torn, last_guild>>
  BY AskedCounts DEF GuildCharOffline
<1>4. save_flag[g] \in Flags
  BY <1>2, KnownFollows
<1>5. PICK flags \in {save_flag[g], save_flag[g] \union {"remove"}} :
        Keep(g, [Known(g) EXCEPT !.member[f].online = FALSE], flags, modified[g] \union {f})
  BY <1>1
<1>6. flags \in Flags /\ save_flag[g] \ {"remove"} \subseteq flags
  BY <1>4 DEF Flags
<1>. QED BY <1>2, <1>3, <1>5, <1>6, OnlineMark

-----------------------------------------------------------------------------
(* What is written at once, and by the timer *)

\* Once the parts that are to be saved are written the row is the guild.
LEMMA SavedFollows ==
  ASSUME NEW g \in Guild, NEW d \in GuildData, guild_db[g] \in GuildData,
         NEW was \in Flags, NEW flags \in Flags, was \ {"remove"} \subseteq flags,
         NEW marks \in SUBSET Fellow, RowFollows(g, guild_db[g], d, was, marks, told),
         NEW new, NEW kept
  PROVE  /\ RowOf(g, d, flags, marks) \in GuildData
         /\ RowFollows(g, RowOf(g, d, flags, marks), d, new, kept, told)
<1>. DEFINE row == guild_db[g]
            m == [f \in Fellow |-> IF "member" \in flags /\ f \in marks \intersect Members(d)
                                   THEN d.member[f] ELSE row.member[f]]
            saved == RowOf(g, d, flags, marks)
<1>1. row # NoGuild
  BY GuildAssumption
<1>2. saved = [master |-> IF "basic" \in flags THEN d.master ELSE row.master,
               rest |-> IF "rest" \in flags THEN d.rest ELSE row.rest,
               ally |-> IF "alliance" \in flags THEN d.ally ELSE row.ally,
               foe |-> IF "alliance" \in flags THEN d.foe ELSE row.foe,
               member |-> m]
  BY <1>1 DEF RowOf
<1>3. m \in [Fellow -> MemberData \union {NoMember}]
  BY DEF GuildData
<1>4. \A f \in Fellow : /\ m[f] = NoMember <=> d.member[f] = NoMember
                        /\ m[f] # NoMember => m[f].level = d.member[f].level
  BY DEF RowFollows, SameMember, Members
<1>. HIDE DEF m, saved
<1>5. /\ saved.master = d.master /\ saved.rest = d.rest
      /\ saved.ally \subseteq d.ally /\ d.ally \subseteq saved.ally \union Ending(g, "ally", told)
      /\ saved.foe \subseteq d.foe /\ d.foe \subseteq saved.foe \union Ending(g, "foe", told)
      /\ saved.member = m
  BY <1>2 DEF RowFollows
<1>6. saved \in GuildData
  BY <1>2, <1>3 DEF GuildData
<1>7. RowFollows(g, saved, d, new, kept, told)
  BY <1>4, <1>5 DEF RowFollows, SameMember
<1>. QED BY <1>6, <1>7 DEF saved

LEMMA NoticeInv ==
  ASSUME IInv, NEW g \in Guild, GuildNotice(g)
  PROVE  IInv'
<1>. DEFINE d == Known(g)
            flags == save_flag[g] \union {"rest"}
            marks == MarksAfter(flags, modified[g])
            row == RowOf(g, d, flags, modified[g])
<1>1. /\ d \in GuildData /\ guild_db[g] \in GuildData
      /\ modified[g] \in SUBSET Fellow /\ save_flag[g] \in Flags /\ Exists(g)
      /\ RowFollows(g, guild_db[g], d, save_flag[g], modified[g], told)
  BY KnownFollows DEF GuildNotice
<1>2. CountsOK' /\ UNCHANGED <<told, torn, last_guild>>
  BY AskedCounts DEF GuildNotice
<1>3. Keep(g, d, flags, marks) /\ guild_db' = [guild_db EXCEPT ![g] = row]
  BY DEF GuildNotice
<1>4. flags \in Flags /\ marks \in SUBSET Fellow /\ save_flag[g] \ {"remove"} \subseteq flags
  BY <1>1 DEF Flags, GsMask, MarksAfter
<1>. HIDE DEF d, flags, marks
<1>5. row \in GuildData /\ RowFollows(g, row, d, flags, marks, told)
  BY <1>1, <1>4, SavedFollows
<1>. HIDE DEF row
<1>. QED BY <1>1, <1>2, <1>3, <1>4, <1>5, KeepRow DEF d

LEMMA LeaveInv ==
  ASSUME IInv, NEW g \in Guild, NEW f \in Fellow, Exists(g), CountsOK',
         LET left == [Known(g) EXCEPT !.member[f] = NoMember]
         IN  Keep(g, left, save_flag[g] \union {"rest"}, modified[g] \ {f}),
         guild_db' = RowsWithout(g, f), UNCHANGED <<told, torn, last_guild>>
  PROVE  IInv'
<1>. DEFINE d == Known(g)
            left == [d EXCEPT !.member[f] = NoMember]
            row == [guild_db[g] EXCEPT !.member[f] = NoMember]
            flags == save_flag[g] \union {"rest"}
            marks == modified[g] \ {f}
<1>1. /\ d \in GuildData /\ guild_db[g] \in GuildData
      /\ modified[g] \in SUBSET Fellow /\ save_flag[g] \in Flags
      /\ RowFollows(g, guild_db[g], d, save_flag[g], modified[g], told)
  BY KnownFollows
<1>2. Keep(g, left, flags, marks) /\ guild_db' = [guild_db EXCEPT ![g] = row]
  BY DEF RowsWithout
<1>3. /\ left \in GuildData /\ left.ally = d.ally /\ left.foe = d.foe
      /\ left.master = d.master /\ left.rest = d.rest
      /\ left.member = [d.member EXCEPT ![f] = NoMember]
  <2>. HIDE DEF d
  <2>. QED BY <1>1, WithMember
<1>4. /\ row \in GuildData /\ row.ally = guild_db[g].ally /\ row.foe = guild_db[g].foe
      /\ row.master = guild_db[g].master /\ row.rest = guild_db[g].rest
      /\ row.member = [guild_db[g].member EXCEPT ![f] = NoMember]
  <2>. DEFINE r == guild_db[g]
  <2>1. r \in GuildData
    BY <1>1
  <2>. HIDE DEF r
  <2>2. /\ [r EXCEPT !.member[f] = NoMember] \in GuildData
        /\ [r EXCEPT !.member[f] = NoMember].ally = r.ally
        /\ [r EXCEPT !.member[f] = NoMember].foe = r.foe
        /\ [r EXCEPT !.member[f] = NoMember].master = r.master
        /\ [r EXCEPT !.member[f] = NoMember].rest = r.rest
        /\ [r EXCEPT !.member[f] = NoMember].member = [r.member EXCEPT ![f] = NoMember]
    BY <2>1, WithMember
  <2>. QED BY <2>2 DEF r
<1>5. flags \in Flags /\ marks \in SUBSET Fellow
  BY <1>1 DEF Flags, GsMask
<1>6. /\ d.member \in [Fellow -> MemberData \union {NoMember}]
      /\ guild_db[g].member \in [Fellow -> MemberData \union {NoMember}]
  BY <1>1 DEF GuildData
<1>. HIDE DEF d, left, row
<1>7. \A x \in Fellow : left.member[x] = IF x = f THEN NoMember ELSE d.member[x]
  BY <1>3, <1>6
<1>8. \A x \in Fellow : row.member[x] = IF x = f THEN NoMember ELSE guild_db[g].member[x]
  BY <1>4, <1>6
<1>9. RowFollows(g, row, left, flags, marks, told)
  BY <1>1, <1>3, <1>4, <1>7, <1>8 DEF RowFollows, SameMember
<1>. HIDE DEF flags, marks
<1>. QED BY <1>1, <1>2, <1>3, <1>4, <1>5, <1>9, KeepRow DEF d

-----------------------------------------------------------------------------
(* Steps that change bonds *)

\* What the guilds are, row or copy, under IInv.
LEMMA KnownParts ==
  ASSUME IInv
  PROVE  /\ TypesOK /\ RowsFollow
         /\ \A g \in Guild : Exists(g) <=> guild_db[g] # NoGuild
         /\ \A g \in Guild : Exists(g) =>
              /\ Known(g) \in GuildData /\ guild_db[g] \in GuildData
              /\ Known(g).ally \subseteq Guild /\ Known(g).foe \subseteq Guild
              /\ RowFollows(g, guild_db[g], Known(g), save_flag[g], modified[g], told)
<1>1. TypesOK /\ RowsFollow
  BY TypeParts DEF IInv
<1>. QED BY <1>1, ExistsInTables, KnownFollows DEF GuildData

LEMMA BreakInv ==
  ASSUME IInv, NEW g \in Guild, Exists(g), BreakGuild(g), UNCHANGED <<torn, last_guild>>, CountsOK'
  PROVE  IInv'
<1>1. /\ TypesOK /\ RowsFollow
      /\ \A h \in Guild : Exists(h) <=> guild_db[h] # NoGuild
      /\ \A h \in Guild : Exists(h) =>
           /\ Known(h) \in GuildData /\ guild_db[h] \in GuildData
           /\ Known(h).ally \subseteq Guild /\ Known(h).foe \subseteq Guild
  BY KnownParts
<1>2. \A h \in Guild : guild_cache'[h] = IF h = g THEN NoGuild ELSE guild_cache[h]
  BY <1>1 DEF BreakGuild, Keep, TypesOK
<1>3. \A h \in Guild : h = g \/ ~Exists(h) => guild_db'[h] = NoGuild
  BY <1>1 DEF BreakGuild
<1>4. ASSUME NEW h \in Guild, h # g, Exists(h)
      PROVE  /\ guild_db'[h] \in GuildData
             /\ guild_db'[h].ally = guild_db[h].ally \ {g} /\ guild_db'[h].foe = guild_db[h].foe \ {g}
             /\ guild_db'[h].master = guild_db[h].master /\ guild_db'[h].rest = guild_db[h].rest
             /\ guild_db'[h].member = guild_db[h].member
  <2>. DEFINE d == guild_db[h]
  <2>1. guild_db'[h] = [d EXCEPT !.ally = @ \ {g}, !.foe = @ \ {g}]
    BY <1>1, <1>4 DEF BreakGuild
  <2>2. d \in GuildData
    BY <1>1, <1>4
  <2>. HIDE DEF d
  <2>. DEFINE r == guild_db'[h]
  <2>. HIDE DEF r
  <2>3. r = [d EXCEPT !.ally = @ \ {g}, !.foe = @ \ {g}]
    BY <2>1 DEF r
  <2>4. /\ r \in GuildData /\ r.ally = d.ally \ {g} /\ r.foe = d.foe \ {g}
        /\ r.master = d.master /\ r.rest = d.rest /\ r.member = d.member
    BY <2>2, <2>3 DEF GuildData
  <2>. QED BY <2>4 DEF d, r
<1>5. /\ \A h, x \in Guild, b \in Bond : h # g /\ <<h, x, b>> \in told => <<h, x, b>> \in told'
      /\ \A h \in Guild : h # g /\ guild_cache[h] # NoGuild /\ g \in Known(h).ally
           => <<h, g, "ally">> \in told'
      /\ \A h \in Guild : h # g /\ guild_cache[h] # NoGuild /\ g \in Known(h).foe
           => <<h, g, "foe">> \in told'
  BY DEF BreakGuild, BondsWith, Cached, Bond
<1>6. \A t \in told' : \/ t \in told /\ t[1] # g
                       \/ /\ t[1] \in Guild /\ t[1] # g /\ guild_cache[t[1]] # NoGuild /\ t[2] = g
                          /\ t = <<t[1], g, t[3]>> /\ t[3] \in Bond
  <2>1. \A t \in BondsWith(g) :
          /\ t \in (Cached \ {g}) \X {g} \X Bond
          /\ t = <<t[1], t[2], t[3]>>
    BY DEF BondsWith
  <2>2. told' = {t \in told : t[1] # g} \union BondsWith(g)
    BY DEF BreakGuild
  <2>. QED BY <2>1, <2>2 DEF Cached
<1>7. \A h \in Guild : Exists(h)' <=> h # g /\ Exists(h)
  BY <1>1, <1>2, <1>3, <1>4, GuildAssumption DEF Exists, Known, Cached, TypesOK
<1>8. \A h \in Guild : h # g /\ Exists(h) =>
        /\ guild_cache[h] # NoGuild => Known(h)' = Known(h)
        /\ guild_cache[h] = NoGuild => /\ Known(h)'.ally = Known(h).ally \ {g}
                                       /\ Known(h)'.foe = Known(h).foe \ {g}
  BY <1>2, <1>4 DEF Exists, Known, Cached
<1>9. TypesOK'
  <2>1. guild_db' \in [Guild -> GuildData \union {NoGuild}]
    <3>1. \A h \in Guild : guild_db'[h] \in GuildData \union {NoGuild}
      BY <1>3, <1>4
    <3>. QED BY <3>1 DEF BreakGuild
  <2>2. told' \subseteq Guild \X Guild \X Bond
    BY <1>1, <1>6 DEF TypesOK
  <2>. QED BY <1>1, <2>1, <2>2 DEF TypesOK, BreakGuild, Keep, Flags
<1>10. RowsFollow'
  <2>1. SUFFICES ASSUME NEW h \in Guild, guild_cache'[h] # NoGuild
                 PROVE  /\ guild_db'[h] # NoGuild
                        /\ RowFollows(h, guild_db'[h], guild_cache'[h], save_flag'[h], modified'[h], told')
    BY DEF RowsFollow
  <2>2. /\ h # g /\ guild_cache'[h] = guild_cache[h] /\ guild_cache[h] # NoGuild /\ Exists(h)
        /\ save_flag'[h] = save_flag[h] /\ modified'[h] = modified[h]
        /\ Known(h) = guild_cache[h]
    BY <1>1, <1>2, <2>1, ExistsInTables DEF BreakGuild, Keep, TypesOK, RowsFollow
  <2>3. RowFollows(h, guild_db[h], guild_cache[h], save_flag[h], modified[h], told)
    BY <1>1, <2>2 DEF RowsFollow
  <2>4. guild_db'[h] \in GuildData /\ guild_db'[h] # NoGuild
    BY <1>4, <2>2, GuildAssumption
  <2>5. guild_cache[h].ally \subseteq Guild /\ guild_cache[h].foe \subseteq Guild
    BY <1>1, <2>2
  <2>6. "alliance" \notin save_flag[h] =>
          /\ guild_db'[h].ally \subseteq guild_cache[h].ally
          /\ guild_cache[h].ally \subseteq guild_db'[h].ally \union Ending(h, "ally", told')
          /\ guild_db'[h].foe \subseteq guild_cache[h].foe
          /\ guild_cache[h].foe \subseteq guild_db'[h].foe \union Ending(h, "foe", told')
    BY <1>4, <1>5, <2>2, <2>3, <2>5 DEF RowFollows, Ending, Bond
  <2>7. RowFollows(h, guild_db'[h], guild_cache[h], save_flag[h], modified[h], told')
    BY <1>4, <2>2, <2>3, <2>6 DEF RowFollows, SameMember
  <2>. QED BY <2>2, <2>4, <2>7
<1>11. ToldOfBroken' /\ IdsGiven'
  <2>1. g <= last_guild
    BY DEF IInv, IdsGiven
  <2>2. \A h \in Guild : guild_cache[h] # NoGuild => Exists(h)
    BY <1>1 DEF RowsFollow
  <2>3. ToldOfBroken'
    BY <1>1, <1>6, <1>7, <2>1, <2>2 DEF IInv, ToldOfBroken, TypesOK
  <2>. QED BY <1>7, <2>3 DEF IInv, IdsGiven
<1>12. AlliancesMutual'
  <2>1. SUFFICES ASSUME NEW a \in Guild \ torn, Exists(a)'
                 PROVE  /\ \A h \in Known(a)'.ally \ torn :
                             IF Exists(h)' THEN a \in Known(h)'.ally ELSE <<a, h, "ally">> \in told'
                        /\ \A h \in Known(a)'.foe : Exists(h)' \/ <<a, h, "foe">> \in told'
    BY DEF AlliancesMutual
  <2>2. a # g /\ Exists(a)
    BY <1>7, <2>1
  <2>3. /\ \A h \in Known(a).ally \ torn :
             IF Exists(h) THEN a \in Known(h).ally ELSE <<a, h, "ally">> \in told
        /\ \A h \in Known(a).foe : Exists(h) \/ <<a, h, "foe">> \in told
    BY <2>2 DEF IInv, AlliancesMutual
  <2>4. Known(a)'.ally \subseteq Known(a).ally /\ Known(a)'.foe \subseteq Known(a).foe
    BY <1>8, <2>2
  <2>5. /\ g \in Known(a)'.ally => <<a, g, "ally">> \in told'
        /\ g \in Known(a)'.foe => <<a, g, "foe">> \in told'
    BY <1>5, <1>8, <2>2
  <2>6. \A h \in Guild : h # g /\ Exists(h) /\ a \in Known(h).ally => a \in Known(h)'.ally
    BY <1>8, <2>2
  <2>7. Known(a).ally \subseteq Guild /\ Known(a).foe \subseteq Guild
    BY <1>1, <2>2
  <2>. QED BY <1>5, <1>7, <2>2, <2>3, <2>4, <2>5, <2>6, <2>7 DEF Bond
<1>. QED BY <1>9, <1>10, <1>11, <1>12, TypePartsNext DEF IInv

LEMMA DisbandInv ==
  ASSUME IInv, NEW g \in Guild, Disband(g)
  PROVE  IInv'
  BY BreakInv, AskedCounts DEF Disband

LEMMA GuildLeaveInv ==
  ASSUME IInv, NEW g \in Guild, NEW f \in Fellow, GuildLeave(g, f)
  PROVE  IInv'
<1>. DEFINE d == Known(g)
            left == [d EXCEPT !.member[f] = NoMember]
<1>1. CountsOK' /\ UNCHANGED <<torn, last_guild>> /\ Exists(g)
  BY AskedCounts DEF GuildLeave
<1>2. CASE f \notin Members(d)
  <2>1. Keep(g, d, save_flag[g], modified[g]) /\ UNCHANGED <<guild_db, told>>
    BY <1>2 DEF GuildLeave
  <2>. QED BY <1>1, <2>1, KnownFollows, KeepOnly
<1>3. CASE f \in Members(d) /\ Members(left) = {}
  BY <1>1, <1>3, BreakInv DEF GuildLeave
<1>4. CASE f \in Members(d) /\ Members(left) # {}
  BY <1>1, <1>4, LeaveInv DEF GuildLeave
<1>. QED BY <1>2, <1>3, <1>4

LEMMA CreateInv ==
  ASSUME IInv, NEW f \in Fellow, CreateGuild(f)
  PROVE  IInv'
<1>. DEFINE m == [x \in Fellow |-> IF x = f THEN Fresh(f) ELSE NoMember]
            d == [master |-> f, rest |-> 0, ally |-> {}, foe |-> {}, member |-> m]
<1>1. /\ TypesOK /\ RowsFollow
      /\ \A h \in Guild : Exists(h) <=> guild_db[h] # NoGuild
      /\ \A h \in Guild : Exists(h) =>
           /\ Known(h) \in GuildData /\ guild_db[h] \in GuildData
           /\ Known(h).ally \subseteq Guild /\ Known(h).foe \subseteq Guild
  BY KnownParts
<1>2. CountsOK
  BY TypeParts DEF IInv
<1>3. PICK g \in Guild : g = last_guild + 1
  BY <1>2, GuildAssumption DEF CreateGuild, CountsOK, Guild
<1>. last_guild \in Nat /\ last_guild < g
  BY <1>2, <1>3 DEF CountsOK
<1>4. CountsOK'
  BY <1>2, GuildAssumption DEF CreateGuild, CountsOK, Asked
<1>5. d \in GuildData /\ d # NoGuild /\ d.ally = {} /\ d.foe = {}
  <2>1. m \in [Fellow -> MemberData \union {NoMember}]
    BY FreshTyped
  <2>. HIDE DEF m
  <2>. QED BY <2>1, GuildAssumption DEF GuildData
<1>6. /\ guild_db' = [guild_db EXCEPT ![g] = d] /\ Keep(g, d, {}, {})
      /\ last_guild' = g /\ UNCHANGED <<told, torn>>
  BY <1>3 DEF CreateGuild
<1>7. ~Exists(g)
  BY <1>3 DEF IInv, IdsGiven, Guild
<1>. HIDE DEF d
<1>8. \A h \in Guild : h # g => /\ guild_db'[h] = guild_db[h] /\ guild_cache'[h] = guild_cache[h]
                                /\ save_flag'[h] = save_flag[h] /\ modified'[h] = modified[h]
  BY <1>1, <1>6 DEF Keep, TypesOK
<1>9. /\ guild_db'[g] = d /\ guild_cache'[g] = d /\ save_flag'[g] = {} /\ modified'[g] = {}
  BY <1>1, <1>3, <1>6 DEF Keep, TypesOK
<1>10. TypesOK'
  BY <1>1, <1>3, <1>5, <1>6 DEF TypesOK, Keep, Flags
<1>11. RowsFollow'
  <2>1. RowFollows(g, d, d, {}, {}, told)
    BY DEF RowFollows, SameMember
  <2>. QED BY <1>1, <1>5, <1>6, <1>8, <1>9, <2>1 DEF RowsFollow
<1>12. /\ \A h \in Guild : h # g => (Exists(h)' <=> Exists(h)) /\ Known(h)' = Known(h)
       /\ Exists(g)' /\ Known(g)' = d
  BY <1>3, <1>5, <1>8, <1>9 DEF Exists, Known, Cached
<1>13. \A t \in told : t[1] # g /\ t[2] # g
  BY <1>3, <1>7 DEF IInv, ToldOfBroken
<1>14. ToldOfBroken'
  BY <1>1, <1>3, <1>6, <1>12, <1>13 DEF IInv, ToldOfBroken, TypesOK, Guild
<1>15. IdsGiven'
  BY <1>3, <1>6, <1>12 DEF IInv, IdsGiven, Guild
<1>16. AlliancesMutual'
  <2>1. SUFFICES ASSUME NEW a \in Guild \ torn, Exists(a)'
                 PROVE  /\ \A h \in Known(a)'.ally \ torn :
                             IF Exists(h)' THEN a \in Known(h)'.ally ELSE <<a, h, "ally">> \in told
                        /\ \A h \in Known(a)'.foe : Exists(h)' \/ <<a, h, "foe">> \in told
    BY <1>6 DEF AlliancesMutual
  <2>2. CASE a = g
    BY <1>5, <1>12, <2>2
  <2>3. CASE a # g
    <3>1. Exists(a) /\ Known(a)' = Known(a)
      BY <1>12, <2>1, <2>3
    <3>2. /\ \A h \in Known(a).ally \ torn :
               IF Exists(h) THEN a \in Known(h).ally ELSE <<a, h, "ally">> \in told
          /\ \A h \in Known(a).foe : Exists(h) \/ <<a, h, "foe">> \in told
      BY <3>1 DEF IInv, AlliancesMutual
    <3>3. Known(a).ally \subseteq Guild /\ Known(a).foe \subseteq Guild
      BY <1>1, <3>1
    <3>4. g \notin Known(a).ally \ torn /\ g \notin Known(a).foe
      BY <1>7, <1>13, <3>2
    <3>. QED BY <1>12, <3>1, <3>2, <3>3, <3>4
  <2>. QED BY <2>2, <2>3
<1>. QED BY <1>4, <1>10, <1>11, <1>14, <1>15, <1>16, TypePartsNext DEF IInv

LEMMA AllianceInv ==
  ASSUME IInv, NEW g \in Guild, NEW h \in Guild, NEW b \in Bond, NEW on \in BOOLEAN,
         GuildAlliance(g, h, b, on)
  PROVE  IInv'
<1>. DEFINE dg == Bonded(g, h, b, on)
            dh == OtherSide(g, h, b, on)
<1>1. /\ TypesOK /\ RowsFollow
      /\ \A a \in Guild : Exists(a) <=> guild_db[a] # NoGuild
      /\ \A a \in Guild : Exists(a) =>
           /\ Known(a) \in GuildData /\ guild_db[a] \in GuildData
           /\ Known(a).ally \subseteq Guild /\ Known(a).foe \subseteq Guild
           /\ RowFollows(a, guild_db[a], Known(a), save_flag[a], modified[a], told)
  BY KnownParts
<1>2. /\ g # h /\ Exists(g) /\ Exists(h) /\ CountsOK'
      /\ guild_cache' = [guild_cache EXCEPT ![g] = dg, ![h] = dh]
      /\ save_flag' = [save_flag EXCEPT ![g] = @ \union {"alliance"}, ![h] = @ \union {"alliance"}]
      /\ UNCHANGED <<guild_db, modified, told, torn, last_guild>>
  BY AskedCounts DEF GuildAlliance, BondFlags
<1>3. /\ dg \in GuildData /\ dg.master = Known(g).master /\ dg.rest = Known(g).rest
      /\ dg.member = Known(g).member
      /\ dg.ally = IF b # "ally" THEN Known(g).ally
                   ELSE IF on THEN Known(g).ally \union {h} ELSE Known(g).ally \ {h}
      /\ dg.foe = IF b = "ally" THEN Known(g).foe
                  ELSE IF on THEN Known(g).foe \union {h} ELSE Known(g).foe \ {h}
  <2>. DEFINE d == Known(g)
              with(S) == IF on THEN S \union {h} ELSE S \ {h}
  <2>1. d \in GuildData
    BY <1>1, <1>2
  <2>2. dg = IF b = "ally" THEN [d EXCEPT !.ally = with(d.ally)] ELSE [d EXCEPT !.foe = with(d.foe)]
    BY DEF Bonded
  <2>. HIDE DEF d, dg
  <2>. QED BY <2>1, <2>2 DEF GuildData, d
<1>4. /\ dh \in GuildData /\ dh.master = Known(h).master /\ dh.rest = Known(h).rest
      /\ dh.member = Known(h).member
      /\ dh.ally = IF b # "ally" THEN Known(h).ally
                   ELSE IF on THEN Known(h).ally \union {g} ELSE Known(h).ally \ {g}
      /\ dh.foe = Known(h).foe
  <2>1. CASE b = "ally"
    <3>. DEFINE d == Known(h)
                with(S) == IF on THEN S \union {g} ELSE S \ {g}
    <3>1. d \in GuildData
      BY <1>1, <1>2
    <3>2. dh = [d EXCEPT !.ally = with(d.ally)]
      BY <2>1 DEF OtherSide, Bonded
    <3>. HIDE DEF d, dh
    <3>. QED BY <2>1, <3>1, <3>2 DEF GuildData, d
  <2>2. CASE b # "ally"
    BY <1>1, <1>2, <2>2 DEF OtherSide
  <2>. QED BY <2>1, <2>2
<1>. HIDE DEF dg, dh
<1>5. \A a \in Guild : /\ guild_cache'[a] = IF a = g THEN dg ELSE IF a = h THEN dh ELSE guild_cache[a]
                       /\ save_flag'[a] = IF a = g \/ a = h THEN save_flag[a] \union {"alliance"}
                                          ELSE save_flag[a]
  <2>1. guild_cache \in [Guild -> GuildData \union {NoGuild}] /\ save_flag \in [Guild -> Flags]
    BY <1>1 DEF TypesOK
  <2>2. \A a \in Guild : guild_cache'[a] = IF a = g THEN dg ELSE IF a = h THEN dh ELSE guild_cache[a]
    BY <1>2, <2>1
  <2>3. \A a \in Guild : save_flag'[a] = IF a = g \/ a = h THEN save_flag[a] \union {"alliance"}
                                         ELSE save_flag[a]
    BY <1>2, <2>1
  <2>. QED BY <2>2, <2>3
<1>6. \A a \in Guild : /\ Exists(a)' <=> Exists(a)
                       /\ Known(a)' = IF a = g THEN dg ELSE IF a = h THEN dh ELSE Known(a)
  <2>1. dg # NoGuild /\ dh # NoGuild /\ Known(g) # NoGuild /\ Known(h) # NoGuild
    BY <1>2, <1>3, <1>4, GuildAssumption DEF Exists
  <2>2. guild_db' = guild_db
    BY <1>2
  <2>3. ASSUME NEW a \in Guild
        PROVE  Known(a)' = IF a = g THEN dg ELSE IF a = h THEN dh ELSE Known(a)
    <3>1. CASE a = g \/ a = h
      <4>1. guild_cache'[a] # NoGuild
        BY <1>5, <2>1, <3>1
      <4>. QED BY <1>5, <3>1, <4>1 DEF Known, Cached
    <3>2. CASE a # g /\ a # h
      <4>1. guild_cache'[a] = guild_cache[a]
        BY <1>5, <3>2
      <4>. QED BY <2>2, <3>2, <4>1 DEF Known, Cached
    <3>. QED BY <3>1, <3>2
  <2>. QED BY <2>1, <2>3 DEF Exists
<1>7. TypesOK'
  <2>1. guild_cache' \in [Guild -> GuildData \union {NoGuild}]
    BY <1>1, <1>2, <1>3, <1>4 DEF TypesOK
  <2>2. save_flag' \in [Guild -> Flags]
    BY <1>1, <1>2 DEF TypesOK, Flags, GsMask
  <2>3. \A a \in Guild : guild_cache'[a] = NoGuild => a # g /\ a # h /\ guild_cache[a] = NoGuild
    BY <1>3, <1>4, <1>5, GuildAssumption
  <2>4. \A a \in Guild : guild_cache'[a] = NoGuild => save_flag'[a] = {"remove"} /\ modified'[a] = {}
    BY <1>1, <1>2, <1>5, <2>3 DEF TypesOK
  <2>. QED BY <1>1, <1>2, <2>1, <2>2, <2>4 DEF TypesOK
<1>8. RowsFollow'
  <2>1. SUFFICES ASSUME NEW a \in Guild, guild_cache'[a] # NoGuild
                 PROVE  /\ guild_db[a] # NoGuild
                        /\ RowFollows(a, guild_db[a], guild_cache'[a], save_flag'[a], modified[a], told)
    BY <1>2 DEF RowsFollow
  <2>2. CASE a = g
    <3>1. RowFollows(g, guild_db[g], Known(g), save_flag[g], modified[g], told)
      BY <1>1, <1>2
    <3>2. RowFollows(g, guild_db[g], dg, save_flag[g] \union {"alliance"}, modified[g], told)
      BY <1>3, <3>1 DEF RowFollows, SameMember
    <3>. QED BY <1>1, <1>2, <1>5, <2>2, <3>2
  <2>3. CASE a = h
    <3>1. RowFollows(h, guild_db[h], Known(h), save_flag[h], modified[h], told)
      BY <1>1, <1>2
    <3>2. RowFollows(h, guild_db[h], dh, save_flag[h] \union {"alliance"}, modified[h], told)
      BY <1>4, <3>1 DEF RowFollows, SameMember
    <3>. QED BY <1>1, <1>2, <1>5, <2>3, <3>2
  <2>4. CASE a # g /\ a # h
    BY <1>1, <1>5, <2>1, <2>4 DEF RowsFollow
  <2>. QED BY <2>2, <2>3, <2>4
<1>9. ToldOfBroken' /\ IdsGiven'
  BY <1>1, <1>2, <1>6 DEF IInv, ToldOfBroken, IdsGiven, TypesOK
<1>10. AlliancesMutual'
  <2>1. SUFFICES ASSUME NEW a \in Guild \ torn, Exists(a)
                 PROVE  /\ \A x \in Known(a)'.ally \ torn :
                             IF Exists(x)' THEN a \in Known(x)'.ally ELSE <<a, x, "ally">> \in told
                        /\ \A x \in Known(a)'.foe : Exists(x)' \/ <<a, x, "foe">> \in told
    BY <1>2, <1>6 DEF AlliancesMutual
  <2>2. /\ \A x \in Known(a).ally \ torn :
             IF Exists(x) THEN a \in Known(x).ally ELSE <<a, x, "ally">> \in told
        /\ \A x \in Known(a).foe : Exists(x) \/ <<a, x, "foe">> \in told
    BY <2>1 DEF IInv, AlliancesMutual
  <2>3. Known(a).ally \subseteq Guild /\ Known(a).foe \subseteq Guild
    BY <1>1, <2>1
  <2>4. ASSUME NEW x \in Known(a)'.foe
        PROVE  Exists(x)' \/ <<a, x, "foe">> \in told
    <3>1. x \in Known(a).foe \/ x = h
      BY <1>3, <1>4, <1>6, <2>4
    <3>. QED BY <1>2, <1>6, <2>2, <2>3, <3>1
  <2>5. ASSUME NEW x \in Known(a)'.ally \ torn
        PROVE  IF Exists(x)' THEN a \in Known(x)'.ally ELSE <<a, x, "ally">> \in told
    <3>1. CASE <<a, x>> \in {<<g, h>>, <<h, g>>}
      BY <1>2, <1>3, <1>4, <1>6, <2>2, <2>3, <2>5, <3>1 DEF Bond
    <3>2. CASE <<a, x>> \notin {<<g, h>>, <<h, g>>}
      <4>1. x \in Known(a).ally
        BY <1>2, <1>3, <1>4, <1>6, <2>5, <3>2
      <4>2. x \in Guild /\ (a \in Known(x).ally => a \in Known(x)'.ally)
        BY <1>2, <1>3, <1>4, <1>6, <2>3, <3>2, <4>1
      <4>. QED BY <1>6, <2>2, <2>5, <4>1, <4>2
    <3>. QED BY <3>1, <3>2
  <2>. QED BY <2>4, <2>5
<1>. QED BY <1>2, <1>7, <1>8, <1>9, <1>10, TypePartsNext DEF IInv

LEMMA DeleteAllianceInv ==
  ASSUME IInv, NEW t \in told, GuildDeleteAlliance(t)
  PROVE  IInv'
<1>1. /\ TypesOK /\ RowsFollow
      /\ \A a \in Guild : Exists(a) <=> guild_db[a] # NoGuild
      /\ \A a \in Guild : Exists(a) =>
           /\ Known(a) \in GuildData /\ guild_db[a] \in GuildData
           /\ Known(a).ally \subseteq Guild /\ Known(a).foe \subseteq Guild
           /\ RowFollows(a, guild_db[a], Known(a), save_flag[a], modified[a], told)
  BY KnownParts
<1>2. PICK g \in Guild, h \in Guild, b \in Bond : t = <<g, h, b>>
  BY <1>1 DEF TypesOK
<1>3. Exists(g) /\ ~Exists(h)
  BY <1>2 DEF IInv, ToldOfBroken
<1>. DEFINE d == Known(g)
            less == [d EXCEPT !.ally = @ \ {h}, !.foe = @ \ {h}]
<1>4. /\ told' = told \ {t} /\ UNCHANGED <<guild_db, torn, last_guild>> /\ CountsOK'
  BY TypeParts DEF IInv, GuildDeleteAlliance, CountsOK
<1>5. PICK new \in GuildData, flags \in Flags :
        /\ Keep(g, new, flags, modified[g])
        /\ new.ally = d.ally \ {h} /\ new.foe = d.foe \ {h}
        /\ RowFollows(g, guild_db[g], new, flags, modified[g], told')
  <2>1. /\ d \in GuildData /\ save_flag[g] \in Flags
        /\ RowFollows(g, guild_db[g], d, save_flag[g], modified[g], told)
    BY <1>1, <1>3 DEF TypesOK
  <2>2. CASE h \in d.ally \union d.foe
    <3>1. Keep(g, less, save_flag[g] \union {"alliance"}, modified[g])
      BY <1>2, <2>2 DEF GuildDeleteAlliance
    <3>2. /\ less \in GuildData /\ less.ally = d.ally \ {h} /\ less.foe = d.foe \ {h}
          /\ less.master = d.master /\ less.rest = d.rest /\ less.member = d.member
      <4>. HIDE DEF d
      <4>. QED BY <2>1 DEF GuildData
    <3>3. save_flag[g] \union {"alliance"} \in Flags
      BY <2>1 DEF Flags, GsMask
    <3>. HIDE DEF d, less
    <3>4. RowFollows(g, guild_db[g], less, save_flag[g] \union {"alliance"}, modified[g], told')
      BY <2>1, <3>2 DEF RowFollows, SameMember
    <3>. QED BY <3>1, <3>2, <3>3, <3>4
  <2>3. CASE h \notin d.ally \union d.foe
    <3>1. Keep(g, d, save_flag[g], modified[g])
      BY <1>2, <2>3 DEF GuildDeleteAlliance
    <3>2. d.ally = d.ally \ {h} /\ d.foe = d.foe \ {h}
      BY <2>3
    <3>3. /\ Ending(g, "ally", told) \ {h} \subseteq Ending(g, "ally", told')
          /\ Ending(g, "foe", told) \ {h} \subseteq Ending(g, "foe", told')
      BY <1>2, <1>4 DEF Ending
    <3>. HIDE DEF d
    <3>4. RowFollows(g, guild_db[g], d, save_flag[g], modified[g], told')
      BY <2>1, <2>3, <3>3 DEF RowFollows
    <3>. QED BY <2>1, <3>1, <3>2, <3>4
  <2>. QED BY <2>2, <2>3
<1>6. new # NoGuild
  BY <1>5, GuildAssumption
<1>7. \A a \in Guild : a # g => /\ guild_cache'[a] = guild_cache[a] /\ save_flag'[a] = save_flag[a]
                                /\ modified'[a] = modified[a]
  BY <1>1, <1>5 DEF TypesOK, Keep
<1>8. guild_cache'[g] = new /\ save_flag'[g] = flags /\ modified'[g] = modified[g]
  BY <1>1, <1>5 DEF TypesOK, Keep
<1>9. \A a \in Guild : /\ Exists(a)' <=> Exists(a)
                       /\ Known(a)' = IF a = g THEN new ELSE Known(a)
  BY <1>3, <1>4, <1>6, <1>7, <1>8 DEF Exists, Known, Cached
<1>10. TypesOK'
  <2>1. told' \subseteq Guild \X Guild \X Bond
    BY <1>1, <1>4 DEF TypesOK
  <2>2. \A a \in Guild : guild_cache'[a] = NoGuild => save_flag'[a] = {"remove"} /\ modified'[a] = {}
    BY <1>1, <1>6, <1>7, <1>8 DEF TypesOK
  <2>. QED BY <1>1, <1>4, <1>5, <2>1, <2>2 DEF TypesOK, Keep
<1>11. RowsFollow'
  <2>1. SUFFICES ASSUME NEW a \in Guild, guild_cache'[a] # NoGuild
                 PROVE  /\ guild_db[a] # NoGuild
                        /\ RowFollows(a, guild_db[a], guild_cache'[a], save_flag'[a], modified'[a], told')
    BY <1>4 DEF RowsFollow
  <2>2. CASE a = g
    BY <1>1, <1>3, <1>5, <1>8, <2>2
  <2>3. CASE a # g
    <3>1. RowFollows(a, guild_db[a], guild_cache[a], save_flag[a], modified[a], told) /\ guild_db[a] # NoGuild
      BY <1>1, <1>7, <2>1, <2>3 DEF RowsFollow
    <3>2. \A x \in Bond : Ending(a, x, told) = Ending(a, x, told')
      BY <1>2, <1>4, <2>3 DEF Ending
    <3>. QED BY <1>7, <2>3, <3>1, <3>2 DEF RowFollows, Bond
  <2>. QED BY <2>2, <2>3
<1>12. ToldOfBroken' /\ IdsGiven'
  BY <1>1, <1>4, <1>9 DEF IInv, ToldOfBroken, IdsGiven, TypesOK
<1>13. AlliancesMutual'
  <2>1. SUFFICES ASSUME NEW a \in Guild \ torn, Exists(a)
                 PROVE  /\ \A x \in Known(a)'.ally \ torn :
                             IF Exists(x)' THEN a \in Known(x)'.ally ELSE <<a, x, "ally">> \in told'
                        /\ \A x \in Known(a)'.foe : Exists(x)' \/ <<a, x, "foe">> \in told'
    BY <1>4, <1>9 DEF AlliancesMutual
  <2>2. /\ \A x \in Known(a).ally \ torn :
             IF Exists(x) THEN a \in Known(x).ally ELSE <<a, x, "ally">> \in told
        /\ \A x \in Known(a).foe : Exists(x) \/ <<a, x, "foe">> \in told
    BY <2>1 DEF IInv, AlliancesMutual
  <2>3. Known(a).ally \subseteq Guild /\ Known(a).foe \subseteq Guild
    BY <1>1, <2>1
  <2>4. /\ Known(a)'.ally \subseteq Known(a).ally /\ Known(a)'.foe \subseteq Known(a).foe
        /\ a = g => h \notin Known(a)'.ally /\ h \notin Known(a)'.foe
    BY <1>5, <1>9
  <2>5. \A x \in Guild : a \in Known(x).ally => a \in Known(x)'.ally
    BY <1>3, <1>5, <1>9, <2>1
  <2>6. \A x \in Guild, k \in Bond : (a # g \/ x # h) /\ <<a, x, k>> \in told => <<a, x, k>> \in told'
    BY <1>2, <1>4
  <2>. QED BY <1>9, <2>2, <2>3, <2>4, <2>5, <2>6 DEF Bond
<1>. QED BY <1>4, <1>10, <1>11, <1>12, <1>13, TypePartsNext DEF IInv

-----------------------------------------------------------------------------
(* The timer and restarts *)

\* A guild that is dropped keeps its bonds in its row, but for those that are
\* about to end; so does one that a restart takes from memory and that is not
\* torn by it.
LEMMA DroppedBonds ==
  ASSUME IInv, torn' \in SUBSET Guild, torn \subseteq torn',
         \A g \in Guild : Exists(g)' <=> Exists(g),
         \A g \in Guild \ torn' : Exists(g) =>
           /\ Known(g)'.ally \subseteq Known(g).ally /\ Known(g)'.foe \subseteq Known(g).foe
           /\ Known(g).ally \subseteq Known(g)'.ally \union Ending(g, "ally", told),
         told' \subseteq told, \A t \in told : t \in told' \/ t[1] \in torn',
         last_guild' = last_guild
  PROVE  AlliancesMutual' /\ ToldOfBroken' /\ IdsGiven'
<1>1. /\ TypesOK
      /\ \A a \in Guild : Exists(a) => Known(a).ally \subseteq Guild /\ Known(a).foe \subseteq Guild
  BY KnownParts
<1>2. told \subseteq Guild \X Guild \X Bond
  BY <1>1 DEF TypesOK
<1>3. ToldOfBroken' /\ IdsGiven'
  BY <1>2 DEF IInv, ToldOfBroken, IdsGiven
<1>4. AlliancesMutual'
  <2>1. SUFFICES ASSUME NEW a \in Guild \ torn', Exists(a)
                 PROVE  /\ \A x \in Known(a)'.ally \ torn' :
                             IF Exists(x)' THEN a \in Known(x)'.ally ELSE <<a, x, "ally">> \in told'
                        /\ \A x \in Known(a)'.foe : Exists(x)' \/ <<a, x, "foe">> \in told'
    BY DEF AlliancesMutual
  <2>2. /\ \A x \in Known(a).ally \ torn :
             IF Exists(x) THEN a \in Known(x).ally ELSE <<a, x, "ally">> \in told
        /\ \A x \in Known(a).foe : Exists(x) \/ <<a, x, "foe">> \in told
    BY <2>1 DEF IInv, AlliancesMutual
  <2>3. Known(a).ally \subseteq Guild /\ Known(a).foe \subseteq Guild
    BY <1>1, <2>1
  <2>4. Known(a)'.ally \subseteq Known(a).ally /\ Known(a)'.foe \subseteq Known(a).foe
    BY <2>1
  <2>5. \A x \in Guild, k \in Bond : <<a, x, k>> \in told => <<a, x, k>> \in told'
    BY <2>1
  <2>6. ASSUME NEW x \in Guild \ torn', Exists(x), a \in Known(x).ally
        PROVE  a \in Known(x)'.ally
    <3>1. a \notin Ending(x, "ally", told)
      BY <2>1 DEF IInv, ToldOfBroken, Ending
    <3>. QED BY <2>6, <3>1
  <2>. QED BY <2>2, <2>3, <2>4, <2>5, <2>6 DEF Bond
<1>. QED BY <1>3, <1>4

\* A set of ids has a least one.
LEMMA LeastId ==
  ASSUME NEW S \in SUBSET Guild, S # {}
  PROVE  Min(S) \in S
<1>. DEFINE R == OpToRel(<, Nat)
<1>1. S \in SUBSET Nat
  BY GuildAssumption DEF Guild
<1>2. \A x, y \in Nat : <<x, y>> \in R <=> x < y
  BY Zenon DEF OpToRel
<1>3. IsWellFoundedOn(R, Nat)
  BY NatLessThanWellFounded, Zenon
<1>. HIDE DEF R
<1>4. PICK x \in S : \A y \in S : ~(<<y, x>> \in R)
  BY <1>1, <1>3, WFMin
<1>5. ASSUME NEW y \in S PROVE x <= y
  <2>1. x \in Nat /\ y \in Nat /\ ~(y < x)
    BY <1>1, <1>2, <1>4
  <2>. QED BY <2>1
<1>. QED BY <1>5 DEF Min

LEMMA SaveTimerInv ==
  ASSUME IInv, GuildSaveTimer
  PROVE  IInv'
<1>. DEFINE due == {g \in Upcoming : Dirty(g)}
            saving(g) == due # {} /\ g = Min(due)
            flags(g) == IF saving(g) THEN save_flag[g] \ GsMask ELSE save_flag[g]
            dropped == {g \in Cached : Droppable(flags(g))}
<1>1. /\ TypesOK /\ RowsFollow
      /\ \A a \in Guild : Exists(a) <=> guild_db[a] # NoGuild
      /\ \A a \in Guild : Exists(a) =>
           /\ Known(a) \in GuildData /\ guild_db[a] \in GuildData
           /\ RowFollows(a, guild_db[a], Known(a), save_flag[a], modified[a], told)
  BY KnownParts
<1>2. \A g \in Guild : saving(g) => guild_cache[g] # NoGuild
  <2>1. due \in SUBSET Guild
    BY DEF Upcoming, Cached
  <2>2. due # {} => Min(due) \in due
    BY <2>1, LeastId
  <2>. QED BY <2>2 DEF Dirty, Cached
<1>3. CountsOK'
  <2>1. due # {} => Min(due) \in 1 .. MaxGuilds
    <3>1. due \in SUBSET Guild
      BY DEF Upcoming, Cached
    <3>. QED BY <3>1, LeastId DEF Guild
  <2>2. last_id' = IF due = {} THEN 0 ELSE Min(due)
    BY DEF GuildSaveTimer, NextPlace
  <2>3. CountsOK /\ UNCHANGED <<last_guild, changes>>
    BY TypeParts DEF IInv, GuildSaveTimer
  <2>. HIDE DEF due
  <2>. QED BY <2>1, <2>2, <2>3, GuildAssumption DEF CountsOK
<1>4. /\ guild_db' = [g \in Guild |-> IF saving(g) THEN SavedRow(g) ELSE guild_db[g]]
      /\ guild_cache' = [g \in Guild |-> IF g \in dropped THEN NoGuild ELSE guild_cache[g]]
      /\ save_flag' = [g \in Guild |-> IF g \in dropped THEN {"remove"} ELSE flags(g)]
      /\ modified' = [g \in Guild |-> IF g \in dropped THEN {}
                                      ELSE IF saving(g) THEN MarksAfter(save_flag[g], modified[g])
                                      ELSE modified[g]]
      /\ UNCHANGED <<told, torn, last_guild>>
  BY DEF GuildSaveTimer
<1>5. \A g \in Guild : g \in dropped => guild_cache[g] # NoGuild /\ flags(g) = {"remove"}
  BY DEF Droppable, Cached
<1>6. \A g \in Guild : flags(g) \in Flags /\ (~saving(g) => flags(g) = save_flag[g])
  BY <1>1 DEF TypesOK, Flags
<1>. HIDE DEF saving, flags, dropped
<1>7. ASSUME NEW g \in Guild, guild_cache[g] # NoGuild
      PROVE  /\ guild_cache[g] = Known(g) /\ Known(g) \in GuildData
             /\ guild_db'[g] \in GuildData
             /\ RowFollows(g, guild_db'[g], Known(g), flags(g), modified'[g], told)
             /\ flags(g) = {"remove"} => \A k : RowFollows(g, guild_db'[g], Known(g), {"remove"}, k, told)
  <2>1. /\ Exists(g) /\ guild_cache[g] = Known(g)
        /\ Known(g) \in GuildData /\ guild_db[g] \in GuildData
        /\ save_flag[g] \in Flags /\ modified[g] \in SUBSET Fellow
        /\ RowFollows(g, guild_db[g], Known(g), save_flag[g], modified[g], told)
    BY <1>1, <1>7, ExistsInTables DEF RowsFollow, TypesOK
  <2>2. CASE saving(g)
    <3>1. guild_db'[g] = RowOf(g, Known(g), save_flag[g], modified[g])
      BY <1>4, <2>1, <2>2 DEF SavedRow
    <3>2. \A fl, k : /\ RowOf(g, Known(g), save_flag[g], modified[g]) \in GuildData
                     /\ RowFollows(g, RowOf(g, Known(g), save_flag[g], modified[g]), Known(g), fl, k, told)
      <4>. TAKE fl, k
      <4>. DEFINE d == Known(g) fs == save_flag[g] ms == modified[g]
      <4>1. /\ d \in GuildData /\ guild_db[g] \in GuildData /\ fs \in Flags /\ ms \in SUBSET Fellow
            /\ fs \ {"remove"} \subseteq fs /\ RowFollows(g, guild_db[g], d, fs, ms, told)
        BY <2>1
      <4>. HIDE DEF d, fs, ms
      <4>2. RowOf(g, d, fs, ms) \in GuildData /\ RowFollows(g, RowOf(g, d, fs, ms), d, fl, k, told)
        BY <4>1, SavedFollows
      <4>. QED BY <4>2 DEF d, fs, ms
    <3>. QED BY <2>1, <3>1, <3>2
  <2>3. CASE ~saving(g)
    <3>1. guild_db'[g] = guild_db[g] /\ flags(g) = save_flag[g]
      BY <1>4, <1>6, <2>3
    <3>2. g \in dropped => flags(g) = {"remove"}
      BY <1>5
    <3>3. g \notin dropped => modified'[g] = modified[g]
      BY <1>4, <2>3
    <3>4. flags(g) = {"remove"} => \A k : RowFollows(g, guild_db[g], Known(g), {"remove"}, k, told)
      BY <2>1, <3>1 DEF RowFollows
    <3>. QED BY <2>1, <3>1, <3>2, <3>3, <3>4
  <2>. QED BY <2>2, <2>3
<1>8. TypesOK'
  <2>1. \A g \in Guild : guild_db'[g] \in GuildData \union {NoGuild}
    BY <1>1, <1>2, <1>4, <1>7 DEF TypesOK
  <2>2. guild_db' \in [Guild -> GuildData \union {NoGuild}]
    BY <1>4, <2>1
  <2>3. guild_cache' \in [Guild -> GuildData \union {NoGuild}]
    BY <1>1, <1>4 DEF TypesOK
  <2>4. save_flag' \in [Guild -> Flags]
    <3>1. {"remove"} \in Flags
      BY DEF Flags
    <3>. QED BY <1>4, <1>6, <3>1
  <2>5. modified' \in [Guild -> SUBSET Fellow]
    <3>1. \A g \in Guild : MarksAfter(save_flag[g], modified[g]) \in SUBSET Fellow
      BY <1>1 DEF TypesOK, MarksAfter
    <3>. QED BY <1>1, <1>4, <3>1 DEF TypesOK
  <2>6. \A g \in Guild : guild_cache'[g] = NoGuild => save_flag'[g] = {"remove"} /\ modified'[g] = {}
    BY <1>1, <1>2, <1>4, <1>6 DEF TypesOK
  <2>. QED BY <1>1, <1>4, <2>2, <2>3, <2>4, <2>5, <2>6 DEF TypesOK
<1>9. RowsFollow'
  <2>1. SUFFICES ASSUME NEW g \in Guild, guild_cache'[g] # NoGuild
                 PROVE  /\ guild_db'[g] # NoGuild
                        /\ RowFollows(g, guild_db'[g], guild_cache'[g], save_flag'[g], modified'[g], told)
    BY <1>4 DEF RowsFollow
  <2>2. guild_cache'[g] = guild_cache[g] /\ guild_cache[g] # NoGuild /\ save_flag'[g] = flags(g)
    BY <1>4, <2>1
  <2>. QED BY <1>7, <2>2, GuildAssumption
<1>10. \A g \in Guild : Exists(g)' <=> Exists(g)
  BY <1>1, <1>2, <1>4, <1>7, GuildAssumption DEF Exists, Known, Cached
<1>11. ASSUME NEW g \in Guild, Exists(g)
       PROVE  /\ Known(g)'.ally \subseteq Known(g).ally /\ Known(g)'.foe \subseteq Known(g).foe
              /\ Known(g).ally \subseteq Known(g)'.ally \union Ending(g, "ally", told)
  <2>1. CASE g \in dropped
    <3>1. /\ guild_cache[g] # NoGuild /\ Known(g)' = guild_db'[g]
          /\ RowFollows(g, guild_db'[g], Known(g), {"remove"}, {}, told)
      BY <1>4, <1>5, <1>7, <2>1 DEF Known, Cached
    <3>. QED BY <3>1 DEF RowFollows
  <2>2. CASE g \notin dropped
    <3>1. Known(g)' = Known(g)
      BY <1>2, <1>4, <2>2 DEF Known, Cached
    <3>. QED BY <3>1
  <2>. QED BY <2>1, <2>2
<1>12. AlliancesMutual' /\ ToldOfBroken' /\ IdsGiven'
  <2>1. torn' = torn /\ told' = told /\ last_guild' = last_guild /\ torn \in SUBSET Guild
    BY <1>1, <1>4 DEF TypesOK
  <2>. QED BY <1>10, <1>11, <2>1, DroppedBonds
<1>. QED BY <1>3, <1>8, <1>9, <1>12, TypePartsNext DEF IInv

\* Of a row, only the marks of who is in the game are changed by a restart.
LEMMA OfflineRow ==
  ASSUME NEW d \in GuildData
  PROVE  Offline(d) \in GuildData /\ Offline(d).ally = d.ally /\ Offline(d).foe = d.foe
<1>. DEFINE m == [f \in Fellow |-> IF d.member[f] = NoMember THEN NoMember
                                   ELSE [d.member[f] EXCEPT !.online = FALSE]]
<1>1. Offline(d) = [d EXCEPT !.member = m]
  BY DEF Offline
<1>2. m \in [Fellow -> MemberData \union {NoMember}]
  <2>1. ASSUME NEW f \in Fellow, d.member[f] # NoMember
        PROVE  [d.member[f] EXCEPT !.online = FALSE] \in MemberData
    <3>. DEFINE v == d.member[f]
    <3>1. v \in MemberData
      BY <2>1 DEF GuildData
    <3>. HIDE DEF v
    <3>2. [v EXCEPT !.online = FALSE] \in MemberData
      BY <3>1, Zenon DEF MemberData
    <3>. QED BY <3>2 DEF v
  <2>. QED BY <2>1
<1>. HIDE DEF m
<1>. QED BY <1>1, <1>2 DEF GuildData

LEMMA RestartInv ==
  ASSUME IInv, NEW saves \in BOOLEAN, GuildRestart(saves)
  PROVE  IInv'
<1>. DEFINE last(g) == IF saves /\ Dirty(g) THEN SavedRow(g) ELSE guild_db[g]
<1>1. /\ TypesOK /\ RowsFollow
      /\ \A a \in Guild : Exists(a) <=> guild_db[a] # NoGuild
      /\ \A a \in Guild : Exists(a) =>
           /\ Known(a) \in GuildData /\ guild_db[a] \in GuildData
           /\ RowFollows(a, guild_db[a], Known(a), save_flag[a], modified[a], told)
  BY KnownParts
<1>2. /\ guild_db' = [g \in Guild |-> IF guild_db[g] = NoGuild THEN NoGuild ELSE Offline(last(g))]
      /\ guild_cache' = [g \in Guild |-> NoGuild]
      /\ save_flag' = [g \in Guild |-> {"remove"}]
      /\ modified' = [g \in Guild |-> {}]
      /\ torn' = torn \union {t[1] : t \in told} \union
                 (IF saves THEN {} ELSE {g \in Cached : "alliance" \in save_flag[g]})
      /\ told' = {} /\ last_guild' = last_guild
  BY DEF GuildRestart
<1>3. CountsOK'
  BY TypeParts, GuildAssumption DEF IInv, CountsOK, GuildRestart, Asked
<1>4. ASSUME NEW g \in Guild, Exists(g)
      PROVE  /\ last(g) \in GuildData
             /\ saves \/ guild_cache[g] = NoGuild \/ "alliance" \notin save_flag[g] =>
                  /\ last(g).ally \subseteq Known(g).ally /\ last(g).foe \subseteq Known(g).foe
                  /\ Known(g).ally \subseteq last(g).ally \union Ending(g, "ally", told)
  <2>1. /\ Known(g) \in GuildData /\ guild_db[g] \in GuildData
        /\ save_flag[g] \in Flags /\ modified[g] \in SUBSET Fellow
        /\ RowFollows(g, guild_db[g], Known(g), save_flag[g], modified[g], told)
    BY <1>1, <1>4 DEF TypesOK
  <2>2. CASE saves /\ Dirty(g)
    <3>1. last(g) = RowOf(g, Known(g), save_flag[g], modified[g])
      BY <2>2 DEF SavedRow, Dirty, Known
    <3>2. /\ RowOf(g, Known(g), save_flag[g], modified[g]) \in GuildData
          /\ RowFollows(g, RowOf(g, Known(g), save_flag[g], modified[g]), Known(g), {}, {}, told)
      <4>. DEFINE d == Known(g) fs == save_flag[g] ms == modified[g]
      <4>1. /\ d \in GuildData /\ guild_db[g] \in GuildData /\ fs \in Flags /\ ms \in SUBSET Fellow
            /\ fs \ {"remove"} \subseteq fs /\ RowFollows(g, guild_db[g], d, fs, ms, told)
        BY <2>1
      <4>. HIDE DEF d, fs, ms
      <4>2. RowOf(g, d, fs, ms) \in GuildData /\ RowFollows(g, RowOf(g, d, fs, ms), d, {}, {}, told)
        BY <4>1, SavedFollows
      <4>. QED BY <4>2 DEF d, fs, ms
    <3>. QED BY <3>1, <3>2 DEF RowFollows
  <2>3. CASE ~(saves /\ Dirty(g))
    <3>1. last(g) = guild_db[g]
      BY <2>3
    <3>2. guild_cache[g] = NoGuild => Known(g) = guild_db[g]
      BY DEF Known, Cached
    <3>3. saves /\ guild_cache[g] # NoGuild => "alliance" \notin save_flag[g]
      BY <2>3 DEF Dirty, Cached, GsMask
    <3>. HIDE DEF last
    <3>. QED BY <2>1, <3>1, <3>2, <3>3 DEF RowFollows
  <2>. QED BY <2>2, <2>3
<1>. HIDE DEF last
<1>5. \A g \in Guild : /\ Exists(g) => /\ guild_db'[g] = Offline(last(g)) /\ Offline(last(g)) \in GuildData
                                       /\ Offline(last(g)).ally = last(g).ally
                                       /\ Offline(last(g)).foe = last(g).foe
                       /\ ~Exists(g) => guild_db'[g] = NoGuild
  BY <1>1, <1>2, <1>4, OfflineRow
<1>6. \A g \in Guild : /\ Exists(g)' <=> Exists(g)
                       /\ Known(g)' = guild_db'[g]
  BY <1>1, <1>2, <1>5, GuildAssumption DEF Exists, Known, Cached
<1>7. torn' \in SUBSET Guild
  BY <1>1, <1>2 DEF TypesOK, Cached
<1>8. TypesOK'
  <2>1. guild_db' \in [Guild -> GuildData \union {NoGuild}]
    BY <1>2, <1>5
  <2>. QED BY <1>2, <1>7, <2>1 DEF TypesOK, Flags
<1>9. RowsFollow'
  BY <1>2 DEF RowsFollow
<1>10. ASSUME NEW g \in Guild \ torn', Exists(g)
       PROVE  /\ Known(g)'.ally \subseteq Known(g).ally /\ Known(g)'.foe \subseteq Known(g).foe
              /\ Known(g).ally \subseteq Known(g)'.ally \union Ending(g, "ally", told)
  <2>1. saves \/ guild_cache[g] = NoGuild \/ "alliance" \notin save_flag[g]
    BY <1>2, <1>10 DEF Cached
  <2>. QED BY <1>4, <1>5, <1>6, <1>10, <2>1
<1>11. AlliancesMutual' /\ ToldOfBroken' /\ IdsGiven'
  <2>1. /\ torn \subseteq torn' /\ told' \subseteq told /\ last_guild' = last_guild
        /\ \A t \in told : t \in told' \/ t[1] \in torn'
    BY <1>2
  <2>. QED BY <1>6, <1>7, <1>10, <2>1, DroppedBonds
<1>. QED BY <1>3, <1>8, <1>9, <1>11, TypePartsNext DEF IInv

-----------------------------------------------------------------------------
(* The theorems *)

LEMMA InitInv == GuildInit => IInv
<1>. SUFFICES ASSUME GuildInit PROVE IInv
  OBVIOUS
<1>. DEFINE K == Min({2, MaxGuilds})
<1>1. K \in Nat /\ K <= MaxGuilds
  <2>1. MaxGuilds \in Nat
    BY GuildAssumption
  <2>2. \E x \in {2, MaxGuilds} : \A y \in {2, MaxGuilds} : x <= y
    BY <2>1
  <2>. QED BY <2>1, <2>2 DEF Min
<1>. HIDE DEF K
<1>2. PICK start \in [1 .. K -> Fellow] :
        guild_db = [g \in Guild |-> IF g \in DOMAIN start THEN
                      [master |-> start[g], rest |-> 0, ally |-> {}, foe |-> {},
                       member |-> [f \in Fellow |->
                                     IF f = start[g] THEN [level |-> 0, online |-> FALSE] ELSE NoMember]]
                    ELSE NoGuild]
  BY DEF GuildInit, K
<1>3. ASSUME NEW f \in Fellow
      PROVE  [master |-> f, rest |-> 0, ally |-> {}, foe |-> {},
              member |-> [x \in Fellow |-> IF x = f THEN [level |-> 0, online |-> FALSE] ELSE NoMember]]
               \in GuildData
  <2>1. [level |-> 0, online |-> FALSE] \in MemberData
    <3>1. 0 \in Level
      BY DEF Level
    <3>. QED BY <3>1, Zenon DEF MemberData
  <2>. DEFINE m == [x \in Fellow |-> IF x = f THEN [level |-> 0, online |-> FALSE] ELSE NoMember]
  <2>2. m \in [Fellow -> MemberData \union {NoMember}]
    BY <2>1
  <2>. HIDE DEF m
  <2>3. [master |-> f, rest |-> 0, ally |-> {}, foe |-> {}, member |-> m] \in GuildData
    BY <2>2 DEF GuildData
  <2>. QED BY <2>3 DEF m
<1>4. \A g \in Guild :
        /\ g \in 1 .. K => guild_db[g] \in GuildData /\ guild_db[g].ally = {} /\ guild_db[g].foe = {}
        /\ g \notin 1 .. K => guild_db[g] = NoGuild
  BY <1>2, <1>3
<1>5. /\ guild_cache = [g \in Guild |-> NoGuild] /\ save_flag = [g \in Guild |-> {"remove"}]
      /\ modified = [g \in Guild |-> {}] /\ told = {} /\ torn = {}
      /\ last_id = 0 /\ last_guild = K /\ changes = 0
  BY DEF GuildInit, K
<1>6. TypesOK /\ CountsOK
  <2>1. guild_db \in [Guild -> GuildData \union {NoGuild}]
    BY <1>2, <1>4
  <2>. QED BY <1>1, <1>5, <2>1, GuildAssumption DEF TypesOK, CountsOK, Flags
<1>7. RowsFollow /\ ToldOfBroken
  BY <1>5 DEF RowsFollow, ToldOfBroken
<1>8. \A g \in Guild : Exists(g) => g \in 1 .. K /\ Known(g) = guild_db[g]
  BY <1>4, <1>5 DEF Exists, Known, Cached
<1>9. IdsGiven
  BY <1>1, <1>5, <1>8 DEF IdsGiven
<1>10. AlliancesMutual
  BY <1>4, <1>8 DEF AlliancesMutual
<1>. QED BY <1>6, <1>7, <1>9, <1>10, TypeParts DEF IInv

LEMMA StepInv == IInv /\ [GuildNext]_guildVars => IInv'
<1>. SUFFICES ASSUME IInv, [GuildNext]_guildVars PROVE IInv'
  OBVIOUS
<1>1. CASE GuildRequest
  BY <1>1, CreateInv, CharOnlineInv, CharOfflineInv, GuildInfoInv, DisbandInv, RestChangeInv, NoticeInv,
     AddMemberInv, GuildLeaveInv, MasterChangeInv, InfoShortInv, InfoChangeInv, AllianceInv, RestartInv
  DEF GuildRequest
<1>2. CASE GuildSaveTimer
  BY <1>2, SaveTimerInv
<1>3. CASE \E t \in told : GuildDeleteAlliance(t)
  BY <1>3, DeleteAllianceInv
<1>4. CASE UNCHANGED guildVars
  BY <1>4 DEF guildVars, IInv, GuildTypeOK, RowsFollow, ToldOfBroken, IdsGiven, AlliancesMutual,
     Exists, Known, Cached
<1>. QED BY <1>1, <1>2, <1>3, <1>4 DEF GuildNext

\* What is to be saved of a guild is named by its flags and marks: a guild in
\* memory without any is in the tables as it is in memory (int_guild.c,
\* save_flag and guild_save_timer).
THEOREM GuildsAreWhole == GuildSpec => []GuildsWhole
<1>1. IInv => GuildsWhole
  BY CleanRows DEF IInv, GuildsWhole
<1>. QED BY <1>1, InitInv, StepInv, PTL DEF GuildSpec

\* Alliances have two sides, and no guild keeps a bond with one that was
\* broken, but for bonds whose end is under way and for what a restart lost
\* (mapif_parse_GuildAlliance, mapif_parse_BreakGuild).
THEOREM AlliancesAreMutual == GuildSpec => []AlliancesMutual
<1>1. IInv => AlliancesMutual
  BY DEF IInv
<1>. QED BY <1>1, InitInv, StepInv, PTL DEF GuildSpec

-----------------------------------------------------------------------------
\* Storage.

\* A struct guild_storage, whatever its items are.
IsStorage(gs) ==
  /\ gs = [items |-> gs.items, dirty |-> gs.dirty, locked |-> gs.locked, opened |-> gs.opened]
  /\ gs.dirty \in BOOLEAN

LEMMA FieldsOK ==
  ASSUME NEW gs, IsStorage(gs)
  PROVE  /\ \A x : /\ IsStorage([gs EXCEPT !.items = x])
                   /\ [gs EXCEPT !.items = x].items = x
                   /\ [gs EXCEPT !.items = x].dirty = gs.dirty
                   /\ [gs EXCEPT !.items = x].opened = gs.opened
         /\ \A x \in BOOLEAN : /\ IsStorage([gs EXCEPT !.dirty = x])
                               /\ [gs EXCEPT !.dirty = x].items = gs.items
                               /\ [gs EXCEPT !.dirty = x].dirty = x
                               /\ [gs EXCEPT !.dirty = x].opened = gs.opened
         /\ \A x : /\ IsStorage([gs EXCEPT !.locked = x])
                   /\ [gs EXCEPT !.locked = x].items = gs.items
                   /\ [gs EXCEPT !.locked = x].dirty = gs.dirty
                   /\ [gs EXCEPT !.locked = x].opened = gs.opened
         /\ \A x : /\ IsStorage([gs EXCEPT !.opened = x])
                   /\ [gs EXCEPT !.opened = x].items = gs.items
                   /\ [gs EXCEPT !.opened = x].dirty = gs.dirty
                   /\ [gs EXCEPT !.opened = x].opened = x
  BY DEF IsStorage

Saves(s) == \E k \in DOMAIN s : s[k].type = "gstorage"
Acks(s) == \E k \in DOMAIN s : s[k].type = "stored"

\* x are the items of the last save in s, or those in the table.
Last(s, table, x) ==
  \/ ~Saves(s) /\ x = table
  \/ \E k \in DOMAIN s :
       /\ s[k].type = "gstorage" /\ s[k].items = x
       /\ \A j \in DOMAIN s : s[j].type = "gstorage" => j <= k

SequencesOK == (\E S : toInter \in Seq(S)) /\ (\E S : fromInter \in Seq(S))
LinkOK == ~linked => toInter = <<>> /\ fromInter = <<>>
StorageOK == gstor # NoStorage => IsStorage(gstor)
WindowsOK == storage_flag \subseteq guildsmen /\ guildsmen \subseteq active

\* Whoever has opened the storage still has the window.
Used == gstor.opened # Nobody /\ gstor.opened \in storage_flag

\* What nobody uses, and no retrieval changed, is what was sent.
UnusedSent ==
  gstor # NoStorage /\ ~Used /\ gstor.dirty /\ ~returned
    => (Saves(toInter) \/ Acks(fromInter) => Last(toInter, gstor_db, gstor.items))

StorageInv == SequencesOK /\ LinkOK /\ StorageOK /\ WindowsOK /\ UnusedSent

-----------------------------------------------------------------------------
(* Packets *)

LEMMA LastIsLastSent ==
  ASSUME SequencesOK, NEW x, Last(toInter, gstor_db, x)
  PROVE  x = LastSent
<1>1. CASE ~Saves(toInter)
  <2>1. StorageSaves = {}
    BY <1>1 DEF Saves, StorageSaves
  <2>. QED BY <1>1, <2>1 DEF Last, Saves, LastSent
<1>2. CASE Saves(toInter)
  <2>1. PICK k \in DOMAIN toInter :
          /\ toInter[k].type = "gstorage" /\ toInter[k].items = x
          /\ \A j \in DOMAIN toInter : toInter[j].type = "gstorage" => j <= k
    BY <1>2 DEF Last
  <2>2. DOMAIN toInter \subseteq Int
    BY DEF SequencesOK
  <2>3. k \in StorageSaves /\ \A j \in StorageSaves : j <= k
    BY <2>1 DEF StorageSaves
  <2>. DEFINE c == CHOOSE m \in StorageSaves : \A j \in StorageSaves : j <= m
  <2>4. c \in StorageSaves /\ \A j \in StorageSaves : j <= c
    BY <2>3
  <2>5. c = k
    <3>. HIDE DEF c
    <3>1. StorageSaves \subseteq Int
      BY <2>2 DEF StorageSaves
    <3>. QED BY <2>3, <2>4, <3>1
  <2>6. LastSent = toInter[c].items
    BY <2>3 DEF LastSent
  <2>. QED BY <2>1, <2>5, <2>6
<1>. QED BY <1>1, <1>2

LEMMA AddsNone ==
  ASSUME NEW S, NEW T, NEW s \in Seq(S), NEW q \in Seq(T), ~Saves(q)
  PROVE  /\ Saves(s \o q) => Saves(s)
         /\ \A d, x : Last(s, d, x) => Last(s \o q, d, x)
<1>1. /\ DOMAIN (s \o q) = 1 .. Len(s) + Len(q) /\ DOMAIN s = 1 .. Len(s) /\ DOMAIN q = 1 .. Len(q)
      /\ \A k \in 1 .. Len(s) : (s \o q)[k] = s[k]
      /\ \A k \in Len(s) + 1 .. Len(s) + Len(q) : (s \o q)[k] = q[k - Len(s)]
      /\ Len(s) \in Nat /\ Len(q) \in Nat
  OBVIOUS
<1>. DEFINE r == s \o q
<1>. HIDE DEF r
<1>2. \A k \in DOMAIN r : r[k].type = "gstorage" => k \in DOMAIN s /\ s[k] = r[k]
  <2>. SUFFICES ASSUME NEW k \in DOMAIN r, r[k].type = "gstorage"
                PROVE  k \in DOMAIN s /\ s[k] = r[k]
    OBVIOUS
  <2>1. CASE k \in Len(s) + 1 .. Len(s) + Len(q)
    <3>1. r[k] = q[k - Len(s)] /\ k - Len(s) \in DOMAIN q
      BY <1>1, <2>1 DEF r
    <3>. QED BY <3>1 DEF Saves
  <2>. QED BY <1>1, <2>1 DEF r
<1>3. \A k \in DOMAIN s : k \in DOMAIN r /\ r[k] = s[k]
  BY <1>1 DEF r
<1>4. Saves(r) => Saves(s)
  BY <1>2 DEF Saves
<1>5. \A d, x : Last(s, d, x) => Last(r, d, x)
  <2>. SUFFICES ASSUME NEW d, NEW x, Last(s, d, x) PROVE Last(r, d, x)
    OBVIOUS
  <2>1. CASE ~Saves(s) /\ x = d
    BY <1>4, <2>1 DEF Last
  <2>2. CASE ~(~Saves(s) /\ x = d)
    <3>1. PICK k \in DOMAIN s :
            /\ s[k].type = "gstorage" /\ s[k].items = x
            /\ \A j \in DOMAIN s : s[j].type = "gstorage" => j <= k
      BY <2>2 DEF Last
    <3>2. k \in DOMAIN r /\ r[k].type = "gstorage" /\ r[k].items = x
      BY <1>3, <3>1
    <3>3. \A j \in DOMAIN r : r[j].type = "gstorage" => j <= k
      BY <1>2, <3>1
    <3>. QED BY <3>2, <3>3 DEF Last
  <2>. QED BY <2>1, <2>2
<1>. QED BY <1>4, <1>5 DEF r

\* The last save of q is the last of all.
LEMMA AddsLast ==
  ASSUME NEW S, NEW T, NEW s \in Seq(S), NEW q \in Seq(T), NEW k \in DOMAIN q,
         q[k].type = "gstorage", \A j \in DOMAIN q : q[j].type = "gstorage" => j <= k
  PROVE  \A d : Last(s \o q, d, q[k].items)
<1>1. /\ DOMAIN (s \o q) = 1 .. Len(s) + Len(q) /\ DOMAIN s = 1 .. Len(s) /\ DOMAIN q = 1 .. Len(q)
      /\ \A m \in Len(s) + 1 .. Len(s) + Len(q) : (s \o q)[m] = q[m - Len(s)]
      /\ Len(s) \in Nat /\ Len(q) \in Nat
  OBVIOUS
<1>. DEFINE r == s \o q
            n == Len(s) + k
<1>. HIDE DEF r
<1>2. n \in DOMAIN r /\ r[n] = q[k]
  <2>1. n \in Len(s) + 1 .. Len(s) + Len(q) /\ n - Len(s) = k
    BY <1>1
  <2>. QED BY <1>1, <2>1 DEF r
<1>3. \A j \in DOMAIN r : r[j].type = "gstorage" => j <= n
  <2>. SUFFICES ASSUME NEW j \in DOMAIN r, r[j].type = "gstorage", j > n PROVE FALSE
    BY <1>1 DEF r
  <2>1. j \in Len(s) + 1 .. Len(s) + Len(q) /\ j - Len(s) \in DOMAIN q /\ j - Len(s) > k
    BY <1>1 DEF r
  <2>2. r[j] = q[j - Len(s)]
    BY <1>1, <2>1 DEF r
  <2>. QED BY <1>1, <2>1, <2>2
<1>. HIDE DEF n
<1>4. \A d : Last(r, d, q[k].items)
  BY <1>2, <1>3 DEF Last
<1>. QED BY <1>4 DEF r

LEMMA Takes ==
  ASSUME NEW S, NEW s \in Seq(S), s # <<>>
  PROVE  /\ Saves(Tail(s)) => Saves(s)
         /\ Acks(Tail(s)) => Acks(s)
         /\ Head(s).type # "gstorage" => \A d, x : Last(s, d, x) => Last(Tail(s), d, x)
         /\ Head(s).type = "gstorage"
              => Saves(s) /\ \A d, x : Last(s, d, x) => Last(Tail(s), Head(s).items, x)
<1>. DEFINE t == Tail(s)
<1>1. /\ DOMAIN s = 1 .. Len(s) /\ DOMAIN t = 1 .. Len(s) - 1 /\ Len(s) \in Nat \ {0}
      /\ \A k \in 1 .. Len(s) - 1 : t[k] = s[k + 1]
      /\ Head(s) = s[1]
  OBVIOUS
<1>. HIDE DEF t
<1>2. \A k \in DOMAIN t : k + 1 \in DOMAIN s /\ t[k] = s[k + 1] /\ k \in Int
  BY <1>1
<1>3. \A k \in DOMAIN s : k # 1 => k - 1 \in DOMAIN t /\ t[k - 1] = s[k] /\ k \in Int
  <2>. SUFFICES ASSUME NEW k \in DOMAIN s, k # 1
                PROVE  k - 1 \in DOMAIN t /\ t[k - 1] = s[k] /\ k \in Int
    OBVIOUS
  <2>1. k - 1 \in 1 .. Len(s) - 1 /\ (k - 1) + 1 = k
    BY <1>1
  <2>. QED BY <1>1, <2>1
<1>4. (Saves(t) => Saves(s)) /\ (Acks(t) => Acks(s))
  BY <1>2 DEF Saves, Acks
<1>5. ASSUME NEW d, NEW x, Last(s, d, x)
      PROVE  Last(t, IF Head(s).type = "gstorage" THEN Head(s).items ELSE d, x)
  <2>1. CASE ~Saves(s) /\ x = d
    <3>1. Head(s).type # "gstorage"
      BY <1>1, <2>1 DEF Saves
    <3>. QED BY <1>4, <2>1, <3>1 DEF Last
  <2>2. CASE ~(~Saves(s) /\ x = d)
    <3>1. PICK k \in DOMAIN s :
            /\ s[k].type = "gstorage" /\ s[k].items = x
            /\ \A j \in DOMAIN s : s[j].type = "gstorage" => j <= k
      BY <1>5, <2>2 DEF Last
    <3>2. CASE k = 1
      <4>1. ~Saves(t)
        <5>. SUFFICES ASSUME NEW j \in DOMAIN t, t[j].type = "gstorage" PROVE FALSE
          BY DEF Saves
        <5>1. j + 1 \in DOMAIN s /\ s[j + 1].type = "gstorage" /\ j >= 1 /\ j \in Int
          BY <1>1, <1>2
        <5>. QED BY <3>1, <3>2, <5>1
      <4>. QED BY <1>1, <3>1, <3>2, <4>1 DEF Last
    <3>3. CASE k # 1
      <4>1. k - 1 \in DOMAIN t /\ t[k - 1] = s[k] /\ k \in Int
        BY <1>3, <3>3
      <4>2. \A j \in DOMAIN t : t[j].type = "gstorage" => j <= k - 1
        <5>. SUFFICES ASSUME NEW j \in DOMAIN t, t[j].type = "gstorage" PROVE j <= k - 1
          OBVIOUS
        <5>1. j + 1 <= k /\ j \in Int
          BY <1>2, <3>1
        <5>. QED BY <4>1, <5>1
      <4>. DEFINE m == k - 1
      <4>3. m \in DOMAIN t /\ t[m].type = "gstorage" /\ t[m].items = x
            /\ \A j \in DOMAIN t : t[j].type = "gstorage" => j <= m
        BY <3>1, <4>1, <4>2
      <4>. HIDE DEF m
      <4>. QED BY <4>3 DEF Last
    <3>. QED BY <3>2, <3>3
  <2>. QED BY <2>1, <2>2
<1>6. Head(s).type = "gstorage" => Saves(s)
  BY <1>1 DEF Saves
<1>. QED BY <1>4, <1>5, <1>6 DEF t

-----------------------------------------------------------------------------
(* What is sent *)

\* Packets without a save.
NoSave(q) == (\E T : q \in Seq(T)) /\ ~Saves(q)

LEMMA OnePacket ==
  ASSUME NEW p
  PROVE  /\ <<p>> \in Seq({p})
         /\ p.type # "gstorage" => NoSave(<<p>>)
<1>1. <<p>> \in Seq({p}) /\ DOMAIN <<p>> = {1} /\ <<p>>[1] = p
  OBVIOUS
<1>. QED BY <1>1 DEF NoSave, Saves

LEMMA NoPacket == NoSave(<<>>)
<1>1. <<>> \in Seq({}) /\ DOMAIN <<>> = {}
  OBVIOUS
<1>. QED BY <1>1 DEF NoSave, Saves

LEMMA Joins ==
  ASSUME NEW q, NEW r, NoSave(q), NoSave(r)
  PROVE  NoSave(q \o r)
<1>1. PICK S, T : q \in Seq(S) /\ r \in Seq(T)
  BY DEF NoSave
<1>2. q \o r \in Seq(S \union T)
  <2>1. q \in Seq(S \union T) /\ r \in Seq(S \union T)
    BY <1>1
  <2>. QED BY <2>1
<1>3. ~Saves(q \o r)
  BY <1>1, AddsNone DEF NoSave
<1>. QED BY <1>2, <1>3 DEF NoSave

\* What follows a save keeps it the last.
Renews(q, items) == (\E T : q \in Seq(T)) /\ \A S : \A s \in Seq(S) : \A d : Last(s \o q, d, items)

LEMMA RenewsMore ==
  ASSUME NEW q, NEW r, NEW items, Renews(q, items), NoSave(r)
  PROVE  Renews(q \o r, items)
<1>1. PICK Q, R : q \in Seq(Q) /\ r \in Seq(R)
  BY DEF Renews, NoSave
<1>2. q \o r \in Seq(Q \union R)
  <2>1. q \in Seq(Q \union R) /\ r \in Seq(Q \union R)
    BY <1>1
  <2>. QED BY <2>1
<1>3. ASSUME NEW S, NEW s \in Seq(S), NEW d PROVE Last(s \o (q \o r), d, items)
  <2>1. s \o q \in Seq(S \union Q)
    <3>1. s \in Seq(S \union Q) /\ q \in Seq(S \union Q)
      BY <1>1
    <3>. QED BY <3>1
  <2>2. Last(s \o q, d, items)
    BY DEF Renews
  <2>3. Last((s \o q) \o r, d, items)
    <3>. DEFINE t == s \o q
    <3>. HIDE DEF t
    <3>. SUFFICES Last(t \o r, d, items)
      BY DEF t
    <3>1. t \in Seq(S \union Q) /\ Last(t, d, items)
      BY <2>1, <2>2 DEF t
    <3>. QED BY <1>1, <3>1, AddsNone DEF NoSave
  <2>4. s \o (q \o r) = (s \o q) \o r
    <3>. DEFINE U == S \union Q \union R
    <3>1. s \in Seq(U) /\ q \in Seq(U) /\ r \in Seq(U)
      BY <1>1
    <3>. HIDE DEF U
    <3>. QED BY <3>1
  <2>. QED BY <2>3, <2>4
<1>. QED BY <1>2, <1>3 DEF Renews

LEMMA SavesRenew ==
  ASSUME NEW items
  PROVE  Renews(<<[type |-> "gstorage", items |-> items]>>, items)
<1>. DEFINE p == [type |-> "gstorage", items |-> items]
            q == <<p>>
<1>1. p.type = "gstorage" /\ p.items = items
  OBVIOUS
<1>. HIDE DEF p
<1>2. q \in Seq({p}) /\ DOMAIN q = {1} /\ q[1] = p
  OBVIOUS
<1>. HIDE DEF q
<1>3. \A S : \A s \in Seq(S) : \A d : Last(s \o q, d, items)
  BY <1>1, <1>2, AddsLast
<1>. QED BY <1>2, <1>3 DEF Renews, q, p

\* chrif_save by a player with the window sends a storage that changed; by
\* anybody else, or if it did not change, it sends none.
LEMMA SavePacketsOK ==
  ASSUME NEW c, NEW items, NEW final, StorageOK
  PROVE  /\ Opens(c) /\ gstor.dirty => Renews(SavePackets(c, items, final), gstor.items)
         /\ ~(Opens(c) /\ gstor.dirty) => NoSave(SavePackets(c, items, final))
<1>. DEFINE ch == [type |-> "char", char |-> c, items |-> items, final |-> final]
<1>1. NoSave(<<ch>>)
  <2>1. ch.type # "gstorage"
    OBVIOUS
  <2>. HIDE DEF ch
  <2>. QED BY <2>1, OnePacket
<1>2. CASE Opens(c) /\ gstor.dirty
  <2>. DEFINE g == <<[type |-> "gstorage", items |-> gstor.items]>>
  <2>1. SavePackets(c, items, final) = g \o <<ch>>
    BY <1>2 DEF SavePackets, StoragePacket
  <2>2. Renews(g, gstor.items)
    BY SavesRenew
  <2>. HIDE DEF ch, g
  <2>3. Renews(g \o <<ch>>, gstor.items)
    BY <1>1, <2>2, RenewsMore
  <2>. QED BY <1>2, <2>1, <2>3
<1>3. CASE ~(Opens(c) /\ gstor.dirty)
  <2>1. SavePackets(c, items, final) = <<>> \o <<ch>>
    BY <1>3 DEF SavePackets, StoragePacket, Opens
  <2>. HIDE DEF ch
  <2>2. NoSave(<<>> \o <<ch>>)
    BY <1>1, NoPacket, Joins
  <2>. QED BY <1>3, <2>1, <2>2
<1>. QED BY <1>2, <1>3

-----------------------------------------------------------------------------
(* What a handler may do with the storage and the packets *)

\* A step that takes a packet of the char-server, or none.
Reads == fromInter' = fromInter \/ (fromInter # <<>> /\ fromInter' = Tail(fromInter))

LEMMA ReadsOK ==
  ASSUME SequencesOK, LinkOK, Reads
  PROVE  /\ \E S : fromInter' \in Seq(S)
         /\ Acks(fromInter') => Acks(fromInter)
         /\ ~linked => fromInter' = <<>>
<1>1. PICK S : fromInter \in Seq(S)
  BY DEF SequencesOK
<1>2. CASE fromInter' = fromInter
  BY <1>1, <1>2 DEF LinkOK
<1>3. CASE fromInter # <<>> /\ fromInter' = Tail(fromInter)
  <2>1. fromInter' \in Seq(S)
    BY <1>1, <1>3
  <2>2. Acks(fromInter') => Acks(fromInter)
    BY <1>1, <1>3, Takes
  <2>. QED BY <1>3, <2>1, <2>2 DEF LinkOK
<1>. QED BY <1>2, <1>3 DEF Reads

LEMMA Sends ==
  ASSUME SequencesOK, LinkOK, NEW q, NEW T, q \in Seq(T), Send(q), UNCHANGED linked, Reads
  PROVE  SequencesOK' /\ LinkOK'
<1>1. PICK S : toInter \in Seq(S)
  BY DEF SequencesOK
<1>2. toInter \o q \in Seq(S \union T)
  <2>1. toInter \in Seq(S \union T) /\ q \in Seq(S \union T)
    BY <1>1
  <2>. QED BY <2>1
<1>. QED BY <1>1, <1>2, ReadsOK DEF Send, SequencesOK, LinkOK

LEMMA Requests ==
  ASSUME SequencesOK, NEW p, Request(p)
  PROVE  Send(<<p>>)
<1>1. PICK S : toInter \in Seq(S)
  BY DEF SequencesOK
<1>2. Append(toInter, p) = toInter \o <<p>>
  BY <1>1
<1>. QED BY <1>2 DEF Request, Send

\* A step that takes no window away and changes no contents.
Keeps ==
  gstor' # NoStorage =>
    /\ gstor # NoStorage
    /\ gstor'.items = gstor.items /\ (gstor'.dirty => gstor.dirty)
    /\ ~Used' => ~Used
    /\ returned => returned'

LEMMA KeepsUnused ==
  ASSUME StorageInv, NEW q, NoSave(q), Send(q), Keeps, UNCHANGED gstor_db, Reads
  PROVE  UnusedSent'
<1>1. PICK S, T : toInter \in Seq(S) /\ q \in Seq(T)
  BY DEF StorageInv, SequencesOK, NoSave
<1>2. (Saves(toInter') => Saves(toInter))
      /\ \A d, x : Last(toInter, d, x) => Last(toInter', d, x)
  <2>1. CASE linked
    BY <1>1, <2>1, AddsNone DEF Send, NoSave
  <2>2. CASE ~linked
    BY <2>2 DEF Send
  <2>. QED BY <2>1, <2>2
<1>. SUFFICES ASSUME gstor' # NoStorage, ~Used', gstor'.dirty, ~returned',
                     Saves(toInter') \/ Acks(fromInter')
              PROVE  Last(toInter', gstor_db', gstor'.items)
  BY DEF UnusedSent
<1>3. Last(toInter, gstor_db, gstor.items)
  BY <1>2, ReadsOK DEF StorageInv, UnusedSent, Keeps
<1>. QED BY <1>2, <1>3 DEF Keeps, Used

LEMMA SameUnused ==
  ASSUME StorageInv, Keeps, UNCHANGED <<toInter, gstor_db>>, Reads
  PROVE  UnusedSent'
  BY ReadsOK DEF StorageInv, UnusedSent, Keeps

LEMMA RenewedUnused ==
  ASSUME StorageInv, NEW q, Renews(q, gstor.items), Send(q), UNCHANGED <<gstor_db, linked>>, Reads,
         gstor' # NoStorage => gstor'.items = gstor.items
  PROVE  UnusedSent'
<1>1. PICK S : toInter \in Seq(S)
  BY DEF StorageInv, SequencesOK
<1>2. CASE linked
  <2>1. Last(toInter', gstor_db', gstor.items)
    BY <1>1, <1>2 DEF Renews, Send
  <2>. QED BY <2>1 DEF UnusedSent
<1>3. CASE ~linked
  <2>1. toInter' = <<>> /\ fromInter' = <<>>
    BY <1>3, ReadsOK DEF StorageInv, LinkOK, Send
  <2>2. ~Saves(toInter') /\ ~Acks(fromInter')
    BY <2>1 DEF Saves, Acks
  <2>. QED BY <2>2 DEF UnusedSent
<1>. QED BY <1>2, <1>3

\* A storage in use, unchanged or changed by a retrieval promises nothing.
LEMMA FreeUnused ==
  ASSUME gstor' # NoStorage => Used' \/ ~gstor'.dirty \/ returned'
  PROVE  UnusedSent'
  BY DEF UnusedSent

\* What the steps below have to show.
Goal == SequencesOK' /\ LinkOK' /\ StorageOK' /\ UnusedSent'

LEMMA Closed ==
  ASSUME StorageOK, gstor # NoStorage
  PROVE  /\ IsStorage([gstor EXCEPT !.opened = Nobody])
         /\ [gstor EXCEPT !.opened = Nobody].items = gstor.items
         /\ [gstor EXCEPT !.opened = Nobody].dirty = gstor.dirty
         /\ [gstor EXCEPT !.opened = Nobody].opened = Nobody
  BY DEF StorageOK, IsStorage

LEMMA CloseOK ==
  ASSUME StorageInv, NEW c \in storage_flag, gstorage_storageclose(c), UNCHANGED <<linked, gstor_db>>, Reads
  PROVE  Goal /\ storage_flag' = storage_flag \ {c}
<1>1. storage_flag' = storage_flag \ {c}
  BY DEF gstorage_storageclose
<1>2. CASE gstor # NoStorage /\ gstor.opened # Nobody
  <2>. DEFINE q == SavePackets(c, pack[c], FALSE)
  <2>1. Opens(c)
    BY <1>2 DEF Opens, StorageInv, WindowsOK
  <2>2. Send(q) /\ gstor' = [gstor EXCEPT !.opened = Nobody]
    BY <1>2 DEF gstorage_storageclose
  <2>3. IsStorage(gstor') /\ gstor'.items = gstor.items /\ gstor'.dirty = gstor.dirty
    BY <1>2, <2>2, Closed DEF StorageInv
  <2>4. gstor.dirty => Renews(q, gstor.items)
    BY <2>1, SavePacketsOK DEF StorageInv
  <2>5. ~gstor.dirty => NoSave(q)
    BY SavePacketsOK DEF StorageInv
  <2>. HIDE DEF q
  <2>6. SequencesOK' /\ LinkOK'
    <3>1. PICK T : q \in Seq(T)
      BY <2>4, <2>5 DEF Renews, NoSave
    <3>. QED BY <2>2, <3>1, Sends DEF StorageInv
  <2>7. UnusedSent'
    BY <2>2, <2>3, <2>4, RenewedUnused, FreeUnused
  <2>. QED BY <1>1, <2>3, <2>6, <2>7 DEF Goal, StorageOK
<1>3. CASE ~(gstor # NoStorage /\ gstor.opened # Nobody)
  <2>1. UNCHANGED <<gstor, toInter, returned>>
    BY <1>3 DEF gstorage_storageclose
  <2>2. Keeps
    BY <1>3, <2>1 DEF Keeps, StorageInv, Used
  <2>3. UnusedSent'
    BY <2>1, <2>2, SameUnused
  <2>. QED BY <1>1, <2>1, <2>3, ReadsOK DEF Goal, StorageInv, SequencesOK, LinkOK, StorageOK
<1>. QED BY <1>2, <1>3

-----------------------------------------------------------------------------
(* Players *)

LEMMA AsksOK ==
  ASSUME StorageInv, NEW p, p.type # "gstorage", Request(p),
         UNCHANGED <<gstor, storage_flag, returned, linked, fromInter, gstor_db>>
  PROVE  Goal
<1>1. NoSave(<<p>>) /\ <<p>> \in Seq({p})
  BY OnePacket
<1>2. Send(<<p>>)
  BY Requests DEF StorageInv
<1>3. SequencesOK' /\ LinkOK'
  BY <1>1, <1>2, Sends DEF StorageInv, Reads
<1>4. UnusedSent'
  <2>1. Keeps
    BY DEF Keeps, Used
  <2>. QED BY <1>1, <1>2, <2>1, KeepsUnused DEF Reads
<1>. QED BY <1>3, <1>4 DEF Goal, StorageInv, StorageOK

\* A player who saves while the storage is as it is, open or not.
LEMMA SaveOK ==
  ASSUME StorageInv, NEW c, NEW items, NEW final, NEW q, NoSave(q) \/ Renews(q, gstor.items),
         Opens(c) /\ gstor.dirty => Renews(q, gstor.items),
         Send(q), UNCHANGED <<linked, gstor_db>>, Reads,
         gstor' = gstor, ~(Opens(c) /\ gstor.dirty) => returned' = returned,
         gstor # NoStorage /\ Used => Used' \/ (Opens(c) /\ gstor.dirty) \/ ~gstor.dirty
  PROVE  Goal
<1>1. SequencesOK' /\ LinkOK'
  <2>1. PICK T : q \in Seq(T)
    BY DEF NoSave, Renews
  <2>. QED BY <2>1, Sends DEF StorageInv
<1>2. UnusedSent'
  <2>1. CASE Renews(q, gstor.items)
    BY <2>1, RenewedUnused
  <2>2. CASE NoSave(q) /\ ~(Opens(c) /\ gstor.dirty)
    <3>1. CASE gstor # NoStorage /\ ~gstor.dirty
      BY <3>1, FreeUnused
    <3>2. CASE ~(gstor # NoStorage /\ ~gstor.dirty)
      <4>1. Keeps
        BY <2>2, <3>2 DEF Keeps, Used
      <4>. QED BY <2>2, <4>1, KeepsUnused
    <3>. QED BY <3>1, <3>2
  <2>. QED BY <2>1, <2>2
<1>. QED BY <1>1, <1>2 DEF Goal, StorageInv, StorageOK

LEMMA AutosaveInv == ASSUME StorageInv, NEW c \in Player, StorageAutosave(c) PROVE StorageInv'
<1>. DEFINE q == SavePackets(c, pack[c], FALSE)
<1>1. /\ Opens(c) /\ gstor.dirty => Renews(q, gstor.items)
      /\ ~(Opens(c) /\ gstor.dirty) => NoSave(q)
  BY SavePacketsOK DEF StorageInv
<1>. HIDE DEF q
<1>2. Send(q) /\ UNCHANGED <<linked, fromInter, gstor_db, gstor, storage_flag, guildsmen, active>>
  BY DEF StorageAutosave, q, tables
<1>3. ~(Opens(c) /\ gstor.dirty) => returned' = returned
  BY DEF StorageAutosave, Sent
<1>4. Goal
  BY <1>1, <1>2, <1>3, SaveOK DEF Reads, Used
<1>. QED BY <1>2, <1>4 DEF Goal, StorageInv, WindowsOK

LEMMA QuitInv == ASSUME StorageInv, NEW c \in Player, NEW teleport \in BOOLEAN, Quit(c, teleport) PROVE StorageInv'
<1>. DEFINE closes == c \in storage_flag /\ c \in guildsmen /\ gstor # NoStorage
                        /\ gstor.opened # Nobody /\ (linked \/ ~teleport)
            a == IF closes /\ ~teleport THEN SavePackets(c, pack[c], FALSE) ELSE <<>>
            b == IF closes /\ teleport THEN SavePackets(c, pack[c], TRUE)
                 ELSE <<[type |-> "char", char |-> c, items |-> pack[c], final |-> TRUE]>>
<1>1. /\ Send(a \o b)
      /\ gstor' = IF closes THEN [gstor EXCEPT !.opened = Nobody] ELSE gstor
      /\ IF closes /\ Opens(c) THEN Sent ELSE UNCHANGED returned
      /\ storage_flag' = storage_flag \ {c} /\ active' = active \ {c} /\ guildsmen' = guildsmen \ {c}
      /\ UNCHANGED <<linked, fromInter, gstor_db>>
  BY DEF Quit, tables
<1>2. closes => Opens(c)
  BY DEF Opens
<1>3. /\ gstor.dirty /\ Opens(c) => Renews(SavePackets(c, pack[c], FALSE), gstor.items)
      /\ gstor.dirty /\ Opens(c) => Renews(SavePackets(c, pack[c], TRUE), gstor.items)
      /\ ~(gstor.dirty /\ Opens(c)) => NoSave(SavePackets(c, pack[c], FALSE))
      /\ ~(gstor.dirty /\ Opens(c)) => NoSave(SavePackets(c, pack[c], TRUE))
  BY SavePacketsOK DEF StorageInv
<1>4. NoSave(<<[type |-> "char", char |-> c, items |-> pack[c], final |-> TRUE]>>)
  <2>. DEFINE p == [type |-> "char", char |-> c, items |-> pack[c], final |-> TRUE]
  <2>1. p.type # "gstorage"
    OBVIOUS
  <2>. HIDE DEF p
  <2>2. NoSave(<<p>>)
    BY <2>1, OnePacket
  <2>. QED BY <2>2 DEF p
<1>5. closes /\ gstor.dirty => Renews(a \o b, gstor.items)
  <2>. SUFFICES ASSUME closes, gstor.dirty PROVE Renews(a \o b, gstor.items)
    OBVIOUS
  <2>1. CASE teleport
    <3>1. a = <<>> /\ Renews(b, gstor.items)
      BY <1>2, <1>3, <2>1
    <3>. HIDE DEF a, b
    <3>2. <<>> \o b = b
      <4>1. PICK T : b \in Seq(T)
        BY <3>1 DEF Renews
      <4>. QED BY <4>1
    <3>. QED BY <3>1, <3>2
  <2>2. CASE ~teleport
    <3>1. Renews(a, gstor.items) /\ NoSave(b)
      BY <1>2, <1>3, <1>4, <2>2
    <3>. HIDE DEF a, b
    <3>. QED BY <3>1, RenewsMore
  <2>. QED BY <2>1, <2>2
<1>6. ~(closes /\ gstor.dirty) => NoSave(a \o b)
  <2>. SUFFICES ASSUME ~(closes /\ gstor.dirty) PROVE NoSave(a \o b)
    OBVIOUS
  <2>1. NoSave(a) /\ NoSave(b)
    BY <1>2, <1>3, <1>4, NoPacket
  <2>. HIDE DEF a, b
  <2>. QED BY <2>1, Joins
<1>. DEFINE q == a \o b
<1>7. (closes /\ gstor.dirty => Renews(q, gstor.items)) /\ (~(closes /\ gstor.dirty) => NoSave(q)) /\ Send(q)
  BY <1>1, <1>5, <1>6
<1>. HIDE DEF a, b, q
<1>8. SequencesOK' /\ LinkOK'
  <2>1. PICK T : q \in Seq(T)
    BY <1>7 DEF NoSave, Renews
  <2>. QED BY <1>1, <1>7, <2>1, Sends DEF StorageInv, Reads
<1>9. StorageOK' /\ WindowsOK'
  BY <1>1, Closed DEF StorageInv, StorageOK, WindowsOK
<1>10. UnusedSent'
  <2>1. CASE closes
    <3>1. gstor'.items = gstor.items /\ gstor'.dirty = gstor.dirty
      BY <1>1, <2>1, Closed DEF StorageInv
    <3>. QED BY <1>1, <1>7, <2>1, <3>1, RenewedUnused, FreeUnused DEF Reads
  <2>2. CASE ~closes
    <3>1. gstor' = gstor /\ returned' = returned /\ NoSave(q)
      BY <1>1, <1>7, <2>2
    <3>2. CASE linked \/ gstor = NoStorage \/ gstor.opened # c \/ c \notin storage_flag
      <4>1. gstor # NoStorage => (Used => Used')
        BY <1>1, <2>2, <3>2 DEF StorageInv, WindowsOK, Used
      <4>2. Keeps
        BY <3>1, <4>1 DEF Keeps, Used
      <4>. QED BY <1>1, <1>7, <3>1, <4>2, KeepsUnused DEF Reads
    <3>3. CASE ~linked
      <4>1. toInter' = <<>> /\ fromInter' = <<>>
        BY <1>1, <1>7, <3>3 DEF Send, StorageInv, LinkOK
      <4>. QED BY <4>1 DEF UnusedSent, Saves, Acks
    <3>. QED BY <3>2, <3>3
  <2>. QED BY <2>1, <2>2
<1>. QED BY <1>8, <1>9, <1>10 DEF StorageInv

LEMMA UseOK ==
  ASSUME StorageInv, NEW gs, IsStorage(gs), gs.opened \in storage_flag', gs.opened # Nobody, gstor' = gs, UNCHANGED <<toInter, linked>>, Reads
  PROVE  Goal
  BY FreeUnused, ReadsOK DEF Used, Goal, StorageInv, SequencesOK, LinkOK, StorageOK

LEMMA PlayerInv == StorageInv /\ StoragePlayer => StorageInv'
<1>. SUFFICES ASSUME StorageInv, StoragePlayer PROVE StorageInv'
  OBVIOUS
<1>1. ASSUME NEW c \in Player, StorageLogin(c) \/ RequestStorage(c) \/ Expel(c) PROVE StorageInv'
  <2>1. PICK t \in {"auth", "load", "expel"} : Request([type |-> t, char |-> c])
    BY <1>1 DEF StorageLogin, RequestStorage, Expel
  <2>. DEFINE p == [type |-> t, char |-> c]
  <2>2. p.type # "gstorage" /\ Request(p)
    BY <2>1
  <2>. HIDE DEF p
  <2>3. UNCHANGED <<gstor, storage_flag, returned, linked, fromInter, gstor_db, guildsmen, active>>
    BY <1>1 DEF StorageLogin, RequestStorage, Expel, mapMemory, tables
  <2>4. Goal
    BY <2>2, <2>3, AsksOK
  <2>. QED BY <2>3, <2>4 DEF Goal, StorageInv, WindowsOK
<1>2. ASSUME NEW c \in Player, StorageOpen(c) PROVE StorageInv'
  <2>. DEFINE gs == [gstor EXCEPT !.opened = c]
  <2>1. IsStorage(gs) /\ gs.opened = c /\ gstor' = gs /\ c # Nobody
    BY <1>2, StorageAssumption DEF StorageOpen, StorageInv, StorageOK, IsStorage, StorageAssumption
  <2>2. WindowsOK' /\ c \in storage_flag' /\ UNCHANGED <<toInter, fromInter, linked>>
    BY <1>2 DEF StorageOpen, MayOpen, StorageInv, WindowsOK
  <2>. HIDE DEF gs
  <2>3. Goal
    BY <2>1, <2>2, UseOK DEF Reads
  <2>. QED BY <2>2, <2>3 DEF Goal, StorageInv
<1>3. ASSUME NEW c \in Player, NEW i \in Item, StorageAdd(c, i) \/ StorageGet(c, i) PROVE StorageInv'
  <2>1. PICK items : gstor' = [gstor EXCEPT !.items = items, !.dirty = TRUE]
    BY <1>3 DEF StorageAdd, StorageGet
  <2>2. gstor # NoStorage /\ gstor.opened = c /\ c \in storage_flag /\ c # Nobody
        /\ UNCHANGED <<toInter, fromInter, linked, storage_flag, guildsmen, active>>
    BY <1>3, StorageAssumption DEF StorageAdd, StorageGet, Uses, Opens, StorageAssumption
  <2>3. IsStorage(gstor') /\ gstor'.opened = c
    <3>. DEFINE d == [gstor EXCEPT !.items = items]
    <3>1. IsStorage(d) /\ d.opened = c
      BY <2>2, FieldsOK DEF StorageInv, StorageOK
    <3>2. gstor' = [d EXCEPT !.dirty = TRUE]
      BY <2>1
    <3>. HIDE DEF d
    <3>. QED BY <3>1, <3>2, FieldsOK
  <2>4. Goal
    BY <2>2, <2>3, UseOK DEF Reads
  <2>. QED BY <2>2, <2>4 DEF Goal, StorageInv, WindowsOK
<1>4. ASSUME NEW c \in Player, StorageClose(c) PROVE StorageInv'
  <2>1. c \in storage_flag /\ gstorage_storageclose(c)
        /\ UNCHANGED <<linked, fromInter, gstor_db, guildsmen, active>>
    BY <1>4 DEF StorageClose, tables
  <2>2. Goal /\ storage_flag' = storage_flag \ {c}
    BY <2>1, CloseOK DEF Reads
  <2>. QED BY <2>1, <2>2 DEF Goal, StorageInv, WindowsOK
<1>. QED BY <1>1, <1>2, <1>3, <1>4, AutosaveInv, QuitInv DEF StoragePlayer

-----------------------------------------------------------------------------
(* Packets for the map-server *)

Handling == linked /\ UNCHANGED <<linked, gstor_db>> /\ Reads

LEMMA HandlingOK ==
  ASSUME StorageInv, Handling, UNCHANGED toInter
  PROVE  SequencesOK' /\ LinkOK'
  BY ReadsOK DEF StorageInv, Handling, SequencesOK, LinkOK

LEMMA LoadInv ==
  ASSUME StorageInv, Handling, NEW c, NEW items, LoadGuildStorage(c, items)
  PROVE  Goal /\ WindowsOK'
<1>1. SequencesOK' /\ LinkOK'
  BY HandlingOK DEF LoadGuildStorage
<1>2. CASE c \notin active \/ (gstor # NoStorage /\ (gstor.opened # Nobody \/ gstor.dirty))
  <2>1. UNCHANGED <<gstor, storage_flag, returned, toInter, active, guildsmen>>
    BY <1>2 DEF LoadGuildStorage
  <2>2. UnusedSent'
    <3>1. Keeps
      BY <2>1 DEF Keeps, Used
    <3>. QED BY <2>1, <3>1, SameUnused DEF Handling
  <2>. QED BY <1>1, <2>1, <2>2 DEF Goal, StorageInv, StorageOK, WindowsOK
<1>3. CASE ~(c \notin active \/ (gstor # NoStorage /\ (gstor.opened # Nobody \/ gstor.dirty)))
  <2>. DEFINE opens == c \in guildsmen /\ c \notin storage_flag
              fresh == Loaded(items)
  <2>1. /\ gstor' = [fresh EXCEPT !.opened = IF opens THEN c ELSE Nobody]
        /\ storage_flag' = IF opens THEN storage_flag \union {c} ELSE storage_flag
        /\ UNCHANGED <<active, guildsmen>>
    BY <1>3 DEF LoadGuildStorage
  <2>2. IsStorage(fresh) /\ fresh.dirty = FALSE
    BY DEF IsStorage, Loaded
  <2>. HIDE DEF fresh
  <2>3. IsStorage(gstor') /\ ~gstor'.dirty
    BY <2>1, <2>2, FieldsOK
  <2>4. WindowsOK'
    BY <2>1 DEF StorageInv, WindowsOK
  <2>. QED BY <1>1, <2>3, <2>4, FreeUnused DEF Goal, StorageOK
<1>. QED BY <1>2, <1>3

LEMMA StoredInv ==
  ASSUME StorageInv, Handling, gstorage_storagesaved
  PROVE  Goal /\ WindowsOK'
<1>1. SequencesOK' /\ LinkOK' /\ WindowsOK'
  BY HandlingOK DEF gstorage_storagesaved, StorageInv, WindowsOK
<1>2. CASE gstor # NoStorage /\ gstor.opened = Nobody
  <2>1. gstor' = [gstor EXCEPT !.dirty = FALSE] /\ IsStorage(gstor)
    BY <1>2 DEF gstorage_storagesaved, StorageInv, StorageOK
  <2>2. IsStorage(gstor') /\ ~gstor'.dirty
    BY <2>1, FieldsOK
  <2>. QED BY <1>1, <2>2, FreeUnused DEF Goal, StorageOK
<1>3. CASE ~(gstor # NoStorage /\ gstor.opened = Nobody)
  <2>1. UNCHANGED <<gstor, storage_flag, returned, toInter>>
    BY <1>3 DEF gstorage_storagesaved
  <2>2. UnusedSent'
    <3>1. Keeps
      BY <2>1 DEF Keeps, Used
    <3>. QED BY <2>1, <3>1, SameUnused DEF Handling
  <2>. QED BY <1>1, <2>1, <2>2 DEF Goal, StorageInv, StorageOK
<1>. QED BY <1>2, <1>3

\* A handler that leaves the storage and the packets to be sent alone.
LEMMA OthersInv ==
  ASSUME StorageInv, Handling, UNCHANGED <<gstor, storage_flag, toInter>>, returned => returned'
  PROVE  Goal
<1>1. Keeps
  BY DEF Keeps, Used
<1>. QED BY <1>1, SameUnused, HandlingOK DEF Goal, StorageInv, StorageOK, Handling

LEMMA EnsuredOK == StorageOK => IsStorage(Ensured)
  BY DEF StorageOK, Ensured, IsStorage, Loaded

LEMMA RetrievedInv ==
  ASSUME StorageInv, Handling, NEW items, Retrieved(items)
  PROVE  Goal /\ WindowsOK'
<1>1. SequencesOK' /\ LinkOK' /\ WindowsOK'
  BY HandlingOK DEF Retrieved, StorageInv, WindowsOK
<1>2. CASE items = {}
  <2>1. gstor' = (IF gstor = NoStorage THEN gstor ELSE [gstor EXCEPT !.locked = FALSE])
        /\ UNCHANGED <<storage_flag, toInter>> /\ (returned => returned')
    BY <1>2 DEF Retrieved
  <2>2. CASE gstor = NoStorage
    BY <1>1, <2>1, <2>2, OthersInv
  <2>3. CASE gstor # NoStorage
    <3>1. IsStorage(gstor') /\ gstor'.items = gstor.items /\ gstor'.dirty = gstor.dirty
          /\ gstor'.opened = gstor.opened
      BY <2>1, <2>3, FieldsOK DEF StorageInv, StorageOK
    <3>2. Keeps
      BY <2>1, <2>3, <3>1 DEF Keeps, Used
    <3>. QED BY <1>1, <2>1, <3>1, <3>2, SameUnused DEF Goal, StorageOK, Handling
  <2>. QED BY <2>2, <2>3
<1>3. CASE items # {}
  <2>1. returned'
    BY <1>3 DEF Retrieved
  <2>2. StorageOK'
    <3>. DEFINE gs == Ensured
                kept == Kept(gs.items, items)
                d1 == [gs EXCEPT !.items = gs.items \union kept]
                d2 == [d1 EXCEPT !.dirty = gs.dirty \/ kept # {}]
                d3 == [d2 EXCEPT !.locked = FALSE]
                d4 == [d3 EXCEPT !.opened = Nobody]
    <3>. SUFFICES ASSUME gstor' # NoStorage PROVE IsStorage(gstor')
      BY DEF StorageOK
    <3>1. gstor' = gs \/ gstor' = d4
      BY <1>3 DEF Retrieved
    <3>2. IsStorage(gs) /\ (gs.dirty \/ kept # {}) \in BOOLEAN
      BY EnsuredOK DEF StorageInv
    <3>. HIDE DEF gs, kept
    <3>3. IsStorage(d1)
      BY <3>2, FieldsOK
    <3>. HIDE DEF d1
    <3>4. IsStorage(d2)
      BY <3>2, <3>3, FieldsOK
    <3>. HIDE DEF d2
    <3>5. IsStorage(d3)
      BY <3>4, FieldsOK
    <3>. HIDE DEF d3
    <3>6. IsStorage(d4)
      BY <3>5, FieldsOK
    <3>. QED BY <3>1, <3>2, <3>6
  <2>. QED BY <1>1, <2>1, <2>2, FreeUnused DEF Goal
<1>. QED BY <1>2, <1>3

LEMMA SendsTo ==
  ASSUME NEW q, Send(q), linked
  PROVE  toInter' = toInter \o q
  BY DEF Send

\* Bound items come back from a character in the game.
LEMMA RetrieveOnlineInv ==
  ASSUME StorageInv, Handling, NEW c, RetrieveOnline(c), guildsmen' = guildsmen \ {c}, UNCHANGED active
  PROVE  Goal /\ WindowsOK'
<1>1. CASE c \notin guildsmen
  <2>1. UNCHANGED <<gstor, toInter, storage_flag, returned>>
    BY <1>1 DEF RetrieveOnline
  <2>2. WindowsOK'
    BY <1>1, <2>1 DEF StorageInv, WindowsOK
  <2>. QED BY <2>1, <2>2, OthersInv
<1>2. CASE c \in guildsmen
  <2>. DEFINE bound == pack[c] \cap Bound
              opener == IF gstor = NoStorage THEN Nobody ELSE gstor.opened
              found == opener # Nobody /\ opener \in guildsmen
              kept == Kept(Ensured.items, bound)
              gs == [Ensured EXCEPT !.opened = Nobody]
              q == IF found THEN SavePackets(opener, pack[opener], FALSE)
                   ELSE IF opener # Nobody THEN SavePackets(c, pack'[c], FALSE) ELSE <<>>
  <2>1. /\ storage_flag' = storage_flag \ {opener, c}
        /\ Send(q)
        /\ gstor' = [gs EXCEPT !.items = gs.items \union kept, !.dirty = gs.dirty \/ kept # {}]
        /\ returned' = (kept # {} \/ returned)
    BY <1>2 DEF RetrieveOnline
  <2>2. WindowsOK'
    BY <2>1 DEF StorageInv, WindowsOK
  <2>3. IsStorage(Ensured)
    BY EnsuredOK DEF StorageInv
  <2>4. IsStorage(gs) /\ gs.items = Ensured.items /\ gs.dirty = Ensured.dirty
    BY <2>3, FieldsOK
  <2>5. /\ Opens(opener) /\ gstor.dirty => Renews(SavePackets(opener, pack[opener], FALSE), gstor.items)
        /\ ~(Opens(opener) /\ gstor.dirty) => NoSave(SavePackets(opener, pack[opener], FALSE))
        /\ Opens(c) /\ gstor.dirty => Renews(SavePackets(c, pack'[c], FALSE), gstor.items)
        /\ ~(Opens(c) /\ gstor.dirty) => NoSave(SavePackets(c, pack'[c], FALSE))
    BY SavePacketsOK DEF StorageInv
  <2>6. NoSave(q) \/ Renews(q, gstor.items)
    BY <2>5, NoPacket
  <2>7. gstor # NoStorage /\ Used /\ gstor.dirty => Renews(q, gstor.items)
    <3>. SUFFICES ASSUME gstor # NoStorage, Used, gstor.dirty
                  PROVE  Renews(q, gstor.items)
      OBVIOUS
    <3>1. opener = gstor.opened /\ opener # Nobody /\ found /\ Opens(opener)
      BY DEF StorageInv, WindowsOK, Opens, Used
    <3>. QED BY <2>5, <3>1
  <2>. HIDE DEF q
  <2>8. SequencesOK' /\ LinkOK'
    <3>1. PICK T : q \in Seq(T)
      BY <2>6 DEF NoSave, Renews
    <3>. QED BY <2>1, <3>1, Sends DEF StorageInv, Handling
  <2>. HIDE DEF gs, kept, opener, found
  <2>. DEFINE d1 == [gs EXCEPT !.items = gs.items \union kept]
  <2>9. /\ IsStorage(gstor') /\ gstor'.items = gs.items \union kept
        /\ gstor'.dirty = (gs.dirty \/ kept # {})
    <3>1. IsStorage(d1) /\ d1.items = gs.items \union kept /\ d1.dirty = gs.dirty
      BY <2>4, FieldsOK
    <3>2. PICK b \in BOOLEAN : b = (gs.dirty \/ kept # {})
      OBVIOUS
    <3>3. gstor' = [d1 EXCEPT !.dirty = b]
      BY <2>1, <3>2
    <3>. HIDE DEF d1
    <3>4. IsStorage(gstor') /\ gstor'.items = d1.items /\ gstor'.dirty = b
      BY <3>1, <3>3, FieldsOK
    <3>. QED BY <3>1, <3>2, <3>4
  <2>10. UnusedSent'
    <3>1. CASE kept # {}
      BY <2>1, <3>1, FreeUnused
    <3>2. CASE kept = {} /\ ~gs.dirty
      BY <2>9, <3>2, FreeUnused
    <3>3. CASE kept = {} /\ gs.dirty
      <4>1. gstor # NoStorage /\ Ensured = gstor
        BY <2>4, <3>3 DEF Ensured, Loaded
      <4>2. gstor'.items = gstor.items /\ gstor.dirty
        BY <2>4, <2>9, <3>3, <4>1
      <4>3. CASE Renews(q, gstor.items)
        BY <2>1, <4>2, <4>3, RenewedUnused DEF Handling
      <4>4. CASE NoSave(q) /\ ~Used
        <5>1. Keeps
          BY <2>1, <4>1, <4>2, <4>4 DEF Keeps, Used
        <5>. QED BY <2>1, <4>4, <5>1, KeepsUnused DEF Handling
      <4>. QED BY <2>6, <2>7, <4>1, <4>2, <4>3, <4>4
    <3>. QED BY <3>1, <3>2, <3>3
  <2>. QED BY <2>2, <2>8, <2>9, <2>10 DEF Goal, StorageOK
<1>. QED BY <1>1, <1>2

\* ... and from one that is not, whose bound items the char-server is asked for.
LEMMA RetrieveOfflineInv ==
  ASSUME StorageInv, Handling, NEW c, c \notin active, RetrieveOffline(c),
         guildsmen' = guildsmen \ {c}, UNCHANGED active
  PROVE  Goal /\ WindowsOK'
<1>. DEFINE opener == IF gstor = NoStorage THEN Nobody ELSE gstor.opened
            closes == opener # Nobody /\ opener \in guildsmen
            a == IF closes THEN SavePackets(opener, pack[opener], FALSE) ELSE <<>>
            p == [type |-> "retrieve", char |-> c]
<1>1. /\ toInter' = toInter \o a \o <<p>>
      /\ gstor' = IF gstor = NoStorage THEN gstor
                  ELSE [gstor EXCEPT !.locked = TRUE, !.opened = IF closes THEN Nobody ELSE gstor.opened]
      /\ storage_flag' = storage_flag \ {opener}
      /\ IF closes /\ Opens(opener) THEN Sent ELSE UNCHANGED returned
  BY DEF RetrieveOffline
<1>2. WindowsOK'
  BY <1>1 DEF StorageInv, WindowsOK
<1>3. NoSave(<<p>>)
  <2>1. p.type # "gstorage"
    OBVIOUS
  <2>. HIDE DEF p
  <2>. QED BY <2>1, OnePacket
<1>4. gstor # NoStorage
        => IsStorage(gstor') /\ gstor'.items = gstor.items /\ gstor'.dirty = gstor.dirty
           /\ gstor'.opened = IF closes THEN Nobody ELSE gstor.opened
  <2>. SUFFICES ASSUME gstor # NoStorage
                PROVE  IsStorage(gstor') /\ gstor'.items = gstor.items /\ gstor'.dirty = gstor.dirty
                       /\ gstor'.opened = IF closes THEN Nobody ELSE gstor.opened
    OBVIOUS
  <2>. DEFINE d == [gstor EXCEPT !.locked = TRUE]
  <2>1. IsStorage(d) /\ d.items = gstor.items /\ d.dirty = gstor.dirty /\ d.opened = gstor.opened
    <3>1. IsStorage(gstor)
      BY DEF StorageInv, StorageOK
    <3>. QED BY <3>1, FieldsOK
  <2>2. gstor' = [d EXCEPT !.opened = IF closes THEN Nobody ELSE gstor.opened]
    BY <1>1
  <2>. HIDE DEF d, closes
  <2>. QED BY <2>1, <2>2, FieldsOK
<1>5. /\ closes /\ Opens(opener) /\ gstor.dirty => Renews(a, gstor.items)
      /\ ~(closes /\ Opens(opener) /\ gstor.dirty) => NoSave(a)
  BY SavePacketsOK, NoPacket DEF StorageInv
<1>6. gstor # NoStorage /\ Used => closes /\ Opens(opener)
  BY DEF StorageInv, WindowsOK, Opens, Used
<1>. HIDE DEF a, p
<1>7. /\ closes /\ Opens(opener) /\ gstor.dirty => Renews(a \o <<p>>, gstor.items)
      /\ ~(closes /\ Opens(opener) /\ gstor.dirty) => NoSave(a \o <<p>>)
  BY <1>3, <1>5, RenewsMore, Joins
<1>8. Send(a \o <<p>>)
  <2>1. PICK S, T, U : toInter \in Seq(S) /\ a \in Seq(T) /\ <<p>> \in Seq(U)
    BY <1>3, <1>5 DEF StorageInv, SequencesOK, NoSave, Renews
  <2>2. (toInter \o a) \o <<p>> = toInter \o (a \o <<p>>)
    <3>. DEFINE V == S \union T \union U
    <3>1. toInter \in Seq(V) /\ a \in Seq(V) /\ <<p>> \in Seq(V)
      BY <2>1
    <3>. HIDE DEF V
    <3>. QED BY <3>1
  <2>. QED BY <1>1, <2>2 DEF Handling, Send
<1>. DEFINE q == a \o <<p>>
<1>9. /\ closes /\ Opens(opener) /\ gstor.dirty => Renews(q, gstor.items)
      /\ ~(closes /\ Opens(opener) /\ gstor.dirty) => NoSave(q)
      /\ Send(q)
  BY <1>7, <1>8
<1>. HIDE DEF q
<1>10. SequencesOK' /\ LinkOK'
  <2>1. PICK T : q \in Seq(T)
    BY <1>9 DEF NoSave, Renews
  <2>. QED BY <1>9, <2>1, Sends DEF StorageInv, Handling
<1>11. StorageOK'
  BY <1>1, <1>4 DEF StorageOK
<1>12. UnusedSent'
  <2>1. CASE gstor # NoStorage /\ ~gstor.dirty
    BY <1>4, <2>1, FreeUnused
  <2>2. CASE closes /\ Opens(opener) /\ gstor.dirty
    <3>1. gstor # NoStorage
      BY <2>2 DEF Opens
    <3>. QED BY <1>4, <1>9, <2>2, <3>1, RenewedUnused DEF Handling
  <2>3. CASE ~(closes /\ Opens(opener) /\ gstor.dirty) /\ (gstor = NoStorage \/ gstor.dirty)
    <3>1. returned => returned'
      BY <1>1, <2>3 DEF Sent, Opens
    <3>2. gstor = NoStorage => gstor' = NoStorage
      BY <1>1
    <3>3. gstor # NoStorage => ~Used
      BY <1>6, <2>3
    <3>. HIDE DEF closes, opener
    <3>4. Keeps
      BY <1>4, <3>1, <3>2, <3>3 DEF Keeps, Used
    <3>. QED BY <1>9, <2>3, <3>4, KeepsUnused DEF Handling
  <2>. QED BY <2>1, <2>2, <2>3
<1>. QED BY <1>2, <1>10, <1>11, <1>12 DEF Goal

LEMMA WithdrawInv ==
  ASSUME StorageInv, Handling, NEW c, Withdraw(c)
  PROVE  Goal /\ WindowsOK'
<1>1. guildsmen' = guildsmen \ {c} /\ UNCHANGED active
  BY DEF Withdraw
<1>2. CASE c \notin active /\ RetrieveOffline(c)
  BY <1>1, <1>2, RetrieveOfflineInv
<1>3. CASE RetrieveOnline(c)
  BY <1>1, <1>3, RetrieveOnlineInv
<1>4. CASE c \in storage_flag \cap guildsmen /\ gstorage_storageclose(c)
  <2>1. Goal /\ storage_flag' = storage_flag \ {c}
    BY <1>4, CloseOK DEF Handling
  <2>. QED BY <1>1, <2>1 DEF StorageInv, WindowsOK
<1>5. CASE c \notin storage_flag \cap guildsmen /\ UNCHANGED <<gstor, toInter, storage_flag, returned>>
  <2>1. Goal
    BY <1>5, OthersInv
  <2>2. WindowsOK'
    BY <1>1, <1>5 DEF StorageInv, WindowsOK
  <2>. QED BY <2>1, <2>2
<1>. QED BY <1>2, <1>3, <1>4, <1>5 DEF Withdraw

LEMMA MapHandlesInv == StorageInv /\ MapHandles => StorageInv'
<1>. SUFFICES ASSUME StorageInv, MapHandles PROVE StorageInv'
  OBVIOUS
<1>1. Handling
  BY DEF MapHandles, Handling, Reads, StorageInv, LinkOK, tables
<1>. DEFINE p == Head(fromInter)
<1>2. Goal /\ WindowsOK'
  <2>1. CASE Authok(p.char, p.items, p.guild)
    <3>1. UNCHANGED <<gstor, storage_flag, returned, toInter>>
      BY <2>1 DEF Authok
    <3>2. WindowsOK'
      BY <2>1, <1>1 DEF Authok, StorageInv, WindowsOK
    <3>. QED BY <1>1, <3>1, <3>2, OthersInv
  <2>2. CASE LoadGuildStorage(p.char, p.items)
    BY <1>1, <2>2, LoadInv
  <2>3. CASE gstorage_storagesaved
    BY <1>1, <2>3, StoredInv
  <2>4. CASE CharSaved(p.char)
    <3>1. UNCHANGED <<gstor, storage_flag, returned, toInter, active, guildsmen>>
      BY <2>4 DEF CharSaved
    <3>. QED BY <1>1, <3>1, OthersInv DEF StorageInv, WindowsOK
  <2>5. CASE Withdraw(p.char)
    BY <1>1, <2>5, WithdrawInv
  <2>6. CASE Retrieved(p.items)
    BY <1>1, <2>6, RetrievedInv
  <2>. QED BY <2>1, <2>2, <2>3, <2>4, <2>5, <2>6 DEF MapHandles
<1>. QED BY <1>2 DEF Goal, StorageInv

-----------------------------------------------------------------------------
(* Packets for the char-server, and the link *)

LEMMA Answers ==
  ASSUME NEW S, NEW s \in Seq(S), NEW p
  PROVE  /\ Append(s, p) \in Seq(S \union {p})
         /\ Acks(Append(s, p)) => Acks(s) \/ p.type = "stored"
<1>1. s \in Seq(S \union {p}) /\ p \in S \union {p}
  OBVIOUS
<1>2. Append(s, p) \in Seq(S \union {p})
  BY <1>1
<1>3. /\ DOMAIN Append(s, p) = 1 .. Len(s) + 1 /\ DOMAIN s = 1 .. Len(s) /\ Len(s) \in Nat
      /\ \A k \in 1 .. Len(s) : Append(s, p)[k] = s[k]
      /\ Append(s, p)[Len(s) + 1] = p
  OBVIOUS
<1>. DEFINE r == Append(s, p)
<1>. HIDE DEF r
<1>4. ASSUME NEW k \in DOMAIN r, r[k].type = "stored", p.type # "stored" PROVE Acks(s)
  <2>1. k \in DOMAIN s /\ r[k] = s[k]
    BY <1>3, <1>4 DEF r
  <2>. QED BY <1>4, <2>1 DEF Acks
<1>5. Acks(r) => Acks(s) \/ p.type = "stored"
  BY <1>4 DEF Acks
<1>. QED BY <1>2, <1>5 DEF r

LEMMA AnswersOK ==
  ASSUME SequencesOK, NEW p, p.type # "stored", fromInter' = Append(fromInter, p)
  PROVE  (\E S : fromInter' \in Seq(S)) /\ (Acks(fromInter') => Acks(fromInter))
<1>1. PICK S : fromInter \in Seq(S)
  BY DEF SequencesOK
<1>. QED BY <1>1, Answers

LEMMA InterHandlesInv == StorageInv /\ InterHandles => StorageInv'
<1>. SUFFICES ASSUME StorageInv, InterHandles PROVE StorageInv'
  OBVIOUS
<1>. DEFINE p == Head(toInter)
<1>1. /\ linked' /\ toInter # <<>> /\ toInter' = Tail(toInter)
      /\ UNCHANGED <<gstor, storage_flag, active, guildsmen, returned>>
  BY DEF InterHandles, mapMemory
<1>2. PICK S : toInter \in Seq(S)
  BY DEF StorageInv, SequencesOK
<1>3. /\ Saves(toInter') => Saves(toInter)
      /\ p.type # "gstorage" => \A d, x : Last(toInter, d, x) => Last(toInter', d, x)
      /\ p.type = "gstorage"
           => Saves(toInter) /\ \A d, x : Last(toInter, d, x) => Last(toInter', p.items, x)
  BY <1>1, <1>2, Takes
<1>4. \E T : toInter' \in Seq(T)
  BY <1>1, <1>2
<1>5. LinkOK' /\ StorageOK' /\ WindowsOK'
  BY <1>1 DEF StorageInv, LinkOK, StorageOK, WindowsOK
<1>6. CASE p.type = "gstorage"
  <2>. DEFINE ack == [type |-> "stored"]
  <2>1. gstor_db' = p.items /\ fromInter' = Append(fromInter, ack)
    BY <1>6 DEF InterHandles
  <2>2. \E T : fromInter' \in Seq(T)
    <3>1. PICK T : fromInter \in Seq(T)
      BY DEF StorageInv, SequencesOK
    <3>. HIDE DEF ack
    <3>. QED BY <2>1, <3>1, Answers
  <2>3. UnusedSent'
    <3>. SUFFICES ASSUME gstor # NoStorage, ~Used, gstor.dirty, ~returned
                  PROVE  Last(toInter', gstor_db', gstor.items)
      BY <1>1 DEF UnusedSent, Used
    <3>1. Last(toInter, gstor_db, gstor.items)
      BY <1>3, <1>6 DEF StorageInv, UnusedSent
    <3>. QED BY <1>3, <1>6, <2>1, <3>1
  <2>. QED BY <1>4, <1>5, <2>2, <2>3 DEF StorageInv, SequencesOK
<1>7. CASE p.type # "gstorage"
  <2>1. UNCHANGED gstor_db
    BY <1>7 DEF InterHandles, tables, ItemboundRetrieve
  <2>2. (\E T : fromInter' \in Seq(T)) /\ (Acks(fromInter') => Acks(fromInter))
    <3>1. fromInter' = fromInter \/ \E a : a.type # "stored" /\ fromInter' = Append(fromInter, a)
      <4>. DEFINE m == [type |-> "loaded", char |-> p.char, items |-> gstor_db]
                  k == [type |-> "authok", char |-> p.char, items |-> pack_db[p.char],
                        guild |-> p.char \in member]
                  v == [type |-> "saved", char |-> p.char]
                  w == [type |-> "withdraw", char |-> p.char]
                  r == [type |-> "retrieved", items |-> pack_db[p.char] \cap Bound]
      <4>1. m.type # "stored" /\ k.type # "stored" /\ v.type # "stored" /\ w.type # "stored"
            /\ r.type # "stored"
        OBVIOUS
      <4>2. \/ fromInter' = fromInter \/ fromInter' = Append(fromInter, m)
            \/ fromInter' = Append(fromInter, k) \/ fromInter' = Append(fromInter, v)
            \/ fromInter' = Append(fromInter, w) \/ fromInter' = Append(fromInter, r)
        BY <1>7 DEF InterHandles, LoadedPacket, ItemboundRetrieve
      <4>. HIDE DEF m, k, v, w, r
      <4>. QED BY <4>1, <4>2
    <3>2. CASE fromInter' = fromInter
      BY <3>2 DEF StorageInv, SequencesOK
    <3>3. CASE \E a : a.type # "stored" /\ fromInter' = Append(fromInter, a)
      BY <3>3, AnswersOK DEF StorageInv
    <3>. QED BY <3>1, <3>2, <3>3
  <2>3. UnusedSent'
    <3>. SUFFICES ASSUME gstor # NoStorage, ~Used, gstor.dirty, ~returned,
                         Saves(toInter') \/ Acks(fromInter')
                  PROVE  Last(toInter', gstor_db', gstor.items)
      BY <1>1 DEF UnusedSent, Used
    <3>1. Last(toInter, gstor_db, gstor.items)
      BY <1>3, <2>2 DEF StorageInv, UnusedSent
    <3>. QED BY <1>3, <1>7, <2>1, <3>1
  <2>. QED BY <1>4, <1>5, <2>2, <2>3 DEF StorageInv, SequencesOK
<1>. QED BY <1>6, <1>7

LEMMA NoneSent ==
  ASSUME toInter' = <<>>, fromInter' = <<>>
  PROVE  SequencesOK' /\ LinkOK' /\ UnusedSent'
<1>1. toInter' \in Seq({}) /\ fromInter' \in Seq({})
  OBVIOUS
<1>2. ~Saves(toInter') /\ ~Acks(fromInter')
  BY DEF Saves, Acks
<1>. QED BY <1>1, <1>2 DEF SequencesOK, LinkOK, UnusedSent

\* The final saves that are sent again are as many as there are players waited for.
QuittingOK == quitting \subseteq Player

LEMMA QuittingStep == QuittingOK /\ [StorageNext]_storageVars => QuittingOK'
<1>. SUFFICES ASSUME QuittingOK, [StorageNext]_storageVars PROVE QuittingOK'
  OBVIOUS
<1>1. CASE UNCHANGED storageVars
  BY <1>1 DEF storageVars, QuittingOK
<1>2. CASE StoragePlayer
  <2>1. ASSUME NEW c \in Player, StorageLogin(c) \/ RequestStorage(c) \/ StorageOpen(c)
                 \/ StorageClose(c) \/ StorageAutosave(c) \/ Expel(c)
        PROVE  UNCHANGED quitting
    BY <2>1 DEF StorageLogin, RequestStorage, StorageOpen, StorageClose, StorageAutosave, Expel,
                mapMemory
  <2>2. ASSUME NEW c \in Player, NEW i \in Item, StorageAdd(c, i) \/ StorageGet(c, i)
        PROVE  UNCHANGED quitting
    BY <2>2 DEF StorageAdd, StorageGet
  <2>3. ASSUME NEW c \in Player, Quit(c, TRUE) \/ Quit(c, FALSE)
        PROVE  quitting' = quitting \union {c}
    BY <2>3 DEF Quit
  <2>. QED BY <1>2, <2>1, <2>2, <2>3 DEF StoragePlayer, QuittingOK
<1>3. CASE MapHandles
  BY <1>3 DEF MapHandles, Authok, LoadGuildStorage, gstorage_storagesaved, CharSaved, Withdraw,
              Retrieved, QuittingOK
<1>4. CASE InterHandles \/ LinkLost \/ LinkUp
  BY <1>4 DEF InterHandles, LinkLost, LinkUp, mapMemory, QuittingOK
<1>. QED BY <1>1, <1>2, <1>3, <1>4 DEF StorageNext

LEMMA LinkUpInv == StorageInv /\ QuittingOK /\ LinkUp => StorageInv'
<1>. SUFFICES ASSUME StorageInv, QuittingOK, LinkUp PROVE StorageInv'
  OBVIOUS
<1>. DEFINE n == Cardinality(quitting)
            b == IF gstor # NoStorage /\ gstor.opened = Nobody THEN StoragePacket(gstor) ELSE <<>>
            char(c) == [type |-> "char", char |-> c, items |-> pack[c], final |-> TRUE]
<1>1. PICK order \in [1 .. n -> quitting] :
        toInter' = [k \in DOMAIN order |-> char(order[k])] \o b
  BY DEF LinkUp
<1>. DEFINE s == [k \in 1 .. n |-> char(order[k])]
            S == {s[k] : k \in 1 .. n}
<1>2. /\ linked' /\ fromInter' = <<>>
      /\ UNCHANGED <<gstor, storage_flag, active, guildsmen, gstor_db>>
      /\ returned' = IF gstor # NoStorage /\ gstor.opened = Nobody /\ gstor.dirty
                     THEN FALSE ELSE returned
  BY DEF LinkUp, StorageInv, LinkOK, tables
<1>3. n \in Nat
  BY StorageAssumption, FS_Subset, FS_CardinalityType DEF StorageAssumption, QuittingOK
<1>4. toInter' = s \o b
  BY <1>1
<1>5. \A k \in 1 .. n : s[k].type # "gstorage"
  OBVIOUS
<1>6. DOMAIN s = 1 .. n
  OBVIOUS
<1>7. s = [k \in 1 .. n |-> s[k]]
  OBVIOUS
<1>. HIDE DEF s
<1>8. s \in Seq(S)
  BY <1>3, <1>7
<1>9. ~Saves(s)
  BY <1>5, <1>6 DEF Saves
<1>10. LinkOK' /\ StorageOK' /\ WindowsOK' /\ (\E T : fromInter' \in Seq(T)) /\ ~Acks(fromInter')
  <2>1. fromInter' \in Seq({}) /\ ~Acks(fromInter')
    BY <1>2 DEF Acks
  <2>. QED BY <1>2, <2>1 DEF StorageInv, LinkOK, StorageOK, WindowsOK
<1>11. CASE gstor # NoStorage /\ gstor.opened = Nobody /\ gstor.dirty
  <2>. DEFINE g == <<[type |-> "gstorage", items |-> gstor.items]>>
  <2>1. b = g
    BY <1>11 DEF StoragePacket
  <2>2. Renews(g, gstor.items)
    BY SavesRenew
  <2>. HIDE DEF g, b, S
  <2>3. \E T : toInter' \in Seq(T)
    <3>1. PICK T : g \in Seq(T)
      BY <2>2 DEF Renews
    <3>2. s \in Seq(S \union T) /\ g \in Seq(S \union T)
      BY <1>8, <3>1
    <3>3. s \o g \in Seq(S \union T)
      BY <3>2
    <3>. QED BY <1>4, <2>1, <3>3
  <2>4. \A d : Last(toInter', d, gstor.items)
    BY <1>4, <1>8, <2>1, <2>2 DEF Renews
  <2>5. UnusedSent'
    BY <1>2, <2>4 DEF UnusedSent
  <2>. QED BY <1>10, <2>3, <2>5 DEF StorageInv, SequencesOK
<1>12. CASE ~(gstor # NoStorage /\ gstor.opened = Nobody /\ gstor.dirty)
  <2>1. b = <<>>
    BY <1>12 DEF StoragePacket
  <2>. HIDE DEF b, S
  <2>2. toInter' = s
    BY <1>4, <1>8, <2>1
  <2>3. UnusedSent'
    <3>1. ~Saves(toInter')
      BY <1>9, <2>2
    <3>. QED BY <1>10, <3>1 DEF UnusedSent
  <2>. QED BY <1>8, <1>10, <2>2, <2>3 DEF StorageInv, SequencesOK
<1>. QED BY <1>11, <1>12

LEMMA LinkLostInv == StorageInv /\ LinkLost => StorageInv'
<1>. SUFFICES ASSUME StorageInv, LinkLost PROVE StorageInv'
  OBVIOUS
<1>1. SequencesOK' /\ LinkOK' /\ UnusedSent'
  BY NoneSent DEF LinkLost
<1>. QED BY <1>1 DEF LinkLost, mapMemory, StorageInv, StorageOK, WindowsOK

-----------------------------------------------------------------------------
(* The invariant, and the property *)

LEMMA StorageInitInv == StorageInit => StorageInv /\ QuittingOK
<1>. SUFFICES ASSUME StorageInit PROVE StorageInv /\ QuittingOK
  OBVIOUS
<1>1. /\ gstor = NoStorage /\ storage_flag = {} /\ guildsmen = {} /\ quitting = {}
      /\ linked = TRUE /\ toInter = <<>> /\ fromInter = <<>>
  BY DEF StorageInit
<1>2. toInter \in Seq({}) /\ fromInter \in Seq({})
  BY <1>1
<1>. QED BY <1>1, <1>2
         DEF StorageInv, SequencesOK, LinkOK, StorageOK, WindowsOK, UnusedSent, QuittingOK

LEMMA StorageStepInv == StorageInv /\ QuittingOK /\ [StorageNext]_storageVars => StorageInv'
<1>. SUFFICES ASSUME StorageInv, QuittingOK, [StorageNext]_storageVars PROVE StorageInv'
  OBVIOUS
<1>1. CASE UNCHANGED storageVars
  BY <1>1 DEF storageVars, StorageInv, SequencesOK, LinkOK, StorageOK, WindowsOK, UnusedSent, Used,
              Saves, Acks, Last
<1>. QED BY <1>1, PlayerInv, MapHandlesInv, InterHandlesInv, LinkLostInv, LinkUpInv
         DEF StorageNext

\* Only an acknowledgement clears the mark.
LEMMA OnlyAcksClear ==
  ASSUME StorageOK, [StorageNext]_storageVars,
         gstor # NoStorage, gstor' # NoStorage, gstor.dirty, ~gstor'.dirty
  PROVE  gstor.opened = Nobody /\ fromInter # <<>> /\ Head(fromInter).type = "stored"
<1>. DEFINE closed == [gstor EXCEPT !.opened = Nobody]
            locked == [gstor EXCEPT !.locked = TRUE]
<1>1. IsStorage(gstor)
  BY DEF StorageOK
<1>2. closed.dirty /\ locked.dirty /\ [locked EXCEPT !.opened = Nobody].dirty
      /\ [gstor EXCEPT !.locked = FALSE].dirty
  <2>1. IsStorage(locked) /\ locked.dirty
    BY <1>1, FieldsOK
  <2>. HIDE DEF locked
  <2>. QED BY <1>1, <2>1, FieldsOK
<1>3. ASSUME StoragePlayer PROVE FALSE
  <2>1. PICK c \in Player :
          \/ StorageLogin(c) \/ RequestStorage(c) \/ StorageAutosave(c) \/ Expel(c)
          \/ StorageClose(c) \/ Quit(c, TRUE) \/ Quit(c, FALSE) \/ StorageOpen(c)
          \/ \E i \in Item : StorageAdd(c, i) \/ StorageGet(c, i)
    BY <1>3 DEF StoragePlayer
  <2>2. CASE StorageLogin(c) \/ RequestStorage(c) \/ StorageAutosave(c) \/ Expel(c)
    BY <2>2 DEF StorageLogin, RequestStorage, StorageAutosave, Expel, mapMemory
  <2>3. CASE StorageClose(c) \/ Quit(c, TRUE) \/ Quit(c, FALSE)
    <3>1. gstor' = gstor \/ gstor' = closed
      BY <2>3 DEF StorageClose, gstorage_storageclose, Quit
    <3>. QED BY <1>2, <3>1
  <2>4. CASE StorageOpen(c)
    <3>1. gstor' = [gstor EXCEPT !.opened = c]
      BY <2>4 DEF StorageOpen
    <3>. QED BY <1>1, <3>1, FieldsOK
  <2>5. ASSUME NEW i \in Item, StorageAdd(c, i) \/ StorageGet(c, i) PROVE FALSE
    <3>1. PICK items : gstor' = [gstor EXCEPT !.items = items, !.dirty = TRUE]
      BY <2>5 DEF StorageAdd, StorageGet
    <3>. DEFINE d == [gstor EXCEPT !.items = items]
    <3>2. IsStorage(d) /\ gstor' = [d EXCEPT !.dirty = TRUE]
      BY <1>1, <3>1, FieldsOK
    <3>. HIDE DEF d
    <3>. QED BY <3>2, FieldsOK
  <2>. QED BY <2>1, <2>2, <2>3, <2>4, <2>5
<1>4. ASSUME InterHandles \/ LinkLost \/ LinkUp \/ UNCHANGED storageVars PROVE FALSE
  <2>1. gstor' = gstor
    BY <1>4 DEF InterHandles, LinkLost, LinkUp, mapMemory, storageVars
  <2>. QED BY <2>1
<1>5. ASSUME NEW items, NEW b \in BOOLEAN, gstor' = [Ensured EXCEPT !.items = items, !.dirty = @ \/ b,
                                                       !.locked = FALSE, !.opened = Nobody]
             \/ gstor' = [[Ensured EXCEPT !.opened = Nobody] EXCEPT !.items = items, !.dirty = @ \/ b]
      PROVE  FALSE
  <2>1. Ensured = gstor
    BY DEF Ensured
  <2>2. gstor'.dirty
    BY <1>1, <1>5, <2>1 DEF IsStorage
  <2>. QED BY <2>2
<1>6. ASSUME MapHandles PROVE gstor.opened = Nobody /\ fromInter # <<>> /\ Head(fromInter).type = "stored"
  <2>. DEFINE p == Head(fromInter)
  <2>1. CASE Authok(p.char, p.items, p.guild) \/ CharSaved(p.char)
    BY <2>1 DEF Authok, CharSaved
  <2>2. CASE LoadGuildStorage(p.char, p.items)
    BY <2>2 DEF LoadGuildStorage
  <2>3. CASE p.type = "stored" /\ gstorage_storagesaved
    BY <1>6, <2>3 DEF gstorage_storagesaved, MapHandles
  <2>4. CASE Retrieved(p.items)
    <3>1. CASE p.items = {}
      BY <1>2, <2>4, <3>1 DEF Retrieved
    <3>2. CASE p.items # {}
      <4>. DEFINE kept == Kept(Ensured.items, p.items)
      <4>1. Ensured # NoStorage
        BY DEF Ensured
      <4>2. gstor' = [Ensured EXCEPT !.items = Ensured.items \union kept, !.dirty = @ \/ kept # {},
                                     !.locked = FALSE, !.opened = Nobody]
        BY <2>4, <3>2, <4>1 DEF Retrieved
      <4>3. PICK b \in BOOLEAN : b = (kept # {})
        OBVIOUS
      <4>. HIDE DEF kept
      <4>. QED BY <1>5, <4>2, <4>3
    <3>. QED BY <3>1, <3>2
  <2>5. CASE Withdraw(p.char)
    <3>1. CASE RetrieveOffline(p.char)
      <4>1. gstor' = locked \/ gstor' = [locked EXCEPT !.opened = Nobody]
        BY <3>1 DEF RetrieveOffline
      <4>. QED BY <1>2, <4>1
    <3>2. CASE RetrieveOnline(p.char)
      <4>1. CASE p.char \in guildsmen
        <5>. DEFINE kept == Kept(Ensured.items, pack[p.char] \cap Bound)
                    gs == [Ensured EXCEPT !.opened = Nobody]
        <5>1. gstor' = [gs EXCEPT !.items = gs.items \union kept, !.dirty = @ \/ kept # {}]
          BY <3>2, <4>1 DEF RetrieveOnline
        <5>2. PICK b \in BOOLEAN : b = (kept # {})
          OBVIOUS
        <5>3. PICK items : items = gs.items \union kept
          OBVIOUS
        <5>. HIDE DEF kept
        <5>. QED BY <1>5, <5>1, <5>2, <5>3
      <4>2. CASE p.char \notin guildsmen
        BY <3>2, <4>2 DEF RetrieveOnline
      <4>. QED BY <4>1, <4>2
    <3>3. CASE UNCHANGED gstor \/ gstorage_storageclose(p.char)
      <4>1. gstor' = gstor \/ gstor' = closed
        BY <3>3 DEF gstorage_storageclose
      <4>. QED BY <1>2, <4>1
    <3>. QED BY <2>5, <3>1, <3>2, <3>3 DEF Withdraw
  <2>. QED BY <1>6, <2>1, <2>2, <2>3, <2>4, <2>5 DEF MapHandles
<1>. QED BY <1>3, <1>4, <1>6 DEF StorageNext

\* The acknowledgement of a save never marks as saved what was not sent, but
\* for the items a retrieval brought (gstorage_storagesaved), for any number
\* of players and items and any number of packets under way.
THEOREM AcksClearSaved == StorageSpec => AckClearsSaved
<1>1. StorageInv /\ [StorageNext]_storageVars
        => [gstor # NoStorage /\ gstor' # NoStorage =>
              (gstor.dirty /\ ~gstor'.dirty => gstor.items = LastSent \/ returned)]_storageVars
  <2>. SUFFICES ASSUME StorageInv, [StorageNext]_storageVars,
                       gstor # NoStorage, gstor' # NoStorage, gstor.dirty, ~gstor'.dirty, ~returned
                PROVE  gstor.items = LastSent
    OBVIOUS
  <2>1. gstor.opened = Nobody /\ fromInter # <<>> /\ Head(fromInter).type = "stored"
    BY OnlyAcksClear DEF StorageInv
  <2>2. Acks(fromInter)
    <3>1. PICK S : fromInter \in Seq(S)
      BY DEF StorageInv, SequencesOK
    <3>2. 1 \in DOMAIN fromInter /\ Head(fromInter) = fromInter[1]
      BY <2>1, <3>1
    <3>. QED BY <2>1, <3>2 DEF Acks
  <2>3. Last(toInter, gstor_db, gstor.items)
    BY <2>1, <2>2 DEF StorageInv, UnusedSent, Used
  <2>. QED BY <2>3, LastIsLastSent DEF StorageInv
<1>. QED BY <1>1, StorageInitInv, StorageStepInv, QuittingStep, PTL DEF StorageSpec, AckClearsSaved

-----------------------------------------------------------------------------
(* Where an item is *)

\* The characters and the kinds of packets under way.
Who(s, t) == {s[k].char : k \in {j \in DOMAIN s : s[j].type = t}}
Has(s, t) == \E k \in DOMAIN s : s[k].type = t

InterOK(p) ==
  /\ p.type \in {"auth", "load", "retrieve", "expel"}
       => p = [type |-> p.type, char |-> p.char] /\ p.char \in Player
  /\ p.type = "gstorage" => p.items \subseteq Item
  /\ p.type = "char" => p.char \in Player /\ p.items \subseteq Item

MapOK(p) ==
  /\ p.type \in {"authok", "loaded", "saved", "withdraw"} => p.char \in Player
  /\ p.type \in {"authok", "loaded", "retrieved"} => p.items \subseteq Item

\* What is under way to the char-server, with the players A in the game, those
\* (Q) that quit, and the packs P: the final save of a character is its last
\* and has what it has; a login is asked for once, by one who is away; and a
\* storage is asked for only before it was ever saved.
Queue(s, A, Q, P) ==
  /\ \A k \in DOMAIN s : InterOK(s[k])
  /\ Who(s, "char") \subseteq A \union Q
  /\ \A k \in DOMAIN s : s[k].type = "char" /\ s[k].final =>
       /\ s[k].char \in Q /\ s[k].items = P[s[k].char]
       /\ \A j \in DOMAIN s : s[j].type = "char" /\ s[j].char = s[k].char => j <= k
  /\ \A k \in DOMAIN s : s[k].type = "auth" =>
       /\ s[k].char \notin A \union Q
       /\ \A j \in DOMAIN s : s[j].type = "auth" /\ s[j].char = s[k].char => j = k
  /\ \A j, k \in DOMAIN s : s[j].type = "load" /\ s[k].type = "gstorage" => j < k

\* What is under way to the map-server, with the table D of packs.
Replies(s, A, Q, P, D) ==
  /\ \A k \in DOMAIN s : MapOK(s[k])
  /\ \A k \in DOMAIN s : s[k].type = "saved" =>
       /\ s[k].char \in Q /\ D[s[k].char] \subseteq P[s[k].char]
       /\ \A j \in DOMAIN s : s[j].type = "saved" /\ s[j].char = s[k].char => j = k
  /\ \A k \in DOMAIN s : s[k].type = "authok" =>
       /\ s[k].char \notin A \union Q /\ D[s[k].char] \subseteq s[k].items
       /\ \A j \in DOMAIN s : s[j].type = "authok" /\ s[j].char = s[k].char => j = k
  /\ \A j, k \in DOMAIN s : s[j].type = "loaded" /\ s[k].type = "stored" => j < k

\* No answer is under way while its question is.
Apart(r, s) ==
  /\ Who(r, "saved") \cap Who(s, "char") = {}
  /\ Who(r, "authok") \cap Who(s, "auth") = {}
  /\ ~(Has(r, "stored") /\ Has(s, "load"))

LoadUnderWay == Has(toInter, "load") \/ Has(fromInter, "loaded")
SaveUnderWay == Has(toInter, "gstorage") \/ Has(fromInter, "stored")

\* A storage that may still be read from the table has not changed since, or
\* is marked as dirty.
LoadsOK ==
  /\ SaveUnderWay => gstor # NoStorage
  /\ SaveUnderWay /\ LoadUnderWay => gstor.dirty
  /\ gstor = NoStorage \/ ~gstor.dirty =>
       \A k \in DOMAIN fromInter : fromInter[k].type = "loaded" => fromInter[k].items \subseteq gstor_db

\* A login under way brings an item to a character.
Brings(s, c, i) ==
  \E k \in DOMAIN s : s[k].type = "authok" /\ s[k].char = c /\ i \in s[k].items

\* A character has an item in its pack, or may have it when it comes back.
Held(c, i) ==
  IF c \in active \union quitting THEN i \in pack[c]
  ELSE i \in pack_db[c] \/ Brings(fromInter, c, i)
Holders(i) == {c \in Player : Held(c, i)}

Ways(s, i) == {k \in DOMAIN s : s[k].type = "retrieved" /\ i \in s[k].items}

\* The storage has it, or may have it when it is read again.
InStorage(i) ==
  IF gstor = NoStorage THEN i \in gstor_db
  ELSE i \in gstor.items \/ (~gstor.dirty /\ LoadUnderWay /\ i \in gstor_db)

Single(S) == \A a, b \in S : a = b

One(i) ==
  /\ Single(Holders(i)) /\ Single(Ways(fromInter, i))
  /\ Holders(i) # {} => Ways(fromInter, i) = {} /\ ~InStorage(i)
  /\ Ways(fromInter, i) # {} => ~InStorage(i)

PacksOK ==
  /\ gstor \in guild_storage \union {NoStorage}
  /\ active \subseteq Player /\ quitting \subseteq Player /\ active \cap quitting = {}
  /\ pack \in [Player -> SUBSET Item] /\ pack_db \in [Player -> SUBSET Item]
  /\ gstor_db \subseteq Item

UnderWayOK ==
  /\ Queue(toInter, active, quitting, pack)
  /\ Replies(fromInter, active, quitting, pack, pack_db)
  /\ Apart(fromInter, toInter)

PlacesInv ==
  /\ PacksOK /\ UnderWayOK /\ LoadsOK
  /\ \A i \in Item \ raced : One(i)

-----------------------------------------------------------------------------
(* Queues that grow and shrink *)

LEMMA AppendAt ==
  ASSUME NEW S, NEW s \in Seq(S), NEW p
  PROVE  /\ Append(s, p) \in Seq(S \union {p})
         /\ DOMAIN Append(s, p) = DOMAIN s \union {Len(s) + 1}
         /\ \A k \in DOMAIN s : Append(s, p)[k] = s[k] /\ k < Len(s) + 1 /\ k \in Nat
         /\ Append(s, p)[Len(s) + 1] = p /\ Len(s) + 1 \in Nat
<1>1. s \in Seq(S \union {p}) /\ Len(s) \in Nat /\ DOMAIN s = 1 .. Len(s)
  OBVIOUS
<1>2. Append(s, p) \in Seq(S \union {p}) /\ Len(Append(s, p)) = Len(s) + 1
  BY <1>1
<1>3. DOMAIN Append(s, p) = 1 .. Len(s) + 1
  BY <1>2
<1>4. 1 .. Len(s) + 1 = 1 .. Len(s) \union {Len(s) + 1}
  BY <1>1
<1>5. \A k \in 1 .. Len(s) : Append(s, p)[k] = s[k]
  OBVIOUS
<1>6. Append(s, p)[Len(s) + 1] = p
  OBVIOUS
<1>. QED BY <1>1, <1>2, <1>3, <1>4, <1>5, <1>6

LEMMA TailAt ==
  ASSUME NEW S, NEW s \in Seq(S), s # <<>>
  PROVE  /\ Tail(s) \in Seq(S) /\ Head(s) = s[1] /\ 1 \in DOMAIN s
         /\ \A k \in DOMAIN Tail(s) : k + 1 \in DOMAIN s /\ Tail(s)[k] = s[k + 1] /\ k \in Nat \ {0}
         /\ \A k \in DOMAIN s : k \in Nat \ {0}
<1>1. /\ DOMAIN s = 1 .. Len(s) /\ DOMAIN Tail(s) = 1 .. Len(s) - 1 /\ Len(s) \in Nat \ {0}
      /\ \A k \in 1 .. Len(s) - 1 : Tail(s)[k] = s[k + 1]
      /\ Head(s) = s[1] /\ Tail(s) \in Seq(S)
  OBVIOUS
<1>. DEFINE t == Tail(s)
<1>. HIDE DEF t
<1>. QED BY <1>1 DEF t

LEMMA WhoAppend ==
  ASSUME NEW S, NEW s \in Seq(S), NEW p
  PROVE  /\ \A t : Who(Append(s, p), t) = Who(s, t) \union (IF p.type = t THEN {p.char} ELSE {})
         /\ \A t : Has(Append(s, p), t) <=> Has(s, t) \/ p.type = t
<1>. DEFINE a == Append(s, p)
            n == Len(s) + 1
<1>1. DOMAIN a = DOMAIN s \union {n} /\ a[n] = p /\ \A k \in DOMAIN s : a[k] = s[k] /\ k # n
  BY AppendAt
<1>. HIDE DEF a, n
<1>2. \A t : Has(a, t) <=> Has(s, t) \/ p.type = t
  BY <1>1 DEF Has
<1>3. ASSUME NEW t PROVE Who(a, t) = Who(s, t) \union (IF p.type = t THEN {p.char} ELSE {})
  <2>1. ASSUME NEW c \in Who(a, t) PROVE c \in Who(s, t) \/ (p.type = t /\ c = p.char)
    BY <1>1 DEF Who
  <2>2. ASSUME NEW c \in Who(s, t) PROVE c \in Who(a, t)
    BY <1>1 DEF Who
  <2>3. p.type = t => p.char \in Who(a, t)
    BY <1>1 DEF Who
  <2>. QED BY <2>1, <2>2, <2>3
<1>. QED BY <1>2, <1>3 DEF a

LEMMA WhoIs ==
  ASSUME NEW s, NEW t, NEW c
  PROVE  c \in Who(s, t) <=> \E k \in DOMAIN s : s[k].type = t /\ s[k].char = c
  BY DEF Who

LEMMA WhoTail ==
  ASSUME NEW S, NEW s \in Seq(S), s # <<>>
  PROVE  /\ \A t : Who(Tail(s), t) \subseteq Who(s, t)
         /\ \A t : Has(Tail(s), t) => Has(s, t)
         /\ Head(s).char \in Who(s, Head(s).type) /\ Has(s, Head(s).type)
<1>. DEFINE r == Tail(s)
            h == Head(s)
<1>1. /\ h = s[1] /\ 1 \in DOMAIN s
      /\ \A k \in DOMAIN r : k + 1 \in DOMAIN s /\ r[k] = s[k + 1]
  BY TailAt
<1>. HIDE DEF r, h
<1>2. \A t : Who(r, t) \subseteq Who(s, t)
  BY <1>1 DEF Who
<1>3. \A t : Has(r, t) => Has(s, t)
  BY <1>1 DEF Has
<1>4. h.char \in Who(s, h.type) /\ Has(s, h.type)
  BY <1>1 DEF Who, Has
<1>. QED BY <1>2, <1>3, <1>4 DEF r, h

-----------------------------------------------------------------------------
(* Queues *)

FinalOf(s, c) == \E k \in DOMAIN s : s[k].type = "char" /\ s[k].final /\ s[k].char = c

LEMMA QueueAppend ==
  ASSUME NEW S, NEW s \in Seq(S), NEW A, NEW Q, NEW P, Queue(s, A, Q, P), NEW p, InterOK(p),
         p.type = "char" => /\ p.char \in A \union Q /\ ~FinalOf(s, p.char)
                            /\ p.final => p.char \in Q /\ p.items = P[p.char],
         p.type = "auth" => p.char \notin A \union Q /\ p.char \notin Who(s, "auth"),
         p.type = "load" => ~Has(s, "gstorage")
  PROVE  /\ Queue(Append(s, p), A, Q, P)
         /\ \A c : FinalOf(Append(s, p), c) => FinalOf(s, c) \/ (p.type = "char" /\ p.final /\ p.char = c)
<1>. DEFINE a == Append(s, p)
            n == Len(s) + 1
<1>1. /\ DOMAIN a = DOMAIN s \union {n} /\ a[n] = p /\ n \in Nat
      /\ \A k \in DOMAIN s : a[k] = s[k] /\ k # n /\ k < n /\ k <= n /\ k \in Nat
  BY AppendAt
<1>. HIDE DEF a, n
<1>2. \A k \in DOMAIN a : InterOK(a[k])
  BY <1>1 DEF Queue
<1>3. Who(a, "char") \subseteq A \union Q
  BY <1>1 DEF Queue, Who
<1>4. ASSUME NEW k \in DOMAIN a, a[k].type = "char", a[k].final
      PROVE  /\ a[k].char \in Q /\ a[k].items = P[a[k].char]
             /\ \A j \in DOMAIN a : a[j].type = "char" /\ a[j].char = a[k].char => j <= k
  <2>1. CASE k = n
    BY <1>1, <1>4, <2>1
  <2>2. CASE k \in DOMAIN s
    <3>1. a[k] = s[k]
      BY <1>1, <2>2
    <3>2. s[k].char \in Q /\ s[k].items = P[s[k].char]
      BY <1>4, <2>2, <3>1 DEF Queue
    <3>3. \A j \in DOMAIN s : s[j].type = "char" /\ s[j].char = s[k].char => j <= k
      BY <1>4, <2>2, <3>1 DEF Queue
    <3>4. ~(p.type = "char" /\ p.char = s[k].char)
      BY <1>4, <2>2, <3>1 DEF FinalOf
    <3>5. ASSUME NEW j \in DOMAIN a, a[j].type = "char", a[j].char = a[k].char PROVE j <= k
      BY <1>1, <3>1, <3>3, <3>4, <3>5
    <3>. QED BY <3>1, <3>2, <3>5
  <2>. QED BY <1>1, <2>1, <2>2
<1>5. ASSUME NEW k \in DOMAIN a, a[k].type = "auth"
      PROVE  /\ a[k].char \notin A \union Q
             /\ \A j \in DOMAIN a : a[j].type = "auth" /\ a[j].char = a[k].char => j = k
  <2>1. CASE k = n
    <3>1. \A j \in DOMAIN s : ~(s[j].type = "auth" /\ s[j].char = p.char)
      BY <1>1, <1>5, <2>1 DEF Who
    <3>. QED BY <1>1, <1>5, <2>1, <3>1
  <2>2. CASE k \in DOMAIN s
    <3>1. a[k] = s[k]
      BY <1>1, <2>2
    <3>2. s[k].char \notin A \union Q /\ \A j \in DOMAIN s : s[j].type = "auth" /\ s[j].char = s[k].char => j = k
      BY <1>5, <2>2, <3>1 DEF Queue
    <3>3. ~(p.type = "auth" /\ p.char = s[k].char)
      BY <1>5, <2>2, <3>1 DEF Who
    <3>. QED BY <1>1, <3>1, <3>2, <3>3
  <2>. QED BY <1>1, <2>1, <2>2
<1>6. ASSUME NEW j \in DOMAIN a, NEW k \in DOMAIN a, a[j].type = "load", a[k].type = "gstorage"
      PROVE  j < k
  <2>1. p.type = "load" => p.type # "gstorage"
    OBVIOUS
  <2>2. CASE j = n
    BY <1>1, <1>6, <2>1, <2>2 DEF Has
  <2>3. CASE j \in DOMAIN s /\ k = n
    BY <1>1, <2>3
  <2>4. CASE j \in DOMAIN s /\ k \in DOMAIN s
    BY <1>1, <1>6, <2>4 DEF Queue
  <2>. QED BY <1>1, <2>2, <2>3, <2>4
<1>7. Queue(a, A, Q, P)
  BY <1>2, <1>3, <1>4, <1>5, <1>6 DEF Queue
<1>8. \A c : FinalOf(a, c) => FinalOf(s, c) \/ (p.type = "char" /\ p.final /\ p.char = c)
  BY <1>1 DEF FinalOf
<1>. QED BY <1>7, <1>8 DEF a

LEMMA QueueTail ==
  ASSUME NEW S, NEW s \in Seq(S), s # <<>>, NEW A, NEW Q, NEW P, Queue(s, A, Q, P), NEW h, h = Head(s)
  PROVE  /\ Queue(Tail(s), A, Q, P) /\ InterOK(h)
         /\ h.type = "char" => h.char \in A \union Q
         /\ h.type = "char" /\ h.final
              => h.char \in Q /\ h.items = P[h.char] /\ h.char \notin Who(Tail(s), "char")
         /\ h.type = "auth" => h.char \notin A \union Q /\ h.char \notin Who(Tail(s), "auth")
         /\ h.type = "gstorage" => ~Has(Tail(s), "load")
<1>. DEFINE r == Tail(s)
<1>1. /\ h = s[1] /\ 1 \in DOMAIN s
      /\ \A k \in DOMAIN r : k + 1 \in DOMAIN s /\ r[k] = s[k + 1] /\ k \in Nat \ {0}
  BY TailAt
<1>. HIDE DEF r
<1>2. \A k \in DOMAIN r : InterOK(r[k])
  BY <1>1 DEF Queue
<1>3. Who(r, "char") \subseteq A \union Q
  BY <1>1 DEF Queue, Who
<1>4. ASSUME NEW k \in DOMAIN r, r[k].type = "char", r[k].final
      PROVE  /\ r[k].char \in Q /\ r[k].items = P[r[k].char]
             /\ \A j \in DOMAIN r : r[j].type = "char" /\ r[j].char = r[k].char => j <= k
  <2>1. k + 1 \in DOMAIN s /\ r[k] = s[k + 1] /\ k \in Nat
    BY <1>1
  <2>2. s[k + 1].char \in Q /\ s[k + 1].items = P[s[k + 1].char]
    BY <1>4, <2>1 DEF Queue
  <2>3. \A j \in DOMAIN s : s[j].type = "char" /\ s[j].char = s[k + 1].char => j <= k + 1
    BY <1>4, <2>1 DEF Queue
  <2>4. ASSUME NEW j \in DOMAIN r, r[j].type = "char", r[j].char = r[k].char PROVE j <= k
    <3>1. j + 1 <= k + 1 /\ j \in Nat
      BY <1>1, <2>1, <2>3, <2>4
    <3>. QED BY <2>1, <3>1
  <2>. QED BY <2>1, <2>2, <2>4
<1>5. ASSUME NEW k \in DOMAIN r, r[k].type = "auth"
      PROVE  /\ r[k].char \notin A \union Q
             /\ \A j \in DOMAIN r : r[j].type = "auth" /\ r[j].char = r[k].char => j = k
  <2>1. k + 1 \in DOMAIN s /\ r[k] = s[k + 1] /\ k \in Nat
    BY <1>1
  <2>2. s[k + 1].char \notin A \union Q
    BY <1>5, <2>1 DEF Queue
  <2>3. \A j \in DOMAIN s : s[j].type = "auth" /\ s[j].char = s[k + 1].char => j = k + 1
    BY <1>5, <2>1 DEF Queue
  <2>4. ASSUME NEW j \in DOMAIN r, r[j].type = "auth", r[j].char = r[k].char PROVE j = k
    <3>1. j + 1 = k + 1 /\ j \in Nat
      BY <1>1, <2>1, <2>3, <2>4
    <3>. QED BY <2>1, <3>1
  <2>. QED BY <2>1, <2>2, <2>4
<1>6. ASSUME NEW j \in DOMAIN r, NEW k \in DOMAIN r, r[j].type = "load", r[k].type = "gstorage"
      PROVE  j < k
  <2>1. j + 1 \in DOMAIN s /\ k + 1 \in DOMAIN s /\ r[j] = s[j + 1] /\ r[k] = s[k + 1] /\ j \in Nat /\ k \in Nat
    BY <1>1
  <2>2. j + 1 < k + 1
    BY <1>6, <2>1 DEF Queue
  <2>. QED BY <2>1, <2>2
<1>7. Queue(r, A, Q, P)
  BY <1>2, <1>3, <1>4, <1>5, <1>6 DEF Queue
<1>8. InterOK(h) /\ (h.type = "char" => h.char \in A \union Q)
  BY <1>1 DEF Queue, Who
<1>9. h.type = "char" /\ h.final
        => h.char \in Q /\ h.items = P[h.char] /\ h.char \notin Who(r, "char")
  <2>. SUFFICES ASSUME h.type = "char", h.final
                PROVE  h.char \in Q /\ h.items = P[h.char] /\ h.char \notin Who(r, "char")
    OBVIOUS
  <2>1. h.char \in Q /\ h.items = P[h.char]
    BY <1>1 DEF Queue
  <2>2. \A j \in DOMAIN s : s[j].type = "char" /\ s[j].char = h.char => j <= 1
    BY <1>1 DEF Queue
  <2>3. ASSUME NEW k \in DOMAIN r, r[k].type = "char", r[k].char = h.char PROVE FALSE
    <3>1. k + 1 <= 1 /\ k \in Nat \ {0}
      BY <1>1, <2>2, <2>3
    <3>. QED BY <3>1
  <2>. QED BY <2>1, <2>3, WhoIs
<1>10. h.type = "auth" => h.char \notin A \union Q /\ h.char \notin Who(r, "auth")
  <2>. SUFFICES ASSUME h.type = "auth"
                PROVE  h.char \notin A \union Q /\ h.char \notin Who(r, "auth")
    OBVIOUS
  <2>1. h.char \notin A \union Q
    BY <1>1 DEF Queue
  <2>2. \A j \in DOMAIN s : s[j].type = "auth" /\ s[j].char = h.char => j = 1
    BY <1>1 DEF Queue
  <2>3. ASSUME NEW k \in DOMAIN r, r[k].type = "auth", r[k].char = h.char PROVE FALSE
    <3>1. k + 1 = 1 /\ k \in Nat \ {0}
      BY <1>1, <2>2, <2>3
    <3>. QED BY <3>1
  <2>. QED BY <2>1, <2>3, WhoIs
<1>11. h.type = "gstorage" => ~Has(r, "load")
  <2>. SUFFICES ASSUME h.type = "gstorage", NEW k \in DOMAIN r, r[k].type = "load" PROVE FALSE
    BY DEF Has
  <2>1. k + 1 < 1 /\ k \in Nat
    BY <1>1 DEF Queue
  <2>. QED BY <2>1
<1>. QED BY <1>7, <1>8, <1>9, <1>10, <1>11 DEF r

\* The players come and go, their packs change.
LEMMA QueueMoves ==
  ASSUME NEW s, NEW A, NEW Q, NEW P, Queue(s, A, Q, P), NEW A2, NEW Q2, NEW P2,
         \A c \in Who(s, "char") : c \in A2 \union Q2 /\ (c \in Q => c \in Q2 /\ P2[c] = P[c]),
         \A c \in Who(s, "auth") : c \notin A2 \union Q2
  PROVE  Queue(s, A2, Q2, P2)
<1>1. Who(s, "char") \subseteq A2 \union Q2
  OBVIOUS
<1>2. ASSUME NEW k \in DOMAIN s, s[k].type = "char", s[k].final
      PROVE  /\ s[k].char \in Q2 /\ s[k].items = P2[s[k].char]
             /\ \A j \in DOMAIN s : s[j].type = "char" /\ s[j].char = s[k].char => j <= k
  <2>1. s[k].char \in Who(s, "char")
    BY <1>2, WhoIs
  <2>. QED BY <1>2, <2>1 DEF Queue
<1>3. ASSUME NEW k \in DOMAIN s, s[k].type = "auth"
      PROVE  /\ s[k].char \notin A2 \union Q2
             /\ \A j \in DOMAIN s : s[j].type = "auth" /\ s[j].char = s[k].char => j = k
  <2>1. s[k].char \in Who(s, "auth")
    BY <1>3, WhoIs
  <2>. QED BY <1>3, <2>1 DEF Queue
<1>. QED BY <1>1, <1>2, <1>3 DEF Queue

LEMMA EmptyQueue == \A A, Q, P : Queue(<<>>, A, Q, P)
<1>1. DOMAIN <<>> = {}
  OBVIOUS
<1>. QED BY <1>1 DEF Queue, Who

LEMMA RepliesAppend ==
  ASSUME NEW S, NEW s \in Seq(S), NEW A, NEW Q, NEW P, NEW D, Replies(s, A, Q, P, D),
         NEW p, MapOK(p),
         p.type = "saved" => p.char \in Q /\ D[p.char] \subseteq P[p.char] /\ p.char \notin Who(s, "saved"),
         p.type = "authok" => /\ p.char \notin A \union Q /\ D[p.char] \subseteq p.items
                              /\ p.char \notin Who(s, "authok"),
         p.type = "loaded" => ~Has(s, "stored")
  PROVE  Replies(Append(s, p), A, Q, P, D)
<1>. DEFINE a == Append(s, p)
            n == Len(s) + 1
<1>1. /\ DOMAIN a = DOMAIN s \union {n} /\ a[n] = p
      /\ \A k \in DOMAIN s : a[k] = s[k] /\ k # n /\ k < n
  BY AppendAt
<1>. HIDE DEF a, n
<1>2. \A k \in DOMAIN a : MapOK(a[k])
  BY <1>1 DEF Replies
<1>3. ASSUME NEW k \in DOMAIN a, a[k].type = "saved"
      PROVE  /\ a[k].char \in Q /\ D[a[k].char] \subseteq P[a[k].char]
             /\ \A j \in DOMAIN a : a[j].type = "saved" /\ a[j].char = a[k].char => j = k
  <2>1. CASE k = n
    <3>1. \A j \in DOMAIN s : ~(s[j].type = "saved" /\ s[j].char = p.char)
      BY <1>1, <1>3, <2>1, WhoIs
    <3>. QED BY <1>1, <1>3, <2>1, <3>1
  <2>2. CASE k \in DOMAIN s
    <3>1. a[k] = s[k]
      BY <1>1, <2>2
    <3>2. /\ s[k].char \in Q /\ D[s[k].char] \subseteq P[s[k].char]
          /\ \A j \in DOMAIN s : s[j].type = "saved" /\ s[j].char = s[k].char => j = k
      BY <1>3, <2>2, <3>1 DEF Replies
    <3>3. ~(p.type = "saved" /\ p.char = s[k].char)
      BY <1>3, <2>2, <3>1, WhoIs
    <3>. QED BY <1>1, <3>1, <3>2, <3>3
  <2>. QED BY <1>1, <2>1, <2>2
<1>4. ASSUME NEW k \in DOMAIN a, a[k].type = "authok"
      PROVE  /\ a[k].char \notin A \union Q /\ D[a[k].char] \subseteq a[k].items
             /\ \A j \in DOMAIN a : a[j].type = "authok" /\ a[j].char = a[k].char => j = k
  <2>1. CASE k = n
    <3>1. \A j \in DOMAIN s : ~(s[j].type = "authok" /\ s[j].char = p.char)
      BY <1>1, <1>4, <2>1, WhoIs
    <3>. QED BY <1>1, <1>4, <2>1, <3>1
  <2>2. CASE k \in DOMAIN s
    <3>1. a[k] = s[k]
      BY <1>1, <2>2
    <3>2. /\ s[k].char \notin A \union Q /\ D[s[k].char] \subseteq s[k].items
          /\ \A j \in DOMAIN s : s[j].type = "authok" /\ s[j].char = s[k].char => j = k
      BY <1>4, <2>2, <3>1 DEF Replies
    <3>3. ~(p.type = "authok" /\ p.char = s[k].char)
      BY <1>4, <2>2, <3>1, WhoIs
    <3>. QED BY <1>1, <3>1, <3>2, <3>3
  <2>. QED BY <1>1, <2>1, <2>2
<1>5. ASSUME NEW j \in DOMAIN a, NEW k \in DOMAIN a, a[j].type = "loaded", a[k].type = "stored"
      PROVE  j < k
  <2>1. CASE j = n
    BY <1>1, <1>5, <2>1 DEF Has
  <2>2. CASE j \in DOMAIN s /\ k = n
    BY <1>1, <2>2
  <2>3. CASE j \in DOMAIN s /\ k \in DOMAIN s
    BY <1>1, <1>5, <2>3 DEF Replies
  <2>. QED BY <1>1, <2>1, <2>2, <2>3
<1>6. Replies(a, A, Q, P, D)
  BY <1>2, <1>3, <1>4, <1>5 DEF Replies
<1>. QED BY <1>6 DEF a

LEMMA RepliesTail ==
  ASSUME NEW S, NEW s \in Seq(S), s # <<>>, NEW A, NEW Q, NEW P, NEW D, Replies(s, A, Q, P, D),
         NEW h, h = Head(s)
  PROVE  /\ Replies(Tail(s), A, Q, P, D) /\ MapOK(h)
         /\ h.type = "saved" =>
              /\ h.char \in Q /\ D[h.char] \subseteq P[h.char] /\ h.char \notin Who(Tail(s), "saved")
         /\ h.type = "authok" =>
              /\ h.char \notin A \union Q /\ D[h.char] \subseteq h.items
              /\ h.char \notin Who(Tail(s), "authok")
         /\ h.type = "stored" => ~Has(Tail(s), "loaded")
<1>. DEFINE r == Tail(s)
<1>1. /\ h = s[1] /\ 1 \in DOMAIN s
      /\ \A k \in DOMAIN r : k + 1 \in DOMAIN s /\ r[k] = s[k + 1] /\ k \in Nat \ {0}
  BY TailAt
<1>. HIDE DEF r
<1>2. \A k \in DOMAIN r : MapOK(r[k])
  BY <1>1 DEF Replies
<1>3. ASSUME NEW k \in DOMAIN r, r[k].type = "saved"
      PROVE  /\ r[k].char \in Q /\ D[r[k].char] \subseteq P[r[k].char]
             /\ \A j \in DOMAIN r : r[j].type = "saved" /\ r[j].char = r[k].char => j = k
  <2>1. k + 1 \in DOMAIN s /\ r[k] = s[k + 1] /\ k \in Nat
    BY <1>1
  <2>2. s[k + 1].char \in Q /\ D[s[k + 1].char] \subseteq P[s[k + 1].char]
    BY <1>3, <2>1 DEF Replies
  <2>3. \A j \in DOMAIN s : s[j].type = "saved" /\ s[j].char = s[k + 1].char => j = k + 1
    BY <1>3, <2>1 DEF Replies
  <2>4. ASSUME NEW j \in DOMAIN r, r[j].type = "saved", r[j].char = r[k].char PROVE j = k
    <3>1. j + 1 = k + 1 /\ j \in Nat
      BY <1>1, <2>1, <2>3, <2>4
    <3>. QED BY <2>1, <3>1
  <2>. QED BY <2>1, <2>2, <2>4
<1>4. ASSUME NEW k \in DOMAIN r, r[k].type = "authok"
      PROVE  /\ r[k].char \notin A \union Q /\ D[r[k].char] \subseteq r[k].items
             /\ \A j \in DOMAIN r : r[j].type = "authok" /\ r[j].char = r[k].char => j = k
  <2>1. k + 1 \in DOMAIN s /\ r[k] = s[k + 1] /\ k \in Nat
    BY <1>1
  <2>2. s[k + 1].char \notin A \union Q /\ D[s[k + 1].char] \subseteq s[k + 1].items
    BY <1>4, <2>1 DEF Replies
  <2>3. \A j \in DOMAIN s : s[j].type = "authok" /\ s[j].char = s[k + 1].char => j = k + 1
    BY <1>4, <2>1 DEF Replies
  <2>4. ASSUME NEW j \in DOMAIN r, r[j].type = "authok", r[j].char = r[k].char PROVE j = k
    <3>1. j + 1 = k + 1 /\ j \in Nat
      BY <1>1, <2>1, <2>3, <2>4
    <3>. QED BY <2>1, <3>1
  <2>. QED BY <2>1, <2>2, <2>4
<1>5. ASSUME NEW j \in DOMAIN r, NEW k \in DOMAIN r, r[j].type = "loaded", r[k].type = "stored"
      PROVE  j < k
  <2>1. j + 1 \in DOMAIN s /\ k + 1 \in DOMAIN s /\ r[j] = s[j + 1] /\ r[k] = s[k + 1] /\ j \in Nat /\ k \in Nat
    BY <1>1
  <2>2. j + 1 < k + 1
    BY <1>5, <2>1 DEF Replies
  <2>. QED BY <2>1, <2>2
<1>6. Replies(r, A, Q, P, D)
  BY <1>2, <1>3, <1>4, <1>5 DEF Replies
<1>7. MapOK(h)
  BY <1>1 DEF Replies
<1>8. h.type = "saved" => /\ h.char \in Q /\ D[h.char] \subseteq P[h.char] /\ h.char \notin Who(r, "saved")
  <2>. SUFFICES ASSUME h.type = "saved"
                PROVE  h.char \in Q /\ D[h.char] \subseteq P[h.char] /\ h.char \notin Who(r, "saved")
    OBVIOUS
  <2>1. h.char \in Q /\ D[h.char] \subseteq P[h.char]
    BY <1>1 DEF Replies
  <2>2. \A j \in DOMAIN s : s[j].type = "saved" /\ s[j].char = h.char => j = 1
    BY <1>1 DEF Replies
  <2>3. ASSUME NEW k \in DOMAIN r, r[k].type = "saved", r[k].char = h.char PROVE FALSE
    <3>1. k + 1 = 1 /\ k \in Nat \ {0}
      BY <1>1, <2>2, <2>3
    <3>. QED BY <3>1
  <2>. QED BY <2>1, <2>3, WhoIs
<1>9. h.type = "authok" => /\ h.char \notin A \union Q /\ D[h.char] \subseteq h.items
                           /\ h.char \notin Who(r, "authok")
  <2>. SUFFICES ASSUME h.type = "authok"
                PROVE  h.char \notin A \union Q /\ D[h.char] \subseteq h.items /\ h.char \notin Who(r, "authok")
    OBVIOUS
  <2>1. h.char \notin A \union Q /\ D[h.char] \subseteq h.items
    BY <1>1 DEF Replies
  <2>2. \A j \in DOMAIN s : s[j].type = "authok" /\ s[j].char = h.char => j = 1
    BY <1>1 DEF Replies
  <2>3. ASSUME NEW k \in DOMAIN r, r[k].type = "authok", r[k].char = h.char PROVE FALSE
    <3>1. k + 1 = 1 /\ k \in Nat \ {0}
      BY <1>1, <2>2, <2>3
    <3>. QED BY <3>1
  <2>. QED BY <2>1, <2>3, WhoIs
<1>10. h.type = "stored" => ~Has(r, "loaded")
  <2>. SUFFICES ASSUME h.type = "stored", NEW k \in DOMAIN r, r[k].type = "loaded" PROVE FALSE
    BY DEF Has
  <2>1. k + 1 < 1 /\ k \in Nat
    BY <1>1 DEF Replies
  <2>. QED BY <2>1
<1>. QED BY <1>6, <1>7, <1>8, <1>9, <1>10 DEF r

LEMMA RepliesMove ==
  ASSUME NEW s, NEW A, NEW Q, NEW P, NEW D, Replies(s, A, Q, P, D),
         NEW A2, NEW Q2, NEW P2, NEW D2,
         \A c \in Who(s, "saved") : c \in Q2 /\ D2[c] \subseteq P2[c],
         \A c \in Who(s, "authok") : c \notin A2 \union Q2 /\ D2[c] \subseteq D[c]
  PROVE  Replies(s, A2, Q2, P2, D2)
<1>1. ASSUME NEW k \in DOMAIN s, s[k].type = "saved"
      PROVE  /\ s[k].char \in Q2 /\ D2[s[k].char] \subseteq P2[s[k].char]
             /\ \A j \in DOMAIN s : s[j].type = "saved" /\ s[j].char = s[k].char => j = k
  <2>1. s[k].char \in Who(s, "saved")
    BY <1>1, WhoIs
  <2>. QED BY <1>1, <2>1 DEF Replies
<1>2. ASSUME NEW k \in DOMAIN s, s[k].type = "authok"
      PROVE  /\ s[k].char \notin A2 \union Q2 /\ D2[s[k].char] \subseteq s[k].items
             /\ \A j \in DOMAIN s : s[j].type = "authok" /\ s[j].char = s[k].char => j = k
  <2>1. s[k].char \in Who(s, "authok")
    BY <1>2, WhoIs
  <2>. QED BY <1>2, <2>1 DEF Replies
<1>. QED BY <1>1, <1>2 DEF Replies

LEMMA NoReplies == \A A, Q, P, D : Replies(<<>>, A, Q, P, D)
<1>1. DOMAIN <<>> = {}
  OBVIOUS
<1>. QED BY <1>1 DEF Replies

LEMMA NoneUnderWay == \A t : Who(<<>>, t) = {} /\ ~Has(<<>>, t)
<1>1. DOMAIN <<>> = {}
  OBVIOUS
<1>. QED BY <1>1 DEF Who, Has

-----------------------------------------------------------------------------
(* Items under way to the storage *)

LEMMA WaysAppend ==
  ASSUME NEW S, NEW s \in Seq(S), NEW p, NEW i
  PROVE  /\ ~(p.type = "retrieved" /\ i \in p.items) => Ways(Append(s, p), i) = Ways(s, i)
         /\ Ways(s, i) = {} => Single(Ways(Append(s, p), i))
<1>. DEFINE a == Append(s, p)
            n == Len(s) + 1
<1>1. /\ DOMAIN a = DOMAIN s \union {n} /\ a[n] = p
      /\ \A k \in DOMAIN s : a[k] = s[k] /\ k # n
  BY AppendAt
<1>. HIDE DEF a, n
<1>2. \A k : k \in Ways(a, i) => k \in Ways(s, i) \/ k = n
  BY <1>1 DEF Ways
<1>3. \A k : k \in Ways(s, i) => k \in Ways(a, i)
  BY <1>1 DEF Ways
<1>4. n \in Ways(a, i) => p.type = "retrieved" /\ i \in p.items
  BY <1>1 DEF Ways
<1>5. ~(p.type = "retrieved" /\ i \in p.items) => Ways(a, i) = Ways(s, i)
  BY <1>2, <1>3, <1>4
<1>6. Ways(s, i) = {} => Single(Ways(a, i))
  BY <1>2 DEF Single
<1>. QED BY <1>5, <1>6 DEF a

LEMMA WaysTail ==
  ASSUME NEW S, NEW s \in Seq(S), s # <<>>, NEW i
  PROVE  /\ Ways(s, i) = {} => Ways(Tail(s), i) = {}
         /\ Single(Ways(s, i)) => Single(Ways(Tail(s), i))
         /\ Head(s).type = "retrieved" /\ i \in Head(s).items =>
              Ways(s, i) # {} /\ (Single(Ways(s, i)) => Ways(Tail(s), i) = {})
<1>. DEFINE r == Tail(s)
            h == Head(s)
<1>1. /\ h = s[1] /\ 1 \in DOMAIN s
      /\ \A k \in DOMAIN r : k + 1 \in DOMAIN s /\ r[k] = s[k + 1] /\ k \in Nat \ {0}
  BY TailAt
<1>. HIDE DEF r, h
<1>2. \A k \in Ways(r, i) : k + 1 \in Ways(s, i) /\ k \in Nat \ {0}
  BY <1>1 DEF Ways
<1>3. Ways(s, i) = {} => Ways(r, i) = {}
  BY <1>2
<1>4. Single(Ways(s, i)) => Single(Ways(r, i))
  <2>. SUFFICES ASSUME Single(Ways(s, i)), NEW a \in Ways(r, i), NEW b \in Ways(r, i) PROVE a = b
    BY DEF Single
  <2>1. a + 1 = b + 1 /\ a \in Nat /\ b \in Nat
    BY <1>2 DEF Single
  <2>. QED BY <2>1
<1>5. ASSUME h.type = "retrieved", i \in h.items
      PROVE  Ways(s, i) # {} /\ (Single(Ways(s, i)) => Ways(r, i) = {})
  <2>1. 1 \in Ways(s, i)
    BY <1>1, <1>5 DEF Ways
  <2>2. ASSUME Single(Ways(s, i)), NEW k \in Ways(r, i) PROVE FALSE
    <3>1. k + 1 = 1 /\ k \in Nat \ {0}
      BY <1>2, <2>1, <2>2 DEF Single
    <3>. QED BY <3>1
  <2>. QED BY <2>1, <2>2
<1>. QED BY <1>3, <1>4, <1>5 DEF r, h

-----------------------------------------------------------------------------
(* What is left of the packets to the map-server when one has been read *)

LoadedOf(s, D) == \A k \in DOMAIN s : s[k].type = "loaded" => s[k].items \subseteq D

Fewer(r, s) ==
  /\ \A t : Who(r, t) \subseteq Who(s, t) /\ (Has(r, t) => Has(s, t))
  /\ \A c, i : Brings(r, c, i) => Brings(s, c, i)
  /\ \A i : /\ Ways(s, i) = {} => Ways(r, i) = {}
            /\ Single(Ways(s, i)) => Single(Ways(r, i))
  /\ \A D : LoadedOf(s, D) => LoadedOf(r, D)

LEMMA FewerSame == \A s : Fewer(s, s)
  BY DEF Fewer

LEMMA BringsTail ==
  ASSUME NEW S, NEW s \in Seq(S), s # <<>>
  PROVE  /\ \A c, i : Brings(Tail(s), c, i) => Brings(s, c, i)
         /\ \A D : LoadedOf(s, D) => LoadedOf(Tail(s), D)
         /\ \A i : Head(s).type = "authok" /\ i \in Head(s).items => Brings(s, Head(s).char, i)
         /\ \A D : Head(s).type = "loaded" /\ LoadedOf(s, D) => Head(s).items \subseteq D
<1>. DEFINE r == Tail(s)
            h == Head(s)
<1>1. /\ h = s[1] /\ 1 \in DOMAIN s
      /\ \A k \in DOMAIN r : k + 1 \in DOMAIN s /\ r[k] = s[k + 1]
  BY TailAt
<1>. HIDE DEF r, h
<1>2. \A c, i : Brings(r, c, i) => Brings(s, c, i)
  BY <1>1 DEF Brings
<1>3. \A D : LoadedOf(s, D) => LoadedOf(r, D)
  BY <1>1 DEF LoadedOf
<1>4. \A i : h.type = "authok" /\ i \in h.items => Brings(s, h.char, i)
  BY <1>1 DEF Brings
<1>5. \A D : h.type = "loaded" /\ LoadedOf(s, D) => h.items \subseteq D
  BY <1>1 DEF LoadedOf
<1>. QED BY <1>2, <1>3, <1>4, <1>5 DEF r, h

LEMMA FewerTail ==
  ASSUME NEW S, NEW s \in Seq(S), s # <<>>
  PROVE  Fewer(Tail(s), s)
<1>. DEFINE r == Tail(s)
<1>1. \A i : /\ Ways(s, i) = {} => Ways(r, i) = {}
             /\ Single(Ways(s, i)) => Single(Ways(r, i))
  BY WaysTail
<1>2. \A t : Who(r, t) \subseteq Who(s, t) /\ (Has(r, t) => Has(s, t))
  BY WhoTail
<1>3. /\ \A c, i : Brings(r, c, i) => Brings(s, c, i)
      /\ \A D : LoadedOf(s, D) => LoadedOf(r, D)
  BY BringsTail
<1>. HIDE DEF r
<1>4. Fewer(r, s)
  BY <1>1, <1>2, <1>3 DEF Fewer
<1>. QED BY <1>4 DEF r

LEMMA FewerNone == \A s : Fewer(<<>>, s)
<1>1. DOMAIN <<>> = {}
  OBVIOUS
<1>. QED BY <1>1 DEF Fewer, Who, Has, Brings, Ways, Single, LoadedOf

LEMMA BringsAppend ==
  ASSUME NEW S, NEW s \in Seq(S), NEW p
  PROVE  /\ \A c, i : Brings(Append(s, p), c, i)
              => Brings(s, c, i) \/ (p.type = "authok" /\ p.char = c /\ i \in p.items)
         /\ \A D : LoadedOf(s, D) /\ (p.type = "loaded" => p.items \subseteq D)
              => LoadedOf(Append(s, p), D)
<1>. DEFINE a == Append(s, p)
            n == Len(s) + 1
<1>1. /\ DOMAIN a = DOMAIN s \union {n} /\ a[n] = p
      /\ \A k \in DOMAIN s : a[k] = s[k]
  BY AppendAt
<1>. HIDE DEF a, n
<1>2. \A c, i : Brings(a, c, i)
        => Brings(s, c, i) \/ (p.type = "authok" /\ p.char = c /\ i \in p.items)
  BY <1>1 DEF Brings
<1>3. \A D : LoadedOf(s, D) /\ (p.type = "loaded" => p.items \subseteq D) => LoadedOf(a, D)
  BY <1>1 DEF LoadedOf
<1>. QED BY <1>2, <1>3 DEF a

-----------------------------------------------------------------------------
(* What a full storage takes *)

LEMMA Largest ==
  ASSUME NEW F, F # {}, NEW N \in Nat, \A S \in F : Cardinality(S) \in Nat /\ Cardinality(S) <= N
  PROVE  \E S \in F : \A T \in F : Cardinality(T) <= Cardinality(S)
<1>. DEFINE R == OpToRel(<, Nat)
            rest(S) == N - Cardinality(S)
            M == {rest(S) : S \in F}
<1>1. \A x, y \in Nat : <<x, y>> \in R <=> x < y
  BY Zenon DEF OpToRel
<1>2. IsWellFoundedOn(R, Nat)
  BY NatLessThanWellFounded, Zenon
<1>3. M \subseteq Nat /\ M # {}
  OBVIOUS
<1>4. PICK m \in M : \A y \in M : ~(<<y, m>> \in R)
  <2>. HIDE DEF R, M
  <2>. QED BY <1>2, <1>3, WFMin
<1>. HIDE DEF R
<1>5. PICK S \in F : m = rest(S)
  OBVIOUS
<1>6. ASSUME NEW T \in F PROVE Cardinality(T) <= Cardinality(S)
  <2>1. rest(T) \in Nat /\ m \in Nat /\ ~(rest(T) < m)
    BY <1>1, <1>3, <1>4
  <2>. QED BY <1>5, <2>1
<1>. QED BY <1>6

LEMMA KeptOK == ASSUME NEW items, NEW more \in SUBSET Item PROVE Kept(items, more) \subseteq more
<1>. DEFINE F == Fits(items, more)
<1>1. IsFiniteSet(more) /\ \A S \in F : S \subseteq more
  BY StorageAssumption, FS_Subset DEF Fits
<1>2. {} \in F
  BY DEF Fits
<1>3. Cardinality(more) \in Nat
  BY <1>1, FS_CardinalityType
<1>4. ASSUME NEW S \in F PROVE Cardinality(S) \in Nat /\ Cardinality(S) <= Cardinality(more)
  BY <1>1, FS_Subset, FS_CardinalityType
<1>5. \E S \in F : \A T \in F : Cardinality(T) <= Cardinality(S)
  <2>. HIDE DEF F
  <2>. QED BY <1>2, <1>3, <1>4, Largest
<1>6. Kept(items, more) \in F
  BY <1>5 DEF Kept
<1>. QED BY <1>1, <1>6

-----------------------------------------------------------------------------
(* What a save adds *)

\* Packets of saves of c may have been added, the last of them final.
Grown(s, t, c, final) ==
  /\ \E S : t \in Seq(S)
  /\ Who(t, "char") \subseteq Who(s, "char") \union {c}
  /\ Who(t, "auth") = Who(s, "auth")
  /\ Has(t, "load") => Has(s, "load")
  /\ Has(t, "gstorage") => Has(s, "gstorage") \/ (gstor # NoStorage /\ gstor.dirty)
  /\ \A d : FinalOf(t, d) => FinalOf(s, d) \/ (final /\ d = c)

CharPacket(c, items, final) == [type |-> "char", char |-> c, items |-> items, final |-> final]
StorageSave == [type |-> "gstorage", items |-> gstor.items]

LEMMA CharSent ==
  ASSUME NEW S, NEW s \in Seq(S), NEW A, NEW Q, NEW P, Queue(s, A, Q, P),
         NEW c \in Player, NEW items \in SUBSET Item, NEW final \in BOOLEAN,
         c \in A \union Q, ~FinalOf(s, c), final => c \in Q /\ items = P[c]
  PROVE  /\ Queue(Append(s, CharPacket(c, items, final)), A, Q, P)
         /\ Grown(s, Append(s, CharPacket(c, items, final)), c, final)
<1>. DEFINE p == CharPacket(c, items, final)
            a == Append(s, p)
<1>1. p.type = "char" /\ p.char = c /\ p.final = final /\ p.items = items
  BY DEF CharPacket
<1>2. InterOK(p)
  BY <1>1 DEF InterOK
<1>. HIDE DEF p
<1>3. Queue(a, A, Q, P) /\ \A d : FinalOf(a, d) => FinalOf(s, d) \/ (p.type = "char" /\ p.final /\ p.char = d)
  BY <1>1, <1>2, QueueAppend
<1>4. /\ \A t : Who(a, t) = Who(s, t) \union (IF p.type = t THEN {p.char} ELSE {})
      /\ \A t : Has(a, t) <=> Has(s, t) \/ p.type = t
  BY WhoAppend
<1>5. a \in Seq(S \union {p})
  BY AppendAt
<1>. HIDE DEF a
<1>6. Grown(s, a, c, final)
  <2>1. Who(a, "char") = Who(s, "char") \union {c} /\ Who(a, "auth") = Who(s, "auth")
    BY <1>1, <1>4
  <2>2. (Has(a, "load") => Has(s, "load")) /\ (Has(a, "gstorage") => Has(s, "gstorage"))
    BY <1>1, <1>4
  <2>3. \A d : FinalOf(a, d) => FinalOf(s, d) \/ (final /\ d = c)
    BY <1>1, <1>3
  <2>4. \E T : a \in Seq(T)
    BY <1>5
  <2>. QED BY <2>1, <2>2, <2>3, <2>4 DEF Grown
<1>. QED BY <1>3, <1>6 DEF a, p

LEMMA StorageSent ==
  ASSUME NEW S, NEW s \in Seq(S), NEW A, NEW Q, NEW P, Queue(s, A, Q, P), NEW c,
         gstor \in guild_storage, gstor.dirty
  PROVE  /\ Queue(Append(s, StorageSave), A, Q, P)
         /\ Grown(s, Append(s, StorageSave), c, FALSE)
<1>. DEFINE p == StorageSave
            a == Append(s, p)
<1>1. p.type = "gstorage" /\ InterOK(p)
  BY DEF StorageSave, InterOK, guild_storage
<1>2. gstor # NoStorage
  BY StorageAssumption
<1>. HIDE DEF p
<1>3. Queue(a, A, Q, P) /\ \A d : FinalOf(a, d) => FinalOf(s, d) \/ (p.type = "char" /\ p.final /\ p.char = d)
  BY <1>1, QueueAppend
<1>4. /\ \A t : Who(a, t) = Who(s, t) \union (IF p.type = t THEN {p.char} ELSE {})
      /\ \A t : Has(a, t) <=> Has(s, t) \/ p.type = t
  BY WhoAppend
<1>5. a \in Seq(S \union {p})
  BY AppendAt
<1>. HIDE DEF a
<1>6. Grown(s, a, c, FALSE)
  <2>1. Who(a, "char") = Who(s, "char") /\ Who(a, "auth") = Who(s, "auth")
    BY <1>1, <1>4
  <2>2. Has(a, "load") => Has(s, "load")
    BY <1>1, <1>4
  <2>3. \A d : FinalOf(a, d) => FinalOf(s, d)
    BY <1>1, <1>3
  <2>4. \E T : a \in Seq(T)
    BY <1>5
  <2>. QED BY <1>2, <2>1, <2>2, <2>3, <2>4 DEF Grown
<1>. QED BY <1>3, <1>6 DEF a, p

LEMMA GrownNone ==
  ASSUME NEW S, NEW s \in Seq(S), NEW c, NEW f PROVE Grown(s, s, c, f)
  BY DEF Grown

LEMMA SaveSent ==
  ASSUME NEW S, NEW s \in Seq(S), NEW A, NEW Q, NEW P, Queue(s, A, Q, P),
         gstor \in guild_storage \union {NoStorage},
         NEW c \in Player, NEW items \in SUBSET Item, NEW final \in BOOLEAN,
         c \in A \union Q, ~FinalOf(s, c), final => c \in Q /\ items = P[c]
  PROVE  /\ Queue(s \o SavePackets(c, items, final), A, Q, P)
         /\ Grown(s, s \o SavePackets(c, items, final), c, final)
<1>. DEFINE p == CharPacket(c, items, final)
            g == StorageSave
<1>1. CASE Opens(c) /\ gstor.dirty
  <2>1. SavePackets(c, items, final) = <<g>> \o <<p>>
    BY <1>1 DEF SavePackets, StoragePacket, StorageSave, CharPacket
  <2>. DEFINE t == Append(s, g)
  <2>2. gstor \in guild_storage
    BY <1>1 DEF Opens
  <2>3. Queue(t, A, Q, P) /\ Grown(s, t, c, FALSE)
    BY <1>1, <2>2, StorageSent
  <2>4. t \in Seq(S \union {g})
    BY AppendAt
  <2>5. s \o (<<g>> \o <<p>>) = Append(t, p)
    <3>. HIDE DEF g, p
    <3>. QED OBVIOUS
  <2>. HIDE DEF t
  <2>6. ~FinalOf(t, c)
    BY <2>3 DEF Grown
  <2>7. Queue(Append(t, p), A, Q, P) /\ Grown(t, Append(t, p), c, final)
    BY <2>3, <2>4, <2>6, CharSent
  <2>8. Grown(s, Append(t, p), c, final)
    <3>. DEFINE u == Append(t, p)
    <3>1. Grown(s, t, c, FALSE) /\ Grown(t, u, c, final)
      BY <2>3, <2>7
    <3>. HIDE DEF u
    <3>2. Grown(s, u, c, final)
      BY <3>1 DEF Grown
    <3>. QED BY <3>2 DEF u
  <2>. QED BY <2>1, <2>5, <2>7, <2>8
<1>2. CASE ~(Opens(c) /\ gstor.dirty)
  <2>1. SavePackets(c, items, final) = <<>> \o <<p>>
    BY <1>2 DEF SavePackets, StoragePacket, CharPacket
  <2>2. s \o (<<>> \o <<p>>) = Append(s, p)
    <3>. HIDE DEF p
    <3>. QED OBVIOUS
  <2>3. Queue(Append(s, p), A, Q, P) /\ Grown(s, Append(s, p), c, final)
    BY CharSent
  <2>. QED BY <2>1, <2>2, <2>3
<1>. QED BY <1>1, <1>2

-----------------------------------------------------------------------------
(* Steps that bring an item to no new place *)

SameStorage ==
  /\ (gstor' = NoStorage) <=> (gstor = NoStorage)
  /\ gstor # NoStorage => gstor'.items = gstor.items /\ gstor'.dirty = gstor.dirty

\* A storage is sent only when it is dirty and asked for only when there is
\* none; the answers and the table are what they were, or fewer.
NothingNew ==
  /\ Has(toInter', "gstorage") => Has(toInter, "gstorage") \/ (gstor # NoStorage /\ gstor.dirty)
  /\ Has(toInter', "load") => Has(toInter, "load") \/ gstor = NoStorage
  /\ Fewer(fromInter', fromInter)
  /\ gstor_db' = gstor_db

LEMMA UnderWayFewer ==
  ASSUME NothingNew
  PROVE  /\ SaveUnderWay' => SaveUnderWay \/ (gstor # NoStorage /\ gstor.dirty)
         /\ LoadUnderWay' => LoadUnderWay \/ gstor = NoStorage
         /\ LoadedOf(fromInter, gstor_db) => LoadedOf(fromInter', gstor_db')
  BY DEF NothingNew, Fewer, SaveUnderWay, LoadUnderWay

LEMMA SameStorageOK ==
  ASSUME LoadsOK, SameStorage, NothingNew
  PROVE  LoadsOK' /\ \A i : InStorage(i)' => InStorage(i)
<1>1. /\ SaveUnderWay' => SaveUnderWay \/ (gstor # NoStorage /\ gstor.dirty)
      /\ LoadUnderWay' => LoadUnderWay \/ gstor = NoStorage
      /\ LoadedOf(fromInter, gstor_db) => LoadedOf(fromInter', gstor_db')
  BY UnderWayFewer
<1>2. gstor = NoStorage \/ ~gstor.dirty => LoadedOf(fromInter, gstor_db)
  BY DEF LoadsOK, LoadedOf
<1>3. SaveUnderWay' => gstor' # NoStorage
  BY <1>1 DEF LoadsOK, SameStorage
<1>4. SaveUnderWay' /\ LoadUnderWay' => gstor'.dirty
  BY <1>1 DEF LoadsOK, SameStorage
<1>5. gstor' = NoStorage \/ ~gstor'.dirty => LoadedOf(fromInter', gstor_db')
  BY <1>1, <1>2 DEF SameStorage
<1>6. LoadsOK'
  BY <1>3, <1>4, <1>5 DEF LoadsOK, LoadedOf
<1>7. ASSUME NEW i, InStorage(i)' PROVE InStorage(i)
  BY <1>1, <1>7 DEF InStorage, SameStorage, NothingNew
<1>. QED BY <1>6, <1>7

\* Items that come by a retrieval are put into the storage, which is made if
\* there is none.
LEMMA EnsuredStorageOK ==
  ASSUME LoadsOK, NothingNew, NEW kept, gstor' # NoStorage,
         gstor'.items = Ensured.items \union kept, gstor'.dirty = (Ensured.dirty \/ kept # {})
  PROVE  LoadsOK' /\ \A i : i \notin kept /\ InStorage(i)' => InStorage(i)
<1>1. /\ SaveUnderWay' => SaveUnderWay \/ (gstor # NoStorage /\ gstor.dirty)
      /\ LoadUnderWay' => LoadUnderWay \/ gstor = NoStorage
      /\ LoadedOf(fromInter, gstor_db) => LoadedOf(fromInter', gstor_db')
  BY UnderWayFewer
<1>2. gstor = NoStorage \/ ~gstor.dirty => LoadedOf(fromInter, gstor_db)
  BY DEF LoadsOK, LoadedOf
<1>3. /\ gstor = NoStorage => Ensured.items = {} /\ Ensured.dirty = FALSE
      /\ gstor # NoStorage => Ensured = gstor
  BY DEF Ensured, Loaded
<1>4. ~gstor'.dirty => kept = {} /\ (gstor = NoStorage \/ ~gstor.dirty)
  BY <1>3
<1>5. SaveUnderWay' /\ LoadUnderWay' => gstor'.dirty
  BY <1>1, <1>3 DEF LoadsOK
<1>6. LoadsOK'
  BY <1>1, <1>2, <1>4, <1>5 DEF LoadsOK, LoadedOf
<1>7. ASSUME NEW i, i \notin kept, InStorage(i)' PROVE InStorage(i)
  <2>1. CASE gstor = NoStorage
    BY <1>3, <1>7, <2>1 DEF InStorage, NothingNew
  <2>2. CASE gstor # NoStorage
    BY <1>1, <1>3, <1>4, <1>7, <2>2 DEF InStorage, NothingNew
  <2>. QED BY <2>1, <2>2
<1>. QED BY <1>6, <1>7

LEMMA HeldFewer ==
  ASSUME NEW c, NEW i, c \in active' \union quitting' <=> c \in active \union quitting,
         pack'[c] \subseteq pack[c], pack_db'[c] \subseteq pack_db[c],
         Fewer(fromInter', fromInter)
  PROVE  Held(c, i)' => Held(c, i)
  BY DEF Held, Fewer

LEMMA FewerPlaces ==
  ASSUME NEW i, One(i), \A c \in Player : Held(c, i)' => Held(c, i),
         Ways(fromInter, i) = {} => Ways(fromInter', i) = {},
         Single(Ways(fromInter, i)) => Single(Ways(fromInter', i)),
         InStorage(i)' => InStorage(i)
  PROVE  One(i)'
<1>1. Holders(i)' \subseteq Holders(i)
  BY DEF Holders
<1>2. Single(Holders(i)')
  BY <1>1 DEF One, Single
<1>3. Single(Ways(fromInter', i))
  BY DEF One
<1>4. Holders(i)' # {} => Ways(fromInter', i) = {} /\ ~InStorage(i)'
  BY <1>1 DEF One
<1>5. Ways(fromInter', i) # {} => ~InStorage(i)'
  BY DEF One
<1>. QED BY <1>2, <1>3, <1>4, <1>5 DEF One

\* Nobody has it and it is not under way.
LEMMA OnlyInStorage ==
  ASSUME NEW i, \A c \in Player : ~Held(c, i)', Ways(fromInter', i) = {}
  PROVE  One(i)'
<1>1. Holders(i)' = {}
  BY DEF Holders
<1>. QED BY <1>1 DEF One, Single

-----------------------------------------------------------------------------
(* The players *)

LEMMA QuietInv ==
  ASSUME PlacesInv, SameStorage, NothingNew, PacksOK', UnderWayOK',
         UNCHANGED <<pack, pack_db, raced>>, active' \union quitting' = active \union quitting
  PROVE  PlacesInv'
<1>1. LoadsOK' /\ \A i : InStorage(i)' => InStorage(i)
  BY SameStorageOK DEF PlacesInv
<1>2. ASSUME NEW i \in Item \ raced PROVE One(i)'
  <2>1. One(i)
    BY DEF PlacesInv
  <2>2. \A c \in Player : Held(c, i)' => Held(c, i)
    BY HeldFewer DEF NothingNew
  <2>. QED BY <1>1, <2>1, <2>2, FewerPlaces DEF NothingNew, Fewer
<1>. QED BY <1>1, <1>2 DEF PlacesInv

\* Whoever is in the game neither quits nor logs in.
LEMMA InTheGame ==
  ASSUME PlacesInv, NEW c \in active
  PROVE  /\ c \in Player /\ c \notin quitting /\ ~FinalOf(toInter, c)
         /\ c \notin Who(fromInter, "saved")
  BY DEF PlacesInv, PacksOK, UnderWayOK, Queue, Replies, FinalOf, Who

LEMMA LoginsAreAway ==
  ASSUME PlacesInv, NEW c, c \in Who(toInter, "auth") \/ c \in Who(fromInter, "authok")
  PROVE  c \notin active \union quitting
  BY DEF PlacesInv, UnderWayOK, Queue, Replies, Who

LEMMA GrownApart ==
  ASSUME NEW r, NEW s, NEW t, NEW c, NEW f, Apart(r, s), Grown(s, t, c, f), c \notin Who(r, "saved")
  PROVE  Apart(r, t)
  BY DEF Apart, Grown

LEMMA FewerApart ==
  ASSUME NEW r, NEW s, NEW t, Apart(s, t), Fewer(r, s) PROVE Apart(r, t)
<1>1. Who(r, "saved") \subseteq Who(s, "saved") /\ Who(r, "authok") \subseteq Who(s, "authok")
  BY DEF Fewer
<1>2. Has(r, "stored") => Has(s, "stored")
  BY DEF Fewer
<1>. QED BY <1>1, <1>2 DEF Apart

\* A save of a player in the game that is not its last.
LEMMA PlayerSaves ==
  ASSUME PlacesInv, SequencesOK, NEW c \in active, NEW items \in SUBSET Item
  PROVE  /\ Queue(toInter \o SavePackets(c, items, FALSE), active, quitting, pack)
         /\ Grown(toInter, toInter \o SavePackets(c, items, FALSE), c, FALSE)
         /\ Apart(fromInter, toInter \o SavePackets(c, items, FALSE))
<1>1. PICK S : toInter \in Seq(S)
  BY DEF SequencesOK
<1>2. Queue(toInter, active, quitting, pack) /\ gstor \in guild_storage \union {NoStorage}
  BY DEF PlacesInv, UnderWayOK, PacksOK
<1>3. c \in Player /\ ~FinalOf(toInter, c) /\ c \notin Who(fromInter, "saved")
  BY InTheGame
<1>. DEFINE t == toInter \o SavePackets(c, items, FALSE)
<1>4. Queue(t, active, quitting, pack) /\ Grown(toInter, t, c, FALSE)
  BY <1>1, <1>2, <1>3, SaveSent
<1>. HIDE DEF t
<1>5. Apart(fromInter, t)
  BY <1>3, <1>4, GrownApart DEF PlacesInv, UnderWayOK
<1>. QED BY <1>4, <1>5 DEF t

LEMMA NothingNewGrown ==
  ASSUME NEW c, NEW f, Grown(toInter, toInter', c, f), Fewer(fromInter', fromInter), gstor_db' = gstor_db
  PROVE  NothingNew
  BY DEF Grown, NothingNew

LEMMA RequestPlaces ==
  ASSUME PlacesInv, SequencesOK, NEW c \in Player, NEW t \in {"auth", "load", "expel"},
         toInter' = Append(toInter, [type |-> t, char |-> c]),
         t = "auth" => /\ c \notin active \union quitting
                       /\ c \notin Who(toInter, "auth") /\ c \notin Who(fromInter, "authok"),
         t = "load" => gstor = NoStorage,
         UNCHANGED <<mapMemory, fromInter, tables>>
  PROVE  PlacesInv'
<1>. DEFINE p == [type |-> t, char |-> c]
<1>1. p.type = t /\ p.char = c /\ InterOK(p)
  BY DEF InterOK
<1>2. PICK S : toInter \in Seq(S)
  BY DEF SequencesOK
<1>3. t = "load" => ~Has(toInter, "gstorage") /\ ~Has(fromInter, "stored")
  BY DEF PlacesInv, LoadsOK, SaveUnderWay
<1>4. /\ UNCHANGED gstor /\ UNCHANGED pack /\ UNCHANGED active /\ UNCHANGED quitting
      /\ UNCHANGED fromInter /\ UNCHANGED pack_db /\ UNCHANGED gstor_db /\ UNCHANGED raced
  BY DEF mapMemory, tables
<1>5. toInter' = Append(toInter, p)
  OBVIOUS
<1>. HIDE DEF p
<1>6. Queue(Append(toInter, p), active, quitting, pack)
  BY <1>1, <1>2, <1>3, QueueAppend DEF PlacesInv, UnderWayOK
<1>7. /\ \A x : Who(toInter', x) = Who(toInter, x) \union (IF p.type = x THEN {p.char} ELSE {})
      /\ \A x : Has(toInter', x) <=> Has(toInter, x) \/ p.type = x
  BY <1>2, <1>5, WhoAppend
<1>8. Apart(fromInter', toInter')
  <2>1. Apart(fromInter, toInter)
    BY DEF PlacesInv, UnderWayOK
  <2>2. Who(toInter', "char") = Who(toInter, "char")
    <3>1. p.type # "char"
      BY <1>1
    <3>2. Who(toInter', "char") = Who(toInter, "char") \union (IF p.type = "char" THEN {p.char} ELSE {})
      BY <1>7
    <3>. QED BY <3>1, <3>2
  <2>3. Who(fromInter, "authok") \cap Who(toInter', "auth") = {}
    BY <1>1, <1>7, <2>1 DEF Apart
  <2>4. ~(Has(fromInter, "stored") /\ Has(toInter', "load"))
    BY <1>1, <1>3, <1>7, <2>1 DEF Apart
  <2>. QED BY <1>4, <2>1, <2>2, <2>3, <2>4 DEF Apart
<1>9. UnderWayOK'
  BY <1>4, <1>5, <1>6, <1>8 DEF PlacesInv, UnderWayOK
<1>10. NothingNew
  BY <1>1, <1>4, <1>7, FewerSame DEF NothingNew
<1>11. SameStorage /\ PacksOK'
  BY <1>4 DEF SameStorage, PlacesInv, PacksOK
<1>. QED BY <1>4, <1>9, <1>10, <1>11, QuietInv

LEMMA LoginPlaces ==
  ASSUME PlacesInv, SequencesOK, NEW c \in Player, StorageLogin(c) PROVE PlacesInv'
<1>1. /\ c \notin active \union quitting /\ ~LoggingIn(c)
      /\ toInter' = Append(toInter, [type |-> "auth", char |-> c])
      /\ UNCHANGED <<mapMemory, fromInter, tables>>
  BY DEF StorageLogin, Request
<1>2. c \notin Who(toInter, "auth")
  <2>. SUFFICES ASSUME NEW k \in DOMAIN toInter, toInter[k].type = "auth", toInter[k].char = c PROVE FALSE
    BY WhoIs
  <2>1. InterOK(toInter[k])
    BY DEF PlacesInv, UnderWayOK, Queue
  <2>2. toInter[k] = [type |-> "auth", char |-> c]
    BY <2>1 DEF InterOK
  <2>. QED BY <1>1, <2>2 DEF LoggingIn
<1>3. c \notin Who(fromInter, "authok")
  BY <1>1, WhoIs DEF LoggingIn
<1>. QED BY <1>1, <1>2, <1>3, RequestPlaces

LEMMA AskPlaces ==
  ASSUME PlacesInv, SequencesOK, NEW c \in Player, RequestStorage(c) \/ Expel(c) PROVE PlacesInv'
<1>1. CASE RequestStorage(c)
  <2>1. /\ gstor = NoStorage /\ toInter' = Append(toInter, [type |-> "load", char |-> c])
        /\ UNCHANGED <<mapMemory, fromInter, tables>>
    BY <1>1 DEF RequestStorage, Request
  <2>. QED BY <2>1, RequestPlaces
<1>2. CASE Expel(c)
  <2>1. /\ toInter' = Append(toInter, [type |-> "expel", char |-> c])
        /\ UNCHANGED <<mapMemory, fromInter, tables>>
    BY <1>2 DEF Expel, Request
  <2>. QED BY <2>1, RequestPlaces
<1>. QED BY <1>1, <1>2

LEMMA MarksOK ==
  ASSUME NEW gs \in guild_storage
  PROVE  /\ gs # NoStorage
         /\ \A x \in Player \union {Nobody} :
              /\ [gs EXCEPT !.opened = x] \in guild_storage
              /\ [gs EXCEPT !.opened = x].items = gs.items
              /\ [gs EXCEPT !.opened = x].dirty = gs.dirty
         /\ \A y \in BOOLEAN :
              /\ [gs EXCEPT !.locked = y] \in guild_storage
              /\ [gs EXCEPT !.locked = y].items = gs.items
              /\ [gs EXCEPT !.locked = y].dirty = gs.dirty
         /\ \A y \in BOOLEAN, x \in Player \union {Nobody} :
              /\ [gs EXCEPT !.locked = y, !.opened = x] \in guild_storage
              /\ [gs EXCEPT !.locked = y, !.opened = x].items = gs.items
              /\ [gs EXCEPT !.locked = y, !.opened = x].dirty = gs.dirty
         /\ \A x \in SUBSET Item :
              /\ [gs EXCEPT !.items = x, !.dirty = TRUE] \in guild_storage
              /\ [gs EXCEPT !.items = x, !.dirty = TRUE].items = x
              /\ [gs EXCEPT !.items = x, !.dirty = TRUE].dirty = TRUE
<1>1. gs # NoStorage
  BY StorageAssumption
<1>2. \A x \in Player \union {Nobody} :
         /\ [gs EXCEPT !.opened = x] \in guild_storage
         /\ [gs EXCEPT !.opened = x].items = gs.items
         /\ [gs EXCEPT !.opened = x].dirty = gs.dirty
  BY DEF guild_storage
<1>3. \A y \in BOOLEAN :
         /\ [gs EXCEPT !.locked = y] \in guild_storage
         /\ [gs EXCEPT !.locked = y].items = gs.items
         /\ [gs EXCEPT !.locked = y].dirty = gs.dirty
  BY DEF guild_storage
<1>4. \A y \in BOOLEAN, x \in Player \union {Nobody} :
         /\ [gs EXCEPT !.locked = y, !.opened = x] \in guild_storage
         /\ [gs EXCEPT !.locked = y, !.opened = x].items = gs.items
         /\ [gs EXCEPT !.locked = y, !.opened = x].dirty = gs.dirty
  BY DEF guild_storage
<1>5. \A x \in SUBSET Item :
         /\ [gs EXCEPT !.items = x, !.dirty = TRUE] \in guild_storage
         /\ [gs EXCEPT !.items = x, !.dirty = TRUE].items = x
         /\ [gs EXCEPT !.items = x, !.dirty = TRUE].dirty = TRUE
  BY DEF guild_storage
<1>. QED BY <1>1, <1>2, <1>3, <1>4, <1>5

\* The storage is what it was, or somebody opened or closed it.
Opened == gstor' = gstor \/ (gstor \in guild_storage /\ \E x \in Player \union {Nobody} :
                               gstor' = [gstor EXCEPT !.opened = x])

LEMMA OpenedOK ==
  ASSUME gstor \in guild_storage \union {NoStorage}, Opened
  PROVE  SameStorage /\ gstor' \in guild_storage \union {NoStorage}
<1>1. CASE gstor' = gstor
  BY <1>1 DEF SameStorage
<1>2. ASSUME gstor \in guild_storage, NEW x \in Player \union {Nobody}, gstor' = [gstor EXCEPT !.opened = x]
      PROVE  SameStorage /\ gstor' \in guild_storage
  <2>1. gstor' \in guild_storage /\ gstor'.items = gstor.items /\ gstor'.dirty = gstor.dirty
    BY <1>2, MarksOK
  <2>2. gstor # NoStorage /\ gstor' # NoStorage
    BY <1>2, <2>1, MarksOK
  <2>. QED BY <2>1, <2>2 DEF SameStorage
<1>. QED BY <1>1, <1>2 DEF Opened

\* Nothing was sent, or one save of a player in the game.
LEMMA SavingPlaces ==
  ASSUME PlacesInv, SequencesOK, Opened, NEW c \in active,
         toInter' = toInter \/ toInter' = toInter \o SavePackets(c, pack[c], FALSE),
         UNCHANGED <<pack, active, quitting, fromInter, pack_db, gstor_db, raced>>
  PROVE  PlacesInv'
<1>1. PICK S : toInter \in Seq(S)
  BY DEF SequencesOK
<1>2. Queue(toInter, active, quitting, pack) /\ Grown(toInter, toInter, c, FALSE) /\ Apart(fromInter, toInter)
  BY <1>1, GrownNone DEF PlacesInv, UnderWayOK
<1>3. pack[c] \in SUBSET Item
  BY InTheGame DEF PlacesInv, PacksOK
<1>. DEFINE t == toInter \o SavePackets(c, pack[c], FALSE)
<1>4. Queue(t, active, quitting, pack) /\ Grown(toInter, t, c, FALSE) /\ Apart(fromInter, t)
  BY <1>3, PlayerSaves
<1>5. toInter' = toInter \/ toInter' = t
  OBVIOUS
<1>. HIDE DEF t
<1>6. Queue(toInter', active, quitting, pack) /\ Grown(toInter, toInter', c, FALSE) /\ Apart(fromInter, toInter')
  BY <1>2, <1>4, <1>5
<1>7. /\ UNCHANGED pack /\ UNCHANGED active /\ UNCHANGED quitting /\ UNCHANGED fromInter
      /\ UNCHANGED pack_db /\ UNCHANGED gstor_db /\ UNCHANGED raced
  OBVIOUS
<1>8. UnderWayOK'
  BY <1>6, <1>7 DEF PlacesInv, UnderWayOK
<1>9. NothingNew
  BY <1>6, <1>7, FewerSame, NothingNewGrown
<1>10. SameStorage /\ PacksOK'
  BY <1>7, OpenedOK DEF PlacesInv, PacksOK
<1>. QED BY <1>7, <1>8, <1>9, <1>10, QuietInv

LEMMA WindowPlaces ==
  ASSUME PlacesInv, StorageInv, NEW c \in Player,
         StorageOpen(c) \/ StorageClose(c) \/ StorageAutosave(c)
  PROVE  PlacesInv'
<1>1. gstor # NoStorage => gstor \in guild_storage
  BY DEF PlacesInv, PacksOK
<1>2. CASE StorageOpen(c)
  <2>1. c \in active /\ Opened
    BY <1>1, <1>2 DEF StorageOpen, MayOpen, Opened
  <2>2. toInter' = toInter /\ UNCHANGED <<pack, active, quitting, fromInter, pack_db, gstor_db, raced>>
    BY <1>2 DEF StorageOpen, tables
  <2>. QED BY <2>1, <2>2, SavingPlaces DEF StorageInv
<1>3. CASE StorageClose(c)
  <2>1. c \in active /\ Opened
    BY <1>1, <1>3 DEF StorageClose, gstorage_storageclose, StorageInv, WindowsOK, Opened
  <2>2. UNCHANGED <<pack, active, quitting, fromInter, pack_db, gstor_db, raced>>
    BY <1>3 DEF StorageClose, tables
  <2>3. toInter' = toInter \/ toInter' = toInter \o SavePackets(c, pack[c], FALSE)
    BY <1>3 DEF StorageClose, gstorage_storageclose, Send
  <2>. QED BY <2>1, <2>2, <2>3, SavingPlaces DEF StorageInv
<1>4. CASE StorageAutosave(c)
  <2>1. c \in active /\ Opened
    BY <1>4 DEF StorageAutosave, Opened
  <2>2. UNCHANGED <<pack, active, quitting, fromInter, pack_db, gstor_db, raced>>
    BY <1>4 DEF StorageAutosave, tables
  <2>3. toInter' = toInter \/ toInter' = toInter \o SavePackets(c, pack[c], FALSE)
    BY <1>4 DEF StorageAutosave, Send
  <2>. QED BY <2>1, <2>2, <2>3, SavingPlaces DEF StorageInv
<1>. QED BY <1>2, <1>3, <1>4

LEMMA SavePacketsSeq ==
  ASSUME StorageOK, NEW c, NEW items, NEW final
  PROVE  /\ \E S : SavePackets(c, items, final) \in Seq(S)
         /\ <<>> \o SavePackets(c, items, final) = SavePackets(c, items, final)
<1>. DEFINE t == SavePackets(c, items, final)
<1>1. \E S : t \in Seq(S)
  BY SavePacketsOK DEF NoSave, Renews
<1>. HIDE DEF t
<1>2. <<>> \o t = t
  BY <1>1
<1>. QED BY <1>1, <1>2 DEF t

LEMMA SavedThenFinal ==
  ASSUME NEW S, NEW s \in Seq(S), NEW T, NEW a \in Seq(T), NEW p
  PROVE  s \o (a \o <<p>>) = Append(s \o a, p) /\ s \o a \in Seq(S \union T)
<1>1. s \in Seq(S \union T \union {p}) /\ a \in Seq(S \union T \union {p})
  OBVIOUS
<1>2. s \o (a \o <<p>>) = (s \o a) \o <<p>>
  BY <1>1
<1>3. s \o a \in Seq(S \union T)
  OBVIOUS
<1>. QED BY <1>1, <1>2, <1>3

\* map_quit's packets: a save of the storage, and the character's final save.
LEMMA QuitSends ==
  ASSUME PlacesInv, StorageInv, NEW c \in active, NEW teleport \in BOOLEAN, NEW closes \in BOOLEAN,
         NEW A, NEW Q, c \in Q, Queue(toInter, A, Q, pack),
         NEW q, q = (IF closes /\ ~teleport THEN SavePackets(c, pack[c], FALSE) ELSE <<>>)
                      \o (IF closes /\ teleport THEN SavePackets(c, pack[c], TRUE)
                          ELSE <<CharPacket(c, pack[c], TRUE)>>)
  PROVE  Queue(toInter \o q, A, Q, pack) /\ Grown(toInter, toInter \o q, c, TRUE)
<1>1. PICK S : toInter \in Seq(S)
  BY DEF StorageInv, SequencesOK
<1>2. gstor \in guild_storage \union {NoStorage} /\ StorageOK
  BY DEF PlacesInv, PacksOK, StorageInv
<1>3. c \in Player /\ ~FinalOf(toInter, c) /\ pack[c] \in SUBSET Item
  BY InTheGame DEF PlacesInv, PacksOK
<1>. DEFINE p == CharPacket(c, pack[c], TRUE)
            a == SavePackets(c, pack[c], FALSE)
            b == SavePackets(c, pack[c], TRUE)
<1>4. Queue(toInter \o a, A, Q, pack) /\ Grown(toInter, toInter \o a, c, FALSE)
  BY <1>1, <1>2, <1>3, SaveSent
<1>5. Queue(toInter \o b, A, Q, pack) /\ Grown(toInter, toInter \o b, c, TRUE)
  BY <1>1, <1>2, <1>3, SaveSent
<1>6. (\E T : a \in Seq(T)) /\ <<>> \o b = b
  BY <1>2, SavePacketsSeq
<1>7. CASE closes /\ teleport
  BY <1>5, <1>6, <1>7
<1>8. CASE closes /\ ~teleport
  <2>1. q = a \o <<p>>
    BY <1>8
  <2>2. PICK T : a \in Seq(T)
    BY <1>6
  <2>. DEFINE t == toInter \o a
  <2>. HIDE DEF a, p
  <2>3. toInter \o q = Append(t, p) /\ t \in Seq(S \union T)
    <3>. DEFINE s == toInter
    <3>1. s \in Seq(S)
      BY <1>1
    <3>. HIDE DEF s
    <3>2. s \o (a \o <<p>>) = Append(s \o a, p) /\ s \o a \in Seq(S \union T)
      BY <2>2, <3>1, SavedThenFinal
    <3>. QED BY <2>1, <3>2 DEF s
  <2>. HIDE DEF t
  <2>4. ~FinalOf(t, c)
    BY <1>3, <1>4 DEF Grown, t
  <2>5. Queue(Append(t, p), A, Q, pack) /\ Grown(t, Append(t, p), c, TRUE)
    BY <1>3, <1>4, <2>3, <2>4, CharSent DEF t, p
  <2>. DEFINE u == Append(t, p)
  <2>6. Grown(toInter, t, c, FALSE) /\ Grown(t, u, c, TRUE)
    BY <1>4, <2>5 DEF t
  <2>. HIDE DEF u
  <2>7. Grown(toInter, u, c, TRUE)
    BY <2>6 DEF Grown
  <2>. QED BY <2>3, <2>5, <2>7 DEF u
<1>9. CASE ~closes
  <2>1. q = <<>> \o <<p>>
    BY <1>9
  <2>2. toInter \o (<<>> \o <<p>>) = Append(toInter, p)
    <3>. HIDE DEF p
    <3>. QED BY <1>1
  <2>3. Queue(Append(toInter, p), A, Q, pack) /\ Grown(toInter, Append(toInter, p), c, TRUE)
    BY <1>1, <1>3, CharSent
  <2>. QED BY <2>1, <2>2, <2>3
<1>. QED BY <1>7, <1>8, <1>9

LEMMA QuitPlaces ==
  ASSUME PlacesInv, StorageInv, NEW c \in Player, NEW teleport \in BOOLEAN, Quit(c, teleport)
  PROVE  PlacesInv'
<1>. DEFINE closes == c \in storage_flag /\ c \in guildsmen /\ gstor # NoStorage
                        /\ gstor.opened # Nobody /\ (linked \/ ~teleport)
            q == (IF closes /\ ~teleport THEN SavePackets(c, pack[c], FALSE) ELSE <<>>)
                   \o (IF closes /\ teleport THEN SavePackets(c, pack[c], TRUE)
                       ELSE <<CharPacket(c, pack[c], TRUE)>>)
            A == active \ {c}
            Q == quitting \union {c}
<1>1. /\ c \in active /\ Send(q)
      /\ gstor' = IF closes THEN [gstor EXCEPT !.opened = Nobody] ELSE gstor
      /\ active' = A /\ quitting' = Q
      /\ UNCHANGED pack /\ UNCHANGED fromInter /\ UNCHANGED pack_db /\ UNCHANGED gstor_db /\ UNCHANGED raced
  BY DEF Quit, CharPacket, tables
<1>2. c \notin quitting /\ c \in Player /\ c \notin Who(fromInter, "saved")
  BY <1>1, InTheGame
<1>3. Queue(toInter, active, quitting, pack) /\ PacksOK /\ Apart(fromInter, toInter)
      /\ Replies(fromInter, active, quitting, pack, pack_db)
  BY DEF PlacesInv, UnderWayOK
<1>4. A \union Q = active \union quitting /\ quitting \subseteq Q
  BY <1>1
<1>5. Who(toInter, "char") \subseteq active \union quitting
  BY <1>3 DEF Queue
<1>6. \A d \in Who(toInter, "auth") : d \notin active \union quitting
  BY LoginsAreAway
<1>7. Queue(toInter, A, Q, pack)
  <2>. HIDE DEF A, Q
  <2>. QED BY <1>3, <1>4, <1>5, <1>6, QueueMoves
<1>8. Queue(toInter \o q, A, Q, pack) /\ Grown(toInter, toInter \o q, c, TRUE)
  <2>1. closes \in BOOLEAN /\ c \in Q
    OBVIOUS
  <2>. HIDE DEF A, Q, closes
  <2>. QED BY <1>1, <1>7, <2>1, QuitSends
<1>9. PICK S : toInter \in Seq(S)
  BY DEF StorageInv, SequencesOK
<1>10. Queue(toInter', A, Q, pack) /\ Grown(toInter, toInter', c, TRUE)
  <2>1. Grown(toInter, toInter, c, TRUE)
    BY <1>9, GrownNone
  <2>2. toInter' = toInter \/ toInter' = toInter \o q
    BY <1>1 DEF Send
  <2>. HIDE DEF A, Q, q
  <2>. QED BY <1>7, <1>8, <2>1, <2>2
<1>11. Apart(fromInter, toInter')
  BY <1>2, <1>3, <1>10, GrownApart
<1>12. Replies(fromInter, A, Q, pack, pack_db)
  <2>1. \A d \in Who(fromInter, "saved") : d \in Q /\ pack_db[d] \subseteq pack[d]
    BY <1>3, <1>4 DEF Replies, Who
  <2>2. \A d \in Who(fromInter, "authok") : d \notin A \union Q
    BY <1>4, LoginsAreAway
  <2>. HIDE DEF A, Q
  <2>. QED BY <1>3, <2>1, <2>2, RepliesMove
<1>13. UnderWayOK'
  BY <1>1, <1>10, <1>11, <1>12 DEF UnderWayOK
<1>14. Opened
  BY <1>1, <1>3 DEF Opened, PacksOK
<1>15. SameStorage /\ PacksOK'
  <2>1. SameStorage /\ gstor' \in guild_storage \union {NoStorage}
    BY <1>3, <1>14, OpenedOK DEF PacksOK
  <2>2. A \subseteq Player /\ Q \subseteq Player /\ A \cap Q = {}
    BY <1>2, <1>3 DEF PacksOK
  <2>. QED BY <1>1, <1>3, <2>1, <2>2 DEF PacksOK
<1>16. NothingNew
  BY <1>1, <1>10, FewerSame, NothingNewGrown
<1>. QED BY <1>1, <1>4, <1>13, <1>15, <1>16, QuietInv

\* The pack of a player in the game changes.
LEMMA PackChanges ==
  ASSUME PlacesInv, NEW c \in active, NEW P, \A d \in Player : d # c => P[d] = pack[d]
  PROVE  /\ \A t : Queue(t, active, quitting, pack) /\ Who(t, "auth") = Who(toInter, "auth")
              => Queue(t, active, quitting, P)
         /\ \A r : Replies(r, active, quitting, pack, pack_db) => Replies(r, active, quitting, P, pack_db)
<1>1. /\ c \notin quitting
      /\ active \subseteq Player /\ quitting \subseteq Player
  BY InTheGame DEF PlacesInv, PacksOK
<1>2. \A d \in Who(toInter, "auth") : d \notin active \union quitting
  BY LoginsAreAway
<1>3. ASSUME NEW t, Queue(t, active, quitting, pack), Who(t, "auth") = Who(toInter, "auth")
      PROVE  Queue(t, active, quitting, P)
  <2>1. \A d \in Who(t, "char") : d \in active \union quitting
    BY <1>3 DEF Queue
  <2>. QED BY <1>1, <1>2, <1>3, <2>1, QueueMoves
<1>4. ASSUME NEW r, Replies(r, active, quitting, pack, pack_db)
      PROVE  Replies(r, active, quitting, P, pack_db)
  <2>1. \A d \in Who(r, "saved") : d \in quitting /\ pack_db[d] \subseteq pack[d]
    BY <1>4 DEF Replies, Who
  <2>2. \A d \in Who(r, "saved") : d \in quitting /\ pack_db[d] \subseteq P[d]
    BY <1>1, <2>1
  <2>3. \A d \in Who(r, "authok") : d \notin active \union quitting
    BY <1>4 DEF Replies, Who
  <2>. QED BY <1>4, <2>2, <2>3, RepliesMove
<1>. QED BY <1>3, <1>4

LEMMA UsePlaces ==
  ASSUME PlacesInv, StorageInv, NEW c \in Player, NEW i \in Item, StorageAdd(c, i) \/ StorageGet(c, i)
  PROVE  PlacesInv'
<1>1. /\ c \in active /\ gstor # NoStorage
      /\ UNCHANGED active /\ UNCHANGED quitting /\ UNCHANGED toInter /\ UNCHANGED fromInter
      /\ UNCHANGED pack_db /\ UNCHANGED gstor_db /\ UNCHANGED raced
  BY DEF StorageAdd, StorageGet, Uses, Opens, StorageInv, WindowsOK, tables
<1>2. /\ c \in Player /\ c \notin quitting
      /\ PacksOK /\ UnderWayOK /\ LoadsOK
  BY <1>1, InTheGame DEF PlacesInv
<1>3. gstor \in guild_storage /\ gstor.items \subseteq Item /\ pack \in [Player -> SUBSET Item]
  BY <1>1, <1>2 DEF PacksOK, guild_storage
<1>4. \/ /\ i \in pack[c] /\ pack' = [pack EXCEPT ![c] = pack[c] \ {i}]
         /\ gstor' = [gstor EXCEPT !.items = gstor.items \union {i}, !.dirty = TRUE]
      \/ /\ i \in gstor.items /\ pack' = [pack EXCEPT ![c] = pack[c] \union {i}]
         /\ gstor' = [gstor EXCEPT !.items = gstor.items \ {i}, !.dirty = TRUE]
  BY DEF StorageAdd, StorageGet
<1>5. \/ i \in pack[c] /\ pack'[c] = pack[c] \ {i} /\ gstor'.items = gstor.items \union {i}
      \/ i \in gstor.items /\ pack'[c] = pack[c] \union {i} /\ gstor'.items = gstor.items \ {i}
  <2>1. gstor.items \union {i} \in SUBSET Item /\ gstor.items \ {i} \in SUBSET Item
    BY <1>3
  <2>. DEFINE gs(x) == [gstor EXCEPT !.items = x, !.dirty = TRUE]
              pk(x) == [pack EXCEPT ![c] = x]
  <2>2. \A x \in SUBSET Item : gs(x).items = x
    BY <1>3, MarksOK
  <2>3. \A x : pk(x)[c] = x
    BY <1>2, <1>3
  <2>4. \/ i \in pack[c] /\ pack' = pk(pack[c] \ {i}) /\ gstor' = gs(gstor.items \union {i})
        \/ i \in gstor.items /\ pack' = pk(pack[c] \union {i}) /\ gstor' = gs(gstor.items \ {i})
    BY <1>4
  <2>. HIDE DEF gs, pk
  <2>. QED BY <2>1, <2>2, <2>3, <2>4
<1>6. gstor' \in guild_storage /\ gstor' # NoStorage /\ gstor'.dirty = TRUE
  <2>1. gstor.items \union {i} \in SUBSET Item /\ gstor.items \ {i} \in SUBSET Item
    BY <1>3
  <2>2. gstor' \in guild_storage /\ gstor'.dirty = TRUE
    <3>. DEFINE gs(x) == [gstor EXCEPT !.items = x, !.dirty = TRUE]
    <3>1. \A x \in SUBSET Item : gs(x) \in guild_storage /\ gs(x).dirty = TRUE
      BY <1>3, MarksOK
    <3>2. gstor' = gs(gstor.items \union {i}) \/ gstor' = gs(gstor.items \ {i})
      BY <1>4
    <3>. HIDE DEF gs
    <3>. QED BY <2>1, <3>1, <3>2
  <2>. QED BY <2>2, MarksOK
<1>7. pack' \in [Player -> SUBSET Item] /\ \A d \in Player : d # c => pack'[d] = pack[d]
  BY <1>3, <1>4
<1>8. PacksOK'
  BY <1>1, <1>2, <1>6, <1>7 DEF PacksOK
<1>9. UnderWayOK'
  <2>1. Queue(toInter, active, quitting, pack') /\ Replies(fromInter, active, quitting, pack', pack_db)
    BY <1>1, <1>2, <1>7, PackChanges DEF UnderWayOK
  <2>. QED BY <1>1, <1>2, <2>1 DEF UnderWayOK
<1>10. LoadsOK'
  BY <1>1, <1>6 DEF LoadsOK
<1>11. /\ \A d \in Player : \A j : d # c \/ j # i => (Held(d, j)' => Held(d, j))
       /\ Held(c, i) <=> i \in pack[c]
       /\ Held(c, i)' <=> i \in pack'[c]
  <2>1. Held(c, i)' <=> i \in pack'[c]
    BY <1>1 DEF Held
  <2>2. Held(c, i) <=> i \in pack[c]
    BY <1>1 DEF Held
  <2>3. ASSUME NEW d \in Player, NEW j, d # c \/ j # i, Held(d, j)' PROVE Held(d, j)
    <3>1. d \in active \union quitting => (j \in pack'[d] => j \in pack[d])
      BY <1>5, <1>7, <2>3
    <3>. QED BY <1>1, <2>3, <3>1 DEF Held
  <2>. QED BY <2>1, <2>2, <2>3
<1>12. \A j : /\ InStorage(j)' <=> j \in gstor'.items
              /\ j \in gstor.items => InStorage(j)
  BY <1>1, <1>6 DEF InStorage
<1>13. ASSUME NEW j \in Item \ raced PROVE One(j)'
  <2>1. One(j) /\ Ways(fromInter', j) = Ways(fromInter, j)
    BY <1>1 DEF PlacesInv
  <2>2. CASE j # i
    <3>1. InStorage(j)' => InStorage(j)
      BY <1>5, <1>12, <2>2
    <3>. QED BY <1>11, <2>1, <2>2, <3>1, FewerPlaces
  <2>3. CASE j = i /\ i \in pack[c] /\ pack'[c] = pack[c] \ {i}
    <3>1. c \in Holders(i)
      BY <1>2, <1>11, <2>3 DEF Holders
    <3>2. Ways(fromInter, i) = {} /\ \A d \in Player : d # c => ~Held(d, i)
      <4>1. Single(Holders(i)) /\ Ways(fromInter, i) = {}
        BY <2>1, <2>3, <3>1 DEF One
      <4>2. ASSUME NEW d \in Player, Held(d, i) PROVE d = c
        <5>1. d \in Holders(i)
          BY <4>2 DEF Holders
        <5>. QED BY <3>1, <4>1, <5>1 DEF Single
      <4>. QED BY <4>1, <4>2
    <3>3. \A d \in Player : ~Held(d, i)'
      BY <1>11, <2>3, <3>2
    <3>. QED BY <2>1, <2>3, <3>2, <3>3, OnlyInStorage
  <2>4. CASE j = i /\ i \in gstor.items /\ pack'[c] = pack[c] \union {i} /\ gstor'.items = gstor.items \ {i}
    <3>1. InStorage(i) /\ ~InStorage(i)'
      BY <1>12, <2>4
    <3>2. Ways(fromInter, i) = {} /\ \A d \in Player : ~Held(d, i)
      <4>1. Holders(i) = {} /\ Ways(fromInter, i) = {}
        BY <2>1, <2>4, <3>1 DEF One
      <4>. QED BY <4>1 DEF Holders
    <3>3. Holders(i)' \subseteq {c}
      BY <1>11, <3>2 DEF Holders
    <3>4. Ways(fromInter', i) = {}
      BY <2>1, <2>4, <3>2
    <3>. QED BY <2>4, <3>1, <3>3, <3>4 DEF One, Single
  <2>. QED BY <1>5, <2>2, <2>3, <2>4
<1>. QED BY <1>1, <1>8, <1>9, <1>10, <1>13 DEF PlacesInv

LEMMA PlayerPlaces == PlacesInv /\ StorageInv /\ StoragePlayer => PlacesInv'
<1>. SUFFICES ASSUME PlacesInv, StorageInv, StoragePlayer PROVE PlacesInv'
  OBVIOUS
<1>1. SequencesOK
  BY DEF StorageInv
<1>2. PICK c \in Player :
        \/ StorageLogin(c) \/ RequestStorage(c) \/ StorageOpen(c) \/ StorageClose(c)
        \/ StorageAutosave(c) \/ Quit(c, TRUE) \/ Quit(c, FALSE) \/ Expel(c)
        \/ \E i \in Item : StorageAdd(c, i) \/ StorageGet(c, i)
  BY DEF StoragePlayer
<1>3. CASE StorageLogin(c)
  BY <1>1, <1>3, LoginPlaces
<1>4. CASE RequestStorage(c) \/ Expel(c)
  BY <1>1, <1>4, AskPlaces
<1>5. CASE StorageOpen(c) \/ StorageClose(c) \/ StorageAutosave(c)
  BY <1>5, WindowPlaces
<1>6. CASE Quit(c, TRUE) \/ Quit(c, FALSE)
  BY <1>6, QuitPlaces
<1>7. ASSUME NEW i \in Item, StorageAdd(c, i) \/ StorageGet(c, i) PROVE PlacesInv'
  BY <1>7, UsePlaces
<1>. QED BY <1>2, <1>3, <1>4, <1>5, <1>6, <1>7

-----------------------------------------------------------------------------
(* Packets for the map-server *)

LEMMA LessPlaces ==
  ASSUME PlacesInv, PacksOK', UnderWayOK', LoadsOK', Fewer(fromInter', fromInter), raced' = raced,
         \A i : InStorage(i)' => InStorage(i),
         \A c \in Player : \A i : Held(c, i)' => Held(c, i)
  PROVE  PlacesInv'
<1>1. ASSUME NEW i \in Item \ raced PROVE One(i)'
  <2>1. One(i)
    BY DEF PlacesInv
  <2>. QED BY <2>1, FewerPlaces DEF Fewer
<1>. QED BY <1>1 DEF PlacesInv

LEMMA MapReads ==
  ASSUME PlacesInv, SequencesOK, fromInter # <<>>, NEW h, h = Head(fromInter), NEW r, r = Tail(fromInter)
  PROVE  /\ Fewer(r, fromInter) /\ MapOK(h) /\ Has(fromInter, h.type)
         /\ Replies(r, active, quitting, pack, pack_db) /\ Apart(r, toInter)
         /\ h.type = "saved" =>
              /\ h.char \in quitting /\ pack_db[h.char] \subseteq pack[h.char]
              /\ h.char \notin Who(r, "saved") /\ h.char \notin Who(toInter, "char")
         /\ h.type = "authok" =>
              /\ h.char \notin active \union quitting /\ pack_db[h.char] \subseteq h.items
              /\ h.char \notin Who(r, "authok") /\ h.char \notin Who(toInter, "auth")
              /\ \A i \in h.items : Brings(fromInter, h.char, i)
         /\ h.type = "stored" => ~Has(r, "loaded") /\ ~Has(toInter, "load")
<1>1. PICK S : fromInter \in Seq(S)
  BY DEF SequencesOK
<1>2. Replies(fromInter, active, quitting, pack, pack_db) /\ Apart(fromInter, toInter)
  BY DEF PlacesInv, UnderWayOK
<1>3. Fewer(r, fromInter)
  BY <1>1, FewerTail
<1>4. h.char \in Who(fromInter, h.type) /\ Has(fromInter, h.type)
  BY <1>1, WhoTail
<1>5. Apart(r, toInter)
  BY <1>2, <1>3, FewerApart
<1>6. /\ Replies(r, active, quitting, pack, pack_db) /\ MapOK(h)
      /\ h.type = "saved" =>
           /\ h.char \in quitting /\ pack_db[h.char] \subseteq pack[h.char] /\ h.char \notin Who(r, "saved")
      /\ h.type = "authok" =>
           /\ h.char \notin active \union quitting /\ pack_db[h.char] \subseteq h.items
           /\ h.char \notin Who(r, "authok")
      /\ h.type = "stored" => ~Has(r, "loaded")
  BY <1>1, <1>2, RepliesTail
<1>7. \A i : h.type = "authok" /\ i \in h.items => Brings(fromInter, h.char, i)
  BY <1>1, BringsTail
<1>8. /\ h.type = "saved" => h.char \notin Who(toInter, "char")
      /\ h.type = "authok" => h.char \notin Who(toInter, "auth")
      /\ h.type = "stored" => ~Has(toInter, "load")
  BY <1>2, <1>4 DEF Apart
<1>. QED BY <1>3, <1>4, <1>5, <1>6, <1>7, <1>8

\* What every handler of the map-server leaves alone.
Reading(h) ==
  /\ fromInter # <<>> /\ h = Head(fromInter) /\ fromInter' = Tail(fromInter)
  /\ pack_db' = pack_db /\ gstor_db' = gstor_db /\ raced' = raced

LEMMA AuthokPlaces ==
  ASSUME PlacesInv, SequencesOK, NEW h, Reading(h), h.type = "authok", Authok(h.char, h.items, h.guild)
  PROVE  PlacesInv'
<1>. DEFINE c == h.char
            r == fromInter'
<1>1. /\ fromInter # <<>> /\ h = Head(fromInter) /\ r = Tail(fromInter)
      /\ pack_db' = pack_db /\ gstor_db' = gstor_db /\ raced' = raced
  BY DEF Reading
<1>2. /\ active' = active \union {c} /\ quitting' = quitting /\ pack' = [pack EXCEPT ![c] = h.items]
      /\ gstor' = gstor /\ toInter' = toInter
  BY DEF Authok
<1>. HIDE DEF r
<1>3. /\ Fewer(r, fromInter) /\ MapOK(h) /\ Replies(r, active, quitting, pack, pack_db) /\ Apart(r, toInter)
      /\ c \notin active \union quitting /\ c \notin Who(r, "authok") /\ c \notin Who(toInter, "auth")
      /\ \A i \in h.items : Brings(fromInter, c, i)
  BY <1>1, MapReads
<1>4. c \in Player /\ h.items \in SUBSET Item
  BY <1>3 DEF MapOK
<1>. HIDE DEF c
<1>5. PacksOK /\ Queue(toInter, active, quitting, pack)
  BY DEF PlacesInv, UnderWayOK
<1>6. /\ pack' \in [Player -> SUBSET Item] /\ pack'[c] = h.items
      /\ \A d \in Player : d # c => pack'[d] = pack[d]
  BY <1>2, <1>4, <1>5 DEF PacksOK
<1>7. PacksOK'
  <2>1. active' \subseteq Player /\ active' \cap quitting = {}
    BY <1>2, <1>3, <1>4, <1>5 DEF PacksOK
  <2>. QED BY <1>1, <1>2, <1>5, <1>6, <2>1 DEF PacksOK
<1>8. Queue(toInter, active', quitting, pack')
  <2>1. \A d \in Who(toInter, "char") : /\ d \in active' \union quitting
                                        /\ d \in quitting => pack'[d] = pack[d]
    BY <1>2, <1>3, <1>5, <1>6 DEF Queue, PacksOK
  <2>2. \A d \in Who(toInter, "auth") : d \notin active' \union quitting
    BY <1>2, <1>3, LoginsAreAway
  <2>. QED BY <1>5, <2>1, <2>2, QueueMoves
<1>9. Replies(r, active', quitting, pack', pack_db)
  <2>1. \A d \in Who(r, "saved") : d \in quitting /\ pack_db[d] \subseteq pack[d]
    BY <1>3 DEF Replies, Who
  <2>2. \A d \in Who(r, "saved") : pack_db[d] \subseteq pack'[d]
    BY <1>3, <1>5, <1>6, <2>1 DEF PacksOK
  <2>3. \A d \in Who(r, "authok") : d \notin active \union quitting
    BY <1>3 DEF Replies, Who
  <2>4. \A d \in Who(r, "authok") : d \notin active' \union quitting
    BY <1>2, <1>3, <2>3
  <2>. QED BY <1>3, <2>1, <2>2, <2>4, RepliesMove
<1>10. UnderWayOK'
  BY <1>1, <1>2, <1>3, <1>8, <1>9 DEF UnderWayOK, r
<1>11. SameStorage /\ NothingNew
  BY <1>1, <1>2, <1>3 DEF SameStorage, NothingNew, r
<1>12. LoadsOK' /\ \A i : InStorage(i)' => InStorage(i)
  BY <1>11, SameStorageOK DEF PlacesInv
<1>13. ASSUME NEW d \in Player, NEW i, Held(d, i)' PROVE Held(d, i)
  <2>1. CASE d = c
    BY <1>2, <1>3, <1>6, <1>13, <2>1 DEF Held
  <2>2. CASE d # c
    BY <1>1, <1>2, <1>3, <1>6, <1>13, <2>2, HeldFewer DEF r
  <2>. QED BY <2>1, <2>2
<1>. QED BY <1>1, <1>3, <1>7, <1>10, <1>12, <1>13, LessPlaces DEF r

\* The pack of a quitting player is dropped when the table has no more.
LEMMA SavedPlaces ==
  ASSUME PlacesInv, SequencesOK, NEW h, Reading(h), h.type = "saved", CharSaved(h.char)
  PROVE  PlacesInv'
<1>. DEFINE c == h.char
            r == fromInter'
<1>1. /\ fromInter # <<>> /\ h = Head(fromInter) /\ r = Tail(fromInter)
      /\ pack_db' = pack_db /\ gstor_db' = gstor_db /\ raced' = raced
  BY DEF Reading
<1>2. /\ active' = active /\ quitting' = quitting \ {c} /\ pack' = pack
      /\ gstor' = gstor /\ toInter' = toInter
  BY DEF CharSaved
<1>. HIDE DEF r
<1>3. /\ Fewer(r, fromInter) /\ Replies(r, active, quitting, pack, pack_db) /\ Apart(r, toInter)
      /\ c \in quitting /\ pack_db[c] \subseteq pack[c]
      /\ c \notin Who(r, "saved") /\ c \notin Who(toInter, "char")
  BY <1>1, MapReads
<1>. HIDE DEF c
<1>4. PacksOK /\ Queue(toInter, active, quitting, pack)
  BY DEF PlacesInv, UnderWayOK
<1>5. PacksOK' /\ c \notin active
  BY <1>1, <1>2, <1>3, <1>4 DEF PacksOK
<1>6. Queue(toInter, active, quitting', pack)
  <2>1. \A d \in Who(toInter, "char") : d \in active \union quitting' /\ (d \in quitting => d \in quitting')
    BY <1>2, <1>3, <1>4 DEF Queue
  <2>2. \A d \in Who(toInter, "auth") : d \notin active \union quitting'
    BY <1>2, LoginsAreAway
  <2>. QED BY <1>4, <2>1, <2>2, QueueMoves
<1>7. Replies(r, active, quitting', pack, pack_db)
  <2>1. \A d \in Who(r, "saved") : d \in quitting' /\ pack_db[d] \subseteq pack[d]
    BY <1>2, <1>3 DEF Replies, Who
  <2>2. \A d \in Who(r, "authok") : d \notin active \union quitting'
    BY <1>2, <1>3 DEF Replies, Who
  <2>. QED BY <1>3, <2>1, <2>2, RepliesMove
<1>8. UnderWayOK'
  BY <1>1, <1>2, <1>3, <1>6, <1>7 DEF UnderWayOK, r
<1>9. SameStorage /\ NothingNew
  BY <1>1, <1>2, <1>3 DEF SameStorage, NothingNew, r
<1>10. LoadsOK' /\ \A i : InStorage(i)' => InStorage(i)
  BY <1>9, SameStorageOK DEF PlacesInv
<1>11. ASSUME NEW i, Held(c, i)' PROVE Held(c, i)
  <2>1. c \notin active' \union quitting'
    BY <1>2, <1>5
  <2>2. c \notin Who(fromInter, "authok")
    BY <1>3, LoginsAreAway
  <2>3. ~Brings(fromInter, c, i)
    BY <2>2, WhoIs DEF Brings
  <2>4. ~Brings(r, c, i)
    BY <1>3, <2>3 DEF Fewer
  <2>5. i \in pack_db[c]
    BY <1>1, <1>11, <2>1, <2>4 DEF Held, r
  <2>. QED BY <1>3, <2>5 DEF Held
<1>12. ASSUME NEW d \in Player, NEW i, Held(d, i)', d # c PROVE Held(d, i)
  <2>1. d \in active' \union quitting' <=> d \in active \union quitting
    BY <1>2, <1>12
  <2>. QED BY <1>1, <1>2, <1>3, <1>12, <2>1, HeldFewer DEF r
<1>. QED BY <1>1, <1>3, <1>5, <1>8, <1>10, <1>11, <1>12, LessPlaces DEF r

\* Nothing moves but the storage.
LEMMA StorageMoves ==
  ASSUME PlacesInv, SequencesOK, NEW h, Reading(h),
         UNCHANGED <<pack, active, quitting, toInter>>,
         gstor' \in guild_storage \union {NoStorage}, LoadsOK', \A i : InStorage(i)' => InStorage(i)
  PROVE  PlacesInv'
<1>1. /\ fromInter # <<>> /\ h = Head(fromInter) /\ fromInter' = Tail(fromInter)
      /\ pack_db' = pack_db /\ gstor_db' = gstor_db /\ raced' = raced
      /\ UNCHANGED pack /\ UNCHANGED active /\ UNCHANGED quitting /\ UNCHANGED toInter
  BY DEF Reading
<1>2. /\ Fewer(fromInter', fromInter) /\ Replies(fromInter', active, quitting, pack, pack_db)
      /\ Apart(fromInter', toInter)
  BY <1>1, MapReads
<1>3. PacksOK' /\ UnderWayOK'
  BY <1>1, <1>2 DEF PlacesInv, PacksOK, UnderWayOK
<1>4. \A c \in Player : \A i : Held(c, i)' => Held(c, i)
  BY <1>1, <1>2, HeldFewer
<1>. QED BY <1>1, <1>2, <1>3, <1>4, LessPlaces

LEMMA StoredPlaces ==
  ASSUME PlacesInv, SequencesOK, NEW h, Reading(h), h.type = "stored", gstorage_storagesaved
  PROVE  PlacesInv'
<1>1. /\ fromInter # <<>> /\ h = Head(fromInter) /\ fromInter' = Tail(fromInter)
      /\ pack_db' = pack_db /\ gstor_db' = gstor_db /\ raced' = raced
  BY DEF Reading
<1>2. /\ gstor' = gstor \/ (gstor # NoStorage /\ gstor' = [gstor EXCEPT !.dirty = FALSE])
      /\ UNCHANGED <<pack, active, quitting, toInter>> /\ UNCHANGED toInter
  BY DEF gstorage_storagesaved
<1>3. ~Has(fromInter', "loaded") /\ ~Has(toInter, "load") /\ Has(fromInter, "stored")
  BY <1>1, MapReads
<1>4. gstor # NoStorage /\ gstor \in guild_storage
  BY <1>3 DEF PlacesInv, LoadsOK, SaveUnderWay, PacksOK
<1>5. gstor' \in guild_storage /\ gstor'.items = gstor.items
  <2>1. [gstor EXCEPT !.dirty = FALSE] \in guild_storage /\ [gstor EXCEPT !.dirty = FALSE].items = gstor.items
    BY <1>4 DEF guild_storage
  <2>. QED BY <1>2, <1>4, <2>1
<1>6. gstor' # NoStorage
  BY <1>5, StorageAssumption
<1>7. ~LoadUnderWay'
  BY <1>2, <1>3 DEF LoadUnderWay
<1>8. LoadsOK'
  BY <1>3, <1>6, <1>7 DEF LoadsOK, Has
<1>9. ASSUME NEW i, InStorage(i)' PROVE InStorage(i)
  <2>1. i \in gstor'.items
    BY <1>6, <1>7, <1>9 DEF InStorage
  <2>. QED BY <1>4, <1>5, <2>1 DEF InStorage
<1>. QED BY <1>2, <1>5, <1>8, <1>9, StorageMoves

\* A storage that replaces another has what the table has, and no save of the
\* other is under way.
LEMMA LoadedPlaces ==
  ASSUME PlacesInv, SequencesOK, NEW h, Reading(h), h.type = "loaded", LoadGuildStorage(h.char, h.items)
  PROVE  PlacesInv'
<1>1. /\ fromInter # <<>> /\ h = Head(fromInter) /\ fromInter' = Tail(fromInter)
      /\ pack_db' = pack_db /\ gstor_db' = gstor_db /\ raced' = raced
  BY DEF Reading
<1>2. UNCHANGED <<pack, active, quitting, toInter>> /\ UNCHANGED toInter
  BY DEF LoadGuildStorage
<1>3. Fewer(fromInter', fromInter) /\ MapOK(h) /\ Has(fromInter, "loaded")
  BY <1>1, MapReads
<1>4. gstor \in guild_storage \union {NoStorage} /\ LoadsOK
  BY DEF PlacesInv, PacksOK
<1>5. CASE gstor' = gstor
  <2>1. SameStorage /\ NothingNew
    BY <1>1, <1>2, <1>3, <1>5 DEF SameStorage, NothingNew
  <2>2. LoadsOK' /\ \A i : InStorage(i)' => InStorage(i)
    BY <1>4, <2>1, SameStorageOK
  <2>. QED BY <1>2, <1>4, <1>5, <2>2, StorageMoves
<1>6. CASE gstor' # gstor
  <2>1. /\ h.char \in active /\ (gstor = NoStorage \/ ~gstor.dirty)
        /\ \E x \in Player \union {Nobody} : gstor' = [Loaded(h.items) EXCEPT !.opened = x]
    <3>1. h.char \in Player
      BY <1>3 DEF MapOK
    <3>. QED BY <1>6, <3>1 DEF LoadGuildStorage
  <2>2. Loaded(h.items) \in guild_storage /\ Loaded(h.items).items = h.items /\ Loaded(h.items).dirty = FALSE
    BY <1>3 DEF MapOK, Loaded, guild_storage
  <2>3. gstor' \in guild_storage /\ gstor'.items = h.items /\ gstor'.dirty = FALSE
    <3>. DEFINE gs == Loaded(h.items)
    <3>1. gs \in guild_storage /\ gs.items = h.items /\ gs.dirty = FALSE
      BY <2>2
    <3>2. PICK x \in Player \union {Nobody} : gstor' = [gs EXCEPT !.opened = x]
      BY <2>1
    <3>. HIDE DEF gs
    <3>. QED BY <3>1, <3>2, MarksOK
  <2>4. gstor' # NoStorage
    BY <2>3, MarksOK
  <2>5. LoadedOf(fromInter, gstor_db)
    BY <1>4, <2>1 DEF LoadsOK, LoadedOf
  <2>6. h.items \subseteq gstor_db
    <3>1. PICK S : fromInter \in Seq(S)
      BY DEF SequencesOK
    <3>. QED BY <1>1, <2>5, <3>1, BringsTail
  <2>7. ~SaveUnderWay
    BY <1>3, <1>4, <2>1 DEF LoadsOK, LoadUnderWay
  <2>8. LoadedOf(fromInter', gstor_db')
    BY <1>1, <1>3, <2>5 DEF Fewer
  <2>9. ~SaveUnderWay'
    BY <1>2, <1>3, <2>7 DEF SaveUnderWay, Fewer
  <2>10. LoadsOK'
    BY <2>8, <2>9 DEF LoadsOK, LoadedOf
  <2>11. ASSUME NEW i, InStorage(i)' PROVE InStorage(i)
    <3>1. i \in gstor_db
      BY <1>1, <2>3, <2>4, <2>6, <2>11 DEF InStorage
    <3>. QED BY <1>3, <2>1, <3>1 DEF InStorage, LoadUnderWay
  <2>. QED BY <1>2, <2>3, <2>10, <2>11, StorageMoves
<1>. QED BY <1>5, <1>6

LEMMA EnsuredIs ==
  ASSUME gstor \in guild_storage \union {NoStorage}
  PROVE  Ensured \in guild_storage /\ Ensured.items \subseteq Item /\ Ensured.dirty \in BOOLEAN
<1>1. Loaded({}) \in guild_storage
  BY DEF Loaded, guild_storage
<1>2. Ensured \in guild_storage
  BY <1>1 DEF Ensured
<1>. QED BY <1>2 DEF guild_storage

\* What a retrieval brings is put into the storage, which is closed.
Puts(kept) ==
  \/ gstor' = [Ensured EXCEPT !.items = Ensured.items \union kept, !.dirty = Ensured.dirty \/ kept # {},
                              !.locked = FALSE, !.opened = Nobody]
  \/ gstor' = [[Ensured EXCEPT !.opened = Nobody]
                 EXCEPT !.items = Ensured.items \union kept, !.dirty = Ensured.dirty \/ kept # {}]

LEMMA PutsOK ==
  ASSUME gstor \in guild_storage \union {NoStorage}, NEW kept \in SUBSET Item, Puts(kept)
  PROVE  /\ gstor' \in guild_storage /\ gstor' # NoStorage
         /\ gstor'.items = Ensured.items \union kept /\ gstor'.dirty = (Ensured.dirty \/ kept # {})
<1>. DEFINE gs == Ensured
            g2 == [gs EXCEPT !.opened = Nobody]
            x == gs.items \union kept
<1>1. gs \in guild_storage /\ x \in SUBSET Item
  BY EnsuredIs
<1>2. g2 \in guild_storage
  BY <1>1, MarksOK
<1>3. PICK b \in BOOLEAN : b = (gs.dirty \/ kept # {})
  OBVIOUS
<1>. DEFINE e1 == [gs EXCEPT !.items = x, !.dirty = b, !.locked = FALSE, !.opened = Nobody]
            e2 == [g2 EXCEPT !.items = x, !.dirty = b]
<1>4. gstor' = e1 \/ gstor' = e2
  BY <1>3 DEF Puts
<1>. HIDE DEF g2, x, gs
<1>5. gstor' \in guild_storage /\ gstor'.items = x /\ gstor'.dirty = b
  <2>1. e1 \in guild_storage /\ e1.items = x /\ e1.dirty = b
    BY <1>1 DEF guild_storage
  <2>2. e2 \in guild_storage /\ e2.items = x /\ e2.dirty = b
    BY <1>1, <1>2 DEF guild_storage
  <2>. HIDE DEF e1, e2
  <2>. QED BY <1>4, <2>1, <2>2
<1>6. gstor' # NoStorage
  BY <1>5, MarksOK
<1>. QED BY <1>3, <1>5, <1>6 DEF x, gs

LEMMA RetrievedPlaces ==
  ASSUME PlacesInv, SequencesOK, NEW h, Reading(h), h.type = "retrieved", Retrieved(h.items)
  PROVE  PlacesInv'
<1>1. /\ fromInter # <<>> /\ h = Head(fromInter) /\ fromInter' = Tail(fromInter)
      /\ pack_db' = pack_db /\ gstor_db' = gstor_db /\ raced' = raced
  BY DEF Reading
<1>2. /\ UNCHANGED <<pack, active, quitting, toInter>> /\ UNCHANGED toInter /\ UNCHANGED pack
      /\ UNCHANGED active /\ UNCHANGED quitting
  BY DEF Retrieved
<1>3. /\ Fewer(fromInter', fromInter) /\ MapOK(h)
      /\ Replies(fromInter', active, quitting, pack, pack_db) /\ Apart(fromInter', toInter)
  <2>. DEFINE r == fromInter'
  <2>1. r = Tail(fromInter)
    BY <1>1
  <2>. HIDE DEF r
  <2>2. /\ Fewer(r, fromInter) /\ MapOK(h)
        /\ Replies(r, active, quitting, pack, pack_db) /\ Apart(r, toInter)
    BY <1>1, <2>1, MapReads
  <2>. QED BY <2>2 DEF r
<1>4. gstor \in guild_storage \union {NoStorage} /\ LoadsOK
  BY DEF PlacesInv, PacksOK
<1>5. CASE h.items = {}
  <2>1. SameStorage /\ gstor' \in guild_storage \union {NoStorage}
    <3>1. CASE gstor = NoStorage
      BY <1>5, <3>1 DEF Retrieved, SameStorage
    <3>2. CASE gstor # NoStorage
      <4>1. gstor' = [gstor EXCEPT !.locked = FALSE] /\ gstor \in guild_storage
        BY <1>4, <1>5, <3>2 DEF Retrieved
      <4>2. gstor' \in guild_storage /\ gstor'.items = gstor.items /\ gstor'.dirty = gstor.dirty
        BY <4>1, MarksOK
      <4>3. gstor' # NoStorage
        BY <4>2, MarksOK
      <4>. QED BY <3>2, <4>2, <4>3 DEF SameStorage
    <3>. QED BY <3>1, <3>2
  <2>2. NothingNew
    BY <1>1, <1>2, <1>3 DEF NothingNew
  <2>3. LoadsOK' /\ \A i : InStorage(i)' => InStorage(i)
    BY <1>4, <2>1, <2>2, SameStorageOK
  <2>. QED BY <1>2, <2>1, <2>3, StorageMoves
<1>6. CASE h.items # {}
  <2>. DEFINE kept == Kept(Ensured.items, h.items)
  <2>1. kept \subseteq h.items /\ h.items \subseteq Item
    BY <1>3, KeptOK DEF MapOK
  <2>2. Ensured # NoStorage
    BY <1>4, EnsuredIs, MarksOK
  <2>3. Puts(kept)
    BY <1>6, <2>2 DEF Retrieved, Puts
  <2>. HIDE DEF kept
  <2>4. /\ gstor' \in guild_storage /\ gstor' # NoStorage
        /\ gstor'.items = Ensured.items \union kept /\ gstor'.dirty = (Ensured.dirty \/ kept # {})
    BY <1>4, <2>1, <2>3, PutsOK
  <2>5. NothingNew
    BY <1>1, <1>2, <1>3 DEF NothingNew
  <2>6. LoadsOK' /\ \A i : i \notin kept /\ InStorage(i)' => InStorage(i)
    BY <1>4, <2>4, <2>5, EnsuredStorageOK
  <2>7. PacksOK' /\ UnderWayOK'
    BY <1>1, <1>2, <1>3, <2>4 DEF PlacesInv, PacksOK, UnderWayOK
  <2>8. \A c \in Player : \A i : Held(c, i)' => Held(c, i)
    BY <1>1, <1>2, <1>3, HeldFewer
  <2>9. ASSUME NEW i \in Item \ raced PROVE One(i)'
    <3>1. One(i)
      BY DEF PlacesInv
    <3>2. CASE i \notin kept
      BY <1>3, <2>6, <2>8, <3>1, <3>2, FewerPlaces DEF Fewer
    <3>3. CASE i \in kept
      <4>1. PICK S : fromInter \in Seq(S)
        BY DEF SequencesOK
      <4>2. Ways(fromInter, i) # {} /\ (Single(Ways(fromInter, i)) => Ways(fromInter', i) = {})
        BY <1>1, <2>1, <3>3, <4>1, WaysTail
      <4>3. Ways(fromInter', i) = {} /\ Holders(i) = {}
        BY <3>1, <4>2 DEF One
      <4>4. \A c \in Player : ~Held(c, i)'
        BY <2>8, <4>3 DEF Holders
      <4>. QED BY <4>3, <4>4, OnlyInStorage
    <3>. QED BY <3>2, <3>3
  <2>. QED BY <1>1, <2>6, <2>7, <2>9 DEF PlacesInv
<1>. QED BY <1>5, <1>6

\* A member is expelled and keeps its pack: saves may have been sent, and the
\* storage opened, closed or locked.
LEMMA MemberGoes ==
  ASSUME PlacesInv, SequencesOK, NEW h, Reading(h), UNCHANGED <<pack, active, quitting>>,
         SameStorage, gstor' \in guild_storage \union {NoStorage},
         NEW c, Queue(toInter', active, quitting, pack), Grown(toInter, toInter', c, FALSE),
         Apart(fromInter, toInter')
  PROVE  PlacesInv'
<1>1. /\ fromInter # <<>> /\ h = Head(fromInter) /\ fromInter' = Tail(fromInter)
      /\ pack_db' = pack_db /\ gstor_db' = gstor_db /\ raced' = raced
      /\ UNCHANGED pack /\ UNCHANGED active /\ UNCHANGED quitting
  BY DEF Reading
<1>2. Fewer(fromInter', fromInter) /\ Replies(fromInter', active, quitting, pack, pack_db)
  BY <1>1, MapReads
<1>3. Apart(fromInter', toInter')
  BY <1>2, FewerApart
<1>4. PacksOK' /\ UnderWayOK'
  BY <1>1, <1>2, <1>3 DEF PlacesInv, PacksOK, UnderWayOK
<1>5. NothingNew
  BY <1>1, <1>2, NothingNewGrown
<1>6. LoadsOK' /\ \A i : InStorage(i)' => InStorage(i)
  BY <1>5, SameStorageOK DEF PlacesInv
<1>7. \A d \in Player : \A i : Held(d, i)' => Held(d, i)
  BY <1>1, <1>2, HeldFewer
<1>. QED BY <1>1, <1>2, <1>4, <1>6, <1>7, LessPlaces

\* The saves that may have been sent, if any was.
LEMMA MaySave ==
  ASSUME PlacesInv, SequencesOK, NEW c \in active, NEW items \in SUBSET Item,
         NEW t, t = toInter \/ t = toInter \o SavePackets(c, items, FALSE)
  PROVE  Queue(t, active, quitting, pack) /\ Grown(toInter, t, c, FALSE) /\ Apart(fromInter, t)
<1>1. PICK S : toInter \in Seq(S)
  BY DEF SequencesOK
<1>2. Queue(toInter, active, quitting, pack) /\ Grown(toInter, toInter, c, FALSE) /\ Apart(fromInter, toInter)
  BY <1>1, GrownNone DEF PlacesInv, UnderWayOK
<1>. DEFINE u == toInter \o SavePackets(c, items, FALSE)
<1>3. Queue(u, active, quitting, pack) /\ Grown(toInter, u, c, FALSE) /\ Apart(fromInter, u)
  BY PlayerSaves
<1>4. t = toInter \/ t = u
  OBVIOUS
<1>. HIDE DEF u
<1>. QED BY <1>2, <1>3, <1>4

LEMMA OfflinePlaces ==
  ASSUME PlacesInv, StorageInv, NEW h, Reading(h), UNCHANGED <<active, quitting>>,
         NEW c \in Player, RetrieveOffline(c)
  PROVE  PlacesInv'
<1>. DEFINE opener == IF gstor = NoStorage THEN Nobody ELSE gstor.opened
            closes == opener # Nobody /\ opener \in guildsmen
            a == IF closes THEN SavePackets(opener, pack[opener], FALSE) ELSE <<>>
            p == [type |-> "retrieve", char |-> c]
            t == toInter \o a
<1>1. /\ toInter' = t \o <<p>> /\ UNCHANGED pack
      /\ gstor' = IF gstor = NoStorage THEN gstor
                  ELSE [gstor EXCEPT !.locked = TRUE, !.opened = IF closes THEN Nobody ELSE gstor.opened]
  BY DEF RetrieveOffline
<1>2. PICK S : toInter \in Seq(S)
  BY DEF StorageInv, SequencesOK
<1>3. /\ Queue(toInter, active, quitting, pack) /\ Apart(fromInter, toInter)
      /\ pack \in [Player -> SUBSET Item] /\ active \subseteq Player
      /\ gstor \in guild_storage \union {NoStorage} /\ SequencesOK /\ guildsmen \subseteq active
  BY DEF PlacesInv, UnderWayOK, PacksOK, StorageInv, WindowsOK
<1>4. \E d : Queue(t, active, quitting, pack) /\ Grown(toInter, t, d, FALSE) /\ Apart(fromInter, t)
  <2>1. CASE closes
    <3>1. opener \in active /\ pack[opener] \in SUBSET Item /\ t = toInter \o SavePackets(opener, pack[opener], FALSE)
      BY <1>3, <2>1
    <3>. DEFINE d == opener
    <3>2. d \in active /\ pack[d] \in SUBSET Item /\ t = toInter \o SavePackets(d, pack[d], FALSE)
      BY <3>1
    <3>. HIDE DEF d, t
    <3>3. Queue(t, active, quitting, pack) /\ Grown(toInter, t, d, FALSE) /\ Apart(fromInter, t)
      BY <1>3, <3>2, MaySave
    <3>. QED BY <3>3
  <2>2. CASE ~closes
    <3>1. t = toInter
      <4>1. a = <<>>
        BY <2>2
      <4>. HIDE DEF a
      <4>. QED BY <1>2, <4>1
    <3>2. Grown(toInter, toInter, c, FALSE)
      BY <1>2, GrownNone
    <3>. HIDE DEF t
    <3>. QED BY <1>3, <3>1, <3>2
  <2>. QED BY <2>1, <2>2
<1>5. PICK d : Queue(t, active, quitting, pack) /\ Grown(toInter, t, d, FALSE) /\ Apart(fromInter, t)
  BY <1>4
<1>6. PICK T : t \in Seq(T)
  BY <1>5 DEF Grown
<1>7. p.type = "retrieve" /\ InterOK(p)
  BY DEF InterOK
<1>. HIDE DEF t, p
<1>8. toInter' = Append(t, p)
  BY <1>1, <1>6
<1>9. /\ Queue(toInter', active, quitting, pack)
      /\ \A x : FinalOf(toInter', x) => FinalOf(t, x) \/ (p.type = "char" /\ p.final /\ p.char = x)
  BY <1>5, <1>6, <1>7, <1>8, QueueAppend
<1>10. /\ \A x : Who(toInter', x) = Who(t, x) \union (IF p.type = x THEN {p.char} ELSE {})
       /\ \A x : Has(toInter', x) <=> Has(t, x) \/ p.type = x
  BY <1>6, <1>8, WhoAppend
<1>11. /\ Who(toInter', "char") = Who(t, "char") /\ Who(toInter', "auth") = Who(t, "auth")
       /\ Has(toInter', "load") <=> Has(t, "load")
       /\ Has(toInter', "gstorage") <=> Has(t, "gstorage")
       /\ \A x : FinalOf(toInter', x) => FinalOf(t, x)
  BY <1>7, <1>9, <1>10
<1>12. \E X : toInter' \in Seq(X)
  BY <1>6, <1>8, AppendAt
<1>13. Grown(toInter, toInter', d, FALSE) /\ Apart(fromInter, toInter')
  BY <1>5, <1>11, <1>12 DEF Grown, Apart
<1>14. SameStorage /\ gstor' \in guild_storage \union {NoStorage}
  <2>1. CASE gstor = NoStorage
    BY <1>1, <2>1 DEF SameStorage
  <2>2. CASE gstor # NoStorage
    <3>1. gstor \in guild_storage /\ gstor.opened \in Player \union {Nobody}
      BY <1>3, <2>2 DEF guild_storage
    <3>. DEFINE x == IF closes THEN Nobody ELSE gstor.opened
                gs == [gstor EXCEPT !.locked = TRUE, !.opened = x]
    <3>2. x \in Player \union {Nobody} /\ gstor' = gs
      BY <1>1, <2>2, <3>1
    <3>. HIDE DEF x
    <3>3. gs \in guild_storage /\ gs.items = gstor.items /\ gs.dirty = gstor.dirty
      BY <3>1, <3>2 DEF guild_storage
    <3>. HIDE DEF gs
    <3>4. gs # NoStorage
      BY <3>3, MarksOK
    <3>. QED BY <2>2, <3>2, <3>3, <3>4 DEF SameStorage
  <2>. QED BY <2>1, <2>2
<1>. QED BY <1>1, <1>3, <1>9, <1>13, <1>14, MemberGoes

LEMMA OnlinePlaces ==
  ASSUME PlacesInv, StorageInv, NEW h, Reading(h), UNCHANGED <<active, quitting>>,
         NEW c \in active, RetrieveOnline(c)
  PROVE  PlacesInv'
<1>. DEFINE bound == pack[c] \cap Bound
            opener == IF gstor = NoStorage THEN Nobody ELSE gstor.opened
            found == opener # Nobody /\ opener \in guildsmen
            kept == Kept(Ensured.items, bound)
            q == IF found THEN SavePackets(opener, pack[opener], FALSE)
                 ELSE IF opener # Nobody THEN SavePackets(c, pack'[c], FALSE) ELSE <<>>
            r == fromInter'
            P == pack'
<1>1. /\ fromInter # <<>> /\ h = Head(fromInter) /\ r = Tail(fromInter)
      /\ pack_db' = pack_db /\ gstor_db' = gstor_db /\ raced' = raced
      /\ UNCHANGED active /\ UNCHANGED quitting
  BY DEF Reading
<1>2. /\ P = [pack EXCEPT ![c] = pack[c] \ bound]
      /\ c \in guildsmen => Send(q) /\ Puts(kept)
      /\ c \notin guildsmen => gstor' = gstor /\ toInter' = toInter
  BY DEF RetrieveOnline, Puts
<1>3. /\ Queue(toInter, active, quitting, pack) /\ Apart(fromInter, toInter)
      /\ pack \in [Player -> SUBSET Item] /\ c \in Player /\ guildsmen \subseteq active /\ SequencesOK
      /\ gstor \in guild_storage \union {NoStorage} /\ LoadsOK
  BY InTheGame DEF PlacesInv, UnderWayOK, PacksOK, StorageInv, WindowsOK
<1>4. /\ P \in [Player -> SUBSET Item] /\ P[c] = pack[c] \ bound
      /\ \A d \in Player : d # c => P[d] = pack[d]
  BY <1>2, <1>3
<1>5. kept \subseteq bound /\ bound \subseteq pack[c] /\ kept \in SUBSET Item
  BY <1>3, KeptOK
<1>. HIDE DEF r
<1>6. Fewer(r, fromInter) /\ Replies(r, active, quitting, pack, pack_db)
  BY <1>1, <1>3, MapReads
<1>. HIDE DEF bound, kept, P
<1>7. \E d : Queue(toInter', active, quitting, pack) /\ Grown(toInter, toInter', d, FALSE) /\ Apart(fromInter, toInter')
  <2>1. CASE toInter' = toInter
    <3>1. PICK S : toInter \in Seq(S)
      BY <1>3 DEF SequencesOK
    <3>. QED BY <1>3, <2>1, <3>1, GrownNone
  <2>2. CASE toInter' # toInter
    <3>1. toInter' = toInter \o q
      BY <1>2, <2>2 DEF Send
    <3>2. CASE found
      <4>. DEFINE d == opener
      <4>1. d \in active /\ pack[d] \in SUBSET Item /\ toInter' = toInter \o SavePackets(d, pack[d], FALSE)
        <5>1. active \subseteq Player
          BY DEF PlacesInv, PacksOK
        <5>. QED BY <1>3, <3>1, <3>2, <5>1
      <4>. HIDE DEF d
      <4>2. Queue(toInter', active, quitting, pack) /\ Grown(toInter, toInter', d, FALSE) /\ Apart(fromInter, toInter')
        BY <1>3, <4>1, MaySave
      <4>. QED BY <4>2
    <3>3. CASE ~found /\ opener # Nobody
      <4>1. P[c] \in SUBSET Item /\ toInter' = toInter \o SavePackets(c, P[c], FALSE)
        BY <1>3, <1>4, <3>1, <3>3 DEF P
      <4>2. Queue(toInter', active, quitting, pack) /\ Grown(toInter, toInter', c, FALSE) /\ Apart(fromInter, toInter')
        BY <1>3, <4>1, MaySave
      <4>. QED BY <4>2
    <3>4. CASE ~found /\ opener = Nobody
      <4>1. PICK S : toInter \in Seq(S)
        BY <1>3 DEF SequencesOK
      <4>2. q = <<>>
        BY <3>4
      <4>. HIDE DEF q
      <4>3. toInter' = toInter
        BY <3>1, <4>1, <4>2
      <4>. QED BY <2>2, <4>3
    <3>. QED BY <3>2, <3>3, <3>4
  <2>. QED BY <2>1, <2>2
<1>8. PICK d : Queue(toInter', active, quitting, pack) /\ Grown(toInter, toInter', d, FALSE) /\ Apart(fromInter, toInter')
  BY <1>7
<1>. HIDE DEF q, found, opener
<1>9. UnderWayOK'
  <2>1. Who(toInter', "auth") = Who(toInter, "auth")
    BY <1>8 DEF Grown
  <2>2. Queue(toInter', active, quitting, P) /\ Replies(r, active, quitting, P, pack_db)
    BY <1>4, <1>6, <1>8, <2>1, PackChanges
  <2>3. Apart(r, toInter')
    BY <1>6, <1>8, FewerApart
  <2>. QED BY <1>1, <2>2, <2>3 DEF UnderWayOK, P, r
<1>10. NothingNew
  BY <1>1, <1>6, <1>8, NothingNewGrown DEF r
<1>11. /\ gstor' \in guild_storage \union {NoStorage} /\ LoadsOK'
       /\ \A i : i \notin kept /\ InStorage(i)' => InStorage(i)
  <2>1. CASE c \in guildsmen
    <3>1. /\ gstor' \in guild_storage /\ gstor' # NoStorage
          /\ gstor'.items = Ensured.items \union kept /\ gstor'.dirty = (Ensured.dirty \/ kept # {})
      BY <1>2, <1>3, <1>5, <2>1, PutsOK
    <3>2. LoadsOK' /\ \A i : i \notin kept /\ InStorage(i)' => InStorage(i)
      BY <1>3, <1>10, <3>1, EnsuredStorageOK
    <3>. QED BY <3>1, <3>2
  <2>2. CASE c \notin guildsmen
    <3>1. SameStorage /\ gstor' \in guild_storage \union {NoStorage}
      BY <1>2, <1>3, <2>2 DEF SameStorage
    <3>. QED BY <1>3, <1>10, <3>1, SameStorageOK
  <2>. QED BY <2>1, <2>2
<1>12. PacksOK'
  BY <1>1, <1>4, <1>11 DEF PlacesInv, PacksOK, P
<1>13. \A x \in Player : \A i : Held(x, i)' => Held(x, i)
  <2>. SUFFICES ASSUME NEW x \in Player, NEW i, Held(x, i)' PROVE Held(x, i)
    OBVIOUS
  <2>1. pack'[x] \subseteq pack[x]
    BY <1>4 DEF P
  <2>2. Fewer(fromInter', fromInter) /\ pack_db'[x] \subseteq pack_db[x]
        /\ (x \in active' \union quitting' <=> x \in active \union quitting)
    BY <1>1, <1>6 DEF r
  <2>. QED BY <2>1, <2>2, HeldFewer
<1>14. ASSUME NEW i \in Item \ raced PROVE One(i)'
  <2>1. One(i)
    BY DEF PlacesInv
  <2>2. Fewer(fromInter', fromInter)
    BY <1>6 DEF r
  <2>3. CASE i \notin kept
    BY <1>11, <1>13, <2>1, <2>2, <2>3, FewerPlaces DEF Fewer
  <2>4. CASE i \in kept
    <3>1. Held(c, i) /\ ~Held(c, i)'
      <4>1. i \in pack[c] /\ i \notin pack'[c]
        BY <1>4, <1>5, <2>4 DEF P
      <4>. QED BY <1>1, <4>1 DEF Held
    <3>2. c \in Holders(i)
      BY <1>3, <3>1 DEF Holders
    <3>3. Single(Holders(i)) /\ Ways(fromInter, i) = {}
      BY <2>1, <3>2 DEF One
    <3>4. ASSUME NEW x \in Player, Held(x, i)' PROVE FALSE
      <4>1. x \in Holders(i)
        BY <1>13, <3>4 DEF Holders
      <4>2. x = c
        BY <3>2, <3>3, <4>1 DEF Single
      <4>. QED BY <3>1, <3>4, <4>2
    <3>5. Ways(fromInter', i) = {}
      BY <2>2, <3>3 DEF Fewer
    <3>. QED BY <3>4, <3>5, OnlyInStorage
  <2>. QED BY <2>3, <2>4
<1>. QED BY <1>1, <1>9, <1>11, <1>12, <1>14 DEF PlacesInv

LEMMA WithdrawPlaces ==
  ASSUME PlacesInv, StorageInv, NEW h, Reading(h), h.type = "withdraw", Withdraw(h.char)
  PROVE  PlacesInv'
<1>. DEFINE c == h.char
<1>1. UNCHANGED <<active, quitting>> /\ c \in Player /\ SequencesOK
  <2>1. fromInter # <<>> /\ h = Head(fromInter) /\ fromInter' = Tail(fromInter) /\ SequencesOK
    BY DEF Reading, StorageInv
  <2>2. MapOK(h)
    BY <2>1, MapReads
  <2>. QED BY <2>1, <2>2 DEF MapOK, Withdraw
<1>2. CASE c \notin active /\ RetrieveOffline(c)
  BY <1>1, <1>2, OfflinePlaces
<1>3. CASE c \in active /\ RetrieveOnline(c)
  BY <1>1, <1>3, OnlinePlaces
<1>4. CASE /\ c \in active /\ UNCHANGED pack
           /\ IF c \in storage_flag \cap guildsmen THEN gstorage_storageclose(c)
              ELSE UNCHANGED <<gstor, toInter, storage_flag, returned>>
  <2>1. gstor \in guild_storage \union {NoStorage} /\ pack[c] \in SUBSET Item
    BY <1>1 DEF PlacesInv, PacksOK
  <2>2. Opened /\ (toInter' = toInter \/ toInter' = toInter \o SavePackets(c, pack[c], FALSE))
    BY <1>4, <2>1 DEF gstorage_storageclose, Send, Opened
  <2>3. SameStorage /\ gstor' \in guild_storage \union {NoStorage}
    BY <2>1, <2>2, OpenedOK
  <2>. HIDE DEF c
  <2>4. Queue(toInter', active, quitting, pack) /\ Grown(toInter, toInter', c, FALSE) /\ Apart(fromInter, toInter')
    BY <1>1, <1>4, <2>1, <2>2, MaySave
  <2>. QED BY <1>1, <1>4, <2>3, <2>4, MemberGoes
<1>. QED BY <1>2, <1>3, <1>4 DEF Withdraw

LEMMA MapHandlesPlaces == PlacesInv /\ StorageInv /\ MapHandles => PlacesInv'
<1>. SUFFICES ASSUME PlacesInv, StorageInv, MapHandles PROVE PlacesInv'
  OBVIOUS
<1>. DEFINE h == Head(fromInter)
<1>1. Reading(h) /\ SequencesOK
  BY DEF MapHandles, Reading, tables, StorageInv
<1>2. \/ h.type = "authok" /\ Authok(h.char, h.items, h.guild)
      \/ h.type = "loaded" /\ LoadGuildStorage(h.char, h.items)
      \/ h.type = "stored" /\ gstorage_storagesaved
      \/ h.type = "saved" /\ CharSaved(h.char)
      \/ h.type = "withdraw" /\ Withdraw(h.char)
      \/ h.type = "retrieved" /\ Retrieved(h.items)
  BY DEF MapHandles
<1>. HIDE DEF h
<1>. QED BY <1>1, <1>2, AuthokPlaces, LoadedPlaces, StoredPlaces, SavedPlaces, WithdrawPlaces, RetrievedPlaces

-----------------------------------------------------------------------------
(* Packets for the char-server *)

LEMMA InterReads ==
  ASSUME PlacesInv, SequencesOK, toInter # <<>>, NEW h, h = Head(toInter), NEW r, r = Tail(toInter)
  PROVE  /\ Queue(r, active, quitting, pack) /\ InterOK(h) /\ Apart(fromInter, r)
         /\ h.char \in Who(toInter, h.type) /\ Has(toInter, h.type)
         /\ \A t : Who(r, t) \subseteq Who(toInter, t) /\ (Has(r, t) => Has(toInter, t))
         /\ h.type = "char" => h.char \in active \union quitting /\ h.char \notin Who(fromInter, "saved")
         /\ h.type = "char" /\ h.final
              => h.char \in quitting /\ h.items = pack[h.char] /\ h.char \notin Who(r, "char")
         /\ h.type = "auth" => /\ h.char \notin active \union quitting /\ h.char \notin Who(r, "auth")
                               /\ h.char \notin Who(fromInter, "authok")
         /\ h.type = "gstorage" => ~Has(r, "load")
         /\ h.type = "load" => ~Has(fromInter, "stored")
<1>1. PICK S : toInter \in Seq(S)
  BY DEF SequencesOK
<1>2. Queue(toInter, active, quitting, pack) /\ Apart(fromInter, toInter)
  BY DEF PlacesInv, UnderWayOK
<1>3. /\ Queue(r, active, quitting, pack) /\ InterOK(h)
      /\ h.type = "char" => h.char \in active \union quitting
      /\ h.type = "char" /\ h.final
           => h.char \in quitting /\ h.items = pack[h.char] /\ h.char \notin Who(r, "char")
      /\ h.type = "auth" => h.char \notin active \union quitting /\ h.char \notin Who(r, "auth")
      /\ h.type = "gstorage" => ~Has(r, "load")
  BY <1>1, <1>2, QueueTail
<1>4. /\ \A t : Who(r, t) \subseteq Who(toInter, t)
      /\ \A t : Has(r, t) => Has(toInter, t)
      /\ h.char \in Who(toInter, h.type) /\ Has(toInter, h.type)
  BY <1>1, WhoTail
<1>5. Apart(fromInter, r)
  <2>1. Who(r, "char") \subseteq Who(toInter, "char") /\ Who(r, "auth") \subseteq Who(toInter, "auth")
        /\ (Has(r, "load") => Has(toInter, "load"))
    BY <1>4
  <2>. QED BY <1>2, <2>1 DEF Apart
<1>6. /\ h.type = "char" => h.char \notin Who(fromInter, "saved")
      /\ h.type = "auth" => h.char \notin Who(fromInter, "authok")
      /\ h.type = "load" => ~Has(fromInter, "stored")
  BY <1>2, <1>4 DEF Apart
<1>. QED BY <1>3, <1>4, <1>5, <1>6

\* What every handler of the char-server leaves alone.
Answering(h) ==
  /\ toInter # <<>> /\ h = Head(toInter) /\ toInter' = Tail(toInter)
  /\ gstor' = gstor /\ pack' = pack /\ active' = active /\ quitting' = quitting

Adds(r, p) ==
  /\ \A t : Who(r, t) = Who(fromInter, t) \union (IF p.type = t THEN {p.char} ELSE {})
  /\ \A t : Has(r, t) <=> Has(fromInter, t) \/ p.type = t
  /\ \A c, i : Brings(r, c, i)
       => Brings(fromInter, c, i) \/ (p.type = "authok" /\ p.char = c /\ i \in p.items)
  /\ \A D : LoadedOf(fromInter, D) /\ (p.type = "loaded" => p.items \subseteq D) => LoadedOf(r, D)
  /\ \A i : ~(p.type = "retrieved" /\ i \in p.items) => Ways(r, i) = Ways(fromInter, i)
  /\ \A i : Ways(fromInter, i) = {} => Single(Ways(r, i))

LEMMA Answered ==
  ASSUME SequencesOK, NEW p, NEW r, r = Append(fromInter, p)
  PROVE  Adds(r, p)
<1>1. PICK S : fromInter \in Seq(S)
  BY DEF SequencesOK
<1>2. /\ \A t : Who(r, t) = Who(fromInter, t) \union (IF p.type = t THEN {p.char} ELSE {})
      /\ \A t : Has(r, t) <=> Has(fromInter, t) \/ p.type = t
  BY <1>1, WhoAppend
<1>3. /\ \A c, i : Brings(r, c, i)
           => Brings(fromInter, c, i) \/ (p.type = "authok" /\ p.char = c /\ i \in p.items)
      /\ \A D : LoadedOf(fromInter, D) /\ (p.type = "loaded" => p.items \subseteq D) => LoadedOf(r, D)
  BY <1>1, BringsAppend
<1>4. /\ \A i : ~(p.type = "retrieved" /\ i \in p.items) => Ways(r, i) = Ways(fromInter, i)
      /\ \A i : Ways(fromInter, i) = {} => Single(Ways(r, i))
  BY <1>1, WaysAppend
<1>. QED BY <1>2, <1>3, <1>4 DEF Adds

\* The places after an answer that brings nothing back to the storage.
LEMMA AnswerPlaces ==
  ASSUME PlacesInv, PacksOK', UnderWayOK', LoadsOK', raced' = raced,
         \A i : Ways(fromInter', i) = Ways(fromInter, i),
         \A i : InStorage(i)' => InStorage(i),
         \A c \in Player : \A i : Held(c, i)' => Held(c, i)
  PROVE  PlacesInv'
<1>1. ASSUME NEW i \in Item \ raced PROVE One(i)'
  <2>1. One(i) /\ Ways(fromInter', i) = Ways(fromInter, i)
    BY DEF PlacesInv
  <2>. QED BY <2>1, FewerPlaces
<1>. QED BY <1>1 DEF PlacesInv

LEMMA LoadAnswerPlaces ==
  ASSUME PlacesInv, SequencesOK, NEW h, Answering(h), h.type = "load",
         fromInter' = Append(fromInter, LoadedPacket(h.char)), UNCHANGED tables
  PROVE  PlacesInv'
<1>. DEFINE p == LoadedPacket(h.char)
            r == fromInter'
            s == toInter'
<1>1. /\ toInter # <<>> /\ h = Head(toInter) /\ s = Tail(toInter)
      /\ gstor' = gstor /\ pack' = pack /\ active' = active /\ quitting' = quitting
      /\ pack_db' = pack_db /\ gstor_db' = gstor_db /\ raced' = raced
      /\ r = Append(fromInter, p)
  BY DEF Answering, tables
<1>. HIDE DEF s, r
<1>2. /\ Queue(s, active, quitting, pack) /\ InterOK(h) /\ Apart(fromInter, s)
      /\ Has(toInter, "load") /\ ~Has(fromInter, "stored")
      /\ \A t : Who(s, t) \subseteq Who(toInter, t) /\ (Has(s, t) => Has(toInter, t))
  BY <1>1, InterReads
<1>3. PacksOK /\ Replies(fromInter, active, quitting, pack, pack_db) /\ LoadsOK
  BY DEF PlacesInv, UnderWayOK
<1>4. p.type = "loaded" /\ p.items = gstor_db /\ MapOK(p)
  BY <1>2, <1>3 DEF InterOK, MapOK, LoadedPacket, PacksOK
<1>. HIDE DEF p
<1>5. Adds(r, p)
  BY <1>1, Answered
<1>6. Who(r, "saved") = Who(fromInter, "saved") /\ Who(r, "authok") = Who(fromInter, "authok") /\ ~Has(r, "stored")
  BY <1>2, <1>4, <1>5 DEF Adds
<1>7. UnderWayOK'
  <2>1. Replies(r, active, quitting, pack, pack_db)
    <3>1. PICK S : fromInter \in Seq(S)
      BY DEF SequencesOK
    <3>. QED BY <1>1, <1>2, <1>3, <1>4, <3>1, RepliesAppend
  <2>2. Apart(r, s)
    BY <1>2, <1>6 DEF Apart
  <2>. QED BY <1>1, <1>2, <2>1, <2>2 DEF UnderWayOK, r, s
<1>8. LoadUnderWay /\ (SaveUnderWay' => SaveUnderWay)
  BY <1>2, <1>6 DEF LoadUnderWay, SaveUnderWay, r, s
<1>9. LoadsOK'
  <2>1. gstor' = NoStorage \/ ~gstor'.dirty => LoadedOf(r, gstor_db')
    <3>1. gstor = NoStorage \/ ~gstor.dirty => LoadedOf(fromInter, gstor_db)
      BY <1>3 DEF LoadsOK, LoadedOf
    <3>. QED BY <1>1, <1>4, <1>5, <3>1 DEF Adds
  <2>. QED BY <1>1, <1>3, <1>8, <2>1 DEF LoadsOK, LoadedOf, r
<1>10. \A i : InStorage(i)' => InStorage(i)
  BY <1>1, <1>8 DEF InStorage
<1>11. \A c \in Player : \A i : Held(c, i)' => Held(c, i)
  BY <1>1, <1>4, <1>5 DEF Held, Adds, r
<1>12. \A i : Ways(fromInter', i) = Ways(fromInter, i)
  BY <1>4, <1>5 DEF Adds, r
<1>13. PacksOK'
  BY <1>1, <1>3 DEF PacksOK
<1>. QED BY <1>1, <1>7, <1>9, <1>10, <1>11, <1>12, <1>13, AnswerPlaces

LEMMA LoginAnswerPlaces ==
  ASSUME PlacesInv, SequencesOK, NEW h, Answering(h), h.type = "auth", NEW guild,
         fromInter' = Append(fromInter, [type |-> "authok", char |-> h.char,
                                         items |-> pack_db[h.char], guild |-> guild]),
         UNCHANGED tables
  PROVE  PlacesInv'
<1>. DEFINE c == h.char
            p == [type |-> "authok", char |-> c, items |-> pack_db[c], guild |-> guild]
            r == fromInter'
            s == toInter'
<1>1. /\ toInter # <<>> /\ h = Head(toInter) /\ s = Tail(toInter)
      /\ gstor' = gstor /\ pack' = pack /\ active' = active /\ quitting' = quitting
      /\ pack_db' = pack_db /\ gstor_db' = gstor_db /\ raced' = raced
      /\ r = Append(fromInter, p)
  BY DEF Answering, tables
<1>. HIDE DEF s, r
<1>2. /\ Queue(s, active, quitting, pack) /\ InterOK(h) /\ Apart(fromInter, s)
      /\ c \notin active \union quitting /\ c \notin Who(s, "auth") /\ c \notin Who(fromInter, "authok")
      /\ \A t : Who(s, t) \subseteq Who(toInter, t) /\ (Has(s, t) => Has(toInter, t))
  BY <1>1, InterReads
<1>3. PacksOK /\ Replies(fromInter, active, quitting, pack, pack_db) /\ LoadsOK
  BY DEF PlacesInv, UnderWayOK
<1>4. /\ c \in Player /\ p.type = "authok" /\ p.char = c /\ p.items = pack_db[c] /\ MapOK(p)
  BY <1>2, <1>3 DEF InterOK, MapOK, PacksOK
<1>. HIDE DEF p, c
<1>5. Adds(r, p)
  BY <1>1, Answered
<1>6. /\ Who(r, "saved") = Who(fromInter, "saved") /\ Who(r, "authok") = Who(fromInter, "authok") \union {c}
      /\ Has(r, "stored") <=> Has(fromInter, "stored")
      /\ Has(r, "loaded") <=> Has(fromInter, "loaded")
  BY <1>4, <1>5 DEF Adds
<1>7. UnderWayOK'
  <2>1. Replies(r, active, quitting, pack, pack_db)
    <3>1. PICK S : fromInter \in Seq(S)
      BY DEF SequencesOK
    <3>. QED BY <1>1, <1>2, <1>3, <1>4, <3>1, RepliesAppend
  <2>2. Apart(r, s)
    BY <1>2, <1>6 DEF Apart
  <2>. QED BY <1>1, <1>2, <2>1, <2>2 DEF UnderWayOK, r, s
<1>8. (LoadUnderWay' => LoadUnderWay) /\ (SaveUnderWay' => SaveUnderWay)
  BY <1>2, <1>6 DEF LoadUnderWay, SaveUnderWay, r, s
<1>9. LoadsOK'
  <2>1. gstor' = NoStorage \/ ~gstor'.dirty => LoadedOf(r, gstor_db')
    <3>1. gstor = NoStorage \/ ~gstor.dirty => LoadedOf(fromInter, gstor_db)
      BY <1>3 DEF LoadsOK, LoadedOf
    <3>. QED BY <1>1, <1>4, <1>5, <3>1 DEF Adds
  <2>. QED BY <1>1, <1>3, <1>8, <2>1 DEF LoadsOK, LoadedOf, r
<1>10. \A i : InStorage(i)' => InStorage(i)
  BY <1>1, <1>8 DEF InStorage
<1>11. \A d \in Player : \A i : Held(d, i)' => Held(d, i)
  BY <1>1, <1>4, <1>5 DEF Held, Adds, r
<1>12. \A i : Ways(fromInter', i) = Ways(fromInter, i)
  BY <1>4, <1>5 DEF Adds, r
<1>13. PacksOK'
  BY <1>1, <1>3 DEF PacksOK
<1>. QED BY <1>1, <1>7, <1>9, <1>10, <1>11, <1>12, <1>13, AnswerPlaces

\* The table has what the map-server sent.
LEMMA StorageSavePlaces ==
  ASSUME PlacesInv, SequencesOK, NEW h, Answering(h), h.type = "gstorage",
         gstor_db' = h.items, fromInter' = Append(fromInter, [type |-> "stored"]),
         UNCHANGED <<member, pack_db, raced>>
  PROVE  PlacesInv'
<1>. DEFINE p == [type |-> "stored"]
            r == fromInter'
            s == toInter'
<1>1. /\ toInter # <<>> /\ h = Head(toInter) /\ s = Tail(toInter)
      /\ gstor' = gstor /\ pack' = pack /\ active' = active /\ quitting' = quitting
      /\ pack_db' = pack_db /\ raced' = raced /\ r = Append(fromInter, p)
  BY DEF Answering
<1>. HIDE DEF s, r
<1>2. /\ Queue(s, active, quitting, pack) /\ InterOK(h) /\ Apart(fromInter, s)
      /\ Has(toInter, "gstorage") /\ ~Has(s, "load")
  BY <1>1, InterReads
<1>3. PacksOK /\ Replies(fromInter, active, quitting, pack, pack_db) /\ LoadsOK
  BY DEF PlacesInv, UnderWayOK
<1>4. p.type = "stored" /\ MapOK(p) /\ h.items \subseteq Item
  BY <1>2 DEF InterOK, MapOK
<1>. HIDE DEF p
<1>5. Adds(r, p)
  BY <1>1, Answered
<1>6. /\ Who(r, "saved") = Who(fromInter, "saved") /\ Who(r, "authok") = Who(fromInter, "authok")
      /\ Has(r, "loaded") <=> Has(fromInter, "loaded")
  BY <1>4, <1>5 DEF Adds
<1>7. UnderWayOK'
  <2>1. Replies(r, active, quitting, pack, pack_db)
    <3>1. PICK S : fromInter \in Seq(S)
      BY DEF SequencesOK
    <3>. QED BY <1>1, <1>3, <1>4, <3>1, RepliesAppend
  <2>2. Apart(r, s)
    BY <1>2, <1>6 DEF Apart
  <2>. QED BY <1>1, <1>2, <2>1, <2>2 DEF UnderWayOK, r, s
<1>8. gstor # NoStorage /\ (LoadUnderWay => gstor.dirty)
  BY <1>2, <1>3 DEF LoadsOK, SaveUnderWay
<1>9. LoadUnderWay' => Has(r, "loaded") /\ gstor.dirty
  BY <1>2, <1>6, <1>8 DEF LoadUnderWay, r, s
<1>10. LoadsOK'
  BY <1>1, <1>8, <1>9 DEF LoadsOK, LoadUnderWay, Has
<1>11. \A i : InStorage(i)' => InStorage(i)
  BY <1>1, <1>8, <1>9 DEF InStorage
<1>12. \A c \in Player : \A i : Held(c, i)' => Held(c, i)
  BY <1>1, <1>4, <1>5 DEF Held, Adds, r
<1>13. \A i : Ways(fromInter', i) = Ways(fromInter, i)
  BY <1>4, <1>5 DEF Adds, r
<1>14. PacksOK'
  BY <1>1, <1>3, <1>4 DEF PacksOK
<1>. QED BY <1>1, <1>7, <1>10, <1>11, <1>12, <1>13, <1>14, AnswerPlaces

\* A save of a player in the game or quitting; the final one is answered.
LEMMA CharSavePlaces ==
  ASSUME PlacesInv, SequencesOK, NEW h, Answering(h), h.type = "char",
         pack_db' = [pack_db EXCEPT ![h.char] = h.items],
         fromInter' = IF h.final THEN Append(fromInter, [type |-> "saved", char |-> h.char]) ELSE fromInter,
         UNCHANGED <<member, gstor_db, raced>>
  PROVE  PlacesInv'
<1>. DEFINE c == h.char
            p == [type |-> "saved", char |-> c]
            r == fromInter'
            s == toInter'
            D == pack_db'
<1>1. /\ toInter # <<>> /\ h = Head(toInter) /\ s = Tail(toInter)
      /\ gstor' = gstor /\ pack' = pack /\ active' = active /\ quitting' = quitting
      /\ gstor_db' = gstor_db /\ raced' = raced
      /\ r = IF h.final THEN Append(fromInter, p) ELSE fromInter
  BY DEF Answering
<1>. HIDE DEF s, r
<1>2. /\ Queue(s, active, quitting, pack) /\ InterOK(h) /\ Apart(fromInter, s)
      /\ c \in active \union quitting /\ c \notin Who(fromInter, "saved")
      /\ h.final => c \in quitting /\ h.items = pack[c] /\ c \notin Who(s, "char")
      /\ \A t : Who(s, t) \subseteq Who(toInter, t) /\ (Has(s, t) => Has(toInter, t))
  BY <1>1, InterReads
<1>3. PacksOK /\ Replies(fromInter, active, quitting, pack, pack_db) /\ LoadsOK
  BY DEF PlacesInv, UnderWayOK
<1>4. c \in Player /\ h.items \in SUBSET Item /\ p.type = "saved" /\ p.char = c /\ MapOK(p)
  BY <1>2 DEF InterOK, MapOK
<1>5. D \in [Player -> SUBSET Item] /\ D[c] = h.items /\ \A d \in Player : d # c => D[d] = pack_db[d]
  BY <1>3, <1>4 DEF PacksOK
<1>. HIDE DEF p, c, D
<1>6. PICK S : fromInter \in Seq(S)
  BY DEF SequencesOK
<1>7. Replies(fromInter, active, quitting, pack, D)
  <2>1. \A d \in Who(fromInter, "saved") : d \in quitting /\ pack_db[d] \subseteq pack[d]
    BY <1>3 DEF Replies, Who
  <2>2. \A d \in Who(fromInter, "saved") : D[d] \subseteq pack[d]
    BY <1>2, <1>3, <1>5, <2>1 DEF PacksOK
  <2>3. \A d \in Who(fromInter, "authok") : d \in Player /\ d \notin active \union quitting
    <3>1. \A k \in DOMAIN fromInter : MapOK(fromInter[k])
      BY <1>3 DEF Replies
    <3>2. \A d \in Who(fromInter, "authok") : d \in Player
      BY <3>1 DEF MapOK, Who
    <3>. QED BY <3>2, LoginsAreAway
  <2>4. \A d \in Who(fromInter, "authok") : D[d] \subseteq pack_db[d]
    BY <1>2, <1>5, <2>3
  <2>. QED BY <1>3, <2>1, <2>2, <2>3, <2>4, RepliesMove
<1>8. /\ Replies(r, active, quitting, pack, D) /\ Apart(r, s)
      /\ Who(r, "saved") \subseteq Who(fromInter, "saved") \union {c}
      /\ Has(r, "stored") <=> Has(fromInter, "stored")
      /\ Has(r, "loaded") <=> Has(fromInter, "loaded")
      /\ \A d, i : Brings(r, d, i) => Brings(fromInter, d, i)
      /\ \A X : LoadedOf(fromInter, X) => LoadedOf(r, X)
      /\ \A i : Ways(r, i) = Ways(fromInter, i)
  <2>1. CASE ~h.final
    <3>1. r = fromInter
      BY <1>1, <2>1
    <3>. QED BY <1>2, <1>7, <3>1
  <2>2. CASE h.final
    <3>1. r = Append(fromInter, p)
      BY <1>1, <2>2
    <3>2. Adds(r, p)
      BY <3>1, Answered
    <3>3. Replies(r, active, quitting, pack, D)
      BY <1>2, <1>4, <1>5, <1>6, <1>7, <2>2, <3>1, RepliesAppend
    <3>4. Who(r, "saved") = Who(fromInter, "saved") \union {c} /\ Who(r, "authok") = Who(fromInter, "authok")
      BY <1>4, <3>2 DEF Adds
    <3>5. /\ Has(r, "stored") <=> Has(fromInter, "stored")
          /\ Has(r, "loaded") <=> Has(fromInter, "loaded")
      BY <1>4, <3>2 DEF Adds
    <3>6. /\ \A d, i : Brings(r, d, i) => Brings(fromInter, d, i)
          /\ \A X : LoadedOf(fromInter, X) => LoadedOf(r, X)
          /\ \A i : Ways(r, i) = Ways(fromInter, i)
      BY <1>4, <3>2 DEF Adds
    <3>7. Apart(r, s)
      BY <1>2, <2>2, <3>4, <3>5 DEF Apart
    <3>. QED BY <3>3, <3>4, <3>5, <3>6, <3>7
  <2>. QED BY <2>1, <2>2
<1>9. UnderWayOK'
  BY <1>1, <1>2, <1>8 DEF UnderWayOK, r, s, D
<1>10. (LoadUnderWay' => LoadUnderWay) /\ (SaveUnderWay' => SaveUnderWay)
  BY <1>2, <1>8 DEF LoadUnderWay, SaveUnderWay, r, s
<1>11. LoadsOK'
  <2>1. gstor' = NoStorage \/ ~gstor'.dirty => LoadedOf(r, gstor_db')
    <3>1. gstor = NoStorage \/ ~gstor.dirty => LoadedOf(fromInter, gstor_db)
      BY <1>3 DEF LoadsOK, LoadedOf
    <3>. QED BY <1>1, <1>8, <3>1
  <2>. QED BY <1>1, <1>3, <1>10, <2>1 DEF LoadsOK, LoadedOf, r
<1>12. \A i : InStorage(i)' => InStorage(i)
  BY <1>1, <1>10 DEF InStorage
<1>13. \A d \in Player : \A i : Held(d, i)' => Held(d, i)
  BY <1>1, <1>2, <1>5, <1>8 DEF Held, r, D
<1>14. \A i : Ways(fromInter', i) = Ways(fromInter, i)
  BY <1>8 DEF r
<1>15. PacksOK'
  BY <1>1, <1>3, <1>5 DEF PacksOK, D
<1>. QED BY <1>1, <1>9, <1>11, <1>12, <1>13, <1>14, <1>15, AnswerPlaces

LEMMA ExpelPlaces ==
  ASSUME PlacesInv, SequencesOK, NEW h, Answering(h), h.type = "expel",
         \/ fromInter' = fromInter
         \/ fromInter' = Append(fromInter, [type |-> "withdraw", char |-> h.char]),
         UNCHANGED <<pack_db, gstor_db, raced>>
  PROVE  PlacesInv'
<1>. DEFINE p == [type |-> "withdraw", char |-> h.char]
            r == fromInter'
            s == toInter'
<1>1. /\ toInter # <<>> /\ h = Head(toInter) /\ s = Tail(toInter)
      /\ gstor' = gstor /\ pack' = pack /\ active' = active /\ quitting' = quitting
      /\ pack_db' = pack_db /\ gstor_db' = gstor_db /\ raced' = raced
      /\ r = fromInter \/ r = Append(fromInter, p)
  BY DEF Answering
<1>. HIDE DEF s, r
<1>2. /\ Queue(s, active, quitting, pack) /\ InterOK(h) /\ Apart(fromInter, s)
      /\ \A t : Who(s, t) \subseteq Who(toInter, t) /\ (Has(s, t) => Has(toInter, t))
  BY <1>1, InterReads
<1>3. PacksOK /\ Replies(fromInter, active, quitting, pack, pack_db) /\ LoadsOK
  BY DEF PlacesInv, UnderWayOK
<1>4. p.type = "withdraw" /\ MapOK(p)
  BY <1>2 DEF InterOK, MapOK
<1>. HIDE DEF p
<1>5. /\ Replies(r, active, quitting, pack, pack_db) /\ Apart(r, s)
      /\ Has(r, "stored") <=> Has(fromInter, "stored")
      /\ Has(r, "loaded") <=> Has(fromInter, "loaded")
      /\ \A d, i : Brings(r, d, i) => Brings(fromInter, d, i)
      /\ \A X : LoadedOf(fromInter, X) => LoadedOf(r, X)
      /\ \A i : Ways(r, i) = Ways(fromInter, i)
  <2>1. CASE r = fromInter
    BY <1>2, <1>3, <2>1
  <2>2. CASE r = Append(fromInter, p)
    <3>1. PICK S : fromInter \in Seq(S)
      BY DEF SequencesOK
    <3>2. Adds(r, p)
      BY <2>2, Answered
    <3>3. Replies(r, active, quitting, pack, pack_db)
      BY <1>3, <1>4, <2>2, <3>1, RepliesAppend
    <3>4. Who(r, "saved") = Who(fromInter, "saved") /\ Who(r, "authok") = Who(fromInter, "authok")
      BY <1>4, <3>2 DEF Adds
    <3>5. /\ Has(r, "stored") <=> Has(fromInter, "stored")
          /\ Has(r, "loaded") <=> Has(fromInter, "loaded")
      BY <1>4, <3>2 DEF Adds
    <3>6. /\ \A d, i : Brings(r, d, i) => Brings(fromInter, d, i)
          /\ \A X : LoadedOf(fromInter, X) => LoadedOf(r, X)
          /\ \A i : Ways(r, i) = Ways(fromInter, i)
      BY <1>4, <3>2 DEF Adds
    <3>7. Apart(r, s)
      BY <1>2, <3>4, <3>5 DEF Apart
    <3>. QED BY <3>3, <3>5, <3>6, <3>7
  <2>. QED BY <1>1, <2>1, <2>2
<1>6. UnderWayOK'
  BY <1>1, <1>2, <1>5 DEF UnderWayOK, r, s
<1>7. (LoadUnderWay' => LoadUnderWay) /\ (SaveUnderWay' => SaveUnderWay)
  BY <1>2, <1>5 DEF LoadUnderWay, SaveUnderWay, r, s
<1>8. LoadsOK'
  <2>1. gstor' = NoStorage \/ ~gstor'.dirty => LoadedOf(r, gstor_db')
    <3>1. gstor = NoStorage \/ ~gstor.dirty => LoadedOf(fromInter, gstor_db)
      BY <1>3 DEF LoadsOK, LoadedOf
    <3>. QED BY <1>1, <1>5, <3>1
  <2>. QED BY <1>1, <1>3, <1>7, <2>1 DEF LoadsOK, LoadedOf, r
<1>9. \A i : InStorage(i)' => InStorage(i)
  BY <1>1, <1>7 DEF InStorage
<1>10. \A d \in Player : \A i : Held(d, i)' => Held(d, i)
  BY <1>1, <1>5 DEF Held, r
<1>11. \A i : Ways(fromInter', i) = Ways(fromInter, i)
  BY <1>5 DEF r
<1>12. PacksOK'
  BY <1>1, <1>3 DEF PacksOK
<1>. QED BY <1>1, <1>6, <1>8, <1>9, <1>10, <1>11, <1>12, AnswerPlaces

\* The bound items of a character leave the table and are under way, unless
\* it has them already.
LEMMA RetrievePlaces ==
  ASSUME PlacesInv, SequencesOK, NEW h, Answering(h), h.type = "retrieve", ItemboundRetrieve(h.char)
  PROVE  PlacesInv'
<1>. DEFINE c == h.char
            bound == pack_db[c] \cap Bound
            p == [type |-> "retrieved", items |-> bound]
            r == fromInter'
            s == toInter'
            D == pack_db'
<1>1. /\ toInter # <<>> /\ h = Head(toInter) /\ s = Tail(toInter)
      /\ gstor' = gstor /\ pack' = pack /\ active' = active /\ quitting' = quitting
      /\ gstor_db' = gstor_db /\ r = Append(fromInter, p)
      /\ raced' = IF c \in active \union quitting \/ LoggingIn(c) THEN raced \union bound ELSE raced
      /\ D = IF bound = {} THEN pack_db ELSE [d \in Player |-> pack_db[d] \ Bound]
  BY DEF Answering, ItemboundRetrieve
<1>. HIDE DEF s, r
<1>2. /\ Queue(s, active, quitting, pack) /\ InterOK(h) /\ Apart(fromInter, s)
      /\ \A t : Who(s, t) \subseteq Who(toInter, t) /\ (Has(s, t) => Has(toInter, t))
  BY <1>1, InterReads
<1>3. PacksOK /\ Replies(fromInter, active, quitting, pack, pack_db) /\ LoadsOK
  BY DEF PlacesInv, UnderWayOK
<1>4. c \in Player /\ bound \subseteq Item
  BY <1>2, <1>3 DEF InterOK, PacksOK
<1>5. p.type = "retrieved" /\ p.items = bound /\ MapOK(p)
  BY <1>4 DEF MapOK
<1>6. /\ D \in [Player -> SUBSET Item] /\ \A d \in Player : D[d] \subseteq pack_db[d]
      /\ \A i \in bound : i \in pack_db[c] /\ i \notin D[c]
  BY <1>1, <1>3, <1>4 DEF PacksOK
<1>. HIDE DEF p, D, bound
<1>7. Adds(r, p)
  BY <1>1, Answered
<1>8. /\ Who(r, "saved") = Who(fromInter, "saved") /\ Who(r, "authok") = Who(fromInter, "authok")
      /\ Has(r, "stored") <=> Has(fromInter, "stored")
      /\ Has(r, "loaded") <=> Has(fromInter, "loaded")
      /\ \A d, i : Brings(r, d, i) => Brings(fromInter, d, i)
      /\ \A X : LoadedOf(fromInter, X) => LoadedOf(r, X)
      /\ \A i : i \notin bound => Ways(r, i) = Ways(fromInter, i)
      /\ \A i : Ways(fromInter, i) = {} => Single(Ways(r, i))
  BY <1>5, <1>7 DEF Adds
<1>9. Replies(fromInter, active, quitting, pack, D)
  <2>1. \A k \in DOMAIN fromInter : MapOK(fromInter[k])
    BY <1>3 DEF Replies
  <2>2. \A d \in Who(fromInter, "saved") : d \in Player /\ d \in quitting /\ pack_db[d] \subseteq pack[d]
    BY <1>3, <2>1 DEF Replies, Who, MapOK
  <2>3. \A d \in Who(fromInter, "authok") : d \in Player
    BY <2>1 DEF MapOK, Who
  <2>4. \A d \in Who(fromInter, "saved") : d \in quitting /\ D[d] \subseteq pack[d]
    BY <1>6, <2>2
  <2>5. \A d \in Who(fromInter, "authok") : d \notin active \union quitting /\ D[d] \subseteq pack_db[d]
    BY <1>6, <2>3, LoginsAreAway
  <2>. QED BY <1>3, <2>4, <2>5, RepliesMove
<1>10. UnderWayOK'
  <2>1. Replies(r, active, quitting, pack, D)
    <3>1. PICK S : fromInter \in Seq(S)
      BY DEF SequencesOK
    <3>. QED BY <1>1, <1>5, <1>9, <3>1, RepliesAppend
  <2>2. Apart(r, s)
    BY <1>2, <1>8 DEF Apart
  <2>. QED BY <1>1, <1>2, <2>1, <2>2 DEF UnderWayOK, r, s, D
<1>11. (LoadUnderWay' => LoadUnderWay) /\ (SaveUnderWay' => SaveUnderWay)
  BY <1>2, <1>8 DEF LoadUnderWay, SaveUnderWay, r, s
<1>12. LoadsOK'
  <2>1. gstor' = NoStorage \/ ~gstor'.dirty => LoadedOf(r, gstor_db')
    <3>1. gstor = NoStorage \/ ~gstor.dirty => LoadedOf(fromInter, gstor_db)
      BY <1>3 DEF LoadsOK, LoadedOf
    <3>. QED BY <1>1, <1>8, <3>1
  <2>. QED BY <1>1, <1>3, <1>11, <2>1 DEF LoadsOK, LoadedOf, r
<1>13. \A i : InStorage(i)' => InStorage(i)
  BY <1>1, <1>11 DEF InStorage
<1>14. \A d \in Player : \A i : Held(d, i)' => Held(d, i)
  BY <1>1, <1>6, <1>8 DEF Held, r, D
<1>15. PacksOK'
  BY <1>1, <1>3, <1>6 DEF PacksOK, D
<1>16. ASSUME NEW i \in Item \ raced' PROVE One(i)'
  <2>1. One(i) /\ i \notin raced
    BY <1>1, <1>16 DEF PlacesInv
  <2>2. CASE i \notin bound
    <3>1. Ways(fromInter', i) = Ways(fromInter, i)
      BY <1>8, <2>2 DEF r
    <3>. QED BY <1>13, <1>14, <2>1, <3>1, FewerPlaces
  <2>3. CASE i \in bound
    <3>1. c \notin active \union quitting /\ ~LoggingIn(c)
      BY <1>1, <1>16, <2>3
    <3>2. ~Brings(fromInter, c, i)
      BY <3>1 DEF Brings, LoggingIn
    <3>3. Held(c, i) /\ ~Held(c, i)'
      <4>1. i \in pack_db[c] /\ i \notin pack_db'[c]
        BY <1>6, <2>3 DEF D
      <4>2. ~Brings(fromInter', c, i)
        BY <1>8, <3>2 DEF r
      <4>3. c \notin active' \union quitting'
        BY <1>1, <3>1
      <4>. QED BY <3>1, <4>1, <4>2, <4>3 DEF Held
    <3>4. c \in Holders(i)
      BY <1>4, <3>3 DEF Holders
    <3>5. Single(Holders(i)) /\ Ways(fromInter, i) = {} /\ ~InStorage(i)
      BY <2>1, <3>4 DEF One
    <3>6. Holders(i)' = {}
      <4>. SUFFICES ASSUME NEW d \in Player, Held(d, i)' PROVE FALSE
        BY DEF Holders
      <4>1. d \in Holders(i)
        BY <1>14 DEF Holders
      <4>2. d = c
        BY <3>4, <3>5, <4>1 DEF Single
      <4>. QED BY <3>3, <4>2
    <3>7. Single(Ways(fromInter', i)) /\ ~InStorage(i)'
      BY <1>8, <1>13, <3>5 DEF r
    <3>. QED BY <3>6, <3>7 DEF One, Single
  <2>. QED BY <2>2, <2>3
<1>. QED BY <1>10, <1>12, <1>15, <1>16 DEF PlacesInv

LEMMA InterHandlesPlaces == PlacesInv /\ StorageInv /\ InterHandles => PlacesInv'
<1>. SUFFICES ASSUME PlacesInv, StorageInv, InterHandles PROVE PlacesInv'
  OBVIOUS
<1>. DEFINE h == Head(toInter)
<1>1. Answering(h) /\ SequencesOK
  BY DEF InterHandles, Answering, mapMemory, StorageInv
<1>2. CASE h.type = "load" /\ fromInter' = Append(fromInter, LoadedPacket(h.char)) /\ UNCHANGED tables
  <2>. HIDE DEF h
  <2>. QED BY <1>1, <1>2, LoadAnswerPlaces
<1>3. CASE /\ h.type = "auth" /\ UNCHANGED tables
           /\ fromInter' = Append(fromInter, [type |-> "authok", char |-> h.char,
                                     items |-> pack_db[h.char], guild |-> h.char \in member])
  <2>1. PICK g : g = (h.char \in member)
    OBVIOUS
  <2>2. fromInter' = Append(fromInter, [type |-> "authok", char |-> h.char,
                                        items |-> pack_db[h.char], guild |-> g])
    BY <1>3, <2>1
  <2>. HIDE DEF h
  <2>. QED BY <1>1, <1>3, <2>2, LoginAnswerPlaces
<1>4. CASE /\ h.type = "gstorage" /\ gstor_db' = h.items
           /\ fromInter' = Append(fromInter, [type |-> "stored"])
           /\ UNCHANGED <<member, pack_db, raced>>
  <2>. HIDE DEF h
  <2>. QED BY <1>1, <1>4, StorageSavePlaces
<1>5. CASE /\ h.type = "char" /\ pack_db' = [pack_db EXCEPT ![h.char] = h.items]
           /\ fromInter' = IF h.final THEN Append(fromInter, [type |-> "saved", char |-> h.char])
                           ELSE fromInter
           /\ UNCHANGED <<member, gstor_db, raced>>
  <2>. HIDE DEF h
  <2>. QED BY <1>1, <1>5, CharSavePlaces
<1>6. CASE /\ h.type = "expel"
           /\ fromInter' = IF h.char \in member
                           THEN Append(fromInter, [type |-> "withdraw", char |-> h.char]) ELSE fromInter
           /\ UNCHANGED <<pack_db, gstor_db, raced>>
  <2>1. \/ fromInter' = fromInter
        \/ fromInter' = Append(fromInter, [type |-> "withdraw", char |-> h.char])
    BY <1>6
  <2>. HIDE DEF h
  <2>. QED BY <1>1, <1>6, <2>1, ExpelPlaces
<1>7. CASE h.type = "retrieve" /\ ItemboundRetrieve(h.char)
  <2>. HIDE DEF h
  <2>. QED BY <1>1, <1>7, RetrievePlaces
<1>. QED BY <1>2, <1>3, <1>4, <1>5, <1>6, <1>7 DEF InterHandles

-----------------------------------------------------------------------------
(* The link, the first state and the property *)

LEMMA LinkLostPlaces == PlacesInv /\ LinkLost => PlacesInv'
<1>. SUFFICES ASSUME PlacesInv, LinkLost PROVE PlacesInv'
  OBVIOUS
<1>1. /\ toInter' = <<>> /\ fromInter' = <<>>
      /\ UNCHANGED <<gstor, active, quitting, pack, pack_db, gstor_db, raced>>
  BY DEF LinkLost, mapMemory, tables
<1>2. PacksOK'
  BY <1>1 DEF PlacesInv, PacksOK
<1>3. UnderWayOK'
  <2>1. /\ Queue(toInter', active', quitting', pack')
        /\ Replies(fromInter', active', quitting', pack', pack_db')
    BY <1>1, EmptyQueue, NoReplies
  <2>2. Apart(fromInter', toInter')
    BY <1>1, NoneUnderWay DEF Apart
  <2>. QED BY <2>1, <2>2 DEF UnderWayOK
<1>4. NothingNew
  BY <1>1, NoneUnderWay, FewerNone DEF NothingNew
<1>5. SameStorage
  BY <1>1 DEF SameStorage
<1>. QED BY <1>1, <1>2, <1>3, <1>4, <1>5, QuietInv

\* The final saves, each of one character.
Finals(s, order, n) ==
  /\ n \in Nat /\ DOMAIN s = 1 .. n
  /\ \A k \in 1 .. n : /\ s[k].type = "char" /\ s[k].char = order[k] /\ s[k].items = pack[order[k]]
                        /\ order[k] \in quitting
  /\ \A j, k \in 1 .. n : order[j] = order[k] => j = k

LEMMA FinalsQueue ==
  ASSUME PlacesInv, NEW s, NEW order, NEW n, Finals(s, order, n)
  PROVE  /\ Queue(s, active, quitting, pack)
         /\ Who(s, "auth") = {} /\ ~Has(s, "load") /\ ~Has(s, "gstorage")
<1>1. ASSUME NEW k \in 1 .. n PROVE InterOK(s[k])
  <2>1. order[k] \in Player /\ pack[order[k]] \subseteq Item
    BY DEF Finals, PlacesInv, PacksOK
  <2>. QED BY <2>1 DEF Finals, InterOK
<1>2. Who(s, "char") \subseteq active \union quitting
  <2>1. ASSUME NEW c \in Who(s, "char") PROVE c \in quitting
    BY WhoIs DEF Finals
  <2>. QED BY <2>1
<1>3. ASSUME NEW k \in 1 .. n
      PROVE  /\ s[k].char \in quitting /\ s[k].items = pack[s[k].char]
             /\ \A j \in 1 .. n : s[j].char = s[k].char => j <= k
  <2>1. \A j \in 1 .. n : s[j].char = s[k].char => j = k
    BY DEF Finals
  <2>. QED BY <2>1 DEF Finals
<1>4. Queue(s, active, quitting, pack)
  BY <1>1, <1>2, <1>3 DEF Finals, Queue
<1>5. Who(s, "auth") = {} /\ ~Has(s, "load") /\ ~Has(s, "gstorage")
  BY DEF Finals, Who, Has
<1>. QED BY <1>4, <1>5

FinalSave(order, k) == CharPacket(order[k], pack[order[k]], TRUE)

LEMMA FinalSaves ==
  ASSUME PlacesInv, NEW order \in [1 .. Cardinality(quitting) -> quitting],
         \A c \in quitting : \E k \in DOMAIN order : order[k] = c
  PROVE  \E s : /\ s = [k \in 1 .. Cardinality(quitting) |-> FinalSave(order, k)]
                /\ \E S : s \in Seq(S)
                /\ Queue(s, active, quitting, pack)
                /\ Who(s, "auth") = {} /\ ~Has(s, "load") /\ ~Has(s, "gstorage")
<1>. DEFINE n == Cardinality(quitting)
            s == [k \in 1 .. n |-> FinalSave(order, k)]
<1>1. IsFiniteSet(quitting) /\ n \in Nat
  BY StorageAssumption, FS_Subset, FS_CardinalityType DEF StorageAssumption, PlacesInv, PacksOK
<1>2. IsFiniteSet(1 .. n) /\ Cardinality(1 .. n) = Cardinality(quitting)
  BY <1>1, FS_Interval
<1>3. \A j, k \in 1 .. n : order[j] = order[k] => j = k
  <2>1. order \in Surjection(1 .. n, quitting)
    BY DEF Surjection
  <2>. HIDE DEF n
  <2>2. order \in Injection(1 .. n, quitting)
    BY <1>2, <2>1, FS_SurjSameCardinalityImpliesInj
  <2>. QED BY <2>2 DEF Injection, IsInjective
<1>4. ASSUME NEW k \in 1 .. n
      PROVE  /\ FinalSave(order, k).type = "char" /\ FinalSave(order, k).char = order[k]
             /\ FinalSave(order, k).items = pack[order[k]]
             /\ order[k] \in quitting
  <2>. DEFINE c == order[k]
  <2>1. c \in quitting
    OBVIOUS
  <2>2. FinalSave(order, k) = [type |-> "char", char |-> c, items |-> pack[c], final |-> TRUE]
    BY DEF FinalSave, CharPacket
  <2>. DEFINE p == FinalSave(order, k)
  <2>. HIDE DEF c, p
  <2>3. p.type = "char" /\ p.char = c /\ p.items = pack[c]
    BY <2>2 DEF p
  <2>. QED BY <2>1, <2>3 DEF c, p
<1>. HIDE DEF n
<1>5. /\ s \in Seq({FinalSave(order, k) : k \in 1 .. n})
      /\ DOMAIN s = 1 .. n /\ \A k \in 1 .. n : s[k] = FinalSave(order, k)
  BY <1>1
<1>6. s = [k \in 1 .. n |-> FinalSave(order, k)]
  OBVIOUS
<1>. HIDE DEF s
<1>7. \A k \in 1 .. n : /\ s[k].type = "char" /\ s[k].char = order[k] /\ s[k].items = pack[order[k]]
                        /\ order[k] \in quitting
  BY <1>4, <1>5
<1>8. Queue(s, active, quitting, pack) /\ Who(s, "auth") = {} /\ ~Has(s, "load") /\ ~Has(s, "gstorage")
  <2>1. Finals(s, order, n)
    BY <1>1, <1>3, <1>5, <1>7 DEF Finals
  <2>. QED BY <2>1, FinalsQueue
<1>. QED BY <1>5, <1>6, <1>8 DEF n

LEMMA LinkUpPlaces == PlacesInv /\ StorageInv /\ LinkUp => PlacesInv'
<1>. SUFFICES ASSUME PlacesInv, StorageInv, LinkUp PROVE PlacesInv'
  OBVIOUS
<1>. DEFINE b == IF gstor # NoStorage /\ gstor.opened = Nobody THEN StoragePacket(gstor) ELSE <<>>
<1>1. /\ fromInter' = fromInter /\ fromInter = <<>>
      /\ UNCHANGED <<gstor, active, quitting, pack, pack_db, gstor_db, raced>>
  BY DEF LinkUp, tables, StorageInv, LinkOK
<1>2. PICK s : /\ toInter' = s \o b
               /\ \E S : s \in Seq(S)
               /\ Queue(s, active, quitting, pack)
               /\ Who(s, "auth") = {} /\ ~Has(s, "load") /\ ~Has(s, "gstorage")
  <2>1. PICK order \in [1 .. Cardinality(quitting) -> quitting] :
          /\ \A c \in quitting : \E k \in DOMAIN order : order[k] = c
          /\ toInter' = [k \in DOMAIN order |->
                           [type |-> "char", char |-> order[k], items |-> pack[order[k]], final |-> TRUE]] \o b
    BY DEF LinkUp
  <2>2. PICK s : /\ s = [k \in 1 .. Cardinality(quitting) |-> FinalSave(order, k)]
                 /\ \E S : s \in Seq(S)
                 /\ Queue(s, active, quitting, pack)
                 /\ Who(s, "auth") = {} /\ ~Has(s, "load") /\ ~Has(s, "gstorage")
    BY <2>1, FinalSaves
  <2>3. toInter' = s \o b
    BY <2>1, <2>2 DEF FinalSave, CharPacket
  <2>. HIDE DEF b
  <2>. QED BY <2>2, <2>3
<1>3. PICK S : s \in Seq(S)
  BY <1>2
<1>4. /\ Queue(toInter', active, quitting, pack)
      /\ Who(toInter', "auth") = {} /\ ~Has(toInter', "load")
      /\ Has(toInter', "gstorage") => gstor # NoStorage /\ gstor.dirty
  <2>1. CASE gstor # NoStorage /\ gstor.opened = Nobody /\ gstor.dirty
    <3>. DEFINE a == Append(s, StorageSave)
    <3>1. b = <<StorageSave>>
      BY <2>1 DEF StoragePacket, StorageSave
    <3>2. toInter' = a
      <4>1. \A p : s \o <<p>> = Append(s, p)
        BY <1>3
      <4>. HIDE DEF b
      <4>. QED BY <1>2, <3>1, <4>1
    <3>3. gstor \in guild_storage
      BY <2>1 DEF PlacesInv, PacksOK
    <3>4. \A c : Queue(a, active, quitting, pack) /\ Grown(s, a, c, FALSE)
      BY <1>2, <1>3, <2>1, <3>3, StorageSent
    <3>. HIDE DEF a
    <3>. QED BY <1>2, <2>1, <3>2, <3>4 DEF Grown
  <2>2. CASE ~(gstor # NoStorage /\ gstor.opened = Nobody /\ gstor.dirty)
    <3>1. b = <<>>
      BY <2>2 DEF StoragePacket
    <3>. HIDE DEF b
    <3>2. toInter' = s
      BY <1>2, <1>3, <3>1
    <3>. QED BY <1>2, <3>2
  <2>. QED BY <2>1, <2>2
<1>. HIDE DEF b
<1>5. PacksOK'
  BY <1>1 DEF PlacesInv, PacksOK
<1>6. UnderWayOK'
  <2>1. Queue(toInter', active', quitting', pack')
    BY <1>1, <1>4
  <2>2. Replies(fromInter', active', quitting', pack', pack_db')
    BY <1>1, NoReplies
  <2>3. Apart(fromInter', toInter')
    BY <1>1, NoneUnderWay DEF Apart
  <2>. QED BY <2>1, <2>2, <2>3 DEF UnderWayOK
<1>7. NothingNew
  BY <1>1, <1>4, FewerSame DEF NothingNew
<1>8. SameStorage
  BY <1>1 DEF SameStorage
<1>. QED BY <1>1, <1>5, <1>6, <1>7, <1>8, QuietInv

LEMMA InitPlaces == StorageInit => PlacesInv
<1>. SUFFICES ASSUME StorageInit PROVE PlacesInv
  OBVIOUS
<1>1. /\ gstor = NoStorage /\ active = {} /\ quitting = {} /\ pack = [c \in Player |-> {}]
      /\ toInter = <<>> /\ fromInter = <<>>
  BY DEF StorageInit
<1>2. PICK owner \in [Item -> Player \union {Nobody}] :
        /\ pack_db = [c \in Player |-> {i \in Item : owner[i] = c}]
        /\ gstor_db = {i \in Item : owner[i] = Nobody}
  BY DEF StorageInit
<1>3. PacksOK
  BY <1>1, <1>2 DEF PacksOK
<1>4. UnderWayOK
  BY <1>1, EmptyQueue, NoReplies, NoneUnderWay DEF UnderWayOK, Apart
<1>5. LoadsOK
  <2>1. ~SaveUnderWay /\ ~LoadUnderWay
    BY <1>1, NoneUnderWay DEF SaveUnderWay, LoadUnderWay
  <2>2. DOMAIN fromInter = {}
    BY <1>1
  <2>. QED BY <1>1, <2>1, <2>2 DEF LoadsOK
<1>6. ASSUME NEW i \in Item PROVE One(i)
  <2>1. DOMAIN fromInter = {}
    BY <1>1
  <2>2. Ways(fromInter, i) = {} /\ \A c : ~Brings(fromInter, c, i)
    BY <2>1 DEF Ways, Brings
  <2>3. \A c \in Player : Held(c, i) => owner[i] = c
    BY <1>1, <1>2, <2>2 DEF Held
  <2>4. InStorage(i) => owner[i] = Nobody
    BY <1>1, <1>2 DEF InStorage
  <2>5. Nobody \notin Player
    BY StorageAssumption DEF StorageAssumption
  <2>. QED BY <2>2, <2>3, <2>4, <2>5 DEF One, Single, Holders
<1>. QED BY <1>3, <1>4, <1>5, <1>6 DEF PlacesInv

LEMMA StepPlaces == PlacesInv /\ StorageInv /\ [StorageNext]_storageVars => PlacesInv'
<1>. SUFFICES ASSUME PlacesInv, StorageInv, [StorageNext]_storageVars PROVE PlacesInv'
  OBVIOUS
<1>1. CASE UNCHANGED storageVars
  <2>1. UNCHANGED <<gstor, active, quitting, pack, pack_db, gstor_db, raced, toInter, fromInter>>
    BY <1>1 DEF storageVars
  <2>2. PacksOK'
    BY <2>1 DEF PlacesInv, PacksOK
  <2>3. UnderWayOK'
    BY <2>1 DEF PlacesInv, UnderWayOK
  <2>4. SameStorage /\ NothingNew
    BY <2>1, FewerSame DEF SameStorage, NothingNew
  <2>. QED BY <2>1, <2>2, <2>3, <2>4, QuietInv
<1>2. CASE StorageNext
  BY <1>2, PlayerPlaces, MapHandlesPlaces, InterHandlesPlaces, LinkLostPlaces, LinkUpPlaces
     DEF StorageNext
<1>. QED BY <1>1, <1>2

LEMMA CountOfSingle ==
  ASSUME NEW S, Single(S)
  PROVE  Cardinality(S) = IF S = {} THEN 0 ELSE 1
<1>1. CASE S = {}
  BY <1>1, FS_EmptySet
<1>2. CASE S # {}
  <2>1. PICK x \in S : TRUE
    BY <1>2
  <2>2. S = {x}
    BY <2>1 DEF Single
  <2>. QED BY <1>2, <2>2, FS_Singleton
<1>. QED BY <1>1, <1>2

LEMMA OncePlaced == PlacesInv => ItemInOnePlace
<1>. SUFFICES ASSUME PlacesInv, NEW i \in Item \ raced
              PROVE  Cardinality({c \in Player : i \in PackOf(c)})
                       + Cardinality({k \in DOMAIN fromInter : i \in OnTheWay(k)})
                       + (IF i \in StorageItems THEN 1 ELSE 0) <= 1
  BY DEF ItemInOnePlace
<1>. DEFINE H == {c \in Player : i \in PackOf(c)}
            W == {k \in DOMAIN fromInter : i \in OnTheWay(k)}
<1>1. One(i)
  BY DEF PlacesInv
<1>2. W = Ways(fromInter, i)
  BY DEF OnTheWay, Ways
<1>3. i \in StorageItems => InStorage(i)
  BY DEF StorageItems, InStorage
<1>4. ASSUME NEW c \in Player, i \in PackOf(c) PROVE Held(c, i)
  <2>1. ASSUME c \in quitting, Stored(c) PROVE pack_db[c] \subseteq pack[c]
    <3>1. PICK k \in DOMAIN fromInter : fromInter[k] = [type |-> "saved", char |-> c]
      BY <2>1 DEF Stored
    <3>2. fromInter[k].type = "saved" /\ fromInter[k].char = c
      BY <3>1
    <3>. QED BY <3>2 DEF PlacesInv, UnderWayOK, Replies
  <2>. QED BY <1>4, <2>1 DEF PackOf, Held
<1>5. H \subseteq Holders(i)
  BY <1>4 DEF Holders
<1>. HIDE DEF H, W
<1>6. Single(H) /\ Single(W)
  BY <1>1, <1>2, <1>5 DEF One, Single
<1>7. (H # {} => W = {} /\ i \notin StorageItems) /\ (W # {} => i \notin StorageItems)
  BY <1>1, <1>2, <1>3, <1>5 DEF One
<1>8. Cardinality(H) + Cardinality(W) + (IF i \in StorageItems THEN 1 ELSE 0) <= 1
  <2>1. /\ Cardinality(H) = IF H = {} THEN 0 ELSE 1
        /\ Cardinality(W) = IF W = {} THEN 0 ELSE 1
    BY <1>6, CountOfSingle
  <2>. QED BY <1>7, <2>1
<1>. QED BY <1>8 DEF H, W

\* No item of the guild storage is in two places, whatever saves are lost or
\* repeated and however late the storage is read again: in the packs, in the
\* storage or in the answer to a retrieval.
THEOREM ItemsAreOnce == StorageSpec => []ItemInOnePlace
<1>1. StorageInit => PlacesInv /\ StorageInv /\ QuittingOK
  BY InitPlaces, StorageInitInv
<1>2. PlacesInv /\ StorageInv /\ QuittingOK /\ [StorageNext]_storageVars => (PlacesInv /\ StorageInv /\ QuittingOK)'
  BY StepPlaces, StorageStepInv, QuittingStep
<1>3. PlacesInv => ItemInOnePlace
  BY OncePlaced
<1>. QED BY <1>1, <1>2, <1>3, PTL DEF StorageSpec
=============================================================================
