-------------------------------- MODULE Party -------------------------------
(***************************************************************************)
(* Parties: map/party.c, char/int_party.c and the packets of map/intif.c.  *)
(* The char-server decides who is in a party and keeps the levels that     *)
(* even sharing of experience depends on; each map-server has copies of    *)
(* the parties of its players and asks for every change.  Packets of one   *)
(* link arrive in order, those of two links in any order.                  *)
(* Left out: the way items are shared, names, families, instances, items   *)
(* bound to a party, a character with two places in one party, and the     *)
(* loss of a link.                                                         *)
(***************************************************************************)
EXTENDS Naturals, Sequences, FiniteSets, SequencesExt

CONSTANTS Fellow,      \* characters, each of an account of its own
          Server,      \* map-servers
          Offline, NoParty, Leaderless,
          PartySize,   \* MAX_PARTY
          ShareLevel,  \* party_share_level
          TopLevel,    \* bound: the highest level
          MaxParties,  \* bound: parties ever formed
          MaxActs,     \* bound: what players do in a behaviour
          MaxPartyPackets \* bound: packets under way when a player acts

ASSUME PartyAssumption ==
  /\ {PartySize, ShareLevel, TopLevel, MaxParties, MaxActs, MaxPartyPackets}
       \subseteq Nat \ {0}
  /\ IsFiniteSet(Fellow)
  /\ Offline \notin Server /\ Leaderless \notin Fellow

VARIABLES party_db,      \* parties of the char-server
          party_row,     \* party_id in the table of characters
          cached,        \* party_id in the status the char-server saved last
          at,            \* the map-server of a character
          level,         \* base_level
          in_game,        \* characters in the game
          party_id, party_invite, party_pending, \* of struct map_session_data
          party_copy,    \* party_db of each map-server
          partyToChar, partyToMap,
          last_party,    \* the last id given
          acts           \* how often players have acted

partyVars == <<party_db, party_row, cached, at, level, in_game, party_id, party_invite,
               party_pending, party_copy, partyToChar, partyToMap, last_party, acts>>
sessions == <<at, level, in_game, party_id, party_invite, party_pending>>
charParties == <<party_db, party_row, cached, last_party>>

PartyIds == 1 .. MaxParties
UintMax == TopLevel + ShareLevel + 1 \* stands for UINT_MAX, above every level

\* struct party_data of the char-server; lo and hi are min_lv and max_lv.
CharParty == [member : SUBSET Fellow, online : SUBSET Fellow, lv : [Fellow -> 0 .. TopLevel],
              leader : Fellow \cup {Leaderless}, exp : BOOLEAN,
              lo : 0 .. UintMax, hi : 0 .. UintMax]

\* struct party_data of a map-server; data are the members whose sd is set.
MapParty == [member : SUBSET Fellow, leader : Fellow \cup {Leaderless}, exp : BOOLEAN,
             data : SUBSET Fellow]

\* NULL is not the address of a party.
ASSUME NoPartyAssumption == NoParty \notin CharParty \cup MapParty

Packet(type, p, c, x) == [type |-> type, p |-> p, c |-> c, x |-> x]

\* No party yet, or one of a set of players who are all in the game.
StartWith(team, head, exp) ==
  LET Of(c) == IF c \in team THEN 1 ELSE 0
      Lowest == Min({level[c] : c \in team})
      Highest == Max({level[c] : c \in team})
  IN
  /\ at \in [Fellow -> Server]
  /\ level \in [Fellow -> 1 .. TopLevel]
  /\ in_game = Fellow
  /\ team # {} => head \in team /\ (exp => Highest - Lowest <= ShareLevel)
  /\ party_db = [p \in PartyIds |->
       IF p # 1 \/ team = {} THEN NoParty
       ELSE [member |-> team, online |-> team, leader |-> head, exp |-> exp,
             lv |-> [c \in Fellow |-> IF c \in team THEN level[c] ELSE 0],
             lo |-> Lowest, hi |-> Highest]]
  /\ party_copy = [m \in Server |-> [p \in PartyIds |->
       IF p # 1 \/ \A c \in team : at[c] # m THEN NoParty
       ELSE [member |-> team, leader |-> head, exp |-> exp,
             data |-> {c \in team : at[c] = m}]]]
  /\ last_party = (IF team = {} THEN 0 ELSE 1)
  /\ party_row = [c \in Fellow |-> Of(c)]
  /\ cached = [c \in Fellow |-> Of(c)]
  /\ party_id = [c \in Fellow |-> Of(c)]
  /\ party_invite = [c \in Fellow |-> 0]
  /\ party_pending = [c \in Fellow |-> "no"]
  /\ partyToChar = [m \in Server |-> <<>>]
  /\ partyToMap = [m \in Server |-> <<>>]
  /\ acts = 0

PartyInit ==
  \E team \in SUBSET Fellow, head \in Fellow, exp \in BOOLEAN : StartWith(team, head, exp)

-----------------------------------------------------------------------------
(* The map-server: what players do. *)

\* A player in the game, when there is room for more packets.
Acts(c) ==
  /\ c \in in_game
  /\ acts < MaxActs /\ acts' = acts + 1
  /\ LET Load(q) == FoldFunction(LAMBDA s, n : Len(s) + n, 0, q)
     IN Load(partyToChar) + Load(partyToMap) < MaxPartyPackets

CopyOf(c) == IF party_id[c] = 0 THEN NoParty ELSE party_copy[at[c]][party_id[c]]

ToChar(m, packets) == partyToChar' = [partyToChar EXCEPT ![m] = @ \o packets]

\* party_create
PartyCreate(c) ==
  /\ Acts(c) /\ party_id[c] = 0 /\ party_pending[c] = "no"
  /\ party_pending' = [party_pending EXCEPT ![c] = "creating"]
  /\ ToChar(at[c], <<Packet("create", 0, c, level[c])>>)
  /\ UNCHANGED <<charParties, at, level, in_game, party_id, party_invite, party_copy, partyToMap>>

\* party_invite
PartyInvite(c, d) ==
  /\ Acts(c) /\ d \in in_game /\ at[d] = at[c]
  /\ CopyOf(c) # NoParty
  /\ c \in CopyOf(c).data /\ CopyOf(c).leader = c
  /\ Cardinality(CopyOf(c).member) < PartySize
  /\ party_id[d] = 0 /\ party_invite[d] = 0
  /\ party_invite' = [party_invite EXCEPT ![d] = party_id[c]]
  /\ UNCHANGED <<charParties, at, level, in_game, party_id, party_pending, party_copy,
                 partyToChar, partyToMap>>

\* party_reply_invite: whether the player has a party by now is not asked.
ReplyInvite(c, accept) ==
  /\ Acts(c) /\ party_invite[c] # 0
  /\ IF accept /\ party_pending[c] = "no"
     THEN /\ party_pending' = [party_pending EXCEPT ![c] = "joining"]
          /\ ToChar(at[c], <<Packet("add", party_invite[c], c, level[c])>>)
          /\ UNCHANGED party_invite
     ELSE /\ party_invite' = [party_invite EXCEPT ![c] = 0]
          /\ UNCHANGED <<party_pending, partyToChar>>
  /\ UNCHANGED <<charParties, at, level, in_game, party_id, party_copy, partyToMap>>

\* party_leave, and party_removemember, by which a leader removes another.
PartyLeave(c, d) ==
  /\ Acts(c) /\ CopyOf(c) # NoParty
  /\ {c, d} \subseteq CopyOf(c).member
  /\ d # c => CopyOf(c).leader = c
  /\ ToChar(at[c], <<Packet("leave", party_id[c], d, 0)>>)
  /\ UNCHANGED <<charParties, sessions, party_copy, partyToMap>>

\* clif_parse_PartyChangeOption
PartyOption(c, exp) ==
  /\ Acts(c) /\ CopyOf(c) # NoParty
  /\ c \in CopyOf(c).data /\ CopyOf(c).leader = c
  /\ ToChar(at[c], <<Packet("option", party_id[c], c, exp)>>)
  /\ UNCHANGED <<charParties, sessions, party_copy, partyToMap>>

\* party_changeleader: this map-server's copy changes at once.
ChangeLeader(c, d) ==
  /\ Acts(c) /\ d \in in_game /\ at[d] = at[c] /\ party_id[d] = party_id[c]
  /\ CopyOf(c) # NoParty
  /\ {c, d} \subseteq CopyOf(c).data /\ CopyOf(c).leader = c
  /\ party_copy' = [party_copy EXCEPT ![at[c]][party_id[c]].leader = d]
  /\ ToChar(at[c], <<Packet("leader", party_id[c], d, 0)>>)
  /\ UNCHANGED <<charParties, sessions, partyToMap>>

\* intif_party_changemap; elsewhere: the map is not the one sent before.
Moved(c, online, lv, elsewhere) ==
  IF party_id[c] = 0 THEN <<>>
  ELSE <<Packet("change", party_id[c], c,
                [online |-> online, lv |-> lv, elsewhere |-> elsewhere])>>

\* party_send_movemap, when the client has loaded a map.
PartyMoves(c, elsewhere) ==
  /\ Acts(c) /\ party_id[c] # 0
  /\ ToChar(at[c], Moved(c, TRUE, level[c], elsewhere))
  /\ UNCHANGED <<charParties, sessions, party_copy, partyToMap>>

\* party_send_levelup, from pc_checkbaselevelup, which may raise several levels
\* at once, pc_setparam, pc_resetlvl and atcommand_baselevelup.
LevelUp(c, lv) ==
  /\ Acts(c) /\ lv # level[c]
  /\ level' = [level EXCEPT ![c] = lv]
  /\ ToChar(at[c], Moved(c, TRUE, lv, FALSE))
  /\ UNCHANGED <<charParties, at, in_game, party_id, party_invite, party_pending, party_copy,
                 partyToMap>>

\* chrif_save of a player who plays on.
PartyAutosave(c) ==
  /\ Acts(c)
  /\ ToChar(at[c], <<Packet("save", party_id[c], c, FALSE)>>)
  /\ UNCHANGED <<charParties, sessions, party_copy, partyToMap>>

\* map_quit: an invitation is refused, the status saved, and party_send_logout
\* forgets the player in the copy of its own party.
PartyQuit(c) ==
  /\ Acts(c)
  /\ in_game' = in_game \ {c}
  /\ at' = [at EXCEPT ![c] = Offline]
  /\ party_id' = [party_id EXCEPT ![c] = 0]
  /\ party_invite' = [party_invite EXCEPT ![c] = 0]
  /\ party_pending' = [party_pending EXCEPT ![c] = "no"]
  /\ party_copy' = IF CopyOf(c) = NoParty THEN party_copy
                   ELSE [party_copy EXCEPT ![at[c]][party_id[c]].data = @ \ {c}]
  /\ ToChar(at[c], <<Packet("save", party_id[c], c, TRUE)>> \o Moved(c, FALSE, level[c], FALSE))
  /\ UNCHANGED <<charParties, level, partyToMap>>

-----------------------------------------------------------------------------
(* The map-server: packets of the char-server. *)

Here(m, c) == c \in in_game /\ at[c] = m

\* party_sd_check of characters cs, who may be members of p, when their parties
\* are ids: those whose pointer is set, and those told to leave.
Checked(m, p, cs, ids) == {c \in cs : Here(m, c) /\ ids[c] \in {0, p}}
Strangers(m, p, cs, ids) == {c \in Fellow : c \in cs /\ Here(m, c) /\ ids[c] \notin {0, p}}
Joined(ids, p, cs) == [c \in Fellow |-> IF c \in cs THEN p ELSE ids[c]]
LeaveAll(p, cs) == [i \in 1 .. Cardinality(cs) |-> Packet("leave", p, SetToSeq(cs)[i], 0)]

\* The party of those in cs, whose party is p, becomes none.
NoMore(p, cs, ids) == [c \in Fellow |-> IF c \in cs /\ ids[c] = p THEN 0 ELSE ids[c]]

\* The party of a character that comes in with p: none if this map-server
\* knows the party and the character is not listed.
JoinedAs_Always(p, known, listed) == p \* Mutant: the list is not looked at.

JoinedAs(p, known, listed) == IF known /\ ~listed THEN 0 ELSE p

\* pc_authok and party_member_joined
PartyJoined(m, k) ==
  LET known == k.p # 0 /\ party_copy[m][k.p] # NoParty
      listed == known /\ k.c \in party_copy[m][k.p].member
      others == [p \in PartyIds |->
                   IF party_copy[m][p] = NoParty THEN NoParty
                   ELSE [party_copy[m][p] EXCEPT
                           !.data = IF listed /\ p = k.p THEN @ \cup {k.c} ELSE @ \ {k.c}]]
  IN /\ in_game' = in_game \cup {k.c}
     /\ party_id' = [party_id EXCEPT ![k.c] = JoinedAs(k.p, known, listed)]
     /\ party_copy' = [party_copy EXCEPT ![m] = others]
     /\ ToChar(m, IF k.p # 0 /\ ~known THEN <<Packet("info", k.p, k.c, 0)>> ELSE <<>>)
     /\ UNCHANGED <<party_invite, party_pending>>

\* party_recv_info
party_recv_info(m, k) ==
  LET old == party_copy[m][k.p]
      removed == IF old = NoParty THEN {} ELSE old.data \ k.x.member
      ids == NoMore(k.p, {c \in removed : Here(m, c)}, party_id)
      data == Checked(m, k.p, k.x.member, ids)
      joined == Joined(ids, k.p, data)
  IN /\ party_copy' = [party_copy EXCEPT ![m][k.p] =
                         [member |-> k.x.member, leader |-> k.x.leader, exp |-> k.x.exp,
                          data |-> data]]
     /\ party_id' = NoMore(k.p, {c \in {k.c} \ k.x.member : Here(m, c)}, joined)
     /\ ToChar(m, LeaveAll(k.p, Strangers(m, k.p, k.x.member, ids)))
     /\ UNCHANGED <<in_game, party_invite, party_pending>>

\* party_broken
Broken(m, p) ==
  /\ party_copy' = [party_copy EXCEPT ![m][p] = NoParty]
  /\ UNCHANGED <<in_game, party_invite, party_pending, partyToChar>>

Losers(m, p) == IF party_copy[m][p] = NoParty THEN {}
                ELSE {c \in party_copy[m][p].data : Here(m, c)}

party_broken(m, k) ==
  /\ party_id' = [c \in Fellow |-> IF c \in Losers(m, k.p) THEN 0 ELSE party_id[c]]
  /\ Broken(m, k.p)

\* party_recv_noinfo
party_recv_noinfo(m, k) ==
  /\ party_id' = NoMore(k.p, {c \in {k.c} : Here(m, c)},
                         [c \in Fellow |-> IF c \in Losers(m, k.p) THEN 0 ELSE party_id[c]])
  /\ Broken(m, k.p)

\* party_created, which tells a player who has left to leave the party.
party_created(m, k) ==
  /\ IF Here(m, k.c) /\ party_pending[k.c] = "creating"
     THEN /\ party_pending' = [party_pending EXCEPT ![k.c] = "no"]
          /\ party_id' = IF k.p = 0 THEN party_id ELSE [party_id EXCEPT ![k.c] = k.p]
          /\ UNCHANGED partyToChar
     ELSE /\ ToChar(m, IF k.p = 0 THEN <<>> ELSE <<Packet("leave", k.p, k.c, 0)>>)
          /\ UNCHANGED <<party_pending, party_id>>
  /\ UNCHANGED <<in_game, party_invite, party_copy>>

\* party_member_added
party_member_added(m, k) ==
  /\ IF Here(m, k.c) /\ party_pending[k.c] = "joining"
     THEN /\ party_pending' = [party_pending EXCEPT ![k.c] = "no"]
          /\ party_invite' = [party_invite EXCEPT ![k.c] = 0]
          /\ IF party_copy[m][k.p] = NoParty
             THEN ToChar(m, <<Packet("leave", k.p, k.c, 0)>>) /\ UNCHANGED party_id
             ELSE /\ party_id' = IF k.x THEN [party_id EXCEPT ![k.c] = k.p] ELSE party_id
                  /\ UNCHANGED partyToChar
     ELSE /\ ToChar(m, IF k.x THEN <<Packet("leave", k.p, k.c, 0)>> ELSE <<>>)
          /\ UNCHANGED <<party_pending, party_invite, party_id>>
  /\ UNCHANGED <<in_game, party_copy>>

\* party_optionchanged: a denied option changes nothing.
party_optionchanged(m, k) ==
  /\ party_copy' = IF party_copy[m][k.p] # NoParty /\ k.x.granted
                   THEN [party_copy EXCEPT ![m][k.p].exp = k.x.exp] ELSE party_copy
  /\ UNCHANGED <<in_game, party_id, party_invite, party_pending, partyToChar>>

\* party_member_withdraw
party_member_withdraw(m, k) ==
  /\ party_copy' = IF party_copy[m][k.p] = NoParty THEN party_copy
                   ELSE [party_copy EXCEPT
                           ![m][k.p].member = @ \ {k.c}, ![m][k.p].data = @ \ {k.c},
                           ![m][k.p].leader = IF @ = k.c THEN Leaderless ELSE @]
  /\ party_id' = NoMore(k.p, {c \in {k.c} : Here(m, c)}, party_id)
  /\ UNCHANGED <<in_game, party_invite, party_pending, partyToChar>>

\* party_recv_movemap
party_recv_movemap(m, k) ==
  /\ IF party_copy[m][k.p] = NoParty \/ k.c \notin party_copy[m][k.p].member
     THEN UNCHANGED <<party_copy, party_id, partyToChar>>
     ELSE LET data == Checked(m, k.p, {k.c}, party_id)
          IN /\ party_copy' = [party_copy EXCEPT ![m][k.p].data = (@ \ {k.c}) \cup data]
             /\ party_id' = Joined(party_id, k.p, data)
             /\ ToChar(m, LeaveAll(k.p, Strangers(m, k.p, {k.c}, party_id)))
  /\ UNCHANGED <<in_game, party_invite, party_pending>>

PartyMapHandles(m) ==
  /\ partyToMap[m] # <<>>
  /\ partyToMap' = [partyToMap EXCEPT ![m] = Tail(@)]
  /\ LET k == Head(partyToMap[m])
     IN \/ k.type = "authok" /\ PartyJoined(m, k)
        \/ k.type = "info" /\ party_recv_info(m, k)
        \/ k.type = "noinfo" /\ party_recv_noinfo(m, k)
        \/ k.type = "created" /\ party_created(m, k)
        \/ k.type = "added" /\ party_member_added(m, k)
        \/ k.type = "option" /\ party_optionchanged(m, k)
        \/ k.type = "withdraw" /\ party_member_withdraw(m, k)
        \/ k.type = "broken" /\ party_broken(m, k)
        \/ k.type = "moved" /\ party_recv_movemap(m, k)
  /\ UNCHANGED <<charParties, at, level, acts>>

-----------------------------------------------------------------------------
(* The char-server. *)

\* Answers: what is sent to each map-server, in order; a ++ b: first a, then b.
Silence == [m \in Server |-> <<>>]
To(ms, packet) == [m \in Server |-> IF m \in ms THEN <<packet>> ELSE <<>>]
ToAll(packet) == To(Server, packet)
a ++ b == [m \in Server |-> a[m] \o b[m]]
ToMaps(answers) == partyToMap' = [m \in Server |-> partyToMap[m] \o answers[m]]

\* mapif_party_info and mapif_party_optionchanged
InfoOf(p, P, c) ==
  Packet("info", p, c, [member |-> P.member, leader |-> P.leader, exp |-> P.exp])
OptionOf(p, P, granted) == Packet("option", p, 0, [exp |-> P.exp, granted |-> granted])

\* party_check_exp_share
party_check_exp_share(P) == Cardinality(P.online) < 2 \/ P.hi - P.lo <= ShareLevel

\* int_party_check_lv and int_party_calc_state: the range of the levels online,
\* and the end of sharing when it is too wide.
WithRange(P) ==
  LET lvs == {P.lv[c] : c \in P.online}
  IN [P EXCEPT !.lo = IF lvs = {} THEN UintMax ELSE Min(lvs),
               !.hi = IF lvs = {} THEN 0 ELSE Max(lvs)]

int_party_check_lv(P) ==
  LET R == WithRange(P) IN [R EXCEPT !.exp = @ /\ party_check_exp_share(R)]

\* The notice of both when P became Q.
ShareEnds(p, P, Q) == IF P.exp /\ ~Q.exp THEN ToAll(OptionOf(p, Q, TRUE)) ELSE Silence

\* mapif_parse_CreateParty: the name may be taken or not allowed.
mapif_parse_CreateParty(m, k) ==
  \/ /\ ToMaps(To({m}, Packet("created", 0, k.c, 0)))
     /\ UNCHANGED <<party_db, party_row, last_party>>
  \/ LET p == last_party + 1
         P == int_party_check_lv(
                [member |-> {k.c}, online |-> {k.c},
                 lv |-> [c \in Fellow |-> IF c = k.c THEN k.x ELSE 0],
                 leader |-> k.c, exp |-> FALSE, lo |-> 0, hi |-> 0])
     IN /\ p \in PartyIds
        /\ last_party' = p
        /\ party_db' = [party_db EXCEPT ![p] = P]
        /\ party_row' = [party_row EXCEPT ![k.c] = p]
        /\ ToMaps(To({m}, InfoOf(p, P, 0)) ++ To({m}, Packet("created", p, k.c, 0)))

\* mapif_parse_PartyInfo
mapif_parse_PartyInfo(m, k) ==
  /\ ToMaps(To({m}, IF party_db[k.p] = NoParty THEN Packet("noinfo", k.p, k.c, 0)
                    ELSE InfoOf(k.p, party_db[k.p], k.c)))
  /\ UNCHANGED <<party_db, party_row, last_party>>

\* Whether the levels are looked at again when a member of level lv was added.
WidensRange(P, lv) == Cardinality(P.member) \in {2, 3} \/ lv < P.lo \/ lv > P.hi

\* mapif_parse_PartyAddMember: one who is a member already has a second place
\* in the code, and here its only place again, with the levels looked at.
mapif_parse_PartyAddMember(m, k) ==
  LET P == party_db[k.p]
      A == [P EXCEPT !.member = @ \cup {k.c}, !.online = @ \cup {k.c}, !.lv[k.c] = k.x]
      Q == IF k.c \in P.member \/ WidensRange(A, k.x) THEN int_party_check_lv(A) ELSE A
  IN IF P = NoParty \/ (P # NoParty /\ Cardinality(P.member) = PartySize)
     THEN /\ ToMaps(To({m}, Packet("added", k.p, k.c, FALSE)))
          /\ UNCHANGED <<party_db, party_row, last_party>>
     ELSE /\ party_db' = [party_db EXCEPT ![k.p] = Q]
          /\ party_row' = [party_row EXCEPT ![k.c] = k.p]
          /\ ToMaps(ShareEnds(k.p, A, Q) ++ ToAll(InfoOf(k.p, Q, 0))
                    ++ To({m}, Packet("added", k.p, k.c, TRUE)))
          /\ UNCHANGED last_party

\* mapif_party_optionchanged: only the map-server that asked hears of a denial.
Hearers_Asker(m, granted) == {m} \* Mutant: the same of a change.

Hearers(m, granted) == IF granted THEN Server ELSE {m}

\* mapif_parse_PartyChangeOption
mapif_parse_PartyChangeOption(m, k) ==
  /\ IF party_db[k.p] = NoParty THEN UNCHANGED <<party_db, partyToMap>>
     ELSE LET granted == k.x => party_check_exp_share(party_db[k.p])
              Q == [party_db[k.p] EXCEPT !.exp = k.x /\ granted]
          IN /\ party_db' = [party_db EXCEPT ![k.p] = Q]
             /\ ToMaps(To(Hearers(m, granted), OptionOf(k.p, Q, granted)))
  /\ UNCHANGED <<party_row, last_party>>

\* inter_party_tosql with PS_BREAK
BreakRows(p) == party_row' = [c \in Fellow |-> IF party_row[c] = p THEN 0 ELSE party_row[c]]

Withdrawals(p, cs) ==
  LET order == SetToSeq(cs)
  IN [m \in Server |-> [i \in 1 .. Cardinality(cs) |-> Packet("withdraw", p, order[i], 0)]]

BrokenUp(p) == ToAll(Packet("broken", p, 0, 0))

\* The member's slot is emptied, and the range seen to if it was at its edge.
MemberLess(P, c) ==
  LET R == [P EXCEPT !.member = @ \ {c}, !.online = @ \ {c}, !.lv[c] = 0]
  IN IF P.lv[c] \in {P.lo, P.hi} THEN int_party_check_lv(R) ELSE R

\* mapif_parse_PartyLeave: with its leader, or its last member, the party goes.
mapif_parse_PartyLeave(k) ==
  LET P == party_db[k.p]
      R == MemberLess(P, k.c)
  IN /\ \/ /\ P = NoParty
           /\ BreakRows(k.p)
           /\ UNCHANGED <<party_db, partyToMap>>
        \/ /\ P # NoParty /\ k.c \notin P.member
           /\ UNCHANGED <<party_db, party_row, partyToMap>>
        \/ /\ P # NoParty /\ k.c \in P.member /\ (P.leader = k.c \/ P.member = {k.c})
           /\ party_db' = [party_db EXCEPT ![k.p] = NoParty]
           /\ BreakRows(k.p)
           /\ ToMaps(Withdrawals(k.p, {k.c}) ++ Withdrawals(k.p, P.member \ {k.c}) ++ BrokenUp(k.p))
        \/ /\ P # NoParty /\ k.c \in P.member /\ P.leader # k.c /\ P.member # {k.c}
           /\ party_db' = [party_db EXCEPT ![k.p] = R]
           /\ party_row' = [party_row EXCEPT ![k.c] = IF @ = k.p THEN 0 ELSE @]
           /\ ToMaps(Withdrawals(k.p, {k.c}) ++ ShareEnds(k.p, P, R) ++ ToAll(InfoOf(k.p, R, 0)))
     /\ UNCHANGED last_party

\* mapif_parse_PartyChangeMap, in its three parts: a member comes or goes; its
\* level changes; its map may be another.
AtEdge(P, lv) == lv <= P.lo \/ lv >= P.hi

Presence(P, c, online, lv) ==
  LET R == [P EXCEPT !.online = IF online THEN @ \cup {c} ELSE @ \ {c}]
  IN IF AtEdge(P, P.lv[c]) \/ (P.lv[c] # lv /\ AtEdge(P, lv))
     THEN int_party_check_lv([R EXCEPT !.lv[c] = lv]) ELSE R

\* Mutant: only the lowest level is watched.
NewLevel_Lowest(P, c, lv) ==
  LET R == [P EXCEPT !.lv[c] = lv]
  IN IF P.lv[c] # lv /\ P.lv[c] = P.lo THEN int_party_check_lv(R) ELSE R

NewLevel(P, c, lv) ==
  LET R == [P EXCEPT !.lv[c] = lv]
  IN IF P.lv[c] # lv /\ P.lv[c] \in {P.lo, P.hi} THEN int_party_check_lv(R) ELSE R

mapif_parse_PartyChangeMap(k) ==
  LET P == party_db[k.p]
      comesOrGoes == (k.c \in P.online) # k.x.online
      Q == IF comesOrGoes THEN Presence(P, k.c, k.x.online, k.x.lv) ELSE P
      R == NewLevel(Q, k.c, k.x.lv)
      MovedTo == ToAll(Packet("moved", k.p, k.c, 0))
  IN /\ IF P # NoParty /\ (P # NoParty => k.c \in P.member)
        THEN /\ party_db' = [party_db EXCEPT ![k.p] = R]
             /\ ToMaps(ShareEnds(k.p, P, Q) ++ (IF comesOrGoes THEN MovedTo ELSE Silence)
                       ++ ShareEnds(k.p, Q, R) ++ (IF k.x.elsewhere THEN MovedTo ELSE Silence))
        ELSE UNCHANGED <<party_db, partyToMap>>
     /\ UNCHANGED <<party_row, last_party>>

\* mapif_parse_PartyLeaderChange, which tells no map-server.
mapif_parse_PartyLeaderChange(k) ==
  /\ party_db' = IF party_db[k.p] = NoParty THEN party_db
                 ELSE [party_db EXCEPT ![k.p].leader =
                         IF k.c \in party_db[k.p].member THEN k.c ELSE Leaderless]
  /\ UNCHANGED <<party_row, last_party, partyToMap>>

\* char_mmo_char_tosql: the row is written when anything in it changed.
SaveStatus(k) ==
  /\ \E changed \in BOOLEAN :
       party_row' = IF changed \/ k.p # cached[k.c] THEN [party_row EXCEPT ![k.c] = k.p]
                    ELSE party_row
  /\ cached' = [cached EXCEPT ![k.c] = k.p]
  /\ UNCHANGED <<party_db, last_party, partyToMap>>

PartyCharHandles(m) ==
  /\ partyToChar[m] # <<>>
  /\ partyToChar' = [partyToChar EXCEPT ![m] = Tail(@)]
  /\ LET k == Head(partyToChar[m])
     IN \/ k.type = "save" /\ SaveStatus(k)
        \/ /\ UNCHANGED cached
           /\ \/ k.type = "create" /\ mapif_parse_CreateParty(m, k)
              \/ k.type = "info" /\ mapif_parse_PartyInfo(m, k)
              \/ k.type = "add" /\ mapif_parse_PartyAddMember(m, k)
              \/ k.type = "option" /\ mapif_parse_PartyChangeOption(m, k)
              \/ k.type = "leave" /\ mapif_parse_PartyLeave(k)
              \/ k.type = "change" /\ mapif_parse_PartyChangeMap(k)
              \/ k.type = "leader" /\ mapif_parse_PartyLeaderChange(k)
  /\ UNCHANGED <<sessions, party_copy, acts>>

\* The final save of a character is handled before it is let in again.
SaveUnderWay(c) ==
  \E m \in Server : \E i \in DOMAIN partyToChar[m] :
    partyToChar[m][i].type = "save" /\ partyToChar[m][i].c = c

\* The char-server sends a character to a map-server: with its row when it was
\* selected, with the status saved last when it comes from another map-server.
PartyLogin(c, m) ==
  /\ at[c] = Offline /\ ~SaveUnderWay(c)
  /\ \E p \in {party_row[c], cached[c]} :
       /\ cached' = [cached EXCEPT ![c] = p]
       /\ partyToMap' = [partyToMap EXCEPT ![m] = Append(@, Packet("authok", p, c, 0))]
  /\ at' = [at EXCEPT ![c] = m]
  /\ UNCHANGED <<party_db, party_row, last_party, level, in_game, party_id, party_invite,
                 party_pending, party_copy, partyToChar, acts>>

PartyFellow ==
  \E c \in Fellow :
    \/ PartyCreate(c)
    \/ \E d \in Fellow : PartyInvite(c, d) \/ PartyLeave(c, d) \/ ChangeLeader(c, d)
    \/ \E b \in BOOLEAN : ReplyInvite(c, b) \/ PartyOption(c, b) \/ PartyMoves(c, b)
    \/ \E lv \in 1 .. TopLevel : LevelUp(c, lv)
    \/ PartyAutosave(c) \/ PartyQuit(c)
    \/ \E m \in Server : PartyLogin(c, m)

PartyNext == PartyFellow \/ \E m \in Server : PartyMapHandles(m) \/ PartyCharHandles(m)

PartySpec == PartyInit /\ [][PartyNext]_partyVars

-----------------------------------------------------------------------------
(* Properties. *)

PartyTypeOK ==
  /\ party_db \in [PartyIds -> CharParty \cup {NoParty}]
  /\ {party_row, cached, party_id, party_invite} \subseteq [Fellow -> 0 .. MaxParties]
  /\ at \in [Fellow -> Server \cup {Offline}]
  /\ level \in [Fellow -> 1 .. TopLevel]
  /\ in_game \subseteq Fellow
  /\ party_pending \in [Fellow -> {"no", "creating", "joining"}]
  /\ party_copy \in [Server -> [PartyIds -> MapParty \cup {NoParty}]]
  /\ last_party \in 0 .. MaxParties
  /\ acts \in 0 .. MaxActs

\* Nothing is under way between the char-server and the map-servers.
AtRest == \A m \in Server : partyToChar[m] = <<>> /\ partyToMap[m] = <<>>

\* "Level range for sharing within a party": members in the game of a party
\* that shares evenly are not further apart.  A member between the edges of the
\* range that passes one of them in a single step is not noticed, so this holds
\* only as long as levels are reported one at a time.
ShareInRange ==
  \A p \in PartyIds : party_db[p] # NoParty =>
    (party_db[p].exp => \A c, d \in party_db[p].online :
                          party_db[p].lv[c] <= party_db[p].lv[d] + ShareLevel)

\* The range kept is that of the levels in the game, and no wider than allowed
\* where it matters.
ShareKept(P) == P = WithRange(P) /\ (P.exp => P.hi <= P.lo + ShareLevel)

\* No member that stays in the game has another level, but the next or the
\* one before.
ByOneLevel(P, Q) ==
  \A c \in P.online \cap Q.online : Q.lv[c] <= P.lv[c] + 1 /\ P.lv[c] <= Q.lv[c] + 1

\* Looking at the edges only is enough: whoever comes, leaves, logs in or out,
\* and whatever level it has by then, the range stays that of the levels in the
\* game and sharing ends when it is too wide, as long as those who stay in the
\* game change by one level at a time.
ShareStaysInRange ==
  [][\A p \in PartyIds :
       LET P == party_db[p]
           Q == party_db'[p]
       IN Q # NoParty /\ (P # NoParty => ShareKept(P) /\ ByOneLevel(P, Q)) => ShareKept(Q)]_partyVars

\* Once all packets have arrived, every map-server's copy of a party has the
\* members and the sharing of the char-server's, a player's party has the player
\* as a member, and nobody waits for an answer.
PartiesAgree ==
  AtRest =>
    /\ \A m \in Server, p \in PartyIds : party_copy[m][p] # NoParty =>
         /\ party_db[p] # NoParty
         /\ party_copy[m][p].member = party_db[p].member
         /\ party_copy[m][p].exp = party_db[p].exp
    /\ \A c \in in_game : party_id[c] # 0 =>
         party_db[party_id[c]] # NoParty /\ c \in party_db[party_id[c]].member
    /\ \A c \in in_game : party_pending[c] = "no"
=============================================================================
