----------------------------- MODULE PartyProofs -----------------------------
(***************************************************************************)
(* Proofs about Party.                                                     *)
(*                                                                         *)
(* The range of levels that the char-server keeps for even sharing:        *)
(* whatever the order of packets, a handler that does not look at the      *)
(* levels again leaves them between the edges, provided nobody who stays   *)
(* in the game passed an edge in one step; and then members of a party     *)
(* that shares are within the range allowed.                               *)
(*                                                                         *)
(* The copies of a party that the map-servers keep: once all packets have  *)
(* arrived they agree with the char-server.  What is invariant (PInv) is   *)
(* what is said of copies while packets are under way.  A copy is looked   *)
(* at as a view (ViewOf), a packet to a map-server as its effect on views  *)
(* (Effect), and the packets under way to it turn its view into one that   *)
(* fits the party of the char-server (CopiesOK).  A player that has a      *)
(* party is known to the copy, will be let go by a packet under way, or    *)
(* its map-server has asked for the party (TiesOK).                        *)
(***************************************************************************)
EXTENDS Party, FiniteSetTheorems, WellFoundedInduction, TLAPS

-----------------------------------------------------------------------------
(* The range of a set of levels *)

LEMMA LeastLevel ==
  ASSUME NEW S \in SUBSET Nat, S # {}
  PROVE  \E x \in S : \A y \in S : x <= y
<1>. DEFINE R == OpToRel(<, Nat)
<1>1. \A x, y \in Nat : <<x, y>> \in R <=> x < y
  BY Zenon DEF OpToRel
<1>2. IsWellFoundedOn(R, Nat)
  BY NatLessThanWellFounded, Zenon
<1>. HIDE DEF R
<1>3. PICK x \in S : \A y \in S : ~(<<y, x>> \in R)
  BY <1>2, WFMin
<1>4. ASSUME NEW y \in S PROVE x <= y
  <2>1. x \in Nat /\ y \in Nat /\ ~(y < x)
    BY <1>1, <1>3
  <2>. QED BY <2>1
<1>. QED BY <1>4

LEMMA RangeOfLevels ==
  ASSUME NEW S \in SUBSET (0 .. TopLevel), S # {}
  PROVE  /\ Min(S) \in S /\ Max(S) \in S
         /\ \A y \in S : Min(S) <= y /\ y <= Max(S)
<1>0. TopLevel \in Nat /\ \A y \in S : y \in Nat /\ y <= TopLevel
  <2>1. TopLevel \in Nat
    BY PartyAssumption
  <2>2. \A y \in S : y \in 0 .. TopLevel
    OBVIOUS
  <2>. QED BY <2>1, <2>2
<1>1. PICK x \in S : \A y \in S : x <= y
  <2>1. S \in SUBSET Nat
    BY <1>0
  <2>. QED BY <2>1, LeastLevel
<1>2. PICK z \in S : \A y \in S : y <= z
  <2>. DEFINE T == {TopLevel - y : y \in S}
  <2>1. T \in SUBSET Nat /\ T # {}
    BY <1>0
  <2>2. PICK t \in T : \A y \in T : t <= y
    <3>. HIDE DEF T
    <3>. QED BY <2>1, LeastLevel
  <2>3. PICK z \in S : t = TopLevel - z
    OBVIOUS
  <2>4. ASSUME NEW y \in S PROVE y <= z
    <3>1. t <= TopLevel - y
      BY <2>2
    <3>2. y \in Nat /\ z \in Nat
      BY <1>0
    <3>. QED BY <1>0, <2>3, <3>1, <3>2
  <2>. QED BY <2>4
<1>3. Min(S) \in S /\ \A y \in S : Min(S) <= y
  BY <1>1 DEF Min
<1>4. Max(S) \in S /\ \A y \in S : y <= Max(S)
  <2>1. \A y \in S : z >= y
    BY <1>0, <1>2
  <2>2. Max(S) \in S /\ \A y \in S : Max(S) >= y
    BY <2>1 DEF Max
  <2>. QED BY <1>0, <2>2
<1>. QED BY <1>3, <1>4

\* What it is to be the least and the greatest level.
LEMMA EdgesAreRange ==
  ASSUME NEW S \in SUBSET (0 .. TopLevel), NEW lo \in S, NEW hi \in S,
         \A y \in S : lo <= y /\ y <= hi
  PROVE  lo = Min(S) /\ hi = Max(S)
<1>1. TopLevel \in Nat /\ Min(S) \in S /\ Max(S) \in S
  BY RangeOfLevels, PartyAssumption
<1>2. Min(S) <= lo /\ lo <= Min(S) /\ Max(S) <= hi /\ hi <= Max(S)
  BY <1>1, RangeOfLevels
<1>3. Min(S) \in 0 .. TopLevel /\ Max(S) \in 0 .. TopLevel /\ lo \in 0 .. TopLevel /\ hi \in 0 .. TopLevel
  BY <1>1
<1>. DEFINE m == Min(S)
            n == Max(S)
<1>4. m \in 0 .. TopLevel /\ n \in 0 .. TopLevel /\ m <= lo /\ lo <= m /\ n <= hi /\ hi <= n
  BY <1>2, <1>3
<1>. HIDE DEF m, n
<1>5. lo = m /\ hi = n
  BY <1>1, <1>3, <1>4
<1>. QED BY <1>5 DEF m, n

-----------------------------------------------------------------------------
(* One party *)

Exact(P) ==
  /\ P.online = {} => P.lo = UintMax /\ P.hi = 0
  /\ P.online # {} => \E c, d \in P.online : P.lo = P.lv[c] /\ P.hi = P.lv[d]
  /\ \A c \in P.online : P.lo <= P.lv[c] /\ P.lv[c] <= P.hi

Narrow(P) == P.exp => P.hi <= P.lo + ShareLevel

LEMMA SizesOK ==
  /\ TopLevel \in Nat \ {0} /\ ShareLevel \in Nat \ {0} /\ UintMax \in Nat
  /\ TopLevel < UintMax
BY PartyAssumption DEF UintMax

LEMMA FieldsOK ==
  ASSUME NEW P \in CharParty
  PROVE  /\ P.online \in SUBSET Fellow /\ P.lv \in [Fellow -> 0 .. TopLevel]
         /\ P.lo \in Nat /\ P.hi \in Nat /\ P.exp \in BOOLEAN
         /\ \A c \in P.online : P.lv[c] \in Nat
BY SizesOK DEF CharParty

LEMMA LevelsOK ==
  ASSUME NEW P \in CharParty
  PROVE  /\ {P.lv[c] : c \in P.online} \in SUBSET (0 .. TopLevel)
         /\ {P.lv[c] : c \in P.online} = {} <=> P.online = {}
<1>. DEFINE on == P.online
            lv == P.lv
<1>1. on \in SUBSET Fellow /\ lv \in [Fellow -> 0 .. TopLevel]
  BY FieldsOK
<1>. HIDE DEF on, lv
<1>2. \A c \in on : lv[c] \in 0 .. TopLevel
  BY <1>1
<1>3. {lv[c] : c \in on} \in SUBSET (0 .. TopLevel)
  BY <1>2
<1>4. {lv[c] : c \in on} = {} <=> on = {}
  OBVIOUS
<1>. QED BY <1>3, <1>4 DEF on, lv

\* The levels are looked at.
LEMMA WithRangeExact ==
  ASSUME NEW P \in CharParty
  PROVE  /\ WithRange(P) \in CharParty
         /\ WithRange(P) = [P EXCEPT !.lo = WithRange(P).lo, !.hi = WithRange(P).hi]
         /\ Exact(WithRange(P))
<1>. DEFINE lvs == {P.lv[c] : c \in P.online}
            lo == IF lvs = {} THEN UintMax ELSE Min(lvs)
            hi == IF lvs = {} THEN 0 ELSE Max(lvs)
<1>1. lvs \in SUBSET (0 .. TopLevel) /\ (lvs = {} <=> P.online = {})
  BY LevelsOK
<1>2. \A c \in P.online : P.lv[c] \in lvs
  OBVIOUS
<1>3. \A y \in lvs : \E c \in P.online : y = P.lv[c]
  OBVIOUS
<1>4. WithRange(P) = [P EXCEPT !.lo = lo, !.hi = hi]
  BY DEF WithRange
<1>. HIDE DEF lvs
<1>5. lvs # {} => /\ Min(lvs) \in lvs /\ Max(lvs) \in lvs
                  /\ \A y \in lvs : Min(lvs) <= y /\ y <= Max(lvs)
  BY <1>1, RangeOfLevels
<1>6. lo \in 0 .. UintMax /\ hi \in 0 .. UintMax
  <2>1. \A y \in lvs : y \in 0 .. UintMax
    BY <1>1, SizesOK
  <2>2. 0 \in 0 .. UintMax /\ UintMax \in 0 .. UintMax
    BY SizesOK
  <2>. QED BY <1>5, <2>1, <2>2
<1>7. /\ P.online = {} => lo = UintMax /\ hi = 0
      /\ P.online # {} => \E c, d \in P.online : lo = P.lv[c] /\ hi = P.lv[d]
      /\ \A c \in P.online : lo <= P.lv[c] /\ P.lv[c] <= hi
  BY <1>1, <1>2, <1>3, <1>5
<1>. HIDE DEF lo, hi
<1>8. /\ WithRange(P) \in CharParty
      /\ WithRange(P).lo = lo /\ WithRange(P).hi = hi
      /\ WithRange(P).online = P.online /\ WithRange(P).lv = P.lv
  BY <1>4, <1>6 DEF CharParty
<1>. QED BY <1>4, <1>7, <1>8 DEF Exact

LEMMA KeptIsExact ==
  ASSUME NEW P \in CharParty
  PROVE  ShareKept(P) <=> Exact(P) /\ Narrow(P)
<1>1. ASSUME ShareKept(P) PROVE Exact(P) /\ Narrow(P)
  BY <1>1, WithRangeExact DEF ShareKept, Narrow
<1>2. ASSUME Exact(P), Narrow(P) PROVE ShareKept(P)
  <2>. DEFINE lvs == {P.lv[c] : c \in P.online}
              lo == IF lvs = {} THEN UintMax ELSE Min(lvs)
              hi == IF lvs = {} THEN 0 ELSE Max(lvs)
  <2>1. lvs \in SUBSET (0 .. TopLevel) /\ (lvs = {} <=> P.online = {})
    BY LevelsOK
  <2>2. \A c \in P.online : P.lv[c] \in lvs
    OBVIOUS
  <2>3. \A y \in lvs : \E c \in P.online : y = P.lv[c]
    OBVIOUS
  <2>4. WithRange(P) = [P EXCEPT !.lo = lo, !.hi = hi]
    BY DEF WithRange
  <2>. HIDE DEF lvs
  <2>5. lvs # {} => P.lo = Min(lvs) /\ P.hi = Max(lvs)
    <3>. SUFFICES ASSUME lvs # {} PROVE P.lo = Min(lvs) /\ P.hi = Max(lvs)
      OBVIOUS
    <3>1. P.lo \in lvs /\ P.hi \in lvs
      BY <1>2, <2>1, <2>2 DEF Exact
    <3>2. \A y \in lvs : P.lo <= y /\ y <= P.hi
      BY <1>2, <2>3 DEF Exact
    <3>. DEFINE l == P.lo
                h == P.hi
    <3>3. l \in lvs /\ h \in lvs /\ \A y \in lvs : l <= y /\ y <= h
      BY <3>1, <3>2
    <3>. HIDE DEF l, h
    <3>4. l = Min(lvs) /\ h = Max(lvs)
      BY <2>1, <3>3, EdgesAreRange
    <3>. QED BY <3>4 DEF l, h
  <2>6. P.lo = lo /\ P.hi = hi
    BY <1>2, <2>1, <2>5 DEF Exact
  <2>. HIDE DEF lo, hi
  <2>7. WithRange(P) = P
    BY <2>4, <2>6 DEF CharParty
  <2>. QED BY <1>2, <2>7 DEF ShareKept, Narrow
<1>. QED BY <1>1, <1>2

LEMMA FewAreOne ==
  ASSUME NEW P \in CharParty, Cardinality(P.online) < 2, NEW c \in P.online, NEW d \in P.online
  PROVE  c = d
<1>1. IsFiniteSet(P.online)
  BY PartyAssumption, FieldsOK, FS_Subset
<1>2. ASSUME c # d PROVE FALSE
  <2>1. {c, d} \subseteq P.online /\ Cardinality({c, d}) <= Cardinality(P.online)
    BY <1>1, FS_Subset
  <2>2. Cardinality({c, d}) = 2
    <3>1. IsFiniteSet({c}) /\ Cardinality({c}) = 1 /\ d \notin {c} /\ {c, d} = {c} \union {d}
      BY <1>2, FS_Singleton
    <3>. DEFINE S == {c}
    <3>2. IsFiniteSet(S) /\ Cardinality(S) = 1 /\ d \notin S
      BY <3>1
    <3>. HIDE DEF S
    <3>3. Cardinality(S \cup {d}) = IF d \in S THEN Cardinality(S) ELSE Cardinality(S) + 1
      BY <3>2, FS_AddElement, Zenon
    <3>4. Cardinality(S \cup {d}) = 2
      BY <3>2, <3>3
    <3>. QED BY <3>1, <3>4 DEF S
  <2>3. Cardinality(P.online) \in Nat
    BY <1>1, FS_CardinalityType
  <2>. QED BY <2>1, <2>2, <2>3
<1>. QED BY <1>2

\* Of fewer than two members in the game the range is a single level.
LEMMA FewAreNarrow ==
  ASSUME NEW P \in CharParty, Exact(P), party_check_exp_share(P)
  PROVE  P.hi <= P.lo + ShareLevel
<1>1. CASE P.hi - P.lo <= ShareLevel
  BY <1>1, FieldsOK, SizesOK
<1>2. CASE Cardinality(P.online) < 2
  <2>1. CASE P.online = {}
    BY <2>1, SizesOK, FieldsOK DEF Exact
  <2>2. CASE P.online # {}
    <3>1. P.lo = P.hi
      BY <1>2, <2>2, FewAreOne DEF Exact
    <3>. QED BY <3>1, FieldsOK, SizesOK
  <2>. QED BY <2>1, <2>2
<1>. QED BY <1>1, <1>2 DEF party_check_exp_share

LEMMA CheckedIsKept ==
  ASSUME NEW P \in CharParty
  PROVE  int_party_check_lv(P) \in CharParty /\ ShareKept(int_party_check_lv(P))
<1>. DEFINE R == WithRange(P)
            Q == [R EXCEPT !.exp = @ /\ party_check_exp_share(R)]
<1>1. R \in CharParty /\ Exact(R)
  BY WithRangeExact
<1>2. int_party_check_lv(P) = Q
  BY DEF int_party_check_lv
<1>. HIDE DEF R
<1>3. /\ Q \in CharParty /\ Exact(Q)
      /\ Q.hi = R.hi /\ Q.lo = R.lo /\ (Q.exp => party_check_exp_share(R))
  <2>1. party_check_exp_share(R) \in BOOLEAN
    BY DEF party_check_exp_share
  <2>2. PICK b \in BOOLEAN : b = party_check_exp_share(R)
    BY <2>1
  <2>3. Q = [R EXCEPT !.exp = R.exp /\ b]
    BY <2>2
  <2>4. R.exp \in BOOLEAN
    BY <1>1 DEF CharParty
  <2>5. /\ Q \in CharParty /\ Q.online = R.online /\ Q.lv = R.lv
        /\ Q.lo = R.lo /\ Q.hi = R.hi /\ Q.exp = (R.exp /\ b)
    BY <1>1, <2>3, <2>4 DEF CharParty
  <2>. QED BY <1>1, <2>2, <2>5 DEF Exact
<1>4. Narrow(Q)
  BY <1>1, <1>3, FewAreNarrow DEF Narrow
<1>. HIDE DEF Q
<1>. QED BY <1>2, <1>3, <1>4, KeptIsExact

LEMMA CheckedSame ==
  ASSUME NEW P \in CharParty
  PROVE  LET Q == int_party_check_lv(P)
         IN Q.member = P.member /\ Q.online = P.online /\ Q.lv = P.lv
<1>. DEFINE R == WithRange(P)
<1>1. R \in CharParty /\ R.member = P.member /\ R.online = P.online /\ R.lv = P.lv
  <2>. DEFINE lo == R.lo
              hi == R.hi
  <2>1. R \in CharParty /\ R = [P EXCEPT !.lo = lo, !.hi = hi]
    BY WithRangeExact
  <2>. HIDE DEF R, lo, hi
  <2>. QED BY <2>1 DEF CharParty
<1>2. int_party_check_lv(P) = [R EXCEPT !.exp = @ /\ party_check_exp_share(R)]
  BY DEF int_party_check_lv
<1>. HIDE DEF R
<1>3. PICK b : b = (R.exp /\ party_check_exp_share(R))
  OBVIOUS
<1>4. int_party_check_lv(P) = [R EXCEPT !.exp = b]
  BY <1>2, <1>3
<1>. QED BY <1>1, <1>4 DEF CharParty

LEMMA ShareKeptAlike ==
  ASSUME NEW P \in CharParty, NEW Q \in CharParty, ShareKept(P),
         Q.online = P.online, Q.lv = P.lv, Q.lo = P.lo, Q.hi = P.hi,
         Q.exp => P.exp \/ party_check_exp_share(P)
  PROVE  ShareKept(Q)
<1>1. Exact(P) /\ Narrow(P)
  BY KeptIsExact
<1>2. Exact(Q)
  BY <1>1 DEF Exact
<1>3. Narrow(Q)
  BY <1>1, FewAreNarrow DEF Narrow
<1>. QED BY <1>2, <1>3, KeptIsExact

-----------------------------------------------------------------------------
(* What the handlers do to one party *)

\* A party with one member more, or less, before the levels are looked at.
WithMember(P, c, lv) == [P EXCEPT !.member = @ \cup {c}, !.online = @ \cup {c}, !.lv[c] = lv]
WithoutMember(P, c) == [P EXCEPT !.member = @ \ {c}, !.online = @ \ {c}, !.lv[c] = 0]

LEMMA AddedOK ==
  ASSUME NEW P \in CharParty, NEW c \in Fellow, NEW lv \in 1 .. TopLevel,
         NEW A, A = WithMember(P, c, lv)
  PROVE  /\ A \in CharParty /\ A.online = P.online \cup {c} /\ A.lv = [P.lv EXCEPT ![c] = lv]
         /\ A.member = P.member \cup {c}
         /\ A.lo = P.lo /\ A.hi = P.hi /\ A.exp = P.exp
<1>. DEFINE m == P.member \cup {c}
            o == P.online \cup {c}
            l == [P.lv EXCEPT ![c] = lv]
<1>1. m \in SUBSET Fellow /\ o \in SUBSET Fellow /\ l \in [Fellow -> 0 .. TopLevel]
  BY SizesOK DEF CharParty
<1>2. A = [member |-> m, online |-> o, lv |-> l, leader |-> P.leader, exp |-> P.exp,
           lo |-> P.lo, hi |-> P.hi]
  <2>1. A = [P EXCEPT !.member = m, !.online = o, !.lv = l]
    BY DEF WithMember
  <2>. HIDE DEF m, o, l
  <2>. QED BY <2>1 DEF CharParty
<1>. HIDE DEF m, o, l
<1>3. P.leader \in Fellow \cup {Leaderless} /\ P.exp \in BOOLEAN /\ P.lo \in 0 .. UintMax /\ P.hi \in 0 .. UintMax
  BY DEF CharParty
<1>. QED BY <1>1, <1>2, <1>3 DEF CharParty, m, o, l

\* mapif_parse_PartyAddMember: a level between the edges moves none of them.
LEMMA AddedIsKept ==
  ASSUME NEW P \in CharParty, NEW c \in Fellow, NEW lv \in 1 .. TopLevel
  PROVE  LET A == WithMember(P, c, lv)
             Q == IF c \in P.member \/ WidensRange(A, lv) THEN int_party_check_lv(A) ELSE A
         IN Q \in CharParty /\ (P.online \subseteq P.member /\ ShareKept(P) => ShareKept(Q))
<1>. DEFINE A == WithMember(P, c, lv)
<1>0. A = WithMember(P, c, lv)
  OBVIOUS
<1>. HIDE DEF A
<1>1. /\ A \in CharParty /\ A.online = P.online \cup {c} /\ A.lv = [P.lv EXCEPT ![c] = lv]
      /\ A.lo = P.lo /\ A.hi = P.hi /\ A.exp = P.exp
  BY <1>0, AddedOK
<1>2. CASE c \in P.member \/ WidensRange(A, lv)
  BY <1>1, <1>2, CheckedIsKept DEF A
<1>3. CASE ~(c \in P.member \/ WidensRange(A, lv))
  <2>1. ASSUME P.online \subseteq P.member, ShareKept(P) PROVE ShareKept(A)
    <3>1. Exact(P) /\ Narrow(P)
      BY <2>1, KeptIsExact
    <3>2. c \notin P.online /\ ~(lv < P.lo) /\ ~(lv > P.hi)
      BY <1>1, <1>3, <2>1 DEF WidensRange
    <3>3. P.lo <= lv /\ lv <= P.hi /\ lv \in Nat
      BY <3>2, FieldsOK, SizesOK
    <3>4. P.online # {}
      BY <3>1, <3>3, SizesOK DEF Exact
    <3>5. \A d \in P.online : A.lv[d] = P.lv[d]
      BY <1>1, <3>2, FieldsOK
    <3>6. A.lv[c] = lv
      BY <1>1, FieldsOK
    <3>7. Exact(A)
      BY <1>1, <3>1, <3>3, <3>4, <3>5, <3>6 DEF Exact
    <3>8. Narrow(A)
      BY <1>1, <3>1 DEF Narrow
    <3>. QED BY <1>1, <3>7, <3>8, KeptIsExact
  <2>. QED BY <1>1, <1>3, <2>1 DEF A
<1>. QED BY <1>2, <1>3 DEF A

LEMMA AddedMembers ==
  ASSUME NEW P \in CharParty, NEW c \in Fellow, NEW lv \in 1 .. TopLevel, P.online \subseteq P.member
  PROVE  LET A == WithMember(P, c, lv)
             Q == IF c \in P.member \/ WidensRange(A, lv) THEN int_party_check_lv(A) ELSE A
         IN Q.online \subseteq Q.member
<1>. DEFINE A == WithMember(P, c, lv)
<1>0. A = WithMember(P, c, lv)
  OBVIOUS
<1>. HIDE DEF A
<1>1. /\ A \in CharParty /\ A.online = P.online \cup {c} /\ A.lv = [P.lv EXCEPT ![c] = lv]
      /\ A.member = P.member \cup {c}
      /\ A.lo = P.lo /\ A.hi = P.hi /\ A.exp = P.exp
  BY <1>0, AddedOK
<1>2. A.online \subseteq A.member
  BY <1>1
<1>3. int_party_check_lv(A).online \subseteq int_party_check_lv(A).member
  BY <1>1, <1>2, CheckedSame
<1>. QED BY <1>2, <1>3 DEF A

LEMMA LessOK ==
  ASSUME NEW P \in CharParty, NEW c \in Fellow,
         NEW R, R = WithoutMember(P, c)
  PROVE  /\ R \in CharParty /\ R.online = P.online \ {c} /\ R.lv = [P.lv EXCEPT ![c] = 0]
         /\ R.member = P.member \ {c}
         /\ R.lo = P.lo /\ R.hi = P.hi /\ R.exp = P.exp
<1>. DEFINE m == P.member \ {c}
            o == P.online \ {c}
            l == [P.lv EXCEPT ![c] = 0]
<1>1. m \in SUBSET Fellow /\ o \in SUBSET Fellow /\ l \in [Fellow -> 0 .. TopLevel]
  BY SizesOK DEF CharParty
<1>2. R = [member |-> m, online |-> o, lv |-> l, leader |-> P.leader, exp |-> P.exp,
           lo |-> P.lo, hi |-> P.hi]
  <2>1. R = [P EXCEPT !.member = m, !.online = o, !.lv = l]
    BY DEF WithoutMember
  <2>. HIDE DEF m, o, l
  <2>. QED BY <2>1 DEF CharParty
<1>. HIDE DEF m, o, l
<1>3. P.leader \in Fellow \cup {Leaderless} /\ P.exp \in BOOLEAN /\ P.lo \in 0 .. UintMax /\ P.hi \in 0 .. UintMax
  BY DEF CharParty
<1>. QED BY <1>1, <1>2, <1>3 DEF CharParty, m, o, l

\* mapif_parse_PartyLeave: one between the edges leaves them to others.
LEMMA LessIsKept ==
  ASSUME NEW P \in CharParty, NEW c \in Fellow
  PROVE  MemberLess(P, c) \in CharParty /\ (ShareKept(P) => ShareKept(MemberLess(P, c)))
<1>. DEFINE R == WithoutMember(P, c)
<1>0. R = WithoutMember(P, c)
  OBVIOUS
<1>2. MemberLess(P, c) = IF P.lv[c] \in {P.lo, P.hi} THEN int_party_check_lv(R) ELSE R
  BY DEF MemberLess, WithoutMember
<1>. HIDE DEF R
<1>1. /\ R \in CharParty /\ R.online = P.online \ {c} /\ R.lv = [P.lv EXCEPT ![c] = 0]
      /\ R.lo = P.lo /\ R.hi = P.hi /\ R.exp = P.exp
  BY <1>0, LessOK
<1>3. CASE P.lv[c] \in {P.lo, P.hi}
  BY <1>1, <1>2, <1>3, CheckedIsKept
<1>4. CASE P.lv[c] \notin {P.lo, P.hi}
  <2>1. ASSUME ShareKept(P) PROVE ShareKept(R)
    <3>1. Exact(P) /\ Narrow(P)
      BY <2>1, KeptIsExact
    <3>2. \A d \in R.online : d \in P.online /\ R.lv[d] = P.lv[d]
      BY <1>1, FieldsOK
    <3>3. P.online = {} => R.online = {}
      BY <1>1
    <3>4. P.online # {} => \E d, e \in R.online : P.lo = P.lv[d] /\ P.hi = P.lv[e]
      BY <1>1, <1>4, <3>1 DEF Exact
    <3>5. Exact(R)
      BY <1>1, <3>1, <3>2, <3>3, <3>4 DEF Exact
    <3>6. Narrow(R)
      BY <1>1, <3>1 DEF Narrow
    <3>. QED BY <1>1, <3>5, <3>6, KeptIsExact
  <2>. QED BY <1>1, <1>2, <1>4, <2>1
<1>. QED BY <1>3, <1>4

LEMMA LessMembers ==
  ASSUME NEW P \in CharParty, NEW c \in Fellow, P.online \subseteq P.member
  PROVE  MemberLess(P, c).online \subseteq MemberLess(P, c).member
<1>. DEFINE R == WithoutMember(P, c)
<1>0. R = WithoutMember(P, c)
  OBVIOUS
<1>2. MemberLess(P, c) = IF P.lv[c] \in {P.lo, P.hi} THEN int_party_check_lv(R) ELSE R
  BY DEF MemberLess, WithoutMember
<1>. HIDE DEF R
<1>1. /\ R \in CharParty /\ R.online = P.online \ {c} /\ R.lv = [P.lv EXCEPT ![c] = 0]
      /\ R.member = P.member \ {c}
      /\ R.lo = P.lo /\ R.hi = P.hi /\ R.exp = P.exp
  BY <1>0, LessOK
<1>3. R.online \subseteq R.member
  BY <1>1
<1>. QED BY <1>1, <1>2, <1>3, CheckedSame

\* mapif_parse_PartyChangeMap, first part; c is a member that comes or goes.
LEMMA PresenceIsKept ==
  ASSUME NEW P \in CharParty, NEW c \in Fellow, NEW lv \in 1 .. TopLevel, NEW online \in BOOLEAN,
         c \in P.online <=> ~online, NEW Q, Q = Presence(P, c, online, lv)
  PROVE  /\ Q \in CharParty
         /\ Q.member = P.member
         /\ Q.online = IF online THEN P.online \cup {c} ELSE P.online \ {c}
         /\ ShareKept(P) => ShareKept(Q) /\ (Q.lv[c] = lv \/ (Q.lo <= lv /\ lv <= Q.hi))
<1>. DEFINE there == IF online THEN P.online \cup {c} ELSE P.online \ {c}
            R == [P EXCEPT !.online = there]
            S == [R EXCEPT !.lv[c] = lv]
            looks == AtEdge(P, P.lv[c]) \/ (P.lv[c] # lv /\ AtEdge(P, lv))
<1>1. there \in SUBSET Fellow
  BY FieldsOK
<1>2. /\ R \in CharParty /\ R.online = there /\ R.lv = P.lv /\ R.member = P.member
      /\ R.lo = P.lo /\ R.hi = P.hi /\ R.exp = P.exp
  BY <1>1 DEF CharParty
<1>3. Q = IF looks THEN int_party_check_lv(S) ELSE R
  BY DEF Presence
<1>. HIDE DEF R
<1>4. S \in CharParty /\ S.online = there /\ S.lv = [P.lv EXCEPT ![c] = lv] /\ S.member = P.member
  BY <1>2, SizesOK DEF CharParty
<1>. HIDE DEF S
<1>5. CASE looks
  <2>1. Q \in CharParty /\ ShareKept(Q)
    BY <1>3, <1>4, <1>5, CheckedIsKept
  <2>2. Q.online = S.online /\ Q.lv = S.lv /\ Q.member = S.member
    BY <1>3, <1>4, <1>5, CheckedSame
  <2>3. Q.lv[c] = lv
    BY <1>4, <2>2, FieldsOK
  <2>. QED BY <1>4, <2>1, <2>2, <2>3
<1>6. CASE ~looks
  <2>1. ASSUME ShareKept(P) PROVE ShareKept(R) /\ (R.lo <= lv /\ lv <= R.hi)
    <3>1. Exact(P) /\ Narrow(P)
      BY <2>1, KeptIsExact
    <3>2. P.lv[c] \in Nat /\ P.lo \in Nat /\ P.hi \in Nat /\ lv \in Nat
      BY FieldsOK, SizesOK
    <3>3. ~(P.lv[c] <= P.lo) /\ ~(P.lv[c] >= P.hi) /\ (P.lv[c] # lv => ~(lv <= P.lo) /\ ~(lv >= P.hi))
      BY <1>6 DEF AtEdge
    <3>4. P.lo < P.lv[c] /\ P.lv[c] < P.hi /\ P.lo < lv /\ lv < P.hi
      BY <3>2, <3>3
    <3>5. P.online # {}
      BY <3>1, <3>2, <3>4, SizesOK DEF Exact
    <3>6. PICK d \in P.online, e \in P.online : P.lo = P.lv[d] /\ P.hi = P.lv[e]
      BY <3>1, <3>5 DEF Exact
    <3>7. d # c /\ e # c
      BY <3>2, <3>4, <3>6
    <3>8. d \in there /\ e \in there
      BY <3>7
    <3>9. \A f \in there : P.lo <= P.lv[f] /\ P.lv[f] <= P.hi
      BY <3>1, <3>2, <3>4 DEF Exact
    <3>. HIDE DEF there
    <3>10. Exact(R)
      BY <1>2, <3>6, <3>8, <3>9 DEF Exact
    <3>11. Narrow(R)
      BY <1>2, <3>1 DEF Narrow
    <3>12. R.lo <= lv /\ lv <= R.hi
      BY <1>2, <3>2, <3>4
    <3>. QED BY <1>2, <3>10, <3>11, <3>12, KeptIsExact
  <2>. QED BY <1>2, <1>3, <1>6, <2>1
<1>. QED BY <1>5, <1>6

\* Its second part: a level between the edges may change by one.
LEMMA NewLevelIsKept ==
  ASSUME NEW P \in CharParty, NEW c \in Fellow, NEW lv \in 1 .. TopLevel
  PROVE  LET R == NewLevel(P, c, lv)
         IN /\ R \in CharParty
            /\ R.member = P.member /\ R.online = P.online /\ R.lv = [P.lv EXCEPT ![c] = lv]
            /\ /\ ShareKept(P)
               /\ \/ c \notin P.online
                  \/ P.lo <= lv /\ lv <= P.hi
                  \/ lv <= P.lv[c] + 1 /\ P.lv[c] <= lv + 1
               => ShareKept(R)
<1>. DEFINE S == [P EXCEPT !.lv[c] = lv]
            R == NewLevel(P, c, lv)
            looks == P.lv[c] # lv /\ P.lv[c] \in {P.lo, P.hi}
<1>1. /\ S \in CharParty /\ S.online = P.online /\ S.lv = [P.lv EXCEPT ![c] = lv] /\ S.member = P.member
      /\ S.lo = P.lo /\ S.hi = P.hi /\ S.exp = P.exp
  BY SizesOK DEF CharParty
<1>2. R = IF looks THEN int_party_check_lv(S) ELSE S
  BY DEF NewLevel
<1>. HIDE DEF S, R
<1>3. CASE looks
  BY <1>1, <1>2, <1>3, CheckedIsKept, CheckedSame DEF R
<1>4. CASE ~looks
  <2>1. ASSUME ShareKept(P),
               \/ c \notin P.online
               \/ P.lo <= lv /\ lv <= P.hi
               \/ lv <= P.lv[c] + 1 /\ P.lv[c] <= lv + 1
        PROVE  ShareKept(S)
    <3>1. Exact(P) /\ Narrow(P)
      BY <2>1, KeptIsExact
    <3>2. P.lv[c] \in Nat /\ P.lo \in Nat /\ P.hi \in Nat /\ lv \in Nat
      BY FieldsOK, SizesOK
    <3>3. \A d \in P.online : d # c => S.lv[d] = P.lv[d]
      BY <1>1, FieldsOK
    <3>4. S.lv[c] = lv
      BY <1>1, FieldsOK
    <3>5. c \in P.online => P.lo <= lv /\ lv <= P.hi
      BY <1>4, <2>1, <3>1, <3>2 DEF Exact
    <3>6. \A d \in P.online : P.lv[d] \in {P.lo, P.hi} => S.lv[d] = P.lv[d]
      BY <1>4, <3>3, <3>4
    <3>7. Exact(S)
      BY <1>1, <3>1, <3>3, <3>4, <3>5, <3>6 DEF Exact
    <3>8. Narrow(S)
      BY <1>1, <3>1 DEF Narrow
    <3>. QED BY <1>1, <3>7, <3>8, KeptIsExact
  <2>. QED BY <1>1, <1>2, <1>4, <2>1 DEF R
<1>. QED BY <1>3, <1>4

-----------------------------------------------------------------------------
(* Packets to the char-server *)

Sound(k) ==
  /\ k.type \in {"create", "add"} => k.c \in Fellow /\ k.x \in 1 .. TopLevel
  /\ k.type = "change" => k.x.lv \in 1 .. TopLevel /\ k.x.online \in BOOLEAN
  /\ k.type = "option" => k.x \in BOOLEAN

AllSound(S) == \A k \in S : Sound(k)
RequestsOK == \E S : partyToChar \in [Server -> Seq(S)] /\ AllSound(S)

LEMMA AskedOK ==
  ASSUME RequestsOK, NEW m, NEW T, NEW packets \in Seq(T), AllSound(T), ToChar(m, packets)
  PROVE  RequestsOK'
<1>1. PICK S : partyToChar \in [Server -> Seq(S)] /\ AllSound(S)
  BY DEF RequestsOK
<1>. DEFINE U == S \union T
<1>2. AllSound(U)
  BY <1>1 DEF AllSound
<1>3. \A n \in Server : partyToChar[n] \in Seq(U)
  BY <1>1
<1>4. packets \in Seq(U)
  OBVIOUS
<1>. HIDE DEF U
<1>5. \A n \in Server : partyToChar[n] \o packets \in Seq(U)
  BY <1>3, <1>4
<1>6. partyToChar' \in [Server -> Seq(U)]
  BY <1>1, <1>3, <1>5 DEF ToChar
<1>. QED BY <1>2, <1>6 DEF RequestsOK

LEMMA AskedOne ==
  ASSUME RequestsOK, NEW m, NEW packet, Sound(packet), ToChar(m, <<packet>>)
  PROVE  RequestsOK'
<1>1. AllSound({packet})
  BY DEF AllSound
<1>. DEFINE T == {packet}
            s == <<packet>>
<1>2. s \in Seq(T)
  OBVIOUS
<1>3. ToChar(m, s) /\ AllSound(T)
  BY <1>1
<1>. HIDE DEF T, s
<1>. QED BY <1>2, <1>3, AskedOK

LEMMA AskedNone ==
  ASSUME RequestsOK, NEW m, ToChar(m, <<>>)
  PROVE  RequestsOK'
<1>. DEFINE T == {}
            s == <<>>
<1>1. s \in Seq(T) /\ AllSound(T) /\ ToChar(m, s)
  BY DEF AllSound
<1>. HIDE DEF T, s
<1>. QED BY <1>1, AskedOK

LEMMA NotAsked ==
  ASSUME RequestsOK, partyToChar' = partyToChar
  PROVE  RequestsOK'
BY DEF RequestsOK

LEMMA TakenOK ==
  ASSUME RequestsOK, NEW m \in Server, partyToChar[m] # <<>>,
         partyToChar' = [partyToChar EXCEPT ![m] = Tail(@)]
  PROVE  Sound(Head(partyToChar[m])) /\ RequestsOK'
<1>1. PICK S : partyToChar \in [Server -> Seq(S)] /\ AllSound(S)
  BY DEF RequestsOK
<1>2. partyToChar[m] \in Seq(S) /\ Head(partyToChar[m]) \in S /\ Tail(partyToChar[m]) \in Seq(S)
  BY <1>1
<1>3. partyToChar' \in [Server -> Seq(S)]
  BY <1>1, <1>2
<1>. QED BY <1>1, <1>2, <1>3 DEF RequestsOK, AllSound

\* Packets that ask nothing about levels.
Plainly == {"save", "info", "leave", "leader"}

LEMMA PlainIsSound ==
  ASSUME NEW type \in Plainly, NEW p, NEW c, NEW x
  PROVE  Sound(Packet(type, p, c, x))
BY DEF Plainly, Packet, Sound

LEMMA ChangeIsSound ==
  ASSUME NEW p, NEW c, NEW online \in BOOLEAN, NEW lv \in 1 .. TopLevel, NEW elsewhere
  PROVE  Sound(Packet("change", p, c, [online |-> online, lv |-> lv, elsewhere |-> elsewhere]))
BY DEF Packet, Sound

LEMMA MovedOK ==
  ASSUME RequestsOK, NEW m, NEW c, NEW online \in BOOLEAN, NEW lv \in 1 .. TopLevel, NEW elsewhere,
         ToChar(m, Moved(c, online, lv, elsewhere))
  PROVE  RequestsOK'
<1>1. CASE party_id[c] = 0
  BY <1>1, AskedNone DEF Moved
<1>2. CASE party_id[c] # 0
  <2>. DEFINE k == Packet("change", party_id[c], c, [online |-> online, lv |-> lv, elsewhere |-> elsewhere])
  <2>1. Sound(k) /\ ToChar(m, <<k>>)
    BY <1>2, ChangeIsSound DEF Moved
  <2>. HIDE DEF k
  <2>. QED BY <2>1, AskedOne
<1>. QED BY <1>1, <1>2

LEMMA LeaveAllOK ==
  ASSUME RequestsOK, NEW m, NEW p, NEW cs \in SUBSET Fellow, ToChar(m, LeaveAll(p, cs))
  PROVE  RequestsOK'
<1>. DEFINE n == Cardinality(cs)
            T == {Packet("leave", p, SetToSeq(cs)[i], 0) : i \in 1 .. n}
            s == LeaveAll(p, cs)
<1>1. n \in Nat
  BY PartyAssumption, FS_Subset, FS_CardinalityType
<1>2. AllSound(T)
  BY PlainIsSound DEF AllSound, Plainly
<1>3. s \in [1 .. n -> T]
  BY DEF LeaveAll
<1>. HIDE DEF n, T, s
<1>4. s \in Seq(T)
  BY <1>1, <1>3
<1>. QED BY <1>2, <1>4, AskedOK DEF s

-----------------------------------------------------------------------------
(* The parties of the char-server *)

DbOK ==
  /\ party_db \in [PartyIds -> CharParty \cup {NoParty}]
  /\ \A p \in PartyIds : party_db[p] # NoParty => party_db[p].online \subseteq party_db[p].member

Stays(P, Q) == Q # NoParty /\ (P # NoParty => ShareKept(P) /\ ByOneLevel(P, Q)) => ShareKept(Q)
AllStay == \A p \in PartyIds : Stays(party_db[p], party_db'[p])

TInv == DbOK /\ RequestsOK /\ level \in [Fellow -> 1 .. TopLevel]

LEMMA NoChange ==
  ASSUME DbOK, party_db' = party_db
  PROVE  DbOK' /\ AllStay
BY DEF DbOK, AllStay, Stays

LEMMA OneChanges ==
  ASSUME DbOK, NEW p \in PartyIds, NEW Q, party_db' = [party_db EXCEPT ![p] = Q],
         (Q \in CharParty /\ Q.online \subseteq Q.member) \/ Q = NoParty,
         Stays(party_db[p], Q)
  PROVE  DbOK' /\ AllStay
<1>1. party_db'[p] = Q /\ \A q \in PartyIds \ {p} : party_db'[q] = party_db[q]
  BY DEF DbOK
<1>2. party_db' \in [PartyIds -> CharParty \cup {NoParty}]
  BY DEF DbOK
<1>3. DbOK'
  BY <1>1, <1>2 DEF DbOK
<1>4. AllStay
  BY <1>1 DEF AllStay, Stays
<1>. QED BY <1>3, <1>4

LEMMA CreateStays ==
  ASSUME DbOK, NEW m, NEW k, Sound(k), k.type = "create", mapif_parse_CreateParty(m, k)
  PROVE  DbOK' /\ AllStay
<1>1. CASE party_db' = party_db
  BY <1>1, NoChange
<1>2. CASE party_db' # party_db
  <2>. DEFINE A == [member |-> {k.c}, online |-> {k.c},
                    lv |-> [c \in Fellow |-> IF c = k.c THEN k.x ELSE 0],
                    leader |-> k.c, exp |-> FALSE, lo |-> 0, hi |-> 0]
              P == int_party_check_lv(A)
              p == last_party + 1
  <2>1. p \in PartyIds /\ party_db' = [party_db EXCEPT ![p] = P]
    BY <1>2 DEF mapif_parse_CreateParty
  <2>2. k.c \in Fellow /\ k.x \in 0 .. TopLevel
    BY SizesOK DEF Sound
  <2>3. A \in CharParty /\ A.online = A.member
    <3>1. [c \in Fellow |-> IF c = k.c THEN k.x ELSE 0] \in [Fellow -> 0 .. TopLevel]
      BY <2>2, SizesOK
    <3>2. 0 \in 0 .. UintMax
      BY SizesOK
    <3>. QED BY <2>2, <3>1, <3>2 DEF CharParty
  <2>. HIDE DEF A, p
  <2>4. P \in CharParty /\ ShareKept(P) /\ P.online = A.online /\ P.member = A.member
    BY <2>3, CheckedIsKept, CheckedSame
  <2>. HIDE DEF P
  <2>. QED BY <2>1, <2>3, <2>4, OneChanges DEF Stays
<1>. QED BY <1>1, <1>2

LEMMA AddStays ==
  ASSUME DbOK, NEW m, NEW k, Sound(k), k.type = "add", mapif_parse_PartyAddMember(m, k)
  PROVE  DbOK' /\ AllStay
<1>1. CASE party_db' = party_db
  BY <1>1, NoChange
<1>2. CASE party_db' # party_db
  <2>. DEFINE P == party_db[k.p]
              A == WithMember(P, k.c, k.x)
              Q == IF k.c \in P.member \/ WidensRange(A, k.x) THEN int_party_check_lv(A) ELSE A
  <2>1. P # NoParty /\ party_db' = [party_db EXCEPT ![k.p] = Q]
    BY <1>2 DEF mapif_parse_PartyAddMember, WithMember
  <2>2. k.p \in PartyIds
    BY <1>2, <2>1 DEF DbOK
  <2>3. P \in CharParty /\ P.online \subseteq P.member
    BY <2>1, <2>2 DEF DbOK
  <2>4. k.c \in Fellow /\ k.x \in 1 .. TopLevel
    BY DEF Sound
  <2>. HIDE DEF P
  <2>5. Q \in CharParty /\ (ShareKept(P) => ShareKept(Q)) /\ Q.online \subseteq Q.member
    BY <2>3, <2>4, AddedIsKept, AddedMembers
  <2>. HIDE DEF Q
  <2>. QED BY <2>1, <2>2, <2>5, OneChanges DEF Stays, P
<1>. QED BY <1>1, <1>2

LEMMA OptionStays ==
  ASSUME DbOK, NEW m, NEW k, Sound(k), k.type = "option", mapif_parse_PartyChangeOption(m, k)
  PROVE  DbOK' /\ AllStay
<1>1. CASE party_db' = party_db
  BY <1>1, NoChange
<1>2. CASE party_db' # party_db
  <2>. DEFINE P == party_db[k.p]
              granted == k.x => party_check_exp_share(P)
              e == k.x /\ granted
              Q == [P EXCEPT !.exp = e]
  <2>1. P # NoParty /\ party_db' = [party_db EXCEPT ![k.p] = Q]
    BY <1>2 DEF mapif_parse_PartyChangeOption
  <2>2. k.p \in PartyIds
    BY <1>2, <2>1 DEF DbOK
  <2>3. P \in CharParty /\ P.online \subseteq P.member
    BY <2>1, <2>2 DEF DbOK
  <2>4. e \in BOOLEAN /\ (e => party_check_exp_share(P))
    BY DEF Sound
  <2>. HIDE DEF P, e, granted
  <2>5. /\ Q \in CharParty /\ Q.online = P.online /\ Q.member = P.member /\ Q.lv = P.lv
        /\ Q.lo = P.lo /\ Q.hi = P.hi /\ Q.exp = e
    BY <2>3, <2>4 DEF CharParty
  <2>. HIDE DEF Q
  <2>6. ShareKept(P) => ShareKept(Q)
    BY <2>3, <2>4, <2>5, ShareKeptAlike
  <2>. QED BY <2>1, <2>2, <2>3, <2>5, <2>6, OneChanges DEF Stays, P
<1>. QED BY <1>1, <1>2

LEMMA LeaveStays ==
  ASSUME DbOK, NEW k, mapif_parse_PartyLeave(k)
  PROVE  DbOK' /\ AllStay
<1>1. CASE party_db' = party_db
  BY <1>1, NoChange
<1>2. CASE party_db' # party_db
  <2>. DEFINE P == party_db[k.p]
              R == MemberLess(P, k.c)
  <2>1. PICK Q \in {NoParty, R} : /\ P # NoParty /\ k.c \in P.member
                                  /\ party_db' = [party_db EXCEPT ![k.p] = Q]
    BY <1>2 DEF mapif_parse_PartyLeave
  <2>2. k.p \in PartyIds
    BY <1>2, <2>1 DEF DbOK
  <2>3. P \in CharParty /\ P.online \subseteq P.member
    BY <2>1, <2>2 DEF DbOK
  <2>4. k.c \in Fellow
    BY <2>1, <2>3 DEF CharParty
  <2>. HIDE DEF P
  <2>5. R \in CharParty /\ (ShareKept(P) => ShareKept(R)) /\ R.online \subseteq R.member
    BY <2>3, <2>4, LessIsKept, LessMembers
  <2>. HIDE DEF R
  <2>6. CASE Q = NoParty
    BY <2>1, <2>2, <2>6, OneChanges DEF Stays, P
  <2>7. CASE Q = R
    BY <2>1, <2>2, <2>5, <2>7, OneChanges DEF Stays, P
  <2>. QED BY <2>1, <2>6, <2>7
<1>. QED BY <1>1, <1>2

LEMMA ChangeStays ==
  ASSUME DbOK, NEW k, Sound(k), k.type = "change", mapif_parse_PartyChangeMap(k)
  PROVE  DbOK' /\ AllStay
<1>1. CASE party_db' = party_db
  BY <1>1, NoChange
<1>2. CASE party_db' # party_db
  <2>. DEFINE P == party_db[k.p]
              comesOrGoes == (k.c \in P.online) # k.x.online
              Q == IF comesOrGoes THEN Presence(P, k.c, k.x.online, k.x.lv) ELSE P
              R == NewLevel(Q, k.c, k.x.lv)
  <2>1. P # NoParty /\ k.c \in P.member /\ party_db' = [party_db EXCEPT ![k.p] = R]
    BY <1>2 DEF mapif_parse_PartyChangeMap
  <2>2. k.p \in PartyIds
    BY <1>2, <2>1 DEF DbOK
  <2>3. P \in CharParty /\ P.online \subseteq P.member
    BY <2>1, <2>2 DEF DbOK
  <2>4. k.c \in Fellow /\ k.x.lv \in 1 .. TopLevel /\ k.x.online \in BOOLEAN
    BY <2>1, <2>3 DEF CharParty, Sound
  <2>. HIDE DEF P
  <2>5. /\ Q \in CharParty /\ Q.member = P.member
        /\ comesOrGoes => /\ Q.online = IF k.x.online THEN P.online \cup {k.c} ELSE P.online \ {k.c}
                          /\ ShareKept(P) => /\ ShareKept(Q)
                                             /\ Q.lv[k.c] = k.x.lv \/ (Q.lo <= k.x.lv /\ k.x.lv <= Q.hi)
        /\ ~comesOrGoes => Q = P
    <3>1. CASE ~comesOrGoes
      BY <2>3, <3>1
    <3>2. CASE comesOrGoes
      <4>. DEFINE c == k.c
                  on == k.x.online
                  lv == k.x.lv
      <4>1. /\ c \in Fellow /\ lv \in 1 .. TopLevel /\ on \in BOOLEAN /\ (c \in P.online <=> ~on)
            /\ Q = Presence(P, c, on, lv)
        BY <2>4, <3>2
      <4>. HIDE DEF P, c, on, lv, Q, comesOrGoes
      <4>2. /\ Q \in CharParty /\ Q.member = P.member
            /\ Q.online = IF on THEN P.online \cup {c} ELSE P.online \ {c}
            /\ ShareKept(P) => ShareKept(Q) /\ (Q.lv[c] = lv \/ (Q.lo <= lv /\ lv <= Q.hi))
        BY <2>3, <4>1, PresenceIsKept, SMTT(40)
      <4>. QED BY <3>2, <4>1, <4>2 DEF c, on, lv
    <3>. QED BY <3>1, <3>2
  <2>. HIDE DEF Q
  <2>6. /\ R \in CharParty /\ R.member = Q.member /\ R.online = Q.online
        /\ R.lv = [Q.lv EXCEPT ![k.c] = k.x.lv]
        /\ /\ ShareKept(Q)
           /\ \/ k.c \notin Q.online
              \/ Q.lo <= k.x.lv /\ k.x.lv <= Q.hi
              \/ k.x.lv <= Q.lv[k.c] + 1 /\ Q.lv[k.c] <= k.x.lv + 1
           => ShareKept(R)
    BY <2>4, <2>5, NewLevelIsKept
  <2>. HIDE DEF R
  <2>7. R.online \subseteq R.member
    BY <2>1, <2>3, <2>4, <2>5, <2>6
  <2>8. R.lv[k.c] = k.x.lv /\ Q.lv[k.c] \in Nat /\ k.x.lv \in Nat
    BY <2>4, <2>5, <2>6, FieldsOK, SizesOK
  <2>9. ASSUME ShareKept(P), ByOneLevel(P, R) PROVE ShareKept(R)
    <3>1. CASE comesOrGoes
      BY <2>5, <2>6, <2>8, <2>9, <3>1
    <3>2. CASE ~comesOrGoes
      <4>1. Q = P
        BY <2>5, <3>2
      <4>2. k.c \in Q.online => k.x.lv <= Q.lv[k.c] + 1 /\ Q.lv[k.c] <= k.x.lv + 1
        BY <2>6, <2>8, <2>9, <4>1 DEF ByOneLevel
      <4>. QED BY <2>6, <2>9, <4>1, <4>2
    <3>. QED BY <3>1, <3>2
  <2>. QED BY <2>1, <2>2, <2>6, <2>7, <2>9, OneChanges DEF Stays, P
<1>. QED BY <1>1, <1>2

LEMMA LeaderStays ==
  ASSUME DbOK, NEW k, mapif_parse_PartyLeaderChange(k)
  PROVE  DbOK' /\ AllStay
<1>1. CASE party_db' = party_db
  BY <1>1, NoChange
<1>2. CASE party_db' # party_db
  <2>. DEFINE P == party_db[k.p]
              l == IF k.c \in P.member THEN k.c ELSE Leaderless
              Q == [P EXCEPT !.leader = l]
  <2>1. P # NoParty /\ party_db' = [party_db EXCEPT ![k.p] = Q]
    BY <1>2 DEF mapif_parse_PartyLeaderChange
  <2>2. k.p \in PartyIds
    BY <1>2, <2>1 DEF DbOK
  <2>3. P \in CharParty /\ P.online \subseteq P.member
    BY <2>1, <2>2 DEF DbOK
  <2>4. l \in Fellow \cup {Leaderless}
    BY <2>3 DEF CharParty
  <2>. HIDE DEF P, l
  <2>5. /\ Q \in CharParty /\ Q.online = P.online /\ Q.member = P.member /\ Q.lv = P.lv
        /\ Q.lo = P.lo /\ Q.hi = P.hi /\ Q.exp = P.exp
    BY <2>3, <2>4 DEF CharParty
  <2>. HIDE DEF Q
  <2>6. ShareKept(P) => ShareKept(Q)
    BY <2>3, <2>5, ShareKeptAlike
  <2>. QED BY <2>1, <2>2, <2>3, <2>5, <2>6, OneChanges DEF Stays, P
<1>. QED BY <1>1, <1>2

-----------------------------------------------------------------------------
(* The steps *)

LEMMA CharHandlesOK ==
  ASSUME TInv, NEW m \in Server, PartyCharHandles(m)
  PROVE  TInv' /\ AllStay
<1>. DEFINE k == Head(partyToChar[m])
<1>1. Sound(k) /\ RequestsOK'
  BY TakenOK DEF TInv, PartyCharHandles
<1>2. level' = level
  BY DEF PartyCharHandles, sessions
<1>3. DbOK' /\ AllStay
  <2>1. PICK l : l = k
    OBVIOUS
  <2>2. Sound(l) /\ DbOK
    BY <1>1, <2>1 DEF TInv
  <2>. HIDE DEF k
  <2>3. \/ SaveStatus(l)
        \/ l.type = "create" /\ mapif_parse_CreateParty(m, l)
        \/ l.type = "info" /\ mapif_parse_PartyInfo(m, l)
        \/ l.type = "add" /\ mapif_parse_PartyAddMember(m, l)
        \/ l.type = "option" /\ mapif_parse_PartyChangeOption(m, l)
        \/ mapif_parse_PartyLeave(l)
        \/ l.type = "change" /\ mapif_parse_PartyChangeMap(l)
        \/ mapif_parse_PartyLeaderChange(l)
    BY <2>1 DEF PartyCharHandles, k
  <2>4. CASE SaveStatus(l) \/ (l.type = "info" /\ mapif_parse_PartyInfo(m, l))
    BY <2>2, <2>4, NoChange DEF SaveStatus, mapif_parse_PartyInfo
  <2>5. CASE l.type = "create" /\ mapif_parse_CreateParty(m, l)
    BY <2>2, <2>5, CreateStays
  <2>6. CASE l.type = "add" /\ mapif_parse_PartyAddMember(m, l)
    BY <2>2, <2>6, AddStays
  <2>7. CASE l.type = "option" /\ mapif_parse_PartyChangeOption(m, l)
    BY <2>2, <2>7, OptionStays
  <2>8. CASE mapif_parse_PartyLeave(l)
    BY <2>2, <2>8, LeaveStays
  <2>9. CASE l.type = "change" /\ mapif_parse_PartyChangeMap(l)
    BY <2>2, <2>9, ChangeStays
  <2>10. CASE mapif_parse_PartyLeaderChange(l)
    BY <2>2, <2>10, LeaderStays
  <2>. QED BY <2>3, <2>4, <2>5, <2>6, <2>7, <2>8, <2>9, <2>10
<1>. QED BY <1>1, <1>2, <1>3 DEF TInv

LEMMA MapHandlesOK ==
  ASSUME TInv, NEW m \in Server, PartyMapHandles(m)
  PROVE  TInv' /\ AllStay
<1>1. level' = level /\ party_db' = party_db
  BY DEF PartyMapHandles, charParties
<1>2. RequestsOK
  BY DEF TInv
<1>3. RequestsOK'
  <2>1. PICK k : /\ k = Head(partyToMap[m])
                 /\ \/ PartyJoined(m, k) \/ party_recv_info(m, k) \/ party_recv_noinfo(m, k)
                    \/ party_created(m, k) \/ party_member_added(m, k) \/ party_optionchanged(m, k)
                    \/ party_member_withdraw(m, k) \/ party_broken(m, k) \/ party_recv_movemap(m, k)
    BY DEF PartyMapHandles
  <2>2. \A p, c, x : \A type \in Plainly :
          ToChar(m, <<Packet(type, p, c, x)>>) => RequestsOK'
    BY <1>2, PlainIsSound, AskedOne
  <2>3. "info" \in Plainly /\ "leave" \in Plainly
    BY DEF Plainly
  <2>4. ToChar(m, <<>>) \/ partyToChar' = partyToChar => RequestsOK'
    BY <1>2, AskedNone, NotAsked
  <2>5. CASE PartyJoined(m, k)
    <3>1. ToChar(m, <<>>) \/ ToChar(m, <<Packet("info", k.p, k.c, 0)>>)
      BY <2>5 DEF PartyJoined
    <3>. QED BY <2>2, <2>3, <2>4, <3>1
  <2>6. CASE party_recv_info(m, k)
    <3>1. PICK ids : ToChar(m, LeaveAll(k.p, Strangers(m, k.p, k.x.member, ids)))
      BY <2>6 DEF party_recv_info
    <3>2. PICK cs \in SUBSET Fellow : cs = Strangers(m, k.p, k.x.member, ids)
      BY DEF Strangers
    <3>. QED BY <1>2, <3>1, <3>2, LeaveAllOK
  <2>7. CASE party_recv_noinfo(m, k) \/ party_optionchanged(m, k) \/ party_member_withdraw(m, k)
             \/ party_broken(m, k)
    BY <2>4, <2>7 DEF party_recv_noinfo, party_optionchanged, party_member_withdraw, party_broken, Broken
  <2>8. CASE party_created(m, k)
    <3>1. \/ partyToChar' = partyToChar \/ ToChar(m, <<>>)
          \/ ToChar(m, <<Packet("leave", k.p, k.c, 0)>>)
      BY <2>8 DEF party_created
    <3>. QED BY <2>2, <2>3, <2>4, <3>1
  <2>9. CASE party_member_added(m, k)
    <3>1. \/ partyToChar' = partyToChar \/ ToChar(m, <<>>)
          \/ ToChar(m, <<Packet("leave", k.p, k.c, 0)>>)
      BY <2>9 DEF party_member_added
    <3>. QED BY <2>2, <2>3, <2>4, <3>1
  <2>10. CASE party_recv_movemap(m, k)
    <3>1. \/ partyToChar' = partyToChar
          \/ ToChar(m, LeaveAll(k.p, Strangers(m, k.p, {k.c}, party_id)))
      BY <2>10 DEF party_recv_movemap
    <3>2. PICK cs \in SUBSET Fellow : cs = Strangers(m, k.p, {k.c}, party_id)
      BY DEF Strangers
    <3>. QED BY <1>2, <2>4, <3>1, <3>2, LeaveAllOK
  <2>. QED BY <2>1, <2>5, <2>6, <2>7, <2>8, <2>9, <2>10
<1>4. DbOK' /\ AllStay
  BY <1>1, NoChange DEF TInv
<1>. QED BY <1>1, <1>3, <1>4 DEF TInv

LEMMA QuitOK ==
  ASSUME TInv, NEW c \in Fellow, PartyQuit(c)
  PROVE  RequestsOK'
<1>. DEFINE k == Packet("save", party_id[c], c, TRUE)
            s == <<k>>
            t == Moved(c, FALSE, level[c], FALSE)
            r == Packet("change", party_id[c], c, [online |-> FALSE, lv |-> level[c], elsewhere |-> FALSE])
            T == {k, r}
<1>1. Sound(k) /\ Sound(r)
  BY PlainIsSound, ChangeIsSound DEF Plainly, TInv
<1>2. t = <<>> \/ t = <<r>>
  BY DEF Moved
<1>3. ToChar(at[c], s \o t) /\ RequestsOK
  BY DEF PartyQuit, TInv
<1>. HIDE DEF k, r, t
<1>4. AllSound(T)
  BY <1>1 DEF AllSound
<1>5. s \in Seq(T)
  OBVIOUS
<1>6. t \in Seq(T)
  <2>1. <<>> \in Seq(T) /\ <<r>> \in Seq(T)
    OBVIOUS
  <2>. QED BY <1>2, <2>1
<1>. HIDE DEF s, T
<1>. DEFINE all == s \o t
<1>7. all \in Seq(T) /\ ToChar(at[c], all)
  BY <1>3, <1>5, <1>6
<1>. HIDE DEF all
<1>. QED BY <1>3, <1>4, <1>7, AskedOK

LEMMA FellowOK ==
  ASSUME TInv, PartyFellow
  PROVE  TInv' /\ AllStay
<1>1. PICK c \in Fellow :
        \/ PartyCreate(c)
        \/ \E d \in Fellow : PartyInvite(c, d) \/ PartyLeave(c, d) \/ ChangeLeader(c, d)
        \/ \E b \in BOOLEAN : ReplyInvite(c, b) \/ PartyOption(c, b) \/ PartyMoves(c, b)
        \/ \E lv \in 1 .. TopLevel : LevelUp(c, lv)
        \/ PartyAutosave(c) \/ PartyQuit(c)
        \/ \E m \in Server : PartyLogin(c, m)
  BY DEF PartyFellow
<1>2. party_db' = party_db
  BY <1>1 DEF PartyCreate, PartyInvite, PartyLeave, ChangeLeader, ReplyInvite, PartyOption, PartyMoves,
       LevelUp, PartyAutosave, PartyQuit, PartyLogin, charParties
<1>3. DbOK' /\ AllStay
  BY <1>2, NoChange DEF TInv
<1>4. RequestsOK /\ level[c] \in 1 .. TopLevel
  BY DEF TInv
<1>5. \A p, d, x : \A type \in Plainly : ToChar(at[c], <<Packet(type, p, d, x)>>) => RequestsOK'
  BY <1>4, PlainIsSound, AskedOne
<1>6. "leave" \in Plainly /\ "leader" \in Plainly /\ "save" \in Plainly
  BY DEF Plainly
<1>7. \A p : \A type \in {"create", "add"} :
        ToChar(at[c], <<Packet(type, p, c, level[c])>>) => RequestsOK'
  <2>1. \A p : \A type \in {"create", "add"} : Sound(Packet(type, p, c, level[c]))
    BY <1>4 DEF Sound, Packet
  <2>. QED BY <1>4, <2>1, AskedOne
<1>8. CASE PartyCreate(c)
  <2>1. level' = level /\ RequestsOK'
    BY <1>7, <1>8 DEF PartyCreate
  <2>. QED BY <1>3, <2>1 DEF TInv
<1>9. ASSUME NEW d \in Fellow, PartyInvite(c, d) \/ PartyLeave(c, d) \/ ChangeLeader(c, d)
      PROVE  TInv'
  <2>1. level' = level
    BY <1>9 DEF PartyInvite, PartyLeave, ChangeLeader, sessions
  <2>2. \/ partyToChar' = partyToChar
        \/ ToChar(at[c], <<Packet("leave", party_id[c], d, 0)>>)
        \/ ToChar(at[c], <<Packet("leader", party_id[c], d, 0)>>)
    BY <1>9 DEF PartyInvite, PartyLeave, ChangeLeader
  <2>. QED BY <1>3, <1>4, <1>5, <1>6, <2>1, <2>2, NotAsked DEF TInv
<1>10. ASSUME NEW b \in BOOLEAN, ReplyInvite(c, b) \/ PartyOption(c, b) \/ PartyMoves(c, b)
       PROVE  TInv'
  <2>1. level' = level
    BY <1>10 DEF ReplyInvite, PartyOption, PartyMoves, sessions
  <2>2. CASE ReplyInvite(c, b)
    <3>1. \/ partyToChar' = partyToChar
          \/ ToChar(at[c], <<Packet("add", party_invite[c], c, level[c])>>)
      BY <2>2 DEF ReplyInvite
    <3>. QED BY <1>3, <1>4, <1>7, <2>1, <3>1, NotAsked DEF TInv
  <2>3. CASE PartyOption(c, b)
    <3>1. Sound(Packet("option", party_id[c], c, b))
      BY DEF Sound, Packet
    <3>2. ToChar(at[c], <<Packet("option", party_id[c], c, b)>>)
      BY <2>3 DEF PartyOption
    <3>. QED BY <1>3, <1>4, <2>1, <3>1, <3>2, AskedOne DEF TInv
  <2>4. CASE PartyMoves(c, b)
    <3>1. ToChar(at[c], Moved(c, TRUE, level[c], b))
      BY <2>4 DEF PartyMoves
    <3>. QED BY <1>3, <1>4, <2>1, <3>1, MovedOK DEF TInv
  <2>. QED BY <1>10, <2>2, <2>3, <2>4
<1>11. ASSUME NEW lv \in 1 .. TopLevel, LevelUp(c, lv) PROVE TInv'
  <2>1. level' \in [Fellow -> 1 .. TopLevel]
    BY <1>11 DEF LevelUp, TInv
  <2>2. ToChar(at[c], Moved(c, TRUE, lv, FALSE))
    BY <1>11 DEF LevelUp
  <2>. QED BY <1>3, <1>4, <2>1, <2>2, MovedOK DEF TInv
<1>12. CASE PartyAutosave(c)
  <2>1. level' = level /\ ToChar(at[c], <<Packet("save", party_id[c], c, FALSE)>>)
    BY <1>12 DEF PartyAutosave, sessions
  <2>. QED BY <1>3, <1>5, <1>6, <2>1 DEF TInv
<1>13. CASE PartyQuit(c)
  <2>1. level' = level
    BY <1>13 DEF PartyQuit
  <2>. QED BY <1>3, <1>13, <2>1, QuitOK DEF TInv
<1>14. ASSUME NEW m \in Server, PartyLogin(c, m) PROVE TInv'
  <2>1. level' = level /\ partyToChar' = partyToChar
    BY <1>14 DEF PartyLogin
  <2>. QED BY <1>3, <1>4, <2>1, NotAsked DEF TInv
<1>. QED BY <1>1, <1>3, <1>8, <1>9, <1>10, <1>11, <1>12, <1>13, <1>14

LEMMA NextOK == TInv /\ [PartyNext]_partyVars => TInv' /\ AllStay
<1>. SUFFICES ASSUME TInv, [PartyNext]_partyVars PROVE TInv' /\ AllStay
  OBVIOUS
<1>1. CASE PartyFellow
  BY <1>1, FellowOK
<1>2. ASSUME NEW m \in Server, PartyMapHandles(m) \/ PartyCharHandles(m) PROVE TInv' /\ AllStay
  BY <1>2, MapHandlesOK, CharHandlesOK
<1>3. CASE UNCHANGED partyVars
  <2>1. party_db' = party_db /\ level' = level /\ partyToChar' = partyToChar
    BY <1>3 DEF partyVars
  <2>. QED BY <2>1, NoChange, NotAsked DEF TInv
<1>. QED BY <1>1, <1>2, <1>3 DEF PartyNext

-----------------------------------------------------------------------------
(* The first party *)

AllKept == \A p \in PartyIds : party_db[p] # NoParty => ShareKept(party_db[p])

\* The party there may be at first.
LEMMA TeamOK ==
  ASSUME NEW team \in SUBSET Fellow, NEW head \in Fellow, NEW exp \in BOOLEAN,
         StartWith(team, head, exp), team # {},
         NEW P, P = [member |-> team, online |-> team, leader |-> head, exp |-> exp,
                     lv |-> [c \in Fellow |-> IF c \in team THEN level[c] ELSE 0],
                     lo |-> Min({level[c] : c \in team}), hi |-> Max({level[c] : c \in team})]
  PROVE  P \in CharParty /\ ShareKept(P) /\ P.online = P.member /\ P.member = team /\ P.exp = exp
<1>. DEFINE lvs == {level[c] : c \in team}
            l == Min(lvs)
            h == Max(lvs)
            lv == [c \in Fellow |-> IF c \in team THEN level[c] ELSE 0]
<1>0. level \in [Fellow -> 1 .. TopLevel]
  BY DEF StartWith
<1>1. lvs \in SUBSET (0 .. TopLevel) /\ lvs # {}
  BY <1>0, SizesOK
<1>2. exp => h - l <= ShareLevel
  BY Zenon DEF StartWith
<1>3. (\A c \in team : level[c] \in lvs) /\ (\A y \in lvs : \E c \in team : y = level[c])
  OBVIOUS
<1>4. P = [member |-> team, online |-> team, leader |-> head, exp |-> exp,
           lv |-> lv, lo |-> l, hi |-> h]
  OBVIOUS
<1>. HIDE DEF lvs
<1>5. l \in lvs /\ h \in lvs /\ \A y \in lvs : l <= y /\ y <= h
  BY <1>1, RangeOfLevels
<1>. HIDE DEF l, h
<1>6. lv \in [Fellow -> 0 .. TopLevel] /\ \A c \in team : lv[c] = level[c]
  BY <1>0, SizesOK
<1>. HIDE DEF lv
<1>7. l \in 0 .. UintMax /\ h \in 0 .. UintMax
  <2>1. \A y \in lvs : y \in 0 .. UintMax
    BY <1>1, SizesOK
  <2>. QED BY <1>5, <2>1
<1>8. /\ P.member = team /\ P.online = team /\ P.exp = exp /\ P.lv = lv /\ P.lo = l /\ P.hi = h
  BY <1>4
<1>9. P \in CharParty
  BY <1>4, <1>6, <1>7 DEF CharParty
<1>10. Exact(P)
  BY <1>3, <1>5, <1>6, <1>8 DEF Exact
<1>11. Narrow(P)
  BY <1>2, <1>7, <1>8, SizesOK DEF Narrow
<1>12. ShareKept(P)
  BY <1>9, <1>10, <1>11, KeptIsExact
<1>. QED BY <1>8, <1>9, <1>12

LEMMA InitOK == PartyInit => TInv /\ AllKept
<1>. SUFFICES ASSUME NEW team \in SUBSET Fellow, NEW head \in Fellow, NEW exp \in BOOLEAN,
                     StartWith(team, head, exp)
              PROVE  TInv /\ AllKept
  BY DEF PartyInit
<1>1. level \in [Fellow -> 1 .. TopLevel]
  BY DEF StartWith
<1>2. RequestsOK
  <2>. DEFINE S == {}
  <2>1. AllSound(S)
    BY DEF AllSound
  <2>2. partyToChar = [m \in Server |-> <<>>]
    BY DEF StartWith
  <2>3. partyToChar \in [Server -> Seq(S)]
    <3>. HIDE DEF S
    <3>. QED BY <2>2
  <2>. HIDE DEF S
  <2>. QED BY <2>1, <2>3 DEF RequestsOK
<1>. DEFINE P == [member |-> team, online |-> team, leader |-> head, exp |-> exp,
                  lv |-> [c \in Fellow |-> IF c \in team THEN level[c] ELSE 0],
                  lo |-> Min({level[c] : c \in team}), hi |-> Max({level[c] : c \in team})]
<1>3. party_db = [p \in PartyIds |-> IF p # 1 \/ team = {} THEN NoParty ELSE P]
  BY Zenon DEF StartWith
<1>4. team # {} => P \in CharParty /\ ShareKept(P) /\ P.online = P.member
  BY TeamOK
<1>. HIDE DEF P
<1>. QED BY <1>1, <1>2, <1>3, <1>4 DEF TInv, DbOK, AllKept

-----------------------------------------------------------------------------
(* Queues of packets *)

LEMMA PacketsOfTail ==
  ASSUME NEW S, NEW q \in Seq(S), q # <<>>
  PROVE  /\ Head(q) \in S /\ Tail(q) \in Seq(S)
         /\ Head(q) \in ToSet(q)
         /\ ToSet(q) = {Head(q)} \cup ToSet(Tail(q))
<1>1. Len(q) \in Nat \ {0} /\ DOMAIN q = 1 .. Len(q) /\ Head(q) = q[1] /\ Head(q) \in S
  OBVIOUS
<1>2. /\ Tail(q) \in Seq(S) /\ DOMAIN Tail(q) = 1 .. Len(q) - 1
      /\ \A i \in 1 .. Len(q) - 1 : Tail(q)[i] = q[i + 1]
  OBVIOUS
<1>3. ASSUME NEW k \in ToSet(q) PROVE k = Head(q) \/ k \in ToSet(Tail(q))
  <2>1. PICK i \in 1 .. Len(q) : k = q[i]
    BY <1>1 DEF ToSet
  <2>2. CASE i = 1
    BY <1>1, <2>1, <2>2
  <2>3. CASE i # 1
    <3>1. i - 1 \in 1 .. Len(q) - 1 /\ Tail(q)[i - 1] = k
      BY <1>1, <1>2, <2>1, <2>3
    <3>. QED BY <1>2, <3>1 DEF ToSet
  <2>. QED BY <2>2, <2>3
<1>4. ASSUME NEW k \in ToSet(Tail(q)) PROVE k \in ToSet(q)
  <2>1. PICK i \in 1 .. Len(q) - 1 : k = Tail(q)[i]
    BY <1>2 DEF ToSet
  <2>2. i + 1 \in 1 .. Len(q) /\ q[i + 1] = k
    BY <1>1, <1>2, <2>1
  <2>. QED BY <1>1, <2>2 DEF ToSet
<1>5. Head(q) \in ToSet(q)
  BY <1>1 DEF ToSet
<1>. QED BY <1>1, <1>2, <1>3, <1>4, <1>5

LEMMA PacketsOfBoth ==
  ASSUME NEW S, NEW q \in Seq(S), NEW r \in Seq(S)
  PROVE  q \o r \in Seq(S) /\ ToSet(q \o r) = ToSet(q) \cup ToSet(r)
<1>1. /\ Len(q) \in Nat /\ DOMAIN q = 1 .. Len(q) /\ Len(r) \in Nat /\ DOMAIN r = 1 .. Len(r)
      /\ DOMAIN (q \o r) = 1 .. Len(q) + Len(r)
      /\ \A i \in 1 .. Len(q) + Len(r) : (q \o r)[i] = IF i <= Len(q) THEN q[i] ELSE r[i - Len(q)]
  OBVIOUS
<1>2. ASSUME NEW k \in ToSet(q \o r) PROVE k \in ToSet(q) \/ k \in ToSet(r)
  <2>1. PICK i \in 1 .. Len(q) + Len(r) : k = (q \o r)[i]
    BY <1>1 DEF ToSet
  <2>2. i \in 1 .. Len(q) \/ i - Len(q) \in 1 .. Len(r)
    BY <1>1
  <2>. QED BY <1>1, <2>1, <2>2 DEF ToSet
<1>3. ASSUME NEW k \in ToSet(q) PROVE k \in ToSet(q \o r)
  <2>1. PICK i \in 1 .. Len(q) : k = q[i]
    BY <1>1 DEF ToSet
  <2>2. i \in 1 .. Len(q) + Len(r) /\ (q \o r)[i] = k
    BY <1>1, <2>1
  <2>. QED BY <1>1, <2>2 DEF ToSet
<1>4. ASSUME NEW k \in ToSet(r) PROVE k \in ToSet(q \o r)
  <2>1. PICK i \in 1 .. Len(r) : k = r[i]
    BY <1>1 DEF ToSet
  <2>2. i + Len(q) \in 1 .. Len(q) + Len(r) /\ (q \o r)[i + Len(q)] = k
    BY <1>1, <2>1
  <2>. QED BY <1>1, <2>2 DEF ToSet
<1>. QED BY <1>2, <1>3, <1>4

LEMMA PacketsOfOne ==
  ASSUME NEW S, NEW k \in S
  PROVE  <<k>> \in Seq(S) /\ ToSet(<<k>>) = {k}
<1>1. DOMAIN <<k>> = {1} /\ <<k>>[1] = k
  OBVIOUS
<1>. QED BY <1>1 DEF ToSet

LEMMA PacketsOfNone ==
  ASSUME NEW S
  PROVE  <<>> \in Seq(S) /\ ToSet(<<>>) = {}
BY DEF ToSet

LEMMA PacketsAreTyped ==
  ASSUME NEW S, NEW q \in Seq(S), NEW k \in ToSet(q)
  PROVE  k \in S
<1>1. PICK i \in DOMAIN q : k = q[i]
  BY DEF ToSet
<1>. QED BY <1>1

-----------------------------------------------------------------------------
(* Types *)

SharingOf == [member : SUBSET Fellow, leader : Fellow \cup {Leaderless}, exp : BOOLEAN]
MovedOf == [online : BOOLEAN, lv : 1 .. TopLevel, elsewhere : BOOLEAN]

\* What may be under way to the char-server and to a map-server.
Requests ==
  [type : {"create"}, p : {0}, c : Fellow, x : 1 .. TopLevel] \cup
  [type : {"add"}, p : PartyIds, c : Fellow, x : 1 .. TopLevel] \cup
  [type : {"info", "leave", "leader"}, p : PartyIds, c : Fellow, x : {0}] \cup
  [type : {"option"}, p : PartyIds, c : Fellow, x : BOOLEAN] \cup
  [type : {"save"}, p : 0 .. MaxParties, c : Fellow, x : BOOLEAN] \cup
  [type : {"change"}, p : PartyIds, c : Fellow, x : MovedOf]
Answers ==
  [type : {"authok", "created"}, p : 0 .. MaxParties, c : Fellow, x : {0}] \cup
  [type : {"info"}, p : PartyIds, c : Fellow \cup {0}, x : SharingOf] \cup
  [type : {"noinfo", "withdraw", "moved"}, p : PartyIds, c : Fellow, x : {0}] \cup
  [type : {"added"}, p : PartyIds, c : Fellow, x : BOOLEAN] \cup
  [type : {"option"}, p : PartyIds, c : {0}, x : [exp : BOOLEAN, granted : BOOLEAN]] \cup
  [type : {"broken"}, p : PartyIds, c : {0}, x : {0}]

PacketsTyped ==
  partyToChar \in [Server -> Seq(Requests)] /\ partyToMap \in [Server -> Seq(Answers)]

Types ==
  /\ party_db \in [PartyIds -> CharParty \cup {NoParty}]
  /\ party_row \in [Fellow -> 0 .. MaxParties]
  /\ cached \in [Fellow -> 0 .. MaxParties]
  /\ party_id \in [Fellow -> 0 .. MaxParties]
  /\ party_invite \in [Fellow -> 0 .. MaxParties]
  /\ at \in [Fellow -> Server \cup {Offline}]
  /\ level \in [Fellow -> 1 .. TopLevel]
  /\ in_game \subseteq Fellow
  /\ party_pending \in [Fellow -> {"no", "creating", "joining"}]
  /\ party_copy \in [Server -> [PartyIds -> MapParty \cup {NoParty}]]
  /\ last_party \in 0 .. MaxParties
  /\ acts \in 0 .. MaxActs
  /\ PacketsTyped

LEMMA IdsAreNumbers ==
  /\ MaxParties \in Nat \ {0} /\ MaxActs \in Nat \ {0}
  /\ 0 \in 0 .. MaxParties /\ 0 \notin PartyIds
  /\ \A p \in PartyIds : p \in 0 .. MaxParties /\ p # 0
  /\ \A p \in 0 .. MaxParties : p # 0 => p \in PartyIds
BY PartyAssumption DEF PartyIds

\* What each sort of request and of answer carries.
LEMMA RequestKinds ==
  ASSUME NEW k \in Requests
  PROVE  /\ k = Packet(k.type, k.p, k.c, k.x)
         /\ k.c \in Fellow /\ k.p \in 0 .. MaxParties
         /\ k.type \notin {"create", "save"} => k.p \in PartyIds
         /\ k.type = "create" => k.p = 0 /\ k.x \in 1 .. TopLevel
         /\ k.type = "add" => k.x \in 1 .. TopLevel
         /\ k.type \in {"info", "leave", "leader"} => k.x = 0
         /\ k.type = "option" => k.x \in BOOLEAN
         /\ k.type = "change" => k.x \in MovedOf
<1>1. /\ k = Packet(k.type, k.p, k.c, k.x)
      /\ k.c \in Fellow
      /\ k.p \in 0 .. MaxParties
  BY IdsAreNumbers DEF Requests, Packet
<1>2. k.type \notin {"create", "save"} => k.p \in PartyIds
  BY DEF Requests
<1>3. /\ k.type = "create" => k.p = 0 /\ k.x \in 1 .. TopLevel
      /\ k.type = "add" => k.x \in 1 .. TopLevel
      /\ k.type \in {"info", "leave", "leader"} => k.x = 0
  BY DEF Requests
<1>4. /\ k.type = "option" => k.x \in BOOLEAN
      /\ k.type = "change" => k.x \in MovedOf
  BY DEF Requests
<1>. QED BY <1>1, <1>2, <1>3, <1>4

LEMMA RequestsTyped ==
  /\ \A c \in Fellow, lv \in 1 .. TopLevel : Packet("create", 0, c, lv) \in Requests
  /\ \A p \in PartyIds, c \in Fellow, lv \in 1 .. TopLevel : Packet("add", p, c, lv) \in Requests
  /\ \A type \in {"info", "leave", "leader"}, p \in PartyIds, c \in Fellow :
       Packet(type, p, c, 0) \in Requests
  /\ \A p \in PartyIds, c \in Fellow, b \in BOOLEAN : Packet("option", p, c, b) \in Requests
  /\ \A p \in 0 .. MaxParties, c \in Fellow, b \in BOOLEAN : Packet("save", p, c, b) \in Requests
  /\ \A p \in PartyIds, c \in Fellow, x \in MovedOf : Packet("change", p, c, x) \in Requests
BY DEF Packet, Requests

LEMMA AnswerKinds ==
  ASSUME NEW k \in Answers
  PROVE  /\ k = Packet(k.type, k.p, k.c, k.x)
         /\ k.p \in 0 .. MaxParties
         /\ k.type \notin {"authok", "created"} => k.p \in PartyIds
         /\ k.type \in {"authok", "created", "noinfo", "withdraw", "moved", "added"} => k.c \in Fellow
         /\ k.type = "info" => k.x \in SharingOf
         /\ k.type = "added" => k.x \in BOOLEAN
         /\ k.type = "option" => k.x.exp \in BOOLEAN /\ k.x.granted \in BOOLEAN
         /\ k.type \in {"noinfo", "withdraw", "moved", "created", "authok"} => k.x = 0
<1>1. /\ k = Packet(k.type, k.p, k.c, k.x)
      /\ k.p \in 0 .. MaxParties
  BY IdsAreNumbers DEF Answers, Packet
<1>2. k.type \notin {"authok", "created"} => k.p \in PartyIds
  BY DEF Answers
<1>3. /\ k.type \in {"authok", "created", "noinfo", "withdraw", "moved", "added"} => k.c \in Fellow
      /\ k.type \in {"noinfo", "withdraw", "moved", "created", "authok"} => k.x = 0
  BY DEF Answers
<1>4. /\ k.type = "info" => k.x \in SharingOf
      /\ k.type = "added" => k.x \in BOOLEAN
      /\ k.type = "option" => k.x.exp \in BOOLEAN /\ k.x.granted \in BOOLEAN
  BY DEF Answers
<1>. QED BY <1>1, <1>2, <1>3, <1>4

LEMMA AnswersTyped ==
  /\ \A type \in {"authok", "created"}, p \in 0 .. MaxParties, c \in Fellow : Packet(type, p, c, 0) \in Answers
  /\ \A p \in PartyIds, c \in Fellow \cup {0}, x \in SharingOf : Packet("info", p, c, x) \in Answers
  /\ \A type \in {"noinfo", "withdraw", "moved"}, p \in PartyIds, c \in Fellow :
       Packet(type, p, c, 0) \in Answers
  /\ \A p \in PartyIds, c \in Fellow, b \in BOOLEAN : Packet("added", p, c, b) \in Answers
  /\ \A p \in PartyIds, x \in [exp : BOOLEAN, granted : BOOLEAN] : Packet("option", p, 0, x) \in Answers
  /\ \A p \in PartyIds : Packet("broken", p, 0, 0) \in Answers
BY DEF Packet, Answers

\* SetToSeq lists every element of a finite set.
LEMMA ListsAll ==
  ASSUME NEW cs \in SUBSET Fellow
  PROVE  /\ Cardinality(cs) \in Nat
         /\ SetToSeq(cs) \in [1 .. Cardinality(cs) -> cs]
         /\ \A c \in cs : \E i \in 1 .. Cardinality(cs) : SetToSeq(cs)[i] = c
<1>. DEFINE n == Cardinality(cs)
            s == SetToSeq(cs)
<1>1. IsFiniteSet(cs) /\ n \in Nat
  BY PartyAssumption, FS_Subset, FS_CardinalityType
<1>2. ExistsBijection(1 .. n, cs)
  BY <1>1, FS_CardinalityType
<1>3. PICK f \in Bijection(1 .. n, cs) : TRUE
  BY <1>2 DEF ExistsBijection
<1>4. f \in [1 .. n -> cs] /\ IsInjective(f)
  BY <1>3 DEF Bijection, Injection, IsInjective
<1>5. s \in [1 .. n -> cs] /\ IsInjective(s)
  <2>. DEFINE m == n
  <2>1. s = CHOOSE g \in [1 .. n -> cs] : IsInjective(g)
    BY DEF SetToSeq
  <2>. HIDE DEF s, n
  <2>. QED BY <1>4, <2>1
<1>. HIDE DEF s
<1>6. \A c \in cs : \E i \in 1 .. n : s[i] = c
  <2>1. s \in Injection(1 .. n, cs)
    BY <1>5 DEF Injection
  <2>2. Cardinality(1 .. n) = n
    BY <1>2, <1>1, FS_Interval, FS_Bijection
  <2>. DEFINE k == n
  <2>3. Cardinality(1 .. k) = Cardinality(cs)
    BY <2>2
  <2>4. s \in Injection(1 .. k, cs)
    BY <2>1
  <2>. HIDE DEF k
  <2>5. s \in Surjection(1 .. k, cs)
    BY <1>1, <2>3, <2>4, FS_Injection
  <2>. QED BY <2>5 DEF Surjection, k
<1>. QED BY <1>1, <1>5, <1>6 DEF s

\* A request for each of the list, and a notice for each.
LEMMA LeavesTyped ==
  ASSUME NEW p \in PartyIds, NEW cs \in SUBSET Fellow
  PROVE  /\ LeaveAll(p, cs) \in Seq(Requests)
         /\ \A c \in cs : Packet("leave", p, c, 0) \in ToSet(LeaveAll(p, cs))
         /\ \A k \in ToSet(LeaveAll(p, cs)) : \E c \in cs : k = Packet("leave", p, c, 0)
<1>. DEFINE n == Cardinality(cs)
            order == SetToSeq(cs)
            q == [i \in 1 .. n |-> Packet("leave", p, order[i], 0)]
<1>1. /\ n \in Nat /\ order \in [1 .. n -> cs]
      /\ \A c \in cs : \E i \in 1 .. n : order[i] = c
  BY ListsAll
<1>2. LeaveAll(p, cs) = q
  BY DEF LeaveAll
<1>. HIDE DEF n, order
<1>3. \A i \in 1 .. n : order[i] \in cs /\ q[i] = Packet("leave", p, order[i], 0)
  BY <1>1
<1>4. \A i \in 1 .. n : q[i] \in Requests
  BY <1>3, RequestsTyped
<1>5. q \in Seq(Requests) /\ DOMAIN q = 1 .. n
  BY <1>1, <1>4
<1>. HIDE DEF q
<1>. QED BY <1>1, <1>2, <1>3, <1>5 DEF ToSet

AnswersTo == [Server -> Seq(Answers)]

LEMMA SilenceTyped ==
  /\ Silence \in AnswersTo
  /\ \A n \in Server : Silence[n] = <<>>
BY DEF Silence, AnswersTo

LEMMA ToTyped ==
  ASSUME NEW ms, NEW k \in Answers
  PROVE  /\ To(ms, k) \in AnswersTo
         /\ \A n \in Server : To(ms, k)[n] = IF n \in ms THEN <<k>> ELSE <<>>
BY DEF To, AnswersTo

LEMMA BothTyped ==
  ASSUME NEW a \in AnswersTo, NEW b \in AnswersTo
  PROVE  /\ a ++ b \in AnswersTo
         /\ \A n \in Server : (a ++ b)[n] = a[n] \o b[n]
<1>1. \A n \in Server : a[n] \in Seq(Answers) /\ b[n] \in Seq(Answers)
  BY DEF AnswersTo
<1>2. \A n \in Server : a[n] \o b[n] \in Seq(Answers)
  BY <1>1
<1>. QED BY <1>2 DEF ++, AnswersTo

LEMMA WithdrawalsTyped ==
  ASSUME NEW p \in PartyIds, NEW cs \in SUBSET Fellow, NEW n \in Server
  PROVE  /\ Withdrawals(p, cs) \in AnswersTo
         /\ Len(Withdrawals(p, cs)[n]) \in Nat
         /\ \A i \in 1 .. Len(Withdrawals(p, cs)[n]) :
               \E c \in cs : Withdrawals(p, cs)[n][i] = Packet("withdraw", p, c, 0)
         /\ \A c \in cs : Packet("withdraw", p, c, 0) \in ToSet(Withdrawals(p, cs)[n])
<1>. DEFINE l == Cardinality(cs)
            order == SetToSeq(cs)
            q == [i \in 1 .. l |-> Packet("withdraw", p, order[i], 0)]
<1>1. /\ l \in Nat /\ order \in [1 .. l -> cs]
      /\ \A c \in cs : \E i \in 1 .. l : order[i] = c
  BY ListsAll
<1>2. Withdrawals(p, cs) = [m \in Server |-> q]
  BY DEF Withdrawals
<1>. HIDE DEF l, order
<1>3. \A i \in 1 .. l : order[i] \in cs /\ q[i] = Packet("withdraw", p, order[i], 0)
  BY <1>1
<1>4. \A i \in 1 .. l : q[i] \in Answers
  BY <1>3, AnswersTyped
<1>5. q \in Seq(Answers) /\ DOMAIN q = 1 .. l /\ Len(q) = l
  BY <1>1, <1>4
<1>. HIDE DEF q
<1>6. Withdrawals(p, cs) \in AnswersTo /\ Withdrawals(p, cs)[n] = q
  BY <1>2, <1>5 DEF AnswersTo
<1>7. \A c \in cs : Packet("withdraw", p, c, 0) \in ToSet(q)
  BY <1>1, <1>3, <1>5 DEF ToSet
<1>8. \A i \in 1 .. Len(q) : \E c \in cs : q[i] = Packet("withdraw", p, c, 0)
  BY <1>3, <1>5
<1>. QED BY <1>1, <1>5, <1>6, <1>7, <1>8

LEMMA ToMapsTyped ==
  ASSUME PacketsTyped, NEW a \in AnswersTo, ToMaps(a)
  PROVE  /\ partyToMap' \in [Server -> Seq(Answers)]
         /\ \A n \in Server : /\ partyToMap[n] \in Seq(Answers) /\ a[n] \in Seq(Answers)
                              /\ partyToMap'[n] = partyToMap[n] \o a[n]
<1>1. \A n \in Server : partyToMap[n] \in Seq(Answers) /\ a[n] \in Seq(Answers)
  BY DEF PacketsTyped, AnswersTo
<1>2. \A n \in Server : partyToMap[n] \o a[n] \in Seq(Answers)
  BY <1>1
<1>. QED BY <1>1, <1>2 DEF ToMaps

LEMMA ToCharTyped ==
  ASSUME PacketsTyped, NEW m, NEW s \in Seq(Requests), ToChar(m, s)
  PROVE  /\ partyToChar' \in [Server -> Seq(Requests)]
         /\ \A n \in Server : /\ partyToChar[n] \in Seq(Requests)
                              /\ partyToChar'[n] = IF n = m THEN partyToChar[n] \o s ELSE partyToChar[n]
<1>1. \A n \in Server : partyToChar[n] \in Seq(Requests)
  BY DEF PacketsTyped
<1>2. \A n \in Server : partyToChar[n] \o s \in Seq(Requests)
  BY <1>1
<1>. QED BY <1>1, <1>2 DEF ToChar, PacketsTyped

-----------------------------------------------------------------------------
(* What the packets under way make of a copy *)

\* Of a copy only what PartiesAgree compares.
Unknown == [known |-> FALSE, member |-> {}, exp |-> FALSE]
Views == [known : BOOLEAN, member : SUBSET Fellow, exp : BOOLEAN]
ViewOf(Q) == IF Q = NoParty THEN Unknown
             ELSE [known |-> TRUE, member |-> Q.member, exp |-> Q.exp]

\* A packet is handled by a map-server whose copy of p is u.
Effect(p, k, u) ==
  CASE k.p = p /\ k.type = "info" -> [known |-> TRUE, member |-> k.x.member, exp |-> k.x.exp]
    [] k.p = p /\ k.type \in {"noinfo", "broken"} -> Unknown
    [] k.p = p /\ k.type = "option" /\ k.x.granted /\ u.known -> [u EXCEPT !.exp = k.x.exp]
    [] k.p = p /\ k.type = "withdraw" -> [u EXCEPT !.member = @ \ {k.c}]
    [] OTHER -> u

\* No member gets lost but by a packet that says so.
Gently(p, k, u) == \A c \in u.member \ Effect(p, k, u).member : k = Packet("withdraw", p, c, 0)

\* The packets of q, handled one after the other, turn u into v.
Reaches(p, u, q, v) ==
  \E s \in [0 .. Len(q) -> Views] :
    /\ s[0] = u /\ s[Len(q)] = v
    /\ \A i \in 1 .. Len(q) : s[i] = Effect(p, q[i], s[i - 1]) /\ Gently(p, q[i], s[i - 1])

LEMMA ViewsAre ==
  /\ Unknown \in Views /\ ~Unknown.known /\ Unknown.member = {}
  /\ \A u \in Views : /\ u.known \in BOOLEAN /\ u.member \in SUBSET Fellow /\ u.exp \in BOOLEAN
  /\ \A M \in SUBSET Fellow, e \in BOOLEAN :
       [known |-> TRUE, member |-> M, exp |-> e] \in Views
BY DEF Views, Unknown

LEMMA EffectIs ==
  ASSUME NEW p, NEW k, NEW u \in Views
  PROVE  /\ k.p # p => Effect(p, k, u) = u
         /\ k.type \notin {"info", "noinfo", "broken", "option", "withdraw"} => Effect(p, k, u) = u
         /\ k.p = p /\ k.type = "info" =>
              Effect(p, k, u) = [known |-> TRUE, member |-> k.x.member, exp |-> k.x.exp]
         /\ k.p = p /\ k.type \in {"noinfo", "broken"} => Effect(p, k, u) = Unknown
         /\ k.p = p /\ k.type = "option" =>
              Effect(p, k, u) = IF k.x.granted /\ u.known
                                THEN [known |-> TRUE, member |-> u.member, exp |-> k.x.exp] ELSE u
         /\ k.p = p /\ k.type = "withdraw" =>
              Effect(p, k, u) = [known |-> u.known, member |-> u.member \ {k.c}, exp |-> u.exp]
<1>1. u = [known |-> u.known, member |-> u.member, exp |-> u.exp]
  BY DEF Views
<1>2. k.p # p => Effect(p, k, u) = u
  BY DEF Effect
<1>3. k.type \notin {"info", "noinfo", "broken", "option", "withdraw"} => Effect(p, k, u) = u
  BY DEF Effect
<1>4. k.p = p /\ k.type = "info" =>
        Effect(p, k, u) = [known |-> TRUE, member |-> k.x.member, exp |-> k.x.exp]
  BY DEF Effect
<1>5. k.p = p /\ k.type \in {"noinfo", "broken"} => Effect(p, k, u) = Unknown
  BY DEF Effect
<1>6. ASSUME k.p = p, k.type = "option"
      PROVE  Effect(p, k, u) = IF k.x.granted /\ u.known
                               THEN [known |-> TRUE, member |-> u.member, exp |-> k.x.exp] ELSE u
  <2>1. CASE k.x.granted /\ u.known
    <3>1. Effect(p, k, u) = [u EXCEPT !.exp = k.x.exp]
      BY <1>6, <2>1 DEF Effect
    <3>. DEFINE e == k.x.exp
    <3>2. Effect(p, k, u) = [u EXCEPT !.exp = e] /\ u.known = TRUE
      BY <2>1, <3>1, ViewsAre
    <3>. HIDE DEF e
    <3>3. [u EXCEPT !.exp = e] = [known |-> TRUE, member |-> u.member, exp |-> e]
      BY <3>2 DEF Views, Unknown
    <3>. QED BY <2>1, <3>2, <3>3 DEF e
  <2>2. CASE ~(k.x.granted /\ u.known)
    BY <1>6, <2>2 DEF Effect
  <2>. QED BY <2>1, <2>2
<1>7. ASSUME k.p = p, k.type = "withdraw"
      PROVE  Effect(p, k, u) = [known |-> u.known, member |-> u.member \ {k.c}, exp |-> u.exp]
  <2>. DEFINE d == k.c
  <2>1. Effect(p, k, u) = [u EXCEPT !.member = @ \ {d}]
    BY <1>7 DEF Effect
  <2>. HIDE DEF d
  <2>. DEFINE M == u.member \ {d}
  <2>2. [u EXCEPT !.member = M] = [known |-> u.known, member |-> M, exp |-> u.exp]
    <3>. HIDE DEF M
    <3>. QED BY DEF Views
  <2>. QED BY <2>1, <2>2 DEF d
<1>. QED BY <1>2, <1>3, <1>4, <1>5, <1>6, <1>7

LEMMA EffectTyped ==
  ASSUME NEW p, NEW k \in Answers, NEW u \in Views
  PROVE  Effect(p, k, u) \in Views
<1>1. k.type = "info" => k.x.member \in SUBSET Fellow /\ k.x.exp \in BOOLEAN
  BY AnswerKinds DEF SharingOf
<1>2. k.type = "option" => k.x.exp \in BOOLEAN
  BY AnswerKinds
<1>3. [known |-> u.known, member |-> u.member \ {k.c}, exp |-> u.exp] \in Views
  BY DEF Views, Unknown
<1>4. CASE k.p # p \/ k.type \notin {"info", "noinfo", "broken", "option", "withdraw"}
  BY <1>4, EffectIs
<1>5. CASE k.p = p /\ k.type = "info"
  BY <1>1, <1>5, EffectIs, ViewsAre
<1>6. CASE k.p = p /\ k.type \in {"noinfo", "broken"}
  BY <1>6, EffectIs, ViewsAre
<1>7. CASE k.p = p /\ k.type = "option"
  <2>. DEFINE e == k.x.exp
  <2>1. e \in BOOLEAN /\ u.member \in SUBSET Fellow
    BY <1>2, <1>7, ViewsAre
  <2>2. Effect(p, k, u) = u \/ Effect(p, k, u) = [known |-> TRUE, member |-> u.member, exp |-> e]
    BY <1>7, EffectIs
  <2>. HIDE DEF e
  <2>. QED BY <2>1, <2>2, ViewsAre
<1>8. CASE k.p = p /\ k.type = "withdraw"
  <2>. DEFINE v == [known |-> u.known, member |-> u.member \ {k.c}, exp |-> u.exp]
  <2>1. Effect(p, k, u) = v
    BY <1>8, EffectIs
  <2>2. v \in Views
    BY <1>3
  <2>. HIDE DEF v
  <2>. QED BY <2>1, <2>2
<1>. QED BY <1>4, <1>5, <1>6, <1>7, <1>8

LEMMA ReachNone ==
  ASSUME NEW p, NEW u \in Views
  PROVE  Reaches(p, u, <<>>, u)
<1>. DEFINE s == [i \in 0 .. 0 |-> u]
<1>1. s \in [0 .. Len(<<>>) -> Views] /\ s[0] = u /\ s[Len(<<>>)] = u
  OBVIOUS
<1>2. 1 .. Len(<<>>) = {}
  OBVIOUS
<1>. HIDE DEF s
<1>. QED BY <1>1, <1>2 DEF Reaches

LEMMA ReachEmpty ==
  ASSUME NEW p, NEW u, NEW v, Reaches(p, u, <<>>, v)
  PROVE  u = v
BY DEF Reaches

LEMMA ReachOne ==
  ASSUME NEW p, NEW u \in Views, NEW k, NEW v \in Views,
         v = Effect(p, k, u), Gently(p, k, u)
  PROVE  Reaches(p, u, <<k>>, v)
<1>. DEFINE s == [i \in 0 .. 1 |-> IF i = 0 THEN u ELSE v]
<1>1. Len(<<k>>) = 1 /\ <<k>>[1] = k
  OBVIOUS
<1>2. s \in [0 .. 1 -> Views] /\ s[0] = u /\ s[1] = v
  OBVIOUS
<1>. HIDE DEF s
<1>3. \A i \in 1 .. 1 : s[i] = Effect(p, <<k>>[i], s[i - 1]) /\ Gently(p, <<k>>[i], s[i - 1])
  <2>1. \A i \in 1 .. 1 : i = 1 /\ i - 1 = 0
    OBVIOUS
  <2>. QED BY <1>1, <1>2, <2>1
<1>. QED BY <1>1, <1>2, <1>3 DEF Reaches

LEMMA ReachBoth ==
  ASSUME NEW p, NEW S, NEW q \in Seq(S), NEW r \in Seq(S), NEW u, NEW v, NEW w,
         Reaches(p, u, q, v), Reaches(p, v, r, w)
  PROVE  Reaches(p, u, q \o r, w)
<1>. DEFINE m == Len(q)
            n == Len(r)
<1>1. /\ m \in Nat /\ n \in Nat /\ Len(q \o r) = m + n
      /\ \A i \in 1 .. m + n : (q \o r)[i] = IF i <= m THEN q[i] ELSE r[i - m]
  OBVIOUS
<1>2. PICK s \in [0 .. m -> Views] :
        /\ s[0] = u /\ s[m] = v
        /\ \A i \in 1 .. m : s[i] = Effect(p, q[i], s[i - 1]) /\ Gently(p, q[i], s[i - 1])
  BY DEF Reaches
<1>3. PICK t \in [0 .. n -> Views] :
        /\ t[0] = v /\ t[n] = w
        /\ \A i \in 1 .. n : t[i] = Effect(p, r[i], t[i - 1]) /\ Gently(p, r[i], t[i - 1])
  BY DEF Reaches
<1>. DEFINE z == [i \in 0 .. m + n |-> IF i <= m THEN s[i] ELSE t[i - m]]
<1>4. z \in [0 .. m + n -> Views]
  <2>1. \A i \in 0 .. m + n : (i <= m => i \in 0 .. m) /\ (~(i <= m) => i - m \in 0 .. n)
    BY <1>1
  <2>. QED BY <1>2, <1>3, <2>1
<1>5. /\ \A i \in 0 .. m : z[i] = s[i]
      /\ \A i \in 0 .. n : z[i + m] = t[i]
  <2>1. \A i \in 0 .. m : i \in 0 .. m + n /\ i <= m
    BY <1>1
  <2>2. \A i \in 0 .. n : i + m \in 0 .. m + n /\ (i + m <= m => i = 0) /\ i + m - m = i
    BY <1>1
  <2>3. z[0 + m] = t[0]
    BY <1>1, <1>2, <1>3
  <2>. QED BY <2>1, <2>2, <2>3
<1>. HIDE DEF z
<1>6. ASSUME NEW i \in 1 .. m + n
      PROVE  z[i] = Effect(p, (q \o r)[i], z[i - 1]) /\ Gently(p, (q \o r)[i], z[i - 1])
  <2>1. CASE i <= m
    <3>1. i \in 1 .. m /\ i \in 0 .. m /\ i - 1 \in 0 .. m /\ (q \o r)[i] = q[i]
      BY <1>1, <2>1
    <3>. QED BY <1>2, <1>5, <3>1
  <2>2. CASE ~(i <= m)
    <3>1. i - m \in 1 .. n /\ i - m \in 0 .. n /\ (i - m) - 1 \in 0 .. n
          /\ (q \o r)[i] = r[i - m] /\ (i - m) + m = i /\ ((i - m) - 1) + m = i - 1
      BY <1>1, <2>2
    <3>. DEFINE j == i - m
    <3>2. j \in 1 .. n /\ j \in 0 .. n /\ j - 1 \in 0 .. n
          /\ (q \o r)[i] = r[j] /\ j + m = i /\ (j - 1) + m = i - 1
      BY <3>1
    <3>. HIDE DEF j
    <3>3. z[i] = t[j] /\ z[i - 1] = t[j - 1]
      BY <1>5, <3>2
    <3>. QED BY <1>3, <3>2, <3>3
  <2>. QED BY <2>1, <2>2
<1>7. z[0] = u /\ z[m + n] = w
  <2>1. 0 \in 0 .. m /\ n \in 0 .. n /\ n + m = m + n
    BY <1>1
  <2>. QED BY <1>2, <1>3, <1>5, <2>1
<1>. QED BY <1>1, <1>4, <1>6, <1>7 DEF Reaches

LEMMA ReachTail ==
  ASSUME NEW p, NEW S, NEW q \in Seq(S), q # <<>>, NEW u, NEW w, Reaches(p, u, q, w)
  PROVE  /\ Reaches(p, Effect(p, Head(q), u), Tail(q), w)
         /\ Gently(p, Head(q), u)
<1>. DEFINE n == Len(q)
<1>1. /\ n \in Nat \ {0} /\ Head(q) = q[1] /\ Len(Tail(q)) = n - 1
      /\ \A i \in 1 .. n - 1 : Tail(q)[i] = q[i + 1]
  OBVIOUS
<1>2. PICK s \in [0 .. n -> Views] :
        /\ s[0] = u /\ s[n] = w
        /\ \A i \in 1 .. n : s[i] = Effect(p, q[i], s[i - 1]) /\ Gently(p, q[i], s[i - 1])
  BY DEF Reaches
<1>. DEFINE t == [i \in 0 .. n - 1 |-> s[i + 1]]
<1>3. \A i \in 0 .. n - 1 : i + 1 \in 0 .. n
  BY <1>1
<1>4. t \in [0 .. n - 1 -> Views]
  BY <1>2, <1>3
<1>5. \A i \in 0 .. n - 1 : t[i] = s[i + 1]
  OBVIOUS
<1>. HIDE DEF t
<1>6. s[1] = Effect(p, Head(q), u) /\ Gently(p, Head(q), u)
  <2>1. 1 \in 1 .. n /\ 1 - 1 = 0
    BY <1>1
  <2>. QED BY <1>1, <1>2, <2>1
<1>7. t[0] = Effect(p, Head(q), u) /\ t[n - 1] = w
  <2>1. 0 \in 0 .. n - 1 /\ n - 1 \in 0 .. n - 1 /\ 0 + 1 = 1 /\ (n - 1) + 1 = n
    BY <1>1
  <2>. QED BY <1>2, <1>5, <1>6, <2>1
<1>8. ASSUME NEW i \in 1 .. n - 1
      PROVE  t[i] = Effect(p, Tail(q)[i], t[i - 1]) /\ Gently(p, Tail(q)[i], t[i - 1])
  <2>1. i + 1 \in 1 .. n /\ i \in 0 .. n - 1 /\ i - 1 \in 0 .. n - 1 /\ (i - 1) + 1 = i /\ (i + 1) - 1 = i
    BY <1>1
  <2>2. t[i] = s[i + 1] /\ t[i - 1] = s[i] /\ Tail(q)[i] = q[i + 1]
    BY <1>1, <1>5, <2>1
  <2>3. s[i + 1] = Effect(p, q[i + 1], s[i]) /\ Gently(p, q[i + 1], s[i])
    BY <1>2, <2>1
  <2>. QED BY <2>2, <2>3
<1>. QED BY <1>1, <1>4, <1>6, <1>7, <1>8 DEF Reaches

LEMMA ReachTyped ==
  ASSUME NEW p, NEW S, NEW q \in Seq(S), NEW u, NEW w, Reaches(p, u, q, w)
  PROVE  u \in Views /\ w \in Views
<1>1. 0 \in 0 .. Len(q) /\ Len(q) \in 0 .. Len(q)
  OBVIOUS
<1>. QED BY <1>1 DEF Reaches

\* A member that is gone in the end has a notice of it under way.
LEMMA LossIsTold ==
  ASSUME NEW p, NEW S, NEW q \in Seq(S), NEW u, NEW w, Reaches(p, u, q, w),
         NEW c, c \in u.member, c \notin w.member
  PROVE  Packet("withdraw", p, c, 0) \in ToSet(q)
<1>. DEFINE n == Len(q)
<1>1. n \in Nat /\ DOMAIN q = 1 .. n
  OBVIOUS
<1>2. PICK s \in [0 .. n -> Views] :
        /\ s[0] = u /\ s[n] = w
        /\ \A i \in 1 .. n : s[i] = Effect(p, q[i], s[i - 1]) /\ Gently(p, q[i], s[i - 1])
  BY DEF Reaches
<1>. DEFINE without == {i \in 0 .. n : c \notin s[i].member}
<1>3. without \in SUBSET Nat /\ n \in without
  BY <1>1, <1>2
<1>4. PICK i \in without : \A j \in without : i <= j
  <2>. HIDE DEF without
  <2>. QED BY <1>3, LeastLevel
<1>5. i \in 1 .. n
  BY <1>1, <1>2, <1>4
<1>6. i - 1 \in 0 .. n /\ ~(i <= i - 1)
  BY <1>1, <1>5
<1>7. c \in s[i - 1].member
  BY <1>4, <1>6
<1>8. c \notin Effect(p, q[i], s[i - 1]).member
  BY <1>2, <1>4, <1>5
<1>9. q[i] = Packet("withdraw", p, c, 0)
  BY <1>2, <1>5, <1>7, <1>8 DEF Gently
<1>. QED BY <1>1, <1>5, <1>9 DEF ToSet

-----------------------------------------------------------------------------
(* Sharing is never denied to a party that has it *)

\* Even if levels jump, the edges kept are those of members in the game, and
\* no wider than allowed while the party shares.
EdgesHeld(P) ==
  /\ P.online = {} => P.lo = UintMax /\ P.hi = 0
  /\ P.online # {} => \E c, d \in P.online : P.lo = P.lv[c] /\ P.hi = P.lv[d]
WellKept(P) == P.online \subseteq P.member /\ EdgesHeld(P) /\ Narrow(P)

LEMMA WellIsNarrow ==
  ASSUME NEW P \in CharParty, WellKept(P), party_check_exp_share(P)
  PROVE  P.hi <= P.lo + ShareLevel
<1>1. CASE P.hi - P.lo <= ShareLevel
  BY <1>1, FieldsOK, SizesOK
<1>2. CASE Cardinality(P.online) < 2
  <2>1. CASE P.online = {}
    BY <2>1, SizesOK, FieldsOK DEF WellKept, EdgesHeld
  <2>2. CASE P.online # {}
    <3>1. P.lo = P.hi
      BY <1>2, <2>2, FewAreOne DEF WellKept, EdgesHeld
    <3>. QED BY <3>1, FieldsOK, SizesOK
  <2>. QED BY <2>1, <2>2
<1>. QED BY <1>1, <1>2 DEF party_check_exp_share

LEMMA SharingIsGranted ==
  ASSUME NEW P \in CharParty, WellKept(P), P.exp
  PROVE  party_check_exp_share(P)
<1>1. P.hi <= P.lo + ShareLevel
  BY DEF WellKept, Narrow
<1>2. P.hi - P.lo <= ShareLevel
  BY <1>1, FieldsOK, SizesOK
<1>. QED BY <1>2 DEF party_check_exp_share

LEMMA WellChecked ==
  ASSUME NEW P \in CharParty, P.online \subseteq P.member, NEW Q, Q = int_party_check_lv(P)
  PROVE  /\ Q \in CharParty /\ WellKept(Q)
         /\ Q.member = P.member /\ Q.online = P.online /\ Q.lv = P.lv
         /\ Q.exp => P.exp
<1>1. Q \in CharParty /\ Exact(Q) /\ Narrow(Q)
  BY CheckedIsKept, KeptIsExact
<1>2. Q.member = P.member /\ Q.online = P.online /\ Q.lv = P.lv
  BY CheckedSame
<1>3. Q.exp => P.exp
  <2>. DEFINE R == WithRange(P)
  <2>1. R \in CharParty /\ R.exp = P.exp
    <3>. DEFINE lo == R.lo
                hi == R.hi
    <3>1. R \in CharParty /\ R = [P EXCEPT !.lo = lo, !.hi = hi]
      BY WithRangeExact
    <3>. HIDE DEF R, lo, hi
    <3>. QED BY <3>1 DEF CharParty
  <2>2. Q = [R EXCEPT !.exp = @ /\ party_check_exp_share(R)]
    BY DEF int_party_check_lv
  <2>. HIDE DEF R
  <2>3. PICK b : b = (R.exp /\ party_check_exp_share(R))
    OBVIOUS
  <2>4. Q = [R EXCEPT !.exp = b]
    BY <2>2, <2>3
  <2>5. Q.exp = b
    BY <2>1, <2>4 DEF CharParty
  <2>. QED BY <2>1, <2>3, <2>5
<1>. QED BY <1>1, <1>2, <1>3 DEF WellKept, Exact, EdgesHeld

LEMMA WellAdded ==
  ASSUME NEW P \in CharParty, WellKept(P), NEW c \in Fellow, NEW lv \in 1 .. TopLevel,
         NEW A, A = WithMember(P, c, lv),
         NEW Q, Q = IF c \in P.member \/ WidensRange(A, lv) THEN int_party_check_lv(A) ELSE A
  PROVE  /\ A \in CharParty /\ A.exp = P.exp
         /\ Q \in CharParty /\ WellKept(Q)
         /\ Q.member = P.member \cup {c}
         /\ Q.exp => P.exp
<1>1. /\ A \in CharParty /\ A.online = P.online \cup {c} /\ A.lv = [P.lv EXCEPT ![c] = lv]
      /\ A.member = P.member \cup {c}
      /\ A.lo = P.lo /\ A.hi = P.hi /\ A.exp = P.exp
  BY AddedOK
<1>2. A.online \subseteq A.member
  BY <1>1 DEF WellKept
<1>3. CASE c \in P.member \/ WidensRange(A, lv)
  BY <1>1, <1>2, <1>3, WellChecked
<1>4. CASE ~(c \in P.member \/ WidensRange(A, lv))
  <2>1. c \notin P.online /\ ~(lv < P.lo) /\ ~(lv > P.hi)
    BY <1>1, <1>4 DEF WidensRange, WellKept
  <2>2. P.lo <= lv /\ lv \in Nat
    BY <2>1, FieldsOK, SizesOK
  <2>3. P.online # {}
    BY <2>2, SizesOK DEF WellKept, EdgesHeld
  <2>4. \A d \in P.online : A.lv[d] = P.lv[d]
    BY <1>1, <2>1, FieldsOK
  <2>5. EdgesHeld(A) /\ Narrow(A)
    BY <1>1, <2>3, <2>4 DEF WellKept, EdgesHeld, Narrow
  <2>. QED BY <1>1, <1>2, <1>4, <2>5 DEF WellKept
<1>. QED BY <1>3, <1>4

LEMMA WellLess ==
  ASSUME NEW P \in CharParty, WellKept(P), NEW c \in Fellow, NEW Q, Q = MemberLess(P, c)
  PROVE  /\ Q \in CharParty /\ WellKept(Q)
         /\ Q.member = P.member \ {c}
         /\ Q.exp => P.exp
<1>. DEFINE R == WithoutMember(P, c)
<1>0. R = WithoutMember(P, c)
  OBVIOUS
<1>1. Q = IF P.lv[c] \in {P.lo, P.hi} THEN int_party_check_lv(R) ELSE R
  BY DEF MemberLess, WithoutMember
<1>. HIDE DEF R
<1>2. /\ R \in CharParty /\ R.online = P.online \ {c} /\ R.lv = [P.lv EXCEPT ![c] = 0]
      /\ R.member = P.member \ {c}
      /\ R.lo = P.lo /\ R.hi = P.hi /\ R.exp = P.exp
  BY <1>0, LessOK
<1>3. R.online \subseteq R.member
  BY <1>2 DEF WellKept
<1>4. CASE P.lv[c] \in {P.lo, P.hi}
  BY <1>1, <1>2, <1>3, <1>4, WellChecked
<1>5. CASE P.lv[c] \notin {P.lo, P.hi}
  <2>1. \A d \in R.online : d \in P.online /\ R.lv[d] = P.lv[d]
    BY <1>2, FieldsOK
  <2>2. P.online # {} => \E d, e \in R.online : P.lo = P.lv[d] /\ P.hi = P.lv[e]
    BY <1>2, <1>5 DEF WellKept, EdgesHeld
  <2>3. P.online = {} => R.online = {}
    BY <1>2
  <2>4. EdgesHeld(R) /\ Narrow(R)
    BY <1>2, <2>1, <2>2, <2>3 DEF WellKept, EdgesHeld, Narrow
  <2>. QED BY <1>1, <1>2, <1>3, <1>5, <2>4 DEF WellKept
<1>. QED BY <1>4, <1>5

LEMMA WellPresence ==
  ASSUME NEW P \in CharParty, WellKept(P), NEW c \in P.member, NEW lv \in 1 .. TopLevel,
         NEW online \in BOOLEAN, c \in P.online <=> ~online, NEW Q, Q = Presence(P, c, online, lv)
  PROVE  /\ Q \in CharParty /\ WellKept(Q)
         /\ Q.member = P.member
         /\ Q.exp => P.exp
<1>. DEFINE there == IF online THEN P.online \cup {c} ELSE P.online \ {c}
            R == [P EXCEPT !.online = there]
            S == [R EXCEPT !.lv[c] = lv]
            looks == AtEdge(P, P.lv[c]) \/ (P.lv[c] # lv /\ AtEdge(P, lv))
<1>1. there \in SUBSET Fellow /\ there \subseteq P.member /\ c \in Fellow
  BY FieldsOK DEF WellKept, CharParty
<1>2. /\ R \in CharParty /\ R.online = there /\ R.lv = P.lv /\ R.member = P.member
      /\ R.lo = P.lo /\ R.hi = P.hi /\ R.exp = P.exp
  BY <1>1 DEF CharParty
<1>3. Q = IF looks THEN int_party_check_lv(S) ELSE R
  BY DEF Presence
<1>. HIDE DEF R
<1>4. S \in CharParty /\ S.online = there /\ S.member = P.member /\ S.exp = P.exp
  BY <1>1, <1>2, SizesOK DEF CharParty
<1>. HIDE DEF S
<1>5. CASE looks
  BY <1>1, <1>3, <1>4, <1>5, WellChecked
<1>6. CASE ~looks
  <2>1. P.lv[c] \in Nat /\ P.lo \in Nat /\ P.hi \in Nat /\ lv \in Nat
    BY <1>1, FieldsOK, SizesOK
  <2>2. P.lo < P.lv[c] /\ P.lv[c] < P.hi
    BY <1>6, <2>1 DEF AtEdge
  <2>3. P.online # {}
    BY <2>1, <2>2, SizesOK DEF WellKept, EdgesHeld
  <2>4. PICK d \in P.online, e \in P.online : P.lo = P.lv[d] /\ P.hi = P.lv[e]
    BY <2>3 DEF WellKept, EdgesHeld
  <2>5. d # c /\ e # c
    BY <2>1, <2>2, <2>4
  <2>6. d \in there /\ e \in there
    BY <2>5
  <2>. HIDE DEF there
  <2>7. EdgesHeld(R) /\ Narrow(R)
    BY <1>2, <2>4, <2>6 DEF WellKept, EdgesHeld, Narrow
  <2>. QED BY <1>1, <1>2, <1>3, <1>6, <2>7 DEF WellKept
<1>. QED BY <1>5, <1>6

LEMMA WellNewLevel ==
  ASSUME NEW P \in CharParty, WellKept(P), NEW c \in Fellow, NEW lv \in 1 .. TopLevel,
         NEW Q, Q = NewLevel(P, c, lv)
  PROVE  /\ Q \in CharParty /\ WellKept(Q)
         /\ Q.member = P.member
         /\ Q.exp => P.exp
<1>. DEFINE S == [P EXCEPT !.lv[c] = lv]
            looks == P.lv[c] # lv /\ P.lv[c] \in {P.lo, P.hi}
<1>1. /\ S \in CharParty /\ S.online = P.online /\ S.lv = [P.lv EXCEPT ![c] = lv] /\ S.member = P.member
      /\ S.lo = P.lo /\ S.hi = P.hi /\ S.exp = P.exp
  BY SizesOK DEF CharParty
<1>2. Q = IF looks THEN int_party_check_lv(S) ELSE S
  BY DEF NewLevel
<1>. HIDE DEF S
<1>3. S.online \subseteq S.member
  BY <1>1 DEF WellKept
<1>4. CASE looks
  BY <1>1, <1>2, <1>3, <1>4, WellChecked
<1>5. CASE ~looks
  <2>1. \A d \in P.online : P.lv[d] \in {P.lo, P.hi} => S.lv[d] = P.lv[d]
    BY <1>1, <1>5, FieldsOK
  <2>2. EdgesHeld(S) /\ Narrow(S)
    BY <1>1, <2>1 DEF WellKept, EdgesHeld, Narrow
  <2>. QED BY <1>1, <1>2, <1>3, <1>5, <2>2 DEF WellKept
<1>. QED BY <1>4, <1>5

-----------------------------------------------------------------------------
(* What answers make of a copy *)

View(M, e) == [known |-> TRUE, member |-> M, exp |-> e]

\* A copy that is known is the view g; one that is not has no members.
Fits(v, g) == IF v.known THEN v = g ELSE v.member = {}

\* The packets of q turn every copy that fits g into one that fits h.
Leads(p, q, g, h) ==
  \A v \in Views : Fits(v, g) => \E w \in Views : Reaches(p, v, q, w) /\ Fits(w, h)

\* Packets that do not change members or sharing of p.
Idle(p, k) ==
  \/ k.p # p
  \/ k.type \notin {"info", "noinfo", "broken", "option", "withdraw"}
  \/ k.type = "option" /\ ~k.x.granted

LEMMA IdleIs ==
  ASSUME NEW p, NEW k, Idle(p, k), NEW u \in Views
  PROVE  Effect(p, k, u) = u
BY EffectIs DEF Idle

LEMMA LeadsIdle ==
  ASSUME NEW p, NEW q \in Seq(Answers), \A k \in ToSet(q) : Idle(p, k), NEW g
  PROVE  Leads(p, q, g, g)
<1>. SUFFICES ASSUME NEW v \in Views, Fits(v, g)
              PROVE  \E w \in Views : Reaches(p, v, q, w) /\ Fits(w, g)
  BY DEF Leads
<1>. DEFINE n == Len(q)
            s == [i \in 0 .. n |-> v]
<1>1. n \in Nat /\ DOMAIN q = 1 .. n
  OBVIOUS
<1>2. s \in [0 .. n -> Views] /\ \A i \in 0 .. n : s[i] = v
  OBVIOUS
<1>. HIDE DEF s
<1>3. ASSUME NEW i \in 1 .. n
      PROVE  s[i] = Effect(p, q[i], s[i - 1]) /\ Gently(p, q[i], s[i - 1])
  <2>1. i \in 0 .. n /\ i - 1 \in 0 .. n
    BY <1>1
  <2>2. q[i] \in ToSet(q)
    BY <1>1 DEF ToSet
  <2>3. Effect(p, q[i], v) = v
    BY <2>2, IdleIs
  <2>. QED BY <1>2, <2>1, <2>3 DEF Gently
<1>4. s[0] = v /\ s[n] = v
  BY <1>1, <1>2
<1>5. Reaches(p, v, q, v)
  BY <1>2, <1>3, <1>4 DEF Reaches
<1>. QED BY <1>5

LEMMA LeadsOne ==
  ASSUME NEW p, NEW k \in Answers, NEW g, NEW h,
         \A v \in Views : Fits(v, g) => Gently(p, k, v) /\ Fits(Effect(p, k, v), h)
  PROVE  Leads(p, <<k>>, g, h)
BY ReachOne, EffectTyped DEF Leads

LEMMA LeadsBoth ==
  ASSUME NEW p, NEW q \in Seq(Answers), NEW r \in Seq(Answers), NEW g, NEW h, NEW f,
         Leads(p, q, g, h), Leads(p, r, h, f)
  PROVE  Leads(p, q \o r, g, f)
<1>. SUFFICES ASSUME NEW v \in Views, Fits(v, g)
              PROVE  \E w \in Views : Reaches(p, v, q \o r, w) /\ Fits(w, f)
  BY DEF Leads
<1>1. PICK u \in Views : Reaches(p, v, q, u) /\ Fits(u, h)
  BY DEF Leads
<1>2. PICK w \in Views : Reaches(p, u, r, w) /\ Fits(w, f)
  BY <1>1 DEF Leads
<1>. QED BY <1>1, <1>2, ReachBoth

LEMMA LeadsInfo ==
  ASSUME NEW p \in PartyIds, NEW c, NEW x, Packet("info", p, c, x) \in Answers,
         NEW g \in Views, g.known => g.member \subseteq x.member
  PROVE  Leads(p, <<Packet("info", p, c, x)>>, g, View(x.member, x.exp))
<1>. DEFINE k == Packet("info", p, c, x)
            h == View(x.member, x.exp)
<1>1. k \in Answers /\ k.p = p /\ k.type = "info" /\ k.x = x
  BY DEF Packet
<1>. HIDE DEF k
<1>2. ASSUME NEW v \in Views, Fits(v, g)
      PROVE  Gently(p, k, v) /\ Fits(Effect(p, k, v), h)
  <2>1. Effect(p, k, v) = h
    BY <1>1, EffectIs DEF View
  <2>2. h.known /\ h.member = x.member
    BY DEF View
  <2>. HIDE DEF h
  <2>3. v.member \subseteq x.member
    BY <1>2 DEF Fits
  <2>. QED BY <2>1, <2>2, <2>3 DEF Gently, Fits
<1>. QED BY <1>1, <1>2, LeadsOne DEF k

LEMMA LeadsOption ==
  ASSUME NEW p \in PartyIds, NEW M \in SUBSET Fellow, NEW d \in BOOLEAN, NEW e \in BOOLEAN
  PROVE  Leads(p, <<Packet("option", p, 0, [exp |-> e, granted |-> TRUE])>>, View(M, d), View(M, e))
<1>. DEFINE k == Packet("option", p, 0, [exp |-> e, granted |-> TRUE])
            g == View(M, d)
            h == View(M, e)
<1>1. k \in Answers /\ k.p = p /\ k.type = "option" /\ k.x.exp = e /\ k.x.granted
  BY AnswersTyped DEF Packet
<1>. HIDE DEF k
<1>2. ASSUME NEW v \in Views, Fits(v, g)
      PROVE  Gently(p, k, v) /\ Fits(Effect(p, k, v), h)
  <2>1. Effect(p, k, v) = IF v.known THEN View(v.member, e) ELSE v
    BY <1>1, EffectIs DEF View
  <2>2. CASE v.known
    <3>1. v.member = M
      BY <1>2, <2>2 DEF Fits, View
    <3>2. Effect(p, k, v) = h /\ h.known /\ h.member = M
      BY <2>1, <2>2, <3>1 DEF View
    <3>. HIDE DEF h
    <3>. QED BY <3>1, <3>2 DEF Gently, Fits
  <2>3. CASE ~v.known
    BY <1>2, <2>1, <2>3 DEF Gently, Fits
  <2>. QED BY <2>2, <2>3
<1>. QED BY <1>1, <1>2, LeadsOne DEF k

LEMMA LeadsGone ==
  ASSUME NEW p \in PartyIds, NEW type \in {"noinfo", "broken"}, NEW c, NEW x,
         Packet(type, p, c, x) \in Answers, NEW g \in Views, g.known => g.member = {}
  PROVE  Leads(p, <<Packet(type, p, c, x)>>, g, Unknown)
<1>. DEFINE k == Packet(type, p, c, x)
<1>1. k \in Answers /\ k.p = p /\ k.type \in {"noinfo", "broken"}
  BY DEF Packet
<1>. HIDE DEF k
<1>2. ASSUME NEW v \in Views, Fits(v, g)
      PROVE  Gently(p, k, v) /\ Fits(Effect(p, k, v), Unknown)
  <2>1. Effect(p, k, v) = Unknown /\ ~Unknown.known /\ Unknown.member = {}
    BY <1>1, EffectIs, ViewsAre
  <2>2. v.member = {}
    BY <1>2 DEF Fits
  <2>. QED BY <2>1, <2>2 DEF Gently, Fits
<1>. QED BY <1>1, <1>2, LeadsOne DEF k

LEMMA LeadsWithdrawals ==
  ASSUME NEW p \in PartyIds, NEW cs \in SUBSET Fellow, NEW n \in Server,
         NEW M \in SUBSET Fellow, NEW e \in BOOLEAN
  PROVE  Leads(p, Withdrawals(p, cs)[n], View(M, e), View(M \ cs, e))
<1>. DEFINE q == Withdrawals(p, cs)[n]
            l == Len(q)
            d == [i \in 1 .. l |-> q[i].c]
<1>1. /\ q \in Seq(Answers) /\ l \in Nat
      /\ \A i \in 1 .. l : \E c \in cs : q[i] = Packet("withdraw", p, c, 0)
      /\ \A c \in cs : Packet("withdraw", p, c, 0) \in ToSet(q)
  BY WithdrawalsTyped DEF AnswersTo
<1>. HIDE DEF q
<1>2. \A i \in 1 .. l : d[i] \in cs /\ q[i] = Packet("withdraw", p, d[i], 0)
  <2>1. \A c : Packet("withdraw", p, c, 0).c = c
    BY DEF Packet
  <2>. QED BY <1>1, <2>1
<1>3. \A c \in cs : \E i \in 1 .. l : d[i] = c
  <2>. SUFFICES ASSUME NEW c \in cs PROVE \E i \in 1 .. l : d[i] = c
    OBVIOUS
  <2>1. Packet("withdraw", p, c, 0) \in ToSet(q) /\ DOMAIN q = 1 .. l
    BY <1>1
  <2>2. PICK i \in 1 .. l : q[i] = Packet("withdraw", p, c, 0)
    BY <2>1 DEF ToSet
  <2>3. d[i] = c
    BY <2>2 DEF Packet
  <2>. QED BY <2>3
<1>. HIDE DEF d
<1>. SUFFICES ASSUME NEW v \in Views, Fits(v, View(M, e))
              PROVE  \E w \in Views : Reaches(p, v, q, w) /\ Fits(w, View(M \ cs, e))
  BY DEF Leads, q
<1>. DEFINE gone(i) == {d[j] : j \in 1 .. i}
            s == [i \in 0 .. l |-> [known |-> v.known, member |-> v.member \ gone(i), exp |-> v.exp]]
<1>4. v = [known |-> v.known, member |-> v.member, exp |-> v.exp]
  BY DEF Views
<1>5. s \in [0 .. l -> Views]
  BY DEF Views
<1>6. \A i \in 0 .. l : s[i] = [known |-> v.known, member |-> v.member \ gone(i), exp |-> v.exp]
  OBVIOUS
<1>. HIDE DEF s
<1>7. ASSUME NEW i \in 1 .. l
      PROVE  s[i] = Effect(p, q[i], s[i - 1]) /\ Gently(p, q[i], s[i - 1])
  <2>1. i \in 0 .. l /\ i - 1 \in 0 .. l
    BY <1>1
  <2>2. gone(i) = gone(i - 1) \cup {d[i]}
    <3>1. \A j \in 1 .. i : j \in 1 .. i - 1 \/ j = i
      BY <1>1
    <3>2. \A j \in 1 .. i - 1 : j \in 1 .. i
      BY <1>1
    <3>3. i \in 1 .. i
      BY <1>1
    <3>. QED BY <3>1, <3>2, <3>3
  <2>. DEFINE k == q[i]
              u == s[i - 1]
              D == gone(i - 1)
              c == d[i]
  <2>3. k.p = p /\ k.type = "withdraw" /\ k.c = c /\ k = Packet("withdraw", p, c, 0)
    BY <1>2 DEF Packet
  <2>4. u = [known |-> v.known, member |-> v.member \ D, exp |-> v.exp] /\ u \in Views
    BY <1>5, <1>6, <2>1
  <2>5. s[i] = [known |-> v.known, member |-> v.member \ (D \cup {c}), exp |-> v.exp]
    BY <1>6, <2>1, <2>2
  <2>. HIDE DEF k, u, D, c, gone
  <2>6. u.member = v.member \ D /\ u.known = v.known /\ u.exp = v.exp
    BY <2>4
  <2>7. Effect(p, k, u) = [known |-> u.known, member |-> u.member \ {c}, exp |-> u.exp]
    <3>1. u \in Views /\ k.p = p /\ k.type = "withdraw" /\ k.c = c
      BY <2>3, <2>4
    <3>2. Effect(p, k, u) = [known |-> u.known, member |-> u.member \ {k.c}, exp |-> u.exp]
      BY <3>1, EffectIs
    <3>. QED BY <3>1, <3>2
  <2>8. Effect(p, k, u).member = u.member \ {c}
    BY <2>7
  <2>9. Gently(p, k, u)
    BY <2>3, <2>8 DEF Gently
  <2>10. u.member \ {c} = v.member \ (D \cup {c})
    BY <2>6
  <2>11. s[i] = Effect(p, k, u)
    BY <2>5, <2>6, <2>7, <2>10
  <2>. QED BY <2>9, <2>11 DEF k, u
<1>8. s[0] = v
  <2>1. gone(0) = {} /\ 0 \in 0 .. l
    BY <1>1
  <2>2. v.member \ gone(0) = v.member
    BY <2>1
  <2>. QED BY <1>4, <1>6, <2>1, <2>2
<1>9. s[l] \in Views /\ Fits(s[l], View(M \ cs, e))
  <2>1. l \in 0 .. l
    BY <1>1
  <2>2. gone(l) = cs
    BY <1>2, <1>3
  <2>. DEFINE w == s[l]
  <2>3. w = [known |-> v.known, member |-> v.member \ cs, exp |-> v.exp] /\ w \in Views
    BY <1>5, <1>6, <2>1, <2>2
  <2>. HIDE DEF w
  <2>4. w.known = v.known /\ w.member = v.member \ cs /\ w.exp = v.exp
    BY <2>3
  <2>5. v.known \in BOOLEAN
    BY ViewsAre
  <2>6. CASE v.known
    <3>1. v.member = M /\ v.exp = e /\ v.known = TRUE
      BY <2>5, <2>6 DEF Fits, View
    <3>. QED BY <2>3, <2>4, <2>6, <3>1 DEF Fits, View, w
  <2>7. CASE ~v.known
    BY <2>3, <2>4, <2>7 DEF Fits, w
  <2>. QED BY <2>6, <2>7
<1>10. Reaches(p, v, q, s[l])
  BY <1>5, <1>7, <1>8 DEF Reaches
<1>. QED BY <1>9, <1>10

-----------------------------------------------------------------------------
(* The char-server's answers *)

\* Answers that give the char-server's consent, and what goes before them.
Grants(k) == (k.type = "created" /\ k.p # 0) \/ (k.type = "added" /\ k.x)
Announces(k, p, c) == k.type = "info" /\ k.p = p /\ c \in k.x.member
Paired(q) ==
  \A i \in 1 .. Len(q) : Grants(q[i]) =>
    i - 1 \in 1 .. Len(q) /\ Announces(q[i - 1], q[i].p, q[i].c)

Notices(a, p) ==
  /\ a \in AnswersTo
  /\ \A n \in Server : \A k \in ToSet(a[n]) :
       k \in Answers /\ k.p = p /\ k.type \notin {"authok", "created", "added"}

\* Request k of map-server m gets its reply.
Replied(m, k, a) ==
  /\ k.type = "leave" /\ party_db[k.p] # NoParty /\ k.c \in party_db[k.p].member =>
       Packet("withdraw", k.p, k.c, 0) \in ToSet(a[m])
  /\ k.type = "info" =>
       \/ Packet("noinfo", k.p, k.c, 0) \in ToSet(a[m])
       \/ \E x : Packet("info", k.p, k.c, x) \in ToSet(a[m])
  /\ k.type = "create" => \E p : Packet("created", p, k.c, 0) \in ToSet(a[m])
  /\ k.type = "add" => \E x : Packet("added", k.p, k.c, x) \in ToSet(a[m])

\* Answers a, about p, tell every map-server what becomes of the parties.
Tells(a, p) ==
  /\ a \in AnswersTo
  /\ \A n \in Server :
       /\ \A x \in ToSet(a[n]) : x \in Answers /\ x.p = p /\ x.type # "authok"
       /\ Paired(a[n])
       /\ p \in PartyIds => Leads(p, a[n], ViewOf(party_db[p]), ViewOf(party_db'[p]))
  /\ \A q \in PartyIds \ {p} : ViewOf(party_db'[q]) = ViewOf(party_db[q])

Answered(m, k) == \E a, p : ToMaps(a) /\ Tells(a, p) /\ Replied(m, k, a)

DbInv ==
  /\ party_db \in [PartyIds -> CharParty \cup {NoParty}]
  /\ \A p \in PartyIds : party_db[p] # NoParty => WellKept(party_db[p])
  /\ \A p \in PartyIds : p > last_party => party_db[p] = NoParty

LEMMA ToAllTyped ==
  ASSUME NEW k \in Answers
  PROVE  /\ ToAll(k) \in AnswersTo
         /\ \A n \in Server : ToAll(k)[n] = <<k>>
BY ToTyped DEF ToAll

LEMMA ViewsOf ==
  /\ ViewOf(NoParty) = Unknown /\ ~Unknown.known
  /\ \A P \in CharParty : /\ P # NoParty /\ ViewOf(P) = View(P.member, P.exp) /\ ViewOf(P) \in Views
                          /\ P.member \in SUBSET Fellow /\ P.exp \in BOOLEAN
  /\ \A M \in SUBSET Fellow, e \in BOOLEAN :
       View(M, e) \in Views /\ View(M, e).known /\ View(M, e).member = M /\ View(M, e).exp = e
<1>1. ViewOf(NoParty) = Unknown /\ ~Unknown.known
  BY DEF ViewOf, Unknown
<1>2. \A M \in SUBSET Fellow, e \in BOOLEAN :
        View(M, e) \in Views /\ View(M, e).known /\ View(M, e).member = M /\ View(M, e).exp = e
  BY ViewsAre DEF View
<1>3. ASSUME NEW P \in CharParty
      PROVE  /\ P # NoParty /\ ViewOf(P) = View(P.member, P.exp) /\ ViewOf(P) \in Views
             /\ P.member \in SUBSET Fellow /\ P.exp \in BOOLEAN
  <2>1. P # NoParty
    BY NoPartyAssumption
  <2>2. ViewOf(P) = View(P.member, P.exp)
    BY <2>1 DEF ViewOf, View
  <2>3. P.member \in SUBSET Fellow /\ P.exp \in BOOLEAN
    BY DEF CharParty
  <2>. QED BY <1>2, <2>1, <2>2, <2>3
<1>. QED BY <1>1, <1>2, <1>3

LEMMA NoticesTo ==
  ASSUME NEW ms, NEW k \in Answers, k.type \notin {"authok", "created", "added"}
  PROVE  Notices(To(ms, k), k.p) /\ Notices(ToAll(k), k.p)
<1>. DEFINE S == Answers
<1>0. ToSet(<<k>>) = {k} /\ ToSet(<<>>) = {}
  <2>1. k \in S
    OBVIOUS
  <2>. HIDE DEF S
  <2>. QED BY <2>1, PacketsOfOne, PacketsOfNone
<1>. HIDE DEF S
<1>1. \A n \in Server : \A x \in ToSet(To(ms, k)[n]) : x = k
  <2>. TAKE n \in Server
  <2>1. CASE n \in ms
    BY <1>0, <2>1, ToTyped
  <2>2. CASE n \notin ms
    BY <1>0, <2>2, ToTyped
  <2>. QED BY <2>1, <2>2
<1>2. \A n \in Server : \A x \in ToSet(ToAll(k)[n]) : x = k
  BY <1>0, ToAllTyped
<1>. QED BY <1>1, <1>2, ToTyped, ToAllTyped DEF Notices

LEMMA NoticesSilence ==
  ASSUME NEW p
  PROVE  Notices(Silence, p)
BY SilenceTyped, PacketsOfNone DEF Notices

LEMMA NoticesBoth ==
  ASSUME NEW p, NEW a, NEW b, Notices(a, p), Notices(b, p)
  PROVE  Notices(a ++ b, p)
<1>1. a \in AnswersTo /\ b \in AnswersTo
  BY DEF Notices
<1>2. ASSUME NEW n \in Server, NEW k \in ToSet((a ++ b)[n])
      PROVE  k \in ToSet(a[n]) \/ k \in ToSet(b[n])
  <2>1. a[n] \in Seq(Answers) /\ b[n] \in Seq(Answers) /\ (a ++ b)[n] = a[n] \o b[n]
    BY <1>1, BothTyped DEF AnswersTo
  <2>. QED BY <1>2, <2>1, PacketsOfBoth
<1>. QED BY <1>1, <1>2, BothTyped DEF Notices

LEMMA NoticesWithdrawals ==
  ASSUME NEW p \in PartyIds, NEW cs \in SUBSET Fellow
  PROVE  Notices(Withdrawals(p, cs), p)
<1>. DEFINE l == Cardinality(cs)
            order == SetToSeq(cs)
            q == [i \in 1 .. l |-> Packet("withdraw", p, order[i], 0)]
<1>1. l \in Nat /\ order \in [1 .. l -> cs]
  BY ListsAll
<1>2. Withdrawals(p, cs) = [m \in Server |-> q]
  BY DEF Withdrawals
<1>. HIDE DEF l, order
<1>3. \A i \in 1 .. l : q[i] = Packet("withdraw", p, order[i], 0) /\ q[i] \in Answers
  BY <1>1, AnswersTyped
<1>4. q \in Seq(Answers) /\ DOMAIN q = 1 .. l
  BY <1>1, <1>3
<1>5. \A k \in ToSet(q) : k \in Answers /\ k.p = p /\ k.type = "withdraw"
  BY <1>3, <1>4 DEF ToSet, Packet
<1>. HIDE DEF q
<1>. QED BY <1>2, <1>4, <1>5 DEF Notices, AnswersTo

LEMMA NoticesPaired ==
  ASSUME NEW p, NEW a, Notices(a, p)
  PROVE  \A n \in Server : Paired(a[n]) /\ \A x \in ToSet(a[n]) : x \in Answers /\ x.p = p /\ x.type # "authok"
<1>. SUFFICES ASSUME NEW n \in Server PROVE Paired(a[n])
  BY DEF Notices
<1>1. a[n] \in Seq(Answers)
  BY DEF Notices, AnswersTo
<1>2. \A i \in 1 .. Len(a[n]) : a[n][i] \in ToSet(a[n])
  BY <1>1 DEF ToSet
<1>3. \A i \in 1 .. Len(a[n]) : ~Grants(a[n][i])
  BY <1>2 DEF Notices, Grants
<1>. QED BY <1>3 DEF Paired

\* The last of some notices announces what the next packet grants.
LEMMA GrantPaired ==
  ASSUME NEW q \in Seq(Answers), Paired(q), NEW l \in Answers, ~Grants(l), NEW k \in Answers,
         Announces(l, k.p, k.c)
  PROVE  Paired((q \o <<l>>) \o <<k>>)
<1>. DEFINE n == Len(q)
            r == (q \o <<l>>) \o <<k>>
<1>1. /\ n \in Nat /\ Len(r) = n + 2
      /\ \A i \in 1 .. n : r[i] = q[i]
      /\ r[n + 1] = l /\ r[n + 2] = k
  OBVIOUS
<1>. HIDE DEF r
<1>2. ASSUME NEW i \in 1 .. n + 2, Grants(r[i])
      PROVE  i - 1 \in 1 .. n + 2 /\ Announces(r[i - 1], r[i].p, r[i].c)
  <2>1. i \in 1 .. n \/ i = n + 1 \/ i = n + 2
    BY <1>1
  <2>2. CASE i \in 1 .. n
    <3>1. i - 1 \in 1 .. n /\ Announces(q[i - 1], q[i].p, q[i].c)
      BY <1>1, <1>2, <2>2 DEF Paired
    <3>2. i - 1 \in 1 .. n + 2 /\ r[i - 1] = q[i - 1] /\ r[i] = q[i]
      BY <1>1, <2>2, <3>1
    <3>. QED BY <3>1, <3>2
  <2>3. CASE i = n + 1
    BY <1>1, <1>2, <2>3
  <2>4. CASE i = n + 2
    <3>1. i - 1 = n + 1 /\ i - 1 \in 1 .. n + 2
      BY <1>1, <2>4
    <3>. QED BY <1>1, <2>4, <3>1
  <2>. QED BY <2>1, <2>2, <2>3, <2>4
<1>. QED BY <1>1, <1>2 DEF Paired, r

LEMMA OnePaired ==
  ASSUME NEW k, ~Grants(k)
  PROVE  Paired(<<k>>)
<1>1. Len(<<k>>) = 1 /\ <<k>>[1] = k
  OBVIOUS
<1>. QED BY <1>1 DEF Paired

LEMMA NonePaired == Paired(<<>>)
BY DEF Paired

LEMMA SharesLead ==
  ASSUME NEW p \in PartyIds, NEW P, NEW Q, P.exp \in BOOLEAN, Q.exp \in BOOLEAN, Q.exp => P.exp
  PROVE  /\ Notices(ShareEnds(p, P, Q), p)
         /\ \A n \in Server, M \in SUBSET Fellow :
              Leads(p, ShareEnds(p, P, Q)[n], View(M, P.exp), View(M, Q.exp))
<1>. DEFINE k == OptionOf(p, Q, TRUE)
            e == Q.exp
            d == P.exp
<1>1. CASE d /\ ~e
  <2>1. k = Packet("option", p, 0, [exp |-> e, granted |-> TRUE])
    BY DEF OptionOf
  <2>2. k \in Answers /\ k.type = "option" /\ k.p = p
    <3>1. e \in BOOLEAN
      OBVIOUS
    <3>. HIDE DEF e, k
    <3>. QED BY <2>1, <3>1, AnswersTyped DEF Packet
  <2>3. ShareEnds(p, P, Q) = ToAll(k)
    BY <1>1 DEF ShareEnds
  <2>4. \A M \in SUBSET Fellow : Leads(p, <<k>>, View(M, d), View(M, e))
    <3>1. e \in BOOLEAN /\ d \in BOOLEAN
      OBVIOUS
    <3>. HIDE DEF e, d, k
    <3>. QED BY <2>1, <3>1, LeadsOption
  <2>. HIDE DEF k, e, d
  <2>5. Notices(ToAll(k), p) /\ \A n \in Server : ToAll(k)[n] = <<k>>
    BY <2>2, NoticesTo, ToAllTyped
  <2>. QED BY <2>3, <2>4, <2>5 DEF e, d
<1>2. CASE ~(d /\ ~e)
  <2>1. ShareEnds(p, P, Q) = Silence
    BY <1>2 DEF ShareEnds
  <2>2. d = e
    BY <1>2
  <2>. HIDE DEF e, d
  <2>3. \A n \in Server, M \in SUBSET Fellow : Leads(p, Silence[n], View(M, d), View(M, e))
    <3>1. \A x \in ToSet(<<>>) : Idle(p, x)
      BY PacketsOfNone
    <3>2. <<>> \in Seq(Answers)
      BY PacketsOfNone
    <3>3. \A M : Leads(p, <<>>, View(M, d), View(M, d))
      BY <3>1, <3>2, LeadsIdle
    <3>. QED BY <2>2, <3>3, SilenceTyped
  <2>. QED BY <2>1, <2>3, NoticesSilence DEF e, d
<1>. QED BY <1>1, <1>2

LEMMA LeadsSilence ==
  ASSUME NEW p, NEW n \in Server, NEW g
  PROVE  Leads(p, Silence[n], g, g)
<1>1. (\A k \in ToSet(<<>>) : Idle(p, k)) /\ <<>> \in Seq(Answers)
  BY PacketsOfNone
<1>. QED BY <1>1, LeadsIdle, SilenceTyped

LEMMA LeadsAll ==
  ASSUME NEW p, NEW k \in Answers, NEW g, NEW h, Leads(p, <<k>>, g, h), NEW n \in Server
  PROVE  Leads(p, ToAll(k)[n], g, h)
BY ToAllTyped

LEMMA LeadsAnd ==
  ASSUME NEW p, NEW a \in AnswersTo, NEW b \in AnswersTo, NEW n \in Server, NEW g, NEW h, NEW f,
         Leads(p, a[n], g, h), Leads(p, b[n], h, f)
  PROVE  Leads(p, (a ++ b)[n], g, f)
<1>1. a[n] \in Seq(Answers) /\ b[n] \in Seq(Answers) /\ (a ++ b)[n] = a[n] \o b[n]
  BY BothTyped DEF AnswersTo
<1>. QED BY <1>1, LeadsBoth

\* Only party p changes.
LEMMA DbBecomes ==
  ASSUME DbInv, NEW p \in PartyIds, NEW Q, party_db' = [party_db EXCEPT ![p] = Q],
         (Q \in CharParty /\ WellKept(Q)) \/ Q = NoParty,
         p <= last_party' \/ party_db[p] # NoParty,
         last_party \in Nat, last_party' \in Nat, last_party <= last_party'
  PROVE  /\ DbInv' /\ party_db'[p] = Q
         /\ \A q \in PartyIds \ {p} : ViewOf(party_db'[q]) = ViewOf(party_db[q])
<1>1. party_db'[p] = Q /\ \A q \in PartyIds \ {p} : party_db'[q] = party_db[q]
  BY DEF DbInv
<1>2. party_db' \in [PartyIds -> CharParty \cup {NoParty}]
  BY DEF DbInv
<1>3. \A q \in PartyIds : party_db'[q] # NoParty => WellKept(party_db'[q])
  BY <1>1 DEF DbInv
<1>4. \A q \in PartyIds : q > last_party' => party_db'[q] = NoParty
  <2>. SUFFICES ASSUME NEW q \in PartyIds, q > last_party' PROVE party_db'[q] = NoParty
    OBVIOUS
  <2>1. q \in Nat /\ q > last_party
    BY DEF PartyIds
  <2>2. party_db[q] = NoParty /\ q # p
    BY <2>1 DEF DbInv
  <2>. QED BY <1>1, <2>2
<1>. QED BY <1>1, <1>2, <1>3, <1>4 DEF DbInv

-----------------------------------------------------------------------------
(* Notices that turn the copies of a party from one view to another *)

Turns(a, p, g, h) == Notices(a, p) /\ \A n \in Server : Leads(p, a[n], g, h)

LEMMA TurnsBoth ==
  ASSUME NEW p, NEW a, NEW b, NEW g, NEW h, NEW f, Turns(a, p, g, h), Turns(b, p, h, f)
  PROVE  Turns(a ++ b, p, g, f)
<1>1. a \in AnswersTo /\ b \in AnswersTo /\ Notices(a ++ b, p)
  BY NoticesBoth DEF Turns, Notices
<1>. QED BY <1>1, LeadsAnd DEF Turns

LEMMA TurnsSilence ==
  ASSUME NEW p, NEW g
  PROVE  Turns(Silence, p, g, g)
BY NoticesSilence, LeadsSilence DEF Turns

LEMMA TurnsAll ==
  ASSUME NEW p, NEW k \in Answers, k.p = p, k.type \notin {"authok", "created", "added"},
         NEW g, NEW h, Leads(p, <<k>>, g, h)
  PROVE  Turns(ToAll(k), p, g, h)
BY NoticesTo, LeadsAll DEF Turns

LEMMA TurnsShares ==
  ASSUME NEW p \in PartyIds, NEW P, NEW Q, P.exp \in BOOLEAN, Q.exp \in BOOLEAN, Q.exp => P.exp,
         NEW M \in SUBSET Fellow
  PROVE  Turns(ShareEnds(p, P, Q), p, View(M, P.exp), View(M, Q.exp))
<1>1. /\ Notices(ShareEnds(p, P, Q), p)
      /\ \A n \in Server, N \in SUBSET Fellow :
           Leads(p, ShareEnds(p, P, Q)[n], View(N, P.exp), View(N, Q.exp))
  BY SharesLead
<1>. QED BY <1>1 DEF Turns

LEMMA TurnsWithdrawals ==
  ASSUME NEW p \in PartyIds, NEW cs \in SUBSET Fellow, NEW M \in SUBSET Fellow, NEW e \in BOOLEAN
  PROVE  Turns(Withdrawals(p, cs), p, View(M, e), View(M \ cs, e))
BY NoticesWithdrawals, LeadsWithdrawals DEF Turns

LEMMA LeadsStill ==
  ASSUME NEW p, NEW k \in Answers, Idle(p, k), NEW g
  PROVE  Leads(p, <<k>>, g, g)
<1>. DEFINE S == Answers
            q == <<k>>
<1>1. k \in S
  OBVIOUS
<1>2. q \in Seq(S) /\ ToSet(q) = {k}
  <2>. HIDE DEF S
  <2>. QED BY <1>1, PacketsOfOne
<1>3. q \in Seq(Answers) /\ \A x \in ToSet(q) : Idle(p, x)
  BY <1>2
<1>. HIDE DEF q
<1>. QED BY <1>3, LeadsIdle DEF q

LEMMA TurnsMoved ==
  ASSUME NEW p \in PartyIds, NEW c \in Fellow, NEW g
  PROVE  Turns(ToAll(Packet("moved", p, c, 0)), p, g, g)
<1>. DEFINE k == Packet("moved", p, c, 0)
<1>1. k \in Answers /\ k.p = p /\ k.type = "moved"
  BY AnswersTyped DEF Packet
<1>. HIDE DEF k
<1>2. Idle(p, k)
  BY <1>1 DEF Idle
<1>3. Turns(ToAll(k), p, g, g)
  BY <1>1, <1>2, LeadsStill, TurnsAll
<1>. QED BY <1>3 DEF k

\* The information a map-server gets.
LEMMA InfoIs ==
  ASSUME NEW p \in PartyIds, NEW P \in CharParty, NEW c \in Fellow \cup {0}, NEW k, k = InfoOf(p, P, c)
  PROVE  /\ k \in Answers /\ k.type = "info" /\ k.p = p /\ k.c = c
         /\ k.x.member = P.member /\ k.x.exp = P.exp
         /\ \E x : k = Packet("info", p, c, x)
<1>. DEFINE x == [member |-> P.member, leader |-> P.leader, exp |-> P.exp]
<1>1. k = Packet("info", p, c, x)
  BY DEF InfoOf
<1>2. x \in SharingOf /\ x.member = P.member /\ x.exp = P.exp
  BY DEF CharParty, SharingOf
<1>. HIDE DEF x
<1>3. k \in Answers
  BY <1>1, <1>2, AnswersTyped
<1>4. k.type = "info" /\ k.p = p /\ k.c = c /\ k.x = x
  BY <1>1 DEF Packet
<1>5. \E y : k = Packet("info", p, c, y)
  BY <1>1
<1>. QED BY <1>2, <1>3, <1>4, <1>5

LEMMA LeadsInfoOf ==
  ASSUME NEW p \in PartyIds, NEW P \in CharParty, NEW c \in Fellow \cup {0}, NEW k, k = InfoOf(p, P, c),
         NEW g \in Views, g.known => g.member \subseteq P.member
  PROVE  Leads(p, <<k>>, g, ViewOf(P))
<1>. DEFINE x == [member |-> P.member, leader |-> P.leader, exp |-> P.exp]
<1>1. k = Packet("info", p, c, x) /\ k \in Answers
  BY InfoIs DEF InfoOf
<1>2. x.member = P.member /\ x.exp = P.exp
  OBVIOUS
<1>. HIDE DEF x
<1>3. Leads(p, <<k>>, g, View(x.member, x.exp))
  BY <1>1, <1>2, LeadsInfo
<1>. QED BY <1>2, <1>3, ViewsOf

LEMMA TurnsInfo ==
  ASSUME NEW p \in PartyIds, NEW Q \in CharParty, NEW g \in Views, g.known => g.member \subseteq Q.member
  PROVE  Turns(ToAll(InfoOf(p, Q, 0)), p, g, ViewOf(Q))
<1>. DEFINE k == InfoOf(p, Q, 0)
<1>1. k = InfoOf(p, Q, 0)
  OBVIOUS
<1>. HIDE DEF k
<1>2. k \in Answers /\ k.type = "info" /\ k.p = p
  BY <1>1, InfoIs
<1>3. Leads(p, <<k>>, g, ViewOf(Q))
  BY <1>1, LeadsInfoOf
<1>4. Turns(ToAll(k), p, g, ViewOf(Q))
  BY <1>2, <1>3, TurnsAll
<1>. QED BY <1>4 DEF k

LEMMA TurnsBroken ==
  ASSUME NEW p \in PartyIds, NEW e \in BOOLEAN
  PROVE  Turns(BrokenUp(p), p, View({}, e), Unknown)
<1>. DEFINE k == Packet("broken", p, 0, 0)
            g == View({}, e)
<1>1. k \in Answers /\ k.p = p /\ k.type = "broken"
  BY AnswersTyped DEF Packet
<1>2. g \in Views /\ g.member = {}
  BY ViewsAre DEF View
<1>. HIDE DEF g
<1>3. Leads(p, <<k>>, g, Unknown)
  BY <1>1, <1>2, LeadsGone
<1>. HIDE DEF k
<1>4. Turns(ToAll(k), p, g, Unknown)
  BY <1>1, <1>3, TurnsAll
<1>. QED BY <1>4 DEF k, g, BrokenUp

LEMMA TurnsTell ==
  ASSUME NEW p \in PartyIds, NEW a, Turns(a, p, ViewOf(party_db[p]), ViewOf(party_db'[p])),
         \A q \in PartyIds \ {p} : ViewOf(party_db'[q]) = ViewOf(party_db[q])
  PROVE  Tells(a, p)
<1>1. Notices(a, p) /\ \A n \in Server : Leads(p, a[n], ViewOf(party_db[p]), ViewOf(party_db'[p]))
  BY DEF Turns
<1>2. a \in AnswersTo
  BY <1>1 DEF Notices
<1>. QED BY <1>1, <1>2, NoticesPaired DEF Tells

\* A step that says nothing.
LEMMA NothingToTell ==
  ASSUME PacketsTyped, partyToMap' = partyToMap,
         \A q \in PartyIds : ViewOf(party_db'[q]) = ViewOf(party_db[q])
  PROVE  ToMaps(Silence) /\ Tells(Silence, 0)
<1>1. \A n \in Server : partyToMap[n] \o Silence[n] = partyToMap[n]
  <2>. TAKE n \in Server
  <2>1. partyToMap[n] \in Seq(Answers) /\ Silence[n] = <<>>
    BY SilenceTyped DEF PacketsTyped
  <2>. DEFINE q == partyToMap[n]
  <2>. HIDE DEF q
  <2>2. q \in Seq(Answers) => q \o <<>> = q
    OBVIOUS
  <2>. QED BY <2>1, <2>2 DEF q
<1>2. ToMaps(Silence)
  BY <1>1 DEF ToMaps, PacketsTyped
<1>3. \A n \in Server : Paired(Silence[n]) /\ ToSet(Silence[n]) = {}
  BY SilenceTyped, NonePaired, PacketsOfNone
<1>4. 0 \notin PartyIds
  BY IdsAreNumbers
<1>. QED BY <1>2, <1>3, <1>4, SilenceTyped DEF Tells

\* What is told to the one that asked only.
LEMMA ToOne ==
  ASSUME NEW m \in Server, NEW k \in Answers
  PROVE  /\ To({m}, k) \in AnswersTo
         /\ To({m}, k)[m] = <<k>> /\ k \in ToSet(To({m}, k)[m])
         /\ \A n \in Server : n # m => To({m}, k)[n] = <<>>
         /\ \A n \in Server : \A x \in ToSet(To({m}, k)[n]) : x = k
<1>. DEFINE S == Answers
<1>1. ToSet(<<k>>) = {k} /\ ToSet(<<>>) = {}
  <2>1. k \in S
    OBVIOUS
  <2>. HIDE DEF S
  <2>. QED BY <2>1, PacketsOfOne, PacketsOfNone
<1>. HIDE DEF S
<1>2. To({m}, k)[m] = <<k>> /\ \A n \in Server : n # m => To({m}, k)[n] = <<>>
  BY ToTyped
<1>3. \A n \in Server : \A x \in ToSet(To({m}, k)[n]) : x = k
  <2>. TAKE n \in Server
  <2>1. CASE n = m
    BY <1>1, <1>2, <2>1
  <2>2. CASE n # m
    BY <1>1, <1>2, <2>2
  <2>. QED BY <2>1, <2>2
<1>4. k \in ToSet(To({m}, k)[m])
  BY <1>1, <1>2
<1>. QED BY <1>2, <1>3, <1>4, ToTyped

\* An answer to the one that asked changes no copy.
LEMMA OnlyAnswered ==
  ASSUME NEW m \in Server, NEW k \in Answers, k.type # "authok", ~Grants(k), NEW p, k.p = p,
         p \in PartyIds => Leads(p, <<k>>, ViewOf(party_db[p]), ViewOf(party_db'[p])),
         \A q \in PartyIds : ViewOf(party_db'[q]) = ViewOf(party_db[q])
  PROVE  Tells(To({m}, k), p)
<1>0. \A n \in Server : n # m => To({m}, k)[n] = <<>>
  BY ToOne
<1>1. ASSUME NEW n \in Server
      PROVE  /\ Paired(To({m}, k)[n])
             /\ p \in PartyIds => Leads(p, To({m}, k)[n], ViewOf(party_db[p]), ViewOf(party_db'[p]))
  <2>1. CASE n = m
    <3>1. To({m}, k)[n] = <<k>>
      BY <2>1, ToOne
    <3>2. Paired(<<k>>)
      BY OnePaired
    <3>. QED BY <3>1, <3>2
  <2>2. CASE n # m
    <3>1. To({m}, k)[n] = <<>>
      BY <1>0, <2>2
    <3>2. Silence[n] = <<>>
      BY SilenceTyped
    <3>3. \A g : Leads(p, Silence[n], g, g)
      BY LeadsSilence
    <3>. QED BY <3>1, <3>2, <3>3, NonePaired
  <2>. QED BY <2>1, <2>2
<1>. QED BY <1>1, ToOne DEF Tells

-----------------------------------------------------------------------------
(* The char-server's handlers *)

\* Party p, which there is, becomes Q.
LEMMA KnownBecomes ==
  ASSUME DbInv, last_party \in 0 .. MaxParties, last_party' = last_party, NEW p \in PartyIds,
         party_db[p] # NoParty, NEW Q, party_db' = [party_db EXCEPT ![p] = Q],
         (Q \in CharParty /\ WellKept(Q)) \/ Q = NoParty
  PROVE  /\ DbInv' /\ party_db'[p] = Q
         /\ \A q \in PartyIds \ {p} : ViewOf(party_db'[q]) = ViewOf(party_db[q])
<1>1. last_party \in Nat /\ last_party <= last_party'
  BY IdsAreNumbers
<1>. QED BY <1>1, DbBecomes

LEMMA PartyIs ==
  ASSUME DbInv, NEW p \in PartyIds, party_db[p] # NoParty
  PROVE  /\ party_db[p] \in CharParty /\ WellKept(party_db[p])
         /\ party_db[p].member \in SUBSET Fellow /\ party_db[p].exp \in BOOLEAN
         /\ ViewOf(party_db[p]) = View(party_db[p].member, party_db[p].exp)
         /\ ViewOf(party_db[p]) \in Views
<1>1. party_db[p] \in CharParty /\ WellKept(party_db[p])
  BY DEF DbInv
<1>. QED BY <1>1, ViewsOf

LEMMA DbSame ==
  ASSUME DbInv, party_db' = party_db, last_party' = last_party
  PROVE  DbInv' /\ \A q \in PartyIds : ViewOf(party_db'[q]) = ViewOf(party_db[q])
BY DEF DbInv

LEMMA SaveTells ==
  ASSUME Types, DbInv, NEW m \in Server, NEW k \in Requests, k.type = "save", SaveStatus(k)
  PROVE  DbInv' /\ Answered(m, k)
<1>1. party_db' = party_db /\ last_party' = last_party /\ partyToMap' = partyToMap
  BY DEF SaveStatus
<1>2. DbInv' /\ \A q \in PartyIds : ViewOf(party_db'[q]) = ViewOf(party_db[q])
  BY <1>1, DbSame
<1>3. ToMaps(Silence) /\ Tells(Silence, 0)
  BY <1>1, <1>2, NothingToTell DEF Types
<1>4. Replied(m, k, Silence)
  BY DEF Replied
<1>. QED BY <1>2, <1>3, <1>4 DEF Answered

LEMMA LeaderTells ==
  ASSUME Types, DbInv, NEW m \in Server, NEW k \in Requests, k.type = "leader",
         mapif_parse_PartyLeaderChange(k)
  PROVE  DbInv' /\ Answered(m, k)
<1>. DEFINE p == k.p
            P == party_db[p]
            l == IF k.c \in P.member THEN k.c ELSE Leaderless
            Q == [P EXCEPT !.leader = l]
<1>0. p \in PartyIds /\ k.c \in Fellow
  BY RequestKinds
<1>1. partyToMap' = partyToMap /\ last_party' = last_party /\ last_party \in 0 .. MaxParties /\ PacketsTyped
  BY DEF mapif_parse_PartyLeaderChange, Types
<1>2. DbInv' /\ \A q \in PartyIds : ViewOf(party_db'[q]) = ViewOf(party_db[q])
  <2>1. CASE P = NoParty
    <3>1. party_db' = party_db
      BY <2>1 DEF mapif_parse_PartyLeaderChange
    <3>. QED BY <1>1, <3>1, DbSame
  <2>2. CASE P # NoParty
    <3>1. party_db' = [party_db EXCEPT ![p] = Q]
      BY <2>2 DEF mapif_parse_PartyLeaderChange
    <3>2. P \in CharParty /\ WellKept(P) /\ ViewOf(P) = View(P.member, P.exp)
      BY <1>0, <2>2, PartyIs
    <3>3. l \in Fellow \cup {Leaderless}
      BY <1>0
    <3>4. /\ Q \in CharParty /\ Q.member = P.member /\ Q.online = P.online /\ Q.exp = P.exp
          /\ Q.lo = P.lo /\ Q.hi = P.hi /\ Q.lv = P.lv
      <4>. HIDE DEF P, l
      <4>. QED BY <3>2, <3>3 DEF CharParty
    <3>. HIDE DEF Q
    <3>5. WellKept(Q) /\ ViewOf(Q) = ViewOf(P)
      <4>1. WellKept(Q)
        BY <3>2, <3>4 DEF WellKept, EdgesHeld, Narrow
      <4>2. ViewOf(Q) = View(Q.member, Q.exp)
        BY <3>4, ViewsOf
      <4>. QED BY <3>2, <3>4, <4>1, <4>2
    <3>6. /\ DbInv' /\ party_db'[p] = Q
          /\ \A q \in PartyIds \ {p} : ViewOf(party_db'[q]) = ViewOf(party_db[q])
      <4>. HIDE DEF p
      <4>. QED BY <1>0, <1>1, <2>2, <3>1, <3>4, <3>5, KnownBecomes
    <3>. QED BY <3>5, <3>6
  <2>. QED BY <2>1, <2>2
<1>3. ToMaps(Silence) /\ Tells(Silence, 0)
  BY <1>1, <1>2, NothingToTell
<1>4. Replied(m, k, Silence)
  BY DEF Replied
<1>. QED BY <1>2, <1>3, <1>4 DEF Answered

LEMMA InfoTells ==
  ASSUME Types, DbInv, NEW m \in Server, NEW k \in Requests, k.type = "info",
         mapif_parse_PartyInfo(m, k), UNCHANGED cached
  PROVE  DbInv' /\ Answered(m, k)
<1>. DEFINE p == k.p
            c == k.c
            P == party_db[p]
<1>0. p \in PartyIds /\ c \in Fellow
  BY RequestKinds
<1>1. party_db' = party_db /\ last_party' = last_party
  BY DEF mapif_parse_PartyInfo
<1>2. DbInv' /\ \A q \in PartyIds : ViewOf(party_db'[q]) = ViewOf(party_db[q])
  BY <1>1, DbSame
<1>3. CASE P = NoParty
  <2>. DEFINE l == Packet("noinfo", p, c, 0)
  <2>1. ToMaps(To({m}, l))
    BY <1>3 DEF mapif_parse_PartyInfo
  <2>2. l \in Answers /\ l.type = "noinfo" /\ l.p = p /\ l.c = c
    BY <1>0, AnswersTyped DEF Packet
  <2>3. Leads(p, <<l>>, ViewOf(P), Unknown) /\ ViewOf(P) = Unknown
    BY <1>0, <1>3, <2>2, LeadsGone, ViewsOf, ViewsAre
  <2>4. party_db'[p] = P
    BY <1>1
  <2>5. ~Grants(l)
    BY <2>2 DEF Grants
  <2>6. Tells(To({m}, l), p)
    <3>. HIDE DEF l
    <3>. QED BY <1>2, <2>2, <2>3, <2>4, <2>5, OnlyAnswered
  <2>7. l \in ToSet(To({m}, l)[m])
    <3>. HIDE DEF l
    <3>. QED BY <2>2, ToOne
  <2>8. Replied(m, k, To({m}, l))
    BY <2>7 DEF Replied
  <2>. QED BY <1>2, <2>1, <2>6, <2>8 DEF Answered
<1>4. CASE P # NoParty
  <2>. DEFINE l == InfoOf(p, P, c)
  <2>1. ToMaps(To({m}, l))
    BY <1>4 DEF mapif_parse_PartyInfo
  <2>2. P \in CharParty /\ ViewOf(P) \in Views /\ ViewOf(P) = View(P.member, P.exp)
    BY <1>0, <1>4, PartyIs
  <2>3. /\ l \in Answers /\ l.type = "info" /\ l.p = p
        /\ \E x : l = Packet("info", p, c, x)
    <3>. DEFINE i == l
    <3>1. i = InfoOf(p, P, c)
      OBVIOUS
    <3>. HIDE DEF i, p, c, P
    <3>2. i \in Answers /\ i.type = "info" /\ i.p = p /\ \E x : i = Packet("info", p, c, x)
      BY <1>0, <2>2, <3>1, InfoIs
    <3>. QED BY <3>2 DEF i
  <2>4. Leads(p, <<l>>, ViewOf(P), ViewOf(P))
    <3>1. ViewOf(P).member = P.member
      BY <2>2 DEF View
    <3>. HIDE DEF p, c, P
    <3>. QED BY <1>0, <2>2, <3>1, LeadsInfoOf
  <2>5. party_db'[p] = P
    BY <1>1
  <2>6. ~Grants(l)
    BY <2>3 DEF Grants
  <2>7. Tells(To({m}, l), p)
    <3>. HIDE DEF l
    <3>. QED BY <1>2, <2>3, <2>4, <2>5, <2>6, OnlyAnswered
  <2>8. l \in ToSet(To({m}, l)[m])
    <3>. HIDE DEF l
    <3>. QED BY <2>3, ToOne
  <2>9. Replied(m, k, To({m}, l))
    <3>. HIDE DEF l
    <3>. QED BY <2>3, <2>8 DEF Replied
  <2>. QED BY <1>2, <2>1, <2>7, <2>9 DEF Answered
<1>. QED BY <1>3, <1>4

\* Leave to one that has no copy fits whatever the party becomes.
LEMMA LeadsUnknown ==
  ASSUME NEW p, NEW q \in Seq(Answers), \A k \in ToSet(q) : Idle(p, k), NEW h
  PROVE  Leads(p, q, Unknown, h)
<1>1. Leads(p, q, Unknown, Unknown)
  BY LeadsIdle
<1>2. \A w \in Views : Fits(w, Unknown) => Fits(w, h)
  BY ViewsAre DEF Fits
<1>. QED BY <1>1, <1>2 DEF Leads

LEMMA OptionTells ==
  ASSUME Types, DbInv, NEW m \in Server, NEW k \in Requests, k.type = "option",
         mapif_parse_PartyChangeOption(m, k)
  PROVE  DbInv' /\ Answered(m, k)
<1>. DEFINE p == k.p
            P == party_db[p]
            granted == k.x => party_check_exp_share(P)
            e == k.x /\ granted
            Q == [P EXCEPT !.exp = e]
<1>0. p \in PartyIds /\ k.c \in Fellow /\ k.x \in BOOLEAN
  BY RequestKinds
<1>1. last_party' = last_party /\ last_party \in 0 .. MaxParties /\ PacketsTyped
  BY DEF mapif_parse_PartyChangeOption, Types
<1>r. \A a : Replied(m, k, a)
  BY DEF Replied
<1>2. CASE P = NoParty
  <2>1. party_db' = party_db /\ partyToMap' = partyToMap
    BY <1>2 DEF mapif_parse_PartyChangeOption
  <2>2. DbInv' /\ \A q \in PartyIds : ViewOf(party_db'[q]) = ViewOf(party_db[q])
    BY <1>1, <2>1, DbSame
  <2>. QED BY <1>1, <1>r, <2>1, <2>2, NothingToTell DEF Answered
<1>3. CASE P # NoParty
  <2>. DEFINE l == OptionOf(p, Q, granted)
              a == To(Hearers(m, granted), l)
  <2>1. party_db' = [party_db EXCEPT ![p] = Q] /\ ToMaps(a)
    BY <1>3 DEF mapif_parse_PartyChangeOption
  <2>2. P \in CharParty /\ WellKept(P) /\ ViewOf(P) = View(P.member, P.exp)
    BY <1>0, <1>3, PartyIs
  <2>3. granted \in BOOLEAN /\ e \in BOOLEAN
    BY <1>0 DEF party_check_exp_share
  <2>4. e => party_check_exp_share(P)
    OBVIOUS
  <2>5. ~granted => e = FALSE /\ ~party_check_exp_share(P)
    BY <1>0
  <2>6. /\ Q \in CharParty /\ Q.member = P.member /\ Q.online = P.online /\ Q.exp = e
        /\ Q.lo = P.lo /\ Q.hi = P.hi /\ Q.lv = P.lv
    <3>. HIDE DEF P, e
    <3>. QED BY <2>2, <2>3 DEF CharParty
  <2>7. l = Packet("option", p, 0, [exp |-> e, granted |-> granted])
    BY <2>6 DEF OptionOf
  <2>. HIDE DEF Q, e, granted, l, P, p
  <2>8. WellKept(Q) /\ ViewOf(Q) = View(P.member, e) /\ ViewOf(Q) = View(Q.member, Q.exp)
    <3>1. e => P.hi <= P.lo + ShareLevel
      BY <2>2, <2>4, WellIsNarrow
    <3>2. WellKept(Q)
      BY <2>2, <2>6, <3>1 DEF WellKept, EdgesHeld, Narrow
    <3>3. ViewOf(Q) = View(Q.member, Q.exp)
      BY <2>6, ViewsOf
    <3>. QED BY <2>6, <3>2, <3>3
  <2>9. /\ DbInv' /\ party_db'[p] = Q
        /\ \A q \in PartyIds \ {p} : ViewOf(party_db'[q]) = ViewOf(party_db[q])
    BY <1>0, <1>1, <1>3, <2>1, <2>6, <2>8, KnownBecomes DEF P
  <2>10. l \in Answers /\ l.type = "option" /\ l.p = p /\ l.x.granted = granted
    <3>. DEFINE x == [exp |-> e, granted |-> granted]
    <3>1. x \in [exp : BOOLEAN, granted : BOOLEAN] /\ x.granted = granted
      BY <2>3
    <3>2. l = Packet("option", p, 0, x)
      BY <2>7
    <3>. HIDE DEF x
    <3>. QED BY <1>0, <3>1, <3>2, AnswersTyped DEF Packet, p
  <2>11. CASE granted
    <3>1. a = ToAll(l)
      BY <2>11 DEF Hearers, ToAll
    <3>2. P.member \in SUBSET Fellow /\ P.exp \in BOOLEAN
      BY <2>2, ViewsOf
    <3>3. l = Packet("option", p, 0, [exp |-> e, granted |-> TRUE])
      BY <2>3, <2>7, <2>11
    <3>4. Leads(p, <<l>>, View(P.member, P.exp), View(P.member, e))
      BY <1>0, <2>3, <3>2, <3>3, LeadsOption DEF p
    <3>5. Turns(ToAll(l), p, ViewOf(P), ViewOf(Q))
      BY <2>2, <2>8, <2>10, <3>4, TurnsAll
    <3>6. Tells(ToAll(l), p)
      BY <1>0, <2>9, <3>5, TurnsTell DEF P, p
    <3>. QED BY <1>r, <2>1, <2>9, <3>1, <3>6 DEF Answered
  <2>12. CASE ~granted
    <3>1. a = To({m}, l)
      BY <2>12 DEF Hearers
    <3>2. P.exp = FALSE
      <4>1. ~P.exp
        BY <2>2, <2>5, <2>12, SharingIsGranted
      <4>2. P.exp \in BOOLEAN
        BY <2>2, ViewsOf
      <4>. QED BY <4>1, <4>2
    <3>3. ViewOf(Q) = ViewOf(P)
      BY <2>2, <2>5, <2>8, <2>12, <3>2
    <3>4. Idle(p, l) /\ ~Grants(l)
      BY <2>10, <2>12 DEF Idle, Grants
    <3>5. Leads(p, <<l>>, ViewOf(P), ViewOf(P))
      BY <2>10, <3>4, LeadsStill
    <3>6. \A q \in PartyIds : ViewOf(party_db'[q]) = ViewOf(party_db[q])
      BY <2>9, <3>3 DEF P
    <3>7. Tells(To({m}, l), p)
      BY <2>9, <2>10, <3>3, <3>4, <3>5, <3>6, OnlyAnswered DEF P
    <3>. QED BY <1>r, <2>1, <2>9, <3>1, <3>7 DEF Answered
  <2>. QED BY <2>11, <2>12
<1>. QED BY <1>2, <1>3

LEMMA LeaveTells ==
  ASSUME Types, DbInv, NEW m \in Server, NEW k \in Requests, k.type = "leave",
         mapif_parse_PartyLeave(k)
  PROVE  DbInv' /\ Answered(m, k)
<1>. DEFINE p == k.p
            c == k.c
            P == party_db[p]
            R == MemberLess(P, c)
            W == Withdrawals(p, {c})
<1>0. p \in PartyIds /\ c \in Fellow
  BY RequestKinds
<1>1. last_party' = last_party /\ last_party \in 0 .. MaxParties /\ PacketsTyped
  BY DEF mapif_parse_PartyLeave, Types
<1>2. CASE P = NoParty \/ c \notin P.member
  <2>1. party_db' = party_db /\ partyToMap' = partyToMap
    BY <1>2 DEF mapif_parse_PartyLeave
  <2>2. DbInv' /\ \A q \in PartyIds : ViewOf(party_db'[q]) = ViewOf(party_db[q])
    BY <1>1, <2>1, DbSame
  <2>3. Replied(m, k, Silence)
    BY <1>2 DEF Replied
  <2>. QED BY <1>1, <2>1, <2>2, <2>3, NothingToTell DEF Answered
<1>3. CASE P # NoParty /\ c \in P.member
  <2>1. /\ P \in CharParty /\ WellKept(P) /\ ViewOf(P) = View(P.member, P.exp)
        /\ P.member \in SUBSET Fellow /\ P.exp \in BOOLEAN
    BY <1>0, <1>3, PartyIs
  <2>2. Turns(W, p, ViewOf(P), View(P.member \ {c}, P.exp))
    <3>. DEFINE cs == {c}
                M == P.member
                e == P.exp
    <3>1. cs \in SUBSET Fellow /\ M \in SUBSET Fellow /\ e \in BOOLEAN
      BY <1>0, <2>1
    <3>. HIDE DEF cs, M, e, p
    <3>2. Turns(Withdrawals(p, cs), p, View(M, e), View(M \ cs, e))
      BY <1>0, <3>1, TurnsWithdrawals
    <3>. QED BY <2>1, <3>2 DEF cs, M, e
  <2>3. W \in AnswersTo /\ Packet("withdraw", p, c, 0) \in ToSet(W[m])
    <3>. DEFINE cs == {c}
    <3>1. cs \in SUBSET Fellow /\ c \in cs
      BY <1>0
    <3>. HIDE DEF cs, p, c
    <3>2. Withdrawals(p, cs) \in AnswersTo /\ Packet("withdraw", p, c, 0) \in ToSet(Withdrawals(p, cs)[m])
      BY <1>0, <3>1, WithdrawalsTyped
    <3>. QED BY <3>2 DEF cs
  <2>4. ASSUME NEW b \in AnswersTo PROVE Packet("withdraw", p, c, 0) \in ToSet((W ++ b)[m])
    <3>. HIDE DEF W
    <3>1. W[m] \in Seq(Answers) /\ b[m] \in Seq(Answers) /\ (W ++ b)[m] = W[m] \o b[m]
      BY <2>3, BothTyped DEF AnswersTo
    <3>. QED BY <2>3, <3>1, PacketsOfBoth
  <2>5. CASE P.leader = c \/ P.member = {c}
    <3>. DEFINE D == P.member \ {c}
                X == Withdrawals(p, D)
                a == (W ++ X) ++ BrokenUp(p)
    <3>1. party_db' = [party_db EXCEPT ![p] = NoParty] /\ ToMaps(a)
      BY <1>3, <2>5 DEF mapif_parse_PartyLeave
    <3>2. Turns(X, p, View(D, P.exp), View({}, P.exp))
      <4>. DEFINE e == P.exp
                  N == D \ D
      <4>1. D \in SUBSET Fellow /\ e \in BOOLEAN /\ N = {}
        BY <2>1
      <4>. HIDE DEF D, e, p
      <4>2. Turns(Withdrawals(p, D), p, View(D, e), View(D \ D, e))
        BY <1>0, <4>1, TurnsWithdrawals
      <4>. QED BY <4>1, <4>2 DEF e
    <3>3. Turns(BrokenUp(p), p, View({}, P.exp), Unknown)
      BY <1>0, <2>1, TurnsBroken
    <3>4. Turns(a, p, ViewOf(P), Unknown)
      <4>. HIDE DEF W, X, P, p
      <4>1. Turns(W ++ X, p, ViewOf(P), View({}, P.exp))
        BY <2>2, <3>2, TurnsBoth
      <4>. DEFINE b == W ++ X
      <4>2. Turns(b, p, ViewOf(P), View({}, P.exp))
        BY <4>1
      <4>. HIDE DEF b
      <4>3. Turns(b ++ BrokenUp(p), p, ViewOf(P), Unknown)
        BY <3>3, <4>2, TurnsBoth
      <4>. QED BY <4>3 DEF b
    <3>5. /\ DbInv' /\ party_db'[p] = NoParty
          /\ \A q \in PartyIds \ {p} : ViewOf(party_db'[q]) = ViewOf(party_db[q])
      <4>. DEFINE Q == NoParty
      <4>1. party_db' = [party_db EXCEPT ![p] = Q] /\ Q = NoParty
        BY <3>1
      <4>. HIDE DEF Q, p
      <4>. QED BY <1>0, <1>1, <1>3, <4>1, KnownBecomes
    <3>. HIDE DEF a
    <3>6. Tells(a, p)
      <4>1. Turns(a, p, ViewOf(party_db[p]), ViewOf(party_db'[p]))
        BY <3>4, <3>5, ViewsOf
      <4>. HIDE DEF p
      <4>. QED BY <1>0, <3>5, <4>1, TurnsTell
    <3>7. Replied(m, k, a)
      <4>1. W ++ X \in AnswersTo /\ BrokenUp(p) \in AnswersTo /\ X \in AnswersTo
        <5>1. X \in AnswersTo /\ BrokenUp(p) \in AnswersTo
          BY <3>2, <3>3 DEF Turns, Notices
        <5>. HIDE DEF W, X
        <5>. QED BY <2>3, <5>1, BothTyped
      <4>2. Packet("withdraw", p, c, 0) \in ToSet((W ++ X)[m])
        <5>. HIDE DEF W, X
        <5>. QED BY <2>4, <4>1
      <4>. DEFINE b == W ++ X
                  d == BrokenUp(p)
      <4>3. b \in AnswersTo /\ d \in AnswersTo /\ Packet("withdraw", p, c, 0) \in ToSet(b[m])
        BY <4>1, <4>2
      <4>. HIDE DEF b, d
      <4>4. b[m] \in Seq(Answers) /\ d[m] \in Seq(Answers) /\ (b ++ d)[m] = b[m] \o d[m]
        BY <4>3, BothTyped DEF AnswersTo
      <4>5. Packet("withdraw", p, c, 0) \in ToSet((b ++ d)[m])
        BY <4>3, <4>4, PacketsOfBoth
      <4>6. Packet("withdraw", p, c, 0) \in ToSet(a[m])
        BY <4>5 DEF a, b, d
      <4>. QED BY <4>6 DEF Replied
    <3>. QED BY <3>1, <3>5, <3>6, <3>7 DEF Answered
  <2>6. CASE P.leader # c /\ P.member # {c}
    <3>. DEFINE S == ShareEnds(p, P, R)
                I == ToAll(InfoOf(p, R, 0))
                a == (W ++ S) ++ I
                M == P.member \ {c}
    <3>1. party_db' = [party_db EXCEPT ![p] = R] /\ ToMaps(a)
      BY <1>3, <2>6 DEF mapif_parse_PartyLeave
    <3>2. R \in CharParty /\ WellKept(R) /\ R.member = P.member \ {c} /\ (R.exp => P.exp)
      <4>. HIDE DEF P, c
      <4>. QED BY <1>0, <2>1, WellLess
    <3>. HIDE DEF R
    <3>3. R.exp \in BOOLEAN /\ M \in SUBSET Fellow /\ ViewOf(R) = View(R.member, R.exp)
      BY <2>1, <3>2, ViewsOf
    <3>4. Turns(S, p, View(M, P.exp), View(M, R.exp))
      <4>. HIDE DEF M, P, p
      <4>. QED BY <1>0, <2>1, <3>2, <3>3, TurnsShares
    <3>5. Turns(I, p, View(M, R.exp), ViewOf(R))
      <4>. DEFINE g == View(M, R.exp)
      <4>1. g \in Views /\ g.member = M
        BY <3>3, ViewsAre DEF View
      <4>. HIDE DEF g, p
      <4>2. Turns(I, p, g, ViewOf(R))
        BY <1>0, <3>2, <4>1, TurnsInfo
      <4>. QED BY <4>2 DEF g
    <3>6. Turns(a, p, ViewOf(P), ViewOf(R))
      <4>. HIDE DEF W, S, I, P, p
      <4>1. Turns(W ++ S, p, ViewOf(P), View(M, R.exp))
        BY <2>2, <3>4, TurnsBoth
      <4>. DEFINE b == W ++ S
      <4>2. Turns(b, p, ViewOf(P), View(M, R.exp))
        BY <4>1
      <4>. HIDE DEF b
      <4>3. Turns(b ++ I, p, ViewOf(P), ViewOf(R))
        BY <3>5, <4>2, TurnsBoth
      <4>. QED BY <4>3 DEF b
    <3>7. /\ DbInv' /\ party_db'[p] = R
          /\ \A q \in PartyIds \ {p} : ViewOf(party_db'[q]) = ViewOf(party_db[q])
      <4>. HIDE DEF p
      <4>. QED BY <1>0, <1>1, <1>3, <3>1, <3>2, KnownBecomes
    <3>8. S \in AnswersTo /\ I \in AnswersTo
      BY <3>4, <3>5 DEF Turns, Notices
    <3>. HIDE DEF S, I, a
    <3>9. Tells(a, p)
      <4>1. Turns(a, p, ViewOf(party_db[p]), ViewOf(party_db'[p]))
        BY <3>6, <3>7
      <4>. HIDE DEF p
      <4>. QED BY <1>0, <3>7, <4>1, TurnsTell
    <3>10. Replied(m, k, a)
      <4>. HIDE DEF W
      <4>1. W ++ S \in AnswersTo
        BY <2>3, <3>8, BothTyped
      <4>2. Packet("withdraw", p, c, 0) \in ToSet((W ++ S)[m])
        BY <2>4, <3>8
      <4>. DEFINE b == W ++ S
      <4>3. b \in AnswersTo /\ Packet("withdraw", p, c, 0) \in ToSet(b[m])
        BY <4>1, <4>2
      <4>. HIDE DEF b
      <4>4. b[m] \in Seq(Answers) /\ I[m] \in Seq(Answers) /\ (b ++ I)[m] = b[m] \o I[m]
        BY <3>8, <4>3, BothTyped DEF AnswersTo
      <4>5. Packet("withdraw", p, c, 0) \in ToSet((b ++ I)[m])
        BY <4>3, <4>4, PacketsOfBoth
      <4>6. Packet("withdraw", p, c, 0) \in ToSet(a[m])
        BY <4>5 DEF a, b
      <4>. QED BY <4>6 DEF Replied
    <3>. QED BY <3>1, <3>7, <3>9, <3>10 DEF Answered
  <2>. QED BY <2>5, <2>6
<1>. QED BY <1>2, <1>3

LEMMA MovedKinds ==
  ASSUME NEW x \in MovedOf
  PROVE  x.online \in BOOLEAN /\ x.lv \in 1 .. TopLevel
BY DEF MovedOf

LEMMA ChangeTells ==
  ASSUME Types, DbInv, NEW m \in Server, NEW k \in Requests, k.type = "change",
         mapif_parse_PartyChangeMap(k)
  PROVE  DbInv' /\ Answered(m, k)
<1>. DEFINE p == k.p
            c == k.c
            online == k.x.online
            lv == k.x.lv
            P == party_db[p]
            comesOrGoes == (c \in P.online) # online
            Q == IF comesOrGoes THEN Presence(P, c, online, lv) ELSE P
            R == NewLevel(Q, c, lv)
            MovedTo == ToAll(Packet("moved", p, c, 0))
            S == ShareEnds(p, P, Q)
            X == IF comesOrGoes THEN MovedTo ELSE Silence
            T == ShareEnds(p, Q, R)
            Y == IF k.x.elsewhere THEN MovedTo ELSE Silence
            a == ((S ++ X) ++ T) ++ Y
<1>0. p \in PartyIds /\ c \in Fellow /\ online \in BOOLEAN /\ lv \in 1 .. TopLevel
  BY RequestKinds, MovedKinds
<1>1. last_party' = last_party /\ last_party \in 0 .. MaxParties /\ PacketsTyped
  BY DEF mapif_parse_PartyChangeMap, Types
<1>r. \A b : Replied(m, k, b)
  BY DEF Replied
<1>2. CASE ~(P # NoParty /\ c \in P.member)
  <2>1. party_db' = party_db /\ partyToMap' = partyToMap
    BY <1>2 DEF mapif_parse_PartyChangeMap
  <2>2. DbInv' /\ \A q \in PartyIds : ViewOf(party_db'[q]) = ViewOf(party_db[q])
    BY <1>1, <2>1, DbSame
  <2>. QED BY <1>1, <1>r, <2>1, <2>2, NothingToTell DEF Answered
<1>3. CASE P # NoParty /\ c \in P.member
  <2>1. party_db' = [party_db EXCEPT ![p] = R] /\ ToMaps(a)
    BY <1>3 DEF mapif_parse_PartyChangeMap
  <2>2. /\ P \in CharParty /\ WellKept(P) /\ ViewOf(P) = View(P.member, P.exp)
        /\ P.member \in SUBSET Fellow /\ P.exp \in BOOLEAN
    BY <1>0, <1>3, PartyIs
  <2>. HIDE DEF a
  <2>3. Q \in CharParty /\ WellKept(Q) /\ Q.member = P.member /\ (Q.exp => P.exp)
    <3>1. CASE comesOrGoes
      <4>1. Q = Presence(P, c, online, lv) /\ (c \in P.online <=> ~online)
        BY <1>0, <3>1
      <4>. HIDE DEF Q, P, c, online, lv, comesOrGoes
      <4>. QED BY <1>0, <1>3, <2>2, <4>1, WellPresence
    <3>2. CASE ~comesOrGoes
      <4>1. Q = P
        BY <3>2
      <4>. HIDE DEF Q, P
      <4>. QED BY <2>2, <4>1
    <3>. QED BY <3>1, <3>2
  <2>. HIDE DEF Q
  <2>4. R \in CharParty /\ WellKept(R) /\ R.member = Q.member /\ (R.exp => Q.exp)
    <3>. HIDE DEF c, lv
    <3>. QED BY <1>0, <2>3, WellNewLevel
  <2>. HIDE DEF R
  <2>5. /\ Q.exp \in BOOLEAN /\ R.exp \in BOOLEAN
        /\ ViewOf(R) = View(R.member, R.exp)
    BY <2>3, <2>4, ViewsOf
  <2>. DEFINE M == P.member
  <2>6. Turns(S, p, View(M, P.exp), View(M, Q.exp)) /\ Turns(T, p, View(M, Q.exp), View(M, R.exp))
    <3>. HIDE DEF P, p
    <3>. QED BY <1>0, <2>2, <2>3, <2>4, <2>5, TurnsShares
  <2>7. \A g : Turns(X, p, g, g) /\ Turns(Y, p, g, g)
    <3>1. \A g : Turns(MovedTo, p, g, g) /\ Turns(Silence, p, g, g)
      <4>. HIDE DEF p, c
      <4>. QED BY <1>0, TurnsMoved, TurnsSilence
    <3>2. X \in {MovedTo, Silence} /\ Y \in {MovedTo, Silence}
      OBVIOUS
    <3>. HIDE DEF X, Y, MovedTo
    <3>. QED BY <3>1, <3>2
  <2>8. Turns(a, p, ViewOf(P), ViewOf(R))
    <3>. DEFINE b == S ++ X
                d == b ++ T
    <3>. HIDE DEF S, X, T, Y, p, P, M
    <3>1. Turns(b, p, View(M, P.exp), View(M, Q.exp))
      BY <2>6, <2>7, TurnsBoth
    <3>. HIDE DEF b
    <3>2. Turns(d, p, View(M, P.exp), View(M, R.exp))
      BY <2>6, <3>1, TurnsBoth
    <3>. HIDE DEF d
    <3>3. Turns(d ++ Y, p, View(M, P.exp), View(M, R.exp))
      BY <2>7, <3>2, TurnsBoth
    <3>4. a = d ++ Y
      BY DEF a, d, b
    <3>. QED BY <2>2, <2>3, <2>4, <2>5, <3>3, <3>4 DEF M
  <2>9. /\ DbInv' /\ party_db'[p] = R
        /\ \A q \in PartyIds \ {p} : ViewOf(party_db'[q]) = ViewOf(party_db[q])
    <3>. HIDE DEF p
    <3>. QED BY <1>0, <1>1, <1>3, <2>1, <2>4, KnownBecomes
  <2>10. Tells(a, p)
    <3>1. Turns(a, p, ViewOf(party_db[p]), ViewOf(party_db'[p]))
      BY <2>8, <2>9
    <3>. HIDE DEF p
    <3>. QED BY <1>0, <2>9, <3>1, TurnsTell
  <2>. QED BY <1>r, <2>1, <2>9, <2>10 DEF Answered
<1>. QED BY <1>2, <1>3

\* A grant to one map-server, after notices b that end with an announcement of it.
LEMMA GrantTells ==
  ASSUME NEW p \in PartyIds, NEW b \in AnswersTo, NEW m \in Server, NEW l \in Answers, NEW k \in Answers,
         k.p = p, k.type \in {"created", "added"}, ~Grants(l), Announces(l, p, k.c),
         NEW q \in Seq(Answers), b[m] = q \o <<l>>, Paired(q),
         \A n \in Server : Paired(b[n]) /\ \A x \in ToSet(b[n]) : x.p = p /\ x.type # "authok",
         \A n \in Server : Leads(p, b[n], ViewOf(party_db[p]), ViewOf(party_db'[p])),
         \A o \in PartyIds \ {p} : ViewOf(party_db'[o]) = ViewOf(party_db[o])
  PROVE  Tells(b ++ To({m}, k), p) /\ k \in ToSet((b ++ To({m}, k))[m])
<1>. DEFINE t == To({m}, k)
<1>1. /\ t \in AnswersTo
      /\ t[m] = <<k>> /\ k \in ToSet(t[m])
      /\ \A n \in Server : n # m => t[n] = <<>>
      /\ \A n \in Server : \A x \in ToSet(t[n]) : x = k
  BY ToOne
<1>. HIDE DEF t
<1>2. /\ b ++ t \in AnswersTo
      /\ \A n \in Server : b[n] \in Seq(Answers) /\ t[n] \in Seq(Answers) /\ (b ++ t)[n] = b[n] \o t[n]
  BY <1>1, BothTyped DEF AnswersTo
<1>3. k.type \notin {"info", "noinfo", "broken", "option", "withdraw"} /\ k.type # "authok"
  OBVIOUS
<1>4. ASSUME NEW n \in Server
      PROVE  /\ \A x \in ToSet((b ++ t)[n]) : x \in Answers /\ x.p = p /\ x.type # "authok"
             /\ Paired((b ++ t)[n])
             /\ Leads(p, (b ++ t)[n], ViewOf(party_db[p]), ViewOf(party_db'[p]))
  <2>1. \A x \in ToSet((b ++ t)[n]) : x \in ToSet(b[n]) \/ x = k
    <3>1. ToSet(b[n] \o t[n]) = ToSet(b[n]) \cup ToSet(t[n])
      <4>1. b[n] \in Seq(Answers) /\ t[n] \in Seq(Answers)
        BY <1>2
      <4>. QED BY <4>1, PacketsOfBoth
    <3>. QED BY <1>1, <1>2, <3>1
  <2>2. \A x \in ToSet((b ++ t)[n]) : x \in Answers /\ x.p = p /\ x.type # "authok"
    <3>1. \A x \in ToSet(b[n]) : x \in Answers
      <4>1. b[n] \in Seq(Answers)
        BY <1>2
      <4>. QED BY <4>1, PacketsAreTyped
    <3>. QED BY <1>3, <2>1, <3>1
  <2>3. Paired((b ++ t)[n])
    <3>1. CASE n = m
      <4>1. (b ++ t)[n] = (q \o <<l>>) \o <<k>>
        BY <1>1, <1>2, <3>1
      <4>2. Announces(l, k.p, k.c)
        OBVIOUS
      <4>3. Paired((q \o <<l>>) \o <<k>>)
        BY <4>2, GrantPaired
      <4>. QED BY <4>1, <4>3
    <3>2. CASE n # m
      <4>. DEFINE r == b[n]
      <4>1. r \in Seq(Answers) /\ (b ++ t)[n] = r \o <<>> /\ Paired(r)
        BY <1>1, <1>2, <3>2
      <4>. HIDE DEF r
      <4>2. r \in Seq(Answers) => r \o <<>> = r
        OBVIOUS
      <4>. QED BY <4>1, <4>2
    <3>. QED BY <3>1, <3>2
  <2>4. Leads(p, t[n], ViewOf(party_db'[p]), ViewOf(party_db'[p]))
    <3>1. \A x \in ToSet(t[n]) : Idle(p, x)
      BY <1>1, <1>3 DEF Idle
    <3>2. t[n] \in Seq(Answers)
      BY <1>2
    <3>. QED BY <3>1, <3>2, LeadsIdle
  <2>5. Leads(p, (b ++ t)[n], ViewOf(party_db[p]), ViewOf(party_db'[p]))
    BY <1>1, <2>4, LeadsAnd
  <2>. QED BY <2>2, <2>3, <2>5
<1>5. k \in ToSet((b ++ t)[m])
  <2>1. b[m] \in Seq(Answers) /\ t[m] \in Seq(Answers) /\ (b ++ t)[m] = b[m] \o t[m]
    BY <1>2
  <2>. DEFINE u == b[m]
              v == t[m]
  <2>2. ToSet(u \o v) = ToSet(u) \cup ToSet(v)
    <3>1. u \in Seq(Answers) /\ v \in Seq(Answers)
      BY <2>1
    <3>. HIDE DEF u, v
    <3>. QED BY <3>1, PacketsOfBoth
  <2>. QED BY <1>1, <2>1, <2>2
<1>. QED BY <1>2, <1>4, <1>5 DEF Tells, t

LEMMA AddTells ==
  ASSUME Types, DbInv, NEW m \in Server, NEW k \in Requests, k.type = "add",
         mapif_parse_PartyAddMember(m, k)
  PROVE  DbInv' /\ Answered(m, k)
<1>. DEFINE p == k.p
            c == k.c
            lv == k.x
            P == party_db[p]
            A == WithMember(P, c, lv)
            Q == IF c \in P.member \/ WidensRange(A, lv) THEN int_party_check_lv(A) ELSE A
<1>0. p \in PartyIds /\ c \in Fellow /\ lv \in 1 .. TopLevel
  BY RequestKinds
<1>1. last_party' = last_party /\ last_party \in 0 .. MaxParties /\ PacketsTyped
  BY DEF mapif_parse_PartyAddMember, Types
<1>2. ASSUME NEW a, NEW x, Packet("added", p, c, x) \in ToSet(a[m]) PROVE Replied(m, k, a)
  BY <1>2 DEF Replied
<1>3. CASE P = NoParty \/ (P # NoParty /\ Cardinality(P.member) = PartySize)
  <2>. DEFINE l == Packet("added", p, c, FALSE)
  <2>1. party_db' = party_db /\ ToMaps(To({m}, l))
    BY <1>3 DEF mapif_parse_PartyAddMember
  <2>2. DbInv' /\ \A q \in PartyIds : ViewOf(party_db'[q]) = ViewOf(party_db[q])
    BY <1>1, <2>1, DbSame
  <2>3. l \in Answers /\ l.type = "added" /\ l.p = p /\ l.x = FALSE
    BY <1>0, AnswersTyped DEF Packet
  <2>4. l = Packet("added", p, c, FALSE)
    OBVIOUS
  <2>. HIDE DEF l
  <2>5. Idle(p, l) /\ ~Grants(l)
    BY <2>3 DEF Idle, Grants
  <2>6. Leads(p, <<l>>, ViewOf(P), ViewOf(P)) /\ party_db'[p] = P
    BY <2>1, <2>3, <2>5, LeadsStill
  <2>7. Tells(To({m}, l), p)
    BY <2>2, <2>3, <2>5, <2>6, OnlyAnswered
  <2>8. l \in ToSet(To({m}, l)[m])
    BY <2>3, ToOne
  <2>9. Replied(m, k, To({m}, l))
    BY <1>2, <2>4, <2>8
  <2>. QED BY <2>1, <2>2, <2>7, <2>9 DEF Answered
<1>4. CASE P # NoParty /\ Cardinality(P.member) # PartySize
  <2>. DEFINE S == ShareEnds(p, A, Q)
              i == InfoOf(p, Q, 0)
              I == ToAll(i)
              b == S ++ I
              l == Packet("added", p, c, TRUE)
  <2>1. party_db' = [party_db EXCEPT ![p] = Q] /\ ToMaps(b ++ To({m}, l))
    BY <1>4 DEF mapif_parse_PartyAddMember, WithMember
  <2>2. /\ P \in CharParty /\ WellKept(P) /\ ViewOf(P) = View(P.member, P.exp)
        /\ P.member \in SUBSET Fellow /\ P.exp \in BOOLEAN
    BY <1>0, <1>4, PartyIs
  <2>3. /\ A.exp = P.exp /\ Q \in CharParty /\ WellKept(Q)
        /\ Q.member = P.member \cup {c} /\ (Q.exp => P.exp)
    <3>. HIDE DEF P, c, lv
    <3>. QED BY <1>0, <2>2, WellAdded
  <2>. HIDE DEF A, Q
  <2>4. Q.exp \in BOOLEAN /\ ViewOf(Q) = View(Q.member, Q.exp)
    BY <2>3, ViewsOf
  <2>. DEFINE M == P.member
  <2>5. Turns(S, p, View(M, P.exp), View(M, Q.exp))
    <3>1. A.exp \in BOOLEAN /\ (Q.exp => A.exp) /\ M \in SUBSET Fellow
      BY <2>2, <2>3
    <3>. HIDE DEF M, P, p
    <3>2. Turns(S, p, View(M, A.exp), View(M, Q.exp))
      BY <1>0, <2>4, <3>1, TurnsShares
    <3>. QED BY <2>3, <3>2
  <2>6. Turns(I, p, View(M, Q.exp), ViewOf(Q))
    <3>. DEFINE g == View(M, Q.exp)
    <3>1. g \in Views /\ g.member \subseteq Q.member
      BY <2>2, <2>3, <2>4, ViewsAre DEF View
    <3>. HIDE DEF g, p
    <3>2. Turns(I, p, g, ViewOf(Q))
      BY <1>0, <2>3, <3>1, TurnsInfo
    <3>. QED BY <3>2 DEF g
  <2>7. Turns(b, p, ViewOf(P), ViewOf(Q))
    <3>. HIDE DEF S, I, p, P
    <3>. QED BY <2>2, <2>5, <2>6, TurnsBoth
  <2>8. /\ DbInv' /\ party_db'[p] = Q
        /\ \A q \in PartyIds \ {p} : ViewOf(party_db'[q]) = ViewOf(party_db[q])
    <3>. HIDE DEF p
    <3>. QED BY <1>0, <1>1, <1>4, <2>1, <2>3, KnownBecomes
  <2>9. /\ i \in Answers /\ i.type = "info" /\ i.p = p /\ c \in i.x.member
    <3>. DEFINE j == i
    <3>1. j = InfoOf(p, Q, 0)
      OBVIOUS
    <3>. HIDE DEF j, p
    <3>2. j \in Answers /\ j.type = "info" /\ j.p = p /\ j.x.member = Q.member
      BY <1>0, <2>3, <3>1, InfoIs
    <3>. QED BY <2>3, <3>2 DEF j
  <2>10. Announces(i, p, c) /\ ~Grants(i)
    <3>. HIDE DEF i
    <3>. QED BY <2>9 DEF Announces, Grants
  <2>11. l \in Answers /\ l.type = "added" /\ l.p = p /\ l.c = c
    BY <1>0, AnswersTyped DEF Packet
  <2>12. /\ S \in AnswersTo /\ I \in AnswersTo /\ b \in AnswersTo /\ b[m] = S[m] \o <<i>>
         /\ S[m] \in Seq(Answers) /\ Paired(S[m])
    <3>1. S \in AnswersTo /\ I \in AnswersTo /\ Paired(S[m])
      BY <2>5, <2>6, NoticesPaired DEF Turns, Notices
    <3>2. I[m] = <<i>>
      <4>. HIDE DEF i
      <4>. QED BY <2>9, ToAllTyped
    <3>. HIDE DEF S, I, i
    <3>3. b \in AnswersTo /\ b[m] = S[m] \o I[m]
      BY <3>1, BothTyped
    <3>4. S[m] \in Seq(Answers)
      BY <3>1 DEF AnswersTo
    <3>. HIDE DEF b
    <3>. QED BY <3>1, <3>2, <3>3, <3>4
  <2>13. \A n \in Server : /\ Paired(b[n]) /\ \A x \in ToSet(b[n]) : x.p = p /\ x.type # "authok"
                           /\ Leads(p, b[n], ViewOf(party_db[p]), ViewOf(party_db'[p]))
    <3>. HIDE DEF b
    <3>. QED BY <2>7, <2>8, NoticesPaired DEF Turns
  <2>. DEFINE q == S[m]
  <2>14. Tells(b ++ To({m}, l), p) /\ l \in ToSet((b ++ To({m}, l))[m])
    <3>1. b[m] = q \o <<i>> /\ q \in Seq(Answers) /\ Paired(q)
      BY <2>12
    <3>2. Announces(i, p, l.c) /\ l.type \in {"created", "added"}
      BY <2>10, <2>11
    <3>. HIDE DEF b, q, l, i, p, c
    <3>. QED BY <1>0, <2>8, <2>9, <2>10, <2>11, <2>12, <2>13, <3>1, <3>2, GrantTells
  <2>15. Replied(m, k, b ++ To({m}, l))
    <3>. HIDE DEF b
    <3>. QED BY <1>2, <2>14
  <2>. QED BY <2>1, <2>8, <2>14, <2>15 DEF Answered
<1>. QED BY <1>3, <1>4

LEMMA CreateTells ==
  ASSUME Types, DbInv, NEW m \in Server, NEW k \in Requests, k.type = "create",
         mapif_parse_CreateParty(m, k)
  PROVE  DbInv' /\ Answered(m, k) /\ last_party' \in 0 .. MaxParties
<1>. DEFINE c == k.c
            lv == k.x
<1>0. c \in Fellow /\ lv \in 1 .. TopLevel /\ last_party \in 0 .. MaxParties /\ last_party \in Nat
  BY RequestKinds, IdsAreNumbers DEF Types
<1>1. ASSUME NEW a, NEW x, Packet("created", x, c, 0) \in ToSet(a[m]) PROVE Replied(m, k, a)
  BY <1>1 DEF Replied
<1>2. CASE ToMaps(To({m}, Packet("created", 0, c, 0))) /\ UNCHANGED <<party_db, party_row, last_party>>
  <2>. DEFINE l == Packet("created", 0, c, 0)
              p == 0
  <2>1. ToMaps(To({m}, l)) /\ party_db' = party_db /\ last_party' = last_party
    BY <1>2
  <2>2. DbInv' /\ \A q \in PartyIds : ViewOf(party_db'[q]) = ViewOf(party_db[q])
    BY <2>1, DbSame
  <2>3. l \in Answers /\ l.type = "created" /\ l.p = p /\ p \notin PartyIds
    BY <1>0, AnswersTyped, IdsAreNumbers DEF Packet
  <2>4. ~Grants(l)
    <3>. HIDE DEF l
    <3>. QED BY <2>3 DEF Grants
  <2>5. Tells(To({m}, l), p)
    <3>. HIDE DEF l, p
    <3>. QED BY <2>2, <2>3, <2>4, OnlyAnswered
  <2>6. l \in ToSet(To({m}, l)[m])
    <3>. HIDE DEF l
    <3>. QED BY <2>3, ToOne
  <2>7. Replied(m, k, To({m}, l))
    BY <1>1, <2>6
  <2>. QED BY <1>0, <2>1, <2>2, <2>5, <2>7 DEF Answered
<1>3. CASE ~(ToMaps(To({m}, Packet("created", 0, c, 0))) /\ UNCHANGED <<party_db, party_row, last_party>>)
  <2>. DEFINE p == last_party + 1
              A == [member |-> {c}, online |-> {c},
                    lv |-> [d \in Fellow |-> IF d = c THEN lv ELSE 0],
                    leader |-> c, exp |-> FALSE, lo |-> 0, hi |-> 0]
              P == int_party_check_lv(A)
              i == InfoOf(p, P, 0)
              b == To({m}, i)
              l == Packet("created", p, c, 0)
  <2>1. /\ p \in PartyIds /\ last_party' = p
        /\ party_db' = [party_db EXCEPT ![p] = P]
        /\ ToMaps(b ++ To({m}, l))
    BY <1>3 DEF mapif_parse_CreateParty
  <2>2. A \in CharParty /\ A.member = {c} /\ A.online = {c} /\ A.exp = FALSE
    <3>1. [d \in Fellow |-> IF d = c THEN lv ELSE 0] \in [Fellow -> 0 .. TopLevel]
      BY <1>0, SizesOK
    <3>2. 0 \in 0 .. UintMax
      BY SizesOK
    <3>. QED BY <1>0, <3>1, <3>2 DEF CharParty
  <2>3. P \in CharParty /\ WellKept(P) /\ P.member = {c}
    <3>. DEFINE B == A
                Q == int_party_check_lv(B)
    <3>1. B \in CharParty /\ B.online \subseteq B.member /\ B.member = {c}
      BY <2>2
    <3>. HIDE DEF B
    <3>2. Q \in CharParty /\ WellKept(Q) /\ Q.member = B.member
      BY <3>1, WellChecked
    <3>. QED BY <3>1, <3>2 DEF B
  <2>. HIDE DEF P
  <2>4. /\ party_db[p] = NoParty /\ p \in Nat /\ last_party < p /\ last_party <= p /\ last_party' \in Nat
        /\ p \in 0 .. MaxParties /\ p <= last_party'
    BY <1>0, <2>1, IdsAreNumbers DEF DbInv
  <2>5. ViewOf(party_db[p]) = Unknown
    BY <2>4, ViewsOf
  <2>. HIDE DEF p
  <2>6. /\ DbInv' /\ party_db'[p] = P
        /\ \A q \in PartyIds \ {p} : ViewOf(party_db'[q]) = ViewOf(party_db[q])
    <3>1. last_party <= last_party' /\ last_party' \in Nat
      BY <2>1, <2>4
    <3>. QED BY <1>0, <2>1, <2>3, <2>4, <3>1, DbBecomes
  <2>7. /\ i \in Answers /\ i.type = "info" /\ i.p = p /\ c \in i.x.member
    <3>. DEFINE j == i
    <3>1. j = InfoOf(p, P, 0)
      OBVIOUS
    <3>. HIDE DEF j
    <3>2. j \in Answers /\ j.type = "info" /\ j.p = p /\ j.x.member = P.member
      BY <2>1, <2>3, <3>1, InfoIs
    <3>. QED BY <2>3, <3>2 DEF j
  <2>8. l \in Answers /\ l.type = "created" /\ l.p = p /\ l.c = c
    BY <1>0, <2>4, AnswersTyped DEF Packet
  <2>9. Leads(p, <<i>>, Unknown, ViewOf(P))
    <3>1. Unknown \in Views /\ ~Unknown.known
      BY ViewsAre
    <3>. HIDE DEF i
    <3>2. i = InfoOf(p, P, 0)
      BY DEF i
    <3>. QED BY <2>1, <2>3, <3>1, <3>2, LeadsInfoOf
  <2>. HIDE DEF i
  <2>10. Announces(i, p, c) /\ ~Grants(i)
    BY <2>7 DEF Announces, Grants
  <2>11. Notices(b, p)
    BY <2>7, NoticesTo
  <2>12. b \in AnswersTo /\ b[m] = <<i>> /\ \A n \in Server : n # m => b[n] = <<>>
    BY <2>7, ToOne
  <2>. HIDE DEF b
  <2>13. \A n \in Server : Paired(b[n]) /\ \A x \in ToSet(b[n]) : x.p = p /\ x.type # "authok"
    BY <2>11, NoticesPaired
  <2>14. ASSUME NEW n \in Server
         PROVE  Leads(p, b[n], ViewOf(party_db[p]), ViewOf(party_db'[p]))
    <3>1. CASE n = m
      <4>1. b[n] = <<i>>
        BY <2>12, <3>1
      <4>. QED BY <2>5, <2>6, <2>9, <4>1
    <3>2. CASE n # m
      <4>1. b[n] = <<>>
        BY <2>12, <3>2
      <4>2. <<>> \in Seq(Answers) /\ \A x \in ToSet(<<>>) : Idle(p, x)
        BY PacketsOfNone
      <4>3. Leads(p, <<>>, Unknown, ViewOf(P))
        BY <4>2, LeadsUnknown
      <4>. QED BY <2>5, <2>6, <4>1, <4>3
    <3>. QED BY <3>1, <3>2
  <2>. DEFINE q == <<>>
  <2>15. q \in Seq(Answers) /\ Paired(q) /\ b[m] = q \o <<i>>
    BY <2>7, <2>12, NonePaired
  <2>16. Tells(b ++ To({m}, l), p) /\ l \in ToSet((b ++ To({m}, l))[m])
    <3>1. Announces(i, p, l.c) /\ l.type \in {"created", "added"}
      BY <2>8, <2>10
    <3>. HIDE DEF q, l
    <3>. QED BY <2>1, <2>6, <2>7, <2>8, <2>10, <2>12, <2>13, <2>14, <2>15, <3>1, GrantTells
  <2>17. Replied(m, k, b ++ To({m}, l))
    BY <1>1, <2>16
  <2>. QED BY <2>1, <2>4, <2>6, <2>16, <2>17 DEF Answered
<1>. QED BY <1>2, <1>3

RowsTyped ==
  /\ party_row \in [Fellow -> 0 .. MaxParties]
  /\ cached \in [Fellow -> 0 .. MaxParties]
  /\ last_party \in 0 .. MaxParties

LEMMA RowBecomes ==
  ASSUME RowsTyped, NEW c \in Fellow, NEW p \in 0 .. MaxParties
  PROVE  /\ party_row' = [party_row EXCEPT ![c] = p] => party_row' \in [Fellow -> 0 .. MaxParties]
         /\ cached' = [cached EXCEPT ![c] = p] => cached' \in [Fellow -> 0 .. MaxParties]
BY DEF RowsTyped

\* What the char-server does with a request.
LEMMA CharTells ==
  ASSUME Types, DbInv, NEW m \in Server, PartyCharHandles(m)
  PROVE  \E k \in Requests :
           /\ k = Head(partyToChar[m])
           /\ Answered(m, k) /\ DbInv' /\ RowsTyped'
<1>. DEFINE S == Requests
<1>1. partyToChar[m] \in Seq(S) /\ partyToChar[m] # <<>>
  BY DEF Types, PacketsTyped, PartyCharHandles
<1>. HIDE DEF S
<1>2. PICK k \in S : k = Head(partyToChar[m])
  BY <1>1, PacketsOfTail
<1>3. k \in Requests
  BY DEF S
<1>4. k.c \in Fellow /\ k.p \in 0 .. MaxParties /\ RowsTyped
      /\ (k.type \notin {"create", "save"} => k.p \in PartyIds)
  BY <1>3, RequestKinds DEF Types, RowsTyped
<1>5. \/ k.type = "save" /\ SaveStatus(k)
      \/ /\ cached' = cached
         /\ \/ k.type = "create" /\ mapif_parse_CreateParty(m, k)
            \/ k.type = "info" /\ mapif_parse_PartyInfo(m, k)
            \/ k.type = "add" /\ mapif_parse_PartyAddMember(m, k)
            \/ k.type = "option" /\ mapif_parse_PartyChangeOption(m, k)
            \/ k.type = "leave" /\ mapif_parse_PartyLeave(k)
            \/ k.type = "change" /\ mapif_parse_PartyChangeMap(k)
            \/ k.type = "leader" /\ mapif_parse_PartyLeaderChange(k)
  BY <1>2 DEF PartyCharHandles
<1>6. Answered(m, k) /\ DbInv'
  BY <1>3, <1>5, SaveTells, CreateTells, InfoTells, AddTells, OptionTells, LeaveTells, ChangeTells,
     LeaderTells
<1>7. RowsTyped'
  <2>1. CASE k.type = "save" /\ SaveStatus(k)
    <3>1. /\ cached' = [cached EXCEPT ![k.c] = k.p] /\ last_party' = last_party
          /\ party_row' = [party_row EXCEPT ![k.c] = k.p] \/ party_row' = party_row
      BY <2>1 DEF SaveStatus
    <3>. QED BY <1>4, <3>1, RowBecomes DEF RowsTyped
  <2>2. CASE cached' = cached /\ k.type = "create" /\ mapif_parse_CreateParty(m, k)
    <3>1. last_party' \in 0 .. MaxParties
      BY <1>3, <2>2, CreateTells
    <3>2. \/ party_row' = party_row
          \/ \E p \in PartyIds : party_row' = [party_row EXCEPT ![k.c] = p]
      BY <2>2 DEF mapif_parse_CreateParty
    <3>. QED BY <1>4, <2>2, <3>1, <3>2, RowBecomes, IdsAreNumbers DEF RowsTyped
  <2>3. CASE cached' = cached /\ k.type = "add" /\ mapif_parse_PartyAddMember(m, k)
    <3>1. /\ last_party' = last_party
          /\ party_row' = party_row \/ party_row' = [party_row EXCEPT ![k.c] = k.p]
      BY <2>3 DEF mapif_parse_PartyAddMember
    <3>. QED BY <1>4, <2>3, <3>1, RowBecomes DEF RowsTyped
  <2>4. CASE cached' = cached /\ k.type = "leave" /\ mapif_parse_PartyLeave(k)
    <3>1. /\ last_party' = last_party
          /\ \/ party_row' = party_row
             \/ party_row' = [c \in Fellow |-> IF party_row[c] = k.p THEN 0 ELSE party_row[c]]
             \/ party_row' = [party_row EXCEPT ![k.c] = IF @ = k.p THEN 0 ELSE @]
      BY <2>4 DEF mapif_parse_PartyLeave, BreakRows
    <3>2. 0 \in 0 .. MaxParties
      BY IdsAreNumbers
    <3>. QED BY <1>4, <2>4, <3>1, <3>2 DEF RowsTyped
  <2>5. CASE /\ cached' = cached
             /\ \/ mapif_parse_PartyInfo(m, k) \/ mapif_parse_PartyChangeOption(m, k)
                \/ mapif_parse_PartyChangeMap(k) \/ mapif_parse_PartyLeaderChange(k)
    <3>1. party_row' = party_row /\ last_party' = last_party
      BY <2>5 DEF mapif_parse_PartyInfo, mapif_parse_PartyChangeOption, mapif_parse_PartyChangeMap,
                  mapif_parse_PartyLeaderChange
    <3>. QED BY <1>4, <2>5, <3>1 DEF RowsTyped
  <2>. QED BY <1>5, <2>1, <2>2, <2>3, <2>4, <2>5
<1>. QED BY <1>2, <1>3, <1>6, <1>7

-----------------------------------------------------------------------------
(* The copies of the map-servers and the ties of players to parties *)

DataOf(Q) == IF Q = NoParty THEN {} ELSE Q.data

\* A copy becomes the char-server's party once its packets have been handled.
CopiesOK ==
  \A m \in Server, p \in PartyIds : \E v \in Views :
    /\ Reaches(p, ViewOf(party_copy[m][p]), partyToMap[m], v)
    /\ Fits(v, ViewOf(party_db[p]))

DataOK == \A m \in Server, p \in PartyIds :
            DataOf(party_copy[m][p]) \subseteq ViewOf(party_copy[m][p]).member

\* A character comes in once.
Once(q) == \A i, j \in 1 .. Len(q) :
             q[i].type = "authok" /\ q[j].type = "authok" /\ q[i].c = q[j].c => i = j
SessionsOK ==
  /\ \A c \in in_game : at[c] \in Server
  /\ \A m \in Server :
       /\ Once(partyToMap[m])
       /\ \A k \in ToSet(partyToMap[m]) : k.type = "authok" => at[k.c] = m /\ k.c \notin in_game

\* Why a player may have party p: its copy knows the player, or will let it go,
\* or a map-server has asked.
Linked(m, c, p) == c \in DataOf(party_copy[m][p])
Going(m, c, p) ==
  \/ Packet("withdraw", p, c, 0) \in ToSet(partyToMap[m])
  \/ /\ Packet("leave", p, c, 0) \in ToSet(partyToChar[m])
     /\ c \in ViewOf(party_copy[m][p]).member
Asking(m, c, p) ==
  \/ Packet("info", p, c, 0) \in ToSet(partyToChar[m])
  \/ Packet("noinfo", p, c, 0) \in ToSet(partyToMap[m])
  \/ \E x : Packet("info", p, c, x) \in ToSet(partyToMap[m])
TiesOK ==
  \A m \in Server, c \in Fellow : Here(m, c) /\ party_id[c] # 0 =>
    Linked(m, c, party_id[c]) \/ Going(m, c, party_id[c]) \/ Asking(m, c, party_id[c])

\* A player let into a party finds a copy of it.
Announced(q) ==
  \A i \in 2 .. Len(q) : Grants(q[i]) => Announces(q[i - 1], q[i].p, q[i].c)
Promised(m, k) == Here(m, k.c) => Linked(m, k.c, k.p) \/ Going(m, k.c, k.p)
GrantsOK ==
  \A m \in Server :
    /\ Announced(partyToMap[m])
    /\ partyToMap[m] # <<>> /\ Grants(Head(partyToMap[m])) => Promised(m, Head(partyToMap[m]))

\* One that waits has an answer or a question under way.
Awaits(m, c, asked, told) ==
  \/ \E k \in ToSet(partyToChar[m]) : k.type = asked /\ k.c = c
  \/ \E k \in ToSet(partyToMap[m]) : k.type = told /\ k.c = c
PendingOK ==
  \A c \in Fellow :
    /\ party_pending[c] # "no" => c \in in_game
    /\ party_pending[c] = "creating" => Awaits(at[c], c, "create", "created")
    /\ party_pending[c] = "joining" => Awaits(at[c], c, "add", "added")

PInv == Types /\ DbInv /\ CopiesOK /\ DataOK /\ SessionsOK /\ TiesOK /\ GrantsOK /\ PendingOK

-----------------------------------------------------------------------------

LEMMA CopyView ==
  ASSUME Types, NEW m \in Server, NEW p \in PartyIds
  PROVE  /\ party_copy[m] \in [PartyIds -> MapParty \cup {NoParty}]
         /\ party_copy[m][p] \in MapParty \cup {NoParty}
         /\ ViewOf(party_copy[m][p]) \in Views
         /\ party_copy[m][p] = NoParty => ViewOf(party_copy[m][p]).member = {}
         /\ party_copy[m][p] # NoParty =>
              /\ ViewOf(party_copy[m][p]) = View(party_copy[m][p].member, party_copy[m][p].exp)
              /\ ViewOf(party_copy[m][p]).member = party_copy[m][p].member
              /\ party_copy[m][p] \in MapParty
<1>. DEFINE Q == party_copy[m][p]
<1>1. party_copy[m] \in [PartyIds -> MapParty \cup {NoParty}]
  BY DEF Types
<1>2. Q \in MapParty \cup {NoParty}
  BY <1>1
<1>. HIDE DEF Q
<1>3. CASE Q = NoParty
  BY <1>1, <1>2, <1>3, ViewsAre DEF ViewOf, Q
<1>4. CASE Q # NoParty
  <2>1. Q.member \in SUBSET Fellow /\ Q.exp \in BOOLEAN /\ Q \in MapParty
    BY <1>2, <1>4 DEF MapParty
  <2>2. ViewOf(Q) = View(Q.member, Q.exp)
    BY <1>4 DEF ViewOf, View
  <2>3. ViewOf(Q) \in Views /\ ViewOf(Q).member = Q.member
    BY <2>1, <2>2, ViewsOf
  <2>. QED BY <1>1, <1>2, <1>4, <2>1, <2>2, <2>3 DEF Q
<1>. QED BY <1>3, <1>4

\* The last thing a map-server has been told is true.
LEMMA CopiesAppend ==
  ASSUME Types, CopiesOK, NEW a \in AnswersTo, ToMaps(a),
         \A n \in Server, p \in PartyIds :
           /\ Leads(p, a[n], ViewOf(party_db[p]), ViewOf(party_db'[p]))
           /\ ViewOf(party_copy'[n][p]) = ViewOf(party_copy[n][p])
  PROVE  CopiesOK'
<1>. SUFFICES ASSUME NEW n \in Server, NEW p \in PartyIds
              PROVE  \E v \in Views : /\ Reaches(p, ViewOf(party_copy'[n][p]), partyToMap'[n], v)
                                      /\ Fits(v, ViewOf(party_db'[p]))
  BY DEF CopiesOK
<1>. DEFINE u == ViewOf(party_copy[n][p])
            q == partyToMap[n]
            r == a[n]
            g == ViewOf(party_db[p])
            h == ViewOf(party_db'[p])
<1>1. q \in Seq(Answers) /\ r \in Seq(Answers) /\ partyToMap'[n] = q \o r
  BY ToMapsTyped DEF Types
<1>2. Leads(p, r, g, h) /\ ViewOf(party_copy'[n][p]) = u
  OBVIOUS
<1>3. PICK v \in Views : Reaches(p, u, q, v) /\ Fits(v, g)
  BY DEF CopiesOK
<1>. HIDE DEF u, q, r, g, h
<1>4. PICK w \in Views : Reaches(p, v, r, w) /\ Fits(w, h)
  BY <1>2, <1>3 DEF Leads
<1>5. Reaches(p, u, q \o r, w)
  BY <1>1, <1>3, <1>4, ReachBoth
<1>. QED BY <1>1, <1>2, <1>4, <1>5 DEF h

\* A map-server handles a packet.
Takes(m, k) ==
  /\ partyToMap[m] # <<>> /\ k = Head(partyToMap[m])
  /\ partyToMap' = [partyToMap EXCEPT ![m] = Tail(@)]

LEMMA TakesTyped ==
  ASSUME PacketsTyped, NEW m \in Server, NEW k, Takes(m, k)
  PROVE  /\ k \in Answers /\ k \in ToSet(partyToMap[m])
         /\ partyToMap' \in [Server -> Seq(Answers)]
         /\ \A n \in Server : partyToMap[n] \in Seq(Answers)
         /\ \A n \in Server \ {m} : partyToMap'[n] = partyToMap[n]
         /\ partyToMap'[m] = Tail(partyToMap[m])
         /\ ToSet(partyToMap[m]) = {k} \cup ToSet(partyToMap'[m])
<1>. DEFINE S == Answers
            q == partyToMap[m]
<1>1. q \in Seq(S) /\ q # <<>> /\ k = Head(q) /\ \A n \in Server : partyToMap[n] \in Seq(Answers)
  BY DEF PacketsTyped, Takes
<1>2. partyToMap'[m] = Tail(q) /\ \A n \in Server \ {m} : partyToMap'[n] = partyToMap[n]
  BY DEF Takes, PacketsTyped
<1>. HIDE DEF S, q
<1>3. k \in S /\ Tail(q) \in Seq(S) /\ k \in ToSet(q) /\ ToSet(q) = {k} \cup ToSet(Tail(q))
  BY <1>1, PacketsOfTail
<1>4. partyToMap' \in [Server -> Seq(Answers)]
  <2>1. Tail(partyToMap[m]) \in Seq(Answers)
    BY <1>3 DEF S, q
  <2>. QED BY <1>1, <2>1 DEF Takes, PacketsTyped
<1>. QED BY <1>1, <1>2, <1>3, <1>4 DEF S, q

LEMMA CopiesTake ==
  ASSUME Types, CopiesOK, NEW m \in Server, NEW k, Takes(m, k), party_db' = party_db,
         \A n \in Server \ {m} : party_copy'[n] = party_copy[n],
         \A p \in PartyIds : ViewOf(party_copy'[m][p]) = Effect(p, k, ViewOf(party_copy[m][p]))
  PROVE  /\ CopiesOK'
         /\ \A p \in PartyIds : Gently(p, k, ViewOf(party_copy[m][p]))
<1>0. PacketsTyped
  BY DEF Types
<1>1. ASSUME NEW p \in PartyIds
      PROVE  /\ Gently(p, k, ViewOf(party_copy[m][p]))
             /\ \E v \in Views : /\ Reaches(p, ViewOf(party_copy'[m][p]), partyToMap'[m], v)
                                 /\ Fits(v, ViewOf(party_db'[p]))
  <2>. DEFINE u == ViewOf(party_copy[m][p])
              q == partyToMap[m]
  <2>1. q \in Seq(Answers) /\ q # <<>> /\ k = Head(q) /\ partyToMap'[m] = Tail(q)
    BY <1>0, TakesTyped DEF Takes
  <2>2. PICK v \in Views : Reaches(p, u, q, v) /\ Fits(v, ViewOf(party_db[p]))
    BY DEF CopiesOK
  <2>3. ViewOf(party_copy'[m][p]) = Effect(p, k, u)
    OBVIOUS
  <2>. HIDE DEF u, q
  <2>4. Reaches(p, Effect(p, k, u), Tail(q), v) /\ Gently(p, k, u)
    BY <2>1, <2>2, ReachTail
  <2>. QED BY <2>1, <2>2, <2>3, <2>4 DEF u
<1>2. ASSUME NEW n \in Server \ {m}, NEW p \in PartyIds
      PROVE  \E v \in Views : /\ Reaches(p, ViewOf(party_copy'[n][p]), partyToMap'[n], v)
                              /\ Fits(v, ViewOf(party_db'[p]))
  <2>1. partyToMap'[n] = partyToMap[n] /\ party_copy'[n] = party_copy[n]
    BY <1>0, TakesTyped
  <2>. QED BY <2>1 DEF CopiesOK
<1>. QED BY <1>1, <1>2 DEF CopiesOK

-----------------------------------------------------------------------------
(* Queues: who comes in once, and what is announced *)

LEMMA PlacesOfBoth ==
  ASSUME NEW S, NEW q \in Seq(S), NEW r \in Seq(S)
  PROVE  /\ Len(q) \in Nat /\ Len(r) \in Nat /\ Len(q \o r) = Len(q) + Len(r)
         /\ \A i \in 1 .. Len(q) + Len(r) :
              \/ i \in 1 .. Len(q) /\ (q \o r)[i] = q[i] /\ q[i] \in ToSet(q)
              \/ /\ ~(i <= Len(q)) /\ i - Len(q) \in 1 .. Len(r)
                 /\ (q \o r)[i] = r[i - Len(q)] /\ r[i - Len(q)] \in ToSet(r)
<1>1. /\ Len(q) \in Nat /\ Len(r) \in Nat /\ Len(q \o r) = Len(q) + Len(r)
      /\ DOMAIN q = 1 .. Len(q) /\ DOMAIN r = 1 .. Len(r)
      /\ \A i \in 1 .. Len(q) + Len(r) : (q \o r)[i] = IF i <= Len(q) THEN q[i] ELSE r[i - Len(q)]
  OBVIOUS
<1>2. /\ \A i \in 1 .. Len(q) : q[i] \in ToSet(q)
      /\ \A i \in 1 .. Len(r) : r[i] \in ToSet(r)
  BY <1>1 DEF ToSet
<1>3. ASSUME NEW i \in 1 .. Len(q) + Len(r)
      PROVE  \/ i \in 1 .. Len(q) /\ (q \o r)[i] = q[i] /\ q[i] \in ToSet(q)
             \/ /\ ~(i <= Len(q)) /\ i - Len(q) \in 1 .. Len(r)
                /\ (q \o r)[i] = r[i - Len(q)] /\ r[i - Len(q)] \in ToSet(r)
  <2>1. i \in 1 .. Len(q) \/ (~(i <= Len(q)) /\ i - Len(q) \in 1 .. Len(r))
    BY <1>1
  <2>2. i \in 1 .. Len(q) => i <= Len(q)
    BY <1>1
  <2>. QED BY <1>1, <1>2, <2>1, <2>2
<1>. QED BY <1>1, <1>3

LEMMA PlacesOfTail ==
  ASSUME NEW S, NEW q \in Seq(S), q # <<>>
  PROVE  /\ Len(q) \in Nat \ {0} /\ Head(q) = q[1] /\ Len(Tail(q)) = Len(q) - 1
         /\ \A i \in 1 .. Len(q) - 1 : Tail(q)[i] = q[i + 1] /\ i + 1 \in 1 .. Len(q)
OBVIOUS

LEMMA OnceBoth ==
  ASSUME NEW q \in Seq(Answers), NEW r \in Seq(Answers), Once(q), Once(r),
         \A k \in ToSet(q), l \in ToSet(r) : ~(k.type = "authok" /\ l.type = "authok" /\ k.c = l.c)
  PROVE  Once(q \o r)
<1>. DEFINE S == Answers
            s == q \o r
            n == Len(q)
<1>0. q \in Seq(S) /\ r \in Seq(S)
  OBVIOUS
<1>. HIDE DEF S
<1>1. /\ n \in Nat /\ Len(r) \in Nat /\ Len(s) = n + Len(r)
      /\ \A i \in 1 .. n + Len(r) :
           \/ i \in 1 .. n /\ s[i] = q[i] /\ q[i] \in ToSet(q)
           \/ /\ ~(i <= n) /\ i - n \in 1 .. Len(r)
              /\ s[i] = r[i - n] /\ r[i - n] \in ToSet(r)
  BY <1>0, PlacesOfBoth
<1>. HIDE DEF s, n
<1>2. ASSUME NEW i \in 1 .. Len(s), NEW j \in 1 .. Len(s),
             s[i].type = "authok", s[j].type = "authok", s[i].c = s[j].c
      PROVE  i = j
  <2>1. CASE i \in 1 .. n /\ s[i] = q[i] /\ q[i] \in ToSet(q)
    <3>1. ~(s[j] \in ToSet(r))
      BY <1>2, <2>1
    <3>2. j \in 1 .. n /\ s[j] = q[j]
      BY <1>1, <3>1
    <3>. QED BY <1>2, <2>1, <3>2 DEF Once, n
  <2>2. CASE ~(i <= n) /\ i - n \in 1 .. Len(r) /\ s[i] = r[i - n] /\ r[i - n] \in ToSet(r)
    <3>1. ~(s[j] \in ToSet(q))
      BY <1>2, <2>2
    <3>2. j - n \in 1 .. Len(r) /\ s[j] = r[j - n]
      BY <1>1, <3>1
    <3>3. i - n = j - n
      BY <1>2, <2>2, <3>2 DEF Once
    <3>. QED BY <1>1, <3>3
  <2>. QED BY <1>1, <2>1, <2>2
<1>. QED BY <1>2 DEF Once, s

LEMMA OnceNone ==
  ASSUME NEW r \in Seq(Answers), \A k \in ToSet(r) : k.type # "authok"
  PROVE  Once(r)
<1>1. \A i \in 1 .. Len(r) : r[i] \in ToSet(r)
  BY DEF ToSet
<1>. QED BY <1>1 DEF Once

LEMMA OnceOne ==
  ASSUME NEW k
  PROVE  Once(<<k>>)
<1>1. Len(<<k>>) = 1
  OBVIOUS
<1>. QED BY <1>1 DEF Once

LEMMA OnceTail ==
  ASSUME NEW q \in Seq(Answers), q # <<>>, Once(q)
  PROVE  /\ Once(Tail(q))
         /\ Head(q).type = "authok" =>
              \A l \in ToSet(Tail(q)) : l.type = "authok" => l.c # Head(q).c
<1>. DEFINE S == Answers
            t == Tail(q)
            n == Len(q)
<1>0. q \in Seq(S)
  OBVIOUS
<1>. HIDE DEF S
<1>1. /\ n \in Nat \ {0} /\ Head(q) = q[1] /\ Len(t) = n - 1
      /\ \A i \in 1 .. n - 1 : t[i] = q[i + 1] /\ i + 1 \in 1 .. n
  BY <1>0, PlacesOfTail
<1>2. DOMAIN t = 1 .. n - 1
  <2>1. t \in Seq(S)
    BY <1>0
  <2>. QED BY <1>1, <2>1
<1>. HIDE DEF t, n
<1>3. Once(t)
  <2>. SUFFICES ASSUME NEW i \in 1 .. n - 1, NEW j \in 1 .. n - 1,
                       t[i].type = "authok", t[j].type = "authok", t[i].c = t[j].c
                PROVE  i = j
    BY <1>1 DEF Once
  <2>1. i + 1 = j + 1
    BY <1>1 DEF Once, n
  <2>. QED BY <2>1
<1>4. ASSUME Head(q).type = "authok", NEW l \in ToSet(t), l.type = "authok"
      PROVE  l.c # Head(q).c
  <2>1. PICK i \in 1 .. n - 1 : l = t[i]
    BY <1>2 DEF ToSet
  <2>2. i + 1 # 1 /\ i + 1 \in 1 .. n /\ 1 \in 1 .. n /\ l = q[i + 1]
    BY <1>1, <2>1
  <2>. QED BY <1>1, <1>4, <2>2 DEF Once, n
<1>. QED BY <1>3, <1>4 DEF t

LEMMA AnnouncedBoth ==
  ASSUME NEW q \in Seq(Answers), NEW r \in Seq(Answers), Announced(q), Paired(r)
  PROVE  Announced(q \o r)
<1>. DEFINE S == Answers
            s == q \o r
            n == Len(q)
<1>0. q \in Seq(S) /\ r \in Seq(S)
  OBVIOUS
<1>. HIDE DEF S
<1>1. /\ n \in Nat /\ Len(r) \in Nat /\ Len(s) = n + Len(r)
      /\ \A i \in 1 .. n + Len(r) :
           \/ i \in 1 .. n /\ s[i] = q[i] /\ q[i] \in ToSet(q)
           \/ /\ ~(i <= n) /\ i - n \in 1 .. Len(r)
              /\ s[i] = r[i - n] /\ r[i - n] \in ToSet(r)
  BY <1>0, PlacesOfBoth
<1>. HIDE DEF s, n
<1>2. ASSUME NEW i \in 2 .. Len(s), Grants(s[i])
      PROVE  Announces(s[i - 1], s[i].p, s[i].c)
  <2>0. i \in 1 .. n + Len(r) /\ i - 1 \in 1 .. n + Len(r)
    BY <1>1
  <2>1. CASE i \in 1 .. n /\ s[i] = q[i]
    <3>1. i \in 2 .. n /\ s[i - 1] = q[i - 1]
      BY <1>1, <2>0, <2>1
    <3>. QED BY <1>2, <2>1, <3>1 DEF Announced, n
  <2>2. CASE ~(i <= n) /\ i - n \in 1 .. Len(r) /\ s[i] = r[i - n]
    <3>1. (i - n) - 1 \in 1 .. Len(r) /\ Announces(r[(i - n) - 1], r[i - n].p, r[i - n].c)
      BY <1>2, <2>2 DEF Paired
    <3>2. s[i - 1] = r[(i - n) - 1]
      <4>1. ~(i - 1 \in 1 .. n) /\ (i - 1) - n = (i - n) - 1
        BY <1>1, <2>0, <3>1
      <4>. QED BY <1>1, <2>0, <4>1
    <3>. QED BY <2>2, <3>1, <3>2
  <2>. QED BY <1>1, <2>0, <2>1, <2>2
<1>. QED BY <1>2 DEF Announced, s

\* A grant comes to the head of a queue after its announcement only.
LEMMA AnnouncedTail ==
  ASSUME NEW q \in Seq(Answers), q # <<>>, Announced(q)
  PROVE  /\ Announced(Tail(q))
         /\ Tail(q) # <<>> /\ Grants(Head(Tail(q))) =>
              Announces(Head(q), Head(Tail(q)).p, Head(Tail(q)).c)
<1>. DEFINE S == Answers
            t == Tail(q)
            n == Len(q)
<1>0. q \in Seq(S) /\ t \in Seq(S)
  OBVIOUS
<1>. HIDE DEF S
<1>1. /\ n \in Nat \ {0} /\ Head(q) = q[1] /\ Len(t) = n - 1
      /\ \A i \in 1 .. n - 1 : t[i] = q[i + 1] /\ i + 1 \in 1 .. n
  BY <1>0, PlacesOfTail
<1>. HIDE DEF t, n
<1>2. Announced(t)
  <2>. SUFFICES ASSUME NEW i \in 2 .. n - 1, Grants(t[i])
                PROVE  Announces(t[i - 1], t[i].p, t[i].c)
    BY <1>1 DEF Announced
  <2>1. i + 1 \in 2 .. n /\ (i + 1) - 1 = i /\ i - 1 \in 1 .. n - 1 /\ (i - 1) + 1 = i /\ i \in 1 .. n - 1
    BY <1>1
  <2>2. t[i] = q[i + 1] /\ t[i - 1] = q[i]
    BY <1>1, <2>1
  <2>. QED BY <2>1, <2>2 DEF Announced, n
<1>3. ASSUME t # <<>>, Grants(Head(t))
      PROVE  Announces(Head(q), Head(t).p, Head(t).c)
  <2>1. Len(t) \in Nat \ {0} /\ Head(t) = t[1]
    BY <1>0, <1>3, PlacesOfTail
  <2>2. 2 \in 2 .. n /\ 2 - 1 = 1 /\ t[1] = q[2]
    BY <1>1, <2>1
  <2>. QED BY <1>1, <1>3, <2>1, <2>2 DEF Announced, n
<1>. QED BY <1>2, <1>3 DEF t

\* Answers put at the end grant nothing at once.
LEMMA HeadOfBoth ==
  ASSUME NEW q \in Seq(Answers), NEW r \in Seq(Answers), Paired(r), q \o r # <<>>, Grants(Head(q \o r))
  PROVE  q # <<>> /\ Head(q \o r) = Head(q)
<1>1. CASE q = <<>>
  <2>1. q \o r = r /\ r # <<>> /\ Head(r) = r[1] /\ 1 \in 1 .. Len(r) /\ ~(1 - 1 \in 1 .. Len(r))
    BY <1>1
  <2>. QED BY <2>1 DEF Paired
<1>2. CASE q # <<>>
  <2>1. Head(q \o r) = Head(q)
    BY <1>2
  <2>. QED BY <1>2, <2>1
<1>. QED BY <1>1, <1>2

-----------------------------------------------------------------------------
(* A step of the char-server *)

LEMMA AnswersLead ==
  ASSUME NEW a, NEW p, Tells(a, p), NEW n \in Server, NEW q \in PartyIds
  PROVE  Leads(q, a[n], ViewOf(party_db[q]), ViewOf(party_db'[q]))
<1>1. CASE q = p
  BY <1>1 DEF Tells
<1>2. CASE q # p
  <2>1. ViewOf(party_db'[q]) = ViewOf(party_db[q]) /\ a[n] \in Seq(Answers)
    BY <1>2 DEF Tells, AnswersTo
  <2>2. \A x \in ToSet(a[n]) : Idle(q, x)
    BY <1>2 DEF Tells, Idle
  <2>. QED BY <2>1, <2>2, LeadsIdle
<1>. QED BY <1>1, <1>2

LEMMA MapsGrow ==
  ASSUME PacketsTyped, NEW a \in AnswersTo, ToMaps(a)
  PROVE  /\ partyToMap' \in [Server -> Seq(Answers)]
         /\ \A n \in Server :
              /\ partyToMap[n] \in Seq(Answers) /\ a[n] \in Seq(Answers)
              /\ partyToMap'[n] = partyToMap[n] \o a[n]
              /\ ToSet(partyToMap'[n]) = ToSet(partyToMap[n]) \cup ToSet(a[n])
<1>1. /\ partyToMap' \in [Server -> Seq(Answers)]
      /\ \A n \in Server : /\ partyToMap[n] \in Seq(Answers) /\ a[n] \in Seq(Answers)
                           /\ partyToMap'[n] = partyToMap[n] \o a[n]
  BY ToMapsTyped
<1>2. ASSUME NEW n \in Server
      PROVE  ToSet(partyToMap'[n]) = ToSet(partyToMap[n]) \cup ToSet(a[n])
  <2>. DEFINE S == Answers
              q == partyToMap[n]
              r == a[n]
  <2>1. q \in Seq(S) /\ r \in Seq(S) /\ partyToMap'[n] = q \o r
    BY <1>1
  <2>. HIDE DEF S, q, r
  <2>2. ToSet(q \o r) = ToSet(q) \cup ToSet(r)
    BY <2>1, PacketsOfBoth
  <2>. QED BY <2>1, <2>2 DEF q, r
<1>. QED BY <1>1, <1>2

LEMMA SessionsGrow ==
  ASSUME PacketsTyped, SessionsOK, NEW a \in AnswersTo, ToMaps(a), at' = at, in_game' \subseteq in_game,
         \A n \in Server : \A k \in ToSet(a[n]) : k.type # "authok"
  PROVE  SessionsOK'
<1>1. ASSUME NEW n \in Server
      PROVE  /\ Once(partyToMap'[n])
             /\ \A k \in ToSet(partyToMap'[n]) : k.type = "authok" => at[k.c] = n /\ k.c \notin in_game
  <2>. DEFINE q == partyToMap[n]
              r == a[n]
  <2>1. /\ q \in Seq(Answers) /\ r \in Seq(Answers) /\ partyToMap'[n] = q \o r
        /\ ToSet(partyToMap'[n]) = ToSet(q) \cup ToSet(r)
    BY MapsGrow
  <2>2. Once(q) /\ \A k \in ToSet(q) : k.type = "authok" => at[k.c] = n /\ k.c \notin in_game
    BY DEF SessionsOK
  <2>3. \A k \in ToSet(r) : k.type # "authok"
    OBVIOUS
  <2>. HIDE DEF q, r
  <2>4. Once(r)
    BY <2>1, <2>3, OnceNone
  <2>5. Once(q \o r)
    BY <2>1, <2>2, <2>3, <2>4, OnceBoth
  <2>. QED BY <2>1, <2>2, <2>3, <2>5
<1>. QED BY <1>1 DEF SessionsOK

LEMMA GrantsGrow ==
  ASSUME PacketsTyped, GrantsOK, NEW a \in AnswersTo, ToMaps(a),
         \A n \in Server : Paired(a[n]),
         \A n \in Server, k \in Answers : Grants(k) /\ Promised(n, k) => Promised(n, k)'
  PROVE  GrantsOK'
<1>1. ASSUME NEW n \in Server
      PROVE  /\ Announced(partyToMap'[n])
             /\ partyToMap'[n] # <<>> /\ Grants(Head(partyToMap'[n])) => Promised(n, Head(partyToMap[n]))'
  <2>. DEFINE q == partyToMap[n]
              r == a[n]
  <2>1. /\ q \in Seq(Answers) /\ r \in Seq(Answers) /\ partyToMap'[n] = q \o r
    BY MapsGrow
  <2>2. Announced(q) /\ Paired(r) /\ (q # <<>> /\ Grants(Head(q)) => Promised(n, Head(q)))
    BY DEF GrantsOK
  <2>3. Announced(partyToMap'[n])
    <3>. HIDE DEF q, r
    <3>. QED BY <2>1, <2>2, AnnouncedBoth
  <2>4. ASSUME partyToMap'[n] # <<>>, Grants(Head(partyToMap'[n]))
        PROVE  Promised(n, Head(partyToMap[n]))'
    <3>1. q # <<>> /\ Head(q \o r) = Head(q)
      <4>. HIDE DEF q, r
      <4>. QED BY <2>1, <2>2, <2>4, HeadOfBoth
    <3>2. Head(q) \in Answers
      BY <2>1, <3>1
    <3>3. PICK k \in Answers : k = Head(q)
      BY <3>2
    <3>4. Grants(k) /\ Promised(n, k)
      BY <2>1, <2>2, <2>4, <3>1, <3>3
    <3>5. Promised(n, k)'
      BY <3>4
    <3>6. Head(partyToMap'[n]) = k
      BY <2>1, <3>1, <3>3
    <3>. QED BY <3>5, <3>6 DEF Promised
  <2>. QED BY <2>3, <2>4
<1>. QED BY <1>1 DEF GrantsOK

LEMMA CharStepOK ==
  ASSUME PInv, NEW m \in Server, PartyCharHandles(m)
  PROVE  PInv'
<1>1. Types /\ DbInv /\ PacketsTyped
  BY DEF PInv, Types
<1>2. PICK k \in Requests : k = Head(partyToChar[m]) /\ Answered(m, k) /\ DbInv' /\ RowsTyped'
  BY <1>1, CharTells
<1>3. PICK a, p : ToMaps(a) /\ Tells(a, p) /\ Replied(m, k, a)
  BY <1>2 DEF Answered
<1>4. a \in AnswersTo
  BY <1>3 DEF Tells
<1>5. /\ at' = at /\ level' = level /\ in_game' = in_game /\ party_id' = party_id
      /\ party_invite' = party_invite /\ party_pending' = party_pending
      /\ party_copy' = party_copy /\ acts' = acts
  BY DEF PartyCharHandles, sessions
<1>6. /\ partyToMap' \in [Server -> Seq(Answers)]
      /\ \A n \in Server : ToSet(partyToMap'[n]) = ToSet(partyToMap[n]) \cup ToSet(a[n])
  BY <1>1, <1>3, <1>4, MapsGrow
<1>7. /\ partyToChar' \in [Server -> Seq(Requests)]
      /\ \A n \in Server : ToSet(partyToChar[n]) \subseteq ToSet(partyToChar'[n]) \cup {x \in {k} : n = m}
  <2>. DEFINE S == Requests
              q == partyToChar[m]
  <2>1. q \in Seq(S) /\ q # <<>> /\ k = Head(q)
    BY <1>1, <1>2 DEF PacketsTyped, PartyCharHandles
  <2>2. Tail(q) \in Seq(S) /\ ToSet(q) = {k} \cup ToSet(Tail(q))
    <3>. HIDE DEF S, q
    <3>. QED BY <2>1, PacketsOfTail
  <2>3. /\ partyToChar' = [partyToChar EXCEPT ![m] = Tail(q)]
        /\ partyToChar \in [Server -> Seq(Requests)]
    BY <1>1 DEF PacketsTyped, PartyCharHandles
  <2>4. Tail(q) \in Seq(Requests)
    BY <2>2
  <2>5. partyToChar' \in [Server -> Seq(Requests)]
    <3>. HIDE DEF S, q
    <3>. QED BY <2>3, <2>4
  <2>6. partyToChar'[m] = Tail(q) /\ \A n \in Server \ {m} : partyToChar'[n] = partyToChar[n]
    BY <2>3
  <2>. QED BY <2>2, <2>5, <2>6
<1>8. Types'
  <2>1. PacketsTyped'
    BY <1>6, <1>7 DEF PacketsTyped
  <2>. QED BY <1>1, <1>2, <1>5, <2>1 DEF Types, RowsTyped, DbInv
<1>9. CopiesOK'
  <2>1. \A n \in Server, q \in PartyIds :
          /\ Leads(q, a[n], ViewOf(party_db[q]), ViewOf(party_db'[q]))
          /\ ViewOf(party_copy'[n][q]) = ViewOf(party_copy[n][q])
    BY <1>3, <1>5, AnswersLead
  <2>. QED BY <1>1, <1>3, <1>4, <2>1, CopiesAppend DEF PInv
<1>10. DataOK'
  BY <1>5 DEF PInv, DataOK
<1>11. SessionsOK'
  <2>1. \A n \in Server : \A x \in ToSet(a[n]) : x.type # "authok"
    BY <1>3 DEF Tells
  <2>. QED BY <1>1, <1>3, <1>4, <1>5, <2>1, SessionsGrow DEF PInv
<1>12. ASSUME NEW n \in Server, NEW c, NEW q, Going(n, c, q)
       PROVE  Going(n, c, q)'
  <2>. DEFINE l == Packet("leave", q, c, 0)
  <2>1. CASE Packet("withdraw", q, c, 0) \in ToSet(partyToMap[n])
    BY <1>6, <2>1 DEF Going
  <2>2. CASE l \in ToSet(partyToChar[n]) /\ c \in ViewOf(party_copy[n][q]).member
    <3>1. CASE l \in ToSet(partyToChar'[n])
      BY <1>5, <2>2, <3>1 DEF Going
    <3>2. CASE l = k /\ n = m
      <4>1. k.type = "leave" /\ k.p = q /\ k.c = c
        BY <3>2 DEF Packet
      <4>2. q \in PartyIds
        BY <4>1, RequestKinds
      <4>3. CASE party_db[q] # NoParty /\ c \in party_db[q].member
        <5>1. Packet("withdraw", q, c, 0) \in ToSet(a[n])
          BY <1>3, <3>2, <4>1, <4>3 DEF Replied
        <5>. QED BY <1>6, <5>1 DEF Going
      <4>4. CASE ~(party_db[q] # NoParty /\ c \in party_db[q].member)
        <5>. DEFINE u == ViewOf(party_copy[n][q])
                    o == partyToMap[n]
        <5>1. PICK v \in Views : Reaches(q, u, o, v) /\ Fits(v, ViewOf(party_db[q]))
          BY <4>2 DEF PInv, CopiesOK
        <5>2. c \notin ViewOf(party_db[q]).member
          <6>1. CASE party_db[q] = NoParty
            BY <6>1, ViewsOf, ViewsAre
          <6>2. CASE party_db[q] # NoParty
            <7>. DEFINE P == party_db[q]
            <7>1. P \in CharParty /\ c \notin P.member
              BY <1>1, <4>2, <4>4, <6>2, PartyIs
            <7>. HIDE DEF P
            <7>2. ViewOf(P) = View(P.member, P.exp) /\ View(P.member, P.exp).member = P.member
              BY <7>1, ViewsOf
            <7>. QED BY <7>1, <7>2 DEF P
          <6>. QED BY <6>1, <6>2
        <5>3. c \notin v.member
          BY <5>1, <5>2 DEF Fits
        <5>4. o \in Seq(Answers)
          BY <1>1 DEF PacketsTyped
        <5>5. c \in u.member
          BY <2>2
        <5>. HIDE DEF u, o
        <5>6. Packet("withdraw", q, c, 0) \in ToSet(o)
          BY <5>1, <5>3, <5>4, <5>5, LossIsTold
        <5>. QED BY <1>6, <5>6 DEF Going, o
      <4>. QED BY <4>3, <4>4
    <3>. QED BY <1>7, <2>2, <3>1, <3>2
  <2>. QED BY <1>12, <2>1, <2>2 DEF Going
<1>13. ASSUME NEW n \in Server, NEW c, NEW q, Asking(n, c, q)
       PROVE  Asking(n, c, q)'
  <2>1. CASE Packet("info", q, c, 0) \in ToSet(partyToChar[n])
    <3>. DEFINE l == Packet("info", q, c, 0)
    <3>1. CASE l \in ToSet(partyToChar'[n])
      BY <3>1 DEF Asking
    <3>2. CASE l = k /\ n = m
      <4>1. k.type = "info" /\ k.p = q /\ k.c = c
        BY <3>2 DEF Packet
      <4>2. \/ Packet("noinfo", q, c, 0) \in ToSet(a[n])
            \/ \E x : Packet("info", q, c, x) \in ToSet(a[n])
        BY <1>3, <3>2, <4>1 DEF Replied
      <4>. QED BY <1>6, <4>2 DEF Asking
    <3>. QED BY <1>7, <2>1, <3>1, <3>2
  <2>2. CASE \/ Packet("noinfo", q, c, 0) \in ToSet(partyToMap[n])
             \/ \E x : Packet("info", q, c, x) \in ToSet(partyToMap[n])
    BY <1>6, <2>2 DEF Asking
  <2>. QED BY <1>13, <2>1, <2>2 DEF Asking
<1>14. TiesOK'
  <2>. SUFFICES ASSUME NEW n \in Server, NEW c \in Fellow, Here(n, c)', party_id'[c] # 0
                PROVE  (Linked(n, c, party_id[c]) \/ Going(n, c, party_id[c]) \/ Asking(n, c, party_id[c]))'
    BY DEF TiesOK
  <2>1. Here(n, c) /\ party_id[c] # 0 /\ party_id'[c] = party_id[c]
    BY <1>5 DEF Here
  <2>2. PICK q : q = party_id[c]
    OBVIOUS
  <2>3. Linked(n, c, q) \/ Going(n, c, q) \/ Asking(n, c, q)
    BY <2>1, <2>2 DEF PInv, TiesOK
  <2>4. Linked(n, c, q)' \/ Going(n, c, q)' \/ Asking(n, c, q)'
    BY <1>5, <1>12, <1>13, <2>3 DEF Linked
  <2>. QED BY <2>1, <2>2, <2>4 DEF Linked, Going, Asking
<1>15. GrantsOK'
  <2>1. \A n \in Server : Paired(a[n])
    BY <1>3 DEF Tells
  <2>2. ASSUME NEW n \in Server, NEW x, Promised(n, x)
        PROVE  Promised(n, x)'
    BY <1>5, <1>12, <2>2 DEF Promised, Here, Linked
  <2>. QED BY <1>1, <1>3, <1>4, <2>1, <2>2, GrantsGrow DEF PInv
<1>16. ASSUME NEW c \in Fellow, NEW n \in Server, NEW asked, NEW told,
              <<asked, told>> \in {<<"create", "created">>, <<"add", "added">>},
              Awaits(n, c, asked, told)
       PROVE  Awaits(n, c, asked, told)'
  <2>1. CASE \E x \in ToSet(partyToMap[n]) : x.type = told /\ x.c = c
    BY <1>6, <2>1 DEF Awaits
  <2>2. CASE \E x \in ToSet(partyToChar[n]) : x.type = asked /\ x.c = c
    <3>1. PICK x \in ToSet(partyToChar[n]) : x.type = asked /\ x.c = c
      BY <2>2
    <3>2. CASE x \in ToSet(partyToChar'[n])
      BY <3>1, <3>2 DEF Awaits
    <3>3. CASE x = k /\ n = m
      <4>1. \E r \in ToSet(a[n]) : r.type = told /\ r.c = c
        BY <1>3, <1>16, <3>1, <3>3 DEF Replied, Packet
      <4>. QED BY <1>6, <4>1 DEF Awaits
    <3>. QED BY <1>7, <3>1, <3>2, <3>3
  <2>. QED BY <1>16, <2>1, <2>2 DEF Awaits
<1>17. PendingOK'
  <2>. SUFFICES ASSUME NEW c \in Fellow
                PROVE  /\ party_pending'[c] # "no" => c \in in_game'
                       /\ party_pending'[c] = "creating" => Awaits(at[c], c, "create", "created")'
                       /\ party_pending'[c] = "joining" => Awaits(at[c], c, "add", "added")'
    BY <1>5 DEF PendingOK
  <2>1. /\ party_pending[c] # "no" => c \in in_game /\ at[c] \in Server
        /\ party_pending[c] = "creating" => Awaits(at[c], c, "create", "created")
        /\ party_pending[c] = "joining" => Awaits(at[c], c, "add", "added")
    BY DEF PInv, PendingOK, SessionsOK
  <2>2. party_pending[c] = "creating" => Awaits(at[c], c, "create", "created")'
    <3>. DEFINE n == at[c]
    <3>. HIDE DEF n
    <3>1. n \in Server /\ Awaits(n, c, "create", "created") => Awaits(n, c, "create", "created")'
      BY <1>5, <1>16 DEF n
    <3>. QED BY <1>5, <2>1, <3>1 DEF n
  <2>3. party_pending[c] = "joining" => Awaits(at[c], c, "add", "added")'
    <3>. DEFINE n == at[c]
    <3>. HIDE DEF n
    <3>1. n \in Server /\ Awaits(n, c, "add", "added") => Awaits(n, c, "add", "added")'
      BY <1>5, <1>16 DEF n
    <3>. QED BY <1>5, <2>1, <3>1 DEF n
  <2>. QED BY <1>5, <2>1, <2>2, <2>3
<1>. QED BY <1>2, <1>8, <1>9, <1>10, <1>11, <1>14, <1>15, <1>17 DEF PInv

-----------------------------------------------------------------------------
(* What players do *)

LEMMA AskedGrow ==
  ASSUME PacketsTyped, NEW m \in Server, NEW s \in Seq(Requests), ToChar(m, s)
  PROVE  /\ partyToChar' \in [Server -> Seq(Requests)]
         /\ \A n \in Server : ToSet(partyToChar[n]) \subseteq ToSet(partyToChar'[n])
         /\ \A k \in ToSet(s) : k \in ToSet(partyToChar'[m])
<1>1. /\ partyToChar' \in [Server -> Seq(Requests)]
      /\ \A n \in Server : /\ partyToChar[n] \in Seq(Requests)
                           /\ partyToChar'[n] = IF n = m THEN partyToChar[n] \o s ELSE partyToChar[n]
  BY ToCharTyped
<1>. DEFINE S == Requests
            q == partyToChar[m]
<1>2. q \in Seq(S) /\ s \in Seq(S) /\ partyToChar'[m] = q \o s
  BY <1>1
<1>. HIDE DEF S, q
<1>3. ToSet(partyToChar'[m]) = ToSet(q) \cup ToSet(s)
  BY <1>2, PacketsOfBoth
<1>4. \A n \in Server \ {m} : partyToChar'[n] = partyToChar[n]
  BY <1>1
<1>. QED BY <1>1, <1>3, <1>4 DEF q

\* A player asks, or leaves the game, or is made a leader.
FellowStep ==
  /\ Types'
  /\ partyToMap' = partyToMap /\ party_db' = party_db /\ last_party' = last_party
  /\ \A n \in Server : ToSet(partyToChar[n]) \subseteq ToSet(partyToChar'[n])
  /\ \A n \in Server, p \in PartyIds :
       /\ ViewOf(party_copy'[n][p]) = ViewOf(party_copy[n][p])
       /\ DataOf(party_copy'[n][p]) \subseteq DataOf(party_copy[n][p])
       /\ \A c \in in_game' : c \in DataOf(party_copy[n][p]) => c \in DataOf(party_copy'[n][p])
  /\ in_game' \subseteq in_game
  /\ \A c \in in_game' : at'[c] = at[c] /\ party_id'[c] = party_id[c]
  /\ \A c \in Fellow \ in_game : at'[c] = at[c]
  /\ \A c \in Fellow : party_pending'[c] # "no" =>
       /\ c \in in_game'
       /\ \/ party_pending'[c] = party_pending[c]
          \/ /\ party_pending'[c] = "creating"
             /\ \E k \in ToSet(partyToChar'[at[c]]) : k.type = "create" /\ k.c = c
          \/ /\ party_pending'[c] = "joining"
             /\ \E k \in ToSet(partyToChar'[at[c]]) : k.type = "add" /\ k.c = c

LEMMA FellowStepOK ==
  ASSUME PInv, FellowStep
  PROVE  PInv'
<1>1. Types /\ PacketsTyped /\ DbInv
  BY DEF PInv, Types
<1>2. ToMaps(Silence)
  <2>1. \A q \in PartyIds : ViewOf(party_db'[q]) = ViewOf(party_db[q])
    BY DEF FellowStep
  <2>. QED BY <1>1, <2>1, NothingToTell DEF FellowStep
<1>3. /\ Silence \in AnswersTo
      /\ \A n \in Server : Paired(Silence[n]) /\ ToSet(Silence[n]) = {}
  BY SilenceTyped, NonePaired, PacketsOfNone
<1>4. DbInv'
  BY <1>1 DEF DbInv, FellowStep
<1>5. CopiesOK'
  <2>1. \A n \in Server, p \in PartyIds :
           /\ Leads(p, Silence[n], ViewOf(party_db[p]), ViewOf(party_db'[p]))
           /\ ViewOf(party_copy'[n][p]) = ViewOf(party_copy[n][p])
    BY LeadsSilence DEF FellowStep
  <2>. QED BY <1>1, <1>2, <1>3, <2>1, CopiesAppend DEF PInv
<1>6. DataOK'
  BY DEF PInv, DataOK, FellowStep
<1>7. SessionsOK'
  <2>1. \A c \in in_game' : at'[c] \in Server
    BY DEF PInv, SessionsOK, FellowStep
  <2>2. ASSUME NEW n \in Server, NEW k \in ToSet(partyToMap[n]), k.type = "authok"
        PROVE  at'[k.c] = n /\ k.c \notin in_game'
    <3>1. at[k.c] = n /\ k.c \notin in_game
      BY <2>2 DEF PInv, SessionsOK
    <3>2. k.c \in Fellow
      <4>1. partyToMap[n] \in Seq(Answers)
        BY <1>1 DEF PacketsTyped
      <4>2. k \in Answers
        BY <4>1, PacketsAreTyped
      <4>. QED BY <2>2, <4>2, AnswerKinds
    <3>. QED BY <3>1, <3>2 DEF FellowStep
  <2>. QED BY <2>1, <2>2 DEF PInv, SessionsOK, FellowStep
<1>8. ASSUME NEW n \in Server, NEW c, NEW q \in PartyIds
      PROVE  /\ Going(n, c, q) => Going(n, c, q)'
             /\ Asking(n, c, q) => Asking(n, c, q)'
             /\ Here(n, c)' => c \in in_game' /\ Here(n, c)
             /\ c \in in_game' /\ Linked(n, c, q) => Linked(n, c, q)'
  <2>1. Going(n, c, q) => Going(n, c, q)'
    BY DEF Going, FellowStep
  <2>2. Asking(n, c, q) => Asking(n, c, q)'
    BY DEF Asking, FellowStep
  <2>3. Here(n, c)' => c \in in_game' /\ Here(n, c)
    BY DEF Here, FellowStep
  <2>4. c \in in_game' /\ Linked(n, c, q) => Linked(n, c, q)'
    BY DEF Linked, FellowStep
  <2>. QED BY <2>1, <2>2, <2>3, <2>4
<1>9. TiesOK'
  <2>. SUFFICES ASSUME NEW n \in Server, NEW c \in Fellow, Here(n, c)', party_id'[c] # 0
                PROVE  (Linked(n, c, party_id[c]) \/ Going(n, c, party_id[c]) \/ Asking(n, c, party_id[c]))'
    BY DEF TiesOK
  <2>1. Here(n, c) /\ c \in in_game'
    BY DEF Here, FellowStep
  <2>2. party_id'[c] = party_id[c] /\ party_id[c] \in PartyIds
    BY <1>1, <2>1, IdsAreNumbers DEF FellowStep, Types
  <2>3. PICK q \in PartyIds : q = party_id[c]
    BY <2>2
  <2>4. Linked(n, c, q) \/ Going(n, c, q) \/ Asking(n, c, q)
    BY <2>1, <2>2, <2>3, IdsAreNumbers DEF PInv, TiesOK
  <2>5. Linked(n, c, q)' \/ Going(n, c, q)' \/ Asking(n, c, q)'
    BY <1>8, <2>1, <2>4
  <2>. QED BY <2>2, <2>3, <2>5 DEF Linked, Going, Asking
<1>10. GrantsOK'
  <2>1. ASSUME NEW n \in Server, NEW k \in Answers, Grants(k), Promised(n, k)
        PROVE  Promised(n, k)'
    <3>1. k.p \in PartyIds
      BY <2>1, AnswerKinds, IdsAreNumbers DEF Grants
    <3>. DEFINE c == k.c
                q == k.p
    <3>. HIDE DEF c, q
    <3>2. /\ Going(n, c, q) => Going(n, c, q)'
          /\ Here(n, c)' => c \in in_game' /\ Here(n, c)
          /\ c \in in_game' /\ Linked(n, c, q) => Linked(n, c, q)'
      BY <1>8, <3>1 DEF q
    <3>3. (Here(n, c) => Linked(n, c, q) \/ Going(n, c, q))
      BY <2>1 DEF Promised, c, q
    <3>4. (Here(n, c)' => Linked(n, c, q)' \/ Going(n, c, q)')
      BY <3>2, <3>3
    <3>. QED BY <3>4 DEF Promised, c, q
  <2>. QED BY <1>1, <1>2, <1>3, <2>1, GrantsGrow DEF PInv
<1>11. PendingOK'
  <2>. SUFFICES ASSUME NEW c \in Fellow, party_pending'[c] # "no"
                PROVE  /\ c \in in_game'
                       /\ party_pending'[c] = "creating" => Awaits(at[c], c, "create", "created")'
                       /\ party_pending'[c] = "joining" => Awaits(at[c], c, "add", "added")'
    BY DEF PendingOK
  <2>1. c \in in_game' /\ at'[c] = at[c] /\ at[c] \in Server
    BY DEF FellowStep, PInv, SessionsOK
  <2>2. ASSUME NEW asked, NEW told, Awaits(at[c], c, asked, told)
        PROVE  Awaits(at[c], c, asked, told)'
    <3>. DEFINE n == at[c]
    <3>1. ToSet(partyToChar[n]) \subseteq ToSet(partyToChar'[n]) /\ partyToMap'[n] = partyToMap[n]
      BY <2>1 DEF FellowStep
    <3>2. at'[c] = n
      BY <2>1
    <3>. QED BY <2>2, <3>1, <3>2 DEF Awaits
  <2>3. CASE party_pending'[c] = party_pending[c]
    BY <2>1, <2>2, <2>3 DEF PInv, PendingOK
  <2>4. CASE /\ party_pending'[c] = "creating"
             /\ \E k \in ToSet(partyToChar'[at[c]]) : k.type = "create" /\ k.c = c
    BY <2>1, <2>4 DEF Awaits
  <2>5. CASE /\ party_pending'[c] = "joining"
             /\ \E k \in ToSet(partyToChar'[at[c]]) : k.type = "add" /\ k.c = c
    BY <2>1, <2>5 DEF Awaits
  <2>. QED BY <2>1, <2>3, <2>4, <2>5 DEF FellowStep
<1>. QED BY <1>4, <1>5, <1>6, <1>7, <1>9, <1>10, <1>11 DEF PInv, FellowStep

LEMMA ActsOK ==
  ASSUME PInv, NEW c \in Fellow, Acts(c)
  PROVE  /\ Types /\ PacketsTyped
         /\ c \in in_game /\ at[c] \in Server /\ acts' \in 0 .. MaxActs
         /\ party_id[c] \in 0 .. MaxParties /\ level[c] \in 1 .. TopLevel
         /\ CopyOf(c) # NoParty => party_id[c] \in PartyIds
         /\ party_id[c] # 0 => party_id[c] \in PartyIds /\ CopyOf(c) = party_copy[at[c]][party_id[c]]
<1>1. Types /\ PacketsTyped /\ c \in in_game
  BY DEF PInv, Types, Acts
<1>2. at[c] \in Server
  BY <1>1 DEF PInv, SessionsOK
<1>3. acts' \in 0 .. MaxActs
  <2>1. acts \in 0 .. MaxActs /\ acts < MaxActs /\ acts' = acts + 1 /\ MaxActs \in Nat
    BY <1>1, PartyAssumption DEF Types, Acts
  <2>. QED BY <2>1
<1>4. party_id[c] \in 0 .. MaxParties /\ level[c] \in 1 .. TopLevel
  BY <1>1 DEF Types
<1>. QED BY <1>1, <1>2, <1>3, <1>4, IdsAreNumbers DEF CopyOf

LEMMA OneAsked ==
  ASSUME PacketsTyped, NEW m \in Server, NEW k \in Requests, ToChar(m, <<k>>)
  PROVE  /\ partyToChar' \in [Server -> Seq(Requests)]
         /\ \A n \in Server : ToSet(partyToChar[n]) \subseteq ToSet(partyToChar'[n])
         /\ k \in ToSet(partyToChar'[m])
<1>. DEFINE S == Requests
            s == <<k>>
<1>1. k \in S
  OBVIOUS
<1>2. s \in Seq(S) /\ ToSet(s) = {k}
  <2>. HIDE DEF S
  <2>. QED BY <1>1, PacketsOfOne
<1>3. s \in Seq(Requests) /\ ToChar(m, s)
  BY <1>2
<1>. HIDE DEF s
<1>. QED BY <1>2, <1>3, AskedGrow

\* A player that stays where it is asks, and no copy changes.
LEMMA FellowAsks ==
  ASSUME PInv, NEW c \in Fellow, Acts(c),
         UNCHANGED <<party_db, party_row, cached, last_party, at, in_game, party_id, party_copy, partyToMap>>,
         partyToChar' \in [Server -> Seq(Requests)],
         \A n \in Server : ToSet(partyToChar[n]) \subseteq ToSet(partyToChar'[n]),
         level' \in [Fellow -> 1 .. TopLevel],
         party_invite' \in [Fellow -> 0 .. MaxParties],
         \/ party_pending' = party_pending
         \/ /\ party_pending' = [party_pending EXCEPT ![c] = "creating"]
            /\ \E k \in ToSet(partyToChar'[at[c]]) : k.type = "create" /\ k.c = c
         \/ /\ party_pending' = [party_pending EXCEPT ![c] = "joining"]
            /\ \E k \in ToSet(partyToChar'[at[c]]) : k.type = "add" /\ k.c = c
  PROVE  PInv'
<1>1. /\ party_db' = party_db /\ party_row' = party_row /\ cached' = cached /\ last_party' = last_party
      /\ at' = at /\ in_game' = in_game /\ party_id' = party_id /\ party_copy' = party_copy
      /\ partyToMap' = partyToMap
  OBVIOUS
<1>2. Types /\ PacketsTyped /\ c \in in_game /\ acts' \in 0 .. MaxActs
  BY ActsOK
<1>3. party_pending' \in [Fellow -> {"no", "creating", "joining"}]
  BY <1>2 DEF Types
<1>4. Types'
  <2>1. PacketsTyped'
    BY <1>1, <1>2 DEF PacketsTyped
  <2>. QED BY <1>1, <1>2, <1>3, <2>1 DEF Types
<1>5. \A d \in Fellow : party_pending[d] # "no" => d \in in_game
  BY DEF PInv, PendingOK
<1>6. ASSUME NEW d \in Fellow, party_pending'[d] # "no"
      PROVE  /\ d \in in_game'
             /\ \/ party_pending'[d] = party_pending[d]
                \/ /\ party_pending'[d] = "creating"
                   /\ \E k \in ToSet(partyToChar'[at[d]]) : k.type = "create" /\ k.c = d
                \/ /\ party_pending'[d] = "joining"
                   /\ \E k \in ToSet(partyToChar'[at[d]]) : k.type = "add" /\ k.c = d
  <2>1. CASE d = c
    BY <1>1, <1>2, <1>6, <2>1 DEF Types
  <2>2. CASE d # c
    <3>1. party_pending'[d] = party_pending[d]
      BY <1>2, <2>2 DEF Types
    <3>. QED BY <1>1, <1>5, <1>6, <3>1
  <2>. QED BY <2>1, <2>2
<1>7. FellowStep
  BY <1>1, <1>4, <1>6 DEF FellowStep
<1>. QED BY <1>7, FellowStepOK

LEMMA MovedAsked ==
  ASSUME PInv, NEW c \in Fellow, Acts(c), NEW lv \in 1 .. TopLevel, NEW elsewhere \in BOOLEAN,
         ToChar(at[c], Moved(c, TRUE, lv, elsewhere))
  PROVE  /\ partyToChar' \in [Server -> Seq(Requests)]
         /\ \A n \in Server : ToSet(partyToChar[n]) \subseteq ToSet(partyToChar'[n])
<1>1. PacketsTyped /\ at[c] \in Server /\ (party_id[c] # 0 => party_id[c] \in PartyIds)
  BY ActsOK
<1>2. CASE party_id[c] = 0
  <2>. DEFINE s == <<>>
  <2>1. ToChar(at[c], s) /\ s \in Seq(Requests)
    BY <1>2 DEF Moved
  <2>. HIDE DEF s
  <2>. QED BY <1>1, <2>1, AskedGrow
<1>3. CASE party_id[c] # 0
  <2>. DEFINE x == [online |-> TRUE, lv |-> lv, elsewhere |-> elsewhere]
              k == Packet("change", party_id[c], c, x)
  <2>1. x \in MovedOf
    BY DEF MovedOf
  <2>2. ToChar(at[c], <<k>>)
    BY <1>3 DEF Moved
  <2>. HIDE DEF x
  <2>3. k \in Requests
    BY <1>1, <1>3, <2>1, RequestsTyped
  <2>. HIDE DEF k
  <2>. QED BY <1>1, <2>2, <2>3, OneAsked
<1>. QED BY <1>2, <1>3

LEMMA AsksOK ==
  ASSUME PInv, NEW c \in Fellow,
         \/ PartyCreate(c)
         \/ \E d \in Fellow : PartyInvite(c, d) \/ PartyLeave(c, d)
         \/ \E b \in BOOLEAN : ReplyInvite(c, b) \/ PartyOption(c, b) \/ PartyMoves(c, b)
         \/ \E lv \in 1 .. TopLevel : LevelUp(c, lv)
         \/ PartyAutosave(c)
  PROVE  PInv'
<1>1. CASE PartyCreate(c)
  <2>1. Acts(c) /\ at' = at /\ level' = level /\ in_game' = in_game /\ party_id' = party_id
        /\ party_invite' = party_invite /\ party_copy' = party_copy /\ partyToMap' = partyToMap
        /\ party_db' = party_db /\ party_row' = party_row /\ cached' = cached /\ last_party' = last_party
        /\ party_pending' = [party_pending EXCEPT ![c] = "creating"]
    BY <1>1 DEF PartyCreate, charParties
  <2>2. Types /\ PacketsTyped /\ at[c] \in Server /\ level[c] \in 1 .. TopLevel
    BY <2>1, ActsOK
  <2>. DEFINE k == Packet("create", 0, c, level[c])
  <2>3. k \in Requests /\ k.type = "create" /\ k.c = c
    BY <2>2, RequestsTyped DEF Packet
  <2>4. ToChar(at[c], <<k>>)
    BY <1>1 DEF PartyCreate
  <2>. HIDE DEF k
  <2>5. /\ partyToChar' \in [Server -> Seq(Requests)]
        /\ \A n \in Server : ToSet(partyToChar[n]) \subseteq ToSet(partyToChar'[n])
        /\ k \in ToSet(partyToChar'[at[c]])
    BY <2>2, <2>3, <2>4, OneAsked
  <2>6. level' \in [Fellow -> 1 .. TopLevel] /\ party_invite' \in [Fellow -> 0 .. MaxParties]
    BY <2>1, <2>2 DEF Types
  <2>. QED BY <2>1, <2>3, <2>5, <2>6, FellowAsks
<1>2. ASSUME NEW d \in Fellow, PartyInvite(c, d) PROVE PInv'
  <2>1. Acts(c) /\ at' = at /\ level' = level /\ in_game' = in_game /\ party_id' = party_id
        /\ party_copy' = party_copy /\ partyToMap' = partyToMap
        /\ party_db' = party_db /\ party_row' = party_row /\ cached' = cached /\ last_party' = last_party
        /\ party_pending' = party_pending /\ partyToChar' = partyToChar
        /\ party_invite' = [party_invite EXCEPT ![d] = party_id[c]]
    BY <1>2 DEF PartyInvite, charParties
  <2>2. Types /\ PacketsTyped
    BY <2>1, ActsOK
  <2>3. partyToChar' \in [Server -> Seq(Requests)]
    BY <2>1, <2>2 DEF PacketsTyped
  <2>4. level' \in [Fellow -> 1 .. TopLevel] /\ party_invite' \in [Fellow -> 0 .. MaxParties]
    BY <2>1, <2>2 DEF Types
  <2>. QED BY <2>1, <2>3, <2>4, FellowAsks
<1>3. ASSUME NEW d \in Fellow, PartyLeave(c, d) PROVE PInv'
  <2>1. Acts(c) /\ at' = at /\ level' = level /\ in_game' = in_game /\ party_id' = party_id
        /\ party_copy' = party_copy /\ partyToMap' = partyToMap
        /\ party_db' = party_db /\ party_row' = party_row /\ cached' = cached /\ last_party' = last_party
        /\ party_pending' = party_pending /\ party_invite' = party_invite
    BY <1>3 DEF PartyLeave, charParties, sessions
  <2>2. Types /\ PacketsTyped /\ at[c] \in Server /\ party_id[c] \in PartyIds
    BY <1>3, <2>1, ActsOK DEF PartyLeave
  <2>. DEFINE k == Packet("leave", party_id[c], d, 0)
  <2>3. k \in Requests
    BY <2>2, RequestsTyped
  <2>4. ToChar(at[c], <<k>>)
    BY <1>3 DEF PartyLeave
  <2>. HIDE DEF k
  <2>5. /\ partyToChar' \in [Server -> Seq(Requests)]
        /\ \A n \in Server : ToSet(partyToChar[n]) \subseteq ToSet(partyToChar'[n])
    BY <2>2, <2>3, <2>4, OneAsked
  <2>6. level' \in [Fellow -> 1 .. TopLevel] /\ party_invite' \in [Fellow -> 0 .. MaxParties]
    BY <2>1, <2>2 DEF Types
  <2>. QED BY <2>1, <2>5, <2>6, FellowAsks
<1>4. ASSUME NEW b \in BOOLEAN, ReplyInvite(c, b) PROVE PInv'
  <2>1. Acts(c) /\ at' = at /\ level' = level /\ in_game' = in_game /\ party_id' = party_id
        /\ party_copy' = party_copy /\ partyToMap' = partyToMap /\ party_invite[c] # 0
        /\ party_db' = party_db /\ party_row' = party_row /\ cached' = cached /\ last_party' = last_party
    BY <1>4 DEF ReplyInvite, charParties
  <2>2. /\ Types /\ PacketsTyped /\ at[c] \in Server /\ level[c] \in 1 .. TopLevel
        /\ party_invite[c] \in PartyIds
    BY <2>1, ActsOK, IdsAreNumbers DEF Types
  <2>3. level' \in [Fellow -> 1 .. TopLevel]
    BY <2>1, <2>2 DEF Types
  <2>. DEFINE k == Packet("add", party_invite[c], c, level[c])
  <2>4. CASE /\ party_pending' = [party_pending EXCEPT ![c] = "joining"]
             /\ ToChar(at[c], <<k>>) /\ party_invite' = party_invite
    <3>1. k \in Requests /\ k.type = "add" /\ k.c = c
      BY <2>2, RequestsTyped DEF Packet
    <3>. HIDE DEF k
    <3>2. /\ partyToChar' \in [Server -> Seq(Requests)]
          /\ \A n \in Server : ToSet(partyToChar[n]) \subseteq ToSet(partyToChar'[n])
          /\ k \in ToSet(partyToChar'[at[c]])
      BY <2>2, <2>4, <3>1, OneAsked
    <3>3. party_invite' \in [Fellow -> 0 .. MaxParties]
      BY <2>2, <2>4 DEF Types
    <3>. QED BY <2>1, <2>3, <2>4, <3>1, <3>2, <3>3, FellowAsks
  <2>5. CASE /\ party_invite' = [party_invite EXCEPT ![c] = 0]
             /\ party_pending' = party_pending /\ partyToChar' = partyToChar
    <3>1. party_invite' \in [Fellow -> 0 .. MaxParties] /\ partyToChar' \in [Server -> Seq(Requests)]
      BY <2>2, <2>5, IdsAreNumbers DEF Types, PacketsTyped
    <3>. QED BY <2>1, <2>3, <2>5, <3>1, FellowAsks
  <2>. QED BY <1>4, <2>4, <2>5 DEF ReplyInvite
<1>5. ASSUME NEW b \in BOOLEAN, PartyOption(c, b) PROVE PInv'
  <2>1. Acts(c) /\ at' = at /\ level' = level /\ in_game' = in_game /\ party_id' = party_id
        /\ party_copy' = party_copy /\ partyToMap' = partyToMap
        /\ party_db' = party_db /\ party_row' = party_row /\ cached' = cached /\ last_party' = last_party
        /\ party_pending' = party_pending /\ party_invite' = party_invite
    BY <1>5 DEF PartyOption, charParties, sessions
  <2>2. Types /\ PacketsTyped /\ at[c] \in Server /\ party_id[c] \in PartyIds
    BY <1>5, <2>1, ActsOK DEF PartyOption
  <2>. DEFINE k == Packet("option", party_id[c], c, b)
  <2>3. k \in Requests
    BY <2>2, RequestsTyped
  <2>4. ToChar(at[c], <<k>>)
    BY <1>5 DEF PartyOption
  <2>. HIDE DEF k
  <2>5. /\ partyToChar' \in [Server -> Seq(Requests)]
        /\ \A n \in Server : ToSet(partyToChar[n]) \subseteq ToSet(partyToChar'[n])
    BY <2>2, <2>3, <2>4, OneAsked
  <2>6. level' \in [Fellow -> 1 .. TopLevel] /\ party_invite' \in [Fellow -> 0 .. MaxParties]
    BY <2>1, <2>2 DEF Types
  <2>. QED BY <2>1, <2>5, <2>6, FellowAsks
<1>6. ASSUME NEW b \in BOOLEAN, PartyMoves(c, b) PROVE PInv'
  <2>1. Acts(c) /\ at' = at /\ level' = level /\ in_game' = in_game /\ party_id' = party_id
        /\ party_copy' = party_copy /\ partyToMap' = partyToMap
        /\ party_db' = party_db /\ party_row' = party_row /\ cached' = cached /\ last_party' = last_party
        /\ party_pending' = party_pending /\ party_invite' = party_invite
        /\ ToChar(at[c], Moved(c, TRUE, level[c], b))
    BY <1>6 DEF PartyMoves, charParties, sessions
  <2>2. Types /\ level[c] \in 1 .. TopLevel
    BY <2>1, ActsOK
  <2>3. /\ partyToChar' \in [Server -> Seq(Requests)]
        /\ \A n \in Server : ToSet(partyToChar[n]) \subseteq ToSet(partyToChar'[n])
    BY <2>1, <2>2, MovedAsked
  <2>4. level' \in [Fellow -> 1 .. TopLevel] /\ party_invite' \in [Fellow -> 0 .. MaxParties]
    BY <2>1, <2>2 DEF Types
  <2>. QED BY <2>1, <2>3, <2>4, FellowAsks
<1>7. ASSUME NEW lv \in 1 .. TopLevel, LevelUp(c, lv) PROVE PInv'
  <2>1. Acts(c) /\ at' = at /\ in_game' = in_game /\ party_id' = party_id
        /\ party_copy' = party_copy /\ partyToMap' = partyToMap
        /\ party_db' = party_db /\ party_row' = party_row /\ cached' = cached /\ last_party' = last_party
        /\ party_pending' = party_pending /\ party_invite' = party_invite
        /\ level' = [level EXCEPT ![c] = lv]
        /\ ToChar(at[c], Moved(c, TRUE, lv, FALSE))
    BY <1>7 DEF LevelUp, charParties
  <2>2. Types
    BY <2>1, ActsOK
  <2>3. /\ partyToChar' \in [Server -> Seq(Requests)]
        /\ \A n \in Server : ToSet(partyToChar[n]) \subseteq ToSet(partyToChar'[n])
    BY <2>1, MovedAsked
  <2>4. level' \in [Fellow -> 1 .. TopLevel] /\ party_invite' \in [Fellow -> 0 .. MaxParties]
    BY <2>1, <2>2 DEF Types
  <2>. QED BY <2>1, <2>3, <2>4, FellowAsks
<1>8. CASE PartyAutosave(c)
  <2>1. Acts(c) /\ at' = at /\ level' = level /\ in_game' = in_game /\ party_id' = party_id
        /\ party_copy' = party_copy /\ partyToMap' = partyToMap
        /\ party_db' = party_db /\ party_row' = party_row /\ cached' = cached /\ last_party' = last_party
        /\ party_pending' = party_pending /\ party_invite' = party_invite
    BY <1>8 DEF PartyAutosave, charParties, sessions
  <2>2. Types /\ PacketsTyped /\ at[c] \in Server /\ party_id[c] \in 0 .. MaxParties
    BY <2>1, ActsOK
  <2>. DEFINE k == Packet("save", party_id[c], c, FALSE)
  <2>3. k \in Requests
    BY <2>2, RequestsTyped
  <2>4. ToChar(at[c], <<k>>)
    BY <1>8 DEF PartyAutosave
  <2>. HIDE DEF k
  <2>5. /\ partyToChar' \in [Server -> Seq(Requests)]
        /\ \A n \in Server : ToSet(partyToChar[n]) \subseteq ToSet(partyToChar'[n])
    BY <2>2, <2>3, <2>4, OneAsked
  <2>6. level' \in [Fellow -> 1 .. TopLevel] /\ party_invite' \in [Fellow -> 0 .. MaxParties]
    BY <2>1, <2>2 DEF Types
  <2>. QED BY <2>1, <2>5, <2>6, FellowAsks
<1>. QED BY <1>1, <1>2, <1>3, <1>4, <1>5, <1>6, <1>7, <1>8

\* One copy of a map-server becomes Q.
LEMMA CopyBecomes ==
  ASSUME Types, NEW m \in Server, NEW p \in PartyIds, NEW Q \in MapParty \cup {NoParty},
         party_copy' = [party_copy EXCEPT ![m][p] = Q]
  PROVE  /\ party_copy' \in [Server -> [PartyIds -> MapParty \cup {NoParty}]]
         /\ \A n \in Server \ {m} : party_copy'[n] = party_copy[n]
         /\ party_copy'[m][p] = Q
         /\ \A q \in PartyIds \ {p} : party_copy'[m][q] = party_copy[m][q]
BY DEF Types

LEMMA CopyRecord ==
  ASSUME NEW Q \in MapParty
  PROVE  /\ Q # NoParty /\ DataOf(Q) = Q.data
         /\ ViewOf(Q) = View(Q.member, Q.exp) /\ ViewOf(Q) \in Views
         /\ ViewOf(Q).member = Q.member /\ ViewOf(Q).known /\ ViewOf(Q).exp = Q.exp
         /\ Q.member \in SUBSET Fellow /\ Q.exp \in BOOLEAN /\ Q.data \in SUBSET Fellow
         /\ Q.leader \in Fellow \cup {Leaderless}
<1>1. Q # NoParty
  BY NoPartyAssumption
<1>2. /\ Q.member \in SUBSET Fellow /\ Q.exp \in BOOLEAN /\ Q.data \in SUBSET Fellow
      /\ Q.leader \in Fellow \cup {Leaderless}
  BY DEF MapParty
<1>3. ViewOf(Q) = View(Q.member, Q.exp)
  BY <1>1 DEF ViewOf, View
<1>. QED BY <1>1, <1>2, <1>3, ViewsOf DEF DataOf

LEMMA LeaderOK ==
  ASSUME PInv, NEW c \in Fellow, NEW d \in Fellow, ChangeLeader(c, d)
  PROVE  PInv'
<1>. DEFINE m == at[c]
            p == party_id[c]
            P == party_copy[m][p]
            Q == [P EXCEPT !.leader = d]
<1>1. /\ Acts(c) /\ at' = at /\ level' = level /\ in_game' = in_game /\ party_id' = party_id
      /\ partyToMap' = partyToMap /\ party_pending' = party_pending /\ party_invite' = party_invite
      /\ party_db' = party_db /\ party_row' = party_row /\ cached' = cached /\ last_party' = last_party
      /\ CopyOf(c) # NoParty /\ ToChar(m, <<Packet("leader", p, d, 0)>>)
  BY DEF ChangeLeader, charParties, sessions
<1>2. /\ Types /\ PacketsTyped /\ m \in Server /\ p \in PartyIds /\ acts' \in 0 .. MaxActs
      /\ CopyOf(c) = P
  BY <1>1, ActsOK, IdsAreNumbers
<1>3. P \in MapParty
  BY <1>1, <1>2, CopyView
<1>4. Q \in MapParty /\ Q.member = P.member /\ Q.exp = P.exp /\ Q.data = P.data
  <2>. HIDE DEF P
  <2>. QED BY <1>3 DEF MapParty
<1>5. party_copy' = [party_copy EXCEPT ![m][p] = Q]
  BY DEF ChangeLeader
<1>. HIDE DEF Q
<1>6. /\ party_copy' \in [Server -> [PartyIds -> MapParty \cup {NoParty}]]
      /\ \A n \in Server \ {m} : party_copy'[n] = party_copy[n]
      /\ party_copy'[m][p] = Q
      /\ \A q \in PartyIds \ {p} : party_copy'[m][q] = party_copy[m][q]
  <2>. HIDE DEF m, p
  <2>. QED BY <1>2, <1>4, <1>5, CopyBecomes
<1>7. ViewOf(Q) = ViewOf(P) /\ DataOf(Q) = DataOf(P)
  <2>. HIDE DEF P
  <2>. QED BY <1>3, <1>4, CopyRecord
<1>8. ASSUME NEW n \in Server, NEW q \in PartyIds
      PROVE  ViewOf(party_copy'[n][q]) = ViewOf(party_copy[n][q])
             /\ DataOf(party_copy'[n][q]) = DataOf(party_copy[n][q])
  <2>1. CASE n = m /\ q = p
    BY <1>6, <1>7, <2>1
  <2>2. CASE ~(n = m /\ q = p)
    <3>1. party_copy'[n][q] = party_copy[n][q]
      <4>. HIDE DEF m, p
      <4>. QED BY <1>6, <2>2
    <3>. QED BY <3>1
  <2>. QED BY <2>1, <2>2
<1>9. /\ partyToChar' \in [Server -> Seq(Requests)]
      /\ \A n \in Server : ToSet(partyToChar[n]) \subseteq ToSet(partyToChar'[n])
  <2>. DEFINE k == Packet("leader", p, d, 0)
  <2>1. k \in Requests /\ ToChar(m, <<k>>)
    BY <1>1, <1>2, RequestsTyped
  <2>. HIDE DEF k, m
  <2>. QED BY <1>2, <2>1, OneAsked
<1>10. Types'
  <2>1. PacketsTyped'
    BY <1>1, <1>2, <1>9 DEF PacketsTyped
  <2>. QED BY <1>1, <1>2, <1>6, <2>1 DEF Types
<1>11. \A e \in Fellow : party_pending[e] # "no" => e \in in_game
  BY DEF PInv, PendingOK
<1>12. FellowStep
  BY <1>1, <1>8, <1>9, <1>10, <1>11 DEF FellowStep
<1>. QED BY <1>12, FellowStepOK

LEMMA LogoutOK ==
  ASSUME PInv, NEW c \in Fellow, PartyQuit(c)
  PROVE  PInv'
<1>. DEFINE m == at[c]
            p == party_id[c]
            P == party_copy[m][p]
            D == P.data \ {c}
            Q == [P EXCEPT !.data = D]
<1>1. /\ Acts(c) /\ level' = level /\ partyToMap' = partyToMap
      /\ party_db' = party_db /\ party_row' = party_row /\ cached' = cached /\ last_party' = last_party
      /\ in_game' = in_game \ {c}
      /\ at' = [at EXCEPT ![c] = Offline]
      /\ party_id' = [party_id EXCEPT ![c] = 0]
      /\ party_invite' = [party_invite EXCEPT ![c] = 0]
      /\ party_pending' = [party_pending EXCEPT ![c] = "no"]
  BY DEF PartyQuit, charParties
<1>2. /\ Types /\ PacketsTyped /\ m \in Server /\ p \in 0 .. MaxParties /\ acts' \in 0 .. MaxActs
      /\ c \in in_game /\ level[c] \in 1 .. TopLevel
      /\ p # 0 => p \in PartyIds /\ CopyOf(c) = P
      /\ CopyOf(c) # NoParty => p \in PartyIds
  BY <1>1, ActsOK
<1>3. /\ party_copy' \in [Server -> [PartyIds -> MapParty \cup {NoParty}]]
      /\ \A n \in Server, q \in PartyIds :
           /\ ViewOf(party_copy'[n][q]) = ViewOf(party_copy[n][q])
           /\ DataOf(party_copy'[n][q]) \subseteq DataOf(party_copy[n][q])
           /\ \A d \in Fellow \ {c} : d \in DataOf(party_copy[n][q]) => d \in DataOf(party_copy'[n][q])
  <2>1. CASE CopyOf(c) = NoParty
    <3>1. party_copy' = party_copy
      BY <2>1 DEF PartyQuit
    <3>. QED BY <1>2, <3>1 DEF Types
  <2>2. CASE CopyOf(c) # NoParty
    <3>1. p \in PartyIds /\ P # NoParty
      BY <1>2, <2>2, IdsAreNumbers
    <3>2. P \in MapParty
      BY <1>2, <3>1, CopyView
    <3>3. Q \in MapParty /\ Q.member = P.member /\ Q.exp = P.exp /\ Q.data = P.data \ {c}
      <4>1. D \in SUBSET Fellow
        BY <3>2 DEF MapParty
      <4>2. Q \in MapParty /\ Q.member = P.member /\ Q.exp = P.exp /\ Q.data = D
        <5>. HIDE DEF P, D
        <5>. QED BY <3>2, <4>1 DEF MapParty
      <4>. QED BY <4>2
    <3>4. party_copy' = [party_copy EXCEPT ![m][p] = Q]
      BY <2>2 DEF PartyQuit
    <3>. HIDE DEF Q
    <3>5. /\ party_copy' \in [Server -> [PartyIds -> MapParty \cup {NoParty}]]
          /\ \A n \in Server \ {m} : party_copy'[n] = party_copy[n]
          /\ party_copy'[m][p] = Q
          /\ \A q \in PartyIds \ {p} : party_copy'[m][q] = party_copy[m][q]
      <4>. HIDE DEF m, p
      <4>. QED BY <1>2, <3>1, <3>3, <3>4, CopyBecomes
    <3>6. ViewOf(Q) = ViewOf(P) /\ DataOf(Q) = DataOf(P) \ {c}
      <4>. HIDE DEF P
      <4>. QED BY <3>2, <3>3, CopyRecord
    <3>7. ASSUME NEW n \in Server, NEW q \in PartyIds
          PROVE  /\ ViewOf(party_copy'[n][q]) = ViewOf(party_copy[n][q])
                 /\ DataOf(party_copy'[n][q]) \subseteq DataOf(party_copy[n][q])
                 /\ \A d \in Fellow \ {c} : d \in DataOf(party_copy[n][q]) => d \in DataOf(party_copy'[n][q])
      <4>1. CASE n = m /\ q = p
        BY <3>5, <3>6, <4>1
      <4>2. CASE ~(n = m /\ q = p)
        <5>1. party_copy'[n][q] = party_copy[n][q]
          <6>. HIDE DEF m, p
          <6>. QED BY <3>5, <4>2
        <5>. QED BY <5>1
      <4>. QED BY <4>1, <4>2
    <3>. QED BY <3>5, <3>7
  <2>. QED BY <2>1, <2>2
<1>4. /\ partyToChar' \in [Server -> Seq(Requests)]
      /\ \A n \in Server : ToSet(partyToChar[n]) \subseteq ToSet(partyToChar'[n])
  <2>. DEFINE k == Packet("save", p, c, TRUE)
              s == <<k>>
              t == Moved(c, FALSE, level[c], FALSE)
              x == [online |-> FALSE, lv |-> level[c], elsewhere |-> FALSE]
              l == Packet("change", p, c, x)
  <2>1. k \in Requests
    BY <1>2, RequestsTyped
  <2>2. s \in Seq(Requests)
    <3>. HIDE DEF k
    <3>. QED BY <2>1
  <2>3. t \in Seq(Requests)
    <3>1. CASE p = 0
      <4>1. t = <<>>
        BY <3>1 DEF Moved
      <4>. HIDE DEF t
      <4>2. <<>> \in Seq(Requests)
        OBVIOUS
      <4>. QED BY <4>1, <4>2
    <3>2. CASE p # 0
      <4>1. x \in MovedOf
        BY <1>2 DEF MovedOf
      <4>2. t = <<l>>
        BY <3>2 DEF Moved
      <4>. HIDE DEF x
      <4>3. l \in Requests
        BY <1>2, <3>2, <4>1, RequestsTyped
      <4>. HIDE DEF l, t
      <4>. QED BY <4>2, <4>3
    <3>. HIDE DEF t
    <3>. QED BY <3>1, <3>2
  <2>4. ToChar(m, s \o t)
    BY DEF PartyQuit
  <2>. DEFINE r == s \o t
  <2>. HIDE DEF s, t
  <2>5. r \in Seq(Requests) /\ ToChar(m, r)
    BY <2>2, <2>3, <2>4
  <2>. HIDE DEF r, m
  <2>. QED BY <1>2, <2>5, AskedGrow
<1>5. Types'
  <2>1. PacketsTyped'
    BY <1>1, <1>2, <1>4 DEF PacketsTyped
  <2>2. /\ at' \in [Fellow -> Server \cup {Offline}] /\ party_id' \in [Fellow -> 0 .. MaxParties]
        /\ party_invite' \in [Fellow -> 0 .. MaxParties] /\ in_game' \subseteq Fellow
        /\ party_pending' \in [Fellow -> {"no", "creating", "joining"}]
    BY <1>1, <1>2, IdsAreNumbers DEF Types
  <2>. QED BY <1>1, <1>2, <1>3, <2>1, <2>2 DEF Types
<1>6. ASSUME NEW d \in Fellow, d # c
      PROVE  /\ at'[d] = at[d] /\ party_id'[d] = party_id[d] /\ party_pending'[d] = party_pending[d]
             /\ d \in in_game' <=> d \in in_game
             /\ party_pending[d] # "no" => d \in in_game
  BY <1>1, <1>2, <1>6 DEF Types, PInv, PendingOK
<1>7. party_pending'[c] = "no" /\ c \notin in_game'
  BY <1>1, <1>2 DEF Types
<1>8. in_game' \subseteq Fellow \ {c}
  BY <1>1, <1>2 DEF Types
<1>9. FellowStep
  <2>1. \A d \in Fellow : party_pending'[d] # "no" =>
          d \in in_game' /\ party_pending'[d] = party_pending[d]
    BY <1>6, <1>7
  <2>2. \A d \in in_game' : at'[d] = at[d] /\ party_id'[d] = party_id[d]
    BY <1>6, <1>8
  <2>3. \A d \in Fellow \ in_game : at'[d] = at[d]
    BY <1>2, <1>6
  <2>4. \A n \in Server, q \in PartyIds :
           /\ ViewOf(party_copy'[n][q]) = ViewOf(party_copy[n][q])
           /\ DataOf(party_copy'[n][q]) \subseteq DataOf(party_copy[n][q])
           /\ \A d \in in_game' : d \in DataOf(party_copy[n][q]) => d \in DataOf(party_copy'[n][q])
    BY <1>3, <1>8
  <2>. QED BY <1>1, <1>4, <1>5, <2>1, <2>2, <2>3, <2>4 DEF FellowStep
<1>. QED BY <1>9, FellowStepOK

LEMMA LoginOK ==
  ASSUME PInv, NEW c \in Fellow, NEW m \in Server, PartyLogin(c, m)
  PROVE  PInv'
<1>1. /\ at[c] = Offline /\ at' = [at EXCEPT ![c] = m]
      /\ party_db' = party_db /\ party_row' = party_row /\ last_party' = last_party
      /\ level' = level /\ in_game' = in_game /\ party_id' = party_id
      /\ party_invite' = party_invite /\ party_pending' = party_pending
      /\ party_copy' = party_copy /\ partyToChar' = partyToChar /\ acts' = acts
  BY DEF PartyLogin
<1>2. Types /\ PacketsTyped /\ DbInv
  BY DEF PInv, Types
<1>3. PICK p \in {party_row[c], cached[c]} :
        /\ cached' = [cached EXCEPT ![c] = p]
        /\ partyToMap' = [partyToMap EXCEPT ![m] = Append(@, Packet("authok", p, c, 0))]
  BY DEF PartyLogin
<1>4. p \in 0 .. MaxParties
  BY <1>2 DEF Types
<1>. DEFINE k == Packet("authok", p, c, 0)
            a == To({m}, k)
<1>5. k \in Answers /\ k.type = "authok" /\ k.c = c
  BY <1>4, AnswersTyped DEF Packet
<1>6. partyToMap' = [partyToMap EXCEPT ![m] = Append(@, k)]
  BY <1>3
<1>. HIDE DEF k
<1>7. /\ a \in AnswersTo
      /\ a[m] = <<k>>
      /\ \A n \in Server : n # m => a[n] = <<>>
      /\ \A n \in Server : \A x \in ToSet(a[n]) : x = k
  BY <1>5, ToOne
<1>. HIDE DEF a
<1>8. ToMaps(a)
  <2>1. \A n \in Server : partyToMap[n] \in Seq(Answers)
    BY <1>2 DEF PacketsTyped
  <2>2. ASSUME NEW n \in Server PROVE partyToMap'[n] = partyToMap[n] \o a[n]
    <3>. DEFINE q == partyToMap[n]
    <3>1. q \in Seq(Answers)
      BY <2>1
    <3>2. CASE n = m
      <4>1. partyToMap'[n] = Append(q, k) /\ a[n] = <<k>>
        BY <1>2, <1>6, <1>7, <3>2 DEF PacketsTyped
      <4>. HIDE DEF q
      <4>2. Append(q, k) = q \o <<k>>
        BY <1>5, <3>1
      <4>. QED BY <4>1, <4>2 DEF q
    <3>3. CASE n # m
      <4>1. partyToMap'[n] = q /\ a[n] = <<>>
        BY <1>2, <1>6, <1>7, <3>3 DEF PacketsTyped
      <4>. HIDE DEF q
      <4>2. q \o <<>> = q
        BY <3>1
      <4>. QED BY <4>1, <4>2 DEF q
    <3>. QED BY <3>2, <3>3
  <2>3. partyToMap' = [n \in Server |-> partyToMap'[n]]
    BY <1>2, <1>6 DEF PacketsTyped
  <2>. QED BY <2>2, <2>3 DEF ToMaps
<1>9. /\ partyToMap' \in [Server -> Seq(Answers)]
      /\ \A n \in Server :
              /\ partyToMap[n] \in Seq(Answers) /\ a[n] \in Seq(Answers)
              /\ partyToMap'[n] = partyToMap[n] \o a[n]
              /\ ToSet(partyToMap'[n]) = ToSet(partyToMap[n]) \cup ToSet(a[n])
  BY <1>2, <1>7, <1>8, MapsGrow
<1>10. Types'
  <2>1. PacketsTyped'
    BY <1>1, <1>2, <1>9 DEF PacketsTyped
  <2>2. at' \in [Fellow -> Server \cup {Offline}] /\ cached' \in [Fellow -> 0 .. MaxParties]
    BY <1>1, <1>2, <1>3, <1>4 DEF Types
  <2>. QED BY <1>1, <1>2, <2>1, <2>2 DEF Types
<1>11. DbInv'
  BY <1>1, <1>2 DEF DbInv
<1>12. CopiesOK'
  <2>1. ASSUME NEW n \in Server, NEW q \in PartyIds
        PROVE  Leads(q, a[n], ViewOf(party_db[q]), ViewOf(party_db'[q]))
    <3>1. \A x \in ToSet(a[n]) : Idle(q, x)
      BY <1>5, <1>7 DEF Idle
    <3>2. Leads(q, a[n], ViewOf(party_db[q]), ViewOf(party_db[q]))
      BY <1>9, <3>1, LeadsIdle
    <3>. QED BY <1>1, <3>2
  <2>2. \A n \in Server, q \in PartyIds : ViewOf(party_copy'[n][q]) = ViewOf(party_copy[n][q])
    BY <1>1
  <2>. QED BY <1>2, <1>7, <1>8, <2>1, <2>2, CopiesAppend DEF PInv
<1>13. DataOK'
  BY <1>1 DEF PInv, DataOK
<1>14. c \notin in_game /\ \A n \in Server : \A x \in ToSet(partyToMap[n]) : x.type = "authok" => x.c # c
  <2>1. Offline \notin Server
    BY PartyAssumption
  <2>. QED BY <1>1, <2>1 DEF PInv, SessionsOK
<1>15. \A d \in Fellow : d # c => at'[d] = at[d]
  BY <1>1, <1>2 DEF Types
<1>16. SessionsOK'
  <2>1. \A d \in in_game' : at'[d] \in Server
    BY <1>1, <1>2, <1>14, <1>15 DEF PInv, SessionsOK, Types
  <2>2. ASSUME NEW n \in Server PROVE Once(partyToMap'[n])
    <3>. DEFINE q == partyToMap[n]
                r == a[n]
    <3>1. /\ q \in Seq(Answers) /\ r \in Seq(Answers) /\ partyToMap'[n] = q \o r
          /\ Once(q) /\ \A x \in ToSet(q) : x.type = "authok" => x.c # c
          /\ \A x \in ToSet(r) : x = k
      BY <1>7, <1>9, <1>14 DEF PInv, SessionsOK
    <3>2. Once(r)
      <4>1. CASE n = m
        <5>1. r = <<k>>
          BY <1>7, <4>1
        <5>. QED BY <5>1, OnceOne
      <4>2. CASE n # m
        <5>1. r = <<>> /\ Len(<<>>) = 0
          BY <1>7, <4>2
        <5>. QED BY <5>1 DEF Once
      <4>. QED BY <4>1, <4>2
    <3>. HIDE DEF q, r
    <3>. QED BY <1>5, <3>1, <3>2, OnceBoth
  <2>3. ASSUME NEW n \in Server, NEW x \in ToSet(partyToMap'[n]), x.type = "authok"
        PROVE  at'[x.c] = n /\ x.c \notin in_game'
    <3>1. CASE x \in ToSet(partyToMap[n])
      <4>1. x.c # c /\ at[x.c] = n /\ x.c \notin in_game
        BY <1>14, <2>3, <3>1 DEF PInv, SessionsOK
      <4>2. x.c \in Fellow
        <5>1. x \in Answers
          BY <1>9, <3>1, PacketsAreTyped
        <5>. QED BY <2>3, <5>1, AnswerKinds
      <4>. QED BY <1>1, <1>15, <4>1, <4>2
    <3>2. CASE x \in ToSet(a[n])
      <4>1. x = k
        BY <1>7, <3>2
      <4>2. n = m
        <5>1. ToSet(<<>>) = {}
          BY PacketsOfNone
        <5>. QED BY <1>7, <3>2, <5>1
      <4>3. at'[c] = m
        BY <1>1, <1>2 DEF Types
      <4>. QED BY <1>1, <1>5, <1>14, <4>1, <4>2, <4>3
    <3>. QED BY <1>9, <2>3, <3>1, <3>2
  <2>. QED BY <2>1, <2>2, <2>3 DEF SessionsOK
<1>17. ASSUME NEW n \in Server, NEW d, NEW q
       PROVE  /\ Going(n, d, q) => Going(n, d, q)'
              /\ Asking(n, d, q) => Asking(n, d, q)'
              /\ Linked(n, d, q) => Linked(n, d, q)'
              /\ Here(n, d)' => Here(n, d)
  <2>1. ToSet(partyToMap[n]) \subseteq ToSet(partyToMap'[n])
    BY <1>9
  <2>2. Here(n, d)' => Here(n, d)
    BY <1>1, <1>2, <1>14, <1>15 DEF Here, Types
  <2>3. Going(n, d, q) => Going(n, d, q)'
    BY <1>1, <2>1 DEF Going
  <2>4. Asking(n, d, q) => Asking(n, d, q)'
    BY <1>1, <2>1 DEF Asking
  <2>. QED BY <1>1, <2>2, <2>3, <2>4 DEF Linked
<1>18. TiesOK'
  <2>. SUFFICES ASSUME NEW n \in Server, NEW d \in Fellow, Here(n, d)', party_id'[d] # 0
                PROVE  (Linked(n, d, party_id[d]) \/ Going(n, d, party_id[d]) \/ Asking(n, d, party_id[d]))'
    BY DEF TiesOK
  <2>1. Here(n, d) /\ party_id[d] # 0 /\ party_id'[d] = party_id[d]
    BY <1>1, <1>17
  <2>2. PICK q : q = party_id[d]
    OBVIOUS
  <2>3. Linked(n, d, q) \/ Going(n, d, q) \/ Asking(n, d, q)
    BY <2>1, <2>2 DEF PInv, TiesOK
  <2>4. Linked(n, d, q)' \/ Going(n, d, q)' \/ Asking(n, d, q)'
    BY <1>17, <2>3
  <2>. QED BY <2>1, <2>2, <2>4 DEF Linked, Going, Asking
<1>19. GrantsOK'
  <2>1. \A n \in Server : Paired(a[n])
    <3>. TAKE n \in Server
    <3>1. CASE n = m
      BY <1>5, <1>7, <3>1, OnePaired DEF Grants
    <3>2. CASE n # m
      BY <1>7, <3>2, NonePaired
    <3>. QED BY <3>1, <3>2
  <2>2. \A n \in Server, x \in Answers : Grants(x) /\ Promised(n, x) => Promised(n, x)'
    BY <1>17 DEF Promised
  <2>. QED BY <1>2, <1>7, <1>8, <2>1, <2>2, GrantsGrow DEF PInv
<1>20. PendingOK'
  <2>. SUFFICES ASSUME NEW d \in Fellow, party_pending'[d] # "no"
                PROVE  /\ d \in in_game'
                       /\ party_pending'[d] = "creating" => Awaits(at[d], d, "create", "created")'
                       /\ party_pending'[d] = "joining" => Awaits(at[d], d, "add", "added")'
    BY DEF PendingOK
  <2>1. /\ d \in in_game /\ at'[d] = at[d]
        /\ party_pending[d] = "creating" => Awaits(at[d], d, "create", "created")
        /\ party_pending[d] = "joining" => Awaits(at[d], d, "add", "added")
    BY <1>1, <1>14, <1>15 DEF PInv, PendingOK
  <2>2. ASSUME NEW asked, NEW told, Awaits(at[d], d, asked, told)
        PROVE  Awaits(at[d], d, asked, told)'
    <3>1. at[d] \in Server
      BY <2>1 DEF PInv, SessionsOK
    <3>2. ToSet(partyToMap[at[d]]) \subseteq ToSet(partyToMap'[at[d]])
      BY <1>9, <3>1
    <3>. QED BY <1>1, <2>1, <2>2, <3>2 DEF Awaits
  <2>. QED BY <1>1, <2>1, <2>2
<1>. QED BY <1>10, <1>11, <1>12, <1>13, <1>16, <1>18, <1>19, <1>20 DEF PInv

-----------------------------------------------------------------------------
(* What a map-server makes of a packet *)

\* A player who has party p after packet k is known to its copy, or has been let
\* in, or has asked, or is where it was and k was no answer to it.
Settled(m, k, c) ==
  \A p \in PartyIds : party_id'[c] = p =>
    \/ c \in DataOf(party_copy'[m][p])
    \/ Packet("info", p, c, 0) \in ToSet(partyToChar'[m])
    \/ Grants(k) /\ k.c = c /\ k.p = p
    \/ /\ Here(m, c) /\ party_id[c] = p
       /\ c \in DataOf(party_copy[m][p]) => c \in DataOf(party_copy'[m][p])
       /\ ~(k.p = p /\ k.c = c /\ k.type \in {"withdraw", "info", "noinfo"})

Comes(k, c) == k.type = "authok" /\ k.c = c

\* The requests that go with it, and the variables of the sessions.
HandledTypes ==
  /\ partyToChar' \in [Server -> Seq(Requests)]
  /\ \A n \in Server : ToSet(partyToChar[n]) \subseteq ToSet(partyToChar'[n])
  /\ party_id' \in [Fellow -> 0 .. MaxParties]
  /\ party_invite' \in [Fellow -> 0 .. MaxParties]
  /\ party_copy' \in [Server -> [PartyIds -> MapParty \cup {NoParty}]]

HandledCopies(m, k) ==
  /\ \A n \in Server \ {m} : party_copy'[n] = party_copy[n]
  /\ \A p \in PartyIds :
       /\ ViewOf(party_copy'[m][p]) = Effect(p, k, ViewOf(party_copy[m][p]))
       /\ DataOf(party_copy'[m][p]) \subseteq ViewOf(party_copy'[m][p]).member

HandledPending(m, k) ==
  /\ party_pending' \in [Fellow -> {"no", "creating", "joining"}]
  /\ \A c \in Fellow : party_pending'[c] \in {party_pending[c], "no"}
  /\ k.type = "created" /\ Here(m, k.c) => party_pending'[k.c] # "creating"
  /\ k.type = "added" /\ Here(m, k.c) => party_pending'[k.c] # "joining"

Handled(m, k) ==
  /\ HandledTypes /\ HandledCopies(m, k) /\ HandledPending(m, k)
  /\ in_game' = IF k.type = "authok" THEN in_game \cup {k.c} ELSE in_game
  /\ \A c \in Fellow : party_id'[c] = party_id[c] \/ Here(m, c) \/ Comes(k, c)
  /\ \A c \in Fellow : Here(m, c) \/ Comes(k, c) => Settled(m, k, c)
  /\ Grants(k) => party_copy' = party_copy
  /\ k.type = "info" => \A c \in k.x.member : Here(m, c) =>
       \/ c \in DataOf(party_copy'[m][k.p])
       \/ Packet("leave", k.p, c, 0) \in ToSet(partyToChar'[m])

\* A player on the server at hand, before and after.
LEMMA StaysHere ==
  ASSUME PInv, NEW m \in Server, NEW k, Takes(m, k), Handled(m, k), at' = at,
         NEW n \in Server, NEW c \in Fellow, Here(n, c)'
  PROVE  /\ at[c] = n
         /\ Here(n, c) \/ (Comes(k, c) /\ n = m /\ ~Here(n, c))
         /\ k.type # "authok" => Here(n, c)
         /\ n # m => party_id'[c] = party_id[c]
<1>1. PacketsTyped
  BY DEF PInv, Types
<1>2. k \in ToSet(partyToMap[m])
  BY <1>1, TakesTyped
<1>3. k.type = "authok" => at[k.c] = m /\ k.c \notin in_game
  BY <1>2 DEF PInv, SessionsOK
<1>4. c \in in_game' /\ at[c] = n
  BY DEF Here
<1>. QED BY <1>3, <1>4 DEF Handled, Here, Comes

LEMMA HandledTypesOK ==
  ASSUME PInv, NEW m \in Server, NEW k, Takes(m, k), Handled(m, k), at' = at, level' = level,
         acts' = acts, party_db' = party_db, party_row' = party_row, cached' = cached,
         last_party' = last_party
  PROVE  /\ Types' /\ DbInv' /\ CopiesOK' /\ DataOK'
         /\ k \in Answers
         /\ \A p \in PartyIds : \A c \in ViewOf(party_copy[m][p]).member :
              c \in ViewOf(party_copy'[m][p]).member \/ k = Packet("withdraw", p, c, 0)
<1>1. Types /\ DbInv /\ CopiesOK /\ DataOK /\ PacketsTyped
  BY DEF PInv, Types
<1>2. k \in Answers /\ partyToMap' \in [Server -> Seq(Answers)]
  BY <1>1, TakesTyped
<1>3. HandledTypes /\ HandledCopies(m, k) /\ HandledPending(m, k)
  BY DEF Handled
<1>4. in_game' \subseteq Fellow
  <2>1. k.type = "authok" => k.c \in Fellow
    BY <1>2, AnswerKinds
  <2>2. in_game' = IF k.type = "authok" THEN in_game \cup {k.c} ELSE in_game
    BY DEF Handled
  <2>3. in_game \subseteq Fellow
    BY <1>1 DEF Types
  <2>. QED BY <2>1, <2>2, <2>3
<1>5. Types'
  <2>1. PacketsTyped'
    BY <1>2, <1>3 DEF PacketsTyped, HandledTypes
  <2>2. /\ party_id' \in [Fellow -> 0 .. MaxParties] /\ party_invite' \in [Fellow -> 0 .. MaxParties]
        /\ party_copy' \in [Server -> [PartyIds -> MapParty \cup {NoParty}]]
        /\ party_pending' \in [Fellow -> {"no", "creating", "joining"}]
    BY <1>3 DEF HandledTypes, HandledPending
  <2>. QED BY <1>1, <1>4, <2>1, <2>2 DEF Types
<1>6. /\ CopiesOK'
      /\ \A p \in PartyIds : Gently(p, k, ViewOf(party_copy[m][p]))
  <2>1. /\ \A n \in Server \ {m} : party_copy'[n] = party_copy[n]
        /\ \A p \in PartyIds : ViewOf(party_copy'[m][p]) = Effect(p, k, ViewOf(party_copy[m][p]))
    BY <1>3 DEF HandledCopies
  <2>. QED BY <1>1, <2>1, CopiesTake
<1>7. ASSUME NEW p \in PartyIds, NEW c \in ViewOf(party_copy[m][p]).member
      PROVE  c \in ViewOf(party_copy'[m][p]).member \/ k = Packet("withdraw", p, c, 0)
  BY <1>3, <1>6 DEF Gently, HandledCopies
<1>8. DbInv'
  BY <1>1 DEF DbInv
<1>9. DataOK'
  BY <1>1, <1>3 DEF DataOK, HandledCopies
<1>. QED BY <1>2, <1>5, <1>6, <1>7, <1>8, <1>9

LEMMA HandledSessionsOK ==
  ASSUME PInv, NEW m \in Server, NEW k, Takes(m, k), Handled(m, k), at' = at
  PROVE  SessionsOK'
<1>1. PacketsTyped
  BY DEF PInv, Types
<1>2. /\ k \in Answers /\ k \in ToSet(partyToMap[m])
      /\ \A n \in Server : partyToMap[n] \in Seq(Answers)
      /\ \A n \in Server \ {m} : partyToMap'[n] = partyToMap[n]
      /\ partyToMap'[m] = Tail(partyToMap[m])
      /\ ToSet(partyToMap[m]) = {k} \cup ToSet(partyToMap'[m])
  BY <1>1, TakesTyped
<1>3. /\ \A c \in in_game : at[c] \in Server
      /\ \A n \in Server :
           /\ Once(partyToMap[n])
           /\ \A l \in ToSet(partyToMap[n]) : l.type = "authok" => at[l.c] = n /\ l.c \notin in_game
  BY DEF PInv, SessionsOK
<1>4. in_game' = IF k.type = "authok" THEN in_game \cup {k.c} ELSE in_game
  BY DEF Handled
<1>5. \A c \in in_game' : at'[c] \in Server
  BY <1>2, <1>3, <1>4
<1>6. /\ Once(partyToMap'[m])
      /\ k.type = "authok" => \A l \in ToSet(partyToMap'[m]) : l.type = "authok" => l.c # k.c
  <2>. DEFINE q == partyToMap[m]
  <2>1. q \in Seq(Answers) /\ q # <<>> /\ Once(q) /\ k = Head(q) /\ partyToMap'[m] = Tail(q)
    BY <1>2, <1>3 DEF Takes
  <2>. HIDE DEF q
  <2>. QED BY <2>1, OnceTail
<1>7. ASSUME NEW n \in Server
      PROVE  /\ Once(partyToMap'[n])
             /\ \A l \in ToSet(partyToMap'[n]) : l.type = "authok" => at'[l.c] = n /\ l.c \notin in_game'
  <2>1. Once(partyToMap'[n])
    BY <1>2, <1>3, <1>6
  <2>2. ASSUME NEW l \in ToSet(partyToMap'[n]), l.type = "authok"
        PROVE  at'[l.c] = n /\ l.c \notin in_game'
    <3>1. l \in ToSet(partyToMap[n])
      BY <1>2
    <3>2. at[l.c] = n /\ l.c \notin in_game
      BY <1>3, <2>2, <3>1
    <3>3. k.type = "authok" => l.c # k.c
      BY <1>2, <1>3, <1>6, <2>2, <3>2
    <3>. QED BY <1>4, <3>2, <3>3
  <2>. QED BY <2>1, <2>2
<1>. QED BY <1>5, <1>7 DEF SessionsOK

LEMMA HandledTiesOK ==
  ASSUME PInv, NEW m \in Server, NEW k, Takes(m, k), Handled(m, k), at' = at,
         \A p \in PartyIds : \A c \in ViewOf(party_copy[m][p]).member :
            c \in ViewOf(party_copy'[m][p]).member \/ k = Packet("withdraw", p, c, 0)
  PROVE  TiesOK'
<1>1. PacketsTyped /\ Types /\ TiesOK /\ GrantsOK
  BY DEF PInv, Types
<1>2. /\ k \in Answers
      /\ \A n \in Server \ {m} : partyToMap'[n] = partyToMap[n]
      /\ ToSet(partyToMap[m]) = {k} \cup ToSet(partyToMap'[m])
  BY <1>1, TakesTyped
<1>3. HandledTypes /\ HandledCopies(m, k)
  BY DEF Handled
<1>4. \A n \in Server : ToSet(partyToChar[n]) \subseteq ToSet(partyToChar'[n])
  BY <1>3 DEF HandledTypes
<1>. SUFFICES ASSUME NEW n \in Server, NEW c \in Fellow, NEW p \in PartyIds,
                     Here(n, c)', party_id'[c] = p
              PROVE  Linked(n, c, p)' \/ Going(n, c, p)' \/ Asking(n, c, p)'
  <2>1. party_id' \in [Fellow -> 0 .. MaxParties]
    BY <1>3 DEF HandledTypes
  <2>2. \A d \in Fellow : party_id'[d] # 0 => party_id'[d] \in PartyIds
    BY <2>1, IdsAreNumbers
  <2>. QED BY <2>2 DEF TiesOK
<1>5. /\ Here(n, c) \/ (Comes(k, c) /\ n = m /\ ~Here(n, c))
      /\ k.type # "authok" => Here(n, c)
      /\ n # m => party_id'[c] = party_id[c]
  BY StaysHere
<1>6. Here(n, c) /\ party_id[c] = p => Linked(n, c, p) \/ Going(n, c, p) \/ Asking(n, c, p)
  BY <1>1, IdsAreNumbers DEF TiesOK
<1>7. CASE n # m
  <2>1. Linked(n, c, p) \/ Going(n, c, p) \/ Asking(n, c, p)
    BY <1>5, <1>6, <1>7
  <2>2. party_copy'[n] = party_copy[n] /\ partyToMap'[n] = partyToMap[n]
    BY <1>2, <1>3, <1>7 DEF HandledCopies
  <2>. QED BY <1>4, <2>1, <2>2 DEF Linked, Going, Asking
<1>8. CASE n = m
  <2>. DEFINE w == Packet("withdraw", p, c, 0)
  <2>0. w.type = "withdraw" /\ w.p = p /\ w.c = c
    BY DEF Packet
  <2>. HIDE DEF w
  <2>1. Settled(m, k, c)
    BY <1>5, <1>8 DEF Handled
  <2>2. CASE c \in DataOf(party_copy'[m][p])
    BY <1>8, <2>2 DEF Linked
  <2>3. CASE Packet("info", p, c, 0) \in ToSet(partyToChar'[m])
    BY <1>8, <2>3 DEF Asking
  <2>4. ASSUME Going(m, c, p), k # w
        PROVE  Going(m, c, p)'
    <3>1. CASE w \in ToSet(partyToMap[m])
      BY <1>2, <2>4, <3>1 DEF Going, w
    <3>2. CASE /\ Packet("leave", p, c, 0) \in ToSet(partyToChar[m])
               /\ c \in ViewOf(party_copy[m][p]).member
      <4>1. c \in ViewOf(party_copy'[m][p]).member
        BY <2>4, <3>2 DEF w
      <4>. QED BY <1>4, <3>2, <4>1 DEF Going
    <3>. QED BY <2>4, <3>1, <3>2 DEF Going, w
  <2>5. CASE Grants(k) /\ k.c = c /\ k.p = p
    <3>1. k.type # "authok" /\ k # w /\ Here(m, c) /\ party_copy' = party_copy
      BY <1>5, <1>8, <2>0, <2>5 DEF Grants, Handled
    <3>2. Promised(m, k)
      BY <1>1, <2>5 DEF GrantsOK, Takes
    <3>3. Linked(m, c, p) \/ Going(m, c, p)
      BY <2>5, <3>1, <3>2 DEF Promised
    <3>4. Linked(m, c, p) => Linked(m, c, p)'
      BY <3>1 DEF Linked
    <3>. QED BY <1>8, <2>4, <3>1, <3>3, <3>4
  <2>6. CASE /\ Here(m, c) /\ party_id[c] = p
             /\ c \in DataOf(party_copy[m][p]) => c \in DataOf(party_copy'[m][p])
             /\ ~(k.p = p /\ k.c = c /\ k.type \in {"withdraw", "info", "noinfo"})
    <3>1. k # w
      BY <2>0, <2>6
    <3>2. Linked(m, c, p) => Linked(m, c, p)'
      BY <2>6 DEF Linked
    <3>3. ASSUME Asking(m, c, p) PROVE Asking(m, c, p)'
      <4>1. k # Packet("noinfo", p, c, 0) /\ \A x : k # Packet("info", p, c, x)
        BY <2>6 DEF Packet
      <4>. QED BY <1>2, <1>4, <3>3, <4>1 DEF Asking
    <3>. QED BY <1>6, <1>8, <2>4, <2>6, <3>1, <3>2, <3>3
  <2>. QED BY <2>1, <2>2, <2>3, <2>5, <2>6 DEF Settled
<1>. QED BY <1>7, <1>8

LEMMA HandledGrantsOK ==
  ASSUME PInv, NEW m \in Server, NEW k, Takes(m, k), Handled(m, k), at' = at
  PROVE  GrantsOK'
<1>1. PacketsTyped /\ Types /\ GrantsOK
  BY DEF PInv, Types
<1>2. /\ k \in Answers
      /\ \A n \in Server : partyToMap[n] \in Seq(Answers)
      /\ \A n \in Server \ {m} : partyToMap'[n] = partyToMap[n]
      /\ partyToMap'[m] = Tail(partyToMap[m])
      /\ partyToMap' \in [Server -> Seq(Answers)]
  BY <1>1, TakesTyped
<1>3. HandledTypes /\ HandledCopies(m, k)
  BY DEF Handled
<1>4. \A n \in Server : ToSet(partyToChar[n]) \subseteq ToSet(partyToChar'[n])
  BY <1>3 DEF HandledTypes
<1>5. /\ Announced(partyToMap'[m])
      /\ partyToMap'[m] # <<>> /\ Grants(Head(partyToMap'[m])) =>
           Announces(k, Head(partyToMap'[m]).p, Head(partyToMap'[m]).c)
  <2>. DEFINE q == partyToMap[m]
  <2>1. q \in Seq(Answers) /\ q # <<>> /\ Announced(q) /\ k = Head(q) /\ partyToMap'[m] = Tail(q)
    BY <1>1, <1>2 DEF Takes, GrantsOK
  <2>. HIDE DEF q
  <2>. QED BY <2>1, AnnouncedTail
<1>6. ASSUME NEW n \in Server, NEW l \in Answers, NEW c \in Fellow, NEW p \in PartyIds,
             partyToMap'[n] # <<>>, l = Head(partyToMap'[n]), Grants(l), l.c = c, l.p = p,
             Here(n, c)'
      PROVE  Linked(n, c, p)' \/ Going(n, c, p)'
  <2>6. k.type # "authok" => Here(n, c)
    BY <1>6, StaysHere
  <2>7. CASE n # m
    <3>1. Here(n, c)
      BY <1>6, <2>7, StaysHere
    <3>2. party_copy'[n] = party_copy[n] /\ partyToMap'[n] = partyToMap[n]
      BY <1>2, <1>3, <2>7 DEF HandledCopies
    <3>3. Promised(n, l)
      BY <1>1, <1>6, <3>2 DEF GrantsOK
    <3>4. Linked(n, c, p) \/ Going(n, c, p)
      BY <1>6, <3>1, <3>3 DEF Promised
    <3>. QED BY <1>4, <3>2, <3>4 DEF Linked, Going
  <2>8. CASE n = m
    <3>1. Announces(k, p, c)
      BY <1>5, <1>6, <2>8
    <3>2. k.type = "info" /\ k.p = p /\ c \in k.x.member
      BY <3>1 DEF Announces
    <3>3. Here(m, c)
      BY <2>6, <2>8, <3>2
    <3>4. \/ c \in DataOf(party_copy'[m][p])
          \/ Packet("leave", p, c, 0) \in ToSet(partyToChar'[m])
      BY <3>2, <3>3 DEF Handled
    <3>5. c \in ViewOf(party_copy'[m][p]).member
      <4>1. ViewOf(party_copy'[m][p]) = Effect(p, k, ViewOf(party_copy[m][p]))
        BY <1>3 DEF HandledCopies
      <4>2. ViewOf(party_copy[m][p]) \in Views
        BY <1>1, CopyView
      <4>. DEFINE u == ViewOf(party_copy[m][p])
      <4>3. u \in Views /\ k.p = p /\ k.type = "info"
        BY <3>2, <4>2
      <4>. HIDE DEF u
      <4>4. Effect(p, k, u) = [known |-> TRUE, member |-> k.x.member, exp |-> k.x.exp]
        BY <4>3, EffectIs
      <4>5. Effect(p, k, u).member = k.x.member
        BY <4>4
      <4>. QED BY <3>2, <4>1, <4>5 DEF u
    <3>. QED BY <2>8, <3>4, <3>5 DEF Linked, Going
  <2>. QED BY <2>7, <2>8
<1>7. ASSUME NEW n \in Server PROVE Announced(partyToMap'[n])
  BY <1>1, <1>2, <1>5 DEF GrantsOK
<1>8. ASSUME NEW n \in Server, partyToMap'[n] # <<>>, Grants(Head(partyToMap'[n]))
      PROVE  Promised(n, Head(partyToMap[n]))'
  <2>1. PICK l : l = Head(partyToMap'[n])
    OBVIOUS
  <2>2. l \in Answers
    <3>. DEFINE t == partyToMap'[n]
                S == Answers
    <3>1. t \in Seq(S) /\ t # <<>> /\ l = Head(t)
      BY <1>2, <1>8, <2>1
    <3>. HIDE DEF t, S
    <3>2. l \in S
      BY <3>1
    <3>. QED BY <3>2 DEF S
  <2>3. l.c \in Fellow /\ l.p \in PartyIds /\ Grants(l)
    BY <1>8, <2>1, <2>2, AnswerKinds, IdsAreNumbers DEF Grants
  <2>4. PICK c \in Fellow, p \in PartyIds : l.c = c /\ l.p = p
    BY <2>3
  <2>5. Here(n, c)' => Linked(n, c, p)' \/ Going(n, c, p)'
    BY <1>6, <1>8, <2>1, <2>2, <2>3, <2>4
  <2>. QED BY <2>1, <2>4, <2>5 DEF Promised
<1>. QED BY <1>7, <1>8 DEF GrantsOK

LEMMA HandledPendingOK ==
  ASSUME PInv, NEW m \in Server, NEW k, Takes(m, k), Handled(m, k), at' = at
  PROVE  PendingOK'
<1>1. PacketsTyped /\ Types /\ PendingOK /\ SessionsOK
  BY DEF PInv, Types
<1>2. /\ k \in Answers
      /\ \A n \in Server \ {m} : partyToMap'[n] = partyToMap[n]
      /\ ToSet(partyToMap[m]) = {k} \cup ToSet(partyToMap'[m])
  BY <1>1, TakesTyped
<1>3. HandledTypes /\ HandledPending(m, k)
  BY DEF Handled
<1>4. \A n \in Server : ToSet(partyToChar[n]) \subseteq ToSet(partyToChar'[n])
  BY <1>3 DEF HandledTypes
<1>. SUFFICES ASSUME NEW c \in Fellow, party_pending'[c] # "no"
              PROVE  /\ c \in in_game'
                     /\ party_pending'[c] = "creating" => Awaits(at[c], c, "create", "created")'
                     /\ party_pending'[c] = "joining" => Awaits(at[c], c, "add", "added")'
  BY DEF PendingOK, Awaits
<1>5. party_pending[c] = party_pending'[c]
  BY <1>3 DEF HandledPending
<1>6. c \in in_game /\ at[c] \in Server /\ c \in in_game'
  BY <1>1, <1>5 DEF PendingOK, SessionsOK, Handled
<1>7. \A l \in ToSet(partyToMap[at[c]]) : l \in ToSet(partyToMap'[at[c]]) \/ (l = k /\ at[c] = m)
  BY <1>2, <1>6
<1>8. ASSUME party_pending'[c] = "creating" PROVE Awaits(at[c], c, "create", "created")'
  <2>1. Awaits(at[c], c, "create", "created")
    BY <1>1, <1>5, <1>8 DEF PendingOK
  <2>2. ~(at[c] = m /\ k.type = "created" /\ k.c = c)
    BY <1>3, <1>6, <1>8 DEF HandledPending, Here
  <2>. QED BY <1>4, <1>6, <1>7, <2>1, <2>2 DEF Awaits
<1>9. ASSUME party_pending'[c] = "joining" PROVE Awaits(at[c], c, "add", "added")'
  <2>1. Awaits(at[c], c, "add", "added")
    BY <1>1, <1>5, <1>9 DEF PendingOK
  <2>2. ~(at[c] = m /\ k.type = "added" /\ k.c = c)
    BY <1>3, <1>6, <1>9 DEF HandledPending, Here
  <2>. QED BY <1>4, <1>6, <1>7, <2>1, <2>2 DEF Awaits
<1>. QED BY <1>6, <1>8, <1>9

LEMMA HandledOK ==
  ASSUME PInv, NEW m \in Server, NEW k, Takes(m, k), Handled(m, k), at' = at, level' = level,
         acts' = acts, party_db' = party_db, party_row' = party_row, cached' = cached,
         last_party' = last_party
  PROVE  PInv'
<1>1. /\ Types' /\ DbInv' /\ CopiesOK' /\ DataOK'
      /\ \A p \in PartyIds : \A c \in ViewOf(party_copy[m][p]).member :
            c \in ViewOf(party_copy'[m][p]).member \/ k = Packet("withdraw", p, c, 0)
  BY HandledTypesOK
<1>2. SessionsOK' /\ GrantsOK' /\ PendingOK'
  BY HandledSessionsOK, HandledGrantsOK, HandledPendingOK
<1>3. TiesOK'
  BY <1>1, HandledTiesOK
<1>. QED BY <1>1, <1>2, <1>3 DEF PInv

-----------------------------------------------------------------------------
(* The handlers of the map-server *)

LEMMA EffectOn ==
  ASSUME NEW k, NEW u \in Views
  PROVE  /\ k.type = "withdraw" =>
              Effect(k.p, k, u) = [known |-> u.known, member |-> u.member \ {k.c}, exp |-> u.exp]
         /\ k.type = "option" /\ k.x.granted /\ u.known =>
              Effect(k.p, k, u) = [known |-> TRUE, member |-> u.member, exp |-> k.x.exp]
         /\ k.type = "option" /\ ~(k.x.granted /\ u.known) => Effect(k.p, k, u) = u
         /\ k.type \in {"noinfo", "broken"} => Effect(k.p, k, u) = Unknown
         /\ k.type = "info" =>
              Effect(k.p, k, u) = [known |-> TRUE, member |-> k.x.member, exp |-> k.x.exp]
<1>1. PICK p : p = k.p
  OBVIOUS
<1>2. k.type = "withdraw" =>
        Effect(p, k, u) = [known |-> u.known, member |-> u.member \ {k.c}, exp |-> u.exp]
  BY <1>1, EffectIs
<1>3. k.type = "option" /\ k.x.granted /\ u.known =>
        Effect(p, k, u) = [known |-> TRUE, member |-> u.member, exp |-> k.x.exp]
  <2>1. k.p = p /\ k.type = "option" =>
          Effect(p, k, u) = IF k.x.granted /\ u.known
                            THEN [known |-> TRUE, member |-> u.member, exp |-> k.x.exp] ELSE u
    BY EffectIs
  <2>. QED BY <1>1, <2>1
<1>4. k.type = "option" /\ ~(k.x.granted /\ u.known) => Effect(p, k, u) = u
  BY <1>1, EffectIs
<1>5. k.type \in {"noinfo", "broken"} => Effect(p, k, u) = Unknown
  BY <1>1, EffectIs
<1>6. k.type = "info" => Effect(p, k, u) = [known |-> TRUE, member |-> k.x.member, exp |-> k.x.exp]
  BY <1>1 DEF Effect
<1>. QED BY <1>1, <1>2, <1>3, <1>4, <1>5, <1>6

LEMMA CopyLess ==
  ASSUME NEW P \in MapParty, NEW M \in SUBSET Fellow, NEW D \in SUBSET Fellow,
         NEW l \in Fellow \cup {Leaderless}
  PROVE  [P EXCEPT !.member = M, !.data = D, !.leader = l] =
           [member |-> M, leader |-> l, exp |-> P.exp, data |-> D]
<1>1. PICK A : A = [P EXCEPT !.member = M]
  OBVIOUS
<1>2. A \in MapParty /\ A.exp = P.exp /\ A.member = M
  BY <1>1 DEF MapParty
<1>3. PICK B : B = [A EXCEPT !.data = D]
  OBVIOUS
<1>4. B \in MapParty /\ B.exp = P.exp /\ B.member = M /\ B.data = D
  BY <1>2, <1>3 DEF MapParty
<1>5. [B EXCEPT !.leader = l] = [member |-> B.member, leader |-> l, exp |-> B.exp, data |-> B.data]
  BY <1>4 DEF MapParty
<1>. QED BY <1>1, <1>3, <1>4, <1>5

\* The copy the message is about is replaced by Q, what the effect of the message makes of it.
NewCopy(m, k, p, Q) ==
  /\ p \in PartyIds /\ k.p = p /\ Q \in MapParty \cup {NoParty}
  /\ party_copy' = [party_copy EXCEPT ![m][p] = Q]
  /\ ViewOf(Q) = Effect(p, k, ViewOf(party_copy[m][p])) /\ DataOf(Q) \subseteq ViewOf(Q).member

LEMMA OneCopy ==
  ASSUME Types, DataOK, NEW m \in Server, NEW k, NEW p, NEW Q, NewCopy(m, k, p, Q)
  PROVE  /\ party_copy' \in [Server -> [PartyIds -> MapParty \cup {NoParty}]]
         /\ HandledCopies(m, k)
         /\ party_copy'[m][p] = Q
         /\ \A q \in PartyIds \ {p} : party_copy'[m][q] = party_copy[m][q]
<1>0. /\ p \in PartyIds /\ k.p = p /\ Q \in MapParty \cup {NoParty}
      /\ party_copy' = [party_copy EXCEPT ![m][p] = Q]
      /\ ViewOf(Q) = Effect(p, k, ViewOf(party_copy[m][p])) /\ DataOf(Q) \subseteq ViewOf(Q).member
  BY DEF NewCopy
<1>1. /\ party_copy' \in [Server -> [PartyIds -> MapParty \cup {NoParty}]]
      /\ \A n \in Server \ {m} : party_copy'[n] = party_copy[n]
      /\ party_copy'[m][p] = Q
      /\ \A q \in PartyIds \ {p} : party_copy'[m][q] = party_copy[m][q]
  BY <1>0 DEF Types
<1>2. ASSUME NEW q \in PartyIds, q # p
      PROVE  /\ ViewOf(party_copy'[m][q]) = Effect(q, k, ViewOf(party_copy[m][q]))
             /\ DataOf(party_copy'[m][q]) \subseteq ViewOf(party_copy'[m][q]).member
  <2>1. ViewOf(party_copy[m][q]) \in Views /\ party_copy'[m][q] = party_copy[m][q]
    BY <1>1, <1>2, CopyView
  <2>2. Effect(q, k, ViewOf(party_copy[m][q])) = ViewOf(party_copy[m][q])
    BY <1>0, <1>2, <2>1, EffectIs
  <2>. QED BY <2>1, <2>2 DEF DataOK
<1>. QED BY <1>0, <1>1, <1>2 DEF HandledCopies

LEMMA SameCopies ==
  ASSUME Types, DataOK, NEW m \in Server, NEW k, party_copy' = party_copy,
         \A p \in PartyIds : Effect(p, k, ViewOf(party_copy[m][p])) = ViewOf(party_copy[m][p])
  PROVE  /\ party_copy' \in [Server -> [PartyIds -> MapParty \cup {NoParty}]]
         /\ HandledCopies(m, k)
BY DEF Types, DataOK, HandledCopies

\* Nothing is asked and nobody stops waiting.
LEMMA SameTypes ==
  ASSUME Types, partyToChar' = partyToChar, party_invite' = party_invite,
         party_id' \in [Fellow -> 0 .. MaxParties],
         party_copy' \in [Server -> [PartyIds -> MapParty \cup {NoParty}]]
  PROVE  HandledTypes
BY DEF Types, PacketsTyped, HandledTypes

LEMMA AsksTypes ==
  ASSUME Types, NEW m \in Server, NEW s \in Seq(Requests), ToChar(m, s),
         party_invite' \in [Fellow -> 0 .. MaxParties],
         party_id' \in [Fellow -> 0 .. MaxParties],
         party_copy' \in [Server -> [PartyIds -> MapParty \cup {NoParty}]]
  PROVE  /\ HandledTypes
         /\ \A l \in ToSet(s) : l \in ToSet(partyToChar'[m])
<1>1. PacketsTyped
  BY DEF Types
<1>. QED BY <1>1, AskedGrow DEF HandledTypes

LEMMA SamePending ==
  ASSUME Types, party_pending' = party_pending, NEW m, NEW k, k.type \notin {"created", "added"}
  PROVE  HandledPending(m, k)
BY DEF Types, HandledPending

\* Some parties become none.
LEMMA NoMoreIs ==
  ASSUME NEW p, NEW cs, NEW ids \in [Fellow -> 0 .. MaxParties]
  PROVE  /\ NoMore(p, cs, ids) \in [Fellow -> 0 .. MaxParties]
         /\ \A c \in Fellow : NoMore(p, cs, ids)[c] = IF c \in cs /\ ids[c] = p THEN 0 ELSE ids[c]
BY IdsAreNumbers DEF NoMore

LEMMA OptionHandled ==
  ASSUME PInv, NEW m \in Server, NEW k \in Answers, k.type = "option", party_optionchanged(m, k)
  PROVE  Handled(m, k)
<1>. DEFINE p == k.p
            P == party_copy[m][p]
            e == k.x.exp
            Q == [P EXCEPT !.exp = e]
<1>1. Types /\ DataOK /\ p \in PartyIds /\ e \in BOOLEAN /\ k.x.granted \in BOOLEAN
  BY AnswerKinds DEF PInv
<1>2. /\ party_copy' = IF P # NoParty /\ k.x.granted
                       THEN [party_copy EXCEPT ![m][p].exp = e] ELSE party_copy
      /\ in_game' = in_game /\ party_id' = party_id /\ party_invite' = party_invite
      /\ party_pending' = party_pending /\ partyToChar' = partyToChar
  BY DEF party_optionchanged
<1>3. /\ P \in MapParty \cup {NoParty} /\ ViewOf(P) \in Views
      /\ P # NoParty => P \in MapParty
      /\ DataOf(P) \subseteq ViewOf(P).member
  BY <1>1, CopyView DEF DataOK
<1>4. /\ party_copy' \in [Server -> [PartyIds -> MapParty \cup {NoParty}]]
      /\ HandledCopies(m, k)
      /\ \A q \in PartyIds : DataOf(party_copy'[m][q]) = DataOf(party_copy[m][q])
  <2>1. CASE P # NoParty /\ k.x.granted
    <3>1. P \in MapParty
      BY <1>3, <2>1
    <3>2. Q = [member |-> P.member, leader |-> P.leader, exp |-> e, data |-> P.data]
      <4>. HIDE DEF P, e
      <4>. QED BY <3>1 DEF MapParty
    <3>3. P.member \in SUBSET Fellow /\ P.leader \in Fellow \cup {Leaderless} /\ P.data \in SUBSET Fellow
      BY <3>1, CopyRecord
    <3>4. Q \in MapParty /\ Q.member = P.member /\ Q.exp = e /\ Q.data = P.data
      <4>. DEFINE R == [member |-> P.member, leader |-> P.leader, exp |-> e, data |-> P.data]
      <4>1. R \in MapParty
        <5>. HIDE DEF P, e
        <5>. QED BY <1>1, <3>3 DEF MapParty
      <4>2. R.member = P.member /\ R.exp = e /\ R.data = P.data
        OBVIOUS
      <4>3. Q = R
        BY <3>2
      <4>. HIDE DEF R, Q
      <4>. QED BY <4>1, <4>2, <4>3
    <3>5. party_copy' = [party_copy EXCEPT ![m][p] = Q]
      BY <1>1, <1>2, <2>1
    <3>. HIDE DEF Q
    <3>6. /\ DataOf(P) = P.data /\ ViewOf(P).member = P.member /\ ViewOf(P).known
          /\ DataOf(Q) = P.data /\ ViewOf(Q) = View(P.member, e) /\ ViewOf(Q).member = P.member
      BY <3>1, <3>4, CopyRecord
    <3>7. Effect(p, k, ViewOf(P)) = View(P.member, e)
      <4>. DEFINE u == ViewOf(P)
      <4>1. u \in Views /\ k.p = p /\ k.x.granted /\ u.known /\ u.member = P.member
        BY <1>3, <2>1, <3>6
      <4>. HIDE DEF u
      <4>2. Effect(k.p, k, u) = [known |-> TRUE, member |-> u.member, exp |-> k.x.exp]
        BY <4>1, EffectOn
      <4>3. Effect(p, k, u) = [known |-> TRUE, member |-> P.member, exp |-> e]
        BY <4>1, <4>2
      <4>. QED BY <4>3 DEF View, u
    <3>. HIDE DEF e
    <3>8. /\ party_copy' \in [Server -> [PartyIds -> MapParty \cup {NoParty}]]
          /\ HandledCopies(m, k)
          /\ party_copy'[m][p] = Q
          /\ \A q \in PartyIds \ {p} : party_copy'[m][q] = party_copy[m][q]
      <4>1. /\ Q \in MapParty \cup {NoParty} /\ ViewOf(Q) = Effect(p, k, ViewOf(party_copy[m][p]))
            /\ DataOf(Q) \subseteq ViewOf(Q).member
        BY <1>3, <3>4, <3>6, <3>7
      <4>2. NewCopy(m, k, p, Q)
        <5>. HIDE DEF P
        <5>. QED BY <1>1, <3>5, <4>1 DEF NewCopy
      <4>. HIDE DEF p
      <4>. QED BY <1>1, <4>2, OneCopy
    <3>. QED BY <3>6, <3>8
  <2>2. CASE ~(P # NoParty /\ k.x.granted)
    <3>1. party_copy' = party_copy
      BY <1>2, <2>2
    <3>2. ASSUME NEW q \in PartyIds
          PROVE  Effect(q, k, ViewOf(party_copy[m][q])) = ViewOf(party_copy[m][q])
      <4>. DEFINE u == ViewOf(party_copy[m][q])
      <4>1. u \in Views
        BY <1>1, CopyView
      <4>2. q = p => ~(k.x.granted /\ u.known)
        BY <2>2, ViewsOf DEF ViewOf, Unknown
      <4>. HIDE DEF u
      <4>. QED BY <4>1, <4>2, EffectIs DEF u
    <3>. QED BY <1>1, <3>1, <3>2, SameCopies
  <2>. QED BY <2>1, <2>2
<1>5. HandledTypes /\ HandledPending(m, k)
  BY <1>1, <1>2, <1>4, SameTypes, SamePending DEF Types
<1>6. ASSUME NEW c \in Fellow, Here(m, c) PROVE Settled(m, k, c)
  BY <1>2, <1>4, <1>6 DEF Settled
<1>. QED BY <1>2, <1>4, <1>5, <1>6 DEF Handled, Comes, Grants

LEMMA WithdrawHandled ==
  ASSUME PInv, NEW m \in Server, NEW k \in Answers, k.type = "withdraw", party_member_withdraw(m, k)
  PROVE  Handled(m, k)
<1>. DEFINE p == k.p
            d == k.c
            P == party_copy[m][p]
            Q == [P EXCEPT !.member = @ \ {d}, !.data = @ \ {d}, !.leader = IF @ = d THEN Leaderless ELSE @]
            here == {c \in {d} : Here(m, c)}
<1>1. Types /\ DataOK /\ p \in PartyIds /\ d \in Fellow
  BY AnswerKinds DEF PInv
<1>2. /\ party_copy' = IF P = NoParty THEN party_copy
                   ELSE [party_copy EXCEPT
                           ![m][p].member = @ \ {d}, ![m][p].data = @ \ {d},
                           ![m][p].leader = IF @ = d THEN Leaderless ELSE @]
      /\ party_id' = NoMore(p, here, party_id)
      /\ in_game' = in_game /\ party_invite' = party_invite
      /\ party_pending' = party_pending /\ partyToChar' = partyToChar
  BY DEF party_member_withdraw
<1>3. /\ P \in MapParty \cup {NoParty} /\ ViewOf(P) \in Views
      /\ P # NoParty => P \in MapParty
      /\ DataOf(P) \subseteq ViewOf(P).member
  BY <1>1, CopyView DEF DataOK
<1>4. /\ party_copy' \in [Server -> [PartyIds -> MapParty \cup {NoParty}]]
      /\ HandledCopies(m, k)
      /\ \A q \in PartyIds \ {p} : party_copy'[m][q] = party_copy[m][q]
      /\ \A c \in DataOf(P) \ {d} : c \in DataOf(party_copy'[m][p])
  <2>1. CASE P # NoParty
    <3>1. P \in MapParty
      BY <1>3, <2>1
    <3>. DEFINE l == IF P.leader = d THEN Leaderless ELSE P.leader
                R == [member |-> P.member \ {d}, leader |-> l, exp |-> P.exp, data |-> P.data \ {d}]
    <3>2. /\ P.member \in SUBSET Fellow /\ P.leader \in Fellow \cup {Leaderless} /\ P.data \in SUBSET Fellow
          /\ P.exp \in BOOLEAN
      BY <3>1, CopyRecord
    <3>3. Q = R
      <4>. DEFINE M == P.member \ {d}
                  D == P.data \ {d}
      <4>1. Q = [P EXCEPT !.member = M, !.data = D, !.leader = l]
        OBVIOUS
      <4>2. R = [member |-> M, leader |-> l, exp |-> P.exp, data |-> D]
        OBVIOUS
      <4>3. M \in SUBSET Fellow /\ D \in SUBSET Fellow /\ l \in Fellow \cup {Leaderless}
        BY <3>2
      <4>. HIDE DEF P, M, D, l, Q, R
      <4>4. [P EXCEPT !.member = M, !.data = D, !.leader = l] =
              [member |-> M, leader |-> l, exp |-> P.exp, data |-> D]
        BY <3>1, <4>3, CopyLess
      <4>. QED BY <4>1, <4>2, <4>4
    <3>4. R \in MapParty /\ R.member = P.member \ {d} /\ R.exp = P.exp /\ R.data = P.data \ {d}
      <4>1. l \in Fellow \cup {Leaderless}
        BY <3>2
      <4>. HIDE DEF P, d, l
      <4>. QED BY <3>2, <4>1 DEF MapParty
    <3>5. party_copy' = [party_copy EXCEPT ![m][p] = Q]
      <4>. HIDE DEF d, p
      <4>. QED BY <1>1, <1>2, <2>1, ZenonT(60)
    <3>. HIDE DEF Q, R
    <3>6. /\ DataOf(P) = P.data /\ ViewOf(P).member = P.member /\ ViewOf(P) = View(P.member, P.exp)
          /\ DataOf(Q) = P.data \ {d} /\ ViewOf(Q) = View(P.member \ {d}, P.exp)
          /\ ViewOf(Q).member = P.member \ {d}
      BY <3>1, <3>3, <3>4, CopyRecord
    <3>7. Effect(p, k, ViewOf(P)) = View(P.member \ {d}, P.exp)
      <4>. DEFINE u == ViewOf(P)
      <4>1. u \in Views /\ k.p = p /\ u = [known |-> TRUE, member |-> P.member, exp |-> P.exp]
        BY <1>3, <3>6 DEF View
      <4>2. u.known = TRUE /\ u.member = P.member /\ u.exp = P.exp
        BY <4>1
      <4>. HIDE DEF u
      <4>3. Effect(k.p, k, u) = [known |-> u.known, member |-> u.member \ {k.c}, exp |-> u.exp]
        BY <4>1, EffectOn
      <4>. QED BY <4>2, <4>3 DEF View, u
    <3>8. /\ party_copy' \in [Server -> [PartyIds -> MapParty \cup {NoParty}]]
          /\ HandledCopies(m, k)
          /\ party_copy'[m][p] = Q
          /\ \A q \in PartyIds \ {p} : party_copy'[m][q] = party_copy[m][q]
      <4>1. /\ Q \in MapParty \cup {NoParty} /\ ViewOf(Q) = Effect(p, k, ViewOf(party_copy[m][p]))
            /\ DataOf(Q) \subseteq ViewOf(Q).member
        BY <1>3, <3>3, <3>4, <3>6, <3>7
      <4>2. NewCopy(m, k, p, Q)
        <5>. HIDE DEF P
        <5>. QED BY <1>1, <3>5, <4>1 DEF NewCopy
      <4>. HIDE DEF p
      <4>. QED BY <1>1, <4>2, OneCopy
    <3>. QED BY <3>6, <3>8
  <2>2. CASE P = NoParty
    <3>1. party_copy' = party_copy /\ DataOf(P) = {}
      BY <1>2, <2>2 DEF DataOf
    <3>2. ASSUME NEW q \in PartyIds
          PROVE  Effect(q, k, ViewOf(party_copy[m][q])) = ViewOf(party_copy[m][q])
      <4>. DEFINE u == ViewOf(party_copy[m][q])
      <4>1. u \in Views
        BY <1>1, CopyView
      <4>2. q = p => u = Unknown
        BY <2>2, ViewsOf
      <4>. HIDE DEF u
      <4>3. CASE q = p
        <5>1. u.known = FALSE /\ u.member = {} /\ u.exp = FALSE /\ u = Unknown
          BY <4>2, <4>3 DEF Unknown
        <5>2. Effect(k.p, k, u) = [known |-> u.known, member |-> u.member \ {k.c}, exp |-> u.exp]
          BY <4>1, EffectOn
        <5>3. u.member \ {k.c} = {}
          BY <5>1
        <5>4. Effect(q, k, u) = [known |-> FALSE, member |-> {}, exp |-> FALSE]
          BY <4>3, <5>1, <5>2, <5>3
        <5>. QED BY <5>1, <5>4 DEF Unknown, u
      <4>. QED BY <4>1, <4>3, EffectIs DEF u
    <3>. QED BY <1>1, <3>1, <3>2, SameCopies
  <2>. QED BY <2>1, <2>2
<1>5. /\ party_id' \in [Fellow -> 0 .. MaxParties]
      /\ \A c \in Fellow : party_id'[c] = IF c \in here /\ party_id[c] = p THEN 0 ELSE party_id[c]
  <2>. HIDE DEF here, p
  <2>. QED BY <1>1, <1>2, NoMoreIs DEF Types
<1>6. HandledTypes /\ HandledPending(m, k)
  BY <1>1, <1>2, <1>4, <1>5, SameTypes, SamePending
<1>7. ASSUME NEW c \in Fellow, Here(m, c) PROVE Settled(m, k, c)
  <2>. SUFFICES ASSUME NEW q \in PartyIds, party_id'[c] = q
                PROVE  /\ Here(m, c) /\ party_id[c] = q
                       /\ c \in DataOf(party_copy[m][q]) => c \in DataOf(party_copy'[m][q])
                       /\ ~(p = q /\ k.c = c)
    BY DEF Settled
  <2>1. party_id[c] = q /\ ~(p = q /\ k.c = c)
    BY <1>5, <1>7, IdsAreNumbers
  <2>2. c \in DataOf(party_copy[m][q]) => c \in DataOf(party_copy'[m][q])
    BY <1>4, <2>1
  <2>. QED BY <1>7, <2>1, <2>2
<1>8. \A c \in Fellow : party_id'[c] = party_id[c] \/ Here(m, c)
  BY <1>5
<1>. QED BY <1>2, <1>4, <1>6, <1>7, <1>8 DEF Handled, Comes, Grants

\* The copy is gone, and with it the party of those it knew.
LEMMA GoneHandled ==
  ASSUME PInv, NEW m \in Server, NEW k \in Answers, k.type \in {"noinfo", "broken"},
         Broken(m, k.p), party_id' \in [Fellow -> 0 .. MaxParties],
         \A c \in Fellow : party_id'[c] = party_id[c] \/ (Here(m, c) /\ party_id'[c] = 0),
         \A c \in Losers(m, k.p) : party_id'[c] = 0,
         k.type = "noinfo" => ~(Here(m, k.c) /\ party_id'[k.c] = k.p)
  PROVE  Handled(m, k)
<1>. DEFINE p == k.p
            P == party_copy[m][p]
<1>1. Types /\ DataOK /\ p \in PartyIds
  BY AnswerKinds DEF PInv
<1>2. /\ party_copy' = [party_copy EXCEPT ![m][p] = NoParty]
      /\ in_game' = in_game /\ party_invite' = party_invite
      /\ party_pending' = party_pending /\ partyToChar' = partyToChar
  BY DEF Broken
<1>3. /\ party_copy' \in [Server -> [PartyIds -> MapParty \cup {NoParty}]]
      /\ HandledCopies(m, k)
      /\ \A q \in PartyIds \ {p} : party_copy'[m][q] = party_copy[m][q]
  <2>1. ViewOf(NoParty) = Unknown /\ DataOf(NoParty) = {} /\ ViewOf(P) \in Views
    BY <1>1, ViewsOf, CopyView DEF DataOf
  <2>. DEFINE u == ViewOf(P)
  <2>2. u \in Views
    BY <2>1
  <2>. HIDE DEF u
  <2>3. Effect(k.p, k, u) = Unknown
    BY <2>2, EffectOn
  <2>4. ViewOf(NoParty) = Effect(p, k, ViewOf(party_copy[m][p])) /\ DataOf(NoParty) \subseteq ViewOf(NoParty).member
    BY <2>1, <2>3 DEF u
  <2>. HIDE DEF p
  <2>5. k.p = p /\ Types /\ DataOK /\ p \in PartyIds /\ party_copy' = [party_copy EXCEPT ![m][p] = NoParty]
    BY <1>1, <1>2 DEF p
  <2>6. /\ party_copy' \in [Server -> [PartyIds -> MapParty \cup {NoParty}]]
        /\ HandledCopies(m, k)
        /\ party_copy'[m][p] = NoParty
        /\ \A q \in PartyIds \ {p} : party_copy'[m][q] = party_copy[m][q]
    <3>1. NewCopy(m, k, p, NoParty)
      BY <2>4, <2>5 DEF NewCopy
    <3>. QED BY <2>5, <3>1, OneCopy
  <2>. QED BY <2>6
<1>4. HandledTypes /\ HandledPending(m, k)
  BY <1>1, <1>2, <1>3, SameTypes, SamePending
<1>5. ASSUME NEW c \in Fellow, Here(m, c) PROVE Settled(m, k, c)
  <2>. SUFFICES ASSUME NEW q \in PartyIds, party_id'[c] = q
                PROVE  /\ Here(m, c) /\ party_id[c] = q
                       /\ c \in DataOf(party_copy[m][q]) => c \in DataOf(party_copy'[m][q])
                       /\ ~(p = q /\ k.c = c /\ k.type \in {"withdraw", "info", "noinfo"})
    BY DEF Settled
  <2>1. q # 0 /\ party_id[c] = q
    BY IdsAreNumbers
  <2>2. ~(p = q /\ k.c = c /\ k.type \in {"withdraw", "info", "noinfo"})
    BY <1>5
  <2>3. c \in DataOf(party_copy[m][q]) => c \in DataOf(party_copy'[m][q])
    <3>1. CASE q = p
      <4>1. c \notin Losers(m, p)
        BY <2>1
      <4>2. c \notin DataOf(P)
        BY <1>5, <4>1 DEF Losers, DataOf
      <4>. QED BY <3>1, <4>2
    <3>2. CASE q # p
      BY <1>3, <3>2
    <3>. QED BY <3>1, <3>2
  <2>. QED BY <1>5, <2>1, <2>2, <2>3
<1>. QED BY <1>2, <1>3, <1>4, <1>5 DEF Handled, Comes, Grants

LEMMA LosersAre ==
  ASSUME Types, NEW m \in Server, NEW p \in PartyIds
  PROVE  \A c \in Losers(m, p) : c \in Fellow /\ Here(m, c)
<1>1. CASE party_copy[m][p] = NoParty
  BY <1>1 DEF Losers
<1>2. CASE party_copy[m][p] # NoParty
  <2>1. party_copy[m][p] \in MapParty
    BY <1>2, CopyView
  <2>. QED BY <1>2, <2>1, CopyRecord DEF Losers
<1>. QED BY <1>1, <1>2

LEMMA BrokenHandled ==
  ASSUME PInv, NEW m \in Server, NEW k \in Answers, k.type = "broken", party_broken(m, k)
  PROVE  Handled(m, k)
<1>1. Types /\ k.p \in PartyIds
  BY AnswerKinds DEF PInv
<1>2. Broken(m, k.p) /\ party_id' = [c \in Fellow |-> IF c \in Losers(m, k.p) THEN 0 ELSE party_id[c]]
  BY DEF party_broken
<1>3. \A c \in Losers(m, k.p) : c \in Fellow /\ Here(m, c)
  BY <1>1, LosersAre
<1>4. party_id' \in [Fellow -> 0 .. MaxParties]
  BY <1>1, <1>2, IdsAreNumbers DEF Types
<1>5. \A c \in Fellow : party_id'[c] = party_id[c] \/ (Here(m, c) /\ party_id'[c] = 0)
  BY <1>2, <1>3
<1>6. \A c \in Losers(m, k.p) : party_id'[c] = 0
  BY <1>2, <1>3
<1>. QED BY <1>2, <1>4, <1>5, <1>6, GoneHandled

LEMMA NoInfoHandled ==
  ASSUME PInv, NEW m \in Server, NEW k \in Answers, k.type = "noinfo", party_recv_noinfo(m, k)
  PROVE  Handled(m, k)
<1>. DEFINE ids == [c \in Fellow |-> IF c \in Losers(m, k.p) THEN 0 ELSE party_id[c]]
            here == {c \in {k.c} : Here(m, c)}
<1>1. Types /\ k.p \in PartyIds /\ k.c \in Fellow
  BY AnswerKinds DEF PInv
<1>2. Broken(m, k.p) /\ party_id' = NoMore(k.p, here, ids)
  BY DEF party_recv_noinfo
<1>3. \A c \in Losers(m, k.p) : c \in Fellow /\ Here(m, c)
  BY <1>1, LosersAre
<1>4. /\ ids \in [Fellow -> 0 .. MaxParties]
      /\ \A c \in Fellow : ids[c] = IF c \in Losers(m, k.p) THEN 0 ELSE party_id[c]
  BY <1>1, IdsAreNumbers DEF Types
<1>5. \A c : c \in here <=> c = k.c /\ Here(m, c)
  OBVIOUS
<1>. HIDE DEF ids, here
<1>6. /\ party_id' \in [Fellow -> 0 .. MaxParties]
      /\ \A c \in Fellow : party_id'[c] = IF c \in here /\ ids[c] = k.p THEN 0 ELSE ids[c]
  BY <1>2, <1>4, NoMoreIs
<1>7. \A c \in Fellow : party_id'[c] = party_id[c] \/ (Here(m, c) /\ party_id'[c] = 0)
  BY <1>3, <1>4, <1>5, <1>6
<1>8. \A c \in Losers(m, k.p) : party_id'[c] = 0
  BY <1>3, <1>4, <1>6
<1>9. ~(Here(m, k.c) /\ party_id'[k.c] = k.p)
  BY <1>1, <1>5, <1>6, IdsAreNumbers
<1>. QED BY <1>2, <1>6, <1>7, <1>8, <1>9, GoneHandled

\* An answer that leaves the copies alone.
LEMMA PlainEffect ==
  ASSUME Types, NEW m \in Server, NEW k,
         k.type \notin {"info", "noinfo", "broken", "option", "withdraw"}
  PROVE  \A p \in PartyIds : Effect(p, k, ViewOf(party_copy[m][p])) = ViewOf(party_copy[m][p])
<1>. SUFFICES ASSUME NEW p \in PartyIds
              PROVE  Effect(p, k, ViewOf(party_copy[m][p])) = ViewOf(party_copy[m][p])
  OBVIOUS
<1>. DEFINE u == ViewOf(party_copy[m][p])
<1>1. u \in Views
  BY CopyView
<1>. HIDE DEF u
<1>2. Effect(p, k, u) = u
  BY <1>1, EffectIs
<1>. QED BY <1>2 DEF u

LEMMA CreatedHandled ==
  ASSUME PInv, NEW m \in Server, NEW k \in Answers, k.type = "created", party_created(m, k)
  PROVE  Handled(m, k)
<1>1. Types /\ DataOK /\ k.p \in 0 .. MaxParties /\ k.c \in Fellow
  BY AnswerKinds DEF PInv
<1>2. in_game' = in_game /\ party_invite' = party_invite /\ party_copy' = party_copy
  BY DEF party_created
<1>3. /\ party_copy' \in [Server -> [PartyIds -> MapParty \cup {NoParty}]]
      /\ HandledCopies(m, k)
  BY <1>1, <1>2, PlainEffect, SameCopies
<1>. SUFFICES ASSUME /\ HandledTypes /\ HandledPending(m, k)
                     /\ \A c \in Fellow : party_id'[c] = party_id[c] \/ (Here(m, c) /\ Grants(k) /\ k.c = c /\ party_id'[c] = k.p)
              PROVE  Handled(m, k)
  <2>1. CASE Here(m, k.c) /\ party_pending[k.c] = "creating"
    <3>1. /\ party_pending' = [party_pending EXCEPT ![k.c] = "no"]
          /\ party_id' = IF k.p = 0 THEN party_id ELSE [party_id EXCEPT ![k.c] = k.p]
          /\ partyToChar' = partyToChar
      BY <2>1 DEF party_created
    <3>2. party_id' \in [Fellow -> 0 .. MaxParties]
      BY <1>1, <3>1 DEF Types
    <3>3. HandledTypes
      BY <1>1, <1>2, <1>3, <3>1, <3>2, SameTypes
    <3>4. HandledPending(m, k)
      BY <1>1, <3>1 DEF HandledPending, Types
    <3>5. \A c \in Fellow : party_id'[c] = party_id[c] \/ (Here(m, c) /\ Grants(k) /\ k.c = c /\ party_id'[c] = k.p)
      BY <1>1, <2>1, <3>1 DEF Grants, Types
    <3>. QED BY <3>3, <3>4, <3>5
  <2>2. CASE ~(Here(m, k.c) /\ party_pending[k.c] = "creating")
    <3>. DEFINE l == Packet("leave", k.p, k.c, 0)
                s == IF k.p = 0 THEN <<>> ELSE <<l>>
    <3>1. ToChar(m, s) /\ party_pending' = party_pending /\ party_id' = party_id
      BY <2>2 DEF party_created
    <3>2. s \in Seq(Requests)
      <4>1. k.p # 0 => l \in Requests
        BY <1>1, RequestsTyped, IdsAreNumbers
      <4>. HIDE DEF l
      <4>2. <<>> \in Seq(Requests) /\ (k.p # 0 => <<l>> \in Seq(Requests))
        BY <4>1
      <4>. QED BY <4>2
    <3>. HIDE DEF s
    <3>3. HandledTypes
      <4>1. /\ party_invite' \in [Fellow -> 0 .. MaxParties] /\ party_id' \in [Fellow -> 0 .. MaxParties]
        BY <1>1, <1>2, <3>1 DEF Types
      <4>. QED BY <1>1, <1>3, <3>1, <3>2, <4>1, AsksTypes
    <3>4. HandledPending(m, k)
      BY <1>1, <2>2, <3>1 DEF HandledPending, Types
    <3>. QED BY <3>1, <3>3, <3>4
  <2>. QED BY <2>1, <2>2
<1>4. ASSUME NEW c \in Fellow, Here(m, c) PROVE Settled(m, k, c)
  BY <1>2, <1>4 DEF Settled
<1>. QED BY <1>2, <1>3, <1>4 DEF Handled, Comes

LEMMA AddedHandled ==
  ASSUME PInv, NEW m \in Server, NEW k \in Answers, k.type = "added", party_member_added(m, k)
  PROVE  Handled(m, k)
<1>1. Types /\ DataOK /\ k.p \in PartyIds /\ k.p \in 0 .. MaxParties /\ k.c \in Fellow /\ k.x \in BOOLEAN
  BY AnswerKinds DEF PInv
<1>2. in_game' = in_game /\ party_copy' = party_copy
  BY DEF party_member_added
<1>3. /\ party_copy' \in [Server -> [PartyIds -> MapParty \cup {NoParty}]]
      /\ HandledCopies(m, k)
  BY <1>1, <1>2, PlainEffect, SameCopies
<1>. DEFINE l == Packet("leave", k.p, k.c, 0)
<1>4. <<>> \in Seq(Requests) /\ <<l>> \in Seq(Requests)
  <2>1. l \in Requests
    BY <1>1, RequestsTyped
  <2>. HIDE DEF l
  <2>. QED BY <2>1
<1>5. ASSUME NEW s \in Seq(Requests), ToChar(m, s), party_invite' \in [Fellow -> 0 .. MaxParties],
             party_id' = party_id
      PROVE  HandledTypes
  <2>1. party_id' \in [Fellow -> 0 .. MaxParties]
    BY <1>1, <1>5 DEF Types
  <2>. QED BY <1>1, <1>3, <1>5, <2>1, AsksTypes
<1>. SUFFICES ASSUME /\ HandledTypes /\ HandledPending(m, k)
                     /\ \A c \in Fellow : party_id'[c] = party_id[c] \/ (Here(m, c) /\ Grants(k) /\ k.c = c /\ party_id'[c] = k.p)
              PROVE  Handled(m, k)
  <2>1. CASE Here(m, k.c) /\ party_pending[k.c] = "joining"
    <3>1. /\ party_pending' = [party_pending EXCEPT ![k.c] = "no"]
          /\ party_invite' = [party_invite EXCEPT ![k.c] = 0]
      BY <2>1 DEF party_member_added
    <3>2. HandledPending(m, k)
      BY <1>1, <3>1 DEF HandledPending, Types
    <3>3. party_invite' \in [Fellow -> 0 .. MaxParties]
      BY <1>1, <3>1, IdsAreNumbers DEF Types
    <3>4. CASE party_copy[m][k.p] = NoParty
      <4>1. ToChar(m, <<l>>) /\ party_id' = party_id
        BY <2>1, <3>4 DEF party_member_added
      <4>2. HandledTypes
        <5>1. PICK s : s = <<l>>
          OBVIOUS
        <5>2. s \in Seq(Requests) /\ ToChar(m, s)
          BY <1>4, <4>1, <5>1
        <5>. QED BY <1>5, <3>3, <4>1, <5>2
      <4>. QED BY <3>2, <4>1, <4>2
    <3>5. CASE party_copy[m][k.p] # NoParty
      <4>1. party_id' = (IF k.x THEN [party_id EXCEPT ![k.c] = k.p] ELSE party_id) /\ partyToChar' = partyToChar
        BY <2>1, <3>5 DEF party_member_added
      <4>2. party_id' \in [Fellow -> 0 .. MaxParties]
        BY <1>1, <4>1 DEF Types
      <4>3. HandledTypes
        BY <1>1, <1>3, <3>3, <4>1, <4>2 DEF HandledTypes, Types, PacketsTyped
      <4>4. \A c \in Fellow : party_id'[c] = party_id[c] \/ (Here(m, c) /\ Grants(k) /\ k.c = c /\ party_id'[c] = k.p)
        BY <1>1, <2>1, <4>1 DEF Grants, Types
      <4>. QED BY <3>2, <4>3, <4>4
    <3>. QED BY <3>4, <3>5
  <2>2. CASE ~(Here(m, k.c) /\ party_pending[k.c] = "joining")
    <3>. DEFINE s == IF k.x THEN <<l>> ELSE <<>>
    <3>1. /\ ToChar(m, s) /\ party_pending' = party_pending /\ party_id' = party_id
          /\ party_invite' = party_invite
      BY <2>2 DEF party_member_added
    <3>2. s \in Seq(Requests)
      <4>. HIDE DEF l
      <4>. QED BY <1>4
    <3>. HIDE DEF s
    <3>3. party_invite' \in [Fellow -> 0 .. MaxParties]
      BY <1>1, <3>1 DEF Types
    <3>4. HandledTypes
      BY <1>5, <3>1, <3>2, <3>3
    <3>5. HandledPending(m, k)
      BY <1>1, <2>2, <3>1 DEF HandledPending, Types
    <3>. QED BY <3>1, <3>4, <3>5
  <2>. QED BY <2>1, <2>2
<1>6. ASSUME NEW c \in Fellow, Here(m, c) PROVE Settled(m, k, c)
  BY <1>2, <1>6 DEF Settled
<1>. QED BY <1>2, <1>3, <1>6 DEF Handled, Comes

\* A copy with other data: what it says of the members is the same.
LEMMA CopyData ==
  ASSUME NEW P \in MapParty, NEW D \in SUBSET Fellow
  PROVE  /\ [P EXCEPT !.data = D] \in MapParty
         /\ ViewOf([P EXCEPT !.data = D]) = ViewOf(P)
         /\ DataOf([P EXCEPT !.data = D]) = D
<1>. DEFINE Q == [P EXCEPT !.data = D]
<1>1. Q \in MapParty /\ Q.member = P.member /\ Q.exp = P.exp /\ Q.data = D
  BY DEF MapParty
<1>. HIDE DEF Q
<1>2. ViewOf(Q) = View(P.member, P.exp) /\ DataOf(Q) = D /\ ViewOf(P) = View(P.member, P.exp)
  BY <1>1, CopyRecord
<1>. QED BY <1>1, <1>2 DEF Q

LEMMA JoinedIs ==
  ASSUME NEW p \in 0 .. MaxParties, NEW cs, NEW ids \in [Fellow -> 0 .. MaxParties]
  PROVE  /\ Joined(ids, p, cs) \in [Fellow -> 0 .. MaxParties]
         /\ \A c \in Fellow : Joined(ids, p, cs)[c] = IF c \in cs THEN p ELSE ids[c]
BY DEF Joined

LEMMA MovedHandled ==
  ASSUME PInv, NEW m \in Server, NEW k \in Answers, k.type = "moved", party_recv_movemap(m, k)
  PROVE  Handled(m, k)
<1>. DEFINE p == k.p
            d == k.c
            P == party_copy[m][p]
            D == Checked(m, p, {d}, party_id)
            N == (P.data \ {d}) \cup D
            Q == [P EXCEPT !.data = N]
            cs == Strangers(m, p, {d}, party_id)
            s == LeaveAll(p, cs)
<1>1. /\ Types /\ DataOK /\ p \in PartyIds /\ p \in 0 .. MaxParties /\ d \in Fellow
      /\ party_id \in [Fellow -> 0 .. MaxParties] /\ party_invite \in [Fellow -> 0 .. MaxParties]
  BY AnswerKinds DEF PInv, Types
<1>2. in_game' = in_game /\ party_invite' = party_invite /\ party_pending' = party_pending
  BY DEF party_recv_movemap
<1>3. HandledPending(m, k)
  BY <1>1, <1>2, SamePending
<1>4. CASE P = NoParty \/ d \notin P.member
  <2>1. party_copy' = party_copy /\ party_id' = party_id /\ partyToChar' = partyToChar
    BY <1>4 DEF party_recv_movemap
  <2>2. /\ party_copy' \in [Server -> [PartyIds -> MapParty \cup {NoParty}]]
        /\ HandledCopies(m, k)
    BY <1>1, <2>1, PlainEffect, SameCopies
  <2>3. HandledTypes
    BY <1>1, <1>2, <2>1, <2>2, SameTypes
  <2>4. ASSUME NEW c \in Fellow, Here(m, c) PROVE Settled(m, k, c)
    BY <2>1, <2>4 DEF Settled
  <2>. QED BY <1>2, <1>3, <2>1, <2>2, <2>3, <2>4 DEF Handled, Comes, Grants
<1>5. CASE P # NoParty /\ d \in P.member
  <2>1. /\ party_copy' = [party_copy EXCEPT ![m][p].data = (@ \ {d}) \cup D]
        /\ party_id' = Joined(party_id, p, D)
        /\ ToChar(m, s)
    BY <1>5 DEF party_recv_movemap
  <2>2. /\ P \in MapParty /\ P.data \in SUBSET Fellow /\ DataOf(P) = P.data /\ ViewOf(P) \in Views
        /\ ViewOf(P).member = P.member /\ P.data \subseteq P.member
    <3>1. P \in MapParty
      BY <1>1, <1>5, CopyView
    <3>2. DataOf(P) = P.data /\ ViewOf(P).member = P.member /\ P.data \in SUBSET Fellow /\ ViewOf(P) \in Views
      BY <3>1, CopyRecord
    <3>3. DataOf(P) \subseteq ViewOf(P).member
      BY <1>1 DEF DataOK
    <3>. QED BY <3>1, <3>2, <3>3
  <2>3. /\ \A c : c \in D <=> c = d /\ Here(m, c) /\ party_id[c] \in {0, p}
        /\ D \subseteq {d}
    BY DEF Checked
  <2>4. cs \in SUBSET Fellow
    BY DEF Strangers
  <2>5. s \in Seq(Requests)
    <3>. HIDE DEF cs, p
    <3>. QED BY <1>1, <2>4, LeavesTyped
  <2>. HIDE DEF D, s, cs
  <2>6. N \in SUBSET Fellow /\ N \subseteq P.member
    BY <1>1, <1>5, <2>2, <2>3
  <2>7. party_copy' = [party_copy EXCEPT ![m][p] = Q]
    BY <1>1, <2>1
  <2>. HIDE DEF N
  <2>8. Q \in MapParty /\ ViewOf(Q) = ViewOf(P) /\ DataOf(Q) = N
    BY <2>2, <2>6, CopyData
  <2>9. Effect(p, k, ViewOf(party_copy[m][p])) = ViewOf(party_copy[m][p])
    BY <1>1, PlainEffect
  <2>. HIDE DEF Q
  <2>10. /\ party_copy' \in [Server -> [PartyIds -> MapParty \cup {NoParty}]]
         /\ HandledCopies(m, k)
         /\ party_copy'[m][p] = Q
         /\ \A q \in PartyIds \ {p} : party_copy'[m][q] = party_copy[m][q]
    <3>1. /\ Q \in MapParty \cup {NoParty} /\ ViewOf(Q) = Effect(p, k, ViewOf(party_copy[m][p]))
          /\ DataOf(Q) \subseteq ViewOf(Q).member /\ k.p = p
      BY <2>2, <2>6, <2>8, <2>9
    <3>2. NewCopy(m, k, p, Q)
      BY <1>1, <2>7, <3>1 DEF NewCopy
    <3>. HIDE DEF p, P
    <3>. QED BY <1>1, <3>2, OneCopy
  <2>11. /\ party_id' \in [Fellow -> 0 .. MaxParties]
         /\ \A c \in Fellow : party_id'[c] = IF c \in D THEN p ELSE party_id[c]
    <3>. HIDE DEF p
    <3>. QED BY <1>1, <2>1, JoinedIs
  <2>12. HandledTypes
    BY <1>1, <1>2, <2>1, <2>5, <2>10, <2>11, AsksTypes
  <2>13. ASSUME NEW c \in Fellow, Here(m, c) PROVE Settled(m, k, c)
    <3>. SUFFICES ASSUME NEW q \in PartyIds, party_id'[c] = q
                  PROVE  \/ c \in DataOf(party_copy'[m][q])
                         \/ /\ party_id[c] = q
                            /\ c \in DataOf(party_copy[m][q]) => c \in DataOf(party_copy'[m][q])
      BY <2>13 DEF Settled
    <3>1. CASE c \in D
      <4>1. q = p /\ c \in N
        BY <2>11, <3>1 DEF N
      <4>. QED BY <2>8, <2>10, <4>1
    <3>2. CASE c \notin D
      <4>1. party_id[c] = q
        BY <2>11, <3>2
      <4>2. CASE q = p
        <5>1. c # d
          BY <2>3, <2>13, <3>2, <4>1, <4>2
        <5>. QED BY <2>2, <2>8, <2>10, <4>1, <4>2, <5>1 DEF N
      <4>3. CASE q # p
        BY <2>10, <4>1, <4>3
      <4>. QED BY <4>2, <4>3
    <3>. QED BY <3>1, <3>2
  <2>14. \A c \in Fellow : party_id'[c] = party_id[c] \/ Here(m, c)
    BY <2>3, <2>11
  <2>. QED BY <1>2, <1>3, <2>10, <2>12, <2>13, <2>14 DEF Handled, Comes, Grants
<1>. QED BY <1>4, <1>5

LEMMA InfoHandled ==
  ASSUME PInv, NEW m \in Server, NEW k \in Answers, k.type = "info", party_recv_info(m, k)
  PROVE  Handled(m, k)
<1>. DEFINE p == k.p
            M == k.x.member
            e == k.x.exp
            h == k.x.leader
            P == party_copy[m][p]
            gone == IF P = NoParty THEN {} ELSE P.data \ M
            left == {c \in gone : Here(m, c)}
            ids == NoMore(p, left, party_id)
            D == Checked(m, p, M, ids)
            joined == Joined(ids, p, D)
            out == {c \in {k.c} \ M : Here(m, c)}
            Q == [member |-> M, leader |-> h, exp |-> e, data |-> D]
            cs == Strangers(m, p, M, ids)
            s == LeaveAll(p, cs)
<1>1. /\ Types /\ DataOK /\ p \in PartyIds /\ p \in 0 .. MaxParties
      /\ M \in SUBSET Fellow /\ e \in BOOLEAN /\ h \in Fellow \cup {Leaderless}
      /\ party_id \in [Fellow -> 0 .. MaxParties] /\ party_invite \in [Fellow -> 0 .. MaxParties]
  BY AnswerKinds DEF PInv, Types, SharingOf
<1>2. /\ party_copy' = [party_copy EXCEPT ![m][p] = Q]
      /\ party_id' = NoMore(p, out, joined)
      /\ ToChar(m, s)
      /\ in_game' = in_game /\ party_invite' = party_invite /\ party_pending' = party_pending
  BY DEF party_recv_info
<1>3. HandledPending(m, k)
  BY <1>1, <1>2, SamePending
<1>4. DataOf(P) = IF P = NoParty THEN {} ELSE P.data
  BY DEF DataOf
<1>5. \A c : c \in left <=> c \in DataOf(P) /\ c \notin M /\ Here(m, c)
  BY <1>4
<1>6. \A c : c \in out <=> c = k.c /\ c \notin M /\ Here(m, c)
  OBVIOUS
<1>7. /\ \A c : c \in D <=> c \in M /\ Here(m, c) /\ ids[c] \in {0, p}
      /\ \A c : c \in cs <=> c \in Fellow /\ c \in M /\ Here(m, c) /\ ids[c] \notin {0, p}
  BY DEF Checked, Strangers
<1>8. D \in SUBSET Fellow /\ D \subseteq M /\ cs \in SUBSET Fellow
  <2>. HIDE DEF M, D, cs
  <2>. QED BY <1>1, <1>7
<1>9. /\ s \in Seq(Requests)
      /\ \A c \in cs : Packet("leave", p, c, 0) \in ToSet(s)
  <2>. HIDE DEF cs, p
  <2>. QED BY <1>1, <1>8, LeavesTyped
<1>10. /\ ids \in [Fellow -> 0 .. MaxParties]
       /\ \A c \in Fellow : ids[c] = IF c \in left /\ party_id[c] = p THEN 0 ELSE party_id[c]
  <2>. HIDE DEF left, p
  <2>. QED BY <1>1, NoMoreIs
<1>. HIDE DEF D, cs, s, out, left, ids
<1>11. /\ joined \in [Fellow -> 0 .. MaxParties]
       /\ \A c \in Fellow : joined[c] = IF c \in D THEN p ELSE ids[c]
  <2>. HIDE DEF p
  <2>. QED BY <1>1, <1>10, JoinedIs
<1>. HIDE DEF joined
<1>12. /\ party_id' \in [Fellow -> 0 .. MaxParties]
       /\ \A c \in Fellow : party_id'[c] = IF c \in out /\ joined[c] = p THEN 0 ELSE joined[c]
  <2>. HIDE DEF p
  <2>. QED BY <1>2, <1>11, NoMoreIs
<1>13. Q \in MapParty /\ Q.member = M /\ Q.exp = e /\ Q.data = D
  <2>. HIDE DEF M, e, h
  <2>. QED BY <1>1, <1>8 DEF MapParty
<1>. HIDE DEF Q
<1>14. ViewOf(Q) = View(M, e) /\ DataOf(Q) = D /\ ViewOf(Q).member = M
  BY <1>13, CopyRecord
<1>15. Effect(p, k, ViewOf(P)) = View(M, e)
  <2>. DEFINE u == ViewOf(P)
  <2>1. u \in Views
    BY <1>1, CopyView
  <2>. HIDE DEF u
  <2>2. Effect(k.p, k, u) = [known |-> TRUE, member |-> k.x.member, exp |-> k.x.exp]
    BY <2>1, EffectOn
  <2>. QED BY <2>2 DEF View, u
<1>16. /\ party_copy' \in [Server -> [PartyIds -> MapParty \cup {NoParty}]]
       /\ HandledCopies(m, k)
       /\ party_copy'[m][p] = Q
       /\ \A q \in PartyIds \ {p} : party_copy'[m][q] = party_copy[m][q]
  <2>1. /\ Q \in MapParty \cup {NoParty} /\ ViewOf(Q) = Effect(p, k, ViewOf(party_copy[m][p]))
        /\ DataOf(Q) \subseteq ViewOf(Q).member /\ k.p = p
    BY <1>8, <1>13, <1>14, <1>15
  <2>2. Types /\ DataOK /\ p \in PartyIds /\ party_copy' = [party_copy EXCEPT ![m][p] = Q]
    BY <1>1, <1>2
  <2>3. NewCopy(m, k, p, Q)
    BY <2>1, <2>2 DEF NewCopy
  <2>. HIDE DEF p, P
  <2>. QED BY <2>2, <2>3, OneCopy
<1>17. /\ HandledTypes
       /\ \A l \in ToSet(s) : l \in ToSet(partyToChar'[m])
  BY <1>1, <1>2, <1>9, <1>12, <1>16, AsksTypes
<1>18. ASSUME NEW c \in Fellow, Here(m, c) PROVE Settled(m, k, c)
  <2>. SUFFICES ASSUME NEW q \in PartyIds, party_id'[c] = q
                PROVE  \/ c \in DataOf(party_copy'[m][q])
                       \/ /\ party_id[c] = q
                          /\ c \in DataOf(party_copy[m][q]) => c \in DataOf(party_copy'[m][q])
                          /\ ~(p = q /\ k.c = c)
    BY <1>18 DEF Settled
  <2>0. q # 0
    BY IdsAreNumbers
  <2>1. CASE c \in D
    <3>1. joined[c] = p /\ c \in M /\ c \notin out
      BY <1>6, <1>7, <1>11, <2>1
    <3>2. q = p
      BY <1>12, <3>1
    <3>. QED BY <1>14, <1>16, <2>1, <3>2
  <2>2. CASE c \notin D
    <3>1. joined[c] = ids[c]
      BY <1>11, <2>2
    <3>2. q = ids[c] /\ q = party_id[c] /\ ~(c \in left /\ party_id[c] = p) /\ ~(c \in out /\ q = p)
      BY <1>10, <1>12, <2>0, <3>1
    <3>3. CASE q # p
      BY <1>16, <3>2, <3>3
    <3>4. CASE q = p
      <4>1. c \notin M
        BY <1>7, <1>18, <2>2, <3>2, <3>4
      <4>2. c # k.c /\ c \notin DataOf(P)
        BY <1>5, <1>6, <1>18, <3>2, <3>4, <4>1
      <4>. QED BY <3>2, <3>4, <4>2
    <3>. QED BY <3>3, <3>4
  <2>. QED BY <2>1, <2>2
<1>19. \A c \in Fellow : party_id'[c] = party_id[c] \/ Here(m, c)
  BY <1>5, <1>6, <1>7, <1>10, <1>11, <1>12
<1>20. ASSUME NEW c \in M, Here(m, c)
       PROVE  c \in DataOf(party_copy'[m][p]) \/ Packet("leave", p, c, 0) \in ToSet(partyToChar'[m])
  <2>1. c \in D \/ c \in cs
    <3>1. c \in Fellow
      <4>. HIDE DEF M
      <4>. QED BY <1>1
    <3>. QED BY <1>7, <1>20, <3>1
  <2>2. c \in D => c \in DataOf(party_copy'[m][p])
    BY <1>14, <1>16
  <2>3. c \in cs => Packet("leave", p, c, 0) \in ToSet(partyToChar'[m])
    BY <1>9, <1>17
  <2>. QED BY <2>1, <2>2, <2>3
<1>. QED BY <1>2, <1>3, <1>16, <1>17, <1>18, <1>19, <1>20 DEF Handled, Comes, Grants

LEMMA JoinedHandled ==
  ASSUME PInv, NEW m \in Server, NEW k \in Answers, k.type = "authok", PartyJoined(m, k),
         at[k.c] = m
  PROVE  Handled(m, k)
<1>. DEFINE p == k.p
            d == k.c
            known == p # 0 /\ party_copy[m][p] # NoParty
            listed == known /\ d \in party_copy[m][p].member
            N(q) == IF listed /\ q = p THEN party_copy[m][q].data \cup {d} ELSE party_copy[m][q].data \ {d}
            others == [q \in PartyIds |->
                         IF party_copy[m][q] = NoParty THEN NoParty
                         ELSE [party_copy[m][q] EXCEPT !.data = IF listed /\ q = p THEN @ \cup {d} ELSE @ \ {d}]]
            l == Packet("info", p, d, 0)
            s == IF p # 0 /\ ~known THEN <<l>> ELSE <<>>
            j == IF known /\ ~listed THEN 0 ELSE p
<1>1. /\ Types /\ DataOK /\ p \in 0 .. MaxParties /\ d \in Fellow
      /\ party_id \in [Fellow -> 0 .. MaxParties] /\ party_invite \in [Fellow -> 0 .. MaxParties]
      /\ party_copy \in [Server -> [PartyIds -> MapParty \cup {NoParty}]]
  BY AnswerKinds DEF PInv, Types
<1>2. /\ in_game' = in_game \cup {d}
      /\ party_id' = [party_id EXCEPT ![d] = j]
      /\ party_copy' = [party_copy EXCEPT ![m] = others]
      /\ ToChar(m, s)
      /\ party_invite' = party_invite /\ party_pending' = party_pending
  BY DEF PartyJoined, JoinedAs
<1>3. HandledPending(m, k)
  BY <1>1, <1>2, SamePending
<1>4. j \in 0 .. MaxParties /\ (p # 0 => p \in PartyIds)
  BY <1>1, IdsAreNumbers
<1>5. s \in Seq(Requests) /\ (p # 0 /\ ~known => l \in ToSet(s))
  <2>1. p # 0 => l \in Requests
    BY <1>1, <1>4, RequestsTyped
  <2>2. p # 0 => <<l>> \in Seq(Requests) /\ ToSet(<<l>>) = {l}
    <3>. DEFINE S == Requests
    <3>1. p # 0 => l \in S
      BY <2>1
    <3>. HIDE DEF l, S
    <3>2. p # 0 => <<l>> \in Seq(S) /\ ToSet(<<l>>) = {l}
      BY <3>1, PacketsOfOne
    <3>. QED BY <3>2 DEF S
  <2>3. <<>> \in Seq(Requests)
    OBVIOUS
  <2>. HIDE DEF l, known
  <2>. QED BY <2>2, <2>3
<1>6. ASSUME NEW q \in PartyIds, party_copy[m][q] = NoParty
      PROVE  others[q] = NoParty
  BY <1>6
<1>7. ASSUME NEW q \in PartyIds, party_copy[m][q] # NoParty
      PROVE  /\ others[q] \in MapParty
             /\ ViewOf(others[q]) = ViewOf(party_copy[m][q]) /\ DataOf(others[q]) = N(q)
             /\ N(q) \subseteq ViewOf(party_copy[m][q]).member
             /\ DataOf(party_copy[m][q]) = party_copy[m][q].data
  <2>. DEFINE P == party_copy[m][q]
              D == N(q)
  <2>1. P \in MapParty /\ q # 0
    BY <1>1, <1>7, IdsAreNumbers, CopyView
  <2>2. /\ DataOf(P) = P.data /\ ViewOf(P).member = P.member /\ P.data \in SUBSET Fellow
        /\ DataOf(P) \subseteq ViewOf(P).member
    BY <1>1, <2>1, CopyRecord DEF DataOK
  <2>3. others[q] = [P EXCEPT !.data = D]
    <3>. HIDE DEF listed
    <3>. QED BY <1>7
  <2>4. D \in SUBSET Fellow /\ D \subseteq P.member
    BY <1>1, <2>2
  <2>. HIDE DEF P, D, others
  <2>5. /\ [P EXCEPT !.data = D] \in MapParty
        /\ ViewOf([P EXCEPT !.data = D]) = ViewOf(P)
        /\ DataOf([P EXCEPT !.data = D]) = D
    BY <2>1, <2>4, CopyData
  <2>6. others[q] \in MapParty /\ ViewOf(others[q]) = ViewOf(P) /\ DataOf(others[q]) = D
    BY <2>3, <2>5
  <2>. QED BY <2>2, <2>4, <2>6 DEF P, D
<1>8. others \in [PartyIds -> MapParty \cup {NoParty}]
  <2>1. \A q \in PartyIds : others[q] \in MapParty \cup {NoParty}
    BY <1>6, <1>7
  <2>2. others = [q \in PartyIds |-> others[q]]
    OBVIOUS
  <2>. HIDE DEF others
  <2>. QED BY <2>1, <2>2
<1>. HIDE DEF others, s, l
<1>9. /\ party_copy' \in [Server -> [PartyIds -> MapParty \cup {NoParty}]]
      /\ party_copy'[m] = others
      /\ \A n \in Server \ {m} : party_copy'[n] = party_copy[n]
  BY <1>1, <1>2, <1>8
<1>10. \A q \in PartyIds : Effect(q, k, ViewOf(party_copy[m][q])) = ViewOf(party_copy[m][q])
  BY <1>1, PlainEffect
<1>11. ASSUME NEW q \in PartyIds
       PROVE  /\ ViewOf(party_copy'[m][q]) = ViewOf(party_copy[m][q])
              /\ DataOf(party_copy'[m][q]) \subseteq ViewOf(party_copy[m][q]).member
              /\ DataOf(party_copy'[m][q]) = IF party_copy[m][q] = NoParty THEN {} ELSE N(q)
  <2>1. CASE party_copy[m][q] = NoParty
    BY <1>6, <1>9, <2>1 DEF DataOf
  <2>2. CASE party_copy[m][q] # NoParty
    BY <1>7, <1>9, <2>2
  <2>. QED BY <2>1, <2>2
<1>12. HandledCopies(m, k)
  BY <1>9, <1>10, <1>11 DEF HandledCopies
<1>13. /\ party_id' \in [Fellow -> 0 .. MaxParties]
       /\ party_id'[d] = j
       /\ \A c \in Fellow \ {d} : party_id'[c] = party_id[c]
  <2>. HIDE DEF j
  <2>. QED BY <1>1, <1>2, <1>4
<1>14. /\ HandledTypes
       /\ \A x \in ToSet(s) : x \in ToSet(partyToChar'[m])
  BY <1>1, <1>2, <1>5, <1>9, <1>13, AsksTypes
<1>15. ASSUME NEW c \in Fellow, c # d, Here(m, c) PROVE Settled(m, k, c)
  <2>. SUFFICES ASSUME NEW q \in PartyIds, party_id'[c] = q
                PROVE  /\ party_id[c] = q
                       /\ c \in DataOf(party_copy[m][q]) => c \in DataOf(party_copy'[m][q])
    BY <1>15 DEF Settled
  <2>1. party_id[c] = q
    BY <1>13, <1>15
  <2>2. ASSUME c \in DataOf(party_copy[m][q]) PROVE c \in DataOf(party_copy'[m][q])
    <3>1. party_copy[m][q] # NoParty
      BY <2>2 DEF DataOf
    <3>2. c \in party_copy[m][q].data
      BY <2>2, <3>1 DEF DataOf
    <3>3. c \in N(q)
      BY <1>15, <3>2
    <3>. QED BY <1>11, <3>1, <3>3
  <2>. QED BY <2>1, <2>2
<1>16. Settled(m, k, d)
  <2>. SUFFICES ASSUME NEW q \in PartyIds, party_id'[d] = q
                PROVE  \/ d \in DataOf(party_copy'[m][q])
                       \/ Packet("info", q, d, 0) \in ToSet(partyToChar'[m])
    BY DEF Settled
  <2>1. q # 0 /\ q = p /\ ~(known /\ ~listed)
    BY <1>13, IdsAreNumbers
  <2>2. CASE known
    <3>1. listed /\ party_copy[m][q] # NoParty
      BY <2>1, <2>2
    <3>2. d \in N(q)
      BY <2>1, <3>1
    <3>. QED BY <1>11, <3>1, <3>2
  <2>3. CASE ~known
    <3>1. l \in ToSet(partyToChar'[m])
      BY <1>5, <1>14, <2>1, <2>3
    <3>. QED BY <2>1, <3>1 DEF l
  <2>. QED BY <2>2, <2>3
<1>17. \A c \in Fellow : party_id'[c] = party_id[c] \/ c = d
  BY <1>13
<1>18. \A c \in Fellow : Here(m, c) \/ Comes(k, c) => Settled(m, k, c)
  BY <1>15, <1>16 DEF Comes
<1>. QED BY <1>2, <1>3, <1>12, <1>14, <1>17, <1>18 DEF Handled, Comes, Grants

LEMMA MapStepOK ==
  ASSUME PInv, NEW m \in Server, PartyMapHandles(m)
  PROVE  PInv'
<1>1. PICK k : k = Head(partyToMap[m])
  OBVIOUS
<1>2. /\ Takes(m, k) /\ at' = at /\ level' = level /\ acts' = acts
      /\ party_db' = party_db /\ party_row' = party_row /\ cached' = cached /\ last_party' = last_party
  BY <1>1 DEF PartyMapHandles, Takes, charParties
<1>3. \/ k.type = "authok" /\ PartyJoined(m, k)
      \/ k.type = "info" /\ party_recv_info(m, k)
      \/ k.type = "noinfo" /\ party_recv_noinfo(m, k)
      \/ k.type = "created" /\ party_created(m, k)
      \/ k.type = "added" /\ party_member_added(m, k)
      \/ k.type = "option" /\ party_optionchanged(m, k)
      \/ k.type = "withdraw" /\ party_member_withdraw(m, k)
      \/ k.type = "broken" /\ party_broken(m, k)
      \/ k.type = "moved" /\ party_recv_movemap(m, k)
  BY <1>1 DEF PartyMapHandles
<1>4. k \in Answers /\ k \in ToSet(partyToMap[m])
  <2>1. PacketsTyped
    BY DEF PInv, Types
  <2>. QED BY <1>2, <2>1, TakesTyped
<1>5. k.type = "authok" => at[k.c] = m
  BY <1>4 DEF PInv, SessionsOK
<1>6. Handled(m, k)
  BY <1>3, <1>4, <1>5, JoinedHandled, InfoHandled, NoInfoHandled, CreatedHandled, AddedHandled,
     OptionHandled, WithdrawHandled, BrokenHandled, MovedHandled
<1>. QED BY <1>2, <1>6, HandledOK

-----------------------------------------------------------------------------
(* The beginning, and every step *)

LEMMA StartOK == PartyInit => PInv
<1>. SUFFICES ASSUME PartyInit PROVE PInv
  OBVIOUS
<1>0. PICK team \in SUBSET Fellow, head \in Fellow, exp \in BOOLEAN : StartWith(team, head, exp)
  BY DEF PartyInit
<1>. DEFINE of == [c \in Fellow |-> IF c \in team THEN 1 ELSE 0]
            K(m) == [member |-> team, leader |-> head, exp |-> exp, data |-> {c \in team : at[c] = m}]
<1>1. /\ at \in [Fellow -> Server] /\ level \in [Fellow -> 1 .. TopLevel] /\ in_game = Fellow
      /\ last_party = (IF team = {} THEN 0 ELSE 1)
      /\ party_row = of /\ cached = of /\ party_id = of
      /\ party_invite = [c \in Fellow |-> 0] /\ party_pending = [c \in Fellow |-> "no"]
      /\ partyToChar = [m \in Server |-> <<>>] /\ partyToMap = [m \in Server |-> <<>>]
      /\ acts = 0
  BY <1>0, Zenon DEF StartWith
<1>2. party_copy = [m \in Server |-> [p \in PartyIds |->
         IF p # 1 \/ \A c \in team : at[c] # m THEN NoParty ELSE K(m)]]
  BY <1>0, Zenon DEF StartWith
<1>3. /\ \A p \in PartyIds : p # 1 \/ team = {} => party_db[p] = NoParty
      /\ team # {} => party_db[1] # NoParty /\ party_db[1].member = team /\ party_db[1].exp = exp
  <2>. DEFINE P == [member |-> team, online |-> team, leader |-> head, exp |-> exp,
                    lv |-> [c \in Fellow |-> IF c \in team THEN level[c] ELSE 0],
                    lo |-> Min({level[c] : c \in team}), hi |-> Max({level[c] : c \in team})]
  <2>1. party_db = [p \in PartyIds |-> IF p # 1 \/ team = {} THEN NoParty ELSE P]
    BY <1>0, Zenon DEF StartWith
  <2>2. team # {} => P \in CharParty /\ P.member = team /\ P.exp = exp
    BY <1>0, TeamOK
  <2>3. 1 \in PartyIds
    BY IdsAreNumbers DEF PartyIds
  <2>. HIDE DEF P
  <2>. QED BY <2>1, <2>2, <2>3, NoPartyAssumption
<1>4. /\ 1 \in PartyIds /\ 1 \in 0 .. MaxParties /\ 0 \in 0 .. MaxActs
      /\ \A p \in PartyIds : p > last_party => p # 1 \/ team = {}
      /\ last_party \in 0 .. MaxParties
  BY <1>1, IdsAreNumbers DEF PartyIds
<1>5. TInv /\ AllKept
  BY InitOK
<1>6. DbInv
  <2>1. party_db \in [PartyIds -> CharParty \cup {NoParty}]
    BY <1>5 DEF TInv, DbOK
  <2>2. ASSUME NEW p \in PartyIds, party_db[p] # NoParty PROVE WellKept(party_db[p])
    <3>. DEFINE P == party_db[p]
    <3>1. P \in CharParty /\ P.online \subseteq P.member /\ ShareKept(P)
      BY <1>5, <2>1, <2>2 DEF TInv, DbOK, AllKept
    <3>. HIDE DEF P
    <3>2. Exact(P) /\ Narrow(P)
      BY <3>1, KeptIsExact
    <3>3. WellKept(P)
      BY <3>1, <3>2 DEF WellKept, EdgesHeld, Exact
    <3>. QED BY <3>3 DEF P
  <2>. QED BY <1>3, <1>4, <2>1, <2>2 DEF DbInv
<1>7. ASSUME NEW m \in Server, NEW p \in PartyIds
      PROVE  /\ party_copy[m][p] \in MapParty \cup {NoParty}
             /\ \/ /\ party_copy[m][p] = NoParty /\ (p # 1 \/ \A c \in team : at[c] # m)
                \/ /\ party_copy[m][p] \in MapParty /\ p = 1 /\ team # {}
                   /\ party_copy[m][p].member = team /\ party_copy[m][p].exp = exp
                   /\ \A c \in Fellow : c \in party_copy[m][p].data <=> c \in team /\ at[c] = m
                   /\ party_copy[m][p].data \subseteq team
  <2>1. K(m) \in MapParty /\ K(m).member = team /\ K(m).exp = exp /\ K(m).data = {c \in team : at[c] = m}
    BY DEF MapParty
  <2>2. party_copy[m][p] = IF p # 1 \/ \A c \in team : at[c] # m THEN NoParty ELSE K(m)
    <3>. HIDE DEF K
    <3>. QED BY <1>2
  <2>. QED BY <2>1, <2>2
<1>8. Types
  <2>1. of \in [Fellow -> 0 .. MaxParties] /\ [c \in Fellow |-> 0] \in [Fellow -> 0 .. MaxParties]
    BY <1>4, IdsAreNumbers
  <2>2. [c \in Fellow |-> "no"] \in [Fellow -> {"no", "creating", "joining"}]
    OBVIOUS
  <2>3. party_copy \in [Server -> [PartyIds -> MapParty \cup {NoParty}]]
    BY <1>2, <1>7
  <2>4. PacketsTyped
    <3>1. <<>> \in Seq(Requests) /\ <<>> \in Seq(Answers)
      OBVIOUS
    <3>. QED BY <1>1, <3>1 DEF PacketsTyped
  <2>. HIDE DEF of
  <2>. QED BY <1>1, <1>4, <1>6, <2>1, <2>2, <2>3, <2>4 DEF Types, DbInv
<1>9. ASSUME NEW m \in Server
      PROVE  /\ partyToMap[m] = <<>> /\ ToSet(partyToMap[m]) = {} /\ Len(partyToMap[m]) = 0
  BY <1>1, PacketsOfNone
<1>10. CopiesOK
  <2>. SUFFICES ASSUME NEW m \in Server, NEW p \in PartyIds
                PROVE  \E v \in Views : /\ Reaches(p, ViewOf(party_copy[m][p]), partyToMap[m], v)
                                        /\ Fits(v, ViewOf(party_db[p]))
    BY DEF CopiesOK
  <2>. DEFINE u == ViewOf(party_copy[m][p])
  <2>1. u \in Views
    BY <1>8, CopyView
  <2>2. Fits(u, ViewOf(party_db[p]))
    <3>1. CASE party_copy[m][p] = NoParty
      BY <3>1, ViewsOf, ViewsAre DEF Fits
    <3>2. CASE party_copy[m][p] # NoParty
      <4>1. /\ party_copy[m][p] \in MapParty /\ p = 1 /\ team # {}
            /\ party_copy[m][p].member = team /\ party_copy[m][p].exp = exp
        BY <1>7, <3>2
      <4>2. u = View(team, exp) /\ u.known
        BY <4>1, CopyRecord
      <4>3. party_db[p] \in CharParty /\ party_db[p].member = team /\ party_db[p].exp = exp
        BY <1>3, <1>6, <4>1 DEF DbInv
      <4>4. ViewOf(party_db[p]) = View(team, exp)
        BY <4>3, ViewsOf
      <4>. QED BY <4>2, <4>4 DEF Fits
    <3>. QED BY <3>1, <3>2
  <2>. HIDE DEF u
  <2>3. Reaches(p, u, <<>>, u)
    BY <2>1, ReachNone
  <2>. QED BY <1>9, <2>1, <2>2, <2>3 DEF u
<1>11. DataOK
  <2>. SUFFICES ASSUME NEW m \in Server, NEW p \in PartyIds
                PROVE  DataOf(party_copy[m][p]) \subseteq ViewOf(party_copy[m][p]).member
    BY DEF DataOK
  <2>1. CASE party_copy[m][p] = NoParty
    BY <2>1 DEF DataOf
  <2>2. CASE party_copy[m][p] # NoParty
    BY <1>7, <2>2, CopyRecord
  <2>. QED BY <2>1, <2>2
<1>12. SessionsOK
  <2>1. \A m \in Server : Once(partyToMap[m])
    BY <1>9 DEF Once
  <2>. QED BY <1>1, <1>9, <2>1 DEF SessionsOK
<1>13. TiesOK
  <2>. SUFFICES ASSUME NEW m \in Server, NEW c \in Fellow, Here(m, c), party_id[c] # 0
                PROVE  Linked(m, c, party_id[c])
    BY DEF TiesOK
  <2>1. party_id[c] = 1 /\ c \in team /\ at[c] = m
    BY <1>1 DEF Here
  <2>2. party_copy[m][1] # NoParty /\ c \in party_copy[m][1].data
    BY <1>4, <1>7, <2>1, NoPartyAssumption
  <2>. QED BY <2>1, <2>2 DEF Linked, DataOf
<1>14. GrantsOK
  <2>1. \A m \in Server : Announced(partyToMap[m])
    BY <1>9 DEF Announced
  <2>. QED BY <1>9, <2>1 DEF GrantsOK
<1>15. PendingOK
  BY <1>1 DEF PendingOK
<1>. QED BY <1>6, <1>8, <1>10, <1>11, <1>12, <1>13, <1>14, <1>15 DEF PInv

LEMMA StillOK == PInv /\ UNCHANGED partyVars => PInv'
<1>. SUFFICES ASSUME PInv, UNCHANGED partyVars PROVE PInv'
  OBVIOUS
<1>1. /\ party_db' = party_db /\ party_row' = party_row /\ cached' = cached /\ at' = at
      /\ level' = level /\ in_game' = in_game /\ party_id' = party_id
      /\ party_invite' = party_invite /\ party_pending' = party_pending
      /\ party_copy' = party_copy /\ partyToChar' = partyToChar /\ partyToMap' = partyToMap
      /\ last_party' = last_party /\ acts' = acts
  BY DEF partyVars
<1>2. Types' /\ DbInv' /\ CopiesOK' /\ DataOK'
  BY <1>1 DEF PInv, Types, PacketsTyped, DbInv, CopiesOK, DataOK
<1>3. SessionsOK' /\ TiesOK' /\ GrantsOK' /\ PendingOK'
  BY <1>1 DEF PInv, SessionsOK, TiesOK, GrantsOK, PendingOK, Here, Linked, Going, Asking, Promised, Awaits
<1>. QED BY <1>2, <1>3 DEF PInv

LEMMA StepOK == PInv /\ [PartyNext]_partyVars => PInv'
<1>. SUFFICES ASSUME PInv, [PartyNext]_partyVars PROVE PInv'
  OBVIOUS
<1>1. CASE PartyFellow
  <2>1. PICK c \in Fellow :
          \/ PartyCreate(c)
          \/ \E d \in Fellow : PartyInvite(c, d) \/ PartyLeave(c, d) \/ ChangeLeader(c, d)
          \/ \E b \in BOOLEAN : ReplyInvite(c, b) \/ PartyOption(c, b) \/ PartyMoves(c, b)
          \/ \E lv \in 1 .. TopLevel : LevelUp(c, lv)
          \/ PartyAutosave(c) \/ PartyQuit(c)
          \/ \E m \in Server : PartyLogin(c, m)
    BY <1>1 DEF PartyFellow
  <2>2. ASSUME NEW d \in Fellow, ChangeLeader(c, d) PROVE PInv'
    BY <2>2, LeaderOK
  <2>3. CASE PartyQuit(c)
    BY <2>3, LogoutOK
  <2>4. ASSUME NEW m \in Server, PartyLogin(c, m) PROVE PInv'
    BY <2>4, LoginOK
  <2>5. CASE \/ PartyCreate(c)
             \/ \E d \in Fellow : PartyInvite(c, d) \/ PartyLeave(c, d)
             \/ \E b \in BOOLEAN : ReplyInvite(c, b) \/ PartyOption(c, b) \/ PartyMoves(c, b)
             \/ \E lv \in 1 .. TopLevel : LevelUp(c, lv)
             \/ PartyAutosave(c)
    BY <2>5, AsksOK
  <2>. QED BY <2>1, <2>2, <2>3, <2>4, <2>5
<1>2. ASSUME NEW m \in Server, PartyMapHandles(m) PROVE PInv'
  BY <1>2, MapStepOK
<1>3. ASSUME NEW m \in Server, PartyCharHandles(m) PROVE PInv'
  BY <1>3, CharStepOK
<1>4. CASE UNCHANGED partyVars
  BY <1>4, StillOK
<1>. QED BY <1>1, <1>2, <1>3, <1>4 DEF PartyNext

LEMMA RestAgrees == PInv => PartiesAgree
<1>. SUFFICES ASSUME PInv, AtRest PROVE /\ \A m \in Server, p \in PartyIds : party_copy[m][p] # NoParty =>
                                             /\ party_db[p] # NoParty
                                             /\ party_copy[m][p].member = party_db[p].member
                                             /\ party_copy[m][p].exp = party_db[p].exp
                                        /\ \A c \in in_game : party_id[c] # 0 =>
                                             party_db[party_id[c]] # NoParty /\ c \in party_db[party_id[c]].member
                                        /\ \A c \in in_game : party_pending[c] = "no"
  BY DEF PartiesAgree
<1>1. Types /\ DbInv /\ CopiesOK /\ DataOK /\ SessionsOK /\ TiesOK /\ PendingOK
  BY DEF PInv
<1>2. \A m \in Server : /\ partyToChar[m] = <<>> /\ partyToMap[m] = <<>>
                        /\ ToSet(partyToChar[m]) = {} /\ ToSet(partyToMap[m]) = {}
  BY PacketsOfNone DEF AtRest
<1>3. ASSUME NEW m \in Server, NEW p \in PartyIds, party_copy[m][p] # NoParty
      PROVE  /\ party_db[p] # NoParty
             /\ party_copy[m][p].member = party_db[p].member
             /\ party_copy[m][p].exp = party_db[p].exp
  <2>. DEFINE Q == party_copy[m][p]
              P == party_db[p]
  <2>1. Q \in MapParty
    BY <1>1, <1>3, CopyView
  <2>2. P \in CharParty \cup {NoParty}
    BY <1>1 DEF DbInv
  <2>3. PICK v \in Views : Reaches(p, ViewOf(Q), <<>>, v) /\ Fits(v, ViewOf(P))
    BY <1>1, <1>2 DEF CopiesOK
  <2>. HIDE DEF Q, P
  <2>4. ViewOf(Q) = v
    BY <2>3, ReachEmpty
  <2>5. v.known /\ v = View(Q.member, Q.exp) /\ v.member = Q.member /\ v.exp = Q.exp
    BY <2>1, <2>4, CopyRecord
  <2>6. ViewOf(P) = v
    BY <2>3, <2>5 DEF Fits
  <2>7. P # NoParty
    BY <2>5, <2>6, ViewsOf
  <2>8. P.member \in SUBSET Fellow /\ P.exp \in BOOLEAN /\ ViewOf(P) = View(P.member, P.exp)
    BY <2>2, <2>7, ViewsOf
  <2>9. P.member = v.member /\ P.exp = v.exp
    BY <2>6, <2>8, ViewsOf
  <2>. QED BY <2>5, <2>7, <2>9 DEF Q, P
<1>4. ASSUME NEW c \in in_game, party_id[c] # 0
      PROVE  party_db[party_id[c]] # NoParty /\ c \in party_db[party_id[c]].member
  <2>1. PICK m \in Server : at[c] = m
    BY <1>1 DEF SessionsOK
  <2>2. c \in Fellow /\ Here(m, c)
    BY <1>1, <2>1 DEF Types, Here
  <2>3. PICK p \in PartyIds : p = party_id[c]
    BY <1>1, <1>4, <2>2, IdsAreNumbers DEF Types
  <2>4. Linked(m, c, p)
    BY <1>1, <1>2, <1>4, <2>2, <2>3 DEF TiesOK, Going, Asking
  <2>5. party_copy[m][p] # NoParty /\ c \in ViewOf(party_copy[m][p]).member
    BY <1>1, <2>4 DEF Linked, DataOf, DataOK
  <2>6. c \in party_copy[m][p].member
    BY <1>1, <2>5, CopyView
  <2>. QED BY <1>3, <2>3, <2>5, <2>6
<1>5. ASSUME NEW c \in in_game PROVE party_pending[c] = "no"
  <2>1. c \in Fellow /\ at[c] \in Server
    BY <1>1 DEF SessionsOK, Types
  <2>2. party_pending[c] \in {"no", "creating", "joining"}
    BY <1>1, <2>1 DEF Types
  <2>. QED BY <1>1, <1>2, <2>1, <2>2 DEF PendingOK, Awaits
<1>. QED BY <1>3, <1>4, <1>5

-----------------------------------------------------------------------------
(* Theorems *)

\* int_party_check_lv: the char-server looks at the levels of a party again only
\* when a member at an edge of the range comes, goes or changes, or one from
\* outside is added; with levels reported one at a time that is enough.
THEOREM EdgesSuffice == PartySpec => ShareStaysInRange
<1>1. PartyInit => TInv
  BY InitOK
<1>2. TInv /\ [PartyNext]_partyVars => TInv'
  BY NextOK
<1>3. TInv /\ [PartyNext]_partyVars =>
        [\A p \in PartyIds :
           LET P == party_db[p]
               Q == party_db'[p]
           IN Q # NoParty /\ (P # NoParty => ShareKept(P) /\ ByOneLevel(P, Q)) => ShareKept(Q)]_partyVars
  BY NextOK DEF AllStay, Stays
<1>. QED BY <1>1, <1>2, <1>3, PTL DEF PartySpec, ShareStaysInRange

\* No member of any party, while in the game, changes by more than one level.
LevelsOneByOne ==
  [][\A p \in PartyIds : party_db[p] # NoParty /\ party_db'[p] # NoParty =>
       ByOneLevel(party_db[p], party_db'[p])]_partyVars

\* The range of even sharing, "Level range for sharing within a party": in
\* every behaviour in which levels are reported one at a time, members in the game
\* of a party that shares evenly are never further apart.
THEOREM SharersAreNear == PartySpec /\ LevelsOneByOne => []ShareInRange
<1>. DEFINE Single == \A p \in PartyIds : party_db[p] # NoParty /\ party_db'[p] # NoParty =>
                        ByOneLevel(party_db[p], party_db'[p])
            Kept == TInv /\ AllKept
<1>1. PartyInit => Kept
  BY InitOK
<1>2. Kept /\ [PartyNext]_partyVars /\ [Single]_partyVars => Kept'
  <2>. SUFFICES ASSUME Kept, [PartyNext]_partyVars, [Single]_partyVars PROVE Kept'
    OBVIOUS
  <2>1. TInv' /\ AllStay
    BY NextOK
  <2>2. CASE Single
    BY <2>1, <2>2 DEF AllKept, AllStay, Stays
  <2>3. CASE UNCHANGED partyVars
    <3>1. party_db' = party_db
      BY <2>3 DEF partyVars
    <3>. QED BY <2>1, <3>1 DEF AllKept
  <2>. QED BY <2>2, <2>3
<1>3. Kept => ShareInRange
  <2>. SUFFICES ASSUME Kept, NEW p \in PartyIds, party_db[p] # NoParty, party_db[p].exp,
                       NEW c \in party_db[p].online, NEW d \in party_db[p].online
                PROVE  party_db[p].lv[c] <= party_db[p].lv[d] + ShareLevel
    BY DEF ShareInRange
  <2>. DEFINE P == party_db[p]
  <2>1. P \in CharParty /\ ShareKept(P)
    BY DEF TInv, DbOK, AllKept
  <2>2. c \in P.online /\ d \in P.online /\ P.exp
    OBVIOUS
  <2>. HIDE DEF P
  <2>3. P.lv[c] <= P.hi /\ P.lo <= P.lv[d] /\ P.hi <= P.lo + ShareLevel
    BY <2>1, <2>2, KeptIsExact DEF Exact, Narrow
  <2>4. P.lv[c] <= P.lv[d] + ShareLevel
    BY <2>1, <2>2, <2>3, FieldsOK, SizesOK
  <2>. QED BY <2>4 DEF P
<1>. QED BY <1>1, <1>2, <1>3, PTL DEF PartySpec, LevelsOneByOne

\* The handlers of int_party.c and party.c keep parties, rows, copies and players to their types.
THEOREM PartyTypes == PartySpec => []PartyTypeOK
<1>1. PartyInit => PInv
  BY StartOK
<1>2. PInv /\ [PartyNext]_partyVars => PInv'
  BY StepOK
<1>3. PInv => PartyTypeOK
  BY DEF PInv, Types, PartyTypeOK
<1>. QED BY <1>1, <1>2, <1>3, PTL DEF PartySpec

\* party_recv_info, party_member_withdraw, party_broken and the other handlers of
\* the map-server, with the packets of mapif_party_*: whatever the order in which
\* the queues are served, and whoever leaves the game or comes in meanwhile, once
\* all packets have arrived every copy has the char-server's members and its
\* sharing, every player's party has the player, and nobody waits.
THEOREM CopiesAgree == PartySpec => []PartiesAgree
<1>1. PartyInit => PInv
  BY StartOK
<1>2. PInv /\ [PartyNext]_partyVars => PInv'
  BY StepOK
<1>3. PInv => PartiesAgree
  BY RestAgrees
<1>. QED BY <1>1, <1>2, <1>3, PTL DEF PartySpec

=============================================================================
