--------------------------- MODULE Rosters_proofs ---------------------------
(***************************************************************************)
(* Proofs about Rosters: whatever players order, in whatever order the     *)
(* database workers get to it, no half roster and no stray team member is  *)
(* left, and a raid login brings the group to its size, for every          *)
(* composition, player and number of pool characters; and about what its   *)
(* characters carry (RaidErrands) and wear (RosterGear, CompanionGems).    *)
(***************************************************************************)
EXTENDS RaidErrands, RosterGear, CompanionGems, TLAPS, FiniteSetTheorems, SequenceTheorems, WellFoundedInduction

(* A roster is whole when its rows are one to one with the slots, and no     *)
(* character is in two of them.                                              *)
OneToOne(rows) ==
  /\ rows \subseteq Row
  /\ {r.slot : r \in rows} = DOMAIN Comp
  /\ \A r \in rows : ClassOf[r.bot] = Comp[r.slot].cls
  /\ \A r, s \in rows : r.slot = s.slot \/ r.bot = s.bot => r = s
WholeRaid(rows) == rows = {} \/ OneToOne(rows)

WholePartners(rows) ==
  rows = {} \/ /\ rows \subseteq Partner
               /\ {p.cls : p \in rows} = DOMAIN PartnerDefs
               /\ \A p, q \in rows : p.cls = q.cls => p = q

Disjoint(tbl) == \A o, q \in Owners : o # q => Guids(tbl[o]) \cap Guids(tbl[q]) = {}

(* A player holds a character when its pin outlives whatever writes wait.    *)
(* The characters in teams of players are held, but for those a removal      *)
(* could not see.                                                            *)
Owns(o, b) ==
  /\ b \in Guids(partners[o])
  /\ \A w \in writes : w.of = o /\ w.tbl = "arena" => b \in Guids(w.rows)
Secure(b) == b \in missed \/ \E o \in Owners : Owns(o, b)
AllTeams(t) == deserted[t] \cup {teams[o][t] : o \in Owners}
Sound(team) == (\A b \in team.bots : Secure(b)) /\ (~team.live => team.bots = {})
TeamsPinned == \A t \in Brackets : \A team \in AllTeams(t) : Sound(team)

Team    == [live : BOOLEAN, bots : SUBSET Bots, others : Strangers \cup {0}]
Session == [st : {"off", "loading", "on"}, of : Owners \cup {"none"}]
WriteOK(w) ==
  /\ w.tbl \in {"raid", "arena", "spec"} /\ w.of \in Owners
  /\ w.tbl = "raid" => WholeRaid(w.rows)
  /\ w.tbl = "spec" => w.rows \subseteq Partner
  /\ w.tbl = "arena" => WholePartners(w.rows)

TablesOK ==
  /\ raid \in [Owners -> SUBSET Row] /\ \A o \in Owners : WholeRaid(raid[o])
  /\ partners \in [Owners -> SUBSET Partner] /\ \A o \in Owners : WholePartners(partners[o])
  /\ Disjoint(raid) /\ Disjoint(partners)
WritesOK == \A w \in writes : WriteOK(w)
TeamsOK ==
  /\ teams \in [Owners -> [Brackets -> Team]] /\ deserted \in [Brackets -> SUBSET Team]
  /\ TeamsPinned
SessionOK == session \in [Bots -> Session] /\ unlocked \subseteq Bots

RosterInv == TablesOK /\ WritesOK /\ TeamsOK /\ SessionOK

-----------------------------------------------------------------------------
(* The planner. *)

(* For every composition, party and roster the plan fields no more of a role *)
(* than there are, and in all as many as fit and are there.                  *)
LEMMA PlanTotals ==
  ASSUME NEW size \in Nat, NEW desired \in Counts, NEW fixed \in Counts, NEW avail \in Counts
  PROVE  LET plan == PlanRaidRosterFill(size, desired, fixed, avail)
         IN /\ plan \in Counts
            /\ \A r \in Roles : plan[r] <= avail[r]
            /\ Total(plan) = Least(SlotsForRoster(size, fixed), Total(avail))
<1> DEFINE slots == SlotsForRoster(size, fixed)
           open == Open(desired, fixed)
           c == Available(Trimmed(open, slots), avail)
           plan == Filled(c, slots, avail)
<1>1. slots \in Nat
  BY SMT DEF SlotsForRoster, Over, Total, Counts, Roles
<1>2. open \in Counts
  BY SMT DEF Open, Over, Counts, Roles
<1>3. /\ Trimmed(open, slots) \in Counts
      /\ Total(Trimmed(open, slots)) <= slots
  <2> HIDE DEF open, slots
  <2> QED BY <1>1, <1>2, SMT DEF Trimmed, Least, Over, Total, Counts, Roles
<1>4. /\ c \in Counts /\ \A r \in Roles : c[r] <= avail[r]
      /\ Total(c) <= slots
  <2> DEFINE t == Trimmed(open, slots)
  <2>1. t \in Counts /\ Total(t) <= slots BY <1>3
  <2>2. c = [r \in Roles |-> Least(t[r], avail[r])] BY DEF Available
  <2> HIDE DEF t, slots, c
  <2> QED BY <1>1, <2>1, <2>2, SMT DEF Least, Total, Counts, Roles
<1>5. /\ plan \in Counts /\ \A r \in Roles : plan[r] <= avail[r]
      /\ Total(plan) = Least(slots, Total(avail))
  <2> DEFINE d == Least(Over(slots, Total(c)), avail["dps"] - c["dps"])
             h == Least(Over(slots, Total(c) + d), avail["heal"] - c["heal"])
             t == Least(Over(slots, Total(c) + d + h), avail["tank"] - c["tank"])
  <2>1. plan = [r \in Roles |-> CASE r = "tank" -> c[r] + t [] r = "heal" -> c[r] + h
                                  [] OTHER -> c[r] + d]
    BY DEF Filled
  <2> HIDE DEF plan, c, slots
  <2>2. /\ c["tank"] \in Nat /\ c["heal"] \in Nat /\ c["dps"] \in Nat
        /\ avail["tank"] \in Nat /\ avail["heal"] \in Nat /\ avail["dps"] \in Nat
        /\ c["tank"] <= avail["tank"] /\ c["heal"] <= avail["heal"] /\ c["dps"] <= avail["dps"]
        /\ Total(c) = c["tank"] + c["heal"] + c["dps"]
    BY <1>4 DEF Counts, Roles, Total
  <2>3. /\ d \in Nat /\ d <= avail["dps"] - c["dps"] /\ Total(c) + d <= slots
        /\ d = avail["dps"] - c["dps"] \/ Total(c) + d = slots
    BY <1>1, <1>4, <2>2 DEF Least, Over
  <2> HIDE DEF d
  <2>4. /\ h \in Nat /\ h <= avail["heal"] - c["heal"] /\ Total(c) + d + h <= slots
        /\ h = avail["heal"] - c["heal"] \/ Total(c) + d + h = slots
    BY <1>1, <2>2, <2>3 DEF Least, Over
  <2> HIDE DEF h
  <2>5. /\ t \in Nat /\ t <= avail["tank"] - c["tank"] /\ Total(c) + d + h + t <= slots
        /\ t = avail["tank"] - c["tank"] \/ Total(c) + d + h + t = slots
    BY <1>1, <2>2, <2>3, <2>4 DEF Least, Over
  <2> HIDE DEF t
  <2>6. plan["tank"] = c["tank"] + t /\ plan["heal"] = c["heal"] + h /\ plan["dps"] = c["dps"] + d
    BY <2>1 DEF Roles
  <2>7. plan \in Counts /\ \A r \in Roles : plan[r] <= avail[r]
    <3>1. \A r \in Roles : plan[r] \in Nat /\ plan[r] <= avail[r]
      BY <2>2, <2>3, <2>4, <2>5, <2>6 DEF Roles
    <3> QED BY <2>1, <3>1 DEF Counts
  <2>8. Total(plan) = Total(c) + d + h + t
    BY <2>2, <2>3, <2>4, <2>5, <2>6 DEF Total
  <2>9. Total(avail) = avail["tank"] + avail["heal"] + avail["dps"]
    BY DEF Total
  <2> QED BY <1>1, <2>2, <2>3, <2>4, <2>5, <2>7, <2>8, <2>9 DEF Least
<1> QED BY <1>5 DEF PlanRaidRosterFill
-----------------------------------------------------------------------------
(* The tables. *)

LEMMA InitInv == RosterInit => RosterInv
<1> SUFFICES ASSUME RosterInit PROVE RosterInv OBVIOUS
<1>1. TablesOK
  BY DEF RosterInit, TablesOK, WholeRaid, WholePartners, Disjoint, Guids
<1>2. WritesOK
  BY DEF RosterInit, WritesOK
<1>3. teams \in [Owners -> [Brackets -> Team]] /\ deserted \in [Brackets -> SUBSET Team]
  BY DEF RosterInit, NoTeam, Team
<1>4. TeamsPinned
  BY DEF RosterInit, TeamsPinned, AllTeams, Sound, NoTeam
<1>5. SessionOK
  BY DEF RosterInit, SessionOK, Session, NoOne
<1> QED BY <1>1, <1>2, <1>3, <1>4, <1>5 DEF RosterInv, TeamsOK

(* A transaction that runs leaves every owner's rows as they were or as they *)
(* were ordered, and never two owners with one character.                    *)
LEMMA ExecutedKeeps ==
  ASSUME NEW S, NEW tbl \in [Owners -> SUBSET S], Disjoint(tbl),
         NEW w, w.of \in Owners, w.rows \subseteq S
  PROVE  /\ Executed(tbl, w) \in [Owners -> SUBSET S]
         /\ Disjoint(Executed(tbl, w))
         /\ Executed(tbl, w) = tbl \/ Executed(tbl, w) = [tbl EXCEPT ![w.of] = w.rows]
<1>1. CASE \E o \in Owners \ {w.of} : Guids(tbl[o]) \cap Guids(w.rows) # {}
  BY <1>1 DEF Executed
<1>2. CASE \A o \in Owners \ {w.of} : Guids(tbl[o]) \cap Guids(w.rows) = {}
  <2> DEFINE new == [tbl EXCEPT ![w.of] = w.rows]
  <2>1. Executed(tbl, w) = new BY <1>2 DEF Executed
  <2>2. new \in [Owners -> SUBSET S] OBVIOUS
  <2>3. \A o \in Owners : new[o] = IF o = w.of THEN w.rows ELSE tbl[o] OBVIOUS
  <2> HIDE DEF new
  <2>4. ASSUME NEW o \in Owners, NEW q \in Owners, o # q PROVE Guids(new[o]) \cap Guids(new[q]) = {}
    <3>1. CASE o = w.of
      <4>1. new[o] = w.rows /\ new[q] = tbl[q] /\ q \in Owners \ {w.of} BY <2>3, <2>4, <3>1
      <4> QED BY <1>2, <4>1
    <3>2. CASE q = w.of
      <4>1. new[q] = w.rows /\ new[o] = tbl[o] /\ o \in Owners \ {w.of} BY <2>3, <2>4, <3>2
      <4> QED BY <1>2, <4>1
    <3>3. CASE o # w.of /\ q # w.of
      <4>1. new[q] = tbl[q] /\ new[o] = tbl[o] BY <2>3, <3>3
      <4> QED BY <2>4, <4>1 DEF Disjoint
    <3> QED BY <3>1, <3>2, <3>3
  <2>5. Disjoint(new) BY <2>4 DEF Disjoint
  <2> QED BY <2>1, <2>2, <2>5 DEF new
<1> QED BY <1>1, <1>2

LEMMA WholeTyped ==
  /\ \A rows : WholeRaid(rows) => rows \subseteq Row
  /\ \A rows : WholePartners(rows) => rows \subseteq Partner
BY DEF WholeRaid, OneToOne, WholePartners

(* Nothing happens to a team whose characters stay held.                     *)
LEMMA TeamsStay ==
  ASSUME RosterInv, UNCHANGED << teams, deserted >>, \A b : Secure(b) => Secure(b)'
  PROVE  TeamsOK'
<1>1. TeamsOK  BY DEF RosterInv
<1>2. \A t \in Brackets : AllTeams(t)' = AllTeams(t)  BY DEF AllTeams
<1>3. \A team : Sound(team) => Sound(team)'  BY DEF Sound
<1> QED  BY <1>1, <1>2, <1>3 DEF TeamsOK, TeamsPinned

LEMMA SpecKeeps ==
  ASSUME TablesOK, NEW w, w.of \in Owners, w.rows \subseteq Partner
  PROVE  /\ Respecced(w) \in [Owners -> SUBSET Partner] /\ Disjoint(Respecced(w))
         /\ \A o \in Owners : WholePartners(Respecced(w)[o])
                             /\ Guids(Respecced(w)[o]) = Guids(partners[o])
<1>1. /\ partners \in [Owners -> SUBSET Partner] /\ Disjoint(partners)
      /\ \A o \in Owners : WholePartners(partners[o])
  BY DEF TablesOK
<1>2. ASSUME NEW p \in Partner
      PROVE  Updated(w, p) \in Partner /\ Updated(w, p).bot = p.bot /\ Updated(w, p).cls = p.cls
  <2>1. CASE \E r \in w.rows : r.cls = p.cls
    <3> DEFINE r == CHOOSE x \in w.rows : x.cls = p.cls
    <3>1. r \in w.rows  BY <2>1
    <3>2. r.tab \in Tabs  BY <3>1 DEF Partner
    <3>3. Updated(w, p) = [p EXCEPT !.tab = r.tab]  BY <2>1 DEF Updated
    <3> HIDE DEF r
    <3> QED  BY <3>2, <3>3 DEF Partner
  <2>2. CASE ~\E r \in w.rows : r.cls = p.cls  BY <2>2 DEF Updated
  <2> QED  BY <2>1, <2>2
<1> DEFINE N(rows) == {Updated(w, p) : p \in rows}
<1>3. ASSUME NEW rows \in SUBSET Partner, WholePartners(rows)
      PROVE  N(rows) \in SUBSET Partner /\ WholePartners(N(rows)) /\ Guids(N(rows)) = Guids(rows)
  <2>1. N(rows) \in SUBSET Partner  BY <1>2
  <2>2. \A p \in rows : Updated(w, p).bot = p.bot /\ Updated(w, p).cls = p.cls  BY <1>2
  <2>3. Guids(N(rows)) = Guids(rows)  BY <2>2 DEF Guids
  <2>4. {p.cls : p \in N(rows)} = {p.cls : p \in rows}  BY <2>2
  <2>5. CASE rows = {}  BY <2>1, <2>3, <2>5 DEF WholePartners
  <2>6. CASE rows # {}
    <3>1. /\ {p.cls : p \in rows} = DOMAIN PartnerDefs
          /\ \A p, q \in rows : p.cls = q.cls => p = q
      BY <1>3, <2>6 DEF WholePartners
    <3>2. \A p, q \in N(rows) : p.cls = q.cls => p = q  BY <2>2, <3>1
    <3> HIDE DEF N
    <3> QED  BY <2>1, <2>3, <2>4, <3>1, <3>2 DEF WholePartners
  <2> QED  BY <2>5, <2>6
<1>4. Respecced(w) = [partners EXCEPT ![w.of] = N(partners[w.of])]  BY DEF Respecced
<1> HIDE DEF N
<1>5. ASSUME NEW o \in Owners
      PROVE  /\ Respecced(w)[o] \in SUBSET Partner /\ WholePartners(Respecced(w)[o])
             /\ Guids(Respecced(w)[o]) = Guids(partners[o])
  <2>1. CASE o = w.of  BY <1>1, <1>3, <1>4, <2>1
  <2>2. CASE o # w.of  BY <1>1, <1>4, <2>2
  <2> QED  BY <2>1, <2>2
<1>6. Respecced(w) \in [Owners -> SUBSET Partner]  BY <1>1, <1>4, <1>5
<1>7. Disjoint(Respecced(w))  BY <1>1, <1>5 DEF Disjoint
<1> QED  BY <1>5, <1>6, <1>7

LEMMA RunWriteKeeps ==
  ASSUME RosterInv, NEW w \in writes, RunWrite(w) PROVE RosterInv'
<1>1. WriteOK(w) /\ w.of \in Owners
  BY DEF RosterInv, WritesOK, WriteOK
<1>2. WritesOK'
  BY DEF RosterInv, WritesOK, RunWrite, WriteOK
<1>3. SessionOK'
  BY DEF RosterInv, SessionOK, RunWrite
<1>4. UNCHANGED << teams, deserted, missed >> /\ writes' = writes \ {w}  BY DEF RunWrite, clubs
<1>5. CASE w.tbl = "raid"
  <2>1. WholeRaid(w.rows) /\ w.rows \subseteq Row BY <1>1, <1>5, WholeTyped DEF WriteOK
  <2>2. raid' = Executed(raid, w) /\ partners' = partners
    BY <1>5 DEF RunWrite
  <2>3. /\ raid' \in [Owners -> SUBSET Row] /\ Disjoint(raid')
        /\ raid' = raid \/ raid' = [raid EXCEPT ![w.of] = w.rows]
    BY <1>1, <2>1, <2>2, ExecutedKeeps DEF RosterInv, TablesOK
  <2>4. \A o \in Owners : WholeRaid(raid'[o])
    BY <1>1, <2>1, <2>3 DEF RosterInv, TablesOK
  <2>5. TablesOK' BY <2>2, <2>3, <2>4 DEF RosterInv, TablesOK, Disjoint
  <2>6. \A b : Secure(b) => Secure(b)'  BY <1>4, <2>2 DEF Secure, Owns
  <2> QED BY <1>2, <1>3, <1>4, <2>5, <2>6, TeamsStay DEF RosterInv
<1>6. CASE w.tbl = "arena"
  <2>1. WholePartners(w.rows) /\ w.rows \subseteq Partner BY <1>1, <1>6, WholeTyped DEF WriteOK
  <2>2. partners' = Executed(partners, w) /\ raid' = raid
    BY <1>6 DEF RunWrite
  <2>3. /\ partners' \in [Owners -> SUBSET Partner] /\ Disjoint(partners')
        /\ partners' = partners \/ partners' = [partners EXCEPT ![w.of] = w.rows]
    BY <1>1, <2>1, <2>2, ExecutedKeeps DEF RosterInv, TablesOK
  <2>4. \A o \in Owners : WholePartners(partners'[o])
    BY <1>1, <2>1, <2>3 DEF RosterInv, TablesOK
  <2>5. TablesOK' BY <2>2, <2>3, <2>4 DEF RosterInv, TablesOK, Disjoint
  <2>6. \A o \in Owners : partners'[o] = partners[o] \/ (o = w.of /\ partners'[o] = w.rows)
    BY <1>1, <2>3 DEF RosterInv, TablesOK
  <2>7. \A b : \A o \in Owners : Owns(o, b) => Owns(o, b)'  BY <1>4, <1>6, <2>6 DEF Owns
  <2>8. \A b : Secure(b) => Secure(b)'  BY <1>4, <2>7 DEF Secure
  <2> QED BY <1>2, <1>3, <1>4, <2>5, <2>8, TeamsStay DEF RosterInv
<1>7. CASE w.tbl = "spec"
  <2>1. partners' = Respecced(w) /\ raid' = raid /\ w.rows \subseteq Partner
    BY <1>1, <1>7 DEF RunWrite, WriteOK
  <2>2. TablesOK  BY DEF RosterInv
  <2>3. /\ partners' \in [Owners -> SUBSET Partner] /\ Disjoint(partners')
        /\ \A o \in Owners : WholePartners(partners'[o]) /\ Guids(partners'[o]) = Guids(partners[o])
    BY <1>1, <2>1, <2>2, SpecKeeps
  <2>4. TablesOK'  BY <2>1, <2>2, <2>3 DEF TablesOK, Disjoint
  <2>5. \A b : \A o \in Owners : Owns(o, b) => Owns(o, b)'  BY <1>4, <2>3 DEF Owns
  <2>6. \A b : Secure(b) => Secure(b)'  BY <1>4, <2>5 DEF Secure
  <2> QED BY <1>2, <1>3, <1>4, <2>4, <2>6, TeamsStay DEF RosterInv
<1> QED BY <1>1, <1>5, <1>6, <1>7 DEF WriteOK

-----------------------------------------------------------------------------
(* Sessions. *)

LEMMA SessionKinds ==
  ASSUME NEW o \in Owners, session \in [Bots -> Session]
  PROVE  /\ \A bots : AddPlayerBot(o, bots) \in [Bots -> Session]
         /\ \A bots : \A s \in [Bots -> Session] : LogoutPlayerBot(o, bots, s) \in [Bots -> Session]
BY DEF AddPlayerBot, LogoutPlayerBot, Session, NoOne

(* Steps that leave the tables, the writes and the teams alone. *)
LEMMA SessionStep ==
  ASSUME RosterInv, UNCHANGED << raid, partners, writes, clubs >>, SessionOK'
  PROVE  RosterInv'
<1>1. TablesOK' BY DEF RosterInv, TablesOK, Disjoint
<1>2. WritesOK' BY DEF RosterInv, WritesOK, WriteOK
<1>3. TeamsOK' BY TeamsStay DEF Secure, Owns, clubs
<1> QED BY <1>1, <1>2, <1>3 DEF RosterInv

LEMMA SessionsKeep ==
  ASSUME RosterInv, NEW o \in Owners,
         \/ RaidLogout(o) \/ RaidSync(o) \/ PartnersSync(o) \/ PartnersLogout(o)
         \/ \E size \in DOMAIN SubComps, party \in Parties : RaidLogin(o, size, party)
         \/ \E b \in Bots : SyncOne(o, b) \/ LoginDone(b) \/ BotLost(b)
  PROVE  RosterInv'
<1>1. session \in [Bots -> Session] /\ unlocked \subseteq Bots
  BY DEF RosterInv, SessionOK
<1>2. ASSUME RaidLogout(o) \/ PartnersLogout(o) PROVE RosterInv'
  <2>1. session' \in [Bots -> Session] BY <1>1, <1>2, SessionKinds DEF RaidLogout, PartnersLogout
  <2> QED BY <1>1, <1>2, <2>1, SessionStep DEF RaidLogout, PartnersLogout, SessionOK
<1>3. ASSUME NEW size \in DOMAIN SubComps, NEW party \in Parties, RaidLogin(o, size, party)
      PROVE  RosterInv'
  <2>1. PICK want : session' = LogoutPlayerBot(o, Dismissed(o, want), AddPlayerBot(o, Guids(want)))
    BY <1>3 DEF RaidLogin
  <2>2. session' \in [Bots -> Session] BY <1>1, <2>1, SessionKinds
  <2> QED BY <1>1, <1>3, <2>2, SessionStep DEF RaidLogin, SessionOK
<1>4. ASSUME RaidSync(o) PROVE RosterInv'
  <2>1. unlocked' \subseteq Bots BY <1>1, <1>4 DEF RaidSync, SyncBotToSpec, Online, RosterInv, TablesOK, Load, Guids, Row
  <2> QED BY <1>1, <1>4, <2>1, SessionStep DEF RaidSync, SessionOK
<1>5. ASSUME PartnersSync(o) PROVE RosterInv'
  BY <1>1, <1>5, SessionStep DEF PartnersSync, SessionOK
<1>6. ASSUME NEW b \in Bots, SyncOne(o, b) PROVE RosterInv'
  <2>1. unlocked' \subseteq Bots BY <1>1, <1>6 DEF SyncOne, SyncBotToSpec
  <2> QED BY <1>1, <1>6, <2>1, SessionStep DEF SyncOne, SessionOK
<1>7. ASSUME NEW b \in Bots, LoginDone(b) \/ BotLost(b) PROVE RosterInv'
  <2>1. session' \in [Bots -> Session] BY <1>1, <1>7 DEF LoginDone, BotLost, Session, NoOne
  <2> QED BY <1>1, <1>7, <2>1, SessionStep DEF LoginDone, BotLost, SessionOK
<1> QED BY <1>2, <1>3, <1>4, <1>5, <1>6, <1>7

-----------------------------------------------------------------------------
(* Orders for the database workers. *)

LEMMA PicksAreWhole ==
  /\ \A f \in RaidPicks : WholeRaid({[bot |-> f[i], slot |-> i] : i \in DOMAIN Comp})
  /\ \A f \in PartnerPicks :
       WholePartners({[bot |-> f[c], cls |-> c, tab |-> PartnerDefs[c]] : c \in DOMAIN PartnerDefs})
<1>1. ASSUME NEW f \in RaidPicks
      PROVE  OneToOne({[bot |-> f[i], slot |-> i] : i \in DOMAIN Comp})
  <2> DEFINE rows == {[bot |-> f[i], slot |-> i] : i \in DOMAIN Comp}
  <2>1. /\ \A i \in DOMAIN Comp : f[i] \in Bots /\ ClassOf[f[i]] = Comp[i].cls
        /\ \A i, j \in DOMAIN Comp : f[i] = f[j] => i = j
    BY DEF RaidPicks, Eligible
  <2>2. rows \subseteq Row BY <2>1 DEF Row
  <2>3. {r.slot : r \in rows} = DOMAIN Comp
    <3>1. \A i \in DOMAIN Comp : [bot |-> f[i], slot |-> i].slot = i OBVIOUS
    <3> QED BY <3>1
  <2>4. \A r \in rows : ClassOf[r.bot] = Comp[r.slot].cls BY <2>1
  <2>5. \A r, s \in rows : r.slot = s.slot \/ r.bot = s.bot => r = s BY <2>1
  <2> QED BY <2>2, <2>3, <2>4, <2>5 DEF OneToOne
<1>2. ASSUME NEW f \in PartnerPicks
      PROVE  WholePartners({[bot |-> f[c], cls |-> c, tab |-> PartnerDefs[c]] : c \in DOMAIN PartnerDefs})
  <2> DEFINE rows == {[bot |-> f[c], cls |-> c, tab |-> PartnerDefs[c]] : c \in DOMAIN PartnerDefs}
  <2>1. \A c \in DOMAIN PartnerDefs : f[c] \in Bots BY DEF PartnerPicks, Eligible
  <2>2. rows \subseteq Partner BY <2>1, RosterAssumption DEF Partner, Tabs
  <2>3. \A c \in DOMAIN PartnerDefs : [bot |-> f[c], cls |-> c, tab |-> PartnerDefs[c]].cls = c OBVIOUS
  <2>4. {p.cls : p \in rows} = DOMAIN PartnerDefs
    <3>1. \A p \in rows : p.cls \in DOMAIN PartnerDefs BY <2>3
    <3>2. \A c \in DOMAIN PartnerDefs : \E p \in rows : p.cls = c BY <2>3
    <3> HIDE DEF rows
    <3> QED BY <3>1, <3>2
  <2>5. ASSUME NEW p \in rows, NEW q \in rows, p.cls = q.cls PROVE p = q
    <3>1. PICK c \in DOMAIN PartnerDefs : p = [bot |-> f[c], cls |-> c, tab |-> PartnerDefs[c]] OBVIOUS
    <3>2. PICK d \in DOMAIN PartnerDefs : q = [bot |-> f[d], cls |-> d, tab |-> PartnerDefs[d]] OBVIOUS
    <3>3. c = d BY <2>3, <2>5, <3>1, <3>2
    <3> QED BY <3>1, <3>2, <3>3
  <2> QED BY <2>2, <2>4, <2>5 DEF WholePartners
<1> QED BY <1>1, <1>2 DEF WholeRaid

(* An order whose rows are whole keeps the invariant, if it unpins nobody    *)
(* who is in a team.                                                         *)
LEMMA OrderKeeps ==
  ASSUME RosterInv, NEW o \in Owners, NEW tbl \in {"raid", "arena", "spec"}, NEW rows,
         Writes(tbl, o, rows), WriteOK([tbl |-> tbl, of |-> o, rows |-> rows]),
         UNCHANGED << raid, partners >>, SessionOK'
  PROVE  /\ TablesOK' /\ WritesOK'
         /\ \A b : \A q \in Owners : (tbl = "arena" => q # o) /\ Owns(q, b) => Owns(q, b)'
<1>1. TablesOK' BY DEF RosterInv, TablesOK, Disjoint
<1>2. PICK n : writes' = writes \cup {[tbl |-> tbl, of |-> o, n |-> n, rows |-> rows]}
  BY DEF Writes
<1> DEFINE v == [tbl |-> tbl, of |-> o, n |-> n, rows |-> rows]
<1>3. v.tbl = tbl /\ v.of = o /\ v.rows = rows  OBVIOUS
<1>4. writes' = writes \cup {v}  BY <1>2
<1> HIDE DEF v
<1>5. WriteOK(v)  BY <1>3 DEF WriteOK
<1>6. WritesOK' BY <1>4, <1>5 DEF RosterInv, WritesOK, WriteOK
<1>7. ASSUME NEW b, NEW q \in Owners, tbl = "arena" => q # o, Owns(q, b) PROVE Owns(q, b)'
  BY <1>3, <1>4, <1>7 DEF Owns
<1> QED BY <1>1, <1>6, <1>7

LEMMA RaidOrdersKeep ==
  ASSUME RosterInv, NEW o \in Owners, RaidCreate(o) \/ RaidRemove(o) PROVE RosterInv'
<1>1. PICK rows : WholeRaid(rows) /\ Writes("raid", o, rows)
  <2>1. CASE RaidCreate(o)
    <3>1. PICK f \in RaidPicks : Writes("raid", o, {[bot |-> f[i], slot |-> i] : i \in DOMAIN Comp})
      BY <2>1 DEF RaidCreate
    <3>2. WholeRaid({[bot |-> f[i], slot |-> i] : i \in DOMAIN Comp}) BY PicksAreWhole
    <3> QED BY <3>1, <3>2
  <2>2. CASE RaidRemove(o)
    <3>1. Writes("raid", o, {}) /\ WholeRaid({}) BY <2>2 DEF RaidRemove, WholeRaid
    <3> QED BY <3>1
  <2> QED BY <2>1, <2>2
<1>2. UNCHANGED << raid, partners, clubs, unlocked >>  BY DEF RaidCreate, RaidRemove
<1>3. SessionOK'
  <2>1. session \in [Bots -> Session] /\ unlocked \subseteq Bots  BY DEF RosterInv, SessionOK
  <2>2. session' \in [Bots -> Session]  BY <2>1, SessionKinds DEF RaidCreate, RaidRemove
  <2> QED  BY <1>2, <2>1, <2>2 DEF SessionOK
<1>4. WriteOK([tbl |-> "raid", of |-> o, rows |-> rows])  BY <1>1 DEF WriteOK
<1>5. /\ TablesOK' /\ WritesOK'
      /\ \A b : \A q \in Owners : Owns(q, b) => Owns(q, b)'
  BY <1>1, <1>2, <1>3, <1>4, OrderKeeps
<1>6. \A b : Secure(b) => Secure(b)'  BY <1>2, <1>5 DEF Secure, clubs
<1>7. TeamsOK'  BY <1>2, <1>6, TeamsStay DEF clubs
<1> QED BY <1>3, <1>5, <1>7 DEF RosterInv

LEMMA PartnersCreateKeeps ==
  ASSUME RosterInv, NEW o \in Owners, PartnersCreate(o) PROVE RosterInv'
<1>1. PICK f \in PartnerPicks :
        Writes("arena", o, {[bot |-> f[c], cls |-> c, tab |-> PartnerDefs[c]] : c \in DOMAIN PartnerDefs})
  BY DEF PartnersCreate
<1> DEFINE rows == {[bot |-> f[c], cls |-> c, tab |-> PartnerDefs[c]] : c \in DOMAIN PartnerDefs}
<1>2. WholePartners(rows) /\ Writes("arena", o, rows)  BY <1>1, PicksAreWhole
<1> HIDE DEF rows
<1>3. UNCHANGED << raid, partners, session, clubs, unlocked >>  BY DEF PartnersCreate
<1>4. SessionOK'  BY <1>3 DEF RosterInv, SessionOK
<1>5. WriteOK([tbl |-> "arena", of |-> o, rows |-> rows])  BY <1>2 DEF WriteOK
<1>6. /\ TablesOK' /\ WritesOK'
      /\ \A b : \A q \in Owners : q # o /\ Owns(q, b) => Owns(q, b)'
  BY <1>2, <1>3, <1>4, <1>5, OrderKeeps
<1>7. \A b : ~Owns(o, b)  BY DEF PartnersCreate, LoadPartners, Guids, Owns
<1>8. \A b : Secure(b) => Secure(b)'
  <2>1. ASSUME NEW b, NEW q \in Owners, Owns(q, b) PROVE Owns(q, b)'
    <3>1. q # o  BY <1>7, <2>1
    <3> QED  BY <1>6, <2>1, <3>1
  <2> QED  BY <1>3, <2>1 DEF Secure, clubs
<1>9. TeamsOK'  BY <1>3, <1>8, TeamsStay DEF clubs
<1> QED BY <1>4, <1>6, <1>9 DEF RosterInv

LEMMA SpecOrderKeeps ==
  ASSUME RosterInv, NEW o \in Owners, HandleSpec(o) PROVE RosterInv'
<1>1. PICK p \in LoadPartners(o), tab \in Tabs : Writes("spec", o, {[p EXCEPT !.tab = tab]})
  BY DEF HandleSpec, SpecTabFromToken
<1>2. {[p EXCEPT !.tab = tab]} \subseteq Partner
  <2>1. partners[o] \subseteq Partner  BY DEF RosterInv, TablesOK
  <2>2. p \in Partner  BY <2>1 DEF LoadPartners
  <2> QED  BY <2>2 DEF Partner
<1>3. UNCHANGED << raid, partners, session, clubs, unlocked >>  BY DEF HandleSpec
<1>4. SessionOK'  BY <1>3 DEF RosterInv, SessionOK
<1>5. WriteOK([tbl |-> "spec", of |-> o, rows |-> {[p EXCEPT !.tab = tab]}])  BY <1>2 DEF WriteOK
<1>6. /\ TablesOK' /\ WritesOK'
      /\ \A b : \A q \in Owners : Owns(q, b) => Owns(q, b)'
  BY <1>1, <1>3, <1>4, <1>5, OrderKeeps
<1>7. \A b : Secure(b) => Secure(b)'  BY <1>3, <1>6 DEF Secure, clubs
<1>8. TeamsOK'  BY <1>3, <1>7, TeamsStay DEF clubs
<1> QED BY <1>4, <1>6, <1>8 DEF RosterInv

(* A removal takes the freed characters out of the player's own teams, and   *)
(* those it leaves in other teams are missed.                                *)
LEMMA PartnersRemoveKeeps ==
  ASSUME RosterInv, NEW o \in Owners, PartnersRemove(o) PROVE RosterInv'
<1>1. /\ teams \in [Owners -> [Brackets -> Team]] /\ deserted \in [Brackets -> SUBSET Team]
      /\ TeamsPinned
  BY DEF RosterInv, TeamsOK
<1>2. /\ teams' = [teams EXCEPT ![o] = Cleaned(o)] /\ Writes("arena", o, {})
      /\ missed' = missed \cup (Guids(partners[o]) \cap UNION {Elsewhere(o, t) : t \in Brackets})
      /\ UNCHANGED << raid, partners, session, deserted, unlocked >>
  BY DEF PartnersRemove, LoadPartners
<1>3. SessionOK'  BY <1>2 DEF RosterInv, SessionOK
<1>4. WriteOK([tbl |-> "arena", of |-> o, rows |-> {}])  BY DEF WriteOK, WholePartners
<1>5. /\ TablesOK' /\ WritesOK'
      /\ \A b : \A q \in Owners : q # o /\ Owns(q, b) => Owns(q, b)'
  BY <1>2, <1>3, <1>4, OrderKeeps
<1>6. ASSUME NEW b, Secure(b), b \notin Guids(partners[o]) \/ \E t \in Brackets : b \in Elsewhere(o, t)
      PROVE  Secure(b)'
  <2>1. CASE b \in missed  BY <1>2, <2>1 DEF Secure
  <2>2. ASSUME NEW q \in Owners, Owns(q, b), q # o PROVE Secure(b)'  BY <1>5, <2>2 DEF Secure
  <2>3. CASE Owns(o, b)
    <3>1. b \in Guids(partners[o])  BY <2>3 DEF Owns
    <3>2. b \in missed'  BY <1>2, <1>6, <3>1
    <3> QED  BY <3>2 DEF Secure
  <2> QED  BY <1>6, <2>1, <2>2, <2>3 DEF Secure
<1>7. ASSUME NEW t \in Brackets, NEW c, c = Cleaned(o)[t] PROVE c \in Team /\ Sound(c)'
  <2>1. teams[o][t] \in Team  BY <1>1
  <2>2. teams[o][t] \in AllTeams(t)  BY DEF AllTeams
  <2>3. Sound(teams[o][t])  BY <1>1, <2>2 DEF TeamsPinned
  <2>4. CASE ~teams[o][t].live
    <3>1. c = teams[o][t] /\ c.bots = {}  BY <1>7, <2>3, <2>4 DEF Cleaned, Sound
    <3>2. Sound(c)'  BY <3>1 DEF Sound
    <3> QED  BY <2>1, <3>1, <3>2
  <2>5. CASE teams[o][t].live
    <3>1. c = [teams[o][t] EXCEPT !.bots = teams[o][t].bots \ Guids(partners[o])]
      BY <1>7, <2>5 DEF Cleaned, LoadPartners
    <3>2. c.bots = teams[o][t].bots \ Guids(partners[o]) /\ c.live /\ c \in Team
      BY <2>1, <2>5, <3>1 DEF Team
    <3>3. \A b \in c.bots : Secure(b)'  BY <1>6, <2>3, <3>2 DEF Sound
    <3> QED  BY <3>2, <3>3 DEF Sound
  <2> QED  BY <2>4, <2>5
<1>8. Cleaned(o) \in [Brackets -> Team]  BY <1>7 DEF Cleaned
<1>9. teams' \in [Owners -> [Brackets -> Team]] /\ teams'[o] = Cleaned(o)
      /\ \A q \in Owners : q # o => teams'[q] = teams[q]
  BY <1>1, <1>2, <1>8
<1>10. ASSUME NEW t \in Brackets, NEW team \in AllTeams(t)' PROVE Sound(team)'
  <2>1. CASE team = teams'[o][t]  BY <1>7, <1>9, <2>1
  <2>2. CASE team \in deserted[t] \cup {teams[q][t] : q \in Owners \ {o}}
    <3>1. team \in AllTeams(t)  BY <2>2 DEF AllTeams
    <3>2. Sound(team)  BY <1>1, <3>1 DEF TeamsPinned
    <3>3. \A b \in team.bots : b \in Elsewhere(o, t)  BY <2>2 DEF Elsewhere
    <3>4. \A b \in team.bots : Secure(b)'  BY <1>6, <3>2, <3>3 DEF Sound
    <3> QED  BY <3>2, <3>4 DEF Sound
  <2>3. team \in deserted[t] \/ \E q \in Owners : team = teams'[q][t]  BY <1>2 DEF AllTeams
  <2> QED  BY <1>9, <2>1, <2>2, <2>3
<1>11. TeamsOK'  BY <1>1, <1>2, <1>9, <1>10 DEF TeamsOK, TeamsPinned
<1> QED BY <1>3, <1>5, <1>11 DEF RosterInv

-----------------------------------------------------------------------------
(* Teams. *)

(* A player's team of one bracket changes, and perhaps the deserted ones: the *)
(* new team is sound, the others were there before.                           *)
LEMMA TeamStep ==
  ASSUME RosterInv, NEW o \in Owners, NEW t \in Brackets, NEW team \in Team,
         teams' = [teams EXCEPT ![o][t] = team], Sound(team)',
         NEW left \in SUBSET (deserted[t] \cup {teams[o][t]}),
         deserted' = [deserted EXCEPT ![t] = left],
         UNCHANGED << raid, partners, writes, unlocked >>, session' \in [Bots -> Session],
         missed \subseteq missed'
  PROVE  RosterInv'
<1>1. /\ teams \in [Owners -> [Brackets -> Team]] /\ deserted \in [Brackets -> SUBSET Team]
      /\ TeamsPinned
  BY DEF RosterInv, TeamsOK
<1>2. teams' \in [Owners -> [Brackets -> Team]] /\ deserted' \in [Brackets -> SUBSET Team]
  BY <1>1
<1>3. \A b : Secure(b) => Secure(b)'  BY DEF Secure, Owns
<1>4. \A x : Sound(x) => Sound(x)'  BY <1>3 DEF Sound
<1>5. ASSUME NEW u \in Brackets, NEW x \in AllTeams(u)' PROVE Sound(x)'
  <2>1. CASE x \in deserted'[u]
    <3>1. x \in AllTeams(u)  BY <1>1, <2>1 DEF AllTeams
    <3> QED  BY <1>1, <1>4, <3>1 DEF TeamsPinned
  <2>2. ASSUME NEW q \in Owners, x = teams'[q][u] PROVE Sound(x)'
    <3>1. x = IF q = o /\ u = t THEN team ELSE teams[q][u]  BY <1>1, <2>2
    <3>2. teams[q][u] \in AllTeams(u)  BY DEF AllTeams
    <3>3. CASE q = o /\ u = t
      <4>1. x = team  BY <3>1, <3>3
      <4> QED  BY <4>1
    <3>4. CASE ~(q = o /\ u = t)
      <4>1. x = teams[q][u]  BY <3>1, <3>4
      <4>2. Sound(x)  BY <1>1, <3>2, <4>1 DEF TeamsPinned
      <4> QED  BY <1>4, <4>2
    <3> QED  BY <3>3, <3>4
  <2> QED  BY <2>1, <2>2 DEF AllTeams
<1>6. TeamsOK'  BY <1>2, <1>5 DEF TeamsOK, TeamsPinned
<1>7. TablesOK' /\ WritesOK' BY DEF RosterInv, TablesOK, Disjoint, WritesOK, WriteOK
<1>8. SessionOK' BY DEF RosterInv, SessionOK
<1> QED BY <1>6, <1>7, <1>8 DEF RosterInv

LEMMA HandleGoKeeps ==
  ASSUME RosterInv, NEW o \in Owners, NEW t \in Brackets, HandleGo(o, t) PROVE RosterInv'
<1>1. /\ session \in [Bots -> Session] /\ teams[o][t] \in Team
      /\ deserted \in [Brackets -> SUBSET Team] /\ partners[o] \subseteq Partner
  BY DEF RosterInv, SessionOK, TeamsOK, TablesOK
<1>2. Sound(teams[o][t])
  <2>1. teams[o][t] \in AllTeams(t)  BY DEF AllTeams
  <2> QED  BY <2>1 DEF RosterInv, TeamsOK, TeamsPinned
<1> DEFINE stay(picked) == [teams[o][t] EXCEPT !.live = TRUE,
               !.bots = {b \in @ : b \notin Guids(LoadPartners(o)) \/ b \in picked}]
<1>0. PICK picked \in SUBSET Guids(LoadPartners(o)) :
        \E team \in Joined(o, t, stay(picked), picked) :
          /\ teams' = [teams EXCEPT ![o][t] = team]
          /\ session' = AddPlayerBot(o, picked \cap team.bots)
          /\ missed' = missed \cup IF \E w \in Waiting(o) : w.tbl = "arena"
                                  THEN team.bots \ teams[o][t].bots ELSE {}
  BY DEF HandleGo
<1>3. PICK team \in Joined(o, t, stay(picked), picked) :
        /\ teams' = [teams EXCEPT ![o][t] = team]
        /\ session' = AddPlayerBot(o, picked \cap team.bots)
        /\ missed' = missed \cup IF \E w \in Waiting(o) : w.tbl = "arena"
                                THEN team.bots \ teams[o][t].bots ELSE {}
  BY <1>0
<1>4. UNCHANGED << raid, partners, writes, deserted, unlocked >>  BY DEF HandleGo
<1>5. picked \subseteq Guids(partners[o]) /\ picked \subseteq Bots
  BY <1>0, <1>1 DEF LoadPartners, Guids, Partner
<1>6. stay(picked) \in Team /\ stay(picked).live /\ stay(picked).bots \subseteq teams[o][t].bots
  BY <1>1 DEF Team
<1>7. PICK s \in SUBSET picked : team = [stay(picked) EXCEPT !.bots = @ \cup s]
  <2> HIDE DEF stay
  <2> QED BY <1>3 DEF Joined
<1>8. team \in Team /\ team.live /\ team.bots \subseteq teams[o][t].bots \cup picked
  <2> HIDE DEF stay
  <2> QED BY <1>5, <1>6, <1>7 DEF Team
<1> HIDE DEF stay
<1>9. ASSUME NEW b \in team.bots PROVE Secure(b)'
  <2>1. CASE b \in teams[o][t].bots
    <3>1. Secure(b)  BY <1>2, <2>1 DEF Sound
    <3> QED  BY <1>3, <1>4, <3>1 DEF Secure, Owns
  <2>2. CASE b \notin teams[o][t].bots /\ \E w \in Waiting(o) : w.tbl = "arena"
    BY <1>3, <2>2 DEF Secure
  <2>3. CASE b \notin teams[o][t].bots /\ ~\E w \in Waiting(o) : w.tbl = "arena"
    <3>1. b \in Guids(partners[o])  BY <1>5, <1>8, <2>3
    <3>2. Owns(o, b)'  BY <1>4, <2>3, <3>1 DEF Owns, Waiting
    <3> QED  BY <3>2 DEF Secure
  <2> QED  BY <2>1, <2>2, <2>3
<1>10. Sound(team)'  BY <1>8, <1>9 DEF Sound
<1>11. session' \in [Bots -> Session] BY <1>1, <1>3, SessionKinds
<1>12. PICK left : left = deserted[t]  OBVIOUS
<1>13. /\ deserted' = [deserted EXCEPT ![t] = left] /\ missed \subseteq missed'
       /\ left \in SUBSET (deserted[t] \cup {teams[o][t]})
  BY <1>1, <1>3, <1>4, <1>12
<1> QED BY <1>3, <1>4, <1>8, <1>10, <1>11, <1>13, TeamStep

LEMMA TeamChangesKeep ==
  ASSUME RosterInv, NEW o \in Owners, NEW t \in Brackets, TeamChanges(o, t) PROVE RosterInv'
<1>1. /\ session \in [Bots -> Session] /\ teams[o][t] \in Team
      /\ deserted \in [Brackets -> SUBSET Team] /\ TeamsPinned
  BY DEF RosterInv, SessionOK, TeamsOK
<1>2. Sound(teams[o][t])
  <2>1. teams[o][t] \in AllTeams(t)  BY DEF AllTeams
  <2> QED  BY <1>1, <2>1 DEF TeamsPinned
<1>3. UNCHANGED << raid, partners, writes, session, missed, unlocked >>  BY DEF TeamChanges
<1>4. \A b : Secure(b)' = Secure(b)  BY <1>3 DEF Secure, Owns
<1>5. \A x : Sound(x) => Sound(x)'  BY <1>4 DEF Sound
<1>6. NoTeam \in Team /\ Sound(NoTeam)'  BY DEF NoTeam, Team, Sound
<1>7. CASE TeamGrows(o, t)
  <2>1. PICK n \in Strangers : teams' = [teams EXCEPT ![o][t] = [teams[o][t] EXCEPT !.others = n]]
    BY <1>7 DEF TeamGrows
  <2>0. PICK team, left : team = [teams[o][t] EXCEPT !.others = n] /\ left = deserted[t]  OBVIOUS
  <2>2. team \in Team /\ team.bots = teams[o][t].bots /\ team.live = teams[o][t].live
    BY <1>1, <2>0 DEF Team
  <2>3. Sound(team)  BY <1>2, <2>2 DEF Sound
  <2>4. /\ deserted' = [deserted EXCEPT ![t] = left]
        /\ left \in SUBSET (deserted[t] \cup {teams[o][t]})
    BY <1>1, <1>7, <2>0 DEF TeamGrows
  <2>5. teams' = [teams EXCEPT ![o][t] = team]  BY <2>0, <2>1
  <2> QED  BY <1>1, <1>3, <1>5, <2>2, <2>3, <2>4, <2>5, TeamStep
<1>8. CASE TeamIsLeft(o, t)
  <2>1. teams' = [teams EXCEPT ![o][t] = NoTeam]  BY <1>8 DEF TeamIsLeft
  <2>2. PICK left \in SUBSET (deserted[t] \cup {teams[o][t]}) : deserted' = [deserted EXCEPT ![t] = left]
    <3>1. CASE UNCHANGED deserted
      <4>1. deserted' = [deserted EXCEPT ![t] = deserted[t]]  BY <1>1, <3>1
      <4> QED  BY <4>1
    <3>2. CASE deserted' = [deserted EXCEPT ![t] = @ \cup {teams[o][t]}]  BY <3>2
    <3> QED  BY <1>8, <3>1, <3>2 DEF TeamIsLeft
  <2> QED  BY <1>1, <1>3, <1>6, <2>1, <2>2, TeamStep
<1>9. CASE TeamIsJoined(o, t)
  <2>1. PICK team \in deserted[t] \cup {[NoTeam EXCEPT !.live = TRUE, !.others = n] : n \in Strangers} :
          /\ teams' = [teams EXCEPT ![o][t] = team]
          /\ deserted' = [deserted EXCEPT ![t] = deserted[t] \ {team}]
    BY <1>9 DEF TeamIsJoined
  <2>2. team \in Team /\ Sound(team)'
    <3>1. CASE team \in deserted[t]
      <4>1. team \in AllTeams(t)  BY <3>1 DEF AllTeams
      <4>2. Sound(team)  BY <1>1, <4>1 DEF TeamsPinned
      <4> QED  BY <1>1, <1>5, <3>1, <4>2
    <3>2. ASSUME NEW n \in Strangers, team = [NoTeam EXCEPT !.live = TRUE, !.others = n]
          PROVE  team \in Team /\ Sound(team)'
      <4>1. team \in Team /\ team.bots = {} /\ team.live  BY <3>2 DEF NoTeam, Team
      <4> QED  BY <4>1 DEF Sound
    <3> QED  BY <2>1, <3>1, <3>2
  <2>3. PICK left : left = deserted[t] \ {team}  OBVIOUS
  <2>4. left \in SUBSET (deserted[t] \cup {teams[o][t]})  BY <2>3
  <2> QED  BY <1>1, <1>3, <2>1, <2>2, <2>3, <2>4, TeamStep
<1> QED BY <1>7, <1>8, <1>9 DEF TeamChanges

-----------------------------------------------------------------------------
LEMMA StepKeeps == RosterInv /\ [RosterNext]_rosterVars => RosterInv'
<1> SUFFICES ASSUME RosterInv, [RosterNext]_rosterVars PROVE RosterInv' OBVIOUS
<1>1. ASSUME NEW w \in writes, RunWrite(w) PROVE RosterInv' BY <1>1, RunWriteKeeps
<1>2. ASSUME NEW b \in Bots, LoginDone(b) \/ BotLost(b) PROVE RosterInv'
  <2>1. session' \in [Bots -> Session]
    BY <1>2 DEF LoginDone, BotLost, RosterInv, SessionOK, Session, NoOne
  <2> QED BY <1>2, <2>1, SessionStep DEF LoginDone, BotLost, SessionOK, RosterInv
<1>3. ASSUME NEW o \in Owners, Commands(o) PROVE RosterInv'
  <2>1. CASE RaidCreate(o) \/ RaidRemove(o) BY <2>1, RaidOrdersKeep
  <2>2. CASE PartnersCreate(o) \/ PartnersRemove(o) \/ HandleSpec(o)
    BY <2>2, PartnersCreateKeeps, PartnersRemoveKeeps, SpecOrderKeeps
  <2>3. CASE \E t \in Brackets : HandleGo(o, t) \/ TeamChanges(o, t)
    BY <2>3, HandleGoKeeps, TeamChangesKeep
  <2>4. CASE \/ RaidLogout(o) \/ RaidSync(o) \/ PartnersSync(o) \/ PartnersLogout(o)
             \/ \E size \in DOMAIN SubComps, party \in Parties : RaidLogin(o, size, party)
             \/ \E b \in Bots : SyncOne(o, b)
    BY <2>4, SessionsKeep
  <2> QED BY <1>3, <2>1, <2>2, <2>3, <2>4 DEF Commands
<1>4. ASSUME UNCHANGED rosterVars PROVE RosterInv'
  <2>1. SessionOK'  BY <1>4 DEF rosterVars, RosterInv, SessionOK
  <2> QED  BY <1>4, <2>1, SessionStep DEF rosterVars
<1> QED BY <1>1, <1>2, <1>3, <1>4 DEF RosterNext

(* The inductive invariant: rosters and pending orders are whole, no         *)
(* character is in two rosters of a kind, and teams hold pinned characters.  *)
THEOREM InvHolds == RosterSpec => []RosterInv
<1>1. RosterInv /\ [RosterNext]_rosterVars => RosterInv' BY StepKeeps
<1> QED BY <1>1, InitInv, PTL DEF RosterSpec

(* FreedAreTeamless for every number of players, brackets and characters,    *)
(* without any hypothesis on how commands and their writes overlap           *)
(* (HandleRemove, HandleGo).                                                 *)
THEOREM TeamsHoldPartners == RosterSpec => []FreedAreTeamless
<1>1. ASSUME RosterInv PROVE FreedAreTeamless
  <2>1. \A b : Secure(b) => b \in AllPinned(partners) \cup missed  BY DEF Secure, Owns, AllPinned
  <2>2. TeamsPinned  BY <1>1 DEF RosterInv, TeamsOK
  <2> QED  BY <2>1, <2>2 DEF TeamsPinned, AllTeams, Sound, FreedAreTeamless
<1> QED BY <1>1, InvHolds, PTL

-----------------------------------------------------------------------------
(* Counting the rows of a roster. *)

LEMMA SameSize ==
  ASSUME NEW S, NEW T, IsFiniteSet(T), NEW f \in [S -> T],
         \A x, y \in S : f[x] = f[y] => x = y, \A t \in T : \E x \in S : f[x] = t
  PROVE  IsFiniteSet(S) /\ Cardinality(S) = Cardinality(T)
<1>1. f \in Injection(S, T) BY DEF Injection, IsInjective
<1>2. f \in Surjection(S, T) BY DEF Surjection
<1> QED BY <1>1, <1>2, FS_Injection

LEMMA RoleSizes ==
  ASSUME NEW rows, rows = {} \/ OneToOne(rows)
  PROVE  /\ IsFiniteSet(rows) /\ RosterCounts(rows) \in Counts
         /\ Total(RosterCounts(rows)) = Cardinality(rows)
         /\ rows # {} => Cardinality(rows) = Cardinality(DOMAIN Comp)
<1>1. IsFiniteSet(rows) /\ (rows # {} => Cardinality(rows) = Cardinality(DOMAIN Comp))
  <2>1. CASE rows = {} BY <2>1, FS_EmptySet
  <2>2. CASE OneToOne(rows)
    <3> DEFINE f == [r \in rows |-> r.slot]
    <3>1. f \in [rows -> DOMAIN Comp] BY <2>2 DEF OneToOne
    <3>2. \A r, s \in rows : f[r] = f[s] => r = s BY <2>2 DEF OneToOne
    <3>3. \A i \in DOMAIN Comp : \E r \in rows : f[r] = i BY <2>2 DEF OneToOne
    <3> HIDE DEF f
    <3> QED BY <3>1, <3>2, <3>3, SameSize, RosterAssumption
  <2> QED BY <2>1, <2>2
<1>2. \A r \in rows : RoleOf(r) \in Roles
  BY RosterAssumption DEF OneToOne, Row, RoleOf
<1> DEFINE T == OfRole(rows, "tank")  H == OfRole(rows, "heal")  D == OfRole(rows, "dps")
<1>3. /\ T \in SUBSET rows /\ H \in SUBSET rows /\ D \in SUBSET rows
      /\ T \cap H = {} /\ (T \cup H) \cap D = {} /\ (T \cup H) \cup D = rows
  BY <1>2 DEF OfRole, Roles
<1> HIDE DEF T, H, D
<1>4. IsFiniteSet(T) /\ IsFiniteSet(H) /\ IsFiniteSet(D) BY <1>1, <1>3, FS_Subset
<1>5. /\ Cardinality(T) \in Nat /\ Cardinality(H) \in Nat /\ Cardinality(D) \in Nat
      /\ Cardinality({}) = 0
  BY <1>4, FS_CardinalityType, FS_EmptySet
<1>6. IsFiniteSet(T \cup H) /\ Cardinality(T \cup H) = Cardinality(T) + Cardinality(H)
  <2>1. Cardinality(T \cup H) = Cardinality(T) + Cardinality(H) - Cardinality(T \cap H)
        /\ IsFiniteSet(T \cup H)
    BY <1>4, FS_Union
  <2>2. Cardinality(T \cap H) = 0 BY <1>3, <1>5, Zenon
  <2> QED BY <1>5, <2>1, <2>2
<1>7. Cardinality(rows) = Cardinality(T) + Cardinality(H) + Cardinality(D)
  <2>1. Cardinality((T \cup H) \cup D) = Cardinality(T \cup H) + Cardinality(D) - Cardinality((T \cup H) \cap D)
    BY <1>4, <1>6, FS_Union
  <2>2. Cardinality((T \cup H) \cap D) = 0 BY <1>3, <1>5, Zenon
  <2>3. Cardinality((T \cup H) \cup D) = Cardinality(rows) BY <1>3, Zenon
  <2> QED BY <1>5, <1>6, <2>1, <2>2, <2>3
<1>8. RosterCounts(rows) = [role \in Roles |-> Cardinality(OfRole(rows, role))] BY DEF RosterCounts
<1>9. RosterCounts(rows) \in Counts
  <2>1. \A role \in Roles : Cardinality(OfRole(rows, role)) \in Nat BY <1>5 DEF Roles, T, H, D
  <2> QED BY <1>8, <2>1 DEF Counts
<1>10. Total(RosterCounts(rows)) = Cardinality(T) + Cardinality(H) + Cardinality(D)
  BY <1>8 DEF Total, T, H, D, Roles
<1> QED BY <1>1, <1>7, <1>9, <1>10

LEMMA PartnersCounted ==
  ASSUME NEW o \in Owners, WholePartners(partners[o]), partners[o] # {}
  PROVE  Cardinality(PartnersStatus(o)) = Cardinality(DOMAIN PartnerDefs)
<1> DEFINE f == [x \in PartnersStatus(o) |-> x.cls]
<1>1. \A x \in PartnersStatus(o) :
        \E p \in partners[o] : x = [cls |-> p.cls, tab |-> p.tab, online |-> p.bot \in Online(o)]
  BY DEF PartnersStatus, LoadPartners
<1>2. \A p \in partners[o] : [cls |-> p.cls, tab |-> p.tab, online |-> p.bot \in Online(o)] \in PartnersStatus(o)
  BY DEF PartnersStatus, LoadPartners
<1>3. {p.cls : p \in partners[o]} = DOMAIN PartnerDefs /\ \A p, q \in partners[o] : p.cls = q.cls => p = q
  BY DEF WholePartners
<1>4. f \in [PartnersStatus(o) -> DOMAIN PartnerDefs] BY <1>1, <1>3
<1>5. ASSUME NEW x \in PartnersStatus(o), NEW y \in PartnersStatus(o), f[x] = f[y] PROVE x = y
  <2>1. PICK p \in partners[o] : x = [cls |-> p.cls, tab |-> p.tab, online |-> p.bot \in Online(o)] BY <1>1
  <2>2. PICK q \in partners[o] : y = [cls |-> q.cls, tab |-> q.tab, online |-> q.bot \in Online(o)] BY <1>1
  <2>3. p.cls = q.cls BY <1>5, <2>1, <2>2
  <2>4. p = q BY <1>3, <2>3
  <2> QED BY <2>1, <2>2, <2>4
<1>6. ASSUME NEW c \in DOMAIN PartnerDefs PROVE \E x \in PartnersStatus(o) : f[x] = c
  <2>1. PICK p \in partners[o] : p.cls = c BY <1>3
  <2> DEFINE x == [cls |-> p.cls, tab |-> p.tab, online |-> p.bot \in Online(o)]
  <2>2. x.cls = c BY <2>1
  <2>3. x \in PartnersStatus(o) BY <1>2
  <2>4. f[x] = x.cls BY <2>3
  <2> QED BY <2>2, <2>3, <2>4
<1>7. IsFiniteSet(DOMAIN PartnerDefs) BY RosterAssumption
<1> HIDE DEF f
<1>8. \A x, y \in PartnersStatus(o) : f[x] = f[y] => x = y BY <1>5
<1>9. \A c \in DOMAIN PartnerDefs : \E x \in PartnersStatus(o) : f[x] = c BY <1>6
<1> QED BY <1>4, <1>7, <1>8, <1>9, SameSize

(* RosterWhole for every composition, player and interleaving of their       *)
(* orders and the workers (Replace, ReplacePartners and the unique keys).    *)
THEOREM RostersAreWhole == RosterSpec => []RosterWhole
<1>1. RosterInv => RosterWhole
  <2> SUFFICES ASSUME RosterInv, NEW o \in Owners
               PROVE /\ raid[o] # {} =>
                           /\ {r.slot : r \in raid[o]} = DOMAIN Comp
                           /\ Total(HandleStatus(o).roles) = Cardinality(DOMAIN Comp)
                           /\ \A r \in raid[o] : ClassOf[r.bot] = Comp[r.slot].cls
                     /\ partners[o] # {} =>
                           /\ {p.cls : p \in partners[o]} = DOMAIN PartnerDefs
                           /\ Cardinality(PartnersStatus(o)) = Cardinality(DOMAIN PartnerDefs)
                     /\ \A q \in Owners \ {o} : /\ Guids(raid[o]) \cap Guids(raid[q]) = {}
                                               /\ Guids(partners[o]) \cap Guids(partners[q]) = {}
    BY DEF RosterWhole
  <2>1. /\ WholeRaid(raid[o]) /\ WholePartners(partners[o])
        /\ \A q \in Owners \ {o} : /\ Guids(raid[o]) \cap Guids(raid[q]) = {}
                                  /\ Guids(partners[o]) \cap Guids(partners[q]) = {}
    BY DEF RosterInv, TablesOK, Disjoint
  <2>2. raid[o] # {} => OneToOne(raid[o]) BY <2>1 DEF WholeRaid
  <2>3. HandleStatus(o).roles = RosterCounts(raid[o]) BY DEF HandleStatus, Load
  <2>4. raid[o] # {} => Total(HandleStatus(o).roles) = Cardinality(DOMAIN Comp)
    BY <2>2, <2>3, RoleSizes
  <2>5. partners[o] # {} => {p.cls : p \in partners[o]} = DOMAIN PartnerDefs BY <2>1 DEF WholePartners
  <2>6. partners[o] # {} => Cardinality(PartnersStatus(o)) = Cardinality(DOMAIN PartnerDefs)
    BY <2>1, PartnersCounted
  <2> QED BY <2>1, <2>2, <2>4, <2>5, <2>6 DEF OneToOne
<1> QED BY <1>1, InvHolds, PTL

-----------------------------------------------------------------------------
(* Raid logins. *)

LEMMA PlanFits ==
  ASSUME NEW o \in Owners, WholeRaid(raid[o]), NEW size \in DOMAIN SubComps, NEW party \in Parties
  PROVE  /\ Plan(o, size, party) \in Counts
         /\ Total(Plan(o, size, party)) = Least(SlotsForRoster(size, party), Cardinality(raid[o]))
<1>1. RosterCounts(raid[o]) \in Counts /\ Total(RosterCounts(raid[o])) = Cardinality(raid[o])
  BY RoleSizes DEF WholeRaid
<1>2. size \in Nat /\ DesiredTotal(SubComps[size]) \in Counts
  BY SubCompsAssumption DEF DesiredTotal, Counts, Roles
<1>3. party \in Counts BY RosterAssumption
<1> QED BY <1>1, <1>2, <1>3, PlanTotals DEF Plan, Load

(* Three sets of rows, one of each role, have together as many rows.         *)
LEMMA ChoiceSize ==
  ASSUME NEW rows, IsFiniteSet(rows), NEW t \in SUBSET OfRole(rows, "tank"),
         NEW h \in SUBSET OfRole(rows, "heal"), NEW d \in SUBSET OfRole(rows, "dps")
  PROVE  Cardinality(t \cup h \cup d) = Cardinality(t) + Cardinality(h) + Cardinality(d)
<1>1. /\ t \in SUBSET rows /\ h \in SUBSET rows /\ d \in SUBSET rows
      /\ t \cap h = {} /\ (t \cup h) \cap d = {}
  BY DEF OfRole
<1>2. IsFiniteSet(t) /\ IsFiniteSet(h) /\ IsFiniteSet(d) /\ Cardinality({}) = 0
  BY <1>1, FS_Subset, FS_EmptySet
<1>3. /\ IsFiniteSet(t \cup h)
      /\ Cardinality(t \cup h) = Cardinality(t) + Cardinality(h) - Cardinality(t \cap h)
  BY <1>2, FS_Union
<1>4. Cardinality(t \cup h \cup d) = Cardinality(t \cup h) + Cardinality(d) - Cardinality((t \cup h) \cap d)
  BY <1>2, <1>3, FS_Union
<1>5. Cardinality(t \cap h) = 0 /\ Cardinality((t \cup h) \cap d) = 0 BY <1>1, <1>2, Zenon
<1>6. Cardinality(t) \in Nat /\ Cardinality(h) \in Nat /\ Cardinality(d) \in Nat
  BY <1>2, FS_CardinalityType
<1> QED BY <1>3, <1>4, <1>5, <1>6

(* Whom a login leaves with the player: the rows it wants, and no others.    *)
LEMMA LoginServes ==
  ASSUME RosterInv, NEW o \in Owners, OneToOne(raid[o]), NEW want \in SUBSET raid[o],
         \A b \in Guids(raid[o]) : b \in Online(o) \/ session[b] = NoOne,
         session' = LogoutPlayerBot(o, Dismissed(o, want), AddPlayerBot(o, Guids(want)))
  PROVE  \A r \in raid[o] : session'[r.bot].of = o <=> r \in want
<1> SUFFICES ASSUME NEW r \in raid[o] PROVE session'[r.bot].of = o <=> r \in want OBVIOUS
<1>1. r.bot \in Bots /\ r.bot \in Guids(raid[o]) BY DEF OneToOne, Row, Guids
<1>2. session[r.bot] = [st |-> "on", of |-> o] \/ session[r.bot] = NoOne BY <1>1 DEF Online
<1>3. r.bot \in Guids(want) <=> r \in want BY DEF OneToOne, Guids
<1>4. "none" # o /\ NoOne.of = "none" /\ NoOne.st = "off" BY RosterAssumption DEF NoOne
<1> DEFINE added == AddPlayerBot(o, Guids(want))
<1>5. added[r.bot] = IF r \in want /\ session[r.bot].st = "off"
                     THEN [st |-> "loading", of |-> o] ELSE session[r.bot]
  BY <1>1, <1>3 DEF AddPlayerBot
<1>6. session'[r.bot] = IF r \notin want /\ r.bot \in Online(o) THEN NoOne ELSE added[r.bot]
  BY <1>1, <1>3 DEF LogoutPlayerBot, Dismissed, Load
<1>7. CASE r \in want
  <2> HIDE DEF added
  <2> QED BY <1>2, <1>4, <1>5, <1>6, <1>7
<1>8. CASE r \notin want
  <2>1. r.bot \in Online(o) <=> session[r.bot] = [st |-> "on", of |-> o] BY <1>1 DEF Online
  <2> HIDE DEF added
  <2> QED BY <1>2, <1>4, <1>5, <1>6, <1>8, <2>1
<1> QED BY <1>7, <1>8

LEMMA LoginOutcome ==
  ASSUME RosterInv, NEW o \in Owners, raid[o] # {},
         \A b \in Guids(raid[o]) : b \in Online(o) \/ session[b] = NoOne,
         NEW size \in DOMAIN SubComps, NEW party \in Parties, RaidLogin(o, size, party)
  PROVE  LET fielded(role) == {r \in OfRole(raid[o], role) : session'[r.bot].of = o}
             before(role) == {r \in OfRole(raid[o], role) : session[r.bot].of = o}
         IN /\ Cardinality(UNION {fielded(role) : role \in Roles})
                 = Least(SlotsForRoster(size, party), Cardinality(raid[o]))
            /\ \A role \in Roles :
                 fielded(role) \subseteq before(role) \/ before(role) \subseteq fielded(role)
<1> DEFINE fielded(role) == {r \in OfRole(raid[o], role) : session'[r.bot].of = o}
           before(role) == {r \in OfRole(raid[o], role) : session[r.bot].of = o}
           plan == Plan(o, size, party)
<1>1. WholeRaid(raid[o]) /\ OneToOne(raid[o]) BY DEF RosterInv, TablesOK, WholeRaid
<1>2. PICK want \in Selections(o, plan) :
        session' = LogoutPlayerBot(o, Dismissed(o, want), AddPlayerBot(o, Guids(want)))
  BY DEF RaidLogin
<1>3. PICK t \in Selected(o, "tank", plan["tank"]), h \in Selected(o, "heal", plan["heal"]),
           d \in Selected(o, "dps", plan["dps"]) : want = t \cup h \cup d
  BY <1>2 DEF Selections
<1> DEFINE up(role) == {r \in OfRole(raid[o], role) : r.bot \in Online(o)}
<1>4. /\ t \in SUBSET OfRole(raid[o], "tank") /\ Cardinality(t) = plan["tank"]
      /\ h \in SUBSET OfRole(raid[o], "heal") /\ Cardinality(h) = plan["heal"]
      /\ d \in SUBSET OfRole(raid[o], "dps") /\ Cardinality(d) = plan["dps"]
      /\ up("tank") \subseteq t \/ t \subseteq up("tank")
      /\ up("heal") \subseteq h \/ h \subseteq up("heal")
      /\ up("dps") \subseteq d \/ d \subseteq up("dps")
  BY <1>3 DEF Selected, Load
<1>5. want \in SUBSET raid[o] BY <1>3, <1>4 DEF OfRole
<1>6. \A r \in raid[o] : session'[r.bot].of = o <=> r \in want
  BY <1>1, <1>2, <1>5, LoginServes
<1>7. fielded("tank") = t /\ fielded("heal") = h /\ fielded("dps") = d
  BY <1>3, <1>4, <1>6 DEF OfRole
<1>8. \A role \in Roles : before(role) = up(role)
  <2> SUFFICES ASSUME NEW role \in Roles, NEW r \in raid[o]
               PROVE  session[r.bot].of = o <=> r.bot \in Online(o)
    BY DEF OfRole
  <2>1. r.bot \in Bots /\ r.bot \in Guids(raid[o]) BY <1>1 DEF OneToOne, Row, Guids
  <2> QED BY <2>1, RosterAssumption DEF Online, NoOne
<1>9. UNION {fielded(role) : role \in Roles} = want
  BY <1>3, <1>7 DEF Roles
<1>10. Cardinality(want) = Least(SlotsForRoster(size, party), Cardinality(raid[o]))
  <2>1. IsFiniteSet(raid[o]) BY <1>1, RoleSizes
  <2>2. Cardinality(want) = plan["tank"] + plan["heal"] + plan["dps"]
    BY <1>3, <1>4, <2>1, ChoiceSize
  <2>3. Total(plan) = Least(SlotsForRoster(size, party), Cardinality(raid[o])) BY <1>1, PlanFits
  <2> QED BY <2>2, <2>3 DEF Total
<1>11. \A role \in Roles : fielded(role) \subseteq before(role) \/ before(role) \subseteq fielded(role)
  <2> HIDE DEF fielded, before, up, plan
  <2> QED BY <1>4, <1>7, <1>8 DEF Roles
<1> QED BY <1>9, <1>10, <1>11

(* RaidFits for every composition, size, party and roster (HandleLogin).     *)
THEOREM LoginFillsTheRaid == RosterSpec => RaidFits
<1>1. RosterInv => [\A o \in Owners :
       /\ raid[o] # {} /\ \A b \in Guids(raid[o]) : b \in Online(o) \/ session[b] = NoOne
       /\ session' # session
       =>
         LET fielded(role) == {r \in OfRole(raid[o], role) : session'[r.bot].of = o}
             before(role) == {r \in OfRole(raid[o], role) : session[r.bot].of = o}
         IN \A size \in DOMAIN SubComps, party \in Parties :
              RaidLogin(o, size, party) =>
                /\ Cardinality(UNION {fielded(role) : role \in Roles})
                     = Least(SlotsForRoster(size, party), Cardinality(raid[o]))
                /\ \A role \in Roles :
                     fielded(role) \subseteq before(role) \/ before(role) \subseteq fielded(role)]_rosterVars
  BY LoginOutcome
<1> QED BY <1>1, InvHolds, PTL DEF RaidFits

-----------------------------------------------------------------------------
(* Induction on the naturals and on finite sets, sums and maxima: what the     *)
(* proofs about stockup, gear and gems share.                                  *)

\* Every nonempty set of naturals has a least element, and a set that has 0 and
\* each successor has them all.
LEMMA NatMin == ASSUME NEW T, T \subseteq Nat, T # {} PROVE \E m \in T : \A y \in T : m <= y
<1> DEFINE R == {ss \in Nat \X Nat : ss[1] < ss[2]}
<1>1. IsWellFoundedOn(R, Nat)  BY NatLessThanWellFounded DEF OpToRel
<1>2. \A x, y \in Nat : y < x => <<y, x>> \in R  OBVIOUS
<1> HIDE DEF R
<1>3. PICK m \in T : \A y \in T : ~(<<y, m>> \in R)  BY <1>1, WFMin
<1>4. \A y \in T : ~(y < m)  BY <1>2, <1>3
<1>5. \A y \in T : m <= y  BY <1>3, <1>4
<1> QED  BY <1>3, <1>5

LEMMA NatInd ==
    ASSUME NEW S, 0 \in S, \A k \in Nat : k \in S => k + 1 \in S
    PROVE  Nat \subseteq S
<1> SUFFICES ASSUME NEW k \in Nat, k \notin S PROVE FALSE  OBVIOUS
<1> DEFINE T == {i \in Nat : i \notin S}
<1>1. PICK m \in T : \A i \in T : m <= i
  <2>1. T \subseteq Nat /\ T # {}  OBVIOUS
  <2> HIDE DEF T
  <2> QED  BY <2>1, NatMin
<1>2. m # 0 /\ m \in Nat /\ m \notin S  BY <1>1
<1>3. m - 1 \in Nat /\ m - 1 \notin T  BY <1>1, <1>2
<1>4. m - 1 \in S  BY <1>3
<1> QED  BY <1>2, <1>3, <1>4

(* A sum over a finite set, taken apart: a function it on the subsets of S,    *)
(* one element added at a time.                                                *)
AnyOf(s) == CHOOSE x \in s : TRUE
SumsUp(it, S, h) ==
  it = [s \in SUBSET S |-> IF s = {} THEN 0 ELSE h[AnyOf(s)] + it[s \ {AnyOf(s)}]]
Upto(S, k) == {s \in SUBSET S : Cardinality(s) <= k}

LEMMA LessOne ==
    ASSUME NEW S, IsFiniteSet(S), NEW k \in Nat, NEW s \in Upto(S, k + 1), s # {}
    PROVE  AnyOf(s) \in s /\ s \ {AnyOf(s)} \in Upto(S, k)
<1>1. AnyOf(s) \in s  BY DEF AnyOf
<1>2. IsFiniteSet(s)  BY FS_Subset DEF Upto
<1>3. Cardinality(s \ {AnyOf(s)}) = Cardinality(s) - 1 /\ Cardinality(s) \in Nat
  BY <1>1, <1>2, FS_RemoveElement, FS_CardinalityType
<1>4. Cardinality(s \ {AnyOf(s)}) <= k  BY <1>3 DEF Upto
<1> QED  BY <1>1, <1>4 DEF Upto

LEMMA AllUpto ==
    ASSUME NEW S, IsFiniteSet(S)
    PROVE  Upto(S, Cardinality(S)) = SUBSET S /\ Cardinality(S) \in Nat
<1>1. Cardinality(S) \in Nat  BY FS_CardinalityType
<1>2. \A s \in SUBSET S : Cardinality(s) <= Cardinality(S)  BY FS_Subset
<1> QED  BY <1>1, <1>2 DEF Upto

LEMMA SumExists == ASSUME NEW S, IsFiniteSet(S), NEW h PROVE \E it : SumsUp(it, S, h)
<1> DEFINE Sums(f, k) ==
             f = [s \in Upto(S, k) |-> IF s = {} THEN 0 ELSE h[AnyOf(s)] + f[s \ {AnyOf(s)}]]
           Sizes == {k \in Nat : \E f : Sums(f, k)}
<1>1. 0 \in Sizes
  <2>1. \A s \in Upto(S, 0) : s = {}
    <3> TAKE s \in Upto(S, 0)
    <3>1. IsFiniteSet(s)  BY FS_Subset DEF Upto
    <3>2. Cardinality(s) \in Nat /\ Cardinality(s) <= 0  BY <3>1, FS_CardinalityType DEF Upto
    <3>3. Cardinality(s) = 0  BY <3>2
    <3> QED  BY <3>1, <3>3, FS_EmptySet
  <2> DEFINE f == [s \in Upto(S, 0) |-> 0]
  <2>2. Sums(f, 0)  BY <2>1
  <2> QED  BY <2>2
<1>2. ASSUME NEW k \in Nat, k \in Sizes PROVE k + 1 \in Sizes
  <2>1. PICK f : Sums(f, k)  BY <1>2
  <2> DEFINE g == [s \in Upto(S, k + 1) |-> IF s = {} THEN 0 ELSE h[AnyOf(s)] + f[s \ {AnyOf(s)}]]
  <2>2. \A s \in Upto(S, k) : s \in Upto(S, k + 1)
    <3> TAKE s \in Upto(S, k)
    <3>1. IsFiniteSet(s)  BY FS_Subset DEF Upto
    <3>2. Cardinality(s) \in Nat /\ Cardinality(s) <= k  BY <3>1, FS_CardinalityType DEF Upto
    <3>3. Cardinality(s) <= k + 1  BY <3>2
    <3> QED  BY <3>3 DEF Upto
  <2>3. \A s \in Upto(S, k) : g[s] = f[s]  BY <2>1, <2>2
  <2>4. \A s \in Upto(S, k + 1) : s # {} => g[s \ {AnyOf(s)}] = f[s \ {AnyOf(s)}]
    <3> HIDE DEF g
    <3> QED  BY <2>3, LessOne
  <2>5. \A s \in Upto(S, k + 1) : g[s] = IF s = {} THEN 0 ELSE h[AnyOf(s)] + f[s \ {AnyOf(s)}]
    OBVIOUS
  <2>6. g = [s \in Upto(S, k + 1) |-> g[s]]  OBVIOUS
  <2>7. Sums(g, k + 1)
    <3> HIDE DEF g
    <3> QED  BY <2>4, <2>5, <2>6
  <2> HIDE DEF g, Sums
  <2> QED  BY <2>7
<1>3. Nat \subseteq Sizes
  <2> HIDE DEF Sizes
  <2> QED  BY <1>1, <1>2, NatInd
<1>4. \E f : Sums(f, Cardinality(S))  BY <1>3, AllUpto
<1>5. PICK f : Sums(f, Cardinality(S))  BY <1>4
<1>6. SumsUp(f, S, h)  BY <1>5, AllUpto DEF SumsUp
<1> QED  BY <1>6

LEMMA SumGrows ==
    ASSUME NEW S, IsFiniteSet(S), NEW h, \A x \in S : h[x] \in Nat, NEW it, SumsUp(it, S, h)
    PROVE  it[S] \in Nat /\ \A x \in S : h[x] <= it[S]
<1> DEFINE Good(s) == it[s] \in Nat /\ \A x \in s : h[x] <= it[s]
           Sizes == {k \in Nat : \A s \in Upto(S, k) : Good(s)}
<1>1. \A s \in SUBSET S : it[s] = IF s = {} THEN 0 ELSE h[AnyOf(s)] + it[s \ {AnyOf(s)}]
  BY DEF SumsUp
<1>2. 0 \in Sizes
  <2> SUFFICES ASSUME NEW s \in Upto(S, 0) PROVE Good(s)  OBVIOUS
  <2>1. IsFiniteSet(s) /\ s \in SUBSET S  BY FS_Subset DEF Upto
  <2>2. Cardinality(s) \in Nat /\ Cardinality(s) <= 0  BY <2>1, FS_CardinalityType DEF Upto
  <2>3. Cardinality(s) = 0  BY <2>2
  <2>4. s = {}  BY <2>1, <2>3, FS_EmptySet
  <2>5. it[s] = 0  BY <1>1, <2>1, <2>4
  <2> QED  BY <2>4, <2>5
<1>3. ASSUME NEW k \in Nat, k \in Sizes PROVE k + 1 \in Sizes
  <2> SUFFICES ASSUME NEW s \in Upto(S, k + 1) PROVE Good(s)  OBVIOUS
  <2>1. s \in SUBSET S  BY DEF Upto
  <2>2. CASE s = {}  BY <1>1, <2>1, <2>2
  <2>3. CASE s # {}
    <3> DEFINE y == AnyOf(s)  r == s \ {y}
    <3>1. y \in s /\ r \in Upto(S, k)  BY <2>3, LessOne
    <3>2. it[s] = h[y] + it[r]  BY <1>1, <2>1, <2>3
    <3>3. Good(r)  BY <1>3, <3>1
    <3>4. h[y] \in Nat  BY <2>1, <3>1
    <3>5. \A x \in s : h[x] \in Nat /\ (x = y \/ x \in r)  BY <2>1
    <3> HIDE DEF y, r
    <3> QED  BY <3>1, <3>2, <3>3, <3>4, <3>5
  <2> QED  BY <2>2, <2>3
<1>4. Nat \subseteq Sizes
  <2> HIDE DEF Sizes
  <2> QED  BY <1>2, <1>3, NatInd
<1>5. S \in Upto(S, Cardinality(S)) /\ Cardinality(S) \in Nat  BY AllUpto
<1> QED  BY <1>4, <1>5

SumOver(h, S) == MapThenSumSet(LAMBDA s : h[s], S)
LEMMA SumFacts ==
    ASSUME NEW S, IsFiniteSet(S), NEW h, \A x \in S : h[x] \in Nat
    PROVE  SumOver(h, S) \in Nat /\ \A x \in S : h[x] <= SumOver(h, S)
<1> DEFINE it == CHOOSE it : SumsUp(it, S, h)
<1>1. SumsUp(it, S, h)  BY SumExists
<1>2. SumOver(h, S) = it[S]
  BY DEF SumOver, MapThenSumSet, MapThenFoldSet, SumsUp, AnyOf
<1> HIDE DEF it
<1> QED  BY <1>1, <1>2, SumGrows

(* The best of a nonempty finite set, by a rank. *)
LEMMA HighestExists ==
    ASSUME NEW S, IsFiniteSet(S), S # {}, NEW rank, \A x \in S : rank[x] \in Int
    PROVE  \E x \in S : \A y \in S : rank[y] <= rank[x]
<1> DEFINE Sizes == {k \in Nat : \A T \in Upto(S, k) : T # {} => \E x \in T : \A y \in T : rank[y] <= rank[x]}
<1>1. 0 \in Sizes
  <2> SUFFICES ASSUME NEW T \in Upto(S, 0) PROVE T = {}  OBVIOUS
  <2>1. IsFiniteSet(T)  BY FS_Subset DEF Upto
  <2>2. Cardinality(T) \in Nat /\ Cardinality(T) <= 0  BY <2>1, FS_CardinalityType DEF Upto
  <2>3. Cardinality(T) = 0  BY <2>2
  <2> QED  BY <2>1, <2>3, FS_EmptySet
<1>2. ASSUME NEW k \in Nat, k \in Sizes PROVE k + 1 \in Sizes
  <2> SUFFICES ASSUME NEW T \in Upto(S, k + 1), T # {} PROVE \E x \in T : \A y \in T : rank[y] <= rank[x]
    OBVIOUS
  <2> DEFINE z == AnyOf(T)  U == T \ {z}
  <2>1. z \in T /\ U \in Upto(S, k)  BY LessOne
  <2>2. T = U \cup {z} /\ \A x \in T : rank[x] \in Int  BY <2>1 DEF Upto
  <2>3. U # {} => \E x \in U : \A y \in U : rank[y] <= rank[x]  BY <1>2, <2>1
  <2> HIDE DEF z, U
  <2> QED  BY <2>1, <2>2, <2>3
<1>3. Nat \subseteq Sizes
  <2> HIDE DEF Sizes
  <2> QED  BY <1>1, <1>2, NatInd
<1>4. S \in Upto(S, Cardinality(S)) /\ Cardinality(S) \in Nat  BY AllUpto
<1> QED  BY <1>3, <1>4

LEMMA MaxIs ==
    ASSUME NEW S \in SUBSET Int, IsFiniteSet(S), S # {}
    PROVE  Max(S) \in S /\ \A x \in S : x <= Max(S)
<1> DEFINE rank == [x \in S |-> x]
<1>1. \E x \in S : \A y \in S : rank[y] <= rank[x]
  <2>1. \A x \in S : rank[x] \in Int  OBVIOUS
  <2> HIDE DEF rank
  <2> QED  BY <2>1, HighestExists
<1>2. \E x \in S : \A y \in S : x >= y  BY <1>1
<1>3. \A x \in S : x \in Int  OBVIOUS
<1> QED  BY <1>2, <1>3 DEF Max

\* A sum is no less when no summand is.
LEMMA SumMonotone ==
    ASSUME NEW S, IsFiniteSet(S), NEW h, NEW k, \A x \in S : h[x] \in Nat /\ k[x] \in Nat /\ h[x] <= k[x]
    PROVE  SumOver(h, S) <= SumOver(k, S) /\ SumOver(h, S) \in Nat /\ SumOver(k, S) \in Nat
<1>1. PICK a : SumsUp(a, S, h) /\ SumOver(h, S) = a[S]
  <2>1. SumOver(h, S) = (CHOOSE it : SumsUp(it, S, h))[S]
    BY DEF SumOver, MapThenSumSet, MapThenFoldSet, SumsUp, AnyOf
  <2>2. \E it : SumsUp(it, S, h)  BY SumExists
  <2> QED  BY <2>1, <2>2
<1>2. PICK b : SumsUp(b, S, k) /\ SumOver(k, S) = b[S]
  <2>1. SumOver(k, S) = (CHOOSE it : SumsUp(it, S, k))[S]
    BY DEF SumOver, MapThenSumSet, MapThenFoldSet, SumsUp, AnyOf
  <2>2. \E it : SumsUp(it, S, k)  BY SumExists
  <2> QED  BY <2>1, <2>2
<1> DEFINE Good(s) == a[s] \in Nat /\ b[s] \in Nat /\ a[s] <= b[s]
           Sizes == {n \in Nat : \A s \in Upto(S, n) : Good(s)}
<1>3. \A s \in SUBSET S : /\ a[s] = IF s = {} THEN 0 ELSE h[AnyOf(s)] + a[s \ {AnyOf(s)}]
                          /\ b[s] = IF s = {} THEN 0 ELSE k[AnyOf(s)] + b[s \ {AnyOf(s)}]
  BY <1>1, <1>2 DEF SumsUp
<1>4. 0 \in Sizes
  <2> SUFFICES ASSUME NEW s \in Upto(S, 0) PROVE Good(s)  OBVIOUS
  <2>1. IsFiniteSet(s) /\ s \in SUBSET S  BY FS_Subset DEF Upto
  <2>2. Cardinality(s) \in Nat /\ Cardinality(s) <= 0  BY <2>1, FS_CardinalityType DEF Upto
  <2>3. Cardinality(s) = 0  BY <2>2
  <2>4. s = {}  BY <2>1, <2>3, FS_EmptySet
  <2>5. a[s] = 0 /\ b[s] = 0  BY <1>3, <2>1, <2>4
  <2> QED  BY <2>5
<1>5. ASSUME NEW n \in Nat, n \in Sizes PROVE n + 1 \in Sizes
  <2> SUFFICES ASSUME NEW s \in Upto(S, n + 1) PROVE Good(s)  OBVIOUS
  <2>1. s \in SUBSET S  BY DEF Upto
  <2>2. CASE s = {}
    <3>1. a[s] = 0 /\ b[s] = 0  BY <1>3, <2>1, <2>2
    <3> QED  BY <3>1
  <2>3. CASE s # {}
    <3> DEFINE y == AnyOf(s)  r == s \ {y}
    <3>1. y \in s /\ r \in Upto(S, n)  BY <2>3, LessOne
    <3>2. a[s] = h[y] + a[r] /\ b[s] = k[y] + b[r]  BY <1>3, <2>1, <2>3
    <3>3. Good(r)  BY <1>5, <3>1
    <3>4. h[y] \in Nat /\ k[y] \in Nat /\ h[y] <= k[y]  BY <2>1, <3>1
    <3> HIDE DEF y, r
    <3> QED  BY <3>2, <3>3, <3>4
  <2> QED  BY <2>2, <2>3
<1>6. Nat \subseteq Sizes
  <2> HIDE DEF Sizes
  <2> QED  BY <1>4, <1>5, NatInd
<1>7. S \in Upto(S, Cardinality(S)) /\ Cardinality(S) \in Nat  BY AllUpto
<1>8. Good(S)  BY <1>6, <1>7
<1> QED  BY <1>1, <1>2, <1>8

-----------------------------------------------------------------------------
(* Stockup. A bag counts the units of each good. *)
Bag == [Goods -> Nat]
BagsCounted == bags \in [Bots -> Bag]
\* What two bags have in common but for the goods in S, of which there are no fewer.
RaisedIn(S, old, new) ==
  /\ new \in Bag
  /\ \A g \in Goods : old[g] <= new[g]
  /\ \A g \in Goods \ S : old[g] = new[g]

LEMMA StoreRaises ==
    ASSUME NEW bag \in Bag, NEW g \in Goods
    PROVE  RaisedIn({g}, bag, StoreMissingItemCount(bag, g, g.stack))
<1>1. g.stack \in Nat  BY GoodsAssumption
<1>2. bag[g] \in Nat /\ \A x \in Goods : bag[x] \in Nat  BY DEF Bag
<1> DEFINE new == StoreMissingItemCount(bag, g, g.stack)
<1>3. CASE new = bag
  <2> QED  BY <1>2, <1>3 DEF RaisedIn
<1>4. CASE new # bag
  <2>1. new = [bag EXCEPT ![g] = g.stack] /\ ~(bag[g] >= g.stack)  BY <1>4 DEF StoreMissingItemCount
  <2>2. new \in Bag /\ new[g] = g.stack /\ \A x \in Goods \ {g} : new[x] = bag[x]  BY <1>1, <2>1 DEF Bag
  <2>3. \A x \in Goods : x = g \/ x \in Goods \ {g}  OBVIOUS
  <2>4. \A x \in Goods : bag[x] <= new[x]
    <3> HIDE DEF new
    <3> QED  BY <1>1, <1>2, <2>1, <2>2, <2>3
  <2> QED  BY <2>2, <2>4 DEF RaisedIn
<1> QED  BY <1>3, <1>4

LEMMA RefillRaises ==
    ASSUME NEW bag \in Bag, NEW kind, NEW given
    PROVE  RaisedIn(OfKind(kind), bag, Refilled(bag, kind, given))
<1> DEFINE new == OfKind(kind) \cap given  g == CHOOSE g \in new : TRUE
<1>1. CASE new = {}
  <2>1. Refilled(bag, kind, given) = bag  BY <1>1 DEF Refilled
  <2>2. \A x \in Goods : bag[x] <= bag[x]  BY DEF Bag
  <2> QED  BY <2>1, <2>2 DEF RaisedIn
<1>2. CASE new # {}
  <2>1. g \in OfKind(kind) /\ g \in Goods  BY <1>2 DEF OfKind
  <2>2. Refilled(bag, kind, given) = StoreMissingItemCount(bag, g, g.stack)  BY <1>2 DEF Refilled
  <2> HIDE DEF g
  <2>3. RaisedIn({g}, bag, StoreMissingItemCount(bag, g, g.stack))  BY <2>1, StoreRaises
  <2> QED  BY <2>1, <2>2, <2>3 DEF RaisedIn
<1> QED  BY <1>1, <1>2

\* The potion selected is the best carried, and of the kind asked for.
LEMMA SelectedIs ==
    ASSUME NEW bag \in Bag, NEW kind \in {"heal", "mana"}
    PROVE  LET carried == {g \in OfKind(kind) : bag[g] > 0}
               best == SelectPotionItem(bag, kind)
           IN /\ carried # {} => best \in carried /\ \A h \in carried : h.rank <= best.rank
              /\ carried = {} => best = RandomPotion[kind]
              /\ best \in Goods => best \in OfKind(kind)
<1> DEFINE carried == {g \in OfKind(kind) : bag[g] > 0}
           best == SelectPotionItem(bag, kind)
<1>1. CASE carried = {}
  <2>1. best = RandomPotion[kind]  BY <1>1 DEF SelectPotionItem
  <2>2. best \in Goods => best \in OfKind(kind)  BY <2>1, GoodsAssumption DEF OfKind
  <2> QED  BY <1>1, <2>1, <2>2
<1>2. CASE carried # {}
  <2>1. best = CHOOSE g \in carried : \A h \in carried : h.rank <= g.rank  BY <1>2 DEF SelectPotionItem
  <2>2. carried \subseteq Goods  BY DEF OfKind
  <2> DEFINE rank == [g \in carried |-> g.rank]
  <2>3. IsFiniteSet(carried) /\ \A g \in carried : rank[g] \in Int  BY <2>2, FS_Subset, GoodsAssumption
  <2>4. \E g \in carried : \A h \in carried : rank[h] <= rank[g]
    <3> HIDE DEF rank, carried
    <3> QED  BY <1>2, <2>3, HighestExists
  <2>5. \E g \in carried : \A h \in carried : h.rank <= g.rank  BY <2>4
  <2>6. best \in carried /\ \A h \in carried : h.rank <= best.rank
    <3> HIDE DEF carried, best
    <3> QED  BY <2>1, <2>5
  <2> QED  BY <1>2, <2>6
<1> QED  BY <1>1, <1>2

LEMMA TopUpRaises ==
    ASSUME NEW bag \in Bag, NEW kind \in {"heal", "mana"}
    PROVE  RaisedIn(OfKind(kind), bag, ToppedUp(bag, kind))
<1> DEFINE g == SelectPotionItem(bag, kind)
<1>1. CASE g \notin Goods
  <2>1. ToppedUp(bag, kind) = bag  BY <1>1 DEF ToppedUp
  <2>2. \A x \in Goods : bag[x] <= bag[x]  BY DEF Bag
  <2> QED  BY <2>1, <2>2 DEF RaisedIn
<1>2. CASE g \in Goods
  <2>1. ToppedUp(bag, kind) = StoreMissingItemCount(bag, g, g.stack)  BY <1>2 DEF ToppedUp
  <2>2. g \in OfKind(kind)  BY <1>2, SelectedIs
  <2> HIDE DEF g
  <2>3. RaisedIn({g}, bag, StoreMissingItemCount(bag, g, g.stack))  BY <1>2, StoreRaises
  <2> QED  BY <2>1, <2>2, <2>3 DEF RaisedIn
<1> QED  BY <1>1, <1>2

LEMMA CountMonotone ==
    ASSUME NEW old \in Bag, NEW new \in Bag, \A g \in Goods : old[g] <= new[g]
    PROVE  /\ CountRaidStockItems(old) <= CountRaidStockItems(new)
           /\ CountRaidStockItems(old) \in Nat /\ CountRaidStockItems(new) \in Nat
<1>1. \A b \in Bag : CountRaidStockItems(b) = SumOver(b, Goods)  BY DEF CountRaidStockItems, SumOver
<1>2. IsFiniteSet(Goods) /\ \A g \in Goods : old[g] \in Nat /\ new[g] \in Nat  BY GoodsAssumption DEF Bag
<1> QED  BY <1>1, <1>2, SumMonotone

\* After a topping up, a full stack of the best potion is carried or its rest
\* finds no room.
Full(bag, g) == bag[g] >= g.stack \/ CountRaidStockItems(bag) + g.stack - bag[g] > Room
LEMMA ToppedUpIsFull ==
    ASSUME NEW bag \in Bag
    PROVE  LET new == ToppedUp(bag, "heal")  best == SelectPotionItem(new, "heal")
           IN best \in Goods => Full(new, best)
<1> DEFINE g == SelectPotionItem(bag, "heal")  new == ToppedUp(bag, "heal")
           best == SelectPotionItem(new, "heal")
           carried(b) == {x \in OfKind("heal") : b[x] > 0}
<1>1. RaisedIn(OfKind("heal"), bag, new) /\ new \in Bag  BY TopUpRaises DEF RaisedIn
<1>2. CASE g \notin Goods
  <2>1. new = bag  BY <1>2 DEF ToppedUp
  <2> QED  BY <1>2, <2>1
<1>3. CASE g \in Goods
  <2>1. new = StoreMissingItemCount(bag, g, g.stack)  BY <1>3 DEF ToppedUp
  <2>2. g.stack \in Nat /\ bag[g] \in Nat  BY <1>3, GoodsAssumption DEF Bag
  <2>3. Full(new, g) /\ (new = bag \/ new = [bag EXCEPT ![g] = g.stack])
    <3>1. CASE bag[g] >= g.stack \/ CountRaidStockItems(bag) + g.stack - bag[g] > Room
      <4>1. new = bag  BY <2>1, <3>1 DEF StoreMissingItemCount
      <4> QED  BY <3>1, <4>1 DEF Full
    <3>2. CASE ~(bag[g] >= g.stack \/ CountRaidStockItems(bag) + g.stack - bag[g] > Room)
      <4>1. new = [bag EXCEPT ![g] = g.stack]  BY <2>1, <3>2 DEF StoreMissingItemCount
      <4>2. new[g] = g.stack  BY <1>3, <4>1 DEF Bag
      <4> HIDE DEF g, new
      <4> QED  BY <2>2, <4>1, <4>2 DEF Full
    <3> QED  BY <3>1, <3>2
  <2>4. best = g
    <3>1. CASE new = bag  BY <3>1
    <3>2. CASE new # bag
      <4>1. new = [bag EXCEPT ![g] = g.stack] /\ g \in OfKind("heal")  BY <1>3, <2>3, <3>2, SelectedIs
      <4>2. new[g] = g.stack /\ g.stack > bag[g] /\ \A x \in Goods \ {g} : new[x] = bag[x]
        <5>1. new[g] = g.stack /\ (\A x \in Goods \ {g} : new[x] = bag[x])  BY <1>3, <4>1 DEF Bag
        <5>2. bag[g] # g.stack
          <6>1. bag = [bag EXCEPT ![g] = bag[g]]  BY DEF Bag
          <6> QED  BY <3>2, <4>1, <6>1
        <5>3. bag[g] <= new[g]  BY <1>1, <1>3 DEF RaisedIn
        <5> HIDE DEF g, new
        <5> QED  BY <2>2, <5>1, <5>2, <5>3
      <4>3. carried(new) = carried(bag) \cup {g}
        <5>1. OfKind("heal") \subseteq Goods  BY DEF OfKind
        <5> HIDE DEF g, new
        <5> QED  BY <2>2, <4>1, <4>2, <5>1
      <4>4. CASE carried(bag) = {}
        <5>1. carried(new) = {g}  BY <4>3, <4>4
        <5> HIDE DEF g
        <5>2. best \in carried(new)  BY <1>1, <5>1, SelectedIs
        <5> QED  BY <5>1, <5>2
      <4>5. CASE carried(bag) # {}
        <5>1. g \in carried(bag)  BY <4>5, SelectedIs
        <5>2. carried(new) = carried(bag)  BY <4>3, <5>1
        <5>3. carried(new) # {}  BY <4>5, <5>2
        <5>4. best = (CHOOSE x \in carried(new) : \A h \in carried(new) : h.rank <= x.rank)
          BY <5>3 DEF SelectPotionItem
        <5>5. g = (CHOOSE x \in carried(bag) : \A h \in carried(bag) : h.rank <= x.rank)
          BY <4>5 DEF SelectPotionItem
        <5> HIDE DEF g, best, carried
        <5> QED  BY <5>2, <5>4, <5>5
      <4> QED  BY <4>4, <4>5
    <3> QED  BY <3>1, <3>2
  <2> QED  BY <2>3, <2>4
<1> QED  BY <1>2, <1>3

\* The selection looks at what is carried of the kind only.
LEMMA SelectsAlike ==
    ASSUME NEW kind, NEW old, NEW new,
           {g \in OfKind(kind) : new[g] > 0} = {g \in OfKind(kind) : old[g] > 0}
    PROVE  SelectPotionItem(new, kind) = SelectPotionItem(old, kind)
<1> DEFINE c(b) == {g \in OfKind(kind) : b[g] > 0}
           Best(s) == IF s = {} THEN RandomPotion[kind] ELSE CHOOSE g \in s : \A h \in s : h.rank <= g.rank
<1>1. \A b : SelectPotionItem(b, kind) = Best(c(b))  BY DEF SelectPotionItem
<1>2. c(new) = c(old)  OBVIOUS
<1> HIDE DEF c, Best
<1> QED  BY <1>1, <1>2

\* Topping up the mana potions leaves the healing potions as they are.
LEMMA MoreManaStillFull ==
    ASSUME NEW bag \in Bag,
           SelectPotionItem(bag, "heal") \in Goods => Full(bag, SelectPotionItem(bag, "heal"))
    PROVE  LET new == ToppedUp(bag, "mana")  best == SelectPotionItem(new, "heal")
           IN best \in Goods => Full(new, best)
<1> DEFINE new == ToppedUp(bag, "mana")  best == SelectPotionItem(new, "heal")
<1>1. new \in Bag /\ (\A g \in Goods : bag[g] <= new[g]) /\ (\A g \in Goods \ OfKind("mana") : bag[g] = new[g])
  BY TopUpRaises DEF RaisedIn
<1> HIDE DEF new
<1>2. \A g \in OfKind("heal") : g \in Goods \ OfKind("mana")  BY DEF OfKind
<1>3. {g \in OfKind("heal") : new[g] > 0} = {g \in OfKind("heal") : bag[g] > 0}  BY <1>1, <1>2
<1>4. best = SelectPotionItem(bag, "heal")  BY <1>3, SelectsAlike
<1>5. ASSUME best \in Goods PROVE Full(new, best)
  <2>1. best \in OfKind("heal") /\ Full(bag, best)
    <3>1. best \in OfKind("heal")  BY <1>1, <1>5, SelectedIs
    <3> QED  BY <1>4, <1>5, <3>1
  <2>2. new[best] = bag[best] /\ bag[best] \in Nat /\ best.stack \in Nat
    BY <1>1, <1>2, <1>5, <2>1, GoodsAssumption DEF Bag
  <2>3. /\ CountRaidStockItems(bag) <= CountRaidStockItems(new)
        /\ CountRaidStockItems(bag) \in Nat /\ CountRaidStockItems(new) \in Nat
    BY <1>1, CountMonotone
  <2> HIDE DEF best
  <2> QED  BY <2>1, <2>2, <2>3, GoodsAssumption DEF Full
<1> QED  BY <1>5 DEF new

LEMMA RaisedTwice ==
    ASSUME NEW S, NEW T, NEW a \in Bag, NEW b, NEW c, RaisedIn(S, a, b), RaisedIn(T, b, c)
    PROVE  RaisedIn(S \cup T, a, c)
<1>1. \A g \in Goods : a[g] \in Nat /\ b[g] \in Nat /\ c[g] \in Nat  BY DEF RaisedIn, Bag
<1> QED  BY <1>1 DEF RaisedIn

\* At its own vendor: what is gone was taken, and the best potion is full.
LEMMA StockedHereKeeps ==
    ASSUME BagsCounted, NEW b \in Bots, NEW taken \in SUBSET ForSale, NEW given
    PROVE  LET new == StockedHere(b, taken, given)  best == SelectPotionItem(new, "heal")
           IN /\ new \in Bag /\ \A g \in Goods \ taken : bags[b][g] <= new[g]
              /\ best \in Goods => Full(new, best)
<1> DEFINE sold == SellVendorItems(bags[b], taken)
           r1 == Refilled(sold, "ammo", given)  r2 == Refilled(r1, "reagent", given)
           r3 == Refilled(r2, "food", given)  r4 == Refilled(r3, "heal", given)
           r5 == ToppedUp(r4, "heal")  new == TopOffPotions(b, r4)
<1>1. sold \in Bag /\ \A g \in Goods \ taken : sold[g] = bags[b][g]
  BY DEF SellVendorItems, BagsCounted, Bag
<1>2. StockedHere(b, taken, given) = new  BY DEF StockedHere
<1> HIDE DEF sold
<1>3. r1 \in Bag /\ \A g \in Goods : sold[g] <= r1[g]  BY <1>1, RefillRaises DEF RaisedIn
<1> HIDE DEF r1
<1>4. r2 \in Bag /\ \A g \in Goods : r1[g] <= r2[g]  BY <1>3, RefillRaises DEF RaisedIn
<1> HIDE DEF r2
<1>5. r3 \in Bag /\ \A g \in Goods : r2[g] <= r3[g]  BY <1>4, RefillRaises DEF RaisedIn
<1> HIDE DEF r3
<1>6. r4 \in Bag /\ \A g \in Goods : r3[g] <= r4[g]  BY <1>5, RefillRaises DEF RaisedIn
<1> HIDE DEF r4
<1>7. r5 \in Bag /\ \A g \in Goods : r4[g] <= r5[g]  BY <1>6, TopUpRaises DEF RaisedIn
<1>8. SelectPotionItem(r5, "heal") \in Goods => Full(r5, SelectPotionItem(r5, "heal"))  BY <1>6, ToppedUpIsFull
<1>9. new = IF b \in Casters THEN ToppedUp(r5, "mana") ELSE r5  BY DEF TopOffPotions
<1> HIDE DEF r5, new
<1>10. new \in Bag /\ \A g \in Goods : r5[g] <= new[g]
  <2>1. ToppedUp(r5, "mana") \in Bag /\ \A g \in Goods : r5[g] <= ToppedUp(r5, "mana")[g]
    BY <1>7, TopUpRaises DEF RaisedIn
  <2>2. \A g \in Goods : r5[g] <= r5[g]  BY <1>7 DEF Bag
  <2> QED  BY <1>7, <1>9, <2>1, <2>2
<1>11. SelectPotionItem(new, "heal") \in Goods => Full(new, SelectPotionItem(new, "heal"))
  BY <1>7, <1>8, <1>9, MoreManaStillFull
<1>12. \A g \in Goods : sold[g] \in Nat /\ r1[g] \in Nat /\ r2[g] \in Nat /\ r3[g] \in Nat /\ r4[g] \in Nat
                        /\ r5[g] \in Nat /\ new[g] \in Nat
  BY <1>1, <1>3, <1>4, <1>5, <1>6, <1>7, <1>10 DEF Bag
<1>13. \A g \in Goods : sold[g] <= new[g]  BY <1>3, <1>4, <1>5, <1>6, <1>7, <1>10, <1>12
<1> QED  BY <1>1, <1>2, <1>10, <1>11, <1>13

LEMMA StockedKeeps ==
    ASSUME BagsCounted, NEW o, NEW b \in Bots, NEW taken \in SUBSET ForSale, NEW given
    PROVE  LET new == Stocked(o, b, taken, given)
               best == SelectPotionItem(new, "heal")
           IN /\ new \in Bag
              /\ {g \in Goods : new[g] < bags[b][g]} \subseteq ForSale
              /\ b \notin vendor => /\ {g \in Goods : new[g] < bags[b][g]} = {}
                                    /\ {g \in Goods : new[g] > bags[b][g]} \subseteq OfKind("reagent")
              /\ b \in vendor /\ best \in Goods => Full(new, best)
<1> DEFINE new == Stocked(o, b, taken, given)  best == SelectPotionItem(new, "heal")
<1>1. bags[b] \in Bag /\ \A g \in Goods : bags[b][g] \in Nat  BY DEF BagsCounted, Bag
<1>2. CASE b \in vendor
  <2>1. new = StockedHere(b, taken, given)  BY <1>2 DEF Stocked
  <2>2. new \in Bag /\ (\A g \in Goods \ taken : bags[b][g] <= new[g]) /\ (best \in Goods => Full(new, best))
    BY <2>1, StockedHereKeeps
  <2>3. \A g \in Goods : new[g] \in Nat  BY <2>2 DEF Bag
  <2> HIDE DEF new
  <2>4. {g \in Goods : new[g] < bags[b][g]} \subseteq ForSale  BY <1>1, <2>2, <2>3
  <2> QED  BY <1>2, <2>2, <2>4 DEF new
<1>3. CASE b \notin vendor
  <2>1. new = bags[b] \/ new = Refilled(bags[b], "reagent", given)  BY <1>3 DEF Stocked
  <2>2. RaisedIn(OfKind("reagent"), bags[b], bags[b])  BY <1>1 DEF RaisedIn
  <2>3. RaisedIn(OfKind("reagent"), bags[b], new)  BY <1>1, <2>1, <2>2, RefillRaises
  <2> HIDE DEF new
  <2>4. \A g \in Goods : new[g] \in Nat  BY <2>3 DEF RaisedIn, Bag
  <2>5. /\ {g \in Goods : new[g] < bags[b][g]} = {}
        /\ {g \in Goods : new[g] > bags[b][g]} \subseteq OfKind("reagent")
    BY <1>1, <2>3, <2>4 DEF RaisedIn
  <2> QED  BY <1>3, <2>3, <2>5 DEF RaisedIn, new
<1> QED  BY <1>2, <1>3

LEMMA StockUpKeeps ==
    ASSUME BagsCounted, NEW o \in Owners, StockUp(o)
    PROVE  /\ BagsCounted'
           /\ \A b \in Online(o) :
                LET less == {g \in Goods : bags'[b][g] < bags[b][g]}
                    more == {g \in Goods : bags'[b][g] > bags[b][g]}
                    best == SelectPotionItem(bags'[b], "heal")
                IN /\ less \subseteq ForSale
                   /\ b \notin vendor => less = {} /\ more \subseteq OfKind("reagent")
                   /\ b \in vendor /\ best \in Goods =>
                        \/ bags'[b][best] >= best.stack
                        \/ CountRaidStockItems(bags'[b]) + best.stack - bags'[b][best] > Room
<1>1. PICK taken \in SUBSET ForSale, given \in SUBSET (Goods \ ForSale) :
        bags' = [b \in Bots |-> IF b \in Online(o) THEN Stocked(o, b, taken, given) ELSE bags[b]]
  BY DEF StockUp
<1>2. ASSUME NEW b \in Bots PROVE bags'[b] \in Bag
  <2>1. Stocked(o, b, taken, given) \in Bag  BY StockedKeeps
  <2>2. bags[b] \in Bag  BY DEF BagsCounted
  <2> QED  BY <1>1, <2>1, <2>2
<1>3. BagsCounted'  BY <1>1, <1>2 DEF BagsCounted
<1>4. ASSUME NEW b \in Online(o) PROVE b \in Bots /\ bags'[b] = Stocked(o, b, taken, given)
  BY <1>1 DEF Online
<1>5. ASSUME NEW b \in Online(o)
      PROVE  LET less == {g \in Goods : bags'[b][g] < bags[b][g]}
                 more == {g \in Goods : bags'[b][g] > bags[b][g]}
                 best == SelectPotionItem(bags'[b], "heal")
             IN /\ less \subseteq ForSale
                /\ b \notin vendor => less = {} /\ more \subseteq OfKind("reagent")
                /\ b \in vendor /\ best \in Goods =>
                     \/ bags'[b][best] >= best.stack
                     \/ CountRaidStockItems(bags'[b]) + best.stack - bags'[b][best] > Room
  <2> DEFINE new == bags'[b]
  <2>1. b \in Bots /\ new = Stocked(o, b, taken, given)  BY <1>4
  <2> HIDE DEF new
  <2>2. /\ {g \in Goods : new[g] < bags[b][g]} \subseteq ForSale
        /\ b \notin vendor => /\ {g \in Goods : new[g] < bags[b][g]} = {}
                              /\ {g \in Goods : new[g] > bags[b][g]} \subseteq OfKind("reagent")
        /\ b \in vendor /\ SelectPotionItem(new, "heal") \in Goods => Full(new, SelectPotionItem(new, "heal"))
    BY <2>1, StockedKeeps
  <2> QED  BY <2>2 DEF Full, new
<1> QED  BY <1>3, <1>5

LEMMA ErrandsCounted ==
    ASSUME BagsCounted,
           [(ErrandNext /\ UNCHANGED rosterVars) \/ (RosterNext /\ UNCHANGED errandVars)]_<< rosterVars, errandVars >>
    PROVE  BagsCounted'
<1>1. ASSUME UNCHANGED errandVars PROVE BagsCounted'  BY <1>1 DEF BagsCounted, errandVars
<1>2. ASSUME NEW o \in Owners, StockUp(o) PROVE BagsCounted'  BY <1>2, StockUpKeeps
<1>3. ASSUME bags' = bags PROVE BagsCounted'  BY <1>3 DEF BagsCounted
<1>4. ASSUME NEW b \in Bots, NEW g \in Goods, NEW n \in 0 .. Room, BagChanges(b, g, n) PROVE BagsCounted'
  BY <1>4, GoodsAssumption DEF BagChanges, BagsCounted, Bag
<1>5. ASSUME NEW o \in Owners, HandleReset(o) \/ Leaves(o) \/ \E k \in Locks : Enters(o, k) PROVE BagsCounted'
  BY <1>3, <1>5 DEF HandleReset, Leaves, Enters
<1>6. ASSUME NEW c, VendorNear(c) PROVE BagsCounted'  BY <1>3, <1>6 DEF VendorNear
<1> QED  BY <1>1, <1>2, <1>4, <1>5, <1>6 DEF ErrandNext

\* Whatever bots carry, wherever vendors are and however often stockup is typed: a
\* bot without a vendor of its own loses nothing and gains reagents at most, one
\* with a vendor loses only what is for sale and leaves with its best healing
\* potion full, if the bag has the room.
THEOREM StockIsKept == ErrandSpec => StockKept
<1>1. ErrandInit => BagsCounted  BY DEF ErrandInit, NoGoods, BagsCounted, Bag
<1>2. BagsCounted /\ [(ErrandNext /\ UNCHANGED rosterVars) \/ (RosterNext /\ UNCHANGED errandVars)]_<< rosterVars, errandVars >>
        => BagsCounted'
  BY ErrandsCounted
<1>3. BagsCounted => \A o \in Owners : StockUp(o) => \A b \in Online(o) :
         LET less == {g \in Goods : bags'[b][g] < bags[b][g]}
             more == {g \in Goods : bags'[b][g] > bags[b][g]}
             best == SelectPotionItem(bags'[b], "heal")
         IN /\ less \subseteq ForSale
            /\ b \notin vendor => less = {} /\ more \subseteq OfKind("reagent")
            /\ b \in vendor /\ best \in Goods =>
                 \/ bags'[b][best] >= best.stack
                 \/ CountRaidStockItems(bags'[b]) + best.stack - bags'[b][best] > Room
  BY StockUpKeeps
<1> QED  BY <1>1, <1>2, <1>3, PTL DEF ErrandSpec, StockKept

-----------------------------------------------------------------------------
(* What a character wears. *)
Dress == [Places -> Items \cup {None}]
Adds(C, old, new) == new \in Dress /\ \A p \in Places : new[p] = old[p] \/ new[p] \in C

LEMMA ItemFacts ==
    ASSUME NEW i \in Items
    PROVE  /\ i.id \in Nat \ {0} /\ i # None /\ i.score \in Int /\ i.ilvl \in Nat /\ i.key \in Int
           /\ i.inv \in STRING /\ i.set \in Nat
<1>1. i \in Item  BY ItemsAssumption
<1>2. i.id \in Nat \ {0} /\ i.score \in Int /\ i.ilvl \in Nat /\ i.key \in Int /\ i.inv \in STRING /\ i.set \in Nat
  BY <1>1 DEF Item
<1>3. None.id = 0  BY DEF None
<1> QED  BY <1>2, <1>3

\* The last in the ranking of a set of items: of the lowest score the highest id.
Ahead(x, y, score) == score[x] > score[y] \/ (score[x] = score[y] /\ x.id < y.id)
LastOf(T, score) == CHOOSE x \in T : \A y \in T \ {x} : Ahead(y, x, score)

LEMMA LastIsIn ==
    ASSUME NEW T \in SUBSET Items, T # {}, NEW score \in [Items -> Int]
    PROVE  LastOf(T, score) \in T
<1> DEFINE low == [x \in T |-> 0 - score[x]]  num == [x \in T |-> x.id]
<1>1. IsFiniteSet(T) /\ \A x \in T : x.id \in Nat /\ score[x] \in Int
  BY ItemsAssumption, ItemFacts, FS_Subset
<1>2. PICK x \in T : \A y \in T : low[y] <= low[x]
  <2>1. \A x \in T : low[x] \in Int  BY <1>1
  <2> HIDE DEF low
  <2> QED  BY <1>1, <2>1, HighestExists
<1> DEFINE U == {y \in T : score[y] = score[x]}
<1>3. \A y \in T : score[x] <= score[y]  BY <1>1, <1>2
<1>4. PICK z \in U : \A y \in U : num[y] <= num[z]
  <2>1. IsFiniteSet(U) /\ x \in U  BY <1>1, FS_Subset
  <2>2. \A y \in U : num[y] \in Int  BY <1>1
  <2> HIDE DEF num, U
  <2> QED  BY <2>1, <2>2, HighestExists
<1>5. ASSUME NEW y \in T \ {z} PROVE Ahead(y, z, score)
  <2>1. y.id # z.id  BY ItemsAssumption
  <2>2. score[z] = score[x] /\ score[x] <= score[y]  BY <1>3, <1>4
  <2>3. score[y] = score[x] => y.id <= z.id  BY <1>4
  <2> QED  BY <1>1, <2>1, <2>2, <2>3 DEF Ahead
<1>6. z \in T  BY <1>4
<1> QED  BY <1>5, <1>6 DEF LastOf

(* EquipBest, taken apart: a function on the sets of candidates tried, in the  *)
(* order of the ranking.                                                       *)
Probed(r, i, refused) ==
  IF r.want > 0 /\ Equips(r.gear, i, refused)
  THEN [gear |-> EquipEntry(r.gear, i, refused), want |-> r.want - 1] ELSE r
Tries(t, C, g, score, count, refused) ==
  t = [T \in SUBSET C |-> IF T = {} THEN [gear |-> g, want |-> count]
                          ELSE Probed(t[T \ {LastOf(T, score)}], LastOf(T, score), refused)]

LEMMA FewerLeft ==
    ASSUME NEW C \in SUBSET Items, NEW score \in [Items -> Int], NEW k \in Nat, NEW T \in Upto(C, k + 1), T # {}
    PROVE  LastOf(T, score) \in T /\ T \ {LastOf(T, score)} \in Upto(C, k)
<1>1. T \in SUBSET Items /\ IsFiniteSet(T)  BY ItemsAssumption, FS_Subset DEF Upto
<1>2. LastOf(T, score) \in T  BY <1>1, LastIsIn
<1>3. Cardinality(T \ {LastOf(T, score)}) = Cardinality(T) - 1 /\ Cardinality(T) \in Nat
  BY <1>1, <1>2, FS_RemoveElement, FS_CardinalityType
<1>4. Cardinality(T \ {LastOf(T, score)}) <= k  BY <1>3 DEF Upto
<1> QED  BY <1>2, <1>4 DEF Upto

LEMMA TriesExist ==
    ASSUME NEW C \in SUBSET Items, NEW g, NEW score \in [Items -> Int], NEW count, NEW refused
    PROVE  \E t : Tries(t, C, g, score, count, refused)
<1> DEFINE start == [gear |-> g, want |-> count]
           Next1(f, T) == Probed(f[T \ {LastOf(T, score)}], LastOf(T, score), refused)
           Fits1(f, k) == f = [T \in Upto(C, k) |-> IF T = {} THEN start ELSE Next1(f, T)]
           Sizes == {k \in Nat : \E f : Fits1(f, k)}
<1>0. IsFiniteSet(C)  BY ItemsAssumption, FS_Subset
<1> HIDE DEF start
<1>1. 0 \in Sizes
  <2>1. \A T \in Upto(C, 0) : T = {}
    <3> TAKE T \in Upto(C, 0)
    <3>1. IsFiniteSet(T)  BY <1>0, FS_Subset DEF Upto
    <3>2. Cardinality(T) \in Nat /\ Cardinality(T) <= 0  BY <3>1, FS_CardinalityType DEF Upto
    <3>3. Cardinality(T) = 0  BY <3>2
    <3> QED  BY <3>1, <3>3, FS_EmptySet
  <2> DEFINE f == [T \in Upto(C, 0) |-> start]
  <2>2. Fits1(f, 0)  BY <2>1
  <2> QED  BY <2>2
<1>2. ASSUME NEW k \in Nat, k \in Sizes PROVE k + 1 \in Sizes
  <2>1. PICK f : Fits1(f, k)  BY <1>2
  <2> DEFINE h == [T \in Upto(C, k + 1) |-> IF T = {} THEN start ELSE Next1(f, T)]
  <2>2. \A T \in Upto(C, k) : T \in Upto(C, k + 1)
    <3> TAKE T \in Upto(C, k)
    <3>1. IsFiniteSet(T)  BY <1>0, FS_Subset DEF Upto
    <3>2. Cardinality(T) \in Nat /\ Cardinality(T) <= k  BY <3>1, FS_CardinalityType DEF Upto
    <3>3. Cardinality(T) <= k + 1  BY <3>2
    <3> QED  BY <3>3 DEF Upto
  <2>3. \A T \in Upto(C, k) : h[T] = f[T]
    <3>1. \A T \in Upto(C, k) : f[T] = IF T = {} THEN start ELSE Next1(f, T)  BY <2>1
    <3> HIDE DEF Next1
    <3> QED  BY <2>2, <3>1
  <2>4. \A T \in Upto(C, k + 1) : T # {} => Next1(h, T) = Next1(f, T)
    <3> TAKE T \in Upto(C, k + 1)
    <3> HAVE T # {}
    <3>1. h[T \ {LastOf(T, score)}] = f[T \ {LastOf(T, score)}]
      <4> HIDE DEF h
      <4> QED  BY <2>3, FewerLeft
    <3> HIDE DEF h
    <3> QED  BY <3>1
  <2>5. \A T \in Upto(C, k + 1) : h[T] = IF T = {} THEN start ELSE Next1(f, T)
    <3> HIDE DEF Next1
    <3> QED  OBVIOUS
  <2>6. h = [T \in Upto(C, k + 1) |-> h[T]]  OBVIOUS
  <2>7. Fits1(h, k + 1)
    <3> HIDE DEF h, Next1
    <3> QED  BY <2>4, <2>5, <2>6
  <2> HIDE DEF h, Fits1
  <2> QED  BY <2>7
<1>3. Nat \subseteq Sizes
  <2> HIDE DEF Sizes
  <2> QED  BY <1>1, <1>2, NatInd
<1>4. Upto(C, Cardinality(C)) = SUBSET C /\ Cardinality(C) \in Nat  BY <1>0, AllUpto
<1>5. \E f : Fits1(f, Cardinality(C))  BY <1>3, <1>4
<1>6. PICK f : Fits1(f, Cardinality(C))  BY <1>5
<1>7. Tries(f, C, g, score, count, refused)  BY <1>4, <1>6 DEF Tries, start
<1> QED  BY <1>7

LEMMA EquipBestTries ==
    ASSUME NEW C \in SUBSET Items, NEW g, NEW score \in [Items -> Int], NEW count, NEW refused
    PROVE  \E t : Tries(t, C, g, score, count, refused) /\ EquipBest(g, C, score, count, refused) = t[C]
<1>1. \E t : Tries(t, C, g, score, count, refused)  BY TriesExist
<1> DEFINE t == CHOOSE t : Tries(t, C, g, score, count, refused)
<1>2. Tries(t, C, g, score, count, refused)  BY <1>1
<1>3. EquipBest(g, C, score, count, refused) = t[C]  BY DEF EquipBest, Tries, Probed, LastOf, Ahead
<1> QED  BY <1>2, <1>3

\* A family of sets that has the empty one, and each that is one element more
\* than one it has, has every subset of a finite set.
LEMMA SetInd ==
    ASSUME NEW S, IsFiniteSet(S), NEW P, {} \in P,
           \A T \in SUBSET S : T # {} => \E x \in T : T \ {x} \in P => T \in P
    PROVE  SUBSET S \subseteq P
<1> DEFINE Sizes == {k \in Nat : Upto(S, k) \subseteq P}
<1>1. 0 \in Sizes
  <2> SUFFICES ASSUME NEW T \in Upto(S, 0) PROVE T = {}  OBVIOUS
  <2>1. IsFiniteSet(T)  BY FS_Subset DEF Upto
  <2>2. Cardinality(T) \in Nat /\ Cardinality(T) <= 0  BY <2>1, FS_CardinalityType DEF Upto
  <2>3. Cardinality(T) = 0  BY <2>2
  <2> QED  BY <2>1, <2>3, FS_EmptySet
<1>2. ASSUME NEW k \in Nat, k \in Sizes PROVE k + 1 \in Sizes
  <2> SUFFICES ASSUME NEW T \in Upto(S, k + 1), T # {} PROVE T \in P  OBVIOUS
  <2>1. T \in SUBSET S /\ IsFiniteSet(T)  BY FS_Subset DEF Upto
  <2>2. PICK x \in T : T \ {x} \in P => T \in P  BY <2>1
  <2>3. Cardinality(T \ {x}) = Cardinality(T) - 1 /\ Cardinality(T) \in Nat /\ Cardinality(T) <= k + 1
    BY <2>1, FS_RemoveElement, FS_CardinalityType DEF Upto
  <2>4. Cardinality(T \ {x}) <= k  BY <2>3
  <2>5. T \ {x} \in Upto(S, k)  BY <2>1, <2>4 DEF Upto
  <2> QED  BY <1>2, <2>2, <2>5
<1>3. Nat \subseteq Sizes
  <2> HIDE DEF Sizes
  <2> QED  BY <1>1, <1>2, NatInd
<1>4. Upto(S, Cardinality(S)) = SUBSET S /\ Cardinality(S) \in Nat  BY AllUpto
<1> QED  BY <1>3, <1>4

Pair == [gear : Dress, want : Nat]

LEMMA ProbedAdds ==
    ASSUME NEW C \in SUBSET Items, NEW i \in C, NEW r \in Pair, NEW refused
    PROVE  Probed(r, i, refused) \in Pair /\ Adds(C, r.gear, Probed(r, i, refused).gear)
<1> DEFINE n == Probed(r, i, refused)  p == PlacesOf(i.inv)[Min(Free(r.gear, i))]
<1>1. r.gear \in Dress /\ r.want \in Nat  BY DEF Pair
<1>2. CASE r.want > 0 /\ Equips(r.gear, i, refused)
  <2>1. n = [gear |-> [r.gear EXCEPT ![p] = i], want |-> r.want - 1]  BY <1>2 DEF Probed, EquipEntry
  <2> HIDE DEF p, n
  <2>2. n.gear = [r.gear EXCEPT ![p] = i] /\ n.want \in Nat /\ i \in Items  BY <1>1, <1>2, <2>1
  <2>3. [r.gear EXCEPT ![p] = i] \in Dress  BY <1>1, <2>2 DEF Dress
  <2>4. n \in Pair  BY <2>1, <2>2, <2>3 DEF Pair
  <2>5. \A q \in Places : n.gear[q] = r.gear[q] \/ n.gear[q] = i  BY <1>1, <2>2 DEF Dress
  <2> QED  BY <2>2, <2>3, <2>4, <2>5 DEF Adds, n
<1>3. CASE ~(r.want > 0 /\ Equips(r.gear, i, refused))
  <2>1. n = r  BY <1>3 DEF Probed
  <2> QED  BY <1>1, <2>1 DEF Adds
<1> QED  BY <1>2, <1>3

LEMMA AddsTwice ==
    ASSUME NEW C, NEW D, NEW a, NEW b, NEW c, Adds(C, a, b), Adds(D, b, c), D \subseteq C
    PROVE  Adds(C, a, c)
BY DEF Adds

LEMMA EquipBestAdds ==
    ASSUME NEW C \in SUBSET Items, NEW g \in Dress, NEW score \in [Items -> Int], NEW count \in Nat, NEW refused
    PROVE  LET r == EquipBest(g, C, score, count, refused) IN r \in Pair /\ Adds(C, g, r.gear)
<1>1. PICK t : Tries(t, C, g, score, count, refused) /\ EquipBest(g, C, score, count, refused) = t[C]
  BY EquipBestTries
<1> DEFINE Good == {T \in SUBSET C : t[T] \in Pair /\ Adds(C, g, t[T].gear)}
           start == [gear |-> g, want |-> count]
<1>2. \A T \in SUBSET C : t[T] = IF T = {} THEN start
                                 ELSE Probed(t[T \ {LastOf(T, score)}], LastOf(T, score), refused)
  BY <1>1 DEF Tries
<1>3. IsFiniteSet(C)  BY ItemsAssumption, FS_Subset
<1>4. {} \in Good
  <2>1. t[{}] = start  BY <1>2
  <2>2. start \in Pair /\ start.gear = g  BY DEF Pair
  <2>3. Adds(C, g, g)  BY DEF Adds
  <2> HIDE DEF start
  <2> QED  BY <2>1, <2>2, <2>3
<1>5. ASSUME NEW T \in SUBSET C, T # {} PROVE \E x \in T : T \ {x} \in Good => T \in Good
  <2> DEFINE x == LastOf(T, score)  r == t[T \ {x}]
  <2>1. x \in T  BY <1>5, LastIsIn
  <2>2. t[T] = Probed(r, x, refused)  BY <1>2, <1>5
  <2> HIDE DEF x, r
  <2>3. ASSUME r \in Pair, Adds(C, g, r.gear) PROVE t[T] \in Pair /\ Adds(C, g, t[T].gear)
    <3>1. Probed(r, x, refused) \in Pair /\ Adds(C, r.gear, Probed(r, x, refused).gear)
      BY <2>1, <2>3, ProbedAdds
    <3>2. Adds(C, g, t[T].gear)  BY <2>2, <2>3, <3>1, AddsTwice
    <3> QED  BY <2>2, <3>1, <3>2
  <2> QED  BY <2>1, <2>3 DEF r
<1>6. SUBSET C \subseteq Good
  <2> HIDE DEF Good
  <2> QED  BY <1>3, <1>4, <1>5, SetInd
<1> QED  BY <1>1, <1>6

-----------------------------------------------------------------------------
(* One bare slot. *)
OneSlots == BodySlots \cup {"cloak", "neck"}

LEMMA BodyTypes ==
    /\ BodyInvTypes = {"HEAD", "SHOULDERS", "CHEST", "ROBE", "LEGS", "HANDS", "WAIST", "FEET", "WRISTS"}
    /\ BodySlots = {"head", "shoulders", "chest", "legs", "hands", "waist", "feet", "wrists"}
<1>1. BodyInvTypes = {"HEAD", "SHOULDERS", "CHEST", "ROBE", "LEGS", "HANDS", "WAIST", "FEET", "WRISTS"}
  BY DEF BodyInvTypes, BodySlotForInvType
<1>2. /\ BodySlotForInvType["HEAD"] = "head" /\ BodySlotForInvType["SHOULDERS"] = "shoulders"
      /\ BodySlotForInvType["CHEST"] = "chest" /\ BodySlotForInvType["ROBE"] = "chest"
      /\ BodySlotForInvType["LEGS"] = "legs" /\ BodySlotForInvType["HANDS"] = "hands"
      /\ BodySlotForInvType["WAIST"] = "waist" /\ BodySlotForInvType["FEET"] = "feet"
      /\ BodySlotForInvType["WRISTS"] = "wrists"
  BY DEF BodySlotForInvType
<1> QED  BY <1>1, <1>2 DEF BodySlots

LEMMA OnePlace ==
    ASSUME NEW s \in OneSlots, NEW inv \in InvTypesOf(s)
    PROVE  PlacesOf(inv) = << s >> /\ s # "offhand" /\ inv # "TWOHAND" /\ s \in Places
<1>1. CASE s \in BodySlots
  <2>1. inv \in BodyInvTypes /\ BodySlotForInvType[inv] = s
    <3>1. s # "cloak" /\ s # "neck"  BY <1>1, BodyTypes
    <3>2. InvTypesOf(s) = {t \in BodyInvTypes : BodySlotForInvType[t] = s}  BY <1>1, <3>1 DEF InvTypesOf
    <3> QED  BY <3>2
  <2> QED  BY <1>1, <2>1, BodyTypes DEF PlacesOf, Places
<1>2. CASE s = "cloak"
  <2>1. inv = "CLOAK"  BY <1>2, BodyTypes DEF InvTypesOf
  <2> QED  BY <1>2, <2>1, BodyTypes DEF PlacesOf, Places
<1>3. CASE s = "neck"
  <2>1. inv = "NECK"  BY <1>3, BodyTypes DEF InvTypesOf
  <2> QED  BY <1>3, <2>1, BodyTypes DEF PlacesOf, Places
<1> QED  BY <1>1, <1>2, <1>3 DEF OneSlots

\* Items that go into s alone.
Into(s, C) == \A i \in C : i.inv \in InvTypesOf(s)

LEMMA FreeIs ==
    ASSUME NEW s \in OneSlots, NEW i \in Items, i.inv \in InvTypesOf(s), NEW g \in Dress, g[s] = None, NEW refused
    PROVE  /\ Equips(g, i, refused) <=> i.id \notin refused
           /\ Equips(g, i, refused) => EquipEntry(g, i, refused)[s] = i
<1>1. PlacesOf(i.inv) = << s >> /\ s # "offhand" /\ i.inv # "TWOHAND" /\ s \in Places  BY OnePlace
<1>2. Free(g, i) = {1}
  <2>1. DOMAIN << s >> = {1} /\ << s >>[1] = s  OBVIOUS
  <2> QED  BY <1>1, <2>1 DEF Free
<1>3. Min({1}) = 1  BY DEF Min
<1>4. [g EXCEPT ![s] = i][s] = i  BY <1>1 DEF Dress
<1>5. << s >>[1] = s  OBVIOUS
<1> QED  BY <1>1, <1>2, <1>3, <1>4, <1>5 DEF Equips, EquipEntry

\* One piece for a bare slot: either every candidate was refused or one is worn.
Filled1(s, C, g, r, refused) ==
  \/ r = [gear |-> g, want |-> 1] /\ \A i \in C : i.id \in refused
  \/ r.want = 0 /\ r.gear[s] # None

LEMMA OnePiece ==
    ASSUME NEW s \in OneSlots, NEW C \in SUBSET Items, Into(s, C), NEW g \in Dress, g[s] = None,
           NEW score \in [Items -> Int], NEW refused
    PROVE  Filled1(s, C, g, EquipBest(g, C, score, 1, refused), refused)
<1>1. PICK t : Tries(t, C, g, score, 1, refused) /\ EquipBest(g, C, score, 1, refused) = t[C]
  BY EquipBestTries
<1> DEFINE Good == {T \in SUBSET C : Filled1(s, T, g, t[T], refused)}
           start == [gear |-> g, want |-> 1]
<1>2. \A T \in SUBSET C : t[T] = IF T = {} THEN start
                                 ELSE Probed(t[T \ {LastOf(T, score)}], LastOf(T, score), refused)
  BY <1>1 DEF Tries
<1>3. IsFiniteSet(C)  BY ItemsAssumption, FS_Subset
<1>4. {} \in Good
  <2>1. t[{}] = start  BY <1>2
  <2> QED  BY <2>1 DEF Filled1
<1>5. ASSUME NEW T \in SUBSET C, T # {} PROVE \E x \in T : T \ {x} \in Good => T \in Good
  <2> DEFINE x == LastOf(T, score)  r == t[T \ {x}]
  <2>1. x \in T  BY <1>5, LastIsIn
  <2>2. t[T] = Probed(r, x, refused)  BY <1>2, <1>5
  <2> HIDE DEF x, r
  <2>3. ASSUME Filled1(s, T \ {x}, g, r, refused) PROVE Filled1(s, T, g, t[T], refused)
    <3>1. CASE r = start /\ \A i \in T \ {x} : i.id \in refused
      <4>1. r.gear = g /\ r.want = 1  BY <3>1
      <4>2. x \in Items /\ x.inv \in InvTypesOf(s)  BY <2>1 DEF Into
      <4>3. CASE x.id \in refused
        <5>1. t[T] = r  BY <2>2, <4>1, <4>2, <4>3, FreeIs DEF Probed
        <5> QED  BY <3>1, <4>3, <5>1 DEF Filled1
      <4>4. CASE x.id \notin refused
        <5>1. Equips(g, x, refused) /\ EquipEntry(g, x, refused)[s] = x  BY <4>2, <4>4, FreeIs
        <5>2. t[T] = [gear |-> EquipEntry(g, x, refused), want |-> 1 - 1]  BY <2>2, <4>1, <5>1 DEF Probed
        <5>3. t[T].gear = EquipEntry(g, x, refused) /\ t[T].want = 0  BY <5>2
        <5>4. x # None  BY <4>2, ItemFacts
        <5> QED  BY <5>1, <5>3, <5>4 DEF Filled1
      <4> QED  BY <4>3, <4>4
    <3>2. CASE r.want = 0 /\ r.gear[s] # None
      <4>1. t[T] = r  BY <2>2, <3>2 DEF Probed
      <4> QED  BY <3>2, <4>1 DEF Filled1
    <3> QED  BY <2>3, <3>1, <3>2 DEF Filled1
  <2> QED  BY <2>1, <2>3 DEF r
<1>6. SUBSET C \subseteq Good
  <2> HIDE DEF Good
  <2> QED  BY <1>3, <1>4, <1>5, SetInd
<1> QED  BY <1>1, <1>6

-----------------------------------------------------------------------------
(* fillSlot and the weapons: band after band. *)
LEMMA PreferenceIs ==
    ASSUME NEW bot PROVE Preference(bot) \in [Items -> Int] /\ Scores \in [Items -> Int] /\ Ilvls \in [Items -> Int]
<1>1. \A i \in Items : i.score \in Int /\ 3 * i.score \in Int /\ i.ilvl \in Int  BY ItemFacts
<1> QED  BY <1>1 DEF Preference, Scores, Ilvls

\* The lowest floor is 1, or 0 if there is none.
LEMMA FloorReached ==
    ASSUME NEW floor \in Nat
    PROVE  Steps(floor) \in Nat /\ (\A n \in Nat : Floor(floor, n) \in Nat) /\ Floor(floor, Steps(floor)) \in {0, 1}
<1>1. OffWindow \in Nat /\ OffWindow > 0  BY ItemsAssumption
<1>2. \A x \in Int : /\ Max({1, x}) \in Nat /\ (x <= 1 => Max({1, x}) = 1)
  <2> TAKE x \in Int
  <2>1. {1, x} \in SUBSET Int /\ IsFiniteSet({1, x}) /\ {1, x} # {}
    <3>1. {1, x} = {1} \cup {x} /\ IsFiniteSet({1})  BY FS_Singleton
    <3>2. IsFiniteSet({1} \cup {x})  BY <3>1, FS_AddElement
    <3> QED  BY <3>1, <3>2
  <2>2. Max({1, x}) \in {1, x} /\ \A y \in {1, x} : y <= Max({1, x})  BY <2>1, MaxIs
  <2> QED  BY <2>2
<1>3. \A n \in Nat : floor - n * OffWindow \in Int  BY <1>1
<1>4. \A n \in Nat : Floor(floor, n) \in Nat  BY <1>2, <1>3 DEF Floor
<1>5. CASE floor <= 1
  <2>1. Steps(floor) = 0  BY <1>5 DEF Steps
  <2>2. floor - 0 * OffWindow = floor /\ floor \in Int  BY <1>1
  <2>3. floor = 0 \/ floor = 1  BY <1>5
  <2> QED  BY <1>2, <1>4, <2>1, <2>2, <2>3 DEF Floor
<1>6. CASE floor > 1
  <2> DEFINE a == floor - 1 + OffWindow - 1  q == a \div OffWindow  r == a % OffWindow
  <2>1. a \in Nat  BY <1>1, <1>6
  <2>2. q \in Int /\ r \in Int /\ a = OffWindow * q + r /\ 0 <= r /\ r < OffWindow
    <3> HIDE DEF a
    <3> QED  BY <1>1, <2>1
  <2>3. q \in Nat
    <3>1. SUFFICES ASSUME q <= -1 PROVE FALSE  BY <2>2
    <3> HIDE DEF a, q, r
    <3>2. OffWindow * q <= -OffWindow  BY <1>1, <2>2, <3>1
    <3> QED  BY <1>1, <2>1, <2>2, <3>2
  <2>4. q * OffWindow = OffWindow * q  BY <1>1, <2>3
  <2>5. floor - q * OffWindow <= 1
    <3>1. OffWindow * q > a - OffWindow
      <4> DEFINE m == OffWindow * q
      <4>1. m \in Int  BY <1>1, <2>2
      <4> HIDE DEF a, q, r, m
      <4> QED  BY <1>1, <2>1, <2>2, <4>1 DEF m
    <3> DEFINE m == q * OffWindow
    <3>2. m \in Int  BY <1>1, <2>3
    <3>3. m > floor - 2  BY <1>1, <1>6, <2>4, <3>1
    <3> HIDE DEF m
    <3>4. floor - m <= 1  BY <3>2, <3>3
    <3> QED  BY <3>4 DEF m
  <2>6. Steps(floor) = q  BY <1>6 DEF Steps
  <2>7. Floor(floor, q) = 1
    <3> HIDE DEF q
    <3>1. Floor(floor, q) = Max({1, floor - q * OffWindow})  BY <1>6 DEF Floor
    <3> QED  BY <1>2, <1>3, <2>3, <2>5, <3>1
  <2> HIDE DEF q
  <2> QED  BY <1>4, <2>3, <2>6, <2>7
<1> QED  BY <1>5, <1>6

LEMMA BandIsOffered ==
    ASSUME NEW bot, NEW invs, NEW floor, NEW ceil
    PROVE  /\ Candidates(bot, invs, floor, ceil) \subseteq Candidates(bot, invs, 0, ceil)
           /\ Candidates(bot, invs, floor, ceil) \in SUBSET Items
           /\ \A i \in Candidates(bot, invs, floor, ceil) : i.inv \in invs
BY DEF Candidates, Curated

SlotBand(bot, r, invs, floor, ceil, refused) ==
  EquipBest(r.gear, Candidates(bot, invs, floor, ceil), Preference(bot), r.want, refused)
SlotWiden(w, top, bot, g, invs, count, floor, ceil, refused) ==
  w = [n \in 0 .. top |->
         IF n = 0 THEN SlotBand(bot, [gear |-> g, want |-> count], invs, Floor(floor, 0), ceil, refused)
         ELSE IF w[n - 1].want = 0 THEN w[n - 1] ELSE SlotBand(bot, w[n - 1], invs, Floor(floor, n), ceil, refused)]

LEMMA SlotWidenExists ==
    ASSUME NEW top \in Nat, NEW bot, NEW g, NEW invs, NEW count, NEW floor, NEW ceil, NEW refused
    PROVE  \E w : SlotWiden(w, top, bot, g, invs, count, floor, ceil, refused)
<1> DEFINE W(w, k) == SlotWiden(w, k, bot, g, invs, count, floor, ceil, refused)
           first == SlotBand(bot, [gear |-> g, want |-> count], invs, Floor(floor, 0), ceil, refused)
           After(r, n) == IF r.want = 0 THEN r ELSE SlotBand(bot, r, invs, Floor(floor, n), ceil, refused)
           Tops == {k \in Nat : \E w : W(w, k)}
<1>1. \A w, k : W(w, k) <=> w = [n \in 0 .. k |-> IF n = 0 THEN first ELSE After(w[n - 1], n)]
  BY DEF SlotWiden
<1> HIDE DEF W, first, After
<1>2. 0 \in Tops
  <2> DEFINE w == [n \in 0 .. 0 |-> first]
  <2>1. \A n \in 0 .. 0 : n = 0  OBVIOUS
  <2>2. w = [n \in 0 .. 0 |-> IF n = 0 THEN first ELSE After(w[n - 1], n)]  BY <2>1
  <2>3. W(w, 0)
    <3> HIDE DEF w
    <3> QED  BY <1>1, <2>2
  <2> QED  BY <2>3
<1>3. ASSUME NEW k \in Nat, k \in Tops PROVE k + 1 \in Tops
  <2>1. PICK v : W(v, k)  BY <1>3
  <2> DEFINE w == [n \in 0 .. k + 1 |-> IF n = k + 1 THEN After(v[k], k + 1) ELSE v[n]]
  <2>2. v = [n \in 0 .. k |-> IF n = 0 THEN first ELSE After(v[n - 1], n)]  BY <1>1, <2>1
  <2>3. \A n \in 0 .. k : w[n] = v[n]  OBVIOUS
  <2>4. w[k + 1] = After(v[k], k + 1)  OBVIOUS
  <2>5. w = [n \in 0 .. k + 1 |-> w[n]]  OBVIOUS
  <2> HIDE DEF w
  <2>6. ASSUME NEW n \in 0 .. k + 1 PROVE w[n] = IF n = 0 THEN first ELSE After(w[n - 1], n)
    <3>1. CASE n = 0
      <4>1. 0 \in 0 .. k  OBVIOUS
      <4> QED  BY <2>2, <2>3, <3>1, <4>1
    <3>2. CASE n # 0 /\ n # k + 1
      <4>1. n \in 0 .. k /\ n - 1 \in 0 .. k  BY <3>2
      <4>2. v[n] = After(v[n - 1], n)  BY <2>2, <3>2, <4>1
      <4> QED  BY <2>3, <3>2, <4>1, <4>2
    <3>3. CASE n = k + 1
      <4>1. (k + 1) - 1 = k /\ k \in 0 .. k /\ k + 1 # 0  OBVIOUS
      <4> QED  BY <2>3, <2>4, <3>3, <4>1
    <3> QED  BY <3>1, <3>2, <3>3
  <2>7. W(w, k + 1)  BY <1>1, <2>5, <2>6
  <2> QED  BY <2>7
<1>4. Nat \subseteq Tops
  <2> HIDE DEF Tops
  <2> QED  BY <1>2, <1>3, NatInd
<1> QED  BY <1>4 DEF W

LEMMA FillSlotWidens ==
    ASSUME NEW bot, NEW g, NEW invs, NEW count, NEW floor \in Nat, NEW ceil, NEW refused
    PROVE  \E w : /\ SlotWiden(w, Steps(floor), bot, g, invs, count, floor, ceil, refused)
                  /\ FillSlot(bot, g, invs, count, floor, ceil, refused) = w[Steps(floor)].gear
<1> DEFINE w == CHOOSE w : SlotWiden(w, Steps(floor), bot, g, invs, count, floor, ceil, refused)
<1>1. \E v : SlotWiden(v, Steps(floor), bot, g, invs, count, floor, ceil, refused)  BY FloorReached, SlotWidenExists
<1>2. SlotWiden(w, Steps(floor), bot, g, invs, count, floor, ceil, refused)  BY <1>1
<1>3. FillSlot(bot, g, invs, count, floor, ceil, refused) = w[Steps(floor)].gear
  BY DEF FillSlot, SlotWiden, SlotBand
<1> QED  BY <1>2, <1>3

LEMMA SlotSteps ==
    ASSUME NEW top \in Nat, NEW w, NEW bot, NEW g, NEW invs, NEW count, NEW floor, NEW ceil, NEW refused,
           SlotWiden(w, top, bot, g, invs, count, floor, ceil, refused)
    PROVE  /\ w[0] = SlotBand(bot, [gear |-> g, want |-> count], invs, Floor(floor, 0), ceil, refused)
           /\ \A n \in 1 .. top : w[n] = IF w[n - 1].want = 0 THEN w[n - 1]
                                         ELSE SlotBand(bot, w[n - 1], invs, Floor(floor, n), ceil, refused)
<1>1. 0 \in 0 .. top /\ \A n \in 1 .. top : n \in 0 .. top /\ n # 0  OBVIOUS
<1> QED  BY <1>1 DEF SlotWiden

\* A number at which something holds from 0 on, step by step.
LEMMA UpTo ==
    ASSUME NEW top \in Nat, NEW P, 0 \in P, \A n \in 1 .. top : n - 1 \in P => n \in P
    PROVE  top \in P
<1> DEFINE S == {n \in Nat : n <= top => n \in P}
<1>1. 0 \in S  OBVIOUS
<1>2. ASSUME NEW n \in Nat, n \in S PROVE n + 1 \in S
  <2>1. n + 1 <= top => n + 1 \in 1 .. top /\ (n + 1) - 1 = n /\ n <= top  OBVIOUS
  <2> QED  BY <1>2, <2>1
<1>3. Nat \subseteq S
  <2> HIDE DEF S
  <2> QED  BY <1>1, <1>2, NatInd
<1> QED  BY <1>3

LEMMA FillSlotAdds ==
    ASSUME NEW bot, NEW g \in Dress, NEW invs, NEW count \in Nat, NEW floor \in Nat, NEW ceil, NEW refused
    PROVE  Adds(Candidates(bot, invs, 0, ceil), g, FillSlot(bot, g, invs, count, floor, ceil, refused))
<1> DEFINE C == Candidates(bot, invs, 0, ceil)  top == Steps(floor)
<1>1. PICK w : /\ SlotWiden(w, top, bot, g, invs, count, floor, ceil, refused)
               /\ FillSlot(bot, g, invs, count, floor, ceil, refused) = w[top].gear
  BY FillSlotWidens
<1>2. top \in Nat  BY FloorReached
<1> HIDE DEF top
<1>3. /\ w[0] = SlotBand(bot, [gear |-> g, want |-> count], invs, Floor(floor, 0), ceil, refused)
      /\ \A n \in 1 .. top : w[n] = IF w[n - 1].want = 0 THEN w[n - 1]
                                    ELSE SlotBand(bot, w[n - 1], invs, Floor(floor, n), ceil, refused)
  <2> HIDE DEF C
  <2>1. SlotWiden(w, top, bot, g, invs, count, floor, ceil, refused)  BY <1>1
  <2> QED  BY <1>2, <2>1, SlotSteps
<1> DEFINE Good(r) == r \in Pair /\ Adds(C, g, r.gear)
           P == {n \in Nat : Good(w[n])}
<1>4. ASSUME NEW r, Good(r), NEW f PROVE Good(SlotBand(bot, r, invs, f, ceil, refused))
  <2> DEFINE B == Candidates(bot, invs, f, ceil)  n == EquipBest(r.gear, B, Preference(bot), r.want, refused)
  <2>1. B \subseteq C /\ B \in SUBSET Items  BY BandIsOffered
  <2>2. r.gear \in Dress /\ r.want \in Nat  BY <1>4 DEF Pair
  <2> HIDE DEF B, C
  <2>3. n \in Pair /\ Adds(B, r.gear, n.gear)  BY <2>1, <2>2, PreferenceIs, EquipBestAdds
  <2> HIDE DEF n
  <2>4. Adds(C, g, n.gear)  BY <1>4, <2>1, <2>3, AddsTwice
  <2> QED  BY <2>3, <2>4 DEF SlotBand, B, n
<1>5. Good([gear |-> g, want |-> count])  BY DEF Pair, Adds
<1> HIDE DEF Good, C
<1>6. 0 \in P  BY <1>3, <1>4, <1>5
<1>7. \A n \in 1 .. top : n - 1 \in P => n \in P  BY <1>3, <1>4
<1>8. top \in P
  <2> HIDE DEF P
  <2> QED  BY <1>2, <1>6, <1>7, UpTo
<1> QED  BY <1>1, <1>8 DEF Good, C

\* One piece for a bare slot s: it stays bare only if all that is offered up to
\* the ceiling was refused.
LEMMA FillOneSlot ==
    ASSUME NEW bot, NEW s \in OneSlots, NEW g \in Dress, g[s] = None, NEW floor \in Nat, NEW ceil, NEW refused,
           FillSlot(bot, g, InvTypesOf(s), 1, floor, ceil, refused)[s] = None
    PROVE  \A i \in Candidates(bot, InvTypesOf(s), 1, ceil) : i.id \in refused
<1> DEFINE invs == InvTypesOf(s)  top == Steps(floor)  C(f) == Candidates(bot, invs, f, ceil)
<1>1. PICK w : /\ SlotWiden(w, top, bot, g, invs, 1, floor, ceil, refused)
               /\ FillSlot(bot, g, invs, 1, floor, ceil, refused) = w[top].gear
  BY FillSlotWidens
<1>2. top \in Nat  BY FloorReached
<1> HIDE DEF top
<1>3. /\ w[0] = SlotBand(bot, [gear |-> g, want |-> 1], invs, Floor(floor, 0), ceil, refused)
      /\ \A n \in 1 .. top : w[n] = IF w[n - 1].want = 0 THEN w[n - 1]
                                    ELSE SlotBand(bot, w[n - 1], invs, Floor(floor, n), ceil, refused)
  BY <1>1, <1>2, SlotSteps
<1> DEFINE start == [gear |-> g, want |-> 1]
           P == {n \in Nat : Filled1(s, C(Floor(floor, n)), g, w[n], refused)}
<1>4. \A f : Filled1(s, C(f), g, SlotBand(bot, start, invs, f, ceil, refused), refused)
  <2> TAKE f
  <2>1. C(f) \in SUBSET Items /\ Into(s, C(f))  BY BandIsOffered DEF Into
  <2> HIDE DEF C
  <2>2. Filled1(s, C(f), g, EquipBest(g, C(f), Preference(bot), 1, refused), refused)  BY <2>1, PreferenceIs, OnePiece
  <2>3. start.gear = g /\ start.want = 1  OBVIOUS
  <2> QED  BY <2>2, <2>3 DEF SlotBand, C
<1>5. 0 \in P  BY <1>3, <1>4
<1>6. ASSUME NEW n \in 1 .. top, n - 1 \in P PROVE n \in P
  <2>1. CASE w[n - 1] = start
    <3>1. w[n - 1].want = 1  BY <2>1
    <3>2. w[n] = SlotBand(bot, start, invs, Floor(floor, n), ceil, refused)  BY <1>3, <2>1, <3>1
    <3> QED  BY <1>4, <3>2
  <2>2. CASE w[n - 1].want = 0 /\ w[n - 1].gear[s] # None
    <3>1. w[n] = w[n - 1]  BY <1>3, <2>2
    <3> QED  BY <2>2, <3>1 DEF Filled1
  <2> QED  BY <1>6, <2>1, <2>2 DEF Filled1
<1>7. top \in P
  <2> HIDE DEF P
  <2> QED  BY <1>2, <1>5, <1>6, UpTo
<1>8. \A i \in C(Floor(floor, top)) : i.id \in refused  BY <1>1, <1>7 DEF Filled1
<1>9. Floor(floor, top) \in {0, 1}  BY FloorReached DEF top
<1>10. C(1) \subseteq C(Floor(floor, top))
  <2>1. C(1) \subseteq C(0)  BY BandIsOffered
  <2> HIDE DEF C
  <2> QED  BY <1>9, <2>1
<1> QED  BY <1>8, <1>10

WeaponBand(bot, r, floor, ceil, refused) ==
  EquipAll(r, Candidates(bot, WeaponInvTypes, floor, ceil), Preference(bot), refused)
WeaponWiden(w, top, bot, g, floor, ceil, refused) ==
  w = [n \in 0 .. top |->
         IF n = 0 THEN WeaponBand(bot, g, Floor(floor, 0), ceil, refused)
         ELSE IF w[n - 1]["mainhand"] # None THEN w[n - 1]
         ELSE WeaponBand(bot, w[n - 1], Floor(floor, n), ceil, refused)]

LEMMA WeaponWidenExists ==
    ASSUME NEW top \in Nat, NEW bot, NEW g, NEW floor, NEW ceil, NEW refused
    PROVE  \E w : WeaponWiden(w, top, bot, g, floor, ceil, refused)
<1> DEFINE W(w, k) == WeaponWiden(w, k, bot, g, floor, ceil, refused)
           first == WeaponBand(bot, g, Floor(floor, 0), ceil, refused)
           After(r, n) == IF r["mainhand"] # None THEN r ELSE WeaponBand(bot, r, Floor(floor, n), ceil, refused)
           Tops == {k \in Nat : \E w : W(w, k)}
<1>1. \A w, k : W(w, k) <=> w = [n \in 0 .. k |-> IF n = 0 THEN first ELSE After(w[n - 1], n)]
  BY DEF WeaponWiden
<1> HIDE DEF W, first, After
<1>2. 0 \in Tops
  <2> DEFINE w == [n \in 0 .. 0 |-> first]
  <2>1. \A n \in 0 .. 0 : n = 0  OBVIOUS
  <2>2. w = [n \in 0 .. 0 |-> IF n = 0 THEN first ELSE After(w[n - 1], n)]  BY <2>1
  <2>3. W(w, 0)
    <3> HIDE DEF w
    <3> QED  BY <1>1, <2>2
  <2> QED  BY <2>3
<1>3. ASSUME NEW k \in Nat, k \in Tops PROVE k + 1 \in Tops
  <2>1. PICK v : W(v, k)  BY <1>3
  <2> DEFINE w == [n \in 0 .. k + 1 |-> IF n = k + 1 THEN After(v[k], k + 1) ELSE v[n]]
  <2>2. v = [n \in 0 .. k |-> IF n = 0 THEN first ELSE After(v[n - 1], n)]  BY <1>1, <2>1
  <2>3. \A n \in 0 .. k : w[n] = v[n]  OBVIOUS
  <2>4. w[k + 1] = After(v[k], k + 1)  OBVIOUS
  <2>5. w = [n \in 0 .. k + 1 |-> w[n]]  OBVIOUS
  <2> HIDE DEF w
  <2>6. ASSUME NEW n \in 0 .. k + 1 PROVE w[n] = IF n = 0 THEN first ELSE After(w[n - 1], n)
    <3>1. CASE n = 0
      <4>1. 0 \in 0 .. k  OBVIOUS
      <4> QED  BY <2>2, <2>3, <3>1, <4>1
    <3>2. CASE n # 0 /\ n # k + 1
      <4>1. n \in 0 .. k /\ n - 1 \in 0 .. k  BY <3>2
      <4>2. v[n] = After(v[n - 1], n)  BY <2>2, <3>2, <4>1
      <4> QED  BY <2>3, <3>2, <4>1, <4>2
    <3>3. CASE n = k + 1
      <4>1. (k + 1) - 1 = k /\ k \in 0 .. k /\ k + 1 # 0  OBVIOUS
      <4> QED  BY <2>3, <2>4, <3>3, <4>1
    <3> QED  BY <3>1, <3>2, <3>3
  <2>7. W(w, k + 1)  BY <1>1, <2>5, <2>6
  <2> QED  BY <2>7
<1>4. Nat \subseteq Tops
  <2> HIDE DEF Tops
  <2> QED  BY <1>2, <1>3, NatInd
<1> QED  BY <1>4 DEF W

LEMMA EquipAllAdds ==
    ASSUME NEW C \in SUBSET Items, NEW g \in Dress, NEW score \in [Items -> Int], NEW refused
    PROVE  Adds(C, g, EquipAll(g, C, score, refused)) /\ EquipAll(g, C, score, refused) \in Dress
<1>1. Cardinality(C) \in Nat  BY ItemsAssumption, FS_Subset, FS_CardinalityType
<1>2. Adds(C, g, EquipBest(g, C, score, Cardinality(C), refused).gear)  BY <1>1, EquipBestAdds
<1> QED  BY <1>2 DEF EquipAll, Adds

LEMMA FillWeaponsAdds ==
    ASSUME NEW bot, NEW g \in Dress, NEW floor \in Nat, NEW ceil, NEW refused
    PROVE  Adds(Candidates(bot, WeaponInvTypes, 0, ceil), g, FillWeapons(bot, g, floor, ceil, refused))
<1> DEFINE C == Candidates(bot, WeaponInvTypes, 0, ceil)  top == Steps(floor)
           w == CHOOSE w : WeaponWiden(w, top, bot, g, floor, ceil, refused)
<1>1. WeaponWiden(w, top, bot, g, floor, ceil, refused)
  <2>1. \E v : WeaponWiden(v, top, bot, g, floor, ceil, refused)  BY FloorReached, WeaponWidenExists
  <2> QED  BY <2>1
<1>2. FillWeapons(bot, g, floor, ceil, refused) = w[top]  BY DEF FillWeapons, WeaponWiden, WeaponBand
<1>3. top \in Nat  BY FloorReached
<1> HIDE DEF top, w
<1>4. /\ w[0] = WeaponBand(bot, g, Floor(floor, 0), ceil, refused)
      /\ \A n \in 1 .. top : w[n] = IF w[n - 1]["mainhand"] # None THEN w[n - 1]
                                    ELSE WeaponBand(bot, w[n - 1], Floor(floor, n), ceil, refused)
  <2>1. 0 \in 0 .. top /\ \A n \in 1 .. top : n \in 0 .. top /\ n # 0  BY <1>3
  <2> QED  BY <1>1, <2>1 DEF WeaponWiden
<1> DEFINE Good(r) == r \in Dress /\ Adds(C, g, r)
           P == {n \in Nat : Good(w[n])}
<1>5. ASSUME NEW r, Good(r), NEW f PROVE Good(WeaponBand(bot, r, f, ceil, refused))
  <2> DEFINE B == Candidates(bot, WeaponInvTypes, f, ceil)  n == EquipAll(r, B, Preference(bot), refused)
  <2>1. B \subseteq C /\ B \in SUBSET Items  BY BandIsOffered
  <2> HIDE DEF B, C
  <2>2. n \in Dress /\ Adds(B, r, n)  BY <1>5, <2>1, PreferenceIs, EquipAllAdds
  <2> HIDE DEF n
  <2>3. Adds(C, g, n)  BY <1>5, <2>1, <2>2, AddsTwice
  <2> QED  BY <2>2, <2>3 DEF WeaponBand, B, n
<1>6. Good(g)  BY DEF Adds
<1> HIDE DEF Good, C
<1>7. 0 \in P  BY <1>4, <1>5, <1>6
<1>8. \A n \in 1 .. top : n - 1 \in P => n \in P  BY <1>4, <1>5
<1>9. top \in P
  <2> HIDE DEF P
  <2> QED  BY <1>3, <1>7, <1>8, UpTo
<1> QED  BY <1>2, <1>9 DEF Good, C

-----------------------------------------------------------------------------
(* A raid sync. *)
CeilOf(bot, target) == IF bot.level >= 50 THEN target + OffWindow ELSE bot.level + Headroom
\* What may be worn at all.
May(bot, target, i) ==
  /\ i \in Items /\ i.key <= bot.level
  /\ i.set = 0 => i.ilvl <= CeilOf(bot, target)
Wearable(bot, target) == {i \in Items : May(bot, target, i)}
Character == [cls : Classes, level : Nat]

LEMMA OfferedMay ==
    ASSUME NEW bot \in Character, bot.level >= 5, NEW target \in Nat, NEW invs, NEW floor
    PROVE  Candidates(bot, invs, floor, CeilOf(bot, target)) \subseteq Wearable(bot, target)
<1>1. bot.level \in Nat /\ OffWindow \in Nat \ {0} /\ Headroom \in Nat  BY ItemsAssumption DEF Character
<1>2. CeilOf(bot, target) > 0  BY <1>1 DEF CeilOf
<1> QED  BY <1>2 DEF Candidates, Curated, Usable, MeetsLevelRequirement, Wearable, May

LEMMA PickedMay ==
    ASSUME NEW bot, NEW target, NEW S \in PickSet(bot, target)
    PROVE  S \in SUBSET Items /\ S \subseteq Wearable(bot, target)
<1> SUFFICES ASSUME S # {} PROVE S \in SUBSET Items /\ S \subseteq Wearable(bot, target)  OBVIOUS
<1>1. S \in Qualifying(bot, target)  BY DEF PickSet
<1>2. PICK id \in SetIds : S \in Drawn(bot, id)  BY <1>1 DEF Qualifying
<1>3. S \in SUBSET LegalPieces(bot, id)  BY <1>2 DEF Drawn, OnePerSlot
<1>4. \A i \in LegalPieces(bot, id) : i \in Items /\ i.set = id /\ i.key <= bot.level
  BY DEF LegalPieces, SetPieces, Curated, Usable, MeetsLevelRequirement
<1>5. id # 0  BY <1>2 DEF SetIds
<1> HIDE DEF LegalPieces
<1> QED  BY <1>3, <1>4, <1>5 DEF Wearable, May

\* What stays bare was bare before, and what is worn was worn or offered.
LEMMA AddsKeep ==
    ASSUME NEW C \in SUBSET Items, NEW a \in Dress, NEW b, Adds(C, a, b), NEW p \in Places
    PROVE  (b[p] = None => a[p] = None) /\ (b[p] # None => b[p] = a[p] \/ b[p] \in C)
<1>1. \A i \in C : i # None  BY ItemFacts
<1> QED  BY <1>1 DEF Adds

LEMMA OneSlotsAre ==
    /\ OneSlots \subseteq Places
    /\ \A level : GearedSlots(level) \subseteq OneSlots
BY DEF OneSlots, Places, GearedSlots

Bare(s, g, bot, ceil, refused) ==
  g[s] = None => \A i \in Candidates(bot, InvTypesOf(s), 1, ceil) : i.id \in refused

LEMMA OffPiecesFit ==
    ASSUME NEW bot \in Character, bot.level >= 5, NEW target \in Nat, NEW refused,
           NEW pieces \in SUBSET Items, NEW g \in Dress, Adds(pieces, Stripped, g),
           pieces \subseteq Wearable(bot, target)
    PROVE  LET new == OffPieces(bot, g, pieces, target, refused)
           IN /\ new \in Dress
              /\ \A s \in GearedSlots(bot.level) : Bare(s, new, bot, CeilOf(bot, target), refused)
              /\ \A p \in Places : new[p] # None => May(bot, target, new[p])
<1> DEFINE targeted == bot.level >= 50
           floor == IF ~targeted THEN 0
                    ELSE IF pieces # {} /\ Highest(pieces) < target THEN target ELSE Max({1, target - OffWindow})
           ceil == CeilOf(bot, target)
           Fill(r, invs, count) == FillSlot(bot, r, invs, count, floor, ceil, refused)
           open == GearedSlots(bot.level) \ Covered(g, pieces)
           body == [p \in Places |-> IF p \in open THEN Fill(g, InvTypesOf(p), 1)[p] ELSE g[p]]
           rings == IF bot.level >= 20 THEN Fill(body, {"FINGER"}, 2) ELSE body
           trinkets == IF targeted THEN Fill(rings, {"TRINKET"}, 2) ELSE rings
           new == FillWeapons(bot, trinkets, floor, ceil, refused)
           W == Wearable(bot, target)
<1>1. OffPieces(bot, g, pieces, target, refused) = new  BY DEF OffPieces, CeilOf
<1>2. floor \in Nat
  <2>1. OffWindow \in Nat  BY ItemsAssumption
  <2>2. target - OffWindow \in Int  BY <2>1
  <2>3. Max({1, target - OffWindow}) \in Nat
    <3> DEFINE x == target - OffWindow
    <3>1. {1, x} = {1} \cup {x} /\ IsFiniteSet({1})  BY FS_Singleton
    <3>2. IsFiniteSet({1, x})  BY <3>1, FS_AddElement
    <3> HIDE DEF x
    <3>3. Max({1, x}) \in {1, x} /\ \A y \in {1, x} : y <= Max({1, x})  BY <2>2, <3>2, MaxIs DEF x
    <3>4. Max({1, x}) \in Int /\ 1 <= Max({1, x})  BY <2>2, <3>3 DEF x
    <3> QED  BY <3>4 DEF x
  <2> QED  BY <2>3
<1> HIDE DEF floor
<1>3. W \in SUBSET Items  BY DEF Wearable
<1>4. \A invs : Candidates(bot, invs, 0, ceil) \subseteq W  BY OfferedMay
<1>5. ASSUME NEW r \in Dress, NEW invs, NEW count \in Nat PROVE Adds(W, r, Fill(r, invs, count))
  <2>1. Adds(Candidates(bot, invs, 0, ceil), r, Fill(r, invs, count))  BY <1>2, FillSlotAdds
  <2> HIDE DEF Fill, W, ceil
  <2> QED  BY <1>4, <2>1 DEF Adds
<1>6. Adds(W, g, body)
  <2>1. \A p \in Places : Adds(W, g, Fill(g, InvTypesOf(p), 1))  BY <1>5
  <2> HIDE DEF Fill, W
  <2>2. \A p \in Places : body[p] = g[p] \/ body[p] \in W  BY <2>1 DEF Adds
  <2>3. \A p \in Places : g[p] \in Items \cup {None}  BY DEF Dress
  <2>4. \A p \in Places : body[p] \in Items \cup {None}  BY <1>3, <2>2, <2>3
  <2>5. body = [p \in Places |-> body[p]]  OBVIOUS
  <2> HIDE DEF body
  <2>6. body \in Dress  BY <2>4, <2>5 DEF Dress
  <2> QED  BY <2>2, <2>6 DEF Adds
<1>7. ASSUME NEW s \in GearedSlots(bot.level), body[s] = None
      PROVE  \A i \in Candidates(bot, InvTypesOf(s), 1, ceil) : i.id \in refused
  <2>1. s \in OneSlots /\ s \in Places  BY OneSlotsAre
  <2>2. CASE s \in open
    <3> DEFINE f == Fill(g, InvTypesOf(s), 1)
    <3>1. f[s] = None  BY <1>7, <2>1, <2>2
    <3>2. Adds(W, g, f)  BY <1>5
    <3>3. g[s] = None
      <4> HIDE DEF f, W
      <4> QED  BY <1>3, <2>1, <3>1, <3>2, AddsKeep
    <3> HIDE DEF ceil
    <3> QED  BY <1>2, <2>1, <3>1, <3>3, FillOneSlot
  <2>3. CASE s \in Covered(g, pieces)
    <3>1. g[s] \in pieces /\ body[s] = g[s]  BY <2>1, <2>3 DEF Covered
    <3> QED  BY <1>7, <3>1, ItemFacts
  <2> QED  BY <2>2, <2>3
<1> HIDE DEF W, body, Fill
<1>8. Adds(W, body, rings)
  <2>1. body \in Dress  BY <1>6 DEF Adds
  <2>2. Adds(W, body, body)  BY <2>1 DEF Adds
  <2> QED  BY <1>5, <2>1, <2>2
<1> HIDE DEF rings
<1>9. Adds(W, rings, trinkets)
  <2>1. rings \in Dress  BY <1>8 DEF Adds
  <2>2. Adds(W, rings, rings)  BY <2>1 DEF Adds
  <2> QED  BY <1>5, <2>1, <2>2
<1> HIDE DEF trinkets
<1>10. Adds(W, trinkets, new)
  <2>1. trinkets \in Dress  BY <1>9 DEF Adds
  <2>2. Adds(Candidates(bot, WeaponInvTypes, 0, ceil), trinkets, new)  BY <1>2, <2>1, FillWeaponsAdds
  <2> HIDE DEF new, ceil
  <2> QED  BY <1>4, <2>2 DEF Adds
<1> HIDE DEF new
<1>11. Adds(W, body, new)
  <2>1. Adds(W, body, trinkets)  BY <1>8, <1>9, AddsTwice
  <2> QED  BY <1>10, <2>1, AddsTwice
<1>12. Adds(pieces \cup W, Stripped, new)
  <2>1. \A C, D, x, y : Adds(C, x, y) /\ C \subseteq D => Adds(D, x, y)  BY DEF Adds
  <2>2. pieces \subseteq W  BY DEF W
  <2>3. Adds(W, Stripped, g)  BY <2>1, <2>2
  <2>4. Adds(W, Stripped, body)  BY <1>6, <2>3, AddsTwice
  <2>5. Adds(W, Stripped, new)  BY <1>11, <2>4, AddsTwice
  <2>6. W \subseteq pieces \cup W  OBVIOUS
  <2> QED  BY <2>1, <2>5, <2>6
<1>13. \A p \in Places : new[p] # None => May(bot, target, new[p])
  <2> TAKE p \in Places
  <2> HAVE new[p] # None
  <2>1. Stripped[p] = None  BY DEF Stripped
  <2>2. new[p] \in pieces \cup W  BY <1>12, <2>1 DEF Adds
  <2> QED  BY <2>2 DEF W, Wearable
<1>14. ASSUME NEW s \in GearedSlots(bot.level) PROVE Bare(s, new, bot, ceil, refused)
  <2> SUFFICES ASSUME new[s] = None
               PROVE  \A i \in Candidates(bot, InvTypesOf(s), 1, ceil) : i.id \in refused
    BY DEF Bare
  <2>1. s \in Places /\ body \in Dress  BY <1>6, OneSlotsAre DEF Adds
  <2>2. body[s] = None  BY <1>3, <1>11, <2>1, AddsKeep
  <2> HIDE DEF ceil
  <2> QED  BY <1>7, <2>2
<1>15. new \in Dress  BY <1>11 DEF Adds
<1> QED  BY <1>1, <1>13, <1>14, <1>15

-----------------------------------------------------------------------------
(* A season sync, and the theorem. *)
LEMMA SeasonItems ==
    ASSUME NEW bot, NEW season, NEW invs
    PROVE  /\ SeasonCandidates(bot, invs, season) \in SUBSET Items
           /\ \A i \in SeasonCandidates(bot, invs, season) : i.inv \in invs
           /\ TrinketCandidatesFor(bot, season) \in SUBSET Items
BY DEF SeasonCandidates, CandidatesFor, RawCandidatesFor, TrinketCandidatesFor

LEMMA SeasonFits ==
    ASSUME NEW bot \in Character, SeasonGate(bot), NEW season, NEW refused
    PROVE  LET new == EquipSeason(bot, season, refused)
           IN /\ new \in Dress
              /\ \A s \in GearedSlots(bot.level) :
                   new[s] = None => \A i \in SeasonCandidates(bot, InvTypesOf(s), season) : i.id \in refused
<1> DEFINE Fill(g, invs, count) == EquipBest(g, SeasonCandidates(bot, invs, season), Scores, count, refused).gear
           body == [p \in Places |-> IF InvTypesOf(p) = {} THEN None ELSE Fill(Stripped, InvTypesOf(p), 1)[p]]
           rings == Fill(body, {"FINGER"}, 2)
           medal == EquipBest(rings, TrinketCandidatesFor(bot, season), Ilvls, 1, refused).gear
           arms == {i \in SeasonCandidates(bot, WeaponInvTypes, season) : i.score > 0}
           new == EquipAll(medal, arms, Scores, refused)
<1>1. EquipSeason(bot, season, refused) = new  BY DEF EquipSeason
<1>2. Scores \in [Items -> Int] /\ Ilvls \in [Items -> Int]  BY PreferenceIs
<1>3. Stripped \in Dress /\ \A p \in Places : Stripped[p] = None  BY DEF Stripped, Dress
<1>4. ASSUME NEW g \in Dress, NEW invs, NEW count \in Nat PROVE Adds(Items, g, Fill(g, invs, count))
  <2> DEFINE C == SeasonCandidates(bot, invs, season)
  <2>1. C \in SUBSET Items  BY SeasonItems
  <2> HIDE DEF C
  <2>2. Adds(C, g, EquipBest(g, C, Scores, count, refused).gear)  BY <1>2, <2>1, EquipBestAdds
  <2>3. Adds(Items, g, EquipBest(g, C, Scores, count, refused).gear)  BY <2>1, <2>2 DEF Adds
  <2> QED  BY <2>3 DEF C
<1>5. body \in Dress
  <2>1. \A p \in Places : Fill(Stripped, InvTypesOf(p), 1) \in Dress  BY <1>3, <1>4 DEF Adds
  <2> HIDE DEF Fill
  <2>2. \A p \in Places : body[p] \in Items \cup {None}  BY <2>1 DEF Dress
  <2>3. body = [p \in Places |-> body[p]]  OBVIOUS
  <2> HIDE DEF body
  <2> QED  BY <2>2, <2>3 DEF Dress
<1>6. ASSUME NEW s \in GearedSlots(bot.level), body[s] = None
      PROVE  \A i \in SeasonCandidates(bot, InvTypesOf(s), season) : i.id \in refused
  <2>1. s \in OneSlots /\ s \in Places  BY OneSlotsAre
  <2> DEFINE C == SeasonCandidates(bot, InvTypesOf(s), season)
  <2>2. C \in SUBSET Items /\ Into(s, C)  BY SeasonItems DEF Into
  <2>3. CASE InvTypesOf(s) = {}  BY <2>2, <2>3 DEF Into
  <2>4. CASE InvTypesOf(s) # {}
    <3>1. EquipBest(Stripped, C, Scores, 1, refused).gear[s] = None  BY <1>6, <2>1, <2>4
    <3> HIDE DEF C
    <3>2. Filled1(s, C, Stripped, EquipBest(Stripped, C, Scores, 1, refused), refused)
      BY <1>2, <1>3, <2>1, <2>2, OnePiece
    <3>3. \A i \in C : i.id \in refused  BY <3>1, <3>2 DEF Filled1
    <3> QED  BY <3>3 DEF C
  <2> QED  BY <2>3, <2>4
<1> HIDE DEF body
<1>7. Adds(Items, body, rings)  BY <1>4, <1>5
<1> HIDE DEF rings, Fill
<1>8. Adds(Items, rings, medal)
  <2>1. rings \in Dress  BY <1>7 DEF Adds
  <2>2. Adds(TrinketCandidatesFor(bot, season), rings, medal)  BY <1>2, <2>1, SeasonItems, EquipBestAdds
  <2>3. TrinketCandidatesFor(bot, season) \in SUBSET Items  BY SeasonItems
  <2> HIDE DEF medal
  <2> QED  BY <2>2, <2>3 DEF Adds
<1> HIDE DEF medal
<1>9. Adds(Items, medal, new)
  <2>1. medal \in Dress /\ arms \in SUBSET Items  BY <1>8, SeasonItems DEF Adds
  <2> HIDE DEF arms
  <2>2. Adds(arms, medal, new)  BY <1>2, <2>1, EquipAllAdds
  <2> HIDE DEF new
  <2> QED  BY <2>1, <2>2 DEF Adds
<1> HIDE DEF new
<1>10. Adds(Items, body, new)
  <2>1. Adds(Items, body, medal)  BY <1>7, <1>8, AddsTwice
  <2> QED  BY <1>9, <2>1, AddsTwice
<1>11. new \in Dress  BY <1>10 DEF Adds
<1>12. ASSUME NEW s \in GearedSlots(bot.level), new[s] = None
       PROVE  \A i \in SeasonCandidates(bot, InvTypesOf(s), season) : i.id \in refused
  <2>1. s \in Places  BY OneSlotsAre
  <2>2. body[s] = None  BY <1>5, <1>10, <1>12, <2>1, AddsKeep
  <2> QED  BY <1>6, <2>2
<1> QED  BY <1>1, <1>11, <1>12

GearInv == gear \in Dress /\ WearsWhatFits

LEMMA GearInitInv == GearInit => GearInv
<1> SUFFICES ASSUME GearInit PROVE GearInv  OBVIOUS
<1>1. gear \in Dress  BY DEF GearInit, Stripped, Dress
<1>2. sync.by = "nobody"  BY DEF GearInit
<1> QED  BY <1>1, <1>2 DEF GearInv, WearsWhatFits, BareIfRefused, WearsNothingBeyond

LEMMA RaidInv ==
    ASSUME GearInv, NEW bot \in Character, NEW ilvl \in Nat, NEW refused, GearForRaid(bot, ilvl, refused)
    PROVE  GearInv'
<1>1. gear' \in EquipForSpec(bot, ilvl, refused)  BY DEF GearForRaid
<1>2. /\ sync'.by = "raid" /\ sync'.bot = bot /\ sync'.ilvl = ilvl /\ sync'.refused = refused
      /\ sync'.dressed = (gear # Stripped)
  BY DEF GearForRaid, Syncs
<1>3. bot.level \in Nat  BY DEF Character
<1>4. CASE bot.level < 5
  <2>1. gear' = gear  BY <1>1, <1>4 DEF EquipForSpec
  <2>2. gear' \in Dress  BY <2>1 DEF GearInv
  <2>3. BareIfRefused'  BY <1>2, <1>4, <2>1 DEF BareIfRefused
  <2>4. WearsNothingBeyond'  BY <1>2, <1>3, <1>4 DEF WearsNothingBeyond
  <2> QED  BY <2>2, <2>3, <2>4 DEF GearInv, WearsWhatFits
<1>5. CASE bot.level >= 5
  <2> DEFINE sets == IF bot.level >= 50 THEN PickSet(bot, ilvl) ELSE {{}}
             Equipped(S) == EquipAll(Stripped, S, Scores, refused)
  <2>1. PICK S \in sets : gear' = OffPieces(bot, Equipped(S), S, ilvl, refused)
    BY <1>1, <1>3, <1>5 DEF EquipForSpec
  <2>2. S \in SUBSET Items /\ S \subseteq Wearable(bot, ilvl)
    <3>1. CASE ~(bot.level >= 50)
      <4>1. S = {}  BY <2>1, <3>1
      <4> QED  BY <4>1
    <3>2. CASE bot.level >= 50
      <4>1. S \in PickSet(bot, ilvl)  BY <2>1, <3>2
      <4> QED  BY <4>1, PickedMay
    <3> QED  BY <3>1, <3>2
  <2> HIDE DEF sets
  <2>3. Stripped \in Dress  BY DEF Stripped, Dress
  <2>4. Adds(S, Stripped, Equipped(S)) /\ Equipped(S) \in Dress  BY <2>2, <2>3, PreferenceIs, EquipAllAdds
  <2> HIDE DEF Equipped
  <2>5. /\ gear' \in Dress
        /\ \A s \in GearedSlots(bot.level) : Bare(s, gear', bot, CeilOf(bot, ilvl), refused)
        /\ \A p \in Places : gear'[p] # None => May(bot, ilvl, gear'[p])
    BY <1>5, <2>1, <2>2, <2>4, OffPiecesFit
  <2>6. WearsNothingBeyond'
    BY <1>2, <2>5 DEF WearsNothingBeyond, May, CeilOf
  <2>7. ASSUME NEW s \in GearedSlots(bot.level), gear'[s] = None,
               NEW i \in Items, i.inv \in InvTypesOf(s), i.key \in 0 .. bot.level, i.score > 0,
               CanUseItem(bot, i), i.ilvl \in 1 .. CeilOf(bot, ilvl)
        PROVE  i.id \in refused
    <3>1. i \in Candidates(bot, InvTypesOf(s), 1, CeilOf(bot, ilvl))
      <4>1. CeilOf(bot, ilvl) \in Int  BY <1>3, ItemsAssumption DEF CeilOf
      <4>2. i.ilvl >= 1 /\ i.ilvl <= CeilOf(bot, ilvl) /\ i.key >= 0 /\ i.key <= bot.level  BY <1>3, <2>7, <4>1
      <4> QED  BY <2>7, <4>2 DEF Candidates, Curated, Usable, MeetsLevelRequirement
    <3> QED  BY <2>5, <2>7, <3>1 DEF Bare
  <2>8. BareIfRefused'
    BY <1>2, <1>3, <1>5, <2>7 DEF BareIfRefused, CeilOf
  <2> QED  BY <2>5, <2>6, <2>8 DEF GearInv, WearsWhatFits
<1> QED  BY <1>3, <1>4, <1>5

LEMMA ArenaInv ==
    ASSUME GearInv, NEW bot \in Character, NEW ilvl \in Nat, NEW refused, GearForArena(bot, ilvl, refused)
    PROVE  GearInv'
<1> DEFINE season == SeasonForItemLevel(ilvl)
<1>1. gear' = EquipSeason(bot, season, refused)  BY DEF GearForArena
<1>2. /\ sync'.by = "arena" /\ sync'.bot = bot /\ sync'.ilvl = ilvl /\ sync'.refused = refused
      /\ sync'.dressed = (gear # Stripped)
  BY DEF GearForArena, Syncs
<1>3. bot.level \in Nat  BY DEF Character
<1>4. WearsNothingBeyond'  BY <1>2 DEF WearsNothingBeyond
<1>5. CASE ~SeasonGate(bot)
  <2>1. gear' = gear  BY <1>1, <1>5 DEF EquipSeason
  <2>2. gear' \in Dress  BY <2>1 DEF GearInv
  <2>3. sync'.bot.level < (IF sync'.by = "raid" THEN 5 ELSE 80)  BY <1>2, <1>3, <1>5 DEF SeasonGate
  <2>4. sync'.dressed => gear' # Stripped  BY <1>2, <2>1
  <2>5. BareIfRefused'  BY <2>3, <2>4 DEF BareIfRefused
  <2> QED  BY <1>4, <2>2, <2>5 DEF GearInv, WearsWhatFits
<1>6. CASE SeasonGate(bot)
  <2>1. /\ gear' \in Dress
        /\ \A s \in GearedSlots(bot.level) :
             gear'[s] = None => \A i \in SeasonCandidates(bot, InvTypesOf(s), season) : i.id \in refused
    <3> HIDE DEF season
    <3> QED  BY <1>1, <1>6, SeasonFits
  <2>2. BareIfRefused'
    BY <1>2, <1>3, <1>6, <2>1 DEF BareIfRefused, SeasonGate, SeasonCandidates
  <2> QED  BY <1>4, <2>1, <2>2 DEF GearInv, WearsWhatFits
<1> QED  BY <1>5, <1>6

\* For any catalogue of items, character, item level of the master and items the
\* core refuses: a sync leaves a slot bare only where every item that fits was
\* refused, and puts on nothing above the character's level or, of what is not a
\* set piece, above the master's band.
THEOREM GearFits == GearSpec => []WearsWhatFits
<1>1. GearInv /\ [GearNext]_gearVars => GearInv'
  <2> SUFFICES ASSUME GearInv, [GearNext]_gearVars PROVE GearInv'  OBVIOUS
  <2>1. CASE UNCHANGED gearVars
    BY <2>1 DEF gearVars, GearInv, WearsWhatFits, BareIfRefused, WearsNothingBeyond
  <2>2. CASE GearNext
    <3>1. PICK bot \in Character, ilvl \in Nat, refused \in SUBSET Nat :
            GearForRaid(bot, ilvl, refused) \/ GearForArena(bot, ilvl, refused)
      BY <2>2 DEF GearNext, Character
    <3> QED  BY <3>1, RaidInv, ArenaInv
  <2> QED  BY <2>1, <2>2
<1>2. GearInv => WearsWhatFits  BY DEF GearInv
<1> QED  BY GearInitInv, <1>1, <1>2, PTL DEF GearSpec

-----------------------------------------------------------------------------
(* Gems. The planner counts colors, and treats counts alike beyond what its     *)
(* rules tell apart.                                                            *)
Tally == [Colors -> Nat]
Ruled(rules) == rules \subseteq Requirement /\ IsFiniteSet(rules)
Limits(rules, c) == {r.value : r \in {x \in rules : x.color = c /\ x.other \notin Colors}}
\* cap is as far as the rules count.
Caps(cap, rules) ==
  /\ cap \in Tally
  /\ \A x \in Tally, c \in Colors :
       Clamp(x, rules)[c] = IF c \in Relative(rules) \/ x[c] < cap[c] THEN x[c] ELSE cap[c]
  /\ \A r \in rules : r.other \notin Colors => r.value < cap[r.color]

LEMMA LimitsFinite ==
    ASSUME NEW rules, Ruled(rules), NEW c
    PROVE  IsFiniteSet(Limits(rules, c)) /\ Limits(rules, c) \subseteq Nat
<1> DEFINE R == {x \in rules : x.color = c /\ x.other \notin Colors}
           f == [r \in R |-> r.value]
<1>1. IsFiniteSet(R)  BY FS_Subset DEF Ruled
<1>2. f \in Surjection(R, Limits(rules, c))  BY DEF Surjection, Limits
<1>3. IsFiniteSet(Limits(rules, c))  BY <1>1, <1>2, FS_Surjection
<1> QED  BY <1>3 DEF Limits, Ruled, Requirement

LEMMA AtMostIs ==
    ASSUME NEW n \in Nat, NEW v \in Nat
    PROVE  AtMost(n, v) = IF n < v + 1 THEN n ELSE v + 1
<1> DEFINE m == IF n < v + 1 THEN n ELSE v + 1
<1>1. m \in {n, v + 1} /\ \A y \in {n, v + 1} : m =< y  OBVIOUS
<1>2. \A x \in {n, v + 1} : (\A y \in {n, v + 1} : x =< y) => x = m  OBVIOUS
<1> HIDE DEF m
<1> QED  BY <1>1, <1>2 DEF AtMost, Min, m

LEMMA CapsExist == ASSUME NEW rules, Ruled(rules) PROVE \E cap : Caps(cap, rules)
<1> DEFINE cap == [c \in Colors |-> IF Limits(rules, c) = {} THEN 0 ELSE Max(Limits(rules, c)) + 1]
<1>1. ASSUME NEW c \in Colors, Limits(rules, c) # {}
      PROVE  Max(Limits(rules, c)) \in Nat /\ \A v \in Limits(rules, c) : v <= Max(Limits(rules, c))
  <2>1. IsFiniteSet(Limits(rules, c)) /\ Limits(rules, c) \subseteq Nat  BY LimitsFinite
  <2>2. Limits(rules, c) \in SUBSET Int  BY <2>1
  <2>3. Max(Limits(rules, c)) \in Limits(rules, c) /\ \A v \in Limits(rules, c) : v <= Max(Limits(rules, c))
    BY <1>1, <2>1, <2>2, MaxIs
  <2> QED  BY <2>1, <2>3
<1>2. cap \in Tally  BY <1>1 DEF Tally
<1>3. ASSUME NEW x \in Tally, NEW c \in Colors
      PROVE  Clamp(x, rules)[c] = IF c \in Relative(rules) \/ x[c] < cap[c] THEN x[c] ELSE cap[c]
  <2>1. Clamp(x, rules)[c] = IF c \in Relative(rules) THEN x[c]
                             ELSE IF Limits(rules, c) = {} THEN 0 ELSE AtMost(x[c], Max(Limits(rules, c)))
    BY DEF Clamp, Limits
  <2>2. x[c] \in Nat  BY DEF Tally
  <2>3. CASE Limits(rules, c) = {}  BY <2>1, <2>2, <2>3
  <2>4. CASE Limits(rules, c) # {}
    <3>1. Max(Limits(rules, c)) \in Nat  BY <1>1, <2>4
    <3>2. cap[c] = Max(Limits(rules, c)) + 1  BY <2>4
    <3>3. AtMost(x[c], Max(Limits(rules, c))) = IF x[c] < cap[c] THEN x[c] ELSE cap[c]
      BY <2>2, <3>1, <3>2, AtMostIs
    <3> HIDE DEF cap
    <3> QED  BY <2>1, <2>4, <3>3
  <2> QED  BY <2>3, <2>4
<1>4. ASSUME NEW r \in rules, r.other \notin Colors PROVE r.value < cap[r.color]
  <2>1. r.color \in Colors /\ r.value \in Nat  BY DEF Ruled, Requirement
  <2>2. r.value \in Limits(rules, r.color)  BY <1>4 DEF Limits
  <2>3. Max(Limits(rules, r.color)) \in Nat /\ r.value <= Max(Limits(rules, r.color))  BY <1>1, <2>1, <2>2
  <2>4. cap[r.color] = Max(Limits(rules, r.color)) + 1  BY <2>1, <2>2
  <2> HIDE DEF cap
  <2> QED  BY <2>1, <2>3, <2>4
<1> HIDE DEF cap
<1>5. Caps(cap, rules)  BY <1>2, <1>3, <1>4 DEF Caps
<1> QED  BY <1>5

LEMMA ClampTyped ==
    ASSUME NEW rules, Ruled(rules), NEW x \in Tally
    PROVE  Clamp(x, rules) \in Tally /\ \A c \in Colors : Clamp(x, rules)[c] <= x[c]
<1>1. PICK cap : Caps(cap, rules)  BY CapsExist
<1>2. \A c \in Colors : Clamp(x, rules)[c] = IF c \in Relative(rules) \/ x[c] < cap[c] THEN x[c] ELSE cap[c]
  BY <1>1 DEF Caps
<1>3. \A c \in Colors : cap[c] \in Nat /\ x[c] \in Nat  BY <1>1 DEF Caps, Tally
<1>4. \A c \in Colors : Clamp(x, rules)[c] \in Nat /\ Clamp(x, rules)[c] <= x[c]  BY <1>2, <1>3
<1>5. Clamp(x, rules) = [c \in Colors |-> Clamp(x, rules)[c]]  BY DEF Clamp
<1> QED  BY <1>4, <1>5 DEF Tally

\* Whether colors are added before or after the counts are clamped is all alike,
\* unless a count is saturated.
LEMMA ClampAdds ==
    ASSUME NEW rules, Ruled(rules), NEW x \in Tally, \A c \in Colors : x[c] < Saturation, NEW colors
    PROVE  /\ AddColor(x, colors) = [c \in Colors |-> IF c \in colors THEN x[c] + 1 ELSE x[c]]
           /\ Clamp(AddColor(Clamp(x, rules), colors), rules) = Clamp(AddColor(x, colors), rules)
<1> DEFINE y == Clamp(x, rules)
<1>1. PICK cap : Caps(cap, rules)  BY CapsExist
<1>2. \A c \in Colors : cap[c] \in Nat /\ x[c] \in Nat  BY <1>1 DEF Caps, Tally
<1>3. \A c \in Colors : y[c] = IF c \in Relative(rules) \/ x[c] < cap[c] THEN x[c] ELSE cap[c]
  BY <1>1 DEF Caps
<1>4. y \in Tally /\ \A c \in Colors : y[c] \in Nat /\ y[c] < Saturation
  <2>1. y \in Tally /\ \A c \in Colors : y[c] <= x[c]  BY ClampTyped
  <2> HIDE DEF y
  <2> QED  BY <1>2, <2>1 DEF Tally, Saturation
<1> HIDE DEF y
<1>5. /\ AddColor(x, colors) = [c \in Colors |-> IF c \in colors THEN x[c] + 1 ELSE x[c]]
      /\ AddColor(y, colors) = [c \in Colors |-> IF c \in colors THEN y[c] + 1 ELSE y[c]]
  BY <1>4 DEF AddColor
<1>6. AddColor(x, colors) \in Tally /\ AddColor(y, colors) \in Tally  BY <1>2, <1>4, <1>5 DEF Tally
<1>7. ASSUME NEW c \in Colors
      PROVE  Clamp(AddColor(y, colors), rules)[c] = Clamp(AddColor(x, colors), rules)[c]
  <2> DEFINE a == AddColor(x, colors)  b == AddColor(y, colors)
  <2>1. /\ Clamp(a, rules)[c] = IF c \in Relative(rules) \/ a[c] < cap[c] THEN a[c] ELSE cap[c]
        /\ Clamp(b, rules)[c] = IF c \in Relative(rules) \/ b[c] < cap[c] THEN b[c] ELSE cap[c]
    <3> HIDE DEF a, b
    <3> QED  BY <1>1, <1>6 DEF Caps, a, b
  <2>2. /\ a[c] = IF c \in colors THEN x[c] + 1 ELSE x[c]
        /\ b[c] = IF c \in colors THEN y[c] + 1 ELSE y[c]
    BY <1>5
  <2> HIDE DEF a, b
  <2>3. Clamp(b, rules)[c] = Clamp(a, rules)[c]
    BY <1>2, <1>3, <1>4, <2>1, <2>2
  <2> QED  BY <2>3 DEF a, b
<1>8. Clamp(AddColor(y, colors), rules) = Clamp(AddColor(x, colors), rules)
  BY <1>7 DEF Clamp
<1> QED  BY <1>5, <1>8 DEF y

\* The rules cannot tell clamped counts from the counts.
LEMMA ClampFits ==
    ASSUME NEW rules, Ruled(rules), NEW x \in Tally
    PROVE  Fits(Clamp(x, rules), rules) <=> Fits(x, rules)
<1> DEFINE y == Clamp(x, rules)
<1>1. PICK cap : Caps(cap, rules)  BY CapsExist
<1>2. \A c \in Colors : cap[c] \in Nat /\ x[c] \in Nat  BY <1>1 DEF Caps, Tally
<1>3. \A c \in Colors : y[c] = IF c \in Relative(rules) \/ x[c] < cap[c] THEN x[c] ELSE cap[c]
  BY <1>1 DEF Caps
<1> HIDE DEF y
<1>4. ASSUME NEW r \in rules PROVE Holds(y, r) <=> Holds(x, r)
  <2>1. r.color \in Colors /\ r.value \in Nat  BY DEF Ruled, Requirement
  <2>2. CASE r.other \in Colors
    <3>1. r.color \in Relative(rules) /\ r.other \in Relative(rules)  BY <2>2 DEF Relative
    <3>2. y[r.color] = x[r.color] /\ y[r.other] = x[r.other]  BY <1>3, <2>1, <2>2, <3>1
    <3> QED  BY <2>2, <3>2 DEF Holds
  <2>3. CASE r.other \notin Colors
    <3> DEFINE a == x[r.color]  b == y[r.color]  k == cap[r.color]  v == r.value
    <3>1. v < k  BY <1>1, <2>3 DEF Caps
    <3>2. a \in Nat /\ k \in Nat /\ v \in Nat /\ (b = a \/ (b = k /\ ~(a < k)))  BY <1>2, <1>3, <2>1
    <3> HIDE DEF a, b, k, v
    <3>3. (b < v <=> a < v) /\ (b > v <=> a > v) /\ (b >= v <=> a >= v)  BY <3>1, <3>2
    <3>4. /\ Holds(y, r) = CASE r.cmp = "<" -> b < v [] r.cmp = ">" -> b > v [] OTHER -> b >= v
          /\ Holds(x, r) = CASE r.cmp = "<" -> a < v [] r.cmp = ">" -> a > v [] OTHER -> a >= v
      BY <2>3 DEF Holds, a, b, v
    <3> QED  BY <3>3, <3>4
  <2> QED  BY <2>2, <2>3
<1> QED  BY <1>4 DEF Fits, y

\* The planner takes the sockets in their order: w[k] are its plans for k of them.
Planning(w, start, choices, rules, n) ==
  /\ w[0] = start
  /\ \A k \in 1 .. n : w[k] = Extended(w[k - 1], choices[k], rules)
IsPlanning(g, n, start, choices, rules) ==
  g = [d \in SUBSET (1 .. n) |-> IF d = {} THEN start ELSE Extended(g[d \ {Max(d)}], choices[Max(d)], rules)]

LEMMA MaxTop == ASSUME NEW k \in Nat, NEW s \in SUBSET (1 .. k), k \in s PROVE Max(s) = k
<1>1. \A y \in s : k >= y  OBVIOUS
<1>2. \A x \in s : (\A y \in s : x >= y) => x = k  OBVIOUS
<1> QED BY <1>1, <1>2 DEF Max

LEMMA PlanningExists ==
    ASSUME NEW n \in Nat, NEW start, NEW choices, NEW rules
    PROVE  \E g : IsPlanning(g, n, start, choices, rules)
<1> DEFINE Sizes == {k \in Nat : \E g : IsPlanning(g, k, start, choices, rules)}
<1>1. \E g : IsPlanning(g, 0, start, choices, rules)
  <2> DEFINE g == [d \in SUBSET (1 .. 0) |-> start]
  <2>1. \A d \in SUBSET (1 .. 0) : d = {}  OBVIOUS
  <2>2. IsPlanning(g, 0, start, choices, rules)  BY <2>1 DEF IsPlanning
  <2> QED  BY <2>2
<1>2. ASSUME NEW k \in Nat, NEW f, IsPlanning(f, k, start, choices, rules)
      PROVE  \E g : IsPlanning(g, k + 1, start, choices, rules)
  <2> DEFINE g == [d \in SUBSET (1 .. k + 1) |->
                     IF k + 1 \in d THEN Extended(f[d \ {k + 1}], choices[k + 1], rules) ELSE f[d]]
  <2>1. ASSUME NEW d \in SUBSET (1 .. k + 1)
        PROVE  g[d] = IF d = {} THEN start ELSE Extended(g[d \ {Max(d)}], choices[Max(d)], rules)
    <3>1. CASE k + 1 \in d
      <4>1. Max(d) = k + 1  BY <3>1, MaxTop
      <4>2. d \ {k + 1} \in SUBSET (1 .. k + 1) /\ k + 1 \notin d \ {k + 1}  OBVIOUS
      <4>3. g[d \ {k + 1}] = f[d \ {k + 1}]  BY <4>2
      <4>4. g[d] = Extended(f[d \ {k + 1}], choices[k + 1], rules)  BY <3>1
      <4>5. d # {}  BY <3>1
      <4> QED  BY <4>1, <4>3, <4>4, <4>5
    <3>2. CASE k + 1 \notin d
      <4>1. d \in SUBSET (1 .. k)
        <5>1. \A x \in d : x \in 1 .. k  BY <3>2
        <5> QED  BY <5>1
      <4>2. g[d] = f[d]  BY <3>2
      <4>3. \A x : d \ {x} \in SUBSET (1 .. k + 1) /\ k + 1 \notin d \ {x}  BY <3>2
      <4>4. \A x : g[d \ {x}] = f[d \ {x}]  BY <4>3
      <4>5. f[d] = IF d = {} THEN start ELSE Extended(f[d \ {Max(d)}], choices[Max(d)], rules)
        BY <1>2, <4>1 DEF IsPlanning
      <4> HIDE DEF g
      <4> QED  BY <4>2, <4>4, <4>5
    <3> QED  BY <3>1, <3>2
  <2>2. g = [d \in SUBSET (1 .. k + 1) |-> g[d]]  OBVIOUS
  <2>3. IsPlanning(g, k + 1, start, choices, rules)
    <3> HIDE DEF g
    <3> QED  BY <2>1, <2>2 DEF IsPlanning
  <2> QED  BY <2>3
<1>3. 0 \in Sizes /\ \A k \in Nat : k \in Sizes => k + 1 \in Sizes  BY <1>1, <1>2
<1>4. Nat \subseteq Sizes
  <2> HIDE DEF Sizes
  <2> QED  BY <1>3, NatInd
<1> QED  BY <1>4

LEMMA PlanningUnfolds ==
    ASSUME NEW n \in Nat, NEW start, NEW choices, NEW rules, NEW g, IsPlanning(g, n, start, choices, rules)
    PROVE  Planning([k \in 0 .. n |-> g[1 .. k]], start, choices, rules, n)
<1>1. \A d \in SUBSET (1 .. n) : g[d] = IF d = {} THEN start ELSE Extended(g[d \ {Max(d)}], choices[Max(d)], rules)
  BY DEF IsPlanning
<1>2. 1 .. 0 = {} /\ 1 .. 0 \in SUBSET (1 .. n)  OBVIOUS
<1>3. g[1 .. 0] = start  BY <1>1, <1>2
<1>4. ASSUME NEW k \in 1 .. n PROVE g[1 .. k] = Extended(g[1 .. k - 1], choices[k], rules)
  <2>1. Max(1 .. k) = k  BY MaxTop
  <2>2. (1 .. k) \ {k} = 1 .. k - 1  OBVIOUS
  <2>3. 1 .. k # {} /\ 1 .. k \in SUBSET (1 .. n)  OBVIOUS
  <2> QED  BY <1>1, <2>1, <2>2, <2>3
<1>5. \A k \in 1 .. n : k - 1 \in 0 .. n /\ k \in 0 .. n  OBVIOUS
<1>6. 0 \in 0 .. n  OBVIOUS
<1> QED  BY <1>3, <1>4, <1>5, <1>6 DEF Planning

\* What Solve returns, by its plans for all sockets.
Chosen(plans, rules) ==
  LET good == {p \in plans : Fits(p.counts, rules)}
  IN IF good = {} THEN NoPlan ELSE CHOOSE p \in good : \A q \in good : q.score <= p.score
Start(fixed, rules) == {[counts |-> Clamp(fixed, rules), score |-> 0, gems |-> << >>]}

LEMMA SolvePlans ==
    ASSUME NEW n \in Nat, NEW fixed, NEW choices, NEW rules, DOMAIN choices = 1 .. n
    PROVE  \E w : /\ Planning(w, Start(fixed, rules), choices, rules, n)
                  /\ Solve(fixed, choices, rules) = Chosen(w[n], rules)
<1> DEFINE start == Start(fixed, rules)
           g == CHOOSE g : IsPlanning(g, n, start, choices, rules)
           w == [k \in 0 .. n |-> g[1 .. k]]
<1>1. IsPlanning(g, n, start, choices, rules)  BY PlanningExists
<1>2. Solve(fixed, choices, rules) = Chosen(g[1 .. n], rules)
  BY DEF Solve, Chosen, Start, FoldLeft, MapThenFoldSet, IsPlanning
<1> HIDE DEF g
<1>3. Planning(w, start, choices, rules, n)  BY <1>1, PlanningUnfolds
<1>4. w[n] = g[1 .. n]  OBVIOUS
<1> QED  BY <1>2, <1>3, <1>4

\* A sum does not depend on the order it is taken in.
LEMMA SumSplit ==
    ASSUME NEW S, IsFiniteSet(S), NEW h, \A x \in S : h[x] \in Nat, NEW it, SumsUp(it, S, h)
    PROVE  \A s \in SUBSET S : /\ it[s] \in Nat
                               /\ s = {} => it[s] = 0
                               /\ \A x \in s : it[s] = h[x] + it[s \ {x}]
<1> DEFINE Good(s) == /\ it[s] \in Nat /\ (s = {} => it[s] = 0)
                      /\ \A x \in s : it[s] = h[x] + it[s \ {x}]
           Sizes == {k \in Nat : \A s \in Upto(S, k) : Good(s)}
<1>1. \A s \in SUBSET S : it[s] = IF s = {} THEN 0 ELSE h[AnyOf(s)] + it[s \ {AnyOf(s)}]
  BY DEF SumsUp
<1>2. 0 \in Sizes
  <2> SUFFICES ASSUME NEW s \in Upto(S, 0) PROVE Good(s)  OBVIOUS
  <2>1. IsFiniteSet(s) /\ s \in SUBSET S  BY FS_Subset DEF Upto
  <2>2. Cardinality(s) \in Nat /\ Cardinality(s) <= 0  BY <2>1, FS_CardinalityType DEF Upto
  <2>3. Cardinality(s) = 0  BY <2>2
  <2>4. s = {}  BY <2>1, <2>3, FS_EmptySet
  <2>5. it[s] = 0  BY <1>1, <2>1, <2>4
  <2> QED  BY <2>4, <2>5
<1>3. ASSUME NEW k \in Nat, k \in Sizes PROVE k + 1 \in Sizes
  <2> SUFFICES ASSUME NEW s \in Upto(S, k + 1) PROVE Good(s)  OBVIOUS
  <2>1. s \in SUBSET S  BY DEF Upto
  <2>2. CASE s = {}
    <3>1. it[s] = 0  BY <1>1, <2>1, <2>2
    <3> QED  BY <2>2, <3>1
  <2>3. CASE s # {}
    <3> DEFINE y == AnyOf(s)  r == s \ {y}
    <3>1. y \in s /\ r \in Upto(S, k)  BY <2>3, LessOne
    <3>2. it[s] = h[y] + it[r]  BY <1>1, <2>1, <2>3
    <3>3. Good(r)  BY <1>3, <3>1
    <3>4. \A x \in s : h[x] \in Nat  BY <2>1
    <3>5. ASSUME NEW x \in s, x # y PROVE it[s] = h[x] + it[s \ {x}]
      <4>1. IsFiniteSet(s) /\ Cardinality(s) <= k + 1 /\ Cardinality(s) \in Nat
        <5>1. IsFiniteSet(s)  BY <2>1, FS_Subset
        <5> QED  BY <5>1, FS_CardinalityType DEF Upto
      <4>2. Cardinality(s \ {x}) = Cardinality(s) - 1  BY <4>1, FS_RemoveElement
      <4>3. s \ {x} \in Upto(S, k)  BY <2>1, <4>1, <4>2 DEF Upto
      <4>4. Good(s \ {x})  BY <1>3, <4>3
      <4>5. y \in s \ {x} /\ x \in r  BY <3>1, <3>5
      <4>6. r \ {x} = (s \ {x}) \ {y}  OBVIOUS
      <4>7. it[s \ {x}] = h[y] + it[r \ {x}]  BY <4>4, <4>5, <4>6
      <4>8. it[r] = h[x] + it[r \ {x}]  BY <3>3, <4>5
      <4>9. r \ {x} \in Upto(S, k)
        <5>1. IsFiniteSet(r) /\ r \in SUBSET S /\ Cardinality(r) <= k  BY <3>1, FS_Subset DEF Upto
        <5>2. Cardinality(r) \in Nat /\ Cardinality(r \ {x}) = Cardinality(r) - 1
          BY <4>5, <5>1, FS_RemoveElement, FS_CardinalityType
        <5> HIDE DEF r
        <5> QED  BY <5>1, <5>2 DEF Upto
      <4>10. it[r \ {x}] \in Nat  BY <1>3, <4>9
      <4>11. h[x] \in Nat /\ h[y] \in Nat  BY <3>1, <3>4
      <4> HIDE DEF y, r
      <4> QED  BY <3>2, <4>7, <4>8, <4>10, <4>11
    <3>6. it[s] \in Nat
      <4> HIDE DEF y, r
      <4> QED  BY <3>1, <3>2, <3>3, <3>4
    <3> QED  BY <2>3, <3>2, <3>5, <3>6
  <2> QED  BY <2>2, <2>3
<1>4. Nat \subseteq Sizes
  <2> HIDE DEF Sizes
  <2> QED  BY <1>2, <1>3, NatInd
<1>5. Upto(S, Cardinality(S)) = SUBSET S /\ Cardinality(S) \in Nat  BY AllUpto
<1>6. \A s \in SUBSET S : Good(s)  BY <1>4, <1>5
<1> QED  BY <1>6

LEMMA SumIs ==
    ASSUME NEW S, IsFiniteSet(S), NEW h
    PROVE  \E it : SumsUp(it, S, h) /\ SumOver(h, S) = it[S]
<1>1. SumOver(h, S) = (CHOOSE it : SumsUp(it, S, h))[S]
  BY DEF SumOver, MapThenSumSet, MapThenFoldSet, SumsUp, AnyOf
<1>2. \E it : SumsUp(it, S, h)  BY SumExists
<1> QED  BY <1>1, <1>2

LEMMA SumAdd ==
    ASSUME NEW S, IsFiniteSet(S), NEW h, NEW x, x \notin S, \A y \in S \cup {x} : h[y] \in Nat
    PROVE  SumOver(h, S \cup {x}) = SumOver(h, S) + h[x]
<1> DEFINE U == S \cup {x}
<1>1. IsFiniteSet(U)  BY FS_AddElement
<1>2. PICK a : SumsUp(a, U, h) /\ SumOver(h, U) = a[U]  BY <1>1, SumIs
<1>3. PICK b : SumsUp(b, S, h) /\ SumOver(h, S) = b[S]  BY SumIs
<1>4. \A s \in SUBSET U : /\ a[s] \in Nat /\ (s = {} => a[s] = 0)
                          /\ \A y \in s : a[s] = h[y] + a[s \ {y}]
  <2> HIDE DEF U
  <2>1. \A y \in U : h[y] \in Nat  BY DEF U
  <2> QED  BY <1>1, <1>2, <2>1, SumSplit
<1>5. \A s \in SUBSET S : /\ b[s] \in Nat /\ (s = {} => b[s] = 0)
                          /\ \A y \in s : b[s] = h[y] + b[s \ {y}]
  BY <1>3, SumSplit
<1> DEFINE P == {k \in Nat : \A s \in Upto(S, k) : a[s] = b[s]}
<1>6. 0 \in P
  <2> SUFFICES ASSUME NEW s \in Upto(S, 0) PROVE a[s] = b[s]  OBVIOUS
  <2>1. IsFiniteSet(s) /\ s \in SUBSET S  BY FS_Subset DEF Upto
  <2>2. Cardinality(s) \in Nat /\ Cardinality(s) <= 0  BY <2>1, FS_CardinalityType DEF Upto
  <2>3. Cardinality(s) = 0  BY <2>2
  <2>4. s = {}  BY <2>1, <2>3, FS_EmptySet
  <2> QED  BY <1>4, <1>5, <2>1, <2>4
<1>7. ASSUME NEW k \in Nat, k \in P PROVE k + 1 \in P
  <2> SUFFICES ASSUME NEW s \in Upto(S, k + 1), s # {} PROVE a[s] = b[s]
    <3>1. \A s \in Upto(S, k + 1) : s = {} => a[s] = b[s]  BY <1>4, <1>5 DEF Upto
    <3> QED  BY <3>1
  <2> DEFINE y == AnyOf(s)
  <2>1. y \in s /\ s \ {y} \in Upto(S, k)  BY LessOne
  <2>2. s \in SUBSET S /\ s \in SUBSET U  BY DEF Upto
  <2>3. a[s] = h[y] + a[s \ {y}] /\ b[s] = h[y] + b[s \ {y}]  BY <1>4, <1>5, <2>1, <2>2
  <2> QED  BY <1>7, <2>1, <2>3
<1>8. Nat \subseteq P
  <2> HIDE DEF P
  <2> QED  BY <1>6, <1>7, NatInd
<1>9. a[S] = b[S]
  <2>1. S \in Upto(S, Cardinality(S)) /\ Cardinality(S) \in Nat  BY AllUpto
  <2> QED  BY <1>8, <2>1
<1>10. a[U] = h[x] + a[S]
  <2>1. U \ {x} = S /\ x \in U /\ U \in SUBSET U  OBVIOUS
  <2> HIDE DEF U
  <2> QED  BY <1>4, <2>1
<1>11. a[S] \in Nat /\ h[x] \in Nat  BY <1>4
<1> QED  BY <1>2, <1>3, <1>9, <1>10, <1>11

LEMMA SumEmpty == ASSUME NEW h PROVE SumOver(h, {}) = 0
<1>1. IsFiniteSet({})  BY FS_EmptySet
<1>2. PICK it : SumsUp(it, {}, h) /\ SumOver(h, {}) = it[{}]  BY <1>1, SumIs
<1> QED  BY <1>2 DEF SumsUp

LEMMA SumSame ==
    ASSUME NEW S, IsFiniteSet(S), NEW h, NEW k, \A x \in S : h[x] \in Nat /\ h[x] = k[x]
    PROVE  SumOver(h, S) = SumOver(k, S) /\ SumOver(h, S) \in Nat
<1>1. SumOver(h, S) <= SumOver(k, S) /\ SumOver(h, S) \in Nat /\ SumOver(k, S) \in Nat  BY SumMonotone
<1>2. SumOver(k, S) <= SumOver(h, S)  BY SumMonotone
<1> QED  BY <1>1, <1>2

(* A pick is one gem for each of the first k sockets. *)
IsOption(o) == o.colors \subseteq Colors \ {"meta"} /\ o.colors # {} /\ o.score \in Nat /\ o.score > 0
Offers(choices, n) ==
  /\ DOMAIN choices = 1 .. n
  /\ \A i \in 1 .. n : IsFiniteSet(choices[i]) /\ \A o \in choices[i] : IsOption(o)
PickOf(p, choices, k) == p = [i \in 1 .. k |-> p[i]] /\ \A i \in 1 .. k : p[i] \in choices[i]
With(p, k, c) == {i \in 1 .. k : c \in p[i].colors}
Tot(fixed, p, k) == [c \in Colors |-> fixed[c] + Cardinality(With(p, k, c))]
Worth(p, k) == SumOver([i \in 1 .. k |-> p[i].score], 1 .. k)

LEMMA UptoFinite == ASSUME NEW k \in Nat PROVE IsFiniteSet(1 .. k) /\ Cardinality(1 .. k) = k
BY FS_Interval

LEMMA TotTyped ==
    ASSUME NEW fixed \in Tally, NEW p, NEW k \in Nat
    PROVE  /\ Tot(fixed, p, k) \in Tally
           /\ \A c \in Colors : Tot(fixed, p, k)[c] <= fixed[c] + k
<1>1. ASSUME NEW c \in Colors PROVE Cardinality(With(p, k, c)) \in Nat /\ Cardinality(With(p, k, c)) <= k
  <2>1. With(p, k, c) \in SUBSET (1 .. k)  BY DEF With
  <2>2. IsFiniteSet(With(p, k, c)) /\ Cardinality(With(p, k, c)) <= k  BY <2>1, UptoFinite, FS_Subset
  <2> QED  BY <2>2, FS_CardinalityType
<1>2. \A c \in Colors : fixed[c] \in Nat  BY DEF Tally
<1>3. \A c \in Colors : Tot(fixed, p, k)[c] = fixed[c] + Cardinality(With(p, k, c))  BY DEF Tot
<1>4. \A c \in Colors : Tot(fixed, p, k)[c] \in Nat /\ Tot(fixed, p, k)[c] <= fixed[c] + k  BY <1>1, <1>2, <1>3
<1> QED  BY <1>4 DEF Tot, Tally

LEMMA PickNone ==
    ASSUME NEW fixed \in Tally, NEW choices
    PROVE  /\ PickOf(<< >>, choices, 0)
           /\ \A p : Tot(fixed, p, 0) = fixed /\ Worth(p, 0) = 0
<1>1. 1 .. 0 = {}  OBVIOUS
<1>2. PickOf(<< >>, choices, 0)  BY <1>1 DEF PickOf
<1>3. ASSUME NEW p PROVE Tot(fixed, p, 0) = fixed /\ Worth(p, 0) = 0
  <2>1. \A c \in Colors : With(p, 0, c) = {}  BY <1>1 DEF With
  <2>2. \A c \in Colors : fixed[c] + Cardinality(With(p, 0, c)) = fixed[c]  BY <2>1, FS_EmptySet DEF Tally
  <2>3. Tot(fixed, p, 0) = fixed  BY <2>2 DEF Tot, Tally
  <2>4. Worth(p, 0) = 0  BY <1>1, SumEmpty DEF Worth
  <2> QED  BY <2>3, <2>4
<1> QED  BY <1>2, <1>3

LEMMA PickAdds ==
    ASSUME NEW n \in Nat, NEW choices, Offers(choices, n), NEW fixed \in Tally, NEW k \in Nat, k + 1 \in 1 .. n,
           NEW p, NEW r, PickOf(r, choices, k + 1), \A i \in 1 .. k : p[i] = r[i]
    PROVE  /\ Tot(fixed, r, k + 1)
                = [c \in Colors |-> IF c \in r[k + 1].colors THEN Tot(fixed, p, k)[c] + 1 ELSE Tot(fixed, p, k)[c]]
           /\ Worth(r, k + 1) = Worth(p, k) + r[k + 1].score
           /\ Worth(p, k) \in Nat /\ Worth(r, k + 1) \in Nat
<1>0. 1 .. k + 1 = (1 .. k) \cup {k + 1} /\ k + 1 \notin 1 .. k  OBVIOUS
<1>1. IsFiniteSet(1 .. k)  BY UptoFinite
<1>2. ASSUME NEW c \in Colors
      PROVE  Tot(fixed, r, k + 1)[c] = IF c \in r[k + 1].colors THEN Tot(fixed, p, k)[c] + 1 ELSE Tot(fixed, p, k)[c]
  <2>1. With(r, k + 1, c) = IF c \in r[k + 1].colors THEN With(p, k, c) \cup {k + 1} ELSE With(p, k, c)
    BY <1>0 DEF With
  <2>2. With(p, k, c) \in SUBSET (1 .. k) /\ k + 1 \notin With(p, k, c)  BY <1>0 DEF With
  <2>3. IsFiniteSet(With(p, k, c))  BY <1>1, <2>2, FS_Subset
  <2>4. Cardinality(With(p, k, c)) \in Nat  BY <2>3, FS_CardinalityType
  <2>5. Cardinality(With(p, k, c) \cup {k + 1}) = Cardinality(With(p, k, c)) + 1  BY <2>2, <2>3, FS_AddElement
  <2>6. fixed[c] \in Nat  BY DEF Tally
  <2>7. /\ Tot(fixed, r, k + 1)[c] = fixed[c] + Cardinality(With(r, k + 1, c))
        /\ Tot(fixed, p, k)[c] = fixed[c] + Cardinality(With(p, k, c))
    BY DEF Tot
  <2> QED  BY <2>1, <2>4, <2>5, <2>6, <2>7
<1>3. Tot(fixed, r, k + 1)
        = [c \in Colors |-> IF c \in r[k + 1].colors THEN Tot(fixed, p, k)[c] + 1 ELSE Tot(fixed, p, k)[c]]
  BY <1>2 DEF Tot
<1> DEFINE h == [i \in 1 .. k + 1 |-> r[i].score]  g == [i \in 1 .. k |-> p[i].score]
<1>4. \A i \in 1 .. k + 1 : h[i] \in Nat /\ i \in 1 .. n  BY DEF PickOf, Offers, IsOption
<1>5. \A i \in 1 .. k : h[i] \in Nat /\ h[i] = g[i]
  <2>1. \A i \in 1 .. k : i \in 1 .. k + 1  OBVIOUS
  <2>2. \A i \in 1 .. k : h[i] = g[i]  BY <2>1
  <2> QED  BY <1>4, <2>1, <2>2
<1>6. h[k + 1] = r[k + 1].score /\ h[k + 1] \in Nat
  <2>1. k + 1 \in 1 .. k + 1  OBVIOUS
  <2> QED  BY <1>4, <2>1
<1>7. Worth(r, k + 1) = SumOver(h, (1 .. k) \cup {k + 1}) /\ Worth(p, k) = SumOver(g, 1 .. k)
  BY <1>0 DEF Worth
<1> HIDE DEF h, g
<1>8. SumOver(h, (1 .. k) \cup {k + 1}) = SumOver(h, 1 .. k) + h[k + 1]
  <2>1. \A y \in (1 .. k) \cup {k + 1} : h[y] \in Nat  BY <1>0, <1>4
  <2> QED  BY <1>0, <1>1, <2>1, SumAdd
<1>9. SumOver(h, 1 .. k) = SumOver(g, 1 .. k) /\ SumOver(h, 1 .. k) \in Nat  BY <1>1, <1>5, SumSame
<1> QED  BY <1>3, <1>6, <1>7, <1>8, <1>9

Put(p, o) == Append(p, o)
LEMMA PickAppends ==
    ASSUME NEW choices, NEW k \in Nat, NEW p, PickOf(p, choices, k), NEW o \in choices[k + 1]
    PROVE  /\ PickOf(Put(p, o), choices, k + 1)
           /\ Put(p, o)[k + 1] = o /\ \A i \in 1 .. k : p[i] = Put(p, o)[i]
<1> DEFINE U == {p[i] : i \in 1 .. k} \cup {o}
<1>1. p \in [1 .. k -> U]  BY DEF PickOf
<1>2. o \in U  OBVIOUS
<1> HIDE DEF U
<1>3. p \in Seq(U) /\ Len(p) = k
  <2>1. p \in Seq(U)  BY <1>1, SeqDef
  <2>2. 1 .. k = 1 .. Len(p) /\ Len(p) \in Nat  BY <1>1, <2>1, LenProperties
  <2>3. Cardinality(1 .. k) = k /\ Cardinality(1 .. Len(p)) = Len(p)  BY <2>2, UptoFinite
  <2> QED  BY <2>1, <2>2, <2>3
<1>4. /\ Append(p, o) \in Seq(U) /\ Len(Append(p, o)) = k + 1
      /\ Append(p, o)[k + 1] = o /\ \A i \in 1 .. k : p[i] = Append(p, o)[i]
  <2>1. /\ Append(p, o) \in Seq(U) /\ Len(Append(p, o)) = Len(p) + 1
        /\ \A i \in 1 .. Len(p) : Append(p, o)[i] = p[i]
        /\ Append(p, o)[Len(p) + 1] = o
    BY <1>2, <1>3, AppendProperties
  <2> QED  BY <1>3, <2>1
<1> DEFINE r == Append(p, o)
<1> HIDE DEF r
<1>5. r \in [1 .. k + 1 -> U]
  <2>1. r \in Seq(U) /\ Len(r) = k + 1  BY <1>4 DEF r
  <2> QED  BY <2>1, LenProperties
<1>6. r = [i \in 1 .. k + 1 |-> r[i]]  BY <1>5
<1>7. \A i \in 1 .. k + 1 : r[i] \in choices[i]
  <2> TAKE i \in 1 .. k + 1
  <2>1. i \in 1 .. k \/ i = k + 1  OBVIOUS
  <2>2. r[k + 1] = o /\ \A j \in 1 .. k : p[j] = r[j]  BY <1>4 DEF r
  <2>3. \A j \in 1 .. k : p[j] \in choices[j]  BY DEF PickOf
  <2> QED  BY <2>1, <2>2, <2>3
<1>8. PickOf(r, choices, k + 1)  BY <1>6, <1>7 DEF PickOf
<1> QED  BY <1>4, <1>8 DEF r, Put

\* The plans one socket makes of plans, and those of them that are kept.
Made(p, g, rules) ==
  [counts |-> Clamp(AddColor(p.counts, g.colors), rules), score |-> p.score + g.score, gems |-> Put(p.gems, g)]
Tried(plans, options, rules) == {Made(p, g, rules) : p \in plans, g \in {x \in options : Valid(x)}}
Kept(all) ==
  {CHOOSE p \in all : p.counts = k /\ \A q \in all : q.counts = k => q.score <= p.score : k \in {p.counts : p \in all}}

LEMMA ExtendedIs ==
    ASSUME NEW plans, NEW options, NEW rules
    PROVE  Extended(plans, options, rules) = Kept(Tried(plans, options, rules))
BY DEF Extended, Kept, Tried, Made, Put

LEMMA KeptAreBest ==
    ASSUME NEW all, IsFiniteSet(all), \A p \in all : p.score \in Nat
    PROVE  /\ Kept(all) \subseteq all /\ IsFiniteSet(Kept(all))
           /\ \A p \in all : \E q \in Kept(all) : q.counts = p.counts /\ p.score <= q.score
<1> DEFINE Best(p, k) == p \in all /\ p.counts = k /\ \A q \in all : q.counts = k => q.score <= p.score
           Of(k) == CHOOSE p \in all : p.counts = k /\ \A q \in all : q.counts = k => q.score <= p.score
<1>1. ASSUME NEW z \in all PROVE Best(Of(z.counts), z.counts)
  <2> DEFINE T == {p \in all : p.counts = z.counts}  rank == [p \in T |-> p.score]
  <2>1. IsFiniteSet(T) /\ T # {}  BY FS_Subset
  <2>2. \A p \in T : rank[p] \in Int  OBVIOUS
  <2>3. \E p \in T : \A q \in T : rank[q] <= rank[p]
    <3> HIDE DEF T, rank
    <3> QED  BY <2>1, <2>2, HighestExists
  <2>4. \E p \in all : p.counts = z.counts /\ \A q \in all : q.counts = z.counts => q.score <= p.score
    BY <2>3
  <2> QED  BY <2>4
<1>2. Kept(all) = {Of(k) : k \in {p.counts : p \in all}}  BY DEF Kept
<1> HIDE DEF Of
<1>3. Kept(all) \subseteq all  BY <1>1, <1>2
<1>4. ASSUME NEW p \in all PROVE \E q \in Kept(all) : q.counts = p.counts /\ p.score <= q.score
  <2>1. Of(p.counts) \in Kept(all)  BY <1>2
  <2>2. Best(Of(p.counts), p.counts)  BY <1>1
  <2> QED  BY <2>1, <2>2
<1>5. IsFiniteSet(Kept(all))  BY <1>3, FS_Subset
<1> QED  BY <1>3, <1>4, <1>5

LEMMA TriedFinite ==
    ASSUME NEW plans, IsFiniteSet(plans), NEW options, IsFiniteSet(options), NEW rules
    PROVE  IsFiniteSet(Tried(plans, options, rules))
<1> DEFINE O == {x \in options : Valid(x)}
           f == [z \in plans \X O |-> Made(z[1], z[2], rules)]
<1>1. IsFiniteSet(O)  BY FS_Subset
<1>2. IsFiniteSet(plans \X O)
  <2> HIDE DEF O
  <2> QED  BY <1>1, FS_Product
<1>3. f \in Surjection(plans \X O, Tried(plans, options, rules))
  <2>1. \A z \in plans \X O : f[z] \in Tried(plans, options, rules)
    <3> TAKE z \in plans \X O
    <3>1. PICK p \in plans, g \in O : z = << p, g >>  OBVIOUS
    <3>2. f[z] = Made(p, g, rules)  BY <3>1
    <3> QED  BY <3>1, <3>2 DEF Tried
  <2>2. \A t \in Tried(plans, options, rules) : \E z \in plans \X O : f[z] = t
    <3> TAKE t \in Tried(plans, options, rules)
    <3>1. PICK p \in plans, g \in O : t = Made(p, g, rules)  BY DEF Tried
    <3>2. << p, g >> \in plans \X O /\ f[<< p, g >>] = t  BY <3>1
    <3> QED  BY <3>2
  <2>3. f \in [plans \X O -> Tried(plans, options, rules)]  BY <2>1
  <2> HIDE DEF f, O
  <2> QED  BY <2>2, <2>3 DEF Surjection
<1> HIDE DEF f, O
<1> QED  BY <1>2, <1>3, FS_Surjection

(* The planner's invariant after k sockets: each plan is a pick with its       *)
(* clamped counts and its worth, and to each pick there is a plan with the     *)
(* same clamped counts that is worth no less.                                  *)
PlansHold(plans, fixed, choices, rules, k) ==
  /\ IsFiniteSet(plans)
  /\ \A q \in plans : /\ PickOf(q.gems, choices, k)
                      /\ q.counts = Clamp(Tot(fixed, q.gems, k), rules) /\ q.score = Worth(q.gems, k)
  /\ \A p : PickOf(p, choices, k) =>
       \E q \in plans : q.counts = Clamp(Tot(fixed, p, k), rules) /\ Worth(p, k) <= q.score

LEMMA PlansStart ==
    ASSUME NEW fixed \in Tally, NEW choices, NEW rules
    PROVE  PlansHold(Start(fixed, rules), fixed, choices, rules, 0)
<1> DEFINE q == [counts |-> Clamp(fixed, rules), score |-> 0, gems |-> << >>]
<1>1. Start(fixed, rules) = {q} /\ IsFiniteSet({q})  BY FS_Singleton DEF Start
<1>2. /\ PickOf(<< >>, choices, 0)
      /\ \A p : Tot(fixed, p, 0) = fixed /\ Worth(p, 0) = 0
  BY PickNone
<1>3. q.counts = Clamp(fixed, rules) /\ q.score = 0 /\ q.gems = << >>  OBVIOUS
<1> HIDE DEF q
<1> QED  BY <1>1, <1>2, <1>3 DEF PlansHold

LEMMA PlansStep ==
    ASSUME NEW rules, Ruled(rules), NEW n \in Nat, NEW choices, Offers(choices, n), NEW fixed \in Tally,
           \A c \in Colors \ {"meta"} : fixed[c] + n <= Saturation, fixed["meta"] < Saturation,
           NEW k \in Nat, k + 1 \in 1 .. n, NEW plans, PlansHold(plans, fixed, choices, rules, k)
    PROVE  PlansHold(Extended(plans, choices[k + 1], rules), fixed, choices, rules, k + 1)
<1> DEFINE O == choices[k + 1]  all == Tried(plans, O, rules)  E == Extended(plans, O, rules)
<1>1. IsFiniteSet(O) /\ \A o \in O : IsOption(o) /\ Valid(o)  BY DEF Offers, IsOption, Valid
<1>2. /\ IsFiniteSet(plans)
      /\ \A q \in plans : /\ PickOf(q.gems, choices, k)
                          /\ q.counts = Clamp(Tot(fixed, q.gems, k), rules) /\ q.score = Worth(q.gems, k)
      /\ \A p : PickOf(p, choices, k) =>
           \E q \in plans : q.counts = Clamp(Tot(fixed, p, k), rules) /\ Worth(p, k) <= q.score
  BY DEF PlansHold
<1>3. IsFiniteSet(all)
  <2> HIDE DEF O
  <2> QED  BY <1>1, <1>2, TriedFinite
<1>4. ASSUME NEW p, PickOf(p, choices, k) PROVE Tot(fixed, p, k) \in Tally /\ \A c \in Colors : Tot(fixed, p, k)[c] < Saturation
  <2>1. Tot(fixed, p, k) \in Tally /\ \A c \in Colors : Tot(fixed, p, k)[c] <= fixed[c] + k  BY TotTyped
  <2>2. \A i \in 1 .. k : i \in 1 .. n  OBVIOUS
  <2>3. With(p, k, "meta") = {}  BY <1>4, <2>2 DEF With, PickOf, Offers, IsOption
  <2>4. "meta" \in Colors  BY DEF Colors
  <2>5. Tot(fixed, p, k)["meta"] = fixed["meta"]  BY <2>3, <2>4, FS_EmptySet DEF Tot, Tally
  <2>6. \A c \in Colors : fixed[c] \in Nat /\ Tot(fixed, p, k)[c] \in Nat  BY <2>1 DEF Tally
  <2>7. ASSUME NEW c \in Colors, c # "meta" PROVE Tot(fixed, p, k)[c] < Saturation
    <3>1. fixed[c] + n <= Saturation /\ k + 1 <= n /\ Saturation \in Nat  BY <2>7 DEF Saturation
    <3> QED  BY <2>1, <2>6, <3>1
  <2> QED  BY <2>1, <2>5, <2>7
\* What a pick becomes with one gem more.
<1>5. ASSUME NEW r, PickOf(r, choices, k + 1), NEW p, PickOf(p, choices, k), \A i \in 1 .. k : p[i] = r[i]
      PROVE  /\ Clamp(AddColor(Clamp(Tot(fixed, p, k), rules), r[k + 1].colors), rules)
                  = Clamp(Tot(fixed, r, k + 1), rules)
             /\ Worth(r, k + 1) = Worth(p, k) + r[k + 1].score
             /\ Worth(p, k) \in Nat /\ Worth(r, k + 1) \in Nat
  <2> DEFINE x == Tot(fixed, p, k)  colors == r[k + 1].colors
  <2>1. x \in Tally /\ \A c \in Colors : x[c] < Saturation  BY <1>4, <1>5
  <2>2. /\ Tot(fixed, r, k + 1) = [c \in Colors |-> IF c \in colors THEN x[c] + 1 ELSE x[c]]
        /\ Worth(r, k + 1) = Worth(p, k) + r[k + 1].score
        /\ Worth(p, k) \in Nat /\ Worth(r, k + 1) \in Nat
    BY <1>5, PickAdds
  <2> HIDE DEF x, colors
  <2>3. /\ AddColor(x, colors) = [c \in Colors |-> IF c \in colors THEN x[c] + 1 ELSE x[c]]
        /\ Clamp(AddColor(Clamp(x, rules), colors), rules) = Clamp(AddColor(x, colors), rules)
    BY <2>1, ClampAdds
  <2>4. Clamp(AddColor(Clamp(x, rules), colors), rules) = Clamp(Tot(fixed, r, k + 1), rules)
    BY <2>2, <2>3
  <2> QED  BY <2>2, <2>4 DEF x, colors
<1>6. ASSUME NEW t \in all
      PROVE  /\ PickOf(t.gems, choices, k + 1)
             /\ t.counts = Clamp(Tot(fixed, t.gems, k + 1), rules) /\ t.score = Worth(t.gems, k + 1)
             /\ t.score \in Nat
  <2>1. PICK q \in plans, g \in O : t = Made(q, g, rules)  BY DEF Tried
  <2>2. /\ t.counts = Clamp(AddColor(q.counts, g.colors), rules)
        /\ t.score = q.score + g.score /\ t.gems = Put(q.gems, g)
    BY <2>1 DEF Made
  <2>3. /\ PickOf(q.gems, choices, k)
        /\ q.counts = Clamp(Tot(fixed, q.gems, k), rules) /\ q.score = Worth(q.gems, k)
    BY <1>2
  <2>4. /\ PickOf(t.gems, choices, k + 1) /\ t.gems[k + 1] = g /\ \A i \in 1 .. k : q.gems[i] = t.gems[i]
    <3>1. /\ PickOf(Put(q.gems, g), choices, k + 1) /\ Put(q.gems, g)[k + 1] = g
          /\ \A i \in 1 .. k : q.gems[i] = Put(q.gems, g)[i]
      <4>1. g \in choices[k + 1] /\ PickOf(q.gems, choices, k)  BY <2>3
      <4> DEFINE a == q.gems
      <4> HIDE DEF a
      <4>2. PickOf(Put(a, g), choices, k + 1) /\ Put(a, g)[k + 1] = g /\ \A i \in 1 .. k : a[i] = Put(a, g)[i]
        <5>1. PickOf(a, choices, k)  BY <4>1 DEF a
        <5>2. g \in choices[k + 1]  BY <4>1
        <5> QED  BY <5>1, <5>2, PickAppends
      <4> QED  BY <4>2 DEF a
    <3> QED  BY <2>2, <3>1
  <2> HIDE DEF O, all
  <2>5. /\ Clamp(AddColor(Clamp(Tot(fixed, q.gems, k), rules), g.colors), rules) = Clamp(Tot(fixed, t.gems, k + 1), rules)
        /\ Worth(t.gems, k + 1) = Worth(q.gems, k) + g.score /\ Worth(t.gems, k + 1) \in Nat
    BY <1>5, <2>3, <2>4
  <2> QED  BY <2>2, <2>3, <2>4, <2>5
<1>7. E = Kept(all)  BY ExtendedIs
<1>8. /\ Kept(all) \subseteq all /\ IsFiniteSet(Kept(all))
      /\ \A p \in all : \E q \in Kept(all) : q.counts = p.counts /\ p.score <= q.score
  <2> HIDE DEF all
  <2> QED  BY <1>3, <1>6, KeptAreBest
<1>9. ASSUME NEW r, PickOf(r, choices, k + 1)
      PROVE  \E q \in Kept(all) : q.counts = Clamp(Tot(fixed, r, k + 1), rules) /\ Worth(r, k + 1) <= q.score
  <2> DEFINE p == [i \in 1 .. k |-> r[i]]
  <2>1. PickOf(p, choices, k) /\ \A i \in 1 .. k : p[i] = r[i]
    <3>1. \A i \in 1 .. k : i \in 1 .. k + 1  OBVIOUS
    <3> QED  BY <1>9, <3>1 DEF PickOf
  <2> HIDE DEF p
  <2>2. PICK q \in plans : q.counts = Clamp(Tot(fixed, p, k), rules) /\ Worth(p, k) <= q.score
    BY <1>2, <2>1
  <2>3. r[k + 1] \in O
    <3>1. k + 1 \in 1 .. k + 1  OBVIOUS
    <3> QED  BY <1>9, <3>1 DEF PickOf
  <2> DEFINE g == r[k + 1]
             t == Made(q, g, rules)
  <2>4. t \in all
    <3>1. g \in {x \in O : Valid(x)}  BY <1>1, <2>3
    <3> QED  BY <3>1 DEF Tried
  <2>5. t.counts = Clamp(AddColor(q.counts, g.colors), rules) /\ t.score = q.score + g.score  BY DEF Made
  <2>6. /\ Clamp(AddColor(Clamp(Tot(fixed, p, k), rules), g.colors), rules) = Clamp(Tot(fixed, r, k + 1), rules)
        /\ Worth(r, k + 1) = Worth(p, k) + g.score /\ Worth(p, k) \in Nat
    BY <1>5, <1>9, <2>1
  <2>7. g.score \in Nat /\ q.score \in Nat
    <3>1. q.score = Worth(q.gems, k) /\ PickOf(q.gems, choices, k)  BY <1>2
    <3>2. PickOf(Put(q.gems, g), choices, k + 1) /\ \A i \in 1 .. k : q.gems[i] = Put(q.gems, g)[i]
      <4>1. g \in choices[k + 1]  BY <2>3
      <4> DEFINE a == q.gems
      <4> HIDE DEF g, a
      <4>2. PickOf(Put(a, g), choices, k + 1) /\ \A i \in 1 .. k : a[i] = Put(a, g)[i]
        <5>1. PickOf(a, choices, k)  BY <3>1 DEF a
        <5> QED  BY <4>1, <5>1, PickAppends
      <4> QED  BY <4>2 DEF a
    <3>3. Worth(q.gems, k) \in Nat  BY <1>5, <3>1, <3>2
    <3> QED  BY <1>1, <2>3, <3>1, <3>3 DEF IsOption
  <2> HIDE DEF t, g, all
  <2>8. t.counts = Clamp(Tot(fixed, r, k + 1), rules) /\ Worth(r, k + 1) <= t.score /\ t.score \in Nat
    BY <2>2, <2>5, <2>6, <2>7
  <2>9. PICK e \in Kept(all) : e.counts = t.counts /\ t.score <= e.score  BY <1>8, <2>4
  <2>10. e.score \in Nat /\ Worth(r, k + 1) \in Nat  BY <1>6, <1>8, <2>6, <2>7
  <2> QED  BY <2>8, <2>9, <2>10
<1> HIDE DEF all, O
<1> QED  BY <1>6, <1>7, <1>8, <1>9 DEF PlansHold, O

LEMMA WorthTyped ==
    ASSUME NEW n \in Nat, NEW choices, Offers(choices, n), NEW p, PickOf(p, choices, n)
    PROVE  Worth(p, n) \in Nat
<1> DEFINE h == [i \in 1 .. n |-> p[i].score]
<1>1. \A i \in 1 .. n : h[i] \in Nat  BY DEF PickOf, Offers, IsOption
<1>2. IsFiniteSet(1 .. n)  BY UptoFinite
<1>3. Worth(p, n) = SumOver(h, 1 .. n)  BY DEF Worth
<1> HIDE DEF h
<1> QED  BY <1>1, <1>2, <1>3, SumSame

\* The planner fails only where no pick fits, and otherwise returns a pick that
\* fits and is worth the most of those.
Finds(plan, fixed, choices, rules, n) ==
  \/ plan = NoPlan /\ \A p : PickOf(p, choices, n) => ~Fits(Tot(fixed, p, n), rules)
  \/ /\ plan # NoPlan /\ PickOf(plan.gems, choices, n) /\ Fits(Tot(fixed, plan.gems, n), rules)
     /\ plan.score = Worth(plan.gems, n)
     /\ \A p : PickOf(p, choices, n) /\ Fits(Tot(fixed, p, n), rules) => Worth(p, n) <= plan.score

LEMMA SolveFinds ==
    ASSUME NEW rules, Ruled(rules), NEW n \in Nat, NEW choices, Offers(choices, n), NEW fixed \in Tally,
           \A c \in Colors \ {"meta"} : fixed[c] + n <= Saturation, n > 0 => fixed["meta"] < Saturation
    PROVE  Finds(Solve(fixed, choices, rules), fixed, choices, rules, n)
<1>1. PICK w : /\ Planning(w, Start(fixed, rules), choices, rules, n)
               /\ Solve(fixed, choices, rules) = Chosen(w[n], rules)
  BY SolvePlans DEF Offers
<1> DEFINE P == {k \in Nat : k <= n => PlansHold(w[k], fixed, choices, rules, k)}
<1>2. 0 \in P
  <2>1. PlansHold(Start(fixed, rules), fixed, choices, rules, 0)  BY PlansStart
  <2> QED  BY <1>1, <2>1 DEF Planning
<1>3. ASSUME NEW k \in Nat, k \in P PROVE k + 1 \in P
  <2> SUFFICES ASSUME k + 1 <= n PROVE PlansHold(w[k + 1], fixed, choices, rules, k + 1)  OBVIOUS
  <2>1. k + 1 \in 1 .. n /\ (k + 1) - 1 = k  OBVIOUS
  <2>2. w[k + 1] = Extended(w[k], choices[k + 1], rules)  BY <1>1, <2>1 DEF Planning
  <2>3. PlansHold(w[k], fixed, choices, rules, k)  BY <1>3
  <2>4. fixed["meta"] < Saturation  BY <2>1
  <2>5. PlansHold(Extended(w[k], choices[k + 1], rules), fixed, choices, rules, k + 1)
    BY <2>1, <2>3, <2>4, PlansStep
  <2> QED  BY <2>2, <2>5
<1>4. Nat \subseteq P
  <2> HIDE DEF P
  <2> QED  BY <1>2, <1>3, NatInd
<1>5. PlansHold(w[n], fixed, choices, rules, n)  BY <1>4
<1> DEFINE plans == w[n]  good == {p \in plans : Fits(p.counts, rules)}
<1>6. /\ IsFiniteSet(plans)
      /\ \A q \in plans : /\ PickOf(q.gems, choices, n)
                          /\ q.counts = Clamp(Tot(fixed, q.gems, n), rules) /\ q.score = Worth(q.gems, n)
      /\ \A p : PickOf(p, choices, n) =>
           \E q \in plans : q.counts = Clamp(Tot(fixed, p, n), rules) /\ Worth(p, n) <= q.score
  BY <1>5 DEF PlansHold
<1>7. \A p : Fits(Clamp(Tot(fixed, p, n), rules), rules) <=> Fits(Tot(fixed, p, n), rules)
  BY TotTyped, ClampFits
<1>8. Solve(fixed, choices, rules)
        = IF good = {} THEN NoPlan ELSE CHOOSE p \in good : \A q \in good : q.score <= p.score
  BY <1>1 DEF Chosen
<1> HIDE DEF plans
<1>9. CASE good = {}
  <2>1. \A p : PickOf(p, choices, n) => ~Fits(Tot(fixed, p, n), rules)
    BY <1>6, <1>7, <1>9
  <2> QED  BY <1>8, <1>9, <2>1 DEF Finds
<1>10. CASE good # {}
  <2> DEFINE rank == [p \in good |-> p.score]  plan == Solve(fixed, choices, rules)
  <2>1. IsFiniteSet(good)  BY <1>6, FS_Subset
  <2>2. \A p \in good : rank[p] \in Int /\ rank[p] = p.score  BY <1>6, WorthTyped
  <2>3. \E p \in good : \A q \in good : rank[q] <= rank[p]
    <3> HIDE DEF good, rank
    <3> QED  BY <1>10, <2>1, <2>2, HighestExists
  <2>4. \E p \in good : \A q \in good : q.score <= p.score  BY <2>2, <2>3
  <2> HIDE DEF good, rank
  <2>5. plan \in good /\ \A q \in good : q.score <= plan.score  BY <1>8, <1>10, <2>4
  <2>6. /\ plan \in plans /\ PickOf(plan.gems, choices, n) /\ Fits(Tot(fixed, plan.gems, n), rules)
        /\ plan.score = Worth(plan.gems, n) /\ plan.score \in Nat
    <3>1. plan \in plans /\ Fits(plan.counts, rules)  BY <2>5 DEF good
    <3>2. PickOf(plan.gems, choices, n) /\ plan.counts = Clamp(Tot(fixed, plan.gems, n), rules)
          /\ plan.score = Worth(plan.gems, n)
      BY <1>6, <3>1
    <3>3. Worth(plan.gems, n) \in Nat
      <4> DEFINE p == plan.gems
      <4>1. PickOf(p, choices, n)  BY <3>2
      <4> HIDE DEF p
      <4>2. Worth(p, n) \in Nat  BY <4>1, WorthTyped
      <4> QED  BY <4>2 DEF p
    <3>4. Fits(Tot(fixed, plan.gems, n), rules)  BY <1>7, <3>1, <3>2
    <3> QED  BY <3>1, <3>2, <3>3, <3>4
  <2>7. plan # NoPlan
    <3>1. NoPlan.score = -1  BY DEF NoPlan
    <3> HIDE DEF plan
    <3> QED  BY <2>6, <3>1
  <2>8. ASSUME NEW p, PickOf(p, choices, n), Fits(Tot(fixed, p, n), rules) PROVE Worth(p, n) <= plan.score
    <3>1. PICK q \in plans : q.counts = Clamp(Tot(fixed, p, n), rules) /\ Worth(p, n) <= q.score
      BY <1>6, <2>8
    <3>2. q \in good  BY <1>7, <2>8, <3>1 DEF good
    <3>3. q.score <= plan.score  BY <2>5, <3>2
    <3>4. Worth(p, n) \in Nat /\ q.score \in Nat  BY <1>6, <2>8, WorthTyped
    <3> HIDE DEF plan
    <3> QED  BY <2>6, <3>1, <3>3, <3>4
  <2> QED  BY <2>6, <2>7, <2>8 DEF Finds
<1> QED  BY <1>9, <1>10

\* The sockets to fill, each once.
Ascending(f, n) == \A i, j \in 1 .. n : i < j => f[i] < f[j]
LEMMA AscentExists ==
    ASSUME NEW S, S \subseteq Nat, IsFiniteSet(S)
    PROVE  \E f \in [1 .. Cardinality(S) -> S] : Ascending(f, Cardinality(S))
<1> DEFINE P == {k \in Nat : \A T \in SUBSET S : Cardinality(T) = k => \E f \in [1 .. k -> T] : Ascending(f, k)}
<1>1. 0 \in P
  <2> SUFFICES ASSUME NEW T \in SUBSET S, Cardinality(T) = 0
               PROVE  \E f \in [1 .. 0 -> T] : Ascending(f, 0)
    OBVIOUS
  <2> DEFINE f == [i \in 1 .. 0 |-> 0]
  <2>1. 1 .. 0 = {}  OBVIOUS
  <2>2. f \in [1 .. 0 -> T] /\ Ascending(f, 0)  BY <2>1 DEF Ascending
  <2> QED  BY <2>2
<1>2. ASSUME NEW k \in Nat, k \in P PROVE k + 1 \in P
  <2> SUFFICES ASSUME NEW T \in SUBSET S, Cardinality(T) = k + 1
               PROVE  \E f \in [1 .. k + 1 -> T] : Ascending(f, k + 1)
    OBVIOUS
  <2> DEFINE m == Max(T)  U == T \ {m}
  <2>1. IsFiniteSet(T) /\ T # {} /\ T \in SUBSET Int
    <3>1. IsFiniteSet(T)  BY FS_Subset
    <3>2. T # {}  BY FS_EmptySet
    <3> QED  BY <3>1, <3>2
  <2>2. m \in T /\ \A x \in T : x <= m  BY <2>1, MaxIs
  <2> HIDE DEF m
  <2>3. Cardinality(U) = k /\ U \in SUBSET S
    <3>1. Cardinality(T \ {m}) = Cardinality(T) - 1  BY <2>1, <2>2, FS_RemoveElement
    <3>2. (k + 1) - 1 = k  OBVIOUS
    <3>3. Cardinality(U) = k  BY <3>1, <3>2
    <3> QED  BY <3>3
  <2>4. PICK g \in [1 .. k -> U] : Ascending(g, k)  BY <1>2, <2>3
  <2> DEFINE f == [i \in 1 .. k + 1 |-> IF i = k + 1 THEN m ELSE g[i]]
  <2>5. \A i \in 1 .. k : g[i] \in T /\ g[i] < m
    <3> TAKE i \in 1 .. k
    <3>1. g[i] \in U  BY <2>4
    <3>2. g[i] \in T /\ g[i] # m /\ g[i] <= m /\ g[i] \in Nat /\ m \in Nat  BY <2>2, <3>1
    <3> QED  BY <3>2
  <2>6. \A i \in 1 .. k + 1 : i = k + 1 \/ i \in 1 .. k  OBVIOUS
  <2>7. f \in [1 .. k + 1 -> T]  BY <2>2, <2>5, <2>6
  <2>8. ASSUME NEW i \in 1 .. k + 1, NEW j \in 1 .. k + 1, i < j PROVE f[i] < f[j]
    <3>1. i \in 1 .. k  BY <2>8
    <3>2. f[i] = g[i]  BY <3>1
    <3>3. CASE j = k + 1
      <4>1. f[j] = m  BY <3>3
      <4> QED  BY <2>5, <3>1, <3>2, <4>1
    <3>4. CASE j \in 1 .. k
      <4>1. f[j] = g[j]  BY <3>4
      <4>2. g[i] < g[j]  BY <2>4, <2>8, <3>1, <3>4 DEF Ascending
      <4> QED  BY <3>2, <4>1, <4>2
    <3> QED  BY <2>6, <3>3, <3>4
  <2> HIDE DEF f
  <2> QED  BY <2>7, <2>8 DEF Ascending
<1>3. Nat \subseteq P
  <2> HIDE DEF P
  <2> QED  BY <1>1, <1>2, NatInd
<1>4. Cardinality(S) \in Nat  BY FS_CardinalityType
<1> QED  BY <1>3, <1>4

LEMMA InOrderIs ==
    ASSUME NEW S, S \subseteq Nat, IsFiniteSet(S)
    PROVE  /\ InOrder(S) \in [1 .. Cardinality(S) -> S] /\ Cardinality(S) \in Nat
           /\ \A i, j \in 1 .. Cardinality(S) : InOrder(S)[i] = InOrder(S)[j] => i = j
           /\ \A s \in S : \E i \in 1 .. Cardinality(S) : InOrder(S)[i] = s
<1> DEFINE n == Cardinality(S)  f == InOrder(S)
<1>1. n \in Nat  BY FS_CardinalityType
<1>2. f \in [1 .. n -> S] /\ Ascending(f, n)
  <2>1. \E g \in [1 .. n -> S] : \A i, j \in DOMAIN g : i < j => g[i] < g[j]  BY AscentExists DEF Ascending
  <2>2. f \in [1 .. n -> S] /\ \A i, j \in DOMAIN f : i < j => f[i] < f[j]  BY <2>1 DEF InOrder
  <2> QED  BY <2>2 DEF Ascending
<1> HIDE DEF n, f
<1>3. \A i, j \in 1 .. n : f[i] = f[j] => i = j
  <2> SUFFICES ASSUME NEW i \in 1 .. n, NEW j \in 1 .. n, f[i] = f[j], i # j PROVE FALSE  OBVIOUS
  <2>1. i \in Int /\ j \in Int  BY <1>1
  <2>4. f[i] \in Nat /\ f[j] \in Nat  BY <1>2
  <2>2. i < j \/ j < i  BY <2>1
  <2>3. f[i] < f[j] \/ f[j] < f[i]  BY <1>2, <2>2 DEF Ascending
  <2>5. \A a, b \in Nat : a < b \/ b < a => a # b  OBVIOUS
  <2> QED  BY <2>3, <2>4, <2>5
<1>4. \A s \in S : \E i \in 1 .. n : f[i] = s
  <2>1. f \in Injection(1 .. n, S)  BY <1>2, <1>3 DEF Injection, IsInjective
  <2>2. Cardinality(1 .. n) = Cardinality(S)  BY <1>1, UptoFinite DEF n
  <2>3. f \in Surjection(1 .. n, S)  BY <2>1, <2>2, FS_Injection
  <2> QED  BY <2>3 DEF Surjection
<1> QED  BY <1>1, <1>2, <1>3, <1>4 DEF n, f

LEMMA ColorsFinite == IsFiniteSet(Colors) /\ IsFiniteSet({"<", ">", ">="})
<1>1. IsFiniteSet({"meta"}) /\ IsFiniteSet({"<"})  BY FS_Singleton
<1>2. IsFiniteSet({"meta"} \cup {"red"}) /\ IsFiniteSet({"<"} \cup {">"})  BY <1>1, FS_AddElement
<1>3. IsFiniteSet(({"meta"} \cup {"red"}) \cup {"yellow"}) /\ IsFiniteSet(({"<"} \cup {">"}) \cup {">="})
  BY <1>2, FS_AddElement
<1>4. IsFiniteSet((({"meta"} \cup {"red"}) \cup {"yellow"}) \cup {"blue"})  BY <1>3, FS_AddElement
<1>5. Colors = (({"meta"} \cup {"red"}) \cup {"yellow"}) \cup {"blue"}  BY DEF Colors
<1>6. {"<", ">", ">="} = ({"<"} \cup {">"}) \cup {">="}  OBVIOUS
<1> QED  BY <1>3, <1>4, <1>5, <1>6

LEMMA RulesFinite == \A rules \in SUBSET Requirement : Ruled(rules)
<1> DEFINE A == Colors \X {"<", ">", ">="}  B == (Colors \cup {"none"}) \X (0 .. 200)
           f == [z \in A \X B |-> [color |-> z[1][1], cmp |-> z[1][2], other |-> z[2][1], value |-> z[2][2]]]
<1>1. IsFiniteSet(A)  BY ColorsFinite, FS_Product
<1>2. IsFiniteSet(B)
  <2>1. IsFiniteSet(Colors \cup {"none"}) /\ IsFiniteSet(0 .. 200)
    <3>1. IsFiniteSet(Colors \cup {"none"})  BY ColorsFinite, FS_AddElement
    <3>2. 0 \in Int /\ 200 \in Int  OBVIOUS
    <3>3. IsFiniteSet(0 .. 200)  BY <3>2, FS_Interval
    <3> QED  BY <3>1, <3>3
  <2> QED  BY <2>1, FS_Product
<1>3. IsFiniteSet(A \X B)
  <2> HIDE DEF A, B
  <2> QED  BY <1>1, <1>2, FS_Product
<1>4. f \in Surjection(A \X B, Requirement)
  <2>1. ASSUME NEW z \in A \X B PROVE f[z] \in Requirement
    <3>1. z[1] \in A /\ z[2] \in B  OBVIOUS
    <3>2. z[1][1] \in Colors /\ z[1][2] \in {"<", ">", ">="} /\ z[2][1] \in Colors \cup {"none"} /\ z[2][2] \in 0 .. 200
      BY <3>1
    <3>3. f[z] = [color |-> z[1][1], cmp |-> z[1][2], other |-> z[2][1], value |-> z[2][2]]  OBVIOUS
    <3> HIDE DEF f
    <3> QED  BY <3>2, <3>3 DEF Requirement
  <2>2. ASSUME NEW r \in Requirement PROVE \E z \in A \X B : f[z] = r
    <3> DEFINE z == << << r.color, r.cmp >>, << r.other, r.value >> >>
    <3>1. z \in A \X B  BY DEF Requirement
    <3>2. f[z] = [color |-> r.color, cmp |-> r.cmp, other |-> r.other, value |-> r.value]  BY <3>1
    <3>3. r = [color |-> r.color, cmp |-> r.cmp, other |-> r.other, value |-> r.value]  BY DEF Requirement
    <3> QED  BY <3>1, <3>2, <3>3
  <2>3. f = [z \in A \X B |-> f[z]]  OBVIOUS
  <2> HIDE DEF f, A, B
  <2>4. f \in [A \X B -> Requirement]  BY <2>1, <2>3
  <2> QED  BY <2>2, <2>4 DEF Surjection
<1> HIDE DEF f, A, B
<1>5. IsFiniteSet(Requirement)  BY <1>3, <1>4, FS_Surjection
<1> QED  BY <1>5, FS_Subset DEF Ruled

LEMMA OptionsAre ==
    ASSUME NEW s
    PROVE  /\ IsFiniteSet(Options(s))
           /\ \A o \in Options(s) : /\ IsOption(o)
                                    /\ \E x \in BcGemItems : x.id = o.id /\ x.colors = o.colors
<1> DEFINE pool == {x \in BcGemItems : /\ ~x.epic \/ s \in EpicSocket
                                       /\ x.score > 0 /\ x.colors # {"meta"} /\ x.rules = {}}
           f == [x \in pool |-> Liking(s, x)]
           open == {Liking(s, g) : g \in pool}
<1>1. IsFiniteSet(pool)  BY FS_Subset, GemsAssumption
<1>2. f \in Surjection(pool, open)
  <2> HIDE DEF pool
  <2> QED  BY DEF Surjection
<1>3. IsFiniteSet(open)
  <2> HIDE DEF f, open, pool
  <2> QED  BY <1>1, <1>2, FS_Surjection
<1>4. ASSUME NEW x \in pool
      PROVE  Liking(s, x).id = x.id /\ Liking(s, x).colors = x.colors /\ IsOption(Liking(s, x)) /\ x \in BcGemItems
  <2>1. x \in BcGemItems /\ x.score > 0 /\ x.colors # {"meta"}  OBVIOUS
  <2>2. x \in CatalogGem /\ (x.colors = {"meta"} \/ ("meta" \notin x.colors /\ x.colors # {}))
    BY <2>1, GemsAssumption
  <2> HIDE DEF pool
  <2>3. x.score \in Int /\ x.colors \subseteq Colors  BY <2>2 DEF CatalogGem
  <2>4. (x.score * 6) \div 5 \in Nat /\ (x.score * 6) \div 5 > 0  BY <2>1, <2>3
  <2>5. LET y == [x EXCEPT !.score = (@ * 6) \div 5]
        IN  y.id = x.id /\ y.colors = x.colors /\ y.score = (x.score * 6) \div 5
    BY <2>2 DEF CatalogGem
  <2>6. Liking(s, x).id = x.id /\ Liking(s, x).colors = x.colors /\ Liking(s, x).score \in Nat /\ Liking(s, x).score > 0
    BY <2>1, <2>3, <2>4, <2>5 DEF Liking
  <2> QED  BY <2>1, <2>2, <2>3, <2>6 DEF IsOption
<1> DEFINE Of(k) == CHOOSE g \in open : g.colors = k /\ \A h \in open : h.colors = k => h.score <= g.score
<1>5. ASSUME NEW z \in open PROVE Of(z.colors) \in open
  <2> DEFINE T == {g \in open : g.colors = z.colors}  rank == [g \in T |-> g.score]
  <2>1. \A g \in open : g.score \in Int
    <3> HIDE DEF pool
    <3> QED  BY <1>4 DEF IsOption
  <2> HIDE DEF open, pool
  <2>2. IsFiniteSet(T) /\ T # {}  BY <1>3, FS_Subset
  <2>3. \A g \in T : rank[g] \in Int  BY <2>1
  <2>4. \E g \in T : \A h \in T : rank[h] <= rank[g]
    <3> HIDE DEF T, rank
    <3> QED  BY <2>2, <2>3, HighestExists
  <2>5. \E g \in open : g.colors = z.colors /\ \A h \in open : h.colors = z.colors => h.score <= g.score
    BY <2>4
  <2> QED  BY <2>5
<1>6. Options(s) = {Of(k) : k \in {g.colors : g \in open}}  BY DEF Options
<1> HIDE DEF Of, open, pool
<1>7. Options(s) \subseteq open  BY <1>5, <1>6
<1>8. IsFiniteSet(Options(s))  BY <1>3, <1>7, FS_Subset
<1> QED  BY <1>4, <1>7, <1>8 DEF open

\* What a pass starts from.
Bearers(g, c) == {s \in Sockets : Counted(s, g) /\ c \in g[s].colors}
Bare0 == Targets(FALSE)
Count0 == CountsOf(gems)
LEMMA TaskIs ==
    /\ Bare0 \in SUBSET Sockets /\ IsFiniteSet(Bare0) /\ Cardinality(Bare0) \in Nat
    /\ InOrder(Bare0) \in [1 .. Cardinality(Bare0) -> Bare0]
    /\ \A i, j \in 1 .. Cardinality(Bare0) : InOrder(Bare0)[i] = InOrder(Bare0)[j] => i = j
    /\ \A s \in Bare0 : \E i \in 1 .. Cardinality(Bare0) : InOrder(Bare0)[i] = s
    /\ Offers(ChoicesFor(InOrder(Bare0)), Cardinality(Bare0))
    /\ Count0 \in Tally /\ \A c \in Colors : Count0[c] + Cardinality(Bare0) < Saturation
<1>1. Bare0 \in SUBSET Sockets /\ Bare0 \subseteq Nat  BY GemsAssumption DEF Bare0, Targets
<1>2. IsFiniteSet(Bare0) /\ IsFiniteSet(Sockets)  BY <1>1, FS_Subset, GemsAssumption
<1>3. /\ InOrder(Bare0) \in [1 .. Cardinality(Bare0) -> Bare0] /\ Cardinality(Bare0) \in Nat
      /\ \A i, j \in 1 .. Cardinality(Bare0) : InOrder(Bare0)[i] = InOrder(Bare0)[j] => i = j
      /\ \A s \in Bare0 : \E i \in 1 .. Cardinality(Bare0) : InOrder(Bare0)[i] = s
  BY <1>1, <1>2, InOrderIs
<1>4. Offers(ChoicesFor(InOrder(Bare0)), Cardinality(Bare0))
  <2>1. DOMAIN InOrder(Bare0) = 1 .. Cardinality(Bare0)  BY <1>3
  <2>2. ChoicesFor(InOrder(Bare0)) = [i \in 1 .. Cardinality(Bare0) |-> Options(InOrder(Bare0)[i])]
    BY <2>1 DEF ChoicesFor
  <2> QED  BY <2>2, OptionsAre DEF Offers
<1>5. ASSUME NEW c \in Colors PROVE Count0[c] \in Nat /\ Count0[c] + Cardinality(Bare0) < Saturation
  <2> DEFINE B == Bearers(gems, c)
  <2>1. B \in SUBSET Sockets /\ B \cap Bare0 = {}  BY DEF Bearers, Bare0, Targets, Counted
  <2>2. IsFiniteSet(B)  BY <1>2, <2>1, FS_Subset
  <2>3. Count0[c] = Cardinality(B)  BY DEF Count0, CountsOf, Bearers
  <2> HIDE DEF B
  <2>4. Cardinality(B \cup Bare0) = Cardinality(B) + Cardinality(Bare0) - Cardinality({})
    BY <1>2, <2>1, <2>2, FS_Union
  <2>5. Cardinality(B \cup Bare0) <= Cardinality(Sockets)
    <3>1. B \cup Bare0 \in SUBSET Sockets  BY <1>1, <2>1
    <3> QED  BY <1>2, <3>1, FS_Subset
  <2>6. Cardinality({}) = 0 /\ Cardinality(B) \in Nat /\ Cardinality(Sockets) \in Nat
    BY <1>2, <2>2, FS_EmptySet, FS_CardinalityType
  <2> QED  BY <1>3, <2>3, <2>4, <2>5, <2>6, GemsAssumption DEF Saturation
<1>6. Count0 \in Tally  BY <1>5 DEF Tally, Count0, CountsOf
<1> QED  BY <1>1, <1>2, <1>3, <1>4, <1>5, <1>6

GemsTyped == gems \in [Sockets -> BcGemItems \cup ManualGems \cup {Empty}]

LEMMA RulesOf ==
    ASSUME GemsTyped
    PROVE  /\ Ruled(ExistingRules) /\ Ruled(ActiveRules)
           /\ \A m \in BcGemItems : Ruled(m.rules) /\ Ruled(ExistingRules \cup m.rules)
<1>1. ASSUME NEW s \in Sockets, gems[s] # Empty PROVE gems[s].rules \subseteq Requirement
  <2>1. gems[s] \in BcGemItems \cup ManualGems  BY <1>1 DEF GemsTyped
  <2>2. gems[s] \in CatalogGem  BY <2>1, GemsAssumption
  <2> QED  BY <2>2 DEF CatalogGem
<1>2. ExistingRules \subseteq Requirement  BY <1>1 DEF ExistingRules, Metas, Counted
<1>3. ActiveRules \subseteq Requirement  BY <1>1 DEF ActiveRules, Active, Metas, Counted
<1>4. \A m \in BcGemItems : m.rules \subseteq Requirement  BY GemsAssumption DEF CatalogGem
<1> QED  BY <1>2, <1>3, <1>4, RulesFinite

LEMMA SolvesTask ==
    ASSUME NEW rules, Ruled(rules)
    PROVE  LET choices == ChoicesFor(InOrder(Bare0)) IN
           /\ Finds(Solve(Count0, choices, rules), Count0, choices, rules, Cardinality(Bare0))
           /\ Finds(Solve(AddColor(Count0, {"meta"}), choices, rules), AddColor(Count0, {"meta"}), choices, rules,
                    Cardinality(Bare0))
<1> DEFINE choices == ChoicesFor(InOrder(Bare0))  n == Cardinality(Bare0)  more == AddColor(Count0, {"meta"})
<1>1. /\ n \in Nat /\ Offers(choices, n) /\ Count0 \in Tally
      /\ \A c \in Colors : Count0[c] \in Nat /\ Count0[c] + n < Saturation
  BY TaskIs DEF Tally
<1> HIDE DEF choices, n
<1>2. Finds(Solve(Count0, choices, rules), Count0, choices, rules, n)
  <2>1. \A c \in Colors \ {"meta"} : Count0[c] + n <= Saturation  BY <1>1 DEF Saturation
  <2>2. n > 0 => Count0["meta"] < Saturation
    <3>1. "meta" \in Colors  BY DEF Colors
    <3> QED  BY <1>1, <3>1 DEF Saturation
  <2> QED  BY <1>1, <2>1, <2>2, SolveFinds
<1>3. Finds(Solve(more, choices, rules), more, choices, rules, n)
  <2>1. \A c \in Colors : more[c] = IF c = "meta" /\ Count0[c] < Saturation THEN Count0[c] + 1 ELSE Count0[c]
    BY DEF AddColor
  <2>2. more = [c \in Colors |-> more[c]]  BY DEF AddColor
  <2> HIDE DEF more
  <2>3. more \in Tally  BY <1>1, <2>1, <2>2 DEF Tally
  <2>4. \A c \in Colors \ {"meta"} : more[c] + n <= Saturation  BY <1>1, <2>1 DEF Saturation
  <2>5. n > 0 => more["meta"] < Saturation
    <3>1. "meta" \in Colors  BY DEF Colors
    <3> QED  BY <1>1, <2>1, <3>1 DEF Saturation
  <2> QED  BY <1>1, <2>3, <2>4, <2>5, SolveFinds
<1> QED  BY <1>2, <1>3 DEF choices, n

\* The pick the whole search is measured against, in the words of SolveIsBest.
LEMMA PicksAre ==
    ASSUME NEW choices, NEW n \in Nat, Offers(choices, n), NEW fixed
    PROVE  /\ \A p : /\ p \in [1 .. n -> UNION {choices[i] : i \in 1 .. n}]
                     /\ \A i \in 1 .. n : p[i] \in choices[i]
                     <=> PickOf(p, choices, n)
           /\ \A p : Worth(p, n) = SumFunction([i \in 1 .. n |-> p[i].score])
<1>1. ASSUME NEW p
      PROVE  (p \in [1 .. n -> UNION {choices[i] : i \in 1 .. n}] /\ \A i \in 1 .. n : p[i] \in choices[i])
             <=> PickOf(p, choices, n)
  BY DEF PickOf
<1>2. ASSUME NEW p PROVE Worth(p, n) = SumFunction([i \in 1 .. n |-> p[i].score])
  <2> DEFINE h == [i \in 1 .. n |-> p[i].score]
  <2>1. DOMAIN h = 1 .. n  OBVIOUS
  <2> HIDE DEF h
  <2>2. SumOver(h, 1 .. n) = SumFunction(h)
    BY <2>1 DEF SumFunction, SumFunctionOnSet, FoldFunctionOnSet, SumOver, MapThenSumSet
  <2> QED  BY <2>2 DEF Worth, h
<1> QED  BY <1>1, <1>2

LEMMA TypedSolvesBest == ASSUME GemsTyped PROVE SolveIsBest
<1> DEFINE normal == InOrder(Bare0)  n == Cardinality(Bare0)  choices == ChoicesFor(normal)  fixed == Count0
           U == UNION {choices[i] : i \in DOMAIN normal}
           Totals(p) == [c \in Colors |-> fixed[c] + Cardinality({i \in DOMAIN normal : c \in p[i].colors})]
           Score(p) == SumFunction([i \in DOMAIN normal |-> p[i].score])
           Picks(rules) == {p \in [DOMAIN normal -> U] : (\A i \in DOMAIN normal : p[i] \in choices[i]) /\ Fits(Totals(p), rules)}
<1>1. n \in Nat /\ DOMAIN normal = 1 .. n /\ Offers(choices, n)  BY TaskIs
<1>2. \A p : Totals(p) = Tot(fixed, p, n)  BY <1>1 DEF Tot, With
<1> HIDE DEF n, fixed
<1>3. /\ \A p : /\ p \in [DOMAIN normal -> U]
                /\ \A i \in DOMAIN normal : p[i] \in choices[i]
                <=> PickOf(p, choices, n)
      /\ \A p : Worth(p, n) = Score(p)
  <2> HIDE DEF normal, choices
  <2> QED  BY <1>1, PicksAre
<1> HIDE DEF Totals, U, Score, choices, normal
<1>4. \A rules, p : p \in Picks(rules) <=> PickOf(p, choices, n) /\ Fits(Tot(fixed, p, n), rules)
  BY <1>2, <1>3
<1> HIDE DEF Picks
<1>5. ASSUME NEW rules, Ruled(rules)
      PROVE  LET plan == Solve(fixed, choices, rules) IN
             IF Picks(rules) = {} THEN plan = NoPlan
             ELSE plan.score = Max({Score(p) : p \in Picks(rules)})
  <2> DEFINE plan == Solve(fixed, choices, rules)  S == {Score(p) : p \in Picks(rules)}
  <2>1. Finds(plan, fixed, choices, rules, n)  BY <1>5, SolvesTask DEF n, fixed, choices, normal
  <2> HIDE DEF plan
  <2>2. CASE Picks(rules) = {}
    <3>1. plan = NoPlan  BY <1>4, <2>1, <2>2 DEF Finds
    <3> QED  BY <2>2, <3>1 DEF plan
  <2>3. CASE Picks(rules) # {}
    <3>1. /\ plan.gems \in Picks(rules) /\ plan.score = Score(plan.gems)
          /\ \A p \in Picks(rules) : Score(p) <= plan.score
      BY <1>3, <1>4, <2>1, <2>3 DEF Finds
    <3>2. \A p \in Picks(rules) : Score(p) \in Nat
      <4>1. \A p \in Picks(rules) : Worth(p, n) \in Nat  BY <1>1, <1>4, WorthTyped
      <4> QED  BY <1>3, <4>1
    <3>3. plan.score \in S /\ plan.score \in Nat /\ \A x \in S : x \in Nat /\ x <= plan.score  BY <3>1, <3>2
    <3> HIDE DEF S
    <3>4. plan.score \in S /\ \A y \in S : plan.score >= y  BY <3>3
    <3>5. \A x \in S : (\A y \in S : x >= y) => x = plan.score  BY <3>3
    <3>6. Max(S) = plan.score  BY <3>4, <3>5 DEF Max
    <3> QED  BY <2>3, <3>6 DEF S, plan
  <2> QED  BY <2>2, <2>3
<1>6. \A rules \in {ExistingRules, ActiveRules} \cup {m.rules : m \in {g \in BcGemItems : g.rules # {}}} : Ruled(rules)
  BY RulesOf
<1>7. \A rules \in {ExistingRules, ActiveRules} \cup {m.rules : m \in {g \in BcGemItems : g.rules # {}}} :
        IF Picks(rules) = {} THEN Solve(fixed, choices, rules) = NoPlan
        ELSE Solve(fixed, choices, rules).score = Max({Score(p) : p \in Picks(rules)})
  BY <1>5, <1>6
<1> QED
  BY <1>7 DEF SolveIsBest, Picks, Score, Totals, U, choices, normal, fixed, Bare0, Count0

\* What a pass puts in comes from the catalogue.
LEMMA GemOf ==
    ASSUME NEW g \in BcGemItems
    PROVE  (CHOOSE h \in BcGemItems : h.id = g.id) = g
BY GemsAssumption

LEMMA Applied ==
    ASSUME NEW plan, PickOf(plan.gems, ChoicesFor(InOrder(Bare0)), Cardinality(Bare0))
    PROVE  LET new == Apply(InOrder(Bare0), plan) IN
           /\ new = [s \in Sockets |-> new[s]]
           /\ \A s \in Sockets \ Bare0 : new[s] = gems[s]
           /\ \A i \in 1 .. Cardinality(Bare0) : new[InOrder(Bare0)[i]] \in BcGemItems
                                                /\ new[InOrder(Bare0)[i]].colors = plan.gems[i].colors
<1> DEFINE normal == InOrder(Bare0)  n == Cardinality(Bare0)  p == plan.gems
           At(s) == CHOOSE i \in DOMAIN normal : normal[i] = s
           Of(g) == CHOOSE h \in BcGemItems : h.id = g.id
           new == Apply(normal, plan)
<1>1. /\ DOMAIN normal = 1 .. n /\ normal \in [1 .. n -> Bare0] /\ Bare0 \in SUBSET Sockets
      /\ \A i, j \in 1 .. n : normal[i] = normal[j] => i = j
      /\ \A s \in Bare0 : \E i \in 1 .. n : normal[i] = s
  BY TaskIs
<1>2. new = [s \in Sockets |-> IF \E i \in DOMAIN normal : normal[i] = s THEN Of(p[At(s)]) ELSE gems[s]]
  BY DEF Apply
<1>3. ASSUME NEW i \in 1 .. n PROVE Of(p[i]) \in BcGemItems /\ Of(p[i]).colors = p[i].colors
  <2>1. p[i] \in ChoicesFor(normal)[i]  BY DEF PickOf
  <2>2. ChoicesFor(normal)[i] = Options(normal[i])  BY <1>1 DEF ChoicesFor
  <2> HIDE DEF normal, p
  <2>3. PICK x \in BcGemItems : x.id = p[i].id /\ x.colors = p[i].colors  BY <2>1, <2>2, OptionsAre
  <2>4. Of(p[i]) = x  BY <2>3, GemsAssumption
  <2> HIDE DEF Of
  <2> QED  BY <2>3, <2>4
<1> HIDE DEF Of, p, normal, n, new
<1>4. \A i \in 1 .. n : At(normal[i]) = i  BY <1>1
<1> HIDE DEF At
<1>5. \A s \in Sockets \ Bare0 : new[s] = gems[s]  BY <1>1, <1>2
<1>6. \A i \in 1 .. n : normal[i] \in Sockets /\ new[normal[i]] = Of(p[i])
  <2> TAKE i \in 1 .. n
  <2>1. normal[i] \in Sockets /\ \E j \in DOMAIN normal : normal[j] = normal[i]  BY <1>1
  <2>2. new[normal[i]] = Of(p[At(normal[i])])  BY <1>2, <2>1
  <2> QED  BY <1>4, <2>1, <2>2
<1>7. new = [s \in Sockets |-> new[s]]  BY <1>2
<1> QED  BY <1>3, <1>5, <1>6, <1>7 DEF normal, n, p, new

LEMMA FirstOf ==
    ASSUME NEW S, S \subseteq Nat, IsFiniteSet(S), InOrder(S) # << >>
    PROVE  InOrder(S)[1] \in S
<1> DEFINE f == InOrder(S)  n == Cardinality(S)
<1>1. f \in [1 .. n -> S] /\ n \in Nat  BY InOrderIs
<1>2. f # << >>  OBVIOUS
<1> HIDE DEF f, n
<1>3. n # 0
  <2> SUFFICES ASSUME n = 0 PROVE FALSE  OBVIOUS
  <2>1. f \in [1 .. 0 -> S]  BY <1>1
  <2>2. f \in Seq(S) /\ Len(f) \in Nat /\ 1 .. Len(f) = 1 .. 0
    <3>1. f \in Seq(S)  BY <2>1, SeqDef
    <3>2. DOMAIN f = 1 .. Len(f) /\ Len(f) \in Nat  BY <3>1, LenProperties
    <3>3. DOMAIN f = 1 .. 0  BY <2>1
    <3> QED  BY <3>1, <3>2, <3>3
  <2>3. Len(f) = 0
    <3>1. 1 .. 0 = {}  OBVIOUS
    <3>2. \A k \in Nat : k # 0 => 1 \in 1 .. k  OBVIOUS
    <3> QED  BY <2>2, <3>1, <3>2
  <2> QED  BY <1>2, <2>2, <2>3, EmptySeq
<1>4. 1 \in 1 .. n  BY <1>1, <1>3
<1> QED  BY <1>1, <1>4 DEF f

\* What a pass does: nothing, or the best plan, or with a meta gem the best plan
\* for its rules too.
Planned(plan, fixed, rules) ==
  plan # NoPlan /\ Finds(plan, fixed, ChoicesFor(InOrder(Bare0)), rules, Cardinality(Bare0))
LEMMA PassIs ==
    ASSUME GemsTyped, FillSockets
    PROVE  \/ gems' = gems
           \/ \E plan : /\ \E rules \in {ExistingRules, ActiveRules} : Planned(plan, Count0, rules)
                        /\ gems' = Apply(InOrder(Bare0), plan)
           \/ \E m \in BcGemItems, t \in Targets(TRUE) : \E plan :
                /\ m.colors = {"meta"}
                /\ Planned(plan, AddColor(Count0, {"meta"}), ExistingRules \cup m.rules)
                /\ gems' = [Apply(InOrder(Bare0), plan) EXCEPT ![t] = m]
<1> DEFINE normal == InOrder(Bare0)  metas == InOrder(Targets(TRUE))  fixed == Count0  choices == ChoicesFor(normal)
           joint == IF metas = << >> THEN {} ELSE MetaPlans(fixed, choices)
           alone == PlanAround(fixed, choices)
<1>1. \/ gems' = gems
      \/ \E j \in joint : gems' = [Apply(normal, j.plan) EXCEPT ![metas[1]] = j.meta]
      \/ alone # NoPlan /\ gems' = Apply(normal, alone)
  BY DEF FillSockets, Bare0, Count0
<1>2. \A rules : Ruled(rules) =>
        /\ Finds(Solve(fixed, choices, rules), fixed, choices, rules, Cardinality(Bare0))
        /\ Finds(Solve(AddColor(fixed, {"meta"}), choices, rules), AddColor(fixed, {"meta"}), choices, rules,
                 Cardinality(Bare0))
  BY SolvesTask
<1>3. Ruled(ExistingRules) /\ Ruled(ActiveRules) /\ \A m \in BcGemItems : Ruled(ExistingRules \cup m.rules)
  BY RulesOf
<1>4. ASSUME NEW j \in joint
      PROVE  /\ j.meta \in BcGemItems /\ j.meta.colors = {"meta"} /\ metas[1] \in Targets(TRUE)
             /\ Planned(j.plan, AddColor(fixed, {"meta"}), ExistingRules \cup j.meta.rules)
  <2>1. metas # << >> /\ j \in MetaPlans(fixed, choices)  OBVIOUS
  <2>2. PICK m \in BcGemItems : /\ m.colors = {"meta"}
                                /\ j = [meta |-> m, plan |-> Solve(AddColor(fixed, {"meta"}), choices, ExistingRules \cup m.rules)]
                                /\ j.plan # NoPlan
    <3> HIDE DEF fixed, choices
    <3> QED  BY <2>1 DEF MetaPlans
  <2>3. j.meta = m /\ j.plan = Solve(AddColor(fixed, {"meta"}), choices, ExistingRules \cup m.rules)
    BY <2>2
  <2>4. Planned(j.plan, AddColor(fixed, {"meta"}), ExistingRules \cup m.rules)
    BY <1>2, <1>3, <2>2, <2>3 DEF Planned
  <2>5. metas[1] \in Targets(TRUE)
    <3>1. Targets(TRUE) \subseteq Nat /\ IsFiniteSet(Targets(TRUE))
      <4>1. Targets(TRUE) \in SUBSET Sockets  BY DEF Targets
      <4>2. IsFiniteSet(Targets(TRUE))  BY <4>1, FS_Subset, GemsAssumption
      <4> QED  BY <4>1, <4>2, GemsAssumption
    <3>2. InOrder(Targets(TRUE)) # << >>  BY <2>1
    <3> QED  BY <3>1, <3>2, FirstOf
  <2> QED  BY <2>2, <2>3, <2>4, <2>5
<1>5. alone # NoPlan => \E rules \in {ExistingRules, ActiveRules} : Planned(alone, fixed, rules)
  <2>1. alone = Solve(fixed, choices, ExistingRules) \/ alone = Solve(fixed, choices, ActiveRules)
    BY DEF PlanAround
  <2> QED  BY <1>2, <1>3, <2>1 DEF Planned
<1> HIDE DEF joint, alone, metas, choices, fixed
<1>6. CASE \E j \in joint : gems' = [Apply(normal, j.plan) EXCEPT ![metas[1]] = j.meta]
  BY <1>4, <1>6 DEF fixed
<1>7. CASE alone # NoPlan /\ gems' = Apply(normal, alone)  BY <1>5, <1>7 DEF fixed
<1> QED  BY <1>1, <1>6, <1>7

\* The counts after a pass are those the planner reckoned with.
Becomes(new, p, T) ==
  /\ PickOf(p, ChoicesFor(InOrder(Bare0)), Cardinality(Bare0))
  /\ T \in SUBSET Targets(TRUE) /\ IsFiniteSet(T)
  /\ \A s \in Sockets \ (Bare0 \cup T) : new[s] = gems[s]
  /\ \A i \in 1 .. Cardinality(Bare0) : /\ new[InOrder(Bare0)[i]] \in BcGemItems
                                        /\ new[InOrder(Bare0)[i]].colors = p[i].colors
  /\ \A s \in T : new[s] \in BcGemItems /\ new[s].colors = {"meta"}
LEMMA CountsAfter ==
    ASSUME GemsTyped, NEW new, NEW p, NEW T, Becomes(new, p, T)
    PROVE  \A c \in Colors : CountsOf(new)[c] = Tot(Count0, p, Cardinality(Bare0))[c]
                                                + IF c = "meta" THEN Cardinality(T) ELSE 0
<1> DEFINE normal == InOrder(Bare0)  n == Cardinality(Bare0)
<1> SUFFICES ASSUME NEW c \in Colors
             PROVE  CountsOf(new)[c] = Tot(Count0, p, n)[c] + IF c = "meta" THEN Cardinality(T) ELSE 0
  OBVIOUS
<1>0. /\ T \in SUBSET Targets(TRUE) /\ IsFiniteSet(T)
      /\ \A s \in Sockets \ (Bare0 \cup T) : new[s] = gems[s]
      /\ \A i \in 1 .. n : new[normal[i]] \in BcGemItems /\ new[normal[i]].colors = p[i].colors
      /\ \A s \in T : new[s] \in BcGemItems /\ new[s].colors = {"meta"}
  BY DEF Becomes
<1>1. /\ normal \in [1 .. n -> Bare0] /\ Bare0 \in SUBSET Sockets /\ IsFiniteSet(Bare0) /\ n \in Nat
      /\ \A i, j \in 1 .. n : normal[i] = normal[j] => i = j
      /\ \A s \in Bare0 : \E i \in 1 .. n : normal[i] = s
      /\ Count0 \in Tally
  BY TaskIs
<1> DEFINE W == With(p, n, c)
           B == Bearers(gems, c)
           F == {s \in Bare0 : c \in new[s].colors}
           M == {s \in T : c \in new[s].colors}
<1>2. \A s \in Sockets : new[s] \in BcGemItems => new[s] # Empty  BY GemsAssumption DEF Empty
<1>3. ASSUME NEW s \in Bare0 PROVE gems[s] = Empty /\ state[ItemOf[s]] # "broken" /\ new[s] \in BcGemItems
  <2>1. gems[s] = Empty /\ state[ItemOf[s]] = "whole"  BY DEF Bare0, Targets
  <2> QED  BY <1>0, <1>1, <2>1
<1>4. ASSUME NEW s \in T PROVE gems[s] = Empty /\ state[ItemOf[s]] # "broken" /\ s \in Sockets /\ s \notin Bare0
  BY <1>0 DEF Bare0, Targets
<1> HIDE DEF normal, n
<1>5. Bearers(new, c) = (B \cup F) \cup M
  <2>1. ASSUME NEW s \in Sockets PROVE s \in Bearers(new, c) <=> s \in (B \cup F) \cup M
    <3>1. CASE s \in Bare0  BY <1>0, <1>2, <1>3, <1>4, <3>1 DEF Bearers, Counted
    <3>2. CASE s \in T  BY <1>0, <1>2, <1>4, <3>2 DEF Bearers, Counted
    <3>3. CASE s \notin Bare0 \cup T
      <4>1. new[s] = gems[s]  BY <1>0, <3>3
      <4> QED  BY <3>3, <4>1 DEF Bearers, Counted
    <3> QED  BY <3>1, <3>2, <3>3
  <2>2. Bearers(new, c) \in SUBSET Sockets /\ (B \cup F) \cup M \in SUBSET Sockets
    BY <1>1, <1>4 DEF Bearers
  <2> QED  BY <2>1, <2>2
<1>6. B \cap F = {} /\ (B \cup F) \cap M = {}
  BY <1>3, <1>4 DEF Bearers, Counted
<1>7. Cardinality(F) = Cardinality(W) /\ IsFiniteSet(W) /\ IsFiniteSet(F)
  <2> DEFINE f == [i \in W |-> normal[i]]
  <2>1. W \in SUBSET (1 .. n)  BY DEF With
  <2>2. IsFiniteSet(W)  BY <1>1, <2>1, UptoFinite, FS_Subset
  <2>3. IsFiniteSet(F)  BY <1>1, FS_Subset
  <2>4. \A i \in 1 .. n : c \in new[normal[i]].colors <=> i \in W  BY <1>0 DEF With
  <2>5. \A i \in W : f[i] = normal[i] /\ i \in 1 .. n  BY <2>1
  <2>6. f \in [W -> F]
    <3>1. \A i \in W : normal[i] \in F  BY <1>1, <2>1, <2>4
    <3> HIDE DEF W, F
    <3> QED  BY <3>1
  <2>7. \A i, j \in W : f[i] = f[j] => i = j  BY <1>1, <2>5
  <2>8. \A s \in F : \E i \in W : f[i] = s
    <3> TAKE s \in F
    <3>1. PICK i \in 1 .. n : normal[i] = s  BY <1>1
    <3>2. i \in W  BY <2>4, <3>1
    <3> QED  BY <2>5, <3>1, <3>2
  <2>9. f \in Bijection(W, F)
    <3> HIDE DEF f, W, F
    <3> QED  BY <2>6, <2>7, <2>8 DEF Bijection, Injection, Surjection, IsInjective
  <2> HIDE DEF f, W, F
  <2>10. Cardinality(F) = Cardinality(W)  BY <2>2, <2>9, FS_Bijection DEF ExistsBijection
  <2> QED  BY <2>2, <2>3, <2>10
<1>8. IsFiniteSet(B) /\ Count0[c] = Cardinality(B)
  <2>1. B \in SUBSET Sockets  BY DEF Bearers
  <2>2. IsFiniteSet(B)  BY <2>1, FS_Subset, GemsAssumption
  <2> QED  BY <2>2 DEF Count0, CountsOf, Bearers
<1>9. IsFiniteSet(M) /\ Cardinality(M) = IF c = "meta" THEN Cardinality(T) ELSE 0
  <2>1. c = "meta" => M = T  BY <1>0
  <2>2. c # "meta" => M = {}  BY <1>0
  <2>3. Cardinality({}) = 0 /\ IsFiniteSet({})  BY FS_EmptySet
  <2> HIDE DEF M
  <2> QED  BY <1>0, <2>1, <2>2, <2>3
<1>10. CountsOf(new)[c] = Cardinality(Bearers(new, c))  BY DEF CountsOf, Bearers
<1>11. Tot(Count0, p, n)[c] = Count0[c] + Cardinality(W)  BY DEF Tot
<1> HIDE DEF B, F, M, W
<1>12. Cardinality(B \cup F) = Cardinality(B) + Cardinality(F) /\ IsFiniteSet(B \cup F)
  <2>1. Cardinality(B \cup F) = Cardinality(B) + Cardinality(F) - Cardinality({}) /\ IsFiniteSet(B \cup F)
    BY <1>6, <1>7, <1>8, FS_Union
  <2> QED  BY <1>7, <1>8, <2>1, FS_EmptySet, FS_CardinalityType
<1>13. Cardinality((B \cup F) \cup M) = Cardinality(B \cup F) + Cardinality(M)
  <2>1. Cardinality((B \cup F) \cup M) = Cardinality(B \cup F) + Cardinality(M) - Cardinality({})
    BY <1>6, <1>9, <1>12, FS_Union
  <2> QED  BY <1>9, <1>12, <2>1, FS_EmptySet, FS_CardinalityType
<1> QED  BY <1>5, <1>7, <1>8, <1>9, <1>10, <1>11, <1>12, <1>13 DEF n

LEMMA PassTyped == ASSUME GemsTyped, FillSockets PROVE GemsTyped'
<1> DEFINE normal == InOrder(Bare0)  n == Cardinality(Bare0)
           Typed(g) == g \in [Sockets -> BcGemItems \cup ManualGems \cup {Empty}]
<1>1. /\ normal \in [1 .. n -> Bare0] /\ \A s \in Bare0 : \E i \in 1 .. n : normal[i] = s
  BY TaskIs
<1>2. ASSUME NEW plan, NEW fixed, NEW rules, Planned(plan, fixed, rules) PROVE Typed(Apply(normal, plan))
  <2> DEFINE new == Apply(normal, plan)
  <2>1. PickOf(plan.gems, ChoicesFor(normal), n)  BY <1>2 DEF Planned, Finds
  <2>2. /\ new = [s \in Sockets |-> new[s]]
        /\ \A s \in Sockets \ Bare0 : new[s] = gems[s]
        /\ \A i \in 1 .. n : new[normal[i]] \in BcGemItems
    BY <2>1, Applied
  <2> HIDE DEF new, normal, n
  <2>3. \A s \in Sockets : new[s] \in BcGemItems \cup ManualGems \cup {Empty}
    <3> TAKE s \in Sockets
    <3>1. CASE s \in Bare0  BY <1>1, <2>2, <3>1
    <3>2. CASE s \notin Bare0  BY <2>2, <3>2 DEF GemsTyped
    <3> QED  BY <3>1, <3>2
  <2> QED  BY <2>2, <2>3 DEF new
<1> HIDE DEF normal, n
<1>3. Typed(gems')
  <2>1. CASE gems' = gems  BY <2>1 DEF GemsTyped
  <2>2. ASSUME NEW plan, NEW rules, Planned(plan, Count0, rules), gems' = Apply(normal, plan)
        PROVE  Typed(gems')
    BY <1>2, <2>2
  <2>3. ASSUME NEW m \in BcGemItems, NEW t \in Targets(TRUE), NEW plan,
               Planned(plan, AddColor(Count0, {"meta"}), ExistingRules \cup m.rules),
               gems' = [Apply(normal, plan) EXCEPT ![t] = m]
        PROVE  Typed(gems')
    <3>1. Typed(Apply(normal, plan))  BY <1>2, <2>3
    <3> QED  BY <2>3, <3>1
  <2> HIDE DEF Typed
  <2> QED  BY <2>1, <2>2, <2>3, PassIs DEF normal
<1> QED  BY <1>3 DEF GemsTyped

LEMMA GemsStayTyped == GemSpec => []GemsTyped
<1>1. GemInit => GemsTyped  BY DEF GemInit, GemsTyped
<1>2. GemsTyped /\ [GemNext]_gemVars => GemsTyped'
  <2> SUFFICES ASSUME GemsTyped, [GemNext]_gemVars PROVE GemsTyped'  OBVIOUS
  <2>1. CASE UNCHANGED gemVars  BY <2>1 DEF GemsTyped, gemVars
  <2>2. CASE RefreshSettings \/ Busy \/ PinsChange  BY <2>2 DEF GemsTyped, RefreshSettings, Busy, PinsChange
  <2>3. CASE OnPlayerAfterUpdate
    <3>1. UNCHANGED gems \/ FillSockets  BY <2>3 DEF OnPlayerAfterUpdate
    <3> QED  BY <3>1, PassTyped DEF GemsTyped
  <2>4. ASSUME NEW i \in Worn, NEW with \in [Sockets -> BcGemItems \cup ManualGems \cup {Empty}], PutOn(i, with)
        PROVE  GemsTyped'
    BY <2>4 DEF GemsTyped, PutOn
  <2>5. ASSUME NEW s \in Sockets, NEW g \in BcGemItems \cup ManualGems, SocketByHand(s, g)
        PROVE  GemsTyped'
    BY <2>5 DEF GemsTyped, SocketByHand
  <2>6. ASSUME NEW i \in Worn, NEW st \in {"whole", "held", "broken"}, ItemChanges(i, st)
        PROVE  GemsTyped'
    BY <2>6 DEF GemsTyped, ItemChanges
  <2> QED  BY <2>1, <2>2, <2>3, <2>4, <2>5, <2>6 DEF GemNext
<1> QED  BY <1>1, <1>2, PTL DEF GemSpec

(* In every state whatever was put on, broken or socketed led to, the planner   *)
(* finds a plan when there is one, and none of a better score exists, for every *)
(* catalogue and any rules of the metas: merging the plans of equal clamped     *)
(* counts loses none of the best (CompanionGemPlanner.h).                       *)
THEOREM GemsAreBest == GemSpec => []SolveIsBest
<1>1. GemsTyped => SolveIsBest  BY TypedSolvesBest
<1> QED  BY <1>1, GemsStayTyped, PTL

\* What a pass keeps: filled sockets, and metas whose rules are those it planned for.
MetasKept(new) ==
  \A s \in Sockets :
    /\ gems[s] # Empty => new[s] = gems[s]
    /\ Active(s, gems) \/ (gems[s] = Empty /\ new[s] # Empty /\ ColorsOf[s] = {"meta"}) => Active(s, new)

LEMMA FitsMore ==
    ASSUME NEW x, NEW y, NEW rules, Ruled(rules), \A c \in Colors : x[c] = y[c], Fits(y, rules), NEW r \in SUBSET rules
    PROVE  Fits(x, r)
BY DEF Fits, Holds, Ruled, Requirement

LEMMA AlonePlanKeeps ==
    ASSUME GemsTyped, NEW plan, NEW rules \in {ExistingRules, ActiveRules}, Planned(plan, Count0, rules)
    PROVE  MetasKept(Apply(InOrder(Bare0), plan))
<1> DEFINE normal == InOrder(Bare0)  n == Cardinality(Bare0)  p == plan.gems  new == Apply(normal, plan)
<1>1. /\ normal \in [1 .. n -> Bare0] /\ Bare0 \in SUBSET Sockets /\ n \in Nat /\ Count0 \in Tally
      /\ \A s \in Bare0 : \E i \in 1 .. n : normal[i] = s
  BY TaskIs
<1>2. PickOf(p, ChoicesFor(normal), n) /\ Fits(Tot(Count0, p, n), rules)  BY DEF Planned, Finds
<1>3. /\ \A s \in Sockets \ Bare0 : new[s] = gems[s]
      /\ \A i \in 1 .. n : new[normal[i]] \in BcGemItems /\ new[normal[i]].colors = p[i].colors
  BY <1>2, Applied
<1>4. \A c \in Colors : CountsOf(new)[c] = Tot(Count0, p, n)[c]
  <2>1. {} \in SUBSET Targets(TRUE) /\ IsFiniteSet({}) /\ Cardinality({}) = 0  BY FS_EmptySet
  <2>2. Becomes(new, p, {})  BY <1>2, <1>3, <2>1 DEF Becomes
  <2> HIDE DEF new, p
  <2>3. \A c \in Colors : CountsOf(new)[c] = Tot(Count0, p, n)[c] + IF c = "meta" THEN Cardinality({}) ELSE 0
    BY <2>2, CountsAfter DEF n
  <2>4. \A c \in Colors : Tot(Count0, p, n)[c] \in Nat  BY <1>1, TotTyped DEF Tally
  <2> QED  BY <2>1, <2>3, <2>4
<1>5. Ruled(rules)  BY RulesOf
<1>6. \A s \in Bare0 : gems[s] = Empty /\ ColorsOf[s] # {"meta"}  BY DEF Bare0, Targets
<1> HIDE DEF new, normal, n, p
<1>7. \A r \in SUBSET rules : Fits(CountsOf(new), r)  BY <1>2, <1>4, <1>5, FitsMore
<1>8. ASSUME NEW s \in Sockets, gems[s] # Empty PROVE new[s] = gems[s]  BY <1>3, <1>6, <1>8
<1>9. ASSUME NEW s \in Sockets, Active(s, gems) PROVE Active(s, new)
  <2>1. gems[s] # Empty /\ s \in Metas(gems)  BY <1>9 DEF Active, Metas, Counted
  <2>2. new[s] = gems[s]  BY <1>8, <2>1
  <2>3. s \in Metas(new)  BY <2>1, <2>2 DEF Metas, Counted
  <2>4. gems[s].rules \in SUBSET ExistingRules /\ gems[s].rules \in SUBSET ActiveRules
    BY <1>9, <2>1 DEF ExistingRules, ActiveRules
  <2>5. Fits(CountsOf(new), gems[s].rules)  BY <1>7, <2>4
  <2> QED  BY <2>2, <2>3, <2>5 DEF Active
<1>10. ASSUME NEW s \in Sockets, gems[s] = Empty, new[s] # Empty, ColorsOf[s] = {"meta"} PROVE FALSE
  BY <1>3, <1>6, <1>10
<1>11. MetasKept(new)  BY <1>8, <1>9, <1>10 DEF MetasKept
<1> QED  BY <1>11 DEF new, normal

LEMMA JointPlanKeeps ==
    ASSUME GemsTyped, NEW m \in BcGemItems, m.colors = {"meta"}, NEW t \in Targets(TRUE), NEW plan,
           Planned(plan, AddColor(Count0, {"meta"}), ExistingRules \cup m.rules)
    PROVE  MetasKept([Apply(InOrder(Bare0), plan) EXCEPT ![t] = m])
<1> DEFINE normal == InOrder(Bare0)  n == Cardinality(Bare0)  p == plan.gems  old == Apply(normal, plan)
           new == [old EXCEPT ![t] = m]  more == AddColor(Count0, {"meta"})  rules == ExistingRules \cup m.rules
<1>1. /\ normal \in [1 .. n -> Bare0] /\ Bare0 \in SUBSET Sockets /\ n \in Nat /\ Count0 \in Tally
      /\ \A s \in Bare0 : \E i \in 1 .. n : normal[i] = s
      /\ \A c \in Colors : Count0[c] + n < Saturation
  BY TaskIs
<1>2. PickOf(p, ChoicesFor(normal), n) /\ Fits(Tot(more, p, n), rules)  BY DEF Planned, Finds
<1>3. /\ old = [s \in Sockets |-> old[s]]
      /\ \A s \in Sockets \ Bare0 : old[s] = gems[s]
      /\ \A i \in 1 .. n : old[normal[i]] \in BcGemItems /\ old[normal[i]].colors = p[i].colors
  BY <1>2, Applied
<1>4. \A s \in Bare0 : gems[s] = Empty /\ ColorsOf[s] # {"meta"}  BY DEF Bare0, Targets
<1>5. t \in Sockets /\ gems[t] = Empty /\ ColorsOf[t] = {"meta"} /\ state[ItemOf[t]] # "broken"  BY DEF Targets
<1> HIDE DEF old
<1>6. new[t] = m /\ \A s \in Sockets : s # t => new[s] = old[s]  BY <1>3, <1>5
<1> HIDE DEF new, normal, n, p
<1>7. /\ \A s \in Sockets \ (Bare0 \cup {t}) : new[s] = gems[s]
      /\ \A i \in 1 .. n : new[normal[i]] \in BcGemItems /\ new[normal[i]].colors = p[i].colors
  <2>1. \A i \in 1 .. n : normal[i] \in Sockets /\ normal[i] # t  BY <1>1, <1>4, <1>5
  <2> QED  BY <1>3, <1>6, <2>1
<1>8. \A c \in Colors : CountsOf(new)[c] = Tot(more, p, n)[c]
  <2>1. {t} \in SUBSET Targets(TRUE) /\ IsFiniteSet({t}) /\ Cardinality({t}) = 1  BY FS_Singleton
  <2>2. \A s \in {t} : new[s] \in BcGemItems /\ new[s].colors = {"meta"}  BY <1>6
  <2>3. Becomes(new, p, {t})  BY <1>2, <1>7, <2>1, <2>2 DEF Becomes, normal, n
  <2>4. \A c \in Colors : CountsOf(new)[c] = Tot(Count0, p, n)[c] + IF c = "meta" THEN Cardinality({t}) ELSE 0
    BY <2>3, CountsAfter DEF n
  <2>5. \A c \in Colors : more[c] = IF c = "meta" THEN Count0[c] + 1 ELSE Count0[c]
    BY <1>1 DEF AddColor, Tally, Saturation
  <2> HIDE DEF more
  <2>6. ASSUME NEW c \in Colors PROVE CountsOf(new)[c] = Tot(more, p, n)[c]
    <3>1. /\ Tot(more, p, n)[c] = more[c] + Cardinality(With(p, n, c))
          /\ Tot(Count0, p, n)[c] = Count0[c] + Cardinality(With(p, n, c))
      BY DEF Tot
    <3>2. Count0[c] \in Nat  BY <1>1 DEF Tally
    <3>3. Cardinality(With(p, n, c)) \in Nat
      <4>1. With(p, n, c) \in SUBSET (1 .. n)  BY DEF With
      <4> QED  BY <1>1, <4>1, UptoFinite, FS_Subset, FS_CardinalityType
    <3>4. CASE c = "meta"
      <4>1. CountsOf(new)[c] = Tot(Count0, p, n)[c] + 1 /\ more[c] = Count0[c] + 1  BY <2>1, <2>4, <2>5, <3>4
      <4> QED  BY <3>1, <3>2, <3>3, <4>1
    <3>5. CASE c # "meta"
      <4>1. CountsOf(new)[c] = Tot(Count0, p, n)[c] + 0 /\ more[c] = Count0[c]  BY <2>4, <2>5, <3>5
      <4> QED  BY <3>1, <3>2, <3>3, <4>1
    <3> QED  BY <3>4, <3>5
  <2> QED  BY <2>6
<1>9. Ruled(rules)  BY RulesOf
<1> HIDE DEF more
<1>10. \A r \in SUBSET rules : Fits(CountsOf(new), r)
  <2> HIDE DEF rules
  <2> QED  BY <1>2, <1>8, <1>9, FitsMore
<1>11. ASSUME NEW s \in Sockets, gems[s] # Empty PROVE new[s] = gems[s]
  BY <1>4, <1>5, <1>7, <1>11
<1>12. ASSUME NEW s \in Sockets, Active(s, gems) PROVE Active(s, new)
  <2>1. gems[s] # Empty /\ s \in Metas(gems)  BY <1>12 DEF Active, Metas, Counted
  <2>2. new[s] = gems[s]  BY <1>11, <2>1
  <2>3. s \in Metas(new)  BY <2>1, <2>2 DEF Metas, Counted
  <2>4. gems[s].rules \in SUBSET rules  BY <2>1 DEF ExistingRules
  <2>5. Fits(CountsOf(new), gems[s].rules)  BY <1>10, <2>4
  <2> QED  BY <2>2, <2>3, <2>5 DEF Active
<1>13. ASSUME NEW s \in Sockets, gems[s] = Empty, new[s] # Empty, ColorsOf[s] = {"meta"} PROVE Active(s, new)
  <2>1. s = t  BY <1>4, <1>7, <1>13
  <2>2. t \in Metas(new)
    <3>1. m # Empty  BY GemsAssumption DEF Empty
    <3> QED  BY <1>5, <1>6, <3>1 DEF Metas, Counted
  <2>3. Fits(CountsOf(new), m.rules)  BY <1>10
  <2> QED  BY <1>6, <2>1, <2>2, <2>3 DEF Active
<1>14. MetasKept(new)  BY <1>11, <1>12, <1>13 DEF MetasKept
<1> QED  BY <1>14 DEF new, old, normal

(* A pass never costs the character an active meta gem, puts in no meta gem     *)
(* that stays dark, and touches no socket a player filled, whatever is put on,  *)
(* broken or socketed by hand between two passes (CompanionGemMaintenance.cpp). *)
THEOREM MetasStay == GemSpec => MetaKept
<1>1. GemsTyped /\ [GemNext]_gemVars
        => [OnPlayerAfterUpdate => \A s \in Sockets :
              /\ gems[s] # Empty => gems'[s] = gems[s]
              /\ Active(s, gems) \/ (gems[s] = Empty /\ gems'[s] # Empty /\ ColorsOf[s] = {"meta"})
                   => Active(s, gems')]_gemVars
  <2> SUFFICES ASSUME GemsTyped, OnPlayerAfterUpdate PROVE MetasKept(gems')
    BY DEF MetasKept
  <2>1. CASE gems' = gems  BY <2>1 DEF MetasKept
  <2>2. CASE FillSockets
    <3>1. ASSUME NEW plan, NEW rules \in {ExistingRules, ActiveRules}, Planned(plan, Count0, rules),
                 gems' = Apply(InOrder(Bare0), plan)
          PROVE  MetasKept(gems')
      BY <3>1, AlonePlanKeeps
    <3>2. ASSUME NEW m \in BcGemItems, NEW t \in Targets(TRUE), NEW plan, m.colors = {"meta"},
                 Planned(plan, AddColor(Count0, {"meta"}), ExistingRules \cup m.rules),
                 gems' = [Apply(InOrder(Bare0), plan) EXCEPT ![t] = m]
          PROVE  MetasKept(gems')
      <4>1. MetasKept([Apply(InOrder(Bare0), plan) EXCEPT ![t] = m])  BY <3>2, JointPlanKeeps
      <4> QED  BY <3>2, <4>1
    <3> QED  BY <2>1, <2>2, <3>1, <3>2, PassIs
  <2> QED  BY <2>1, <2>2 DEF OnPlayerAfterUpdate
<1> QED  BY <1>1, GemsStayTyped, PTL DEF GemSpec, MetaKept
=============================================================================
