----------------------------- MODULE RaidScaling -----------------------------
(* mod-raid-scaling for one raid instance: the registry entry with its        *)
(* multipliers, the health the module writes into the creatures, and the      *)
(* cached baselines it scales from and restores. Factors are numerators over  *)
(* Original (target players / original players); a creature's flat modifier   *)
(* is kept in the same unit, so that scaling it never rounds.                 *)
EXTENDS Integers

CONSTANTS
    Creatures,    \* runtime GUIDs of the instance
    Bosses,       \* ClassifyCreature = Boss
    AuraAware,    \* UsesAuraAwareHealthScaling: the creatures that get health auras
    Natives,      \* [Creatures -> native healths SelectLevel may give it]
    Auras,        \* factors of a health aura on the flat modifier, 1 = none
    Original,     \* GetOriginalSize(map)
    Targets,      \* values of DefaultTargetPlayers and of .raidscale <target>
    Multipliers,  \* values of .raidscale boss|trash hp <value>
    MinHealth, MaxHealth  \* the configured clamps

ASSUME ScalingAssumption ==
    /\ Bosses \subseteq Creatures /\ AuraAware \subseteq Creatures
    /\ Natives \in [Creatures -> SUBSET (Nat \ {0})]
    /\ Auras \subseteq Nat \ {0} /\ 1 \in Auras
    /\ Original \in Nat \ {0}
    /\ Targets \subseteq Nat /\ Multipliers \subseteq Nat
    /\ MinHealth \in Nat \ {0} /\ MaxHealth \in Nat /\ MinHealth <= MaxHealth

VARIABLES
    enabled,   \* _enabled
    target,    \* _defaultTargetPlayers, 0 = no default
    loaded,    \* the instance map is loaded
    reg,       \* _state's entry of the instance
    body,      \* what the core knows of each creature
    base       \* _originalCreatureStats of the instance, NoBase where nothing is cached

vars == <<enabled, target, loaded, reg, body, base>>

NoEntry  == [on |-> FALSE, off |-> FALSE, boss |-> 0, trash |-> 0, fromDefault |-> FALSE]
OffEntry == [NoEntry EXCEPT !.off = TRUE]
NoBase   == [create |-> 0, max |-> 0, flat |-> 0]
Absent   == [in |-> FALSE, alive |-> FALSE, scalable |-> FALSE, native |-> 0, aura |-> 1,
             flat |-> 0, create |-> 0, max |-> 0, hp |-> 0, passed |-> FALSE]

HasScaling == reg.on

Init ==
    /\ enabled \in BOOLEAN /\ target \in Targets
    /\ loaded = FALSE /\ reg = NoEntry
    /\ body = [c \in Creatures |-> Absent]
    /\ base = [c \in Creatures |-> NoBase]

-----------------------------------------------------------------------------
AtLeastOne(n)    == IF n < 1 THEN 1 ELSE n
ClampHealth(f)   == IF f < MinHealth THEN MinHealth ELSE IF f > MaxHealth THEN MaxHealth ELSE f
MakeSettings(t, d) ==
    [on |-> TRUE, off |-> FALSE, fromDefault |-> d,
     boss |-> ClampHealth(AtLeastOne(t)), trash |-> ClampHealth(AtLeastOne(t))]

\* n / d rounded to the nearest, halves up.
Rounded(n, d)    == (2 * n + d) \div (2 * d)
ScaleHealth(v, f) == AtLeastOne(Rounded(v * f, Original))
FactorOf(c, s)   == IF c \in Bosses THEN s.boss ELSE s.trash

\* Mutant of Fraction: the points are only capped.
PointsCapped(h, m, new) == IF h < new THEN h ELSE new
\* The current health fraction h / m, at most 1, of a new maximum.
Fraction(h, m, new) ==
    IF h >= m THEN AtLeastOne(new) ELSE AtLeastOne(Rounded(new * h, m))
HealthOf(b, max) == IF b.alive THEN Fraction(b.hp, b.max, max) ELSE 0

\* Unit::UpdateMaxHealth rebuilds the maximum from the flat modifier and the auras;
\* the core lets no maximum be 0.
UpdateMaxHealth(flat, aura) == AtLeastOne((flat * aura) \div Original)

\* A creature with native stats as SelectLevel writes them. h is what
\* IsScalableCreature says of it: FALSE for one of a player's, charmed ones
\* included, whatever its rank, and for a lesser one that fights nobody.
Fresh(n, h) ==
    [in |-> TRUE, alive |-> TRUE, scalable |-> h, native |-> n, aura |-> 1,
     flat |-> n * Original, create |-> n, max |-> n, hp |-> n, passed |-> FALSE]

NativeChoices(S) == {n \in [S -> UNION {Natives[c] : c \in S}] : \A c \in S : n[c] \in Natives[c]}

Reached(b) == b.in /\ b.scalable /\ b.alive

-----------------------------------------------------------------------------
(* ApplyToCreature and RestoreCreature as functions of a creature's record b  *)
(* and of its cached baseline o.                                              *)

\* Mutant of Baseline: taken afresh at every application.
BaselineAfresh(b, o) == [create |-> b.create, max |-> b.max, flat |-> b.flat]
\* Captured at the first application only.
Baseline(b, o) ==
    IF o = NoBase THEN [create |-> b.create, max |-> b.max, flat |-> b.flat] ELSE o

Resized(b, create, flat, max) ==
    [b EXCEPT !.create = create, !.flat = flat, !.max = max,
              !.hp = HealthOf(b, max), !.passed = FALSE]

Scaled(c, b, o, s) ==
    LET f      == FactorOf(c, s)
        create == ScaleHealth(o.create, f)
        flat   == (o.flat * f) \div Original
    IN  IF c \in AuraAware
        THEN Resized(b, create, flat, UpdateMaxHealth(flat, b.aura))
        ELSE Resized(b, create, b.flat, ScaleHealth(o.max, f))

Restored(c, b, o) ==
    IF c \in AuraAware
    THEN Resized(b, o.create, o.flat, UpdateMaxHealth(o.flat, b.aura))
    ELSE Resized(b, o.create, b.flat, o.max)

\* What ApplyToMap passes over: the ghost remembers it.
PassedOver(b) == [b EXCEPT !.passed = b.in /\ b.alive]

\* ApplyToMap with settings s on creature records bd.
ApplyToMap(bd, bs, s) ==
    /\ body' = [c \in Creatures |->
                  IF ~s.on THEN bd[c]
                  ELSE IF Reached(bd[c]) THEN Scaled(c, bd[c], Baseline(bd[c], bs[c]), s)
                  ELSE PassedOver(bd[c])]
    /\ base' = [c \in Creatures |->
                  IF s.on /\ Reached(bd[c]) THEN Baseline(bd[c], bs[c]) ELSE bs[c]]

\* OnCreatureAddWorld on a creature with core record b and cached baseline o.
Entered(c, b, o) ==
    IF enabled /\ HasScaling /\ Reached(b)
    THEN [body |-> Scaled(c, b, Baseline(b, o), reg), base |-> Baseline(b, o)]
    ELSE [body |-> [b EXCEPT !.passed = HasScaling], base |-> o]

-----------------------------------------------------------------------------
\* The grids are loaded first, then OnCreateMap applies the default once.
OnMapCreate ==
    /\ ~loaded
    /\ loaded' = TRUE
    /\ \E P \in SUBSET Creatures : \E n \in NativeChoices(P), H \in SUBSET P :
          LET new   == [c \in P |-> Entered(c, Fresh(n[c], c \in H), base[c])]
              there == [c \in Creatures |-> IF c \in P THEN new[c].body ELSE Absent]
              bases == [c \in Creatures |-> IF c \in P THEN new[c].base ELSE base[c]]
          IN  \/ /\ enabled /\ target # 0 /\ reg = NoEntry
                 /\ reg' = MakeSettings(target, TRUE)
                 /\ ApplyToMap(there, bases, MakeSettings(target, TRUE))
              \/ /\ ~enabled \/ target = 0 \/ reg # NoEntry
                 /\ body' = there /\ base' = bases
                 /\ UNCHANGED reg
    /\ UNCHANGED <<enabled, target>>

Erased == NoEntry

OnMapDestroy ==
    /\ loaded
    /\ loaded' = FALSE
    /\ reg' = Erased
    /\ base' = [c \in Creatures |-> NoBase]
    /\ body' = [c \in Creatures |-> Absent]
    /\ UNCHANGED <<enabled, target>>

\* .raidscale <target>
EnableForMap(t) ==
    /\ enabled /\ loaded
    /\ reg' = MakeSettings(t, FALSE)
    /\ ApplyToMap(body, base, MakeSettings(t, FALSE))
    /\ UNCHANGED <<enabled, target, loaded>>

\* Mutant of Restorable: only what is still scalable gets its stats back.
RestorableScalable(c) == Reached(body[c]) /\ base[c] # NoBase
\* RestoreMap reaches every loaded creature with a baseline: dead ones too, and
\* ones that are no longer scalable.
Restorable(c) == body[c].in /\ base[c] # NoBase

DisableForMap ==
    /\ loaded
    /\ body' = [c \in Creatures |-> IF Restorable(c) THEN Restored(c, body[c], base[c]) ELSE body[c]]
    /\ base' = [c \in Creatures |-> IF Restorable(c) THEN NoBase ELSE base[c]]
    /\ reg' = OffEntry
    /\ UNCHANGED <<enabled, target, loaded>>

\* .raidscale off; .raidinstance reset all switches scaling off even if disabled.
CmdOff         == enabled /\ DisableForMap
ResetGroupBinds == DisableForMap

\* The multipliers SetMultiplier may leave; a damage value is read per hit and
\* not kept here, but makes the settings manual like any other.
Tuned ==
    {[reg EXCEPT !.boss = ClampHealth(v), !.fromDefault = FALSE] : v \in Multipliers}
    \cup {[reg EXCEPT !.trash = ClampHealth(v), !.fromDefault = FALSE] : v \in Multipliers}

SetMultiplier ==
    /\ enabled /\ loaded /\ HasScaling
    /\ \/ \E s \in Tuned : reg' = s /\ ApplyToMap(body, base, s)
       \/ reg' = [reg EXCEPT !.fromDefault = FALSE] /\ UNCHANGED <<body, base>>
    /\ UNCHANGED <<enabled, target, loaded>>

\* LoadConfig on a reload: settings in force stay as they are.
LoadConfig ==
    /\ enabled' \in BOOLEAN /\ target' \in Targets
    /\ UNCHANGED <<loaded, reg, body, base>>

-----------------------------------------------------------------------------
\* A summon or a late spawn, under a GUID of its own.
OnCreatureAddWorld(c) ==
    /\ loaded /\ body[c] = Absent
    /\ \E n \in Natives[c], h \in BOOLEAN :
          LET e == Entered(c, Fresh(n, h), base[c]) IN
          /\ body' = [body EXCEPT ![c] = e.body]
          /\ base' = [base EXCEPT ![c] = e.base]
    /\ UNCHANGED <<enabled, target, loaded, reg>>

Dead == {c \in Creatures : body[c].in /\ ~body[c].alive}

\* Mutant of Forgotten: the baseline of the former life stays.
Remembered(o) == o
Forgotten(o) == NoBase

\* OnCreatureRespawn: after the core rebuilt the native stats, the old baseline
\* goes and the creature is treated as a new one.
Respawned(c, n, h) == Entered(c, Fresh(n, h), Forgotten(base[c]))

OnCreatureRespawn(c) ==
    /\ c \in Dead
    /\ \E n \in Natives[c], h \in BOOLEAN :
          /\ body' = [body EXCEPT ![c] = Respawned(c, n, h).body]
          /\ base' = [base EXCEPT ![c] = Respawned(c, n, h).base]
    /\ UNCHANGED <<enabled, target, loaded, reg>>

\* .raidinstance boss reset respawns the dead creatures of the recipe, then
\* applies to the whole map; it does not look at _enabled.
ResetBoss ==
    /\ loaded
    /\ \E S \in SUBSET Dead : \E n \in NativeChoices(S), H \in SUBSET S :
          ApplyToMap(
              [c \in Creatures |-> IF c \in S THEN Respawned(c, n[c], c \in H).body ELSE body[c]],
              [c \in Creatures |-> IF c \in S THEN Respawned(c, n[c], c \in H).base ELSE base[c]], reg)
    /\ UNCHANGED <<enabled, target, loaded, reg>>

-----------------------------------------------------------------------------
(* The encounter: damage, death, health auras, charms and flags.              *)

Becomes(c, b) ==
    /\ body[c].in /\ body[c].alive
    /\ body' = [body EXCEPT ![c] = b]
    /\ UNCHANGED <<enabled, target, loaded, reg, base>>

\* Bound: damage leaves half of the maximum, or one point.
Wounded(c) ==
    /\ body[c].hp = body[c].max
    /\ \E left \in {1, AtLeastOne(body[c].max \div 2)} :
          Becomes(c, [body[c] EXCEPT !.hp = left])
Killed(c)       == Becomes(c, [body[c] EXCEPT !.hp = 0, !.alive = FALSE])
\* A charm is cast or ends (any rank), or a lesser one's faction or flags change.
FlagsChange(c)  == Becomes(c, [body[c] EXCEPT !.scalable = ~@])
AuraChanges(c)  ==
    /\ c \in AuraAware
    /\ \E a \in Auras :
          LET m == UpdateMaxHealth(body[c].flat, a) IN
          Becomes(c, [body[c] EXCEPT !.aura = a, !.max = m,
                                     !.hp = Fraction(body[c].hp, body[c].max, m)])

Next ==
    \/ OnMapCreate \/ OnMapDestroy
    \/ \E t \in Targets : EnableForMap(t)
    \/ CmdOff \/ ResetGroupBinds \/ SetMultiplier \/ LoadConfig \/ ResetBoss
    \/ \E c \in Creatures :
          \/ OnCreatureAddWorld(c) \/ OnCreatureRespawn(c)
          \/ Wounded(c) \/ Killed(c) \/ FlagsChange(c) \/ AuraChanges(c)

Spec == Init /\ [][Next]_vars

-----------------------------------------------------------------------------
TypeOK ==
    /\ enabled \in BOOLEAN /\ target \in Targets /\ loaded \in BOOLEAN
    /\ reg \in [on : BOOLEAN, off : BOOLEAN, fromDefault : BOOLEAN, boss : Nat, trash : Nat]
    /\ body \in [Creatures -> [in : BOOLEAN, alive : BOOLEAN, scalable : BOOLEAN,
                     native : Nat, aura : Nat \ {0}, flat : Nat, create : Nat,
                     max : Nat, hp : Nat, passed : BOOLEAN]]
    /\ \A c \in Creatures : body[c].alive => body[c].hp \in 1 .. body[c].max
    /\ base \in [Creatures -> [create : Nat, max : Nat, flat : Nat]]

\* A baseline always is the native health of the creature's present life, however
\* often the multiplier changed and whatever the creature respawned as: scales
\* never compound (ApplyToCreature caches once, OnCreatureRespawn drops it).
ScaledOnce ==
    \A c \in Creatures : base[c] # NoBase =>
        /\ base[c].create = body[c].native
        /\ base[c].flat = body[c].native * Original
        /\ c \notin AuraAware => base[c].max = body[c].native

\* A living creature carries the multiplier in force, not an earlier one and not
\* none, over deaths, respawns, resets, off and on again, charms and reloads: all
\* but those the latest application passed over. These (charmed, a player's, out of
\* the fight, or entered while the module was disabled) keep what they had, after
\* their release too, until the next application: native health if they never were
\* scaled, an earlier multiple otherwise.
CurrentScale ==
    \A c \in Creatures : (HasScaling /\ body[c].in /\ body[c].alive) =>
        IF body[c].passed
        THEN base[c] = NoBase => /\ body[c].create = body[c].native
                                 /\ body[c].flat = body[c].native * Original
        ELSE LET f == FactorOf(c, reg) IN
             /\ body[c].create = ScaleHealth(body[c].native, f)
             /\ body[c].max = IF c \in AuraAware
                              THEN UpdateMaxHealth(body[c].native * f, body[c].aura)
                              ELSE ScaleHealth(body[c].native, f)

\* With scaling off, every loaded creature has its native health back, also the
\* dead ones and those that stopped being scalable while they were scaled.
OffIsNative ==
    ~HasScaling => \A c \in Creatures : body[c].in =>
        /\ body[c].create = body[c].native
        /\ body[c].flat = body[c].native * Original
        /\ body[c].max = IF c \in AuraAware THEN UpdateMaxHealth(body[c].flat, body[c].aura)
                         ELSE body[c].native

\* A newly loaded instance starts from the configured default: nothing manual of
\* an earlier load survives, and a manual choice is never undone while loaded.
FreshDefault ==
    [][/\ (~loaded /\ loaded' /\ enabled /\ target # 0) => reg' = MakeSettings(target, TRUE)
       /\ (loaded /\ loaded' /\ ~reg.fromDefault) => ~reg'.fromDefault]_vars

\* A change of the maximum keeps a living creature's health fraction to within
\* half a point, and never kills it: only the last point may be more than its share.
FractionKept ==
    [][\A c \in Creatures :
          LET b == body[c] new == body'[c] d == new.hp * b.max - b.hp * new.max IN
          (b.in /\ b.alive /\ new.in /\ new.alive /\ new.max # b.max) =>
              new.hp > 0 /\ (2 * d <= b.max \/ new.hp = 1) /\ -2 * d <= b.max]_vars
=============================================================================
