-------------------------- MODULE RaidScaling_proofs --------------------------
(* Proofs about RaidScaling: scales never compound, off restores the native   *)
(* health, and a newly loaded instance starts from the default, for every set *)
(* of creatures, multipliers and clamps; and about RaidEncounter: what        *)
(* descends from a player is never scaled.                                    *)
EXTENDS RaidInstance, TLAPS, FiniteSetTheorems, WellFoundedInduction

Settings == [on : BOOLEAN, off : BOOLEAN, fromDefault : BOOLEAN, boss : Nat, trash : Nat]
Records  == [in : BOOLEAN, alive : BOOLEAN, scalable : BOOLEAN, native : Nat, aura : Nat,
             flat : Nat, create : Nat, max : Nat, hp : Nat, passed : BOOLEAN]
Bases    == [create : Nat, max : Nat, flat : Nat]

(* The inductive invariant. A creature stands in one of two states: without a *)
(* baseline it carries its native stats, with one the baseline carries them.  *)
(* There are baselines only while scaling is on, and an unloaded instance has *)
(* neither entry nor baseline nor creature.                                   *)
Native(c, b) ==
    /\ b.create = b.native /\ b.flat = b.native * Original
    /\ b.max = IF c \in AuraAware THEN UpdateMaxHealth(b.flat, b.aura) ELSE b.native

NativeBase(c, b, o) ==
    /\ o.create = b.native /\ o.flat = b.native * Original
    /\ c \notin AuraAware => o.max = b.native /\ b.flat = b.native * Original

Sound(c, b, o) ==
    /\ b.in => b.native # 0
    /\ o = NoBase /\ b.in => Native(c, b)
    /\ o # NoBase => b.in /\ NativeBase(c, b, o)

Typed(bd, bs) == bd \in [Creatures -> Records] /\ bs \in [Creatures -> Bases]
AllSound(bd, bs) == \A c \in Creatures : Sound(c, bd[c], bs[c])
NoBases(bs) == \A c \in Creatures : bs[c] = NoBase

Inv ==
    /\ enabled \in BOOLEAN /\ target \in Targets /\ loaded \in BOOLEAN
    /\ reg \in Settings
    /\ Typed(body, base) /\ AllSound(body, base)
    /\ ~reg.on => NoBases(base)
    /\ ~loaded => reg = NoEntry /\ NoBases(base) /\ \A c \in Creatures : ~body[c].in

-----------------------------------------------------------------------------
\* A product divided by one of its factors is the other factor.
LEMMA DivExact ==
    ASSUME NEW k \in Nat, NEW d \in Nat \ {0}
    PROVE  (k * d) \div d = k
<1>1. k * d \in Nat /\ d > 0  OBVIOUS
<1> DEFINE q == (k * d) \div d  r == (k * d) % d
<1>2. q \in Int /\ k * d = d * q + r /\ 0 <= r /\ r < d  BY <1>1
<1>3. d * (k - q) = r  BY <1>2
<1>4. k - q \in Int  BY <1>2
<1>5. k - q < 1  
  <2>1. SUFFICES ASSUME k - q >= 1 PROVE FALSE  BY <1>4
  <2>2. d * (k - q) >= d  BY <2>1, <1>4
  <2> QED  BY <2>2, <1>3, <1>2
<1>6. k - q > -1
  <2>1. SUFFICES ASSUME k - q <= -1 PROVE FALSE  BY <1>4
  <2>2. d * (k - q) <= -d  BY <2>1, <1>4
  <2> QED  BY <2>2, <1>3, <1>2
<1> QED  BY <1>4, <1>5, <1>6, <1>2

-----------------------------------------------------------------------------
(* What the operators on creature records return.                             *)

LEMMA DivNat ==
    ASSUME NEW n \in Nat, NEW d \in Nat \ {0}
    PROVE  n \div d \in Nat
OBVIOUS

LEMMA ScaleHealthNat ==
    ASSUME NEW v \in Nat, NEW f \in Nat
    PROVE  ScaleHealth(v, f) \in Nat /\ ScaleHealth(v, f) >= 1
<1>1. 2 * Original \in Nat \ {0} /\ v * f \in Nat  BY ScalingAssumption
<1>2. 2 * (v * f) + Original \in Nat  BY <1>1, ScalingAssumption
<1>3. (2 * (v * f) + Original) \div (2 * Original) \in Nat  BY <1>1, <1>2, DivNat
<1> QED  BY <1>3 DEF ScaleHealth, AtLeastOne, Rounded

LEMMA UpdateMaxHealthNat ==
    ASSUME NEW flat \in Nat, NEW a \in Nat
    PROVE  UpdateMaxHealth(flat, a) \in Nat /\ UpdateMaxHealth(flat, a) >= 1
<1>1. flat * a \in Nat  OBVIOUS
<1>2. (flat * a) \div Original \in Nat  BY <1>1, DivNat, ScalingAssumption
<1> QED  BY <1>2 DEF UpdateMaxHealth, AtLeastOne

LEMMA HealthNat ==
    ASSUME NEW b \in Records, NEW max \in Nat
    PROVE  Fraction(b.hp, b.max, max) \in Nat /\ HealthOf(b, max) \in Nat
<1>1. b.hp \in Nat /\ b.max \in Nat  BY DEF Records
<1>2. CASE b.hp >= b.max
  BY <1>1, <1>2 DEF Fraction, AtLeastOne, HealthOf
<1>3. CASE b.hp < b.max
  <2>1. 2 * b.max \in Nat \ {0} /\ max * b.hp \in Nat  BY <1>1, <1>3
  <2>2. 2 * (max * b.hp) + b.max \in Nat  BY <2>1, <1>1
  <2>3. (2 * (max * b.hp) + b.max) \div (2 * b.max) \in Nat  BY <2>1, <2>2, DivNat
  <2> QED  BY <2>3, <1>1, <1>3 DEF Fraction, AtLeastOne, Rounded, HealthOf
<1> QED  BY <1>1, <1>2, <1>3

\* A resized record is well typed and keeps everything that is not health.
LEMMA ResizedFields ==
    ASSUME NEW b \in Records, NEW create \in Nat, NEW flat \in Nat, NEW max \in Nat
    PROVE  /\ Resized(b, create, flat, max) \in Records
           /\ Resized(b, create, flat, max).in = b.in
           /\ Resized(b, create, flat, max).native = b.native
           /\ Resized(b, create, flat, max).aura = b.aura
           /\ Resized(b, create, flat, max).create = create
           /\ Resized(b, create, flat, max).flat = flat
           /\ Resized(b, create, flat, max).max = max
<1>1. HealthOf(b, max) \in Nat  BY HealthNat
<1> QED  BY <1>1 DEF Resized, Records

LEMMA FreshSound ==
    ASSUME NEW c \in Creatures, NEW n \in Natives[c], NEW h \in BOOLEAN
    PROVE  Fresh(n, h) \in Records /\ Sound(c, Fresh(n, h), NoBase) /\ Fresh(n, h).in
<1>1. n \in Nat \ {0}  BY ScalingAssumption
<1>2. Original \in Nat \ {0} /\ n * Original \in Nat  BY <1>1, ScalingAssumption
<1>3. UpdateMaxHealth(n * Original, 1) = n
  <2>1. (n * Original) * 1 = n * Original  BY <1>2
  <2>2. ((n * Original) * 1) \div Original = n  BY <2>1, <1>1, <1>2, DivExact
  <2> QED  BY <2>2, <1>1 DEF UpdateMaxHealth, AtLeastOne
<1>4. Fresh(n, h) \in Records  BY <1>1, <1>2 DEF Fresh, Records
<1>5. Native(c, Fresh(n, h))  BY <1>3 DEF Native, Fresh
<1> QED  BY <1>1, <1>4, <1>5 DEF Sound, Fresh

\* The baseline an application uses carries the native stats, and is a baseline.
LEMMA BaselineSound ==
    ASSUME NEW c \in Creatures, NEW b \in Records, NEW o \in Bases, Sound(c, b, o), b.in
    PROVE  /\ Baseline(b, o) \in Bases /\ Baseline(b, o) # NoBase
           /\ NativeBase(c, b, Baseline(b, o))
<1>1. CASE o = NoBase
  <2>1. Native(c, b) /\ b.native # 0  BY <1>1 DEF Sound
  <2>2. Baseline(b, o) = [create |-> b.create, max |-> b.max, flat |-> b.flat]
    BY <1>1 DEF Baseline
  <2> QED  BY <2>1, <2>2 DEF Native, NativeBase, NoBase, Bases, Records
<1>2. CASE o # NoBase  BY <1>2 DEF Baseline, Sound
<1> QED  BY <1>1, <1>2

\* Scaling keeps a creature sound: the baseline stays what it was.
LEMMA ScaledSound ==
    ASSUME NEW c \in Creatures, NEW b \in Records, NEW o \in Bases, NEW s \in Settings,
           Sound(c, b, o), b.in
    PROVE  /\ Scaled(c, b, Baseline(b, o), s) \in Records
           /\ Baseline(b, o) \in Bases
           /\ Sound(c, Scaled(c, b, Baseline(b, o), s), Baseline(b, o))
           /\ Scaled(c, b, Baseline(b, o), s).in
<1> DEFINE o2 == Baseline(b, o)  f == FactorOf(c, s)
<1>1. o2 \in Bases /\ o2 # NoBase /\ NativeBase(c, b, o2)  BY BaselineSound
<1>2. f \in Nat  BY DEF FactorOf, Settings
<1>3. o2.create \in Nat /\ o2.max \in Nat /\ o2.flat \in Nat /\ b.flat \in Nat /\ b.aura \in Nat
  BY <1>1 DEF Bases, Records
<1> HIDE DEF o2, f
<1>4. ScaleHealth(o2.create, f) \in Nat /\ ScaleHealth(o2.max, f) \in Nat
  BY <1>2, <1>3, ScaleHealthNat
<1> DEFINE flat == (o2.flat * f) \div Original
<1>5. flat \in Nat
  <2>1. o2.flat * f \in Nat  BY <1>2, <1>3
  <2> QED  BY <2>1, DivNat, ScalingAssumption
<1> HIDE DEF flat
<1>6. UpdateMaxHealth(flat, b.aura) \in Nat  BY <1>3, <1>5, UpdateMaxHealthNat
<1> DEFINE r == Scaled(c, b, o2, s)
<1>7. r \in Records /\ r.in = b.in /\ r.native = b.native /\ (c \notin AuraAware => r.flat = b.flat)
  <2>1. PICK create \in Nat, fl \in Nat, max \in Nat :
          r = Resized(b, create, fl, max) /\ (c \notin AuraAware => fl = b.flat)
    <3>1. CASE c \in AuraAware  BY <3>1, <1>4, <1>5, <1>6 DEF Scaled, f, flat
    <3>2. CASE c \notin AuraAware  BY <3>2, <1>3, <1>4 DEF Scaled, f
    <3> QED  BY <3>1, <3>2
  <2> HIDE DEF r
  <2>2. r \in Records  BY <2>1, ResizedFields
  <2>3. r.in = b.in  BY <2>1 DEF Resized, Records
  <2>4. r.native = b.native  BY <2>1 DEF Resized, Records
  <2>5. r.flat = fl  BY <2>1 DEF Resized, Records
  <2> QED  BY <2>1, <2>2, <2>3, <2>4, <2>5
<1> HIDE DEF r
<1>8. Sound(c, r, o2)  BY <1>1, <1>7 DEF Sound, NativeBase
<1> QED  BY <1>1, <1>7, <1>8 DEF r, o2

\* Restoring a creature with a baseline gives it its native stats.
LEMMA RestoredSound ==
    ASSUME NEW c \in Creatures, NEW b \in Records, NEW o \in Bases, Sound(c, b, o), o # NoBase
    PROVE  Restored(c, b, o) \in Records /\ Sound(c, Restored(c, b, o), NoBase)
<1>1. NativeBase(c, b, o) /\ b.in /\ b.native # 0  BY DEF Sound
<1>2. o.create \in Nat /\ o.max \in Nat /\ o.flat \in Nat /\ b.flat \in Nat /\ b.aura \in Nat
  BY DEF Bases, Records
<1>3. UpdateMaxHealth(o.flat, b.aura) \in Nat  BY <1>2, UpdateMaxHealthNat
<1> DEFINE r == Restored(c, b, o)
<1>4. /\ r \in Records /\ r.native = b.native /\ r.aura = b.aura /\ r.create = o.create
      /\ IF c \in AuraAware THEN r.flat = o.flat /\ r.max = UpdateMaxHealth(r.flat, r.aura)
                            ELSE r.flat = b.flat /\ r.max = o.max
  <2>1. PICK create \in Nat, fl \in Nat, max \in Nat :
          /\ r = Resized(b, create, fl, max) /\ create = o.create
          /\ c \in AuraAware => fl = o.flat /\ max = UpdateMaxHealth(o.flat, b.aura)
          /\ c \notin AuraAware => fl = b.flat /\ max = o.max
    <3>1. CASE c \in AuraAware  BY <3>1, <1>2, <1>3 DEF Restored
    <3>2. CASE c \notin AuraAware  BY <3>2, <1>2 DEF Restored
    <3> QED  BY <3>1, <3>2
  <2> HIDE DEF r
  <2>2. r \in Records  BY <2>1, ResizedFields
  <2>3. r.native = b.native  BY <2>1 DEF Resized, Records
  <2>4. r.aura = b.aura  BY <2>1 DEF Resized, Records
  <2>5. r.create = create  BY <2>1 DEF Resized, Records
  <2>6. r.flat = fl  BY <2>1 DEF Resized, Records
  <2>7. r.max = max  BY <2>1 DEF Resized, Records
  <2> QED  BY <2>1, <2>2, <2>3, <2>4, <2>5, <2>6, <2>7
<1> HIDE DEF r
<1>5. Sound(c, r, NoBase)  BY <1>1, <1>4 DEF Sound, Native, NativeBase
<1> QED  BY <1>4, <1>5 DEF r

\* A creature that enters stays sound; without scaling it takes no baseline.
LEMMA EnteredSound ==
    ASSUME NEW c \in Creatures, NEW b \in Records, NEW o \in Bases,
           enabled \in BOOLEAN, reg \in Settings, Sound(c, b, o), b.in
    PROVE  /\ Entered(c, b, o).body \in Records /\ Entered(c, b, o).base \in Bases
           /\ Sound(c, Entered(c, b, o).body, Entered(c, b, o).base)
           /\ ~reg.on => Entered(c, b, o).base = o
<1>1. CASE enabled /\ HasScaling /\ Reached(b)
  <2>1. Entered(c, b, o) = [body |-> Scaled(c, b, Baseline(b, o), reg), base |-> Baseline(b, o)]
    BY <1>1 DEF Entered
  <2>2. reg.on  BY <1>1 DEF HasScaling
  <2> QED  BY <2>1, <2>2, ScaledSound
<1>2. CASE ~(enabled /\ HasScaling /\ Reached(b))
  <2> DEFINE r == [b EXCEPT !.passed = HasScaling]
  <2>1. Entered(c, b, o) = [body |-> r, base |-> o]  BY <1>2 DEF Entered
  <2>2. HasScaling \in BOOLEAN  BY DEF HasScaling, Settings
  <2>3. r \in Records  BY <2>2 DEF Records
  <2>4. /\ r.in = b.in /\ r.native = b.native /\ r.aura = b.aura
        /\ r.create = b.create /\ r.flat = b.flat /\ r.max = b.max
    BY DEF Records
  <2>5. Sound(c, r, o)
    <3> HIDE DEF r
    <3> QED  BY <2>4 DEF Sound, Native, NativeBase
  <2> QED  BY <2>1, <2>3, <2>5
<1> QED  BY <1>1, <1>2

\* Being passed over leaves everything but the ghost alone.
SameHealth(b, r) ==
    /\ r.in = b.in /\ r.alive = b.alive /\ r.native = b.native /\ r.aura = b.aura
    /\ r.flat = b.flat /\ r.create = b.create /\ r.max = b.max /\ r.hp = b.hp

LEMMA PassedOverRest ==
    ASSUME NEW b \in Records
    PROVE  /\ PassedOver(b) \in Records /\ SameHealth(b, PassedOver(b))
           /\ PassedOver(b).passed = (b.in /\ b.alive)
<1>1. (b.in /\ b.alive) \in BOOLEAN  BY DEF Records
<1> QED  BY <1>1 DEF PassedOver, SameHealth, Records

\* ApplyToMap keeps every creature sound, and does nothing without scaling.
LEMMA ApplyToMapSound ==
    ASSUME NEW bd, NEW bs, NEW s \in Settings, Typed(bd, bs), AllSound(bd, bs),
           ApplyToMap(bd, bs, s)
    PROVE  Typed(body', base') /\ AllSound(body', base') /\ (~s.on => base' = bs)
<1>1. ASSUME NEW c \in Creatures
      PROVE  /\ body'[c] \in Records /\ base'[c] \in Bases /\ Sound(c, body'[c], base'[c])
             /\ ~s.on => base'[c] = bs[c]
  <2>1. bd[c] \in Records /\ bs[c] \in Bases /\ Sound(c, bd[c], bs[c])  BY DEF Typed, AllSound
  <2>2. CASE s.on /\ Reached(bd[c])
    <3>1. /\ body'[c] = Scaled(c, bd[c], Baseline(bd[c], bs[c]), s)
          /\ base'[c] = Baseline(bd[c], bs[c])
      BY <2>2 DEF ApplyToMap
    <3>2. bd[c].in  BY <2>2 DEF Reached
    <3> QED  BY <2>1, <2>2, <3>1, <3>2, ScaledSound
  <2>3. CASE s.on /\ ~Reached(bd[c])
    <3>1. body'[c] = PassedOver(bd[c]) /\ base'[c] = bs[c]  BY <2>3 DEF ApplyToMap
    <3>2. PassedOver(bd[c]) \in Records /\ SameHealth(bd[c], PassedOver(bd[c]))
      BY <2>1, PassedOverRest
    <3>3. Sound(c, PassedOver(bd[c]), bs[c])  BY <2>1, <3>2 DEF Sound, Native, NativeBase, SameHealth
    <3> QED  BY <2>1, <2>3, <3>1, <3>2, <3>3
  <2>4. CASE ~s.on
    <3>1. body'[c] = bd[c] /\ base'[c] = bs[c]  BY <2>4 DEF ApplyToMap
    <3> QED  BY <2>1, <3>1
  <2> QED  BY <2>2, <2>3, <2>4
<1>2. /\ body' = [c \in Creatures |-> body'[c]] /\ base' = [c \in Creatures |-> base'[c]]
  BY DEF ApplyToMap
<1>3. Typed(body', base')  BY <1>1, <1>2 DEF Typed
<1>4. ~s.on => base' = bs
  <2>1. bs = [c \in Creatures |-> bs[c]]  BY DEF Typed
  <2> QED  BY <1>1, <1>2, <2>1
<1> QED  BY <1>1, <1>3, <1>4 DEF AllSound

\* The settings the commands make are settings, and switch scaling on.
LEMMA SettingsMade ==
    /\ \A t \in Targets, d \in BOOLEAN :
          MakeSettings(t, d) \in Settings /\ MakeSettings(t, d).on /\ MakeSettings(t, d).fromDefault = d
    /\ \A v \in Multipliers : ClampHealth(v) \in Nat
<1>1. \A n \in Nat : ClampHealth(n) \in Nat  BY ScalingAssumption DEF ClampHealth
<1>2. \A t \in Targets : AtLeastOne(t) \in Nat  BY ScalingAssumption DEF AtLeastOne
<1>3. \A v \in Multipliers : v \in Nat  BY ScalingAssumption
<1> QED  BY <1>1, <1>2, <1>3 DEF MakeSettings, Settings

-----------------------------------------------------------------------------
(* The initial state and the steps.                                           *)

LEMMA AbsentSound ==
    ASSUME NEW c \in Creatures
    PROVE  Absent \in Records /\ NoBase \in Bases /\ Sound(c, Absent, NoBase) /\ ~Absent.in
BY DEF Absent, Records, NoBase, Bases, Sound

LEMMA EntriesTyped ==
    NoEntry \in Settings /\ OffEntry \in Settings /\ ~NoEntry.on /\ ~OffEntry.on
    /\ ~OffEntry.fromDefault
BY DEF NoEntry, OffEntry, Settings

LEMMA InitInv == Init => Inv
<1> SUFFICES ASSUME Init PROVE Inv  OBVIOUS
<1>1. Typed(body, base) /\ AllSound(body, base)
  BY AbsentSound DEF Init, Typed, AllSound
<1> QED  BY <1>1, AbsentSound, EntriesTyped DEF Init, Inv, NoBases

\* One creature changes its record and its baseline, and all stay sound.
LEMMA OneSound ==
    ASSUME Inv, NEW c \in Creatures, NEW b \in Records, NEW o \in Bases, Sound(c, b, o),
           body' = [body EXCEPT ![c] = b], base' = [base EXCEPT ![c] = o]
    PROVE  Typed(body', base') /\ AllSound(body', base')
BY DEF Inv, Typed, AllSound

\* One creature changes its record only.
LEMMA OneRecordSound ==
    ASSUME Inv, NEW c \in Creatures, NEW b \in Records, Sound(c, b, base[c]), Becomes(c, b)
    PROVE  Inv'
<1>1. Typed(body', base) /\ AllSound(body', base)
  BY DEF Inv, Typed, AllSound, Becomes
<1>2. loaded  BY DEF Inv, Becomes
<1> QED  BY <1>1, <1>2 DEF Inv, Becomes, NoBases

LEMMA OnMapCreateInv == ASSUME Inv, OnMapCreate PROVE Inv'
<1>1. PICK P \in SUBSET Creatures : \E n \in NativeChoices(P), H \in SUBSET P :
          LET new   == [c \in P |-> Entered(c, Fresh(n[c], c \in H), base[c])]
              present == [c \in Creatures |-> IF c \in P THEN new[c].body ELSE Absent]
              bases == [c \in Creatures |-> IF c \in P THEN new[c].base ELSE base[c]]
          IN  \/ /\ enabled /\ target # 0 /\ reg = NoEntry
                 /\ reg' = MakeSettings(target, TRUE)
                 /\ ApplyToMap(present, bases, MakeSettings(target, TRUE))
              \/ /\ ~enabled \/ target = 0 \/ reg # NoEntry
                 /\ body' = present /\ base' = bases
                 /\ UNCHANGED reg
  BY DEF OnMapCreate
<1>2. PICK n \in NativeChoices(P), H \in SUBSET P :
          LET new   == [c \in P |-> Entered(c, Fresh(n[c], c \in H), base[c])]
              present == [c \in Creatures |-> IF c \in P THEN new[c].body ELSE Absent]
              bases == [c \in Creatures |-> IF c \in P THEN new[c].base ELSE base[c]]
          IN  \/ /\ enabled /\ target # 0 /\ reg = NoEntry
                 /\ reg' = MakeSettings(target, TRUE)
                 /\ ApplyToMap(present, bases, MakeSettings(target, TRUE))
              \/ /\ ~enabled \/ target = 0 \/ reg # NoEntry
                 /\ body' = present /\ base' = bases
                 /\ UNCHANGED reg
  BY <1>1
<1> DEFINE new   == [c \in P |-> Entered(c, Fresh(n[c], c \in H), base[c])]
           present == [c \in Creatures |-> IF c \in P THEN new[c].body ELSE Absent]
           bases == [c \in Creatures |-> IF c \in P THEN new[c].base ELSE base[c]]
<1>3. reg = NoEntry /\ NoBases(base) /\ loaded' /\ enabled' = enabled /\ target' = target
  BY DEF OnMapCreate, Inv
<1>4. ASSUME NEW c \in Creatures
      PROVE  present[c] \in Records /\ bases[c] = NoBase /\ Sound(c, present[c], NoBase)
  <2>1. base[c] = NoBase  BY <1>3 DEF NoBases
  <2>2. CASE c \notin P  BY <2>1, <2>2, AbsentSound
  <2>3. CASE c \in P
    <3> DEFINE h == c \in H  b == Fresh(n[c], h)
    <3>0. h \in BOOLEAN  OBVIOUS
    <3>1. n[c] \in Natives[c]  BY <2>3 DEF NativeChoices
    <3>2. b \in Records /\ Sound(c, b, NoBase) /\ b.in
      <4> HIDE DEF h
      <4> QED  BY <3>0, <3>1, FreshSound
    <3>3. enabled \in BOOLEAN /\ reg \in Settings /\ NoBase \in Bases /\ ~reg.on
      BY <1>3, AbsentSound, EntriesTyped DEF Inv
    <3>4. present[c] = Entered(c, b, NoBase).body /\ bases[c] = Entered(c, b, NoBase).base
      BY <2>1, <2>3
    <3> HIDE DEF b, h, present, bases
    <3> QED  BY <3>2, <3>3, <3>4, EnteredSound
  <2> QED  BY <2>2, <2>3
<1>5. Typed(present, bases) /\ AllSound(present, bases) /\ NoBases(bases)
  <2>1. present = [c \in Creatures |-> present[c]] /\ bases = [c \in Creatures |-> bases[c]]  OBVIOUS
  <2> HIDE DEF present, bases
  <2>2. NoBase \in Bases  BY DEF NoBase, Bases
  <2> QED  BY <1>4, <2>1, <2>2 DEF Typed, AllSound, NoBases
<1>6. CASE /\ reg' = MakeSettings(target, TRUE)
           /\ ApplyToMap(present, bases, MakeSettings(target, TRUE))
  <2> HIDE DEF present, bases
  <2>1. target \in Targets /\ TRUE \in BOOLEAN  BY DEF Inv
  <2> DEFINE s == MakeSettings(target, TRUE)
  <2>2. s \in Settings /\ s.on  BY <2>1, SettingsMade
  <2> HIDE DEF s
  <2>3. ApplyToMap(present, bases, s) /\ reg' = s  BY <1>6 DEF s
  <2>4. Typed(body', base') /\ AllSound(body', base')  BY <1>5, <2>2, <2>3, ApplyToMapSound
  <2> QED  BY <1>3, <2>2, <2>3, <2>4 DEF Inv
<1>7. CASE body' = present /\ base' = bases /\ UNCHANGED reg
  <2> HIDE DEF present, bases
  <2> QED  BY <1>3, <1>5, <1>7 DEF Inv
<1> QED  BY <1>2, <1>6, <1>7

LEMMA OnMapDestroyInv == ASSUME Inv, OnMapDestroy PROVE Inv'
<1>1. Typed(body', base') /\ AllSound(body', base')
  BY AbsentSound DEF OnMapDestroy, Typed, AllSound
<1> QED  BY <1>1, AbsentSound, EntriesTyped DEF OnMapDestroy, Erased, Inv, NoBases

\* A change of settings in force, applied to the whole map.
LEMMA SettingsAppliedInv ==
    ASSUME Inv, loaded, NEW s \in Settings, s.on, reg' = s, ApplyToMap(body, base, s),
           UNCHANGED <<enabled, target, loaded>>
    PROVE  Inv'
<1>1. Typed(body', base') /\ AllSound(body', base')  BY ApplyToMapSound DEF Inv
<1> QED  BY <1>1 DEF Inv

LEMMA DisableInv == ASSUME Inv, DisableForMap PROVE Inv'
<1>1. ASSUME NEW c \in Creatures
      PROVE  body'[c] \in Records /\ base'[c] = NoBase /\ Sound(c, body'[c], NoBase)
  <2>1. body[c] \in Records /\ base[c] \in Bases /\ Sound(c, body[c], base[c])
    BY DEF Inv, Typed, AllSound
  <2>2. CASE Restorable(c)
    <3>1. body'[c] = Restored(c, body[c], base[c]) /\ base'[c] = NoBase
      BY <2>2 DEF DisableForMap
    <3> QED  BY <2>1, <2>2, <3>1, RestoredSound DEF Restorable
  <2>3. CASE ~Restorable(c)
    <3>1. body'[c] = body[c] /\ base'[c] = base[c]  BY <2>3 DEF DisableForMap
    <3>2. base[c] = NoBase  BY <2>1, <2>3 DEF Restorable, Sound
    <3> QED  BY <2>1, <3>1, <3>2
  <2> QED  BY <2>2, <2>3
<1>2. body' = [c \in Creatures |-> body'[c]] /\ base' = [c \in Creatures |-> base'[c]]
  BY DEF DisableForMap
<1>3. NoBase \in Bases  BY DEF NoBase, Bases
<1>4. Typed(body', base') /\ AllSound(body', base') /\ NoBases(base')
  BY <1>1, <1>2, <1>3 DEF Typed, AllSound, NoBases
<1> QED  BY <1>4, EntriesTyped DEF Inv, DisableForMap

LEMMA SetMultiplierInv == ASSUME Inv, SetMultiplier PROVE Inv'
<1>1. reg.on /\ loaded /\ reg \in Settings  BY DEF SetMultiplier, HasScaling, Inv
<1>2. CASE \E s \in Tuned : reg' = s /\ ApplyToMap(body, base, s)
  <2>1. PICK s \in Tuned : reg' = s /\ ApplyToMap(body, base, s)  BY <1>2
  <2>2. s \in Settings /\ s.on  BY <1>1, SettingsMade DEF Tuned, Settings
  <2> QED  BY <1>1, <2>1, <2>2, SettingsAppliedInv DEF SetMultiplier
<1>3. CASE reg' = [reg EXCEPT !.fromDefault = FALSE] /\ UNCHANGED <<body, base>>
  <2>1. reg' \in Settings /\ reg'.on  BY <1>1, <1>3 DEF Settings
  <2> QED  BY <1>1, <1>3, <2>1 DEF SetMultiplier, Inv
<1> QED  BY <1>2, <1>3 DEF SetMultiplier

\* A creature that enters or respawns is sound with the baseline it is given.
LEMMA NewcomerSound ==
    ASSUME Inv, NEW c \in Creatures, NEW n \in Natives[c], NEW h \in BOOLEAN
    PROVE  LET e == Entered(c, Fresh(n, h), NoBase) IN
           /\ e.body \in Records /\ e.base \in Bases /\ Sound(c, e.body, e.base)
           /\ ~reg.on => e.base = NoBase
<1>1. Fresh(n, h) \in Records /\ Sound(c, Fresh(n, h), NoBase) /\ Fresh(n, h).in
  BY FreshSound
<1>2. enabled \in BOOLEAN /\ reg \in Settings /\ NoBase \in Bases
  BY AbsentSound DEF Inv
<1> QED  BY <1>1, <1>2, EnteredSound

LEMMA NewcomerInv ==
    ASSUME Inv, loaded, NEW c \in Creatures, NEW n \in Natives[c], NEW h \in BOOLEAN,
           body' = [body EXCEPT ![c] = Entered(c, Fresh(n, h), NoBase).body],
           base' = [base EXCEPT ![c] = Entered(c, Fresh(n, h), NoBase).base],
           UNCHANGED <<enabled, target, loaded, reg>>
    PROVE  Inv'
<1> DEFINE b == Entered(c, Fresh(n, h), NoBase).body
           o == Entered(c, Fresh(n, h), NoBase).base
<1>1. b \in Records /\ o \in Bases /\ Sound(c, b, o) /\ (~reg.on => o = NoBase)
  BY NewcomerSound
<1>2. body' = [body EXCEPT ![c] = b] /\ base' = [base EXCEPT ![c] = o]  OBVIOUS
<1> HIDE DEF b, o
<1>3. Typed(body', base') /\ AllSound(body', base')  BY <1>1, <1>2, OneSound
<1>4. ~reg.on => NoBases(base')  BY <1>1, <1>2 DEF Inv, NoBases
<1> QED  BY <1>3, <1>4 DEF Inv

LEMMA OnCreatureAddWorldInv ==
    ASSUME Inv, NEW c \in Creatures, OnCreatureAddWorld(c) PROVE Inv'
<1>1. loaded /\ body[c] = Absent /\ UNCHANGED <<enabled, target, loaded, reg>>
  BY DEF OnCreatureAddWorld
<1>2. base[c] = NoBase  BY <1>1, AbsentSound DEF Inv, AllSound, Sound
<1>3. PICK n \in Natives[c], h \in BOOLEAN :
        /\ body' = [body EXCEPT ![c] = Entered(c, Fresh(n, h), NoBase).body]
        /\ base' = [base EXCEPT ![c] = Entered(c, Fresh(n, h), NoBase).base]
  BY <1>2 DEF OnCreatureAddWorld
<1> QED  BY <1>1, <1>3, NewcomerInv

LEMMA OnCreatureRespawnInv ==
    ASSUME Inv, NEW c \in Creatures, OnCreatureRespawn(c) PROVE Inv'
<1>1. loaded /\ UNCHANGED <<enabled, target, loaded, reg>>
  BY DEF OnCreatureRespawn, Dead, Inv
<1>2. PICK n \in Natives[c], h \in BOOLEAN :
        /\ body' = [body EXCEPT ![c] = Entered(c, Fresh(n, h), NoBase).body]
        /\ base' = [base EXCEPT ![c] = Entered(c, Fresh(n, h), NoBase).base]
  BY DEF OnCreatureRespawn, Respawned, Forgotten
<1> QED  BY <1>1, <1>2, NewcomerInv

LEMMA ResetBossInv == ASSUME Inv, ResetBoss PROVE Inv'
<1>1. loaded /\ UNCHANGED <<enabled, target, loaded, reg>> /\ reg \in Settings
  BY DEF ResetBoss, Inv
<1>2. PICK S \in SUBSET Dead : \E n \in NativeChoices(S), H \in SUBSET S :
        ApplyToMap(
            [c \in Creatures |-> IF c \in S THEN Respawned(c, n[c], c \in H).body ELSE body[c]],
            [c \in Creatures |-> IF c \in S THEN Respawned(c, n[c], c \in H).base ELSE base[c]], reg)
  BY DEF ResetBoss
<1>3. PICK n \in NativeChoices(S), H \in SUBSET S :
        ApplyToMap(
            [c \in Creatures |-> IF c \in S THEN Respawned(c, n[c], c \in H).body ELSE body[c]],
            [c \in Creatures |-> IF c \in S THEN Respawned(c, n[c], c \in H).base ELSE base[c]], reg)
  BY <1>2
<1> DEFINE bd == [c \in Creatures |-> IF c \in S THEN Respawned(c, n[c], c \in H).body ELSE body[c]]
           bs == [c \in Creatures |-> IF c \in S THEN Respawned(c, n[c], c \in H).base ELSE base[c]]
<1>4. ASSUME NEW c \in Creatures
      PROVE  /\ bd[c] \in Records /\ bs[c] \in Bases /\ Sound(c, bd[c], bs[c])
             /\ ~reg.on => bs[c] = NoBase
  <2>1. CASE c \in S
    <3> DEFINE h == c \in H
    <3>0. h \in BOOLEAN  OBVIOUS
    <3>1. n[c] \in Natives[c]  BY <2>1 DEF NativeChoices
    <3>2. bd[c] = Entered(c, Fresh(n[c], h), NoBase).body
      BY <2>1 DEF Respawned, Forgotten
    <3>3. bs[c] = Entered(c, Fresh(n[c], h), NoBase).base
      BY <2>1 DEF Respawned, Forgotten
    <3> HIDE DEF bd, bs, h
    <3> QED  BY <3>0, <3>1, <3>2, <3>3, NewcomerSound
  <2>2. CASE c \notin S  BY <2>2 DEF Inv, Typed, AllSound, NoBases
  <2> QED  BY <2>1, <2>2
<1>5. ApplyToMap(bd, bs, reg)  BY <1>3
<1>6. bd = [c \in Creatures |-> bd[c]] /\ bs = [c \in Creatures |-> bs[c]]  OBVIOUS
<1> HIDE DEF bd, bs
<1>7. Typed(bd, bs) /\ AllSound(bd, bs) /\ (~reg.on => NoBases(bs))
  BY <1>4, <1>6 DEF Typed, AllSound, NoBases
<1>8. Typed(body', base') /\ AllSound(body', base') /\ (~reg.on => base' = bs)
  BY <1>1, <1>5, <1>7, ApplyToMapSound
<1> QED  BY <1>1, <1>7, <1>8 DEF Inv

\* Damage, death, flags and health auras leave the native stats alone.
LEMMA EncounterInv ==
    ASSUME Inv, NEW c \in Creatures,
           Wounded(c) \/ Killed(c) \/ FlagsChange(c) \/ AuraChanges(c)
    PROVE  Inv'
<1>1. body[c] \in Records /\ base[c] \in Bases /\ Sound(c, body[c], base[c])
  BY DEF Inv, Typed, AllSound
<1> DEFINE b == body[c]
<1>2. CASE Wounded(c)
  <2>0. PICK left \in {1, AtLeastOne(b.max \div 2)} : Becomes(c, [b EXCEPT !.hp = left])
    BY <1>2 DEF Wounded
  <2> DEFINE r == [b EXCEPT !.hp = left]
  <2>1. Becomes(c, r)  BY <2>0
  <2>2. left \in Nat  BY <1>1 DEF AtLeastOne, Records
  <2>3. r \in Records  BY <1>1, <2>2 DEF Records
  <2>4. Sound(c, r, base[c])  BY <1>1 DEF Sound, Native, NativeBase, Records
  <2> QED  BY <2>1, <2>3, <2>4, OneRecordSound
<1>3. CASE Killed(c)
  <2> DEFINE r == [b EXCEPT !.hp = 0, !.alive = FALSE]
  <2>1. Becomes(c, r)  BY <1>3 DEF Killed
  <2>2. r \in Records  BY <1>1 DEF Records
  <2>3. Sound(c, r, base[c])  BY <1>1 DEF Sound, Native, NativeBase, Records
  <2> QED  BY <2>1, <2>2, <2>3, OneRecordSound
<1>4. CASE FlagsChange(c)
  <2> DEFINE r == [b EXCEPT !.scalable = ~b.scalable]
  <2>1. Becomes(c, r)  BY <1>4 DEF FlagsChange
  <2>2. r \in Records  BY <1>1 DEF Records
  <2>3. Sound(c, r, base[c])  BY <1>1 DEF Sound, Native, NativeBase, Records
  <2> QED  BY <2>1, <2>2, <2>3, OneRecordSound
<1>5. CASE AuraChanges(c)
  <2>1. c \in AuraAware  BY <1>5 DEF AuraChanges
  <2>2. PICK a \in Auras :
          LET m == UpdateMaxHealth(b.flat, a) IN
          Becomes(c, [b EXCEPT !.aura = a, !.max = m, !.hp = Fraction(b.hp, b.max, m)])
    BY <1>5 DEF AuraChanges
  <2> DEFINE m == UpdateMaxHealth(b.flat, a)
             r == [b EXCEPT !.aura = a, !.max = m, !.hp = Fraction(b.hp, b.max, m)]
  <2>3. a \in Nat /\ b.flat \in Nat  BY <1>1, ScalingAssumption DEF Records
  <2>4. m \in Nat  BY <2>3, UpdateMaxHealthNat
  <2>5. Fraction(b.hp, b.max, m) \in Nat  BY <1>1, <2>4, HealthNat
  <2>6. r \in Records
    <3> HIDE DEF m
    <3> QED  BY <1>1, <2>3, <2>4, <2>5 DEF Records
  <2>7. /\ r.in = b.in /\ r.native = b.native /\ r.create = b.create /\ r.flat = b.flat
        /\ r.aura = a /\ r.max = UpdateMaxHealth(b.flat, a)
    BY <1>1 DEF Records
  <2>8. Becomes(c, r)  BY <2>2
  <2> HIDE DEF r, m
  <2>9. Sound(c, r, base[c])  BY <1>1, <2>1, <2>7 DEF Sound, Native, NativeBase
  <2> QED  BY <2>6, <2>8, <2>9, OneRecordSound
<1> QED  BY <1>2, <1>3, <1>4, <1>5

LEMMA NextInv == Inv /\ [Next]_vars => Inv'
<1> SUFFICES ASSUME Inv, [Next]_vars PROVE Inv'  OBVIOUS
<1>1. CASE OnMapCreate  BY <1>1, OnMapCreateInv
<1>2. CASE OnMapDestroy  BY <1>2, OnMapDestroyInv
<1>3. ASSUME NEW t \in Targets, EnableForMap(t) PROVE Inv'
  <2>1. MakeSettings(t, FALSE) \in Settings /\ MakeSettings(t, FALSE).on  BY SettingsMade
  <2> QED  BY <1>3, <2>1, SettingsAppliedInv DEF EnableForMap
<1>4. CASE CmdOff \/ ResetGroupBinds  BY <1>4, DisableInv DEF CmdOff, ResetGroupBinds
<1>5. CASE SetMultiplier  BY <1>5, SetMultiplierInv
<1>6. CASE LoadConfig  BY <1>6 DEF LoadConfig, Inv, Typed, AllSound, NoBases
<1>7. CASE ResetBoss  BY <1>7, ResetBossInv
<1>8. ASSUME NEW c \in Creatures,
             OnCreatureAddWorld(c) \/ OnCreatureRespawn(c)
      PROVE  Inv'
  BY <1>8, OnCreatureAddWorldInv, OnCreatureRespawnInv
<1>9. ASSUME NEW c \in Creatures,
             Wounded(c) \/ Killed(c) \/ FlagsChange(c) \/ AuraChanges(c)
      PROVE  Inv'
  BY <1>9, EncounterInv
<1>10. CASE UNCHANGED vars  BY <1>10 DEF vars, Inv, Typed, AllSound, NoBases
<1> QED  BY <1>1, <1>2, <1>3, <1>4, <1>5, <1>6, <1>7, <1>8, <1>9, <1>10 DEF Next

-----------------------------------------------------------------------------
(* The theorems.                                                              *)

\* The invariant holds of every state of the instance (all of RaidScalingMgr).
THEOREM InvHolds == Spec => []Inv
<1> QED  BY InitInv, NextInv, PTL DEF Spec

\* Scales never compound: a baseline is the native health of the present life,
\* for every set of creatures, settings and clamps (ApplyToCreature).
THEOREM ScalesNeverCompound == Spec => []ScaledOnce
<1>1. Inv => ScaledOnce
  BY DEF Inv, AllSound, Sound, NativeBase, ScaledOnce
<1> QED  BY <1>1, InvHolds, PTL

\* Switching scaling off restores every loaded creature (RestoreMap).
THEOREM OffRestoresNative == Spec => []OffIsNative
<1>1. Inv => OffIsNative
  BY DEF Inv, AllSound, NoBases, Sound, Native, OffIsNative, HasScaling
<1> QED  BY <1>1, InvHolds, PTL

\* A loaded instance starts from the default, and a manual choice stays until it
\* is unloaded (TryApplyDefault, OnMapDestroy).
THEOREM FreshFromDefault == Spec => FreshDefault
<1> DEFINE Starts == (~loaded /\ loaded' /\ enabled /\ target # 0) => reg' = MakeSettings(target, TRUE)
           Stays  == (loaded /\ loaded' /\ ~reg.fromDefault) => ~reg'.fromDefault
<1>1. ASSUME Inv, [Next]_vars PROVE [Starts /\ Stays]_vars
  <2>1. ASSUME OnMapCreate PROVE Starts /\ Stays  BY <1>1, <2>1 DEF OnMapCreate, Inv
  <2>2. ASSUME OnMapDestroy PROVE Starts /\ Stays  BY <2>2 DEF OnMapDestroy
  <2>3. ASSUME NEW t \in Targets, EnableForMap(t) PROVE Starts /\ Stays
    <3>1. MakeSettings(t, FALSE).fromDefault = FALSE  BY SettingsMade
    <3> QED  BY <2>3, <3>1 DEF EnableForMap
  <2>4. ASSUME CmdOff \/ ResetGroupBinds PROVE Starts /\ Stays
    BY <2>4, EntriesTyped DEF CmdOff, ResetGroupBinds, DisableForMap
  <2>5. ASSUME SetMultiplier PROVE Starts /\ Stays
    <3>1. loaded /\ reg \in Settings  BY <1>1, <2>5 DEF SetMultiplier, Inv
    <3>2. ~reg'.fromDefault  BY <2>5, <3>1 DEF SetMultiplier, Tuned, Settings
    <3> QED  BY <3>1, <3>2
  <2>6. ASSUME LoadConfig \/ ResetBoss PROVE loaded' = loaded /\ reg' = reg
    BY <2>6 DEF LoadConfig, ResetBoss
  <2>7. ASSUME NEW c \in Creatures, OnCreatureAddWorld(c) \/ OnCreatureRespawn(c)
        PROVE loaded' = loaded /\ reg' = reg
    BY <2>7 DEF OnCreatureAddWorld, OnCreatureRespawn
  <2>8. ASSUME NEW c \in Creatures,
               Wounded(c) \/ Killed(c) \/ FlagsChange(c) \/ AuraChanges(c)
        PROVE loaded' = loaded /\ reg' = reg
    BY <2>8 DEF Wounded, Killed, FlagsChange, AuraChanges, Becomes
  <2>9. ASSUME loaded' = loaded, reg' = reg PROVE Starts /\ Stays
    BY <2>9
  <2> QED  BY <1>1, <2>1, <2>2, <2>3, <2>4, <2>5, <2>6, <2>7, <2>8, <2>9 DEF Next
<1> QED  BY <1>1, InvHolds, PTL DEF Spec, FreshDefault

-----------------------------------------------------------------------------
(* Who was not passed over carries the multiplier in force: the proof of      *)
(* CurrentScale.                                                              *)

\* What CurrentScale says of one creature record under settings s, and, for the
\* aura-aware ones, the flat modifier from which the next aura rebuilds the maximum.
Current(c, b, s) ==
    (s.on /\ b.in /\ b.alive /\ ~b.passed) =>
        /\ b.create = ScaleHealth(b.native, FactorOf(c, s))
        /\ c \in AuraAware =>
              /\ b.flat = b.native * FactorOf(c, s)
              /\ b.max = UpdateMaxHealth(b.native * FactorOf(c, s), b.aura)
        /\ c \notin AuraAware => b.max = ScaleHealth(b.native, FactorOf(c, s))

AllCurrent(bd, s) == \A c \in Creatures : Current(c, bd[c], s)

CurInv == Inv /\ AllCurrent(body, reg)

-----------------------------------------------------------------------------
\* Resizing leaves everything but health alone.
LEMMA ResizedRest ==
    ASSUME NEW b \in Records, NEW create, NEW flat, NEW max
    PROVE  LET r == Resized(b, create, flat, max) IN
           /\ r.in = b.in /\ r.scalable = b.scalable /\ r.native = b.native /\ r.aura = b.aura
           /\ r.create = create /\ r.flat = flat /\ r.max = max
BY DEF Resized, Records

\* Scaling makes a sound creature current.
LEMMA ScaledCurrent ==
    ASSUME NEW c \in Creatures, NEW b \in Records, NEW o \in Bases, NEW s \in Settings,
           Sound(c, b, o), b.in
    PROVE  LET r == Scaled(c, b, Baseline(b, o), s) IN
           Current(c, r, s) /\ r.scalable = b.scalable
<1> DEFINE o2 == Baseline(b, o)  f == FactorOf(c, s)  r == Scaled(c, b, o2, s)
<1>1. o2 \in Bases /\ NativeBase(c, b, o2)  BY BaselineSound
<1>2. f \in Nat /\ b.native \in Nat /\ Original \in Nat \ {0}
  BY ScalingAssumption DEF FactorOf, Settings, Records
<1>3. (o2.flat * f) \div Original = b.native * f
  <2>1. o2.flat * f = (b.native * f) * Original  BY <1>1, <1>2 DEF NativeBase
  <2>2. b.native * f \in Nat  BY <1>2
  <2> QED  BY <1>2, <2>1, <2>2, DivExact
<1>4. CASE c \in AuraAware
  <2> DEFINE cr == ScaleHealth(o2.create, f)
             fl == (o2.flat * f) \div Original
             mx == UpdateMaxHealth(fl, b.aura)
  <2>1. r = Resized(b, cr, fl, mx)  BY <1>4 DEF Scaled
  <2>2. fl = b.native * f /\ o2.create = b.native  BY <1>1, <1>3 DEF NativeBase
  <2>3. cr = ScaleHealth(b.native, f) /\ mx = UpdateMaxHealth(b.native * f, b.aura)
    BY <2>2
  <2> HIDE DEF cr, fl, mx, r
  <2>4. r.scalable = b.scalable  BY <2>1 DEF Resized, Records
  <2>5. r.native = b.native  BY <2>1 DEF Resized, Records
  <2>6. r.aura = b.aura  BY <2>1 DEF Resized, Records
  <2>7. r.create = cr  BY <2>1 DEF Resized, Records
  <2>8. r.flat = fl  BY <2>1 DEF Resized, Records
  <2>9. r.max = mx  BY <2>1 DEF Resized, Records
  <2>10. Current(c, r, s)
    BY <1>4, <2>2, <2>3, <2>5, <2>6, <2>7, <2>8, <2>9 DEF Current
  <2> QED  BY <2>4, <2>10 DEF r
<1>5. CASE c \notin AuraAware
  <2> DEFINE cr == ScaleHealth(o2.create, f)  mx == ScaleHealth(o2.max, f)
  <2>1. r = Resized(b, cr, b.flat, mx)  BY <1>5 DEF Scaled
  <2>2. cr = ScaleHealth(b.native, f) /\ mx = ScaleHealth(b.native, f)
    BY <1>1, <1>5 DEF NativeBase
  <2> HIDE DEF cr, mx, r
  <2>3. r.scalable = b.scalable  BY <2>1 DEF Resized, Records
  <2>4. r.native = b.native  BY <2>1 DEF Resized, Records
  <2>5. r.create = cr  BY <2>1 DEF Resized, Records
  <2>6. r.max = mx  BY <2>1 DEF Resized, Records
  <2>7. Current(c, r, s)  BY <1>5, <2>2, <2>4, <2>5, <2>6 DEF Current
  <2> QED  BY <2>3, <2>7 DEF r
<1> QED  BY <1>4, <1>5

\* A newcomer is scaled at once or was passed over.
LEMMA NewcomerCurrent ==
    ASSUME Inv, NEW c \in Creatures, NEW n \in Natives[c], NEW h \in BOOLEAN
    PROVE  Current(c, Entered(c, Fresh(n, h), NoBase).body, reg)
<1> DEFINE w == Fresh(n, h)
<1>1. w \in Records /\ Sound(c, w, NoBase) /\ w.in  BY FreshSound
<1>2. reg \in Settings /\ NoBase \in Bases  BY AbsentSound DEF Inv
<1> HIDE DEF w
<1>3. CASE enabled /\ HasScaling /\ Reached(w)
  <2>1. Entered(c, w, NoBase).body = Scaled(c, w, Baseline(w, NoBase), reg)
    BY <1>3 DEF Entered
  <2>2. Current(c, Scaled(c, w, Baseline(w, NoBase), reg), reg)  BY <1>1, <1>2, ScaledCurrent
  <2> QED  BY <2>1, <2>2 DEF w
<1>4. CASE ~(enabled /\ HasScaling /\ Reached(w))
  <2> DEFINE r == [w EXCEPT !.passed = HasScaling]
  <2>1. Entered(c, w, NoBase).body = r  BY <1>4 DEF Entered
  <2>2. r.passed = reg.on  BY <1>1 DEF Records, HasScaling
  <2> HIDE DEF r
  <2>3. Current(c, r, reg)  BY <2>2 DEF Current
  <2> QED  BY <2>1, <2>3 DEF w
<1> QED  BY <1>3, <1>4

\* ApplyToMap makes every creature it does not pass over current with the settings
\* it is given.
LEMMA ApplyToMapCurrent ==
    ASSUME NEW bd, NEW bs, NEW s \in Settings, Typed(bd, bs), AllSound(bd, bs),
           ApplyToMap(bd, bs, s)
    PROVE  AllCurrent(body', s)
<1>1. ASSUME NEW c \in Creatures PROVE Current(c, body'[c], s)
  <2>1. bd[c] \in Records /\ bs[c] \in Bases /\ Sound(c, bd[c], bs[c])
    BY DEF Typed, AllSound
  <2>2. CASE s.on /\ Reached(bd[c])
    <3>1. body'[c] = Scaled(c, bd[c], Baseline(bd[c], bs[c]), s)  BY <2>2 DEF ApplyToMap
    <3>2. bd[c].in  BY <2>2 DEF Reached
    <3> QED  BY <2>1, <3>1, <3>2, ScaledCurrent
  <2>3. CASE s.on /\ ~Reached(bd[c])
    <3>1. body'[c] = PassedOver(bd[c])  BY <2>3 DEF ApplyToMap
    <3>2. SameHealth(bd[c], body'[c]) /\ body'[c].passed = (bd[c].in /\ bd[c].alive)
      BY <2>1, <3>1, PassedOverRest
    <3> QED  BY <3>2 DEF Current, SameHealth
  <2>4. CASE ~s.on  BY <2>4 DEF Current
  <2> QED  BY <2>2, <2>3, <2>4
<1> QED  BY <1>1 DEF AllCurrent

-----------------------------------------------------------------------------
LEMMA OnMapCreateCurrent ==
    ASSUME Inv, OnMapCreate PROVE AllCurrent(body', reg')
<1>1. PICK P \in SUBSET Creatures : \E n \in NativeChoices(P), H \in SUBSET P :
          LET new   == [c \in P |-> Entered(c, Fresh(n[c], c \in H), base[c])]
              present == [c \in Creatures |-> IF c \in P THEN new[c].body ELSE Absent]
              bases == [c \in Creatures |-> IF c \in P THEN new[c].base ELSE base[c]]
          IN  \/ /\ reg' = MakeSettings(target, TRUE)
                 /\ ApplyToMap(present, bases, MakeSettings(target, TRUE))
              \/ body' = present /\ UNCHANGED reg
  BY DEF OnMapCreate
<1>2. PICK n \in NativeChoices(P), H \in SUBSET P :
          LET new   == [c \in P |-> Entered(c, Fresh(n[c], c \in H), base[c])]
              present == [c \in Creatures |-> IF c \in P THEN new[c].body ELSE Absent]
              bases == [c \in Creatures |-> IF c \in P THEN new[c].base ELSE base[c]]
          IN  \/ /\ reg' = MakeSettings(target, TRUE)
                 /\ ApplyToMap(present, bases, MakeSettings(target, TRUE))
              \/ body' = present /\ UNCHANGED reg
  BY <1>1
<1> DEFINE new   == [c \in P |-> Entered(c, Fresh(n[c], c \in H), base[c])]
           bd == [c \in Creatures |-> IF c \in P THEN new[c].body ELSE Absent]
           bs == [c \in Creatures |-> IF c \in P THEN new[c].base ELSE base[c]]
<1>3. NoBases(base)  BY DEF OnMapCreate, Inv
<1>4. ASSUME NEW c \in Creatures
      PROVE  /\ bd[c] \in Records /\ bs[c] \in Bases /\ Sound(c, bd[c], bs[c])
             /\ Current(c, bd[c], reg)
  <2>1. base[c] = NoBase  BY <1>3 DEF NoBases
  <2>2. CASE c \notin P
    <3>1. bd[c] = Absent /\ bs[c] = NoBase  BY <2>1, <2>2
    <3> HIDE DEF bd, bs
    <3> QED  BY <3>1, AbsentSound DEF Current
  <2>3. CASE c \in P
    <3> DEFINE h == c \in H
    <3>0. h \in BOOLEAN  OBVIOUS
    <3>1. n[c] \in Natives[c]  BY <2>3 DEF NativeChoices
    <3>2. bd[c] = Entered(c, Fresh(n[c], h), NoBase).body  BY <2>1, <2>3
    <3>3. bs[c] = Entered(c, Fresh(n[c], h), NoBase).base  BY <2>1, <2>3
    <3> HIDE DEF bd, bs, h
    <3>4. bd[c] \in Records /\ bs[c] \in Bases /\ Sound(c, bd[c], bs[c])
      BY <3>0, <3>1, <3>2, <3>3, NewcomerSound
    <3>5. Current(c, bd[c], reg)  BY <3>0, <3>1, <3>2, NewcomerCurrent
    <3> QED  BY <3>4, <3>5
  <2> QED  BY <2>2, <2>3
<1>5. bd = [c \in Creatures |-> bd[c]] /\ bs = [c \in Creatures |-> bs[c]]  OBVIOUS
<1> HIDE DEF bd, bs, new
<1>6. Typed(bd, bs) /\ AllSound(bd, bs)  BY <1>4, <1>5 DEF Typed, AllSound
<1>7. AllCurrent(bd, reg)  BY <1>4 DEF AllCurrent
<1>8. CASE /\ reg' = MakeSettings(target, TRUE)
           /\ ApplyToMap(bd, bs, MakeSettings(target, TRUE))
  <2> DEFINE s == MakeSettings(target, TRUE)
  <2>1. s \in Settings
    <3>1. target \in Targets /\ TRUE \in BOOLEAN  BY DEF Inv
    <3> QED  BY <3>1, SettingsMade
  <2>2. ApplyToMap(bd, bs, s) /\ reg' = s  BY <1>8
  <2> HIDE DEF s
  <2> QED  BY <1>6, <1>7, <2>1, <2>2, ApplyToMapCurrent
<1>9. CASE body' = bd /\ UNCHANGED reg  BY <1>7, <1>9
<1> QED  BY <1>2, <1>8, <1>9 DEF bd, bs, new

LEMMA ResetBossCurrent ==
    ASSUME Inv, ResetBoss PROVE AllCurrent(body', reg')
<1>1. reg' = reg /\ reg \in Settings  BY DEF ResetBoss, Inv
<1>2. PICK S \in SUBSET Dead : \E n \in NativeChoices(S), H \in SUBSET S :
        ApplyToMap(
            [c \in Creatures |-> IF c \in S THEN Respawned(c, n[c], c \in H).body ELSE body[c]],
            [c \in Creatures |-> IF c \in S THEN Respawned(c, n[c], c \in H).base ELSE base[c]], reg)
  BY DEF ResetBoss
<1>3. PICK n \in NativeChoices(S), H \in SUBSET S :
        ApplyToMap(
            [c \in Creatures |-> IF c \in S THEN Respawned(c, n[c], c \in H).body ELSE body[c]],
            [c \in Creatures |-> IF c \in S THEN Respawned(c, n[c], c \in H).base ELSE base[c]], reg)
  BY <1>2
<1> DEFINE bd == [c \in Creatures |-> IF c \in S THEN Respawned(c, n[c], c \in H).body ELSE body[c]]
           bs == [c \in Creatures |-> IF c \in S THEN Respawned(c, n[c], c \in H).base ELSE base[c]]
<1>4. ASSUME NEW c \in Creatures
      PROVE  /\ bd[c] \in Records /\ bs[c] \in Bases /\ Sound(c, bd[c], bs[c])
  <2>1. CASE c \in S
    <3> DEFINE h == c \in H
    <3>0. h \in BOOLEAN  OBVIOUS
    <3>1. n[c] \in Natives[c]  BY <2>1 DEF NativeChoices
    <3>2. bd[c] = Entered(c, Fresh(n[c], h), NoBase).body
      BY <2>1 DEF Respawned, Forgotten
    <3>3. bs[c] = Entered(c, Fresh(n[c], h), NoBase).base
      BY <2>1 DEF Respawned, Forgotten
    <3> HIDE DEF bd, bs, h
    <3> QED  BY <3>0, <3>1, <3>2, <3>3, NewcomerSound
  <2>2. CASE c \notin S  BY <2>2 DEF Inv, Typed, AllSound
  <2> QED  BY <2>1, <2>2
<1>5. ApplyToMap(bd, bs, reg)  BY <1>3
<1>6. bd = [c \in Creatures |-> bd[c]] /\ bs = [c \in Creatures |-> bs[c]]  OBVIOUS
<1> HIDE DEF bd, bs
<1>7. Typed(bd, bs) /\ AllSound(bd, bs)  BY <1>4, <1>6 DEF Typed, AllSound
<1> QED  BY <1>1, <1>5, <1>7, ApplyToMapCurrent

\* One creature changes and stays current.
LEMMA OneCurrent ==
    ASSUME Inv, AllCurrent(body, reg), NEW c \in Creatures, NEW b,
           body' = [body EXCEPT ![c] = b], reg' = reg,
           Current(c, b, reg)
    PROVE  AllCurrent(body', reg')
<1>1. DOMAIN body = Creatures  BY DEF Inv, Typed
<1>2. ASSUME NEW d \in Creatures PROVE Current(d, body'[d], reg)
  <2>1. CASE d = c  BY <1>1, <2>1
  <2>2. CASE d # c
    <3>1. body'[d] = body[d]  BY <1>1, <2>2
    <3> QED  BY <3>1 DEF AllCurrent
  <2> QED  BY <2>1, <2>2
<1> QED  BY <1>2 DEF AllCurrent

LEMMA EnteringCurrent ==
    ASSUME Inv, AllCurrent(body, reg), NEW c \in Creatures,
           OnCreatureAddWorld(c) \/ OnCreatureRespawn(c)
    PROVE  AllCurrent(body', reg')
<1>1. PICK n \in Natives[c], h \in BOOLEAN :
        body' = [body EXCEPT ![c] = Entered(c, Fresh(n, h), NoBase).body]
  <2>1. CASE OnCreatureAddWorld(c)
    <3>1. base[c] = NoBase  BY <2>1, AbsentSound DEF OnCreatureAddWorld, Inv, AllSound, Sound
    <3> QED  BY <2>1, <3>1 DEF OnCreatureAddWorld
  <2>2. CASE OnCreatureRespawn(c)
    BY <2>2 DEF OnCreatureRespawn, Respawned, Forgotten
  <2> QED  BY <2>1, <2>2
<1>2. reg' = reg  BY DEF OnCreatureAddWorld, OnCreatureRespawn
<1> DEFINE b == Entered(c, Fresh(n, h), NoBase).body
<1>3. Current(c, b, reg)  BY NewcomerCurrent
<1>4. body' = [body EXCEPT ![c] = b]  BY <1>1
<1> HIDE DEF b
<1> QED  BY <1>2, <1>3, <1>4, OneCurrent

\* An encounter changes points, flags and auras; the auras rebuild the maximum
\* from the scaled flat modifier.
LEMMA EncounterCurrent ==
    ASSUME Inv, AllCurrent(body, reg), NEW c \in Creatures,
           Wounded(c) \/ Killed(c) \/ FlagsChange(c) \/ AuraChanges(c)
    PROVE  AllCurrent(body', reg')
<1> DEFINE b == body[c]
<1>1. b \in Records  BY DEF Inv, Typed
<1>2. Current(c, b, reg)  BY DEF AllCurrent
<1>3. CASE Wounded(c)
  <2>0. PICK left : body' = [body EXCEPT ![c] = [b EXCEPT !.hp = left]]
    BY <1>3 DEF Wounded, Becomes
  <2> DEFINE r == [b EXCEPT !.hp = left]
  <2>1. body' = [body EXCEPT ![c] = r] /\ reg' = reg  BY <1>3, <2>0 DEF Wounded, Becomes
  <2>2. Current(c, r, reg)  BY <1>1, <1>2 DEF Current, Records
  <2> HIDE DEF r
  <2> QED  BY <2>1, <2>2, OneCurrent
<1>4. CASE Killed(c)
  <2> DEFINE r == [b EXCEPT !.hp = 0, !.alive = FALSE]
  <2>1. body' = [body EXCEPT ![c] = r] /\ reg' = reg  BY <1>4 DEF Killed, Becomes
  <2>2. Current(c, r, reg)  BY <1>1, <1>2 DEF Current, Records
  <2> HIDE DEF r
  <2> QED  BY <2>1, <2>2, OneCurrent
<1>5. CASE FlagsChange(c)
  <2> DEFINE r == [b EXCEPT !.scalable = ~b.scalable]
  <2>1. body' = [body EXCEPT ![c] = r] /\ reg' = reg  BY <1>5 DEF FlagsChange, Becomes
  <2>2. Current(c, r, reg)  BY <1>1, <1>2 DEF Current, Records
  <2> HIDE DEF r
  <2> QED  BY <2>1, <2>2, OneCurrent
<1>6. CASE AuraChanges(c)
  <2>1. c \in AuraAware /\ b.alive  BY <1>6 DEF AuraChanges, Becomes
  <2>2. PICK a \in Auras :
          LET m == UpdateMaxHealth(b.flat, a) IN
          body' = [body EXCEPT ![c] =
                      [b EXCEPT !.aura = a, !.max = m, !.hp = Fraction(b.hp, b.max, m)]]
    BY <1>6 DEF AuraChanges, Becomes
  <2> DEFINE m == UpdateMaxHealth(b.flat, a)
             r == [b EXCEPT !.aura = a, !.max = m, !.hp = Fraction(b.hp, b.max, m)]
  <2>3. reg' = reg /\ body' = [body EXCEPT ![c] = r]  BY <1>6, <2>2 DEF AuraChanges, Becomes
  <2>4. /\ r.in = b.in /\ r.alive = b.alive /\ r.passed = b.passed
    BY <1>1 DEF Records
  <2>5. /\ r.native = b.native /\ r.create = b.create /\ r.flat = b.flat
        /\ r.aura = a /\ r.max = UpdateMaxHealth(b.flat, a)
    BY <1>1 DEF Records
  <2> HIDE DEF r, m, b
  <2>6. Current(c, r, reg)  BY <1>2, <2>1, <2>4, <2>5 DEF Current
  <2> QED  BY <2>3, <2>6, OneCurrent
<1> QED  BY <1>3, <1>4, <1>5, <1>6

\* Without scaling there is nothing to be current with.
LEMMA OffCurrent == ASSUME DisableForMap PROVE AllCurrent(body', reg')
<1>1. ~reg'.on  BY EntriesTyped DEF DisableForMap
<1> QED  BY <1>1 DEF AllCurrent, Current

LEMMA SetMultiplierCurrent ==
    ASSUME Inv, AllCurrent(body, reg), SetMultiplier
    PROVE  AllCurrent(body', reg')
<1>1. reg \in Settings /\ Typed(body, base) /\ AllSound(body, base)  BY DEF Inv
<1>2. CASE \E s \in Tuned : reg' = s /\ ApplyToMap(body, base, s)
  <2>1. PICK s \in Tuned : reg' = s /\ ApplyToMap(body, base, s)  BY <1>2
  <2>2. s \in Settings  BY <1>1, SettingsMade DEF Tuned, Settings
  <2> QED  BY <1>1, <2>1, <2>2, ApplyToMapCurrent
<1>3. CASE reg' = [reg EXCEPT !.fromDefault = FALSE] /\ UNCHANGED <<body, base>>
  <2>1. reg'.on = reg.on /\ reg'.boss = reg.boss /\ reg'.trash = reg.trash
    BY <1>1, <1>3 DEF Settings
  <2>2. \A c \in Creatures : FactorOf(c, reg') = FactorOf(c, reg)  BY <2>1 DEF FactorOf
  <2> QED  BY <1>3, <2>1, <2>2 DEF AllCurrent, Current
<1> QED  BY <1>2, <1>3 DEF SetMultiplier

LEMMA CurStep == CurInv /\ [Next]_vars => CurInv'
<1> SUFFICES ASSUME CurInv, [Next]_vars PROVE AllCurrent(body', reg')
  BY NextInv DEF CurInv
<1> USE DEF CurInv
<1>1. CASE OnMapCreate  BY <1>1, OnMapCreateCurrent
<1>2. CASE OnMapDestroy
  <2>1. \A c \in Creatures : ~body'[c].in
    BY <1>2 DEF OnMapDestroy, Absent
  <2> QED  BY <2>1 DEF AllCurrent, Current
<1>3. ASSUME NEW t \in Targets, EnableForMap(t) PROVE AllCurrent(body', reg')
  <2>1. MakeSettings(t, FALSE) \in Settings  BY SettingsMade
  <2>2. Typed(body, base) /\ AllSound(body, base)  BY DEF Inv
  <2> DEFINE s == MakeSettings(t, FALSE)
  <2>3. reg' = s /\ ApplyToMap(body, base, s)  BY <1>3 DEF EnableForMap
  <2> HIDE DEF s
  <2> QED  BY <2>1, <2>2, <2>3, ApplyToMapCurrent DEF s
<1>4. CASE CmdOff \/ ResetGroupBinds  BY <1>4, OffCurrent DEF CmdOff, ResetGroupBinds
<1>5. CASE SetMultiplier  BY <1>5, SetMultiplierCurrent
<1>6. CASE LoadConfig  BY <1>6 DEF LoadConfig, AllCurrent
<1>7. CASE ResetBoss  BY <1>7, ResetBossCurrent
<1>8. ASSUME NEW c \in Creatures, OnCreatureAddWorld(c) \/ OnCreatureRespawn(c)
      PROVE  AllCurrent(body', reg')
  BY <1>8, EnteringCurrent
<1>9. ASSUME NEW c \in Creatures,
             Wounded(c) \/ Killed(c) \/ FlagsChange(c) \/ AuraChanges(c)
      PROVE  AllCurrent(body', reg')
  BY <1>9, EncounterCurrent
<1>10. CASE UNCHANGED vars  BY <1>10 DEF vars, AllCurrent
<1> QED  BY <1>1, <1>2, <1>3, <1>4, <1>5, <1>6, <1>7, <1>8, <1>9, <1>10 DEF Next

\* A living creature carries the multiplier in force, not an earlier one and not
\* none; one the latest application passed over, a charmed elite for one, keeps its
\* native health if it never was scaled (ApplyToMap and its callers).
THEOREM ScaleInForce == Spec => []CurrentScale
<1>1. Init => CurInv
  <2>1. Init => AllCurrent(body, reg)
    BY AbsentSound DEF Init, AllCurrent, Current
  <2> QED  BY <2>1, InitInv DEF CurInv
<1>2. CurInv => CurrentScale
  BY DEF CurInv, Inv, AllSound, Sound, Native, AllCurrent, Current, CurrentScale, HasScaling
<1> QED  BY <1>1, <1>2, CurStep, PTL DEF Spec

-----------------------------------------------------------------------------
(* The health fraction: the proof of FractionKept. A living creature has at   *)
(* least one point and no more than its maximum, which FractionKept takes for *)
(* granted of the state before the step.                                      *)

Hale(b)       == (b.in /\ b.alive) => b.hp \in 1 .. b.max
AllHale(bd)   == \A c \in Creatures : Hale(bd[c])

\* What a step may do to the health of the record b that becomes r.
Moves(b, r) ==
    (r.in /\ r.alive) =>
        \/ ~(b.in /\ b.alive) /\ r.hp \in 1 .. r.max
        \/ b.in /\ b.alive /\ r.max = b.max /\ (r.hp = b.hp \/ r.hp \in 1 .. b.max)
        \/ b.in /\ b.alive /\ r.max >= 1 /\ r.hp = Fraction(b.hp, b.max, r.max)

\* What FractionKept says of one creature.
Kept(b, new) ==
    LET d == new.hp * b.max - b.hp * new.max IN
    (b.in /\ b.alive /\ new.in /\ new.alive /\ new.max # b.max) =>
        new.hp > 0 /\ (2 * d <= b.max \/ new.hp = 1) /\ -2 * d <= b.max

\* The rounded share h of m of a new maximum: within it, and half a point exact.
LEMMA FractionBounds ==
    ASSUME NEW m \in Nat, NEW h \in 1 .. m, NEW new \in Nat \ {0}
    PROVE  /\ Fraction(h, m, new) \in 1 .. new
           /\ \/ 2 * (Fraction(h, m, new) * m - h * new) <= m
              \/ Fraction(h, m, new) = 1
           /\ -2 * (Fraction(h, m, new) * m - h * new) <= m
<1>1. CASE h >= m
  <2>1. h = m  BY <1>1
  <2>2. Fraction(h, m, new) = new  BY <2>1 DEF Fraction, AtLeastOne
  <2>3. new * m - h * new = 0  BY <2>1
  <2> QED  BY <2>2, <2>3
<1>2. CASE h < m
  <2> DEFINE a == new * h  n == 2 * a + m  d == 2 * m  q == n \div d
  <2>1. a \in Nat /\ n \in Nat /\ d \in Nat \ {0} /\ m \in Nat \ {0}  BY <1>2
  <2>2. q \in Int /\ d * q <= n /\ n < d * q + d
    <3> HIDE DEF n, d
    <3> QED  BY <2>1
  <2>3. a = h * new  OBVIOUS
  <2> DEFINE p == q * m
  <2>4. d * q = 2 * p /\ p \in Int  BY <2>2
  <2>5. Fraction(h, m, new) = IF q < 1 THEN 1 ELSE q
    BY <1>2 DEF Fraction, Rounded, AtLeastOne
  <2>6. q <= new
    <3>1. SUFFICES ASSUME q >= new + 1 PROVE FALSE  BY <2>2
    <3>2. p >= (new + 1) * m
      <4>1. q - (new + 1) \in Nat  BY <2>2, <3>1
      <4>2. (q - (new + 1)) * m >= 0  BY <4>1
      <4> QED  BY <4>2, <2>2
    <3>3. (new + 1) * m = new * m + m /\ new * m \in Nat  OBVIOUS
    <3>4. a <= new * m
      <4>1. (m - h) * new >= 0  BY <1>2
      <4> QED  BY <4>1
    <3> HIDE DEF a, p, q, n
    <3>5. 2 * p <= 2 * a + m  BY <2>2, <2>4 DEF n
    <3> QED  BY <3>2, <3>3, <3>4, <3>5, <2>1, <2>4
  <2>7. 2 * p <= 2 * a + m /\ 2 * a < 2 * p + m
    <3> HIDE DEF a, p, q
    <3> QED  BY <2>1, <2>2, <2>4
  <2>8. CASE q < 1
    <3>1. q <= 0  BY <2>2, <2>8
    <3>2. p <= 0
      <4>1. (0 - q) * m >= 0  BY <2>2, <3>1
      <4> QED  BY <4>1, <2>2
    <3> HIDE DEF a, p, q
    <3>3. 2 * a <= m  BY <2>1, <2>4, <2>7, <3>2
    <3>4. -2 * (1 * m - a) <= m  BY <2>1, <3>3
    <3> QED  BY <2>3, <2>5, <2>8, <3>4
  <2>9. CASE ~(q < 1)
    <3>1. Fraction(h, m, new) = q  BY <2>5, <2>9
    <3>2. 2 * (p - a) <= m /\ -2 * (p - a) <= m
      <4> HIDE DEF a, p, q
      <4> QED  BY <2>1, <2>4, <2>7
    <3> HIDE DEF q, a
    <3> QED  BY <2>2, <2>3, <2>6, <2>9, <3>1, <3>2
  <2> QED  BY <2>8, <2>9
<1> QED  BY <1>1, <1>2

\* Such a step keeps a creature hale, and its fraction.
LEMMA MovesKeeps ==
    ASSUME NEW b \in Records, NEW r \in Records, Hale(b), Moves(b, r)
    PROVE  Hale(r) /\ Kept(b, r)
<1>1. b.max \in Nat /\ b.hp \in Nat /\ r.max \in Nat /\ r.hp \in Nat  BY DEF Records
<1>2. CASE ~(r.in /\ r.alive)  BY <1>2 DEF Hale, Kept
<1>3. CASE ~(b.in /\ b.alive) /\ r.hp \in 1 .. r.max  BY <1>3 DEF Hale, Kept
<1>4. CASE b.in /\ b.alive /\ r.max = b.max /\ (r.hp = b.hp \/ r.hp \in 1 .. b.max)
  BY <1>4 DEF Hale, Kept
<1>5. CASE b.in /\ b.alive /\ r.max >= 1 /\ r.hp = Fraction(b.hp, b.max, r.max)
  <2>1. b.hp \in 1 .. b.max /\ r.max \in Nat \ {0}  BY <1>1, <1>5 DEF Hale
  <2>2. /\ r.hp \in 1 .. r.max
        /\ 2 * (r.hp * b.max - b.hp * r.max) <= b.max \/ r.hp = 1
        /\ -2 * (r.hp * b.max - b.hp * r.max) <= b.max
    <3> DEFINE h == b.hp  m == b.max  new == r.max
    <3>1. m \in Nat /\ h \in 1 .. m /\ new \in Nat \ {0}  BY <1>1, <2>1
    <3>2. r.hp = Fraction(h, m, new)  BY <1>5
    <3> HIDE DEF h, m, new
    <3>3. /\ Fraction(h, m, new) \in 1 .. new
          /\ \/ 2 * (Fraction(h, m, new) * m - h * new) <= m
             \/ Fraction(h, m, new) = 1
          /\ -2 * (Fraction(h, m, new) * m - h * new) <= m
      BY <3>1, FractionBounds
    <3> QED  BY <3>2, <3>3 DEF h, m, new
  <2>3. r.hp > 0  BY <2>2
  <2> QED  BY <2>2, <2>3 DEF Hale, Kept
<1> QED  BY <1>2, <1>3, <1>4, <1>5 DEF Moves

\* Resizing to a maximum of at least one is such a step.
LEMMA ResizedMoves ==
    ASSUME NEW b \in Records, NEW create, NEW flat, NEW max \in Nat, max >= 1, b.in
    PROVE  Moves(b, Resized(b, create, flat, max))
<1> DEFINE r == Resized(b, create, flat, max)
<1>1. r.in = b.in  BY DEF Resized, Records
<1>2. r.alive = b.alive  BY DEF Resized, Records
<1>3. r.max = max  BY DEF Resized, Records
<1>4. r.hp = HealthOf(b, max)  BY DEF Resized, Records
<1> HIDE DEF r
<1>5. b.alive => r.hp = Fraction(b.hp, b.max, max)  BY <1>4 DEF HealthOf
<1>6. Moves(b, r)  BY <1>1, <1>2, <1>3, <1>5 DEF Moves
<1> QED  BY <1>6 DEF r

LEMMA ScaledMoves ==
    ASSUME NEW c \in Creatures, NEW b \in Records, NEW o \in Bases, NEW s \in Settings,
           Sound(c, b, o), b.in
    PROVE  Moves(b, Scaled(c, b, Baseline(b, o), s))
<1> DEFINE o2 == Baseline(b, o)  f == FactorOf(c, s)
<1>1. o2 \in Bases  BY BaselineSound
<1>2. f \in Nat  BY DEF FactorOf, Settings
<1>3. o2.max \in Nat /\ o2.flat \in Nat /\ b.aura \in Nat  BY <1>1 DEF Bases, Records
<1> HIDE DEF o2, f
<1>4. CASE c \in AuraAware
  <2> DEFINE fl == (o2.flat * f) \div Original
             mx == UpdateMaxHealth(fl, b.aura)
             cr == ScaleHealth(o2.create, f)
  <2>1. fl \in Nat
    <3>1. o2.flat * f \in Nat  BY <1>2, <1>3
    <3> QED  BY <3>1, DivNat, ScalingAssumption
  <2>2. Scaled(c, b, o2, s) = Resized(b, cr, fl, mx)  BY <1>4 DEF Scaled, f
  <2> HIDE DEF fl
  <2>3. mx \in Nat /\ mx >= 1  BY <1>3, <2>1, UpdateMaxHealthNat
  <2> HIDE DEF mx, cr
  <2>4. Moves(b, Resized(b, cr, fl, mx))  BY <2>3, ResizedMoves
  <2> QED  BY <2>2, <2>4 DEF o2
<1>5. CASE c \notin AuraAware
  <2> DEFINE mx == ScaleHealth(o2.max, f)  cr == ScaleHealth(o2.create, f)
  <2>1. Scaled(c, b, o2, s) = Resized(b, cr, b.flat, mx)  BY <1>5 DEF Scaled, f
  <2>2. mx \in Nat /\ mx >= 1  BY <1>2, <1>3, ScaleHealthNat
  <2> HIDE DEF mx, cr
  <2>3. Moves(b, Resized(b, cr, b.flat, mx))  BY <2>2, ResizedMoves
  <2> QED  BY <2>1, <2>3 DEF o2
<1> QED  BY <1>4, <1>5

LEMMA RestoredMoves ==
    ASSUME NEW c \in Creatures, NEW b \in Records, NEW o \in Bases, Sound(c, b, o), o # NoBase
    PROVE  Moves(b, Restored(c, b, o))
<1>1. NativeBase(c, b, o) /\ b.in /\ b.native # 0  BY DEF Sound
<1>2. o.max \in Nat /\ o.flat \in Nat /\ b.aura \in Nat /\ b.native \in Nat
  BY DEF Bases, Records
<1>3. CASE c \in AuraAware
  <2> DEFINE mx == UpdateMaxHealth(o.flat, b.aura)
  <2>1. Restored(c, b, o) = Resized(b, o.create, o.flat, mx)  BY <1>3 DEF Restored
  <2>2. mx \in Nat /\ mx >= 1  BY <1>2, UpdateMaxHealthNat
  <2> HIDE DEF mx
  <2> QED  BY <1>1, <2>1, <2>2, ResizedMoves
<1>4. CASE c \notin AuraAware
  <2>1. Restored(c, b, o) = Resized(b, o.create, b.flat, o.max)  BY <1>4 DEF Restored
  <2>2. o.max >= 1  BY <1>1, <1>2, <1>4 DEF NativeBase
  <2> QED  BY <1>1, <1>2, <2>1, <2>2, ResizedMoves
<1> QED  BY <1>3, <1>4

\* A newcomer has full health, scaled or not.
LEMMA NewcomerHale ==
    ASSUME Inv, NEW c \in Creatures, NEW n \in Natives[c], NEW h \in BOOLEAN
    PROVE  Hale(Entered(c, Fresh(n, h), NoBase).body)
<1> DEFINE w == Fresh(n, h)
<1>1. w \in Records /\ Sound(c, w, NoBase) /\ w.in  BY FreshSound
<1>2. n \in Nat \ {0}  BY ScalingAssumption
<1>3. w.hp = n /\ w.max = n  BY DEF Fresh
<1> HIDE DEF w
<1>4. Hale(w)  BY <1>2, <1>3 DEF Hale
<1>5. reg \in Settings /\ NoBase \in Bases  BY AbsentSound DEF Inv
<1>6. CASE enabled /\ HasScaling /\ Reached(w)
  <2> DEFINE r == Scaled(c, w, Baseline(w, NoBase), reg)
  <2>1. Entered(c, w, NoBase).body = r  BY <1>6 DEF Entered
  <2>2. Moves(w, r) /\ r \in Records  BY <1>1, <1>5, ScaledMoves, ScaledSound
  <2> HIDE DEF r
  <2>3. Hale(r)  BY <1>1, <1>4, <2>2, MovesKeeps
  <2> QED  BY <2>1, <2>3 DEF w
<1>7. CASE ~(enabled /\ HasScaling /\ Reached(w))
  <2> DEFINE r == [w EXCEPT !.passed = HasScaling]
  <2>1. Entered(c, w, NoBase).body = r  BY <1>7 DEF Entered
  <2>2. r.in = w.in /\ r.alive = w.alive /\ r.hp = w.hp /\ r.max = w.max
    BY <1>1 DEF Records
  <2> HIDE DEF r
  <2>3. Hale(r)  BY <1>4, <2>2 DEF Hale
  <2> QED  BY <2>1, <2>3 DEF w
<1> QED  BY <1>6, <1>7

LEMMA StillMoves == ASSUME NEW b PROVE Moves(b, b)
BY DEF Moves

LEMMA SameMoves ==
    ASSUME NEW b, NEW r, SameHealth(b, r)
    PROVE  Moves(b, r) /\ (Hale(b) => Hale(r))
BY DEF SameHealth, Moves, Hale

\* ApplyToMap moves every creature it reaches, and leaves all hale.
LEMMA ApplyToMapMoves ==
    ASSUME NEW bd, NEW bs, NEW s \in Settings, Typed(bd, bs), AllSound(bd, bs),
           ApplyToMap(bd, bs, s), NEW c \in Creatures
    PROVE  Moves(bd[c], body'[c]) /\ (Hale(bd[c]) => Hale(body'[c]))
<1>1. bd[c] \in Records /\ bs[c] \in Bases /\ Sound(c, bd[c], bs[c])  BY DEF Typed, AllSound
<1>2. CASE s.on /\ Reached(bd[c])
  <2>1. body'[c] = Scaled(c, bd[c], Baseline(bd[c], bs[c]), s)  BY <1>2 DEF ApplyToMap
  <2>2. bd[c].in  BY <1>2 DEF Reached
  <2>3. Moves(bd[c], body'[c])  BY <1>1, <2>1, <2>2, ScaledMoves
  <2>4. body'[c] \in Records  BY <1>1, <2>1, <2>2, ScaledSound
  <2> QED  BY <1>1, <2>3, <2>4, MovesKeeps
<1>3. CASE s.on /\ ~Reached(bd[c])
  <2>1. body'[c] = PassedOver(bd[c])  BY <1>3 DEF ApplyToMap
  <2>2. SameHealth(bd[c], body'[c])  BY <1>1, <2>1, PassedOverRest
  <2>3. bd[c].in \in BOOLEAN /\ bd[c].alive \in BOOLEAN  BY <1>1 DEF Records
  <2> QED  BY <2>2, <2>3, SameMoves
<1>4. CASE ~s.on
  <2>1. body'[c] = bd[c]  BY <1>4 DEF ApplyToMap
  <2> QED  BY <2>1, StillMoves
<1> QED  BY <1>2, <1>3, <1>4

\* What was not there alive may come with any health it is hale with.
LEMMA NewMoves ==
    ASSUME NEW b, NEW r, ~(b.in /\ b.alive), Hale(r)
    PROVE  Moves(b, r)
BY DEF Moves, Hale

LEMMA OnMapCreateMoves ==
    ASSUME Inv, OnMapCreate, NEW c \in Creatures PROVE Moves(body[c], body'[c])
<1>1. PICK P \in SUBSET Creatures : \E n \in NativeChoices(P), H \in SUBSET P :
          LET new   == [d \in P |-> Entered(d, Fresh(n[d], d \in H), base[d])]
              present == [d \in Creatures |-> IF d \in P THEN new[d].body ELSE Absent]
              bases == [d \in Creatures |-> IF d \in P THEN new[d].base ELSE base[d]]
          IN  \/ ApplyToMap(present, bases, MakeSettings(target, TRUE))
              \/ body' = present
  BY DEF OnMapCreate
<1>2. PICK n \in NativeChoices(P), H \in SUBSET P :
          LET new   == [d \in P |-> Entered(d, Fresh(n[d], d \in H), base[d])]
              present == [d \in Creatures |-> IF d \in P THEN new[d].body ELSE Absent]
              bases == [d \in Creatures |-> IF d \in P THEN new[d].base ELSE base[d]]
          IN  \/ ApplyToMap(present, bases, MakeSettings(target, TRUE))
              \/ body' = present
  BY <1>1
<1> DEFINE new   == [d \in P |-> Entered(d, Fresh(n[d], d \in H), base[d])]
           present == [d \in Creatures |-> IF d \in P THEN new[d].body ELSE Absent]
           bases == [d \in Creatures |-> IF d \in P THEN new[d].base ELSE base[d]]
<1>3. NoBases(base) /\ ~body[c].in  BY DEF OnMapCreate, Inv
<1>4. ASSUME NEW d \in Creatures
      PROVE  /\ present[d] \in Records /\ bases[d] \in Bases /\ Sound(d, present[d], bases[d])
             /\ Hale(present[d])
  <2>1. base[d] = NoBase  BY <1>3 DEF NoBases
  <2>2. CASE d \notin P
    <3>1. present[d] = Absent /\ bases[d] = NoBase  BY <2>1, <2>2
    <3> HIDE DEF present, bases
    <3> QED  BY <3>1, AbsentSound DEF Hale
  <2>3. CASE d \in P
    <3> DEFINE h == d \in H
    <3>0. h \in BOOLEAN  OBVIOUS
    <3>1. n[d] \in Natives[d]  BY <2>3 DEF NativeChoices
    <3>2. present[d] = Entered(d, Fresh(n[d], h), NoBase).body  BY <2>1, <2>3
    <3>3. bases[d] = Entered(d, Fresh(n[d], h), NoBase).base  BY <2>1, <2>3
    <3> HIDE DEF present, bases, h
    <3> QED  BY <3>0, <3>1, <3>2, <3>3, NewcomerSound, NewcomerHale
  <2> QED  BY <2>2, <2>3
<1>5. present = [d \in Creatures |-> present[d]] /\ bases = [d \in Creatures |-> bases[d]]  OBVIOUS
<1>6. \/ ApplyToMap(present, bases, MakeSettings(target, TRUE))
      \/ body' = present
  BY <1>2
<1> HIDE DEF present, bases, new
<1>7. Typed(present, bases) /\ AllSound(present, bases)  BY <1>4, <1>5 DEF Typed, AllSound
<1>8. MakeSettings(target, TRUE) \in Settings
  <2>1. target \in Targets /\ TRUE \in BOOLEAN  BY DEF Inv
  <2> QED  BY <2>1, SettingsMade
<1> DEFINE s == MakeSettings(target, TRUE)
<1>9. Hale(body'[c])
  <2>1. CASE ApplyToMap(present, bases, s)
    <3> HIDE DEF s
    <3> QED  BY <1>4, <1>7, <1>8, <2>1, ApplyToMapMoves DEF s
  <2>2. CASE body' = present  BY <1>4, <2>2
  <2> QED  BY <1>6, <2>1, <2>2
<1> QED  BY <1>3, <1>9, NewMoves

LEMMA ResetBossMoves ==
    ASSUME Inv, AllHale(body), ResetBoss, NEW c \in Creatures PROVE Moves(body[c], body'[c])
<1>1. reg \in Settings  BY DEF Inv
<1>2. PICK S \in SUBSET Dead : \E n \in NativeChoices(S), H \in SUBSET S :
        ApplyToMap(
            [d \in Creatures |-> IF d \in S THEN Respawned(d, n[d], d \in H).body ELSE body[d]],
            [d \in Creatures |-> IF d \in S THEN Respawned(d, n[d], d \in H).base ELSE base[d]], reg)
  BY DEF ResetBoss
<1>3. PICK n \in NativeChoices(S), H \in SUBSET S :
        ApplyToMap(
            [d \in Creatures |-> IF d \in S THEN Respawned(d, n[d], d \in H).body ELSE body[d]],
            [d \in Creatures |-> IF d \in S THEN Respawned(d, n[d], d \in H).base ELSE base[d]], reg)
  BY <1>2
<1> DEFINE bd == [d \in Creatures |-> IF d \in S THEN Respawned(d, n[d], d \in H).body ELSE body[d]]
           bs == [d \in Creatures |-> IF d \in S THEN Respawned(d, n[d], d \in H).base ELSE base[d]]
<1>4. ASSUME NEW d \in Creatures
      PROVE  /\ bd[d] \in Records /\ bs[d] \in Bases /\ Sound(d, bd[d], bs[d])
             /\ d \in S => Hale(bd[d]) /\ ~body[d].alive
             /\ d \notin S => bd[d] = body[d]
  <2>1. CASE d \in S
    <3> DEFINE h == d \in H
    <3>0. h \in BOOLEAN  OBVIOUS
    <3>1. n[d] \in Natives[d]  BY <2>1 DEF NativeChoices
    <3>2. bd[d] = Entered(d, Fresh(n[d], h), NoBase).body
      BY <2>1 DEF Respawned, Forgotten
    <3>3. bs[d] = Entered(d, Fresh(n[d], h), NoBase).base
      BY <2>1 DEF Respawned, Forgotten
    <3>4. ~body[d].alive  BY <2>1 DEF Dead
    <3> HIDE DEF bd, bs, h
    <3> QED  BY <2>1, <3>0, <3>1, <3>2, <3>3, <3>4, NewcomerSound, NewcomerHale
  <2>2. CASE d \notin S  BY <2>2 DEF Inv, Typed, AllSound
  <2> QED  BY <2>1, <2>2
<1>5. ApplyToMap(bd, bs, reg)  BY <1>3
<1>6. bd = [d \in Creatures |-> bd[d]] /\ bs = [d \in Creatures |-> bs[d]]  OBVIOUS
<1> HIDE DEF bd, bs
<1>7. Typed(bd, bs) /\ AllSound(bd, bs)  BY <1>4, <1>6 DEF Typed, AllSound
<1>8. Moves(bd[c], body'[c]) /\ (Hale(bd[c]) => Hale(body'[c]))
  BY <1>1, <1>5, <1>7, ApplyToMapMoves
<1>9. CASE c \in S  BY <1>4, <1>8, <1>9, NewMoves
<1>10. CASE c \notin S  BY <1>4, <1>8, <1>10
<1> QED  BY <1>9, <1>10

LEMMA DisableMoves ==
    ASSUME Inv, DisableForMap, NEW c \in Creatures PROVE Moves(body[c], body'[c])
<1>1. body[c] \in Records /\ base[c] \in Bases /\ Sound(c, body[c], base[c])
  BY DEF Inv, Typed, AllSound
<1>2. body'[c] = IF Restorable(c) THEN Restored(c, body[c], base[c]) ELSE body[c]
  BY DEF DisableForMap
<1>3. CASE Restorable(c)  BY <1>1, <1>2, <1>3, RestoredMoves DEF Restorable
<1>4. CASE ~Restorable(c)  BY <1>2, <1>4, StillMoves
<1> QED  BY <1>3, <1>4

LEMMA EnteringMoves ==
    ASSUME Inv, NEW d \in Creatures, OnCreatureAddWorld(d) \/ OnCreatureRespawn(d),
           NEW c \in Creatures
    PROVE  Moves(body[c], body'[c])
<1>1. PICK n \in Natives[d], h \in BOOLEAN :
        body' = [body EXCEPT ![d] = Entered(d, Fresh(n, h), NoBase).body]
  <2>1. CASE OnCreatureAddWorld(d)
    <3>1. base[d] = NoBase  BY <2>1, AbsentSound DEF OnCreatureAddWorld, Inv, AllSound, Sound
    <3> QED  BY <2>1, <3>1 DEF OnCreatureAddWorld
  <2>2. CASE OnCreatureRespawn(d)
    BY <2>2 DEF OnCreatureRespawn, Respawned, Forgotten
  <2> QED  BY <2>1, <2>2
<1>2. ~(body[d].in /\ body[d].alive)
  BY DEF OnCreatureAddWorld, OnCreatureRespawn, Dead, Absent
<1>3. DOMAIN body = Creatures  BY DEF Inv, Typed
<1> DEFINE r == Entered(d, Fresh(n, h), NoBase).body
<1>4. Hale(r)  BY NewcomerHale
<1>5. body' = [body EXCEPT ![d] = r]  BY <1>1
<1> HIDE DEF r
<1>6. CASE c = d
  <2>1. body'[c] = r  BY <1>3, <1>5, <1>6
  <2> QED  BY <1>2, <1>4, <1>6, <2>1, NewMoves
<1>7. CASE c # d
  <2>1. body'[c] = body[c]  BY <1>3, <1>5, <1>7
  <2> QED  BY <2>1, StillMoves
<1> QED  BY <1>6, <1>7

LEMMA EncounterMoves ==
    ASSUME Inv, AllHale(body), NEW d \in Creatures,
           Wounded(d) \/ Killed(d) \/ FlagsChange(d) \/ AuraChanges(d),
           NEW c \in Creatures
    PROVE  Moves(body[c], body'[c])
<1> DEFINE b == body[d]
<1>1. b \in Records /\ DOMAIN body = Creatures  BY DEF Inv, Typed
<1>2. b.in /\ b.alive
  BY DEF Wounded, Killed, FlagsChange, AuraChanges, Becomes
<1>3. b.max \in Nat /\ b.hp \in 1 .. b.max  BY <1>1, <1>2 DEF AllHale, Hale, Records
<1>4. PICK r : body' = [body EXCEPT ![d] = r] /\ Moves(b, r)
  <2>1. CASE Wounded(d)
    <3>1. PICK left \in {1, AtLeastOne(b.max \div 2)} :
            body' = [body EXCEPT ![d] = [b EXCEPT !.hp = left]]
      BY <2>1 DEF Wounded, Becomes
    <3> DEFINE r == [b EXCEPT !.hp = left]
    <3>2. left \in 1 .. b.max
      <4>1. b.max \div 2 \in Nat /\ b.max \div 2 <= b.max  BY <1>3
      <4> QED  BY <1>3, <4>1 DEF AtLeastOne
    <3>3. r.in = b.in /\ r.alive = b.alive /\ r.max = b.max /\ r.hp = left
      BY <1>1 DEF Records
    <3>4. body' = [body EXCEPT ![d] = r]  BY <3>1
    <3> HIDE DEF r, b
    <3>5. Moves(b, r)  BY <1>2, <3>2, <3>3 DEF Moves
    <3> QED  BY <3>4, <3>5
  <2>2. CASE Killed(d)
    <3> DEFINE r == [b EXCEPT !.hp = 0, !.alive = FALSE]
    <3>1. body' = [body EXCEPT ![d] = r]  BY <2>2 DEF Killed, Becomes
    <3>2. ~r.alive  BY <1>1 DEF Records
    <3> HIDE DEF r
    <3>3. Moves(b, r)  BY <3>2 DEF Moves
    <3> QED  BY <3>1, <3>3
  <2>3. CASE FlagsChange(d)
    <3> DEFINE r == [b EXCEPT !.scalable = ~b.scalable]
    <3>1. body' = [body EXCEPT ![d] = r]  BY <2>3 DEF FlagsChange, Becomes
    <3>2. r.in = b.in /\ r.alive = b.alive /\ r.max = b.max /\ r.hp = b.hp
      BY <1>1 DEF Records
    <3> HIDE DEF r
    <3>3. Moves(b, r)  BY <1>2, <3>2 DEF Moves
    <3> QED  BY <3>1, <3>3
  <2>4. CASE AuraChanges(d)
    <3>1. PICK a \in Auras :
            LET m == UpdateMaxHealth(b.flat, a) IN
            body' = [body EXCEPT ![d] =
                        [b EXCEPT !.aura = a, !.max = m, !.hp = Fraction(b.hp, b.max, m)]]
      BY <2>4 DEF AuraChanges, Becomes
    <3> DEFINE m == UpdateMaxHealth(b.flat, a)
               r == [b EXCEPT !.aura = a, !.max = m, !.hp = Fraction(b.hp, b.max, m)]
    <3>2. body' = [body EXCEPT ![d] = r]  BY <3>1
    <3>3. a \in Nat /\ b.flat \in Nat  BY <1>1, ScalingAssumption DEF Records
    <3>4. m \in Nat /\ m >= 1  BY <3>3, UpdateMaxHealthNat
    <3> HIDE DEF m
    <3>5. r.max = m  BY <1>1 DEF Records
    <3>6. r.hp = Fraction(b.hp, b.max, m)  BY <1>1 DEF Records
    <3> HIDE DEF r, b
    <3>7. Moves(b, r)  BY <1>2, <3>4, <3>5, <3>6 DEF Moves
    <3> QED  BY <3>2, <3>7
  <2> QED  BY <2>1, <2>2, <2>3, <2>4
<1>5. CASE c = d
  <2>1. body'[c] = r  BY <1>1, <1>4, <1>5
  <2> QED  BY <1>4, <1>5, <2>1
<1>6. CASE c # d
  <2>1. body'[c] = body[c]  BY <1>1, <1>4, <1>6
  <2> QED  BY <2>1, StillMoves
<1> QED  BY <1>5, <1>6

\* Every step moves every creature's health so.
LEMMA StepMoves ==
    ASSUME Inv, AllHale(body), [Next]_vars, NEW c \in Creatures
    PROVE  Moves(body[c], body'[c])
<1>0. Typed(body, base) /\ AllSound(body, base) /\ reg \in Settings  BY DEF Inv
<1>1. CASE OnMapCreate  BY <1>1, OnMapCreateMoves
<1>2. CASE OnMapDestroy
  <2>1. ~body'[c].in  BY <1>2 DEF OnMapDestroy, Absent
  <2> QED  BY <2>1 DEF Moves
<1>3. ASSUME NEW t \in Targets, EnableForMap(t) PROVE Moves(body[c], body'[c])
  <2> DEFINE s == MakeSettings(t, FALSE)
  <2>1. s \in Settings  BY SettingsMade
  <2>2. ApplyToMap(body, base, s)  BY <1>3 DEF EnableForMap
  <2> HIDE DEF s
  <2> QED  BY <1>0, <2>1, <2>2, ApplyToMapMoves
<1>4. CASE CmdOff \/ ResetGroupBinds  BY <1>4, DisableMoves DEF CmdOff, ResetGroupBinds
<1>5. CASE SetMultiplier
  <2>1. CASE \E s \in Tuned : ApplyToMap(body, base, s)
    <3>1. PICK s \in Tuned : ApplyToMap(body, base, s)  BY <2>1
    <3>2. s \in Settings  BY <1>0, SettingsMade DEF Tuned, Settings
    <3> QED  BY <1>0, <3>1, <3>2, ApplyToMapMoves
  <2>2. CASE body' = body  BY <2>2, StillMoves
  <2> QED  BY <1>5, <2>1, <2>2 DEF SetMultiplier
<1>6. CASE LoadConfig \/ UNCHANGED vars  BY <1>6, StillMoves DEF LoadConfig, vars
<1>7. CASE ResetBoss  BY <1>7, ResetBossMoves
<1>8. ASSUME NEW d \in Creatures, OnCreatureAddWorld(d) \/ OnCreatureRespawn(d)
      PROVE  Moves(body[c], body'[c])
  BY <1>8, EnteringMoves
<1>9. ASSUME NEW d \in Creatures,
             Wounded(d) \/ Killed(d) \/ FlagsChange(d) \/ AuraChanges(d)
      PROVE  Moves(body[c], body'[c])
  BY <1>9, EncounterMoves
<1> QED  BY <1>1, <1>2, <1>3, <1>4, <1>5, <1>6, <1>7, <1>8, <1>9 DEF Next

LEMMA StepHale ==
    ASSUME Inv, AllHale(body), [Next]_vars
    PROVE  AllHale(body') /\ \A c \in Creatures : Kept(body[c], body'[c])
<1>1. Inv'  BY NextInv
<1> SUFFICES ASSUME NEW c \in Creatures PROVE Hale(body'[c]) /\ Kept(body[c], body'[c])
  BY DEF AllHale
<1>2. body[c] \in Records /\ body'[c] \in Records  BY <1>1 DEF Inv, Typed
<1>3. Moves(body[c], body'[c])  BY StepMoves
<1>4. Hale(body[c])  BY DEF AllHale
<1> QED  BY <1>2, <1>3, <1>4, MovesKeeps

\* A change of a living creature's maximum keeps its fraction of it to within half
\* a point, and never kills it, for every multiplier, aura and wound; only the last
\* point may be more than its share (the health ends of ApplyToCreature and
\* RestoreCreature).
THEOREM FractionKeptHolds == Spec => FractionKept
<1> DEFINE FracInv == Inv /\ AllHale(body)
<1>1. Init => FracInv
  <2>1. Init => AllHale(body)  BY DEF Init, AllHale, Hale, Absent
  <2> QED  BY <2>1, InitInv
<1>2. FracInv /\ [Next]_vars => FracInv'
  <2> SUFFICES ASSUME FracInv, [Next]_vars PROVE FracInv'  OBVIOUS
  <2>1. Inv'  BY NextInv
  <2>2. AllHale(body')  BY StepHale
  <2> QED  BY <2>1, <2>2 DEF AllHale
<1>3. ASSUME FracInv, [Next]_vars
      PROVE  [\A c \in Creatures :
                LET b == body[c] new == body'[c] d == new.hp * b.max - b.hp * new.max IN
                (b.in /\ b.alive /\ new.in /\ new.alive /\ new.max # b.max) =>
                  new.hp > 0 /\ (2 * d <= b.max \/ new.hp = 1) /\ -2 * d <= b.max]_vars
  BY <1>3, StepHale DEF Kept
<1> QED  BY <1>1, <1>2, <1>3, PTL DEF Spec, FractionKept

-----------------------------------------------------------------------------
(* Whose creatures are scaled, for every instance, walk and budget.            *)

\* Every nonempty set of naturals has a least element, and a set that has 0 and
\* each successor has them all.
LEMMA NatMin == ASSUME NEW T, T \subseteq Nat, T # {} PROVE \E m \in T : \A y \in T : m <= y
<1> DEFINE R == {ss \in Nat \X Nat : ss[1] < ss[2]}
<1>1. IsWellFoundedOn(R, Nat)  BY NatLessThanWellFounded DEF OpToRel
<1>2. \A x, y \in Nat : y < x => <<y, x>> \in R  OBVIOUS
<1> HIDE DEF R
<1>3. PICK m \in T : \A y \in T : ~(<<y, m>> \in R)  BY <1>1, WFMin
<1>4. \A y \in T : ~(y < m)  BY <1>2, <1>3
<1>5. \A y \in T : m <= y  BY <1>3, <1>4
<1> QED  BY <1>3, <1>5

LEMMA NatInd ==
    ASSUME NEW S, 0 \in S, \A k \in Nat : k \in S => k + 1 \in S
    PROVE  Nat \subseteq S
<1> SUFFICES ASSUME NEW k \in Nat, k \notin S PROVE FALSE  OBVIOUS
<1> DEFINE T == {i \in Nat : i \notin S}
<1>1. PICK m \in T : \A i \in T : m <= i
  <2>1. T \subseteq Nat /\ T # {}  OBVIOUS
  <2> HIDE DEF T
  <2> QED  BY <2>1, NatMin
<1>2. m # 0 /\ m \in Nat /\ m \notin S  BY <1>1
<1>3. m - 1 \in Nat /\ m - 1 \notin T  BY <1>1, <1>2
<1>4. m - 1 \in S  BY <1>3
<1> QED  BY <1>2, <1>3, <1>4

(* A sum over a finite set, taken apart: a function it on the subsets of S,    *)
(* one element added at a time.                                                *)
AnyOf(s) == CHOOSE x \in s : TRUE
SumsUp(it, S, h) ==
  it = [s \in SUBSET S |-> IF s = {} THEN 0 ELSE h[AnyOf(s)] + it[s \ {AnyOf(s)}]]
Upto(S, k) == {s \in SUBSET S : Cardinality(s) <= k}

LEMMA LessOne ==
    ASSUME NEW S, IsFiniteSet(S), NEW k \in Nat, NEW s \in Upto(S, k + 1), s # {}
    PROVE  AnyOf(s) \in s /\ s \ {AnyOf(s)} \in Upto(S, k)
<1>1. AnyOf(s) \in s  BY DEF AnyOf
<1>2. IsFiniteSet(s)  BY FS_Subset DEF Upto
<1>3. Cardinality(s \ {AnyOf(s)}) = Cardinality(s) - 1 /\ Cardinality(s) \in Nat
  BY <1>1, <1>2, FS_RemoveElement, FS_CardinalityType
<1>4. Cardinality(s \ {AnyOf(s)}) <= k  BY <1>3 DEF Upto
<1> QED  BY <1>1, <1>4 DEF Upto

LEMMA AllUpto ==
    ASSUME NEW S, IsFiniteSet(S)
    PROVE  Upto(S, Cardinality(S)) = SUBSET S /\ Cardinality(S) \in Nat
<1>1. Cardinality(S) \in Nat  BY FS_CardinalityType
<1>2. \A s \in SUBSET S : Cardinality(s) <= Cardinality(S)  BY FS_Subset
<1> QED  BY <1>1, <1>2 DEF Upto

LEMMA SumExists == ASSUME NEW S, IsFiniteSet(S), NEW h PROVE \E it : SumsUp(it, S, h)
<1> DEFINE Sums(f, k) ==
             f = [s \in Upto(S, k) |-> IF s = {} THEN 0 ELSE h[AnyOf(s)] + f[s \ {AnyOf(s)}]]
           Sizes == {k \in Nat : \E f : Sums(f, k)}
<1>1. 0 \in Sizes
  <2>1. \A s \in Upto(S, 0) : s = {}
    <3> TAKE s \in Upto(S, 0)
    <3>1. IsFiniteSet(s)  BY FS_Subset DEF Upto
    <3>2. Cardinality(s) \in Nat /\ Cardinality(s) <= 0  BY <3>1, FS_CardinalityType DEF Upto
    <3>3. Cardinality(s) = 0  BY <3>2
    <3> QED  BY <3>1, <3>3, FS_EmptySet
  <2> DEFINE f == [s \in Upto(S, 0) |-> 0]
  <2>2. Sums(f, 0)  BY <2>1
  <2> QED  BY <2>2
<1>2. ASSUME NEW k \in Nat, k \in Sizes PROVE k + 1 \in Sizes
  <2>1. PICK f : Sums(f, k)  BY <1>2
  <2> DEFINE g == [s \in Upto(S, k + 1) |-> IF s = {} THEN 0 ELSE h[AnyOf(s)] + f[s \ {AnyOf(s)}]]
  <2>2. \A s \in Upto(S, k) : s \in Upto(S, k + 1)
    <3> TAKE s \in Upto(S, k)
    <3>1. IsFiniteSet(s)  BY FS_Subset DEF Upto
    <3>2. Cardinality(s) \in Nat /\ Cardinality(s) <= k  BY <3>1, FS_CardinalityType DEF Upto
    <3>3. Cardinality(s) <= k + 1  BY <3>2
    <3> QED  BY <3>3 DEF Upto
  <2>3. \A s \in Upto(S, k) : g[s] = f[s]  BY <2>1, <2>2
  <2>4. \A s \in Upto(S, k + 1) : s # {} => g[s \ {AnyOf(s)}] = f[s \ {AnyOf(s)}]
    <3> HIDE DEF g
    <3> QED  BY <2>3, LessOne
  <2>5. \A s \in Upto(S, k + 1) : g[s] = IF s = {} THEN 0 ELSE h[AnyOf(s)] + f[s \ {AnyOf(s)}]
    OBVIOUS
  <2>6. g = [s \in Upto(S, k + 1) |-> g[s]]  OBVIOUS
  <2>7. Sums(g, k + 1)
    <3> HIDE DEF g
    <3> QED  BY <2>4, <2>5, <2>6
  <2> HIDE DEF g, Sums
  <2> QED  BY <2>7
<1>3. Nat \subseteq Sizes
  <2> HIDE DEF Sizes
  <2> QED  BY <1>1, <1>2, NatInd
<1>4. \E f : Sums(f, Cardinality(S))  BY <1>3, AllUpto
<1>5. PICK f : Sums(f, Cardinality(S))  BY <1>4
<1>6. SumsUp(f, S, h)  BY <1>5, AllUpto DEF SumsUp
<1> QED  BY <1>6

LEMMA SumGrows ==
    ASSUME NEW S, IsFiniteSet(S), NEW h, \A x \in S : h[x] \in Nat, NEW it, SumsUp(it, S, h)
    PROVE  it[S] \in Nat /\ \A x \in S : h[x] <= it[S]
<1> DEFINE Good(s) == it[s] \in Nat /\ \A x \in s : h[x] <= it[s]
           Sizes == {k \in Nat : \A s \in Upto(S, k) : Good(s)}
<1>1. \A s \in SUBSET S : it[s] = IF s = {} THEN 0 ELSE h[AnyOf(s)] + it[s \ {AnyOf(s)}]
  BY DEF SumsUp
<1>2. 0 \in Sizes
  <2> SUFFICES ASSUME NEW s \in Upto(S, 0) PROVE Good(s)  OBVIOUS
  <2>1. IsFiniteSet(s) /\ s \in SUBSET S  BY FS_Subset DEF Upto
  <2>2. Cardinality(s) \in Nat /\ Cardinality(s) <= 0  BY <2>1, FS_CardinalityType DEF Upto
  <2>3. Cardinality(s) = 0  BY <2>2
  <2>4. s = {}  BY <2>1, <2>3, FS_EmptySet
  <2>5. it[s] = 0  BY <1>1, <2>1, <2>4
  <2> QED  BY <2>4, <2>5
<1>3. ASSUME NEW k \in Nat, k \in Sizes PROVE k + 1 \in Sizes
  <2> SUFFICES ASSUME NEW s \in Upto(S, k + 1) PROVE Good(s)  OBVIOUS
  <2>1. s \in SUBSET S  BY DEF Upto
  <2>2. CASE s = {}  BY <1>1, <2>1, <2>2
  <2>3. CASE s # {}
    <3> DEFINE y == AnyOf(s)  r == s \ {y}
    <3>1. y \in s /\ r \in Upto(S, k)  BY <2>3, LessOne
    <3>2. it[s] = h[y] + it[r]  BY <1>1, <2>1, <2>3
    <3>3. Good(r)  BY <1>3, <3>1
    <3>4. h[y] \in Nat  BY <2>1, <3>1
    <3>5. \A x \in s : h[x] \in Nat /\ (x = y \/ x \in r)  BY <2>1
    <3> HIDE DEF y, r
    <3> QED  BY <3>1, <3>2, <3>3, <3>4, <3>5
  <2> QED  BY <2>2, <2>3
<1>4. Nat \subseteq Sizes
  <2> HIDE DEF Sizes
  <2> QED  BY <1>2, <1>3, NatInd
<1>5. S \in Upto(S, Cardinality(S)) /\ Cardinality(S) \in Nat  BY AllUpto
<1> QED  BY <1>4, <1>5

SumOver(h, S) == Encounter!MapThenSumSet(LAMBDA s : h[s], S)
LEMMA SumFacts ==
    ASSUME NEW S, IsFiniteSet(S), NEW h, \A x \in S : h[x] \in Nat
    PROVE  SumOver(h, S) \in Nat /\ \A x \in S : h[x] <= SumOver(h, S)
<1> DEFINE it == CHOOSE it : SumsUp(it, S, h)
<1>1. SumsUp(it, S, h)  BY SumExists
<1>2. SumOver(h, S) = it[S]
  BY DEF SumOver, Encounter!MapThenSumSet, Encounter!MapThenFoldSet, SumsUp, AnyOf
<1> HIDE DEF it
<1> QED  BY <1>1, <1>2, SumGrows

-----------------------------------------------------------------------------
(* Whose creatures are scaled. What the walk up the links makes of the objects *)
(* at one depth, given what it makes of those one deeper.                      *)
RowAt(d, next) ==
  [o \in there |-> IF d = Depth \/ Encounter!Tainted(o) THEN Budget + 1
                   ELSE 1 + SumOver(next, links[o] \cap there)]
From(v, top) == v = [d \in top .. Depth |-> RowAt(d, v[d + 1])]

LEMMA WalkExists == ASSUME Depth \in Nat PROVE \E v : From(v, 0)
<1> DEFINE Tops == {k \in Nat : k <= Depth => \E v : From(v, Depth - k)}
<1>1. \A x, y : RowAt(Depth, x) = RowAt(Depth, y)  BY DEF RowAt
<1>2. 0 \in Tops
  <2> DEFINE v == [d \in Depth .. Depth |-> RowAt(Depth, 0)]
  <2>1. \A d \in Depth .. Depth : d = Depth  OBVIOUS
  <2>2. \A d \in Depth .. Depth : v[d] = RowAt(d, v[d + 1])  BY <1>1, <2>1
  <2>3. v = [d \in Depth .. Depth |-> v[d]]  OBVIOUS
  <2>4. From(v, Depth)
    <3> HIDE DEF v
    <3> QED  BY <2>2, <2>3 DEF From
  <2>5. Depth - 0 = Depth  OBVIOUS
  <2> QED  BY <2>4, <2>5
<1>3. ASSUME NEW k \in Nat, k \in Tops PROVE k + 1 \in Tops
  <2> SUFFICES ASSUME k + 1 <= Depth PROVE \E v : From(v, Depth - (k + 1))  OBVIOUS
  <2>1. PICK v : From(v, Depth - k)  BY <1>3
  <2> DEFINE t == Depth - (k + 1)
             w == [d \in t .. Depth |-> IF d = t THEN RowAt(t, v[t + 1]) ELSE v[d]]
  <2>2. t \in Nat /\ t + 1 = Depth - k /\ t < Depth  OBVIOUS
  <2> HIDE DEF t
  <2>3. \A d \in t .. Depth : d = t \/ d \in (t + 1) .. Depth  BY <2>2
  <2>4. \A d \in (t + 1) .. Depth : d # t /\ d \in t .. Depth /\ v[d] = RowAt(d, v[d + 1])
    BY <2>1, <2>2 DEF From
  <2>5. \A d \in (t + 1) .. Depth : w[d] = v[d]  BY <2>4
  <2>6. w[t] = RowAt(t, v[t + 1])  BY <2>2
  <2>7. w = [d \in t .. Depth |-> w[d]]  OBVIOUS
  <2> HIDE DEF w
  <2>8. ASSUME NEW d \in t .. Depth PROVE w[d] = RowAt(d, w[d + 1])
    <3>1. CASE d = t
      <4>1. t + 1 \in (t + 1) .. Depth  BY <2>2
      <4> QED  BY <2>5, <2>6, <3>1, <4>1
    <3>2. CASE d \in (t + 1) .. Depth /\ d # Depth
      <4>1. d + 1 \in (t + 1) .. Depth  BY <2>2, <3>2
      <4> QED  BY <2>4, <2>5, <3>2, <4>1
    <3>3. CASE d \in (t + 1) .. Depth /\ d = Depth
      <4>1. w[d] = RowAt(d, v[d + 1])  BY <2>4, <2>5, <3>3
      <4> QED  BY <1>1, <3>3, <4>1
    <3> QED  BY <2>3, <3>1, <3>2, <3>3
  <2>9. From(w, t)  BY <2>7, <2>8 DEF From
  <2> QED  BY <2>9 DEF t
<1>4. Nat \subseteq Tops
  <2> HIDE DEF Tops
  <2> QED  BY <1>2, <1>3, NatInd
<1>5. Depth - Depth = 0  OBVIOUS
<1> QED  BY <1>4, <1>5

LEMMA VisitsWalk == ASSUME Depth \in Nat PROVE From(Encounter!Visits, 0)
<1>1. \E v : From(v, 0)  BY WalkExists
<1> QED  BY <1>1 DEF From, RowAt, SumOver, Encounter!Visits

\* The walk counts objects, and a tainted one is beyond the budget at any depth.
LEMMA VisitsCount ==
    ASSUME IsFiniteSet(there)
    PROVE  \A d \in 0 .. Depth, o \in there :
             Encounter!Visits[d][o] \in Nat /\ (Encounter!Tainted(o) => Encounter!Visits[d][o] = Budget + 1)
<1>1. Depth \in Nat /\ Budget \in Nat  BY EncounterAssumption DEF Encounter!EncounterAssumption
<1>2. \A d \in 0 .. Depth : Encounter!Visits[d] = RowAt(d, Encounter!Visits[d + 1])  BY <1>1, VisitsWalk DEF From
<1> DEFINE Counts(d) == \A o \in there : Encounter!Visits[d][o] \in Nat
           Tops == {k \in Nat : k <= Depth => Counts(Depth - k)}
<1>3. 0 \in Tops
  <2>1. Depth - 0 = Depth /\ Depth \in 0 .. Depth  BY <1>1
  <2>2. \A row : \A o \in there : RowAt(Depth, row)[o] = Budget + 1  BY DEF RowAt
  <2>3. Counts(Depth)  BY <1>1, <1>2, <2>1, <2>2
  <2> QED  BY <2>1, <2>3
<1>4. ASSUME NEW k \in Nat, k \in Tops PROVE k + 1 \in Tops
  <2> SUFFICES ASSUME k + 1 <= Depth PROVE Counts(Depth - (k + 1))  OBVIOUS
  <2> DEFINE t == Depth - (k + 1)
  <2>1. t \in 0 .. Depth /\ t + 1 = Depth - k /\ t # Depth  BY <1>1
  <2>2. Counts(t + 1)  BY <1>1, <1>4, <2>1
  <2> HIDE DEF t
  <2>3. SUFFICES ASSUME NEW o \in there PROVE Encounter!Visits[t][o] \in Nat  BY DEF t
  <2>4. IsFiniteSet(links[o] \cap there)  BY FS_Subset
  <2>5. SumOver(Encounter!Visits[t + 1], links[o] \cap there) \in Nat
    <3> DEFINE h == Encounter!Visits[t + 1]  U == links[o] \cap there
    <3>1. \A x \in U : h[x] \in Nat  BY <2>2
    <3> HIDE DEF h, U
    <3>2. IsFiniteSet(U)  BY <2>4 DEF U
    <3> QED  BY <3>1, <3>2, SumFacts DEF h, U
  <2>6. Encounter!Visits[t][o] = IF t = Depth \/ Encounter!Tainted(o) THEN Budget + 1
                         ELSE 1 + SumOver(Encounter!Visits[t + 1], links[o] \cap there)
    BY <1>2, <2>1 DEF RowAt
  <2> QED  BY <1>1, <2>5, <2>6
<1>5. Nat \subseteq Tops
  <2> HIDE DEF Tops
  <2> QED  BY <1>3, <1>4, NatInd
<1>6. \A d \in 0 .. Depth : Counts(d)
  <2> SUFFICES ASSUME NEW d \in 0 .. Depth PROVE Counts(d)  OBVIOUS
  <2>1. Depth - d \in Nat /\ Depth - d <= Depth /\ Depth - (Depth - d) = d  BY <1>1
  <2>2. Depth - d \in Tops  BY <1>5, <2>1
  <2>3. Counts(Depth - (Depth - d))  BY <2>1, <2>2
  <2> QED  BY <2>1, <2>3
<1>7. \A d \in 0 .. Depth, o \in there : Encounter!Tainted(o) => Encounter!Visits[d][o] = Budget + 1
  BY <1>2 DEF RowAt
<1> QED  BY <1>6, <1>7

LEMMA MarkedIsExcluded ==
    ASSUME IsFiniteSet(there), NEW o \in there, Encounter!Tainted(o)
    PROVE  Encounter!HasExcludedOrigin(o)
<1>1. Depth \in Nat /\ Budget \in Nat /\ 0 \in 0 .. Depth  BY EncounterAssumption DEF Encounter!EncounterAssumption
<1>2. Encounter!Visits[0][o] = Budget + 1  BY <1>1, VisitsCount
<1> QED  BY <1>1, <1>2 DEF Encounter!HasExcludedOrigin

(* The inductive invariant: what descends from a player is in the map, carries *)
(* the mark and is not scaled, and who is charmed is in the map.               *)
KinInv ==
  /\ IsFiniteSet(there) /\ charmed \subseteq there
  /\ kin \subseteq origin \cap there /\ kin \cap scaled = {}

\* A creature that enters by way of a player, of one that descends from a player
\* or of a gameobject of such a one is refused by the walk.
LEMMA DescentIsFound ==
    ASSUME KinInv, NEW from, from \subseteq there \cup Players, Encounter!FromPlayer(from)
    PROVE  Encounter!ExcludedBy(from)
<1>1. Depth \in Nat \ {0} /\ Budget \in Nat  BY EncounterAssumption DEF Encounter!EncounterAssumption
<1>2. 1 \in 0 .. Depth  BY <1>1
<1> SUFFICES ASSUME from \cap Players = {} PROVE Encounter!ExcludedBy(from)  BY DEF Encounter!ExcludedBy
<1> DEFINE U == from \cap there  h == Encounter!Visits[1]
<1>3. U = from /\ IsFiniteSet(U)  BY FS_Subset DEF KinInv
<1>4. \A x \in U : h[x] \in Nat  BY <1>1, <1>2, VisitsCount DEF KinInv
<1>5. \E s \in U : h[s] > Budget
  <2>1. CASE \E s \in from : s \in kin \cup charmed
    <3>1. PICK s \in from : s \in kin \cup charmed  BY <2>1
    <3>2. s \in there /\ Encounter!Tainted(s)  BY <3>1 DEF KinInv, Encounter!Tainted
    <3>3. h[s] = Budget + 1  BY <1>2, <3>2, VisitsCount DEF KinInv
    <3> QED  BY <1>1, <3>1, <3>2, <3>3
  <2>2. CASE \E g \in from \cap Things : links[g] \cap (Players \cup kin \cup charmed) # {}
    <3>1. PICK g \in from \cap Things : links[g] \cap (Players \cup kin \cup charmed) # {}  BY <2>2
    <3>2. g \in U  BY <1>3, <3>1
    <3>3. CASE Encounter!Tainted(g) \/ Depth = 1
      <4>1. h = RowAt(1, Encounter!Visits[2])  BY <1>1, <1>2, VisitsWalk DEF From
      <4>2. \A row : RowAt(1, row)[g] = Budget + 1  BY <3>2, <3>3 DEF RowAt
      <4> QED  BY <1>1, <3>2, <4>1, <4>2
    <3>4. CASE ~Encounter!Tainted(g) /\ Depth # 1
      <4>1. PICK s \in links[g] : s \in kin \cup charmed  BY <3>1, <3>4 DEF Encounter!Tainted
      <4> DEFINE V == links[g] \cap there  f == Encounter!Visits[2]
      <4>2. s \in V /\ Encounter!Tainted(s) /\ IsFiniteSet(V)
        <5>1. s \in there /\ Encounter!Tainted(s)  BY <4>1 DEF KinInv, Encounter!Tainted
        <5>2. IsFiniteSet(V)  BY FS_Subset DEF KinInv
        <5> QED  BY <4>1, <5>1, <5>2
      <4>3. 2 \in 0 .. Depth  BY <1>1, <3>4
      <4>4. f[s] = Budget + 1 /\ \A x \in V : f[x] \in Nat  BY <4>2, <4>3, VisitsCount DEF KinInv
      <4>5. h = RowAt(1, f)
        <5>1. 1 + 1 = 2  OBVIOUS
        <5> QED  BY <1>1, <1>2, <5>1, VisitsWalk DEF From
      <4> HIDE DEF V, f
      <4>6. SumOver(f, V) \in Nat /\ f[s] <= SumOver(f, V)  BY <4>2, <4>4, SumFacts
      <4>7. h[g] = 1 + SumOver(f, V)
        <5>1. \A row : RowAt(1, row)[g] = 1 + SumOver(row, V)  BY <3>2, <3>4 DEF RowAt, V
        <5> QED  BY <4>5, <5>1
      <4> HIDE DEF h
      <4> QED  BY <1>1, <3>2, <4>4, <4>6, <4>7
    <3> QED  BY <3>3, <3>4
  <2> QED  BY <2>1, <2>2 DEF Encounter!FromPlayer
<1>6. 1 + SumOver(h, U) > Budget
  <2> HIDE DEF U, h
  <2>1. SumOver(h, U) \in Nat /\ \A x \in U : h[x] <= SumOver(h, U)  BY <1>3, <1>4, SumFacts
  <2> QED  BY <1>1, <1>4, <1>5, <2>1
<1> QED  BY <1>6 DEF Encounter!ExcludedBy, SumOver

LEMMA KinInit == Encounter!EncounterInit => KinInv
BY FS_EmptySet DEF Encounter!EncounterInit, KinInv

LEMMA EntersKin ==
    ASSUME KinInv, NEW o, NEW from, Encounter!Enters(o, from) PROVE KinInv'
<1>1. from \subseteq there \cup Players /\ o \notin there /\ there' = there \cup {o} /\ charmed' = charmed
      /\ (o \in Spawned => from = {})
  BY DEF Encounter!Enters
<1>2. IsFiniteSet(there')  BY <1>1, FS_AddElement DEF KinInv
<1>3. CASE o \in Npcs
  <2>1. /\ origin' = Encounter!CaptureSummonOrigin(o, Encounter!ExcludedBy(from))
        /\ scaled' = IF on /\ ~Encounter!ExcludedBy(from) /\ Encounter!CombatBody(o) THEN scaled \cup {o} ELSE scaled \ {o}
        /\ kin' = IF Encounter!FromPlayer(from) THEN kin \cup {o} ELSE kin
    BY <1>3 DEF Encounter!Enters, Encounter!OnCreatureAddWorld
  <2>2. o \notin kin /\ charmed \subseteq there  BY <1>1 DEF KinInv
  <2>3. CASE Encounter!FromPlayer(from)
    <3>1. Encounter!ExcludedBy(from)  BY <1>1, <2>3, DescentIsFound
    <3>2. from # {}  BY <2>3 DEF Encounter!FromPlayer
    <3>3. origin' = origin \cup {o} /\ scaled' = scaled \ {o}  BY <1>1, <2>1, <3>1, <3>2 DEF Encounter!CaptureSummonOrigin
    <3> QED  BY <1>1, <1>2, <2>1, <2>3, <3>3 DEF KinInv
  <2>4. CASE ~Encounter!FromPlayer(from)
    <3>1. origin \ {o} \subseteq origin' /\ scaled' \subseteq scaled \cup {o}  BY <2>1 DEF Encounter!CaptureSummonOrigin
    <3> QED  BY <1>1, <1>2, <2>1, <2>2, <2>4, <3>1 DEF KinInv
  <2> QED  BY <2>3, <2>4
<1>4. CASE o \notin Npcs
  <2>1. origin' = origin /\ scaled' = scaled /\ kin' = kin  BY <1>4 DEF Encounter!Enters
  <2> QED  BY <1>1, <1>2, <2>1 DEF KinInv
<1> QED  BY <1>3, <1>4

LEMMA LeavesKin == ASSUME KinInv, NEW o, Encounter!Leaves(o) PROVE KinInv'
<1>1. IsFiniteSet(there')  BY FS_Subset DEF KinInv, Encounter!Leaves
<1> QED  BY <1>1 DEF KinInv, Encounter!Leaves

\* What is scaled anew is never kin.
LEMMA ScalableIsNotKin ==
    ASSUME KinInv, NEW c \in kin PROVE Encounter!HasExcludedOrigin(c) /\ c \notin Encounter!Scalable
<1>1. c \in there /\ Encounter!Tainted(c)  BY DEF KinInv, Encounter!Tainted
<1>2. Encounter!HasExcludedOrigin(c)  BY <1>1, MarkedIsExcluded DEF KinInv
<1> QED  BY <1>2 DEF Encounter!Scalable, Encounter!IsScalableCreature

LEMMA RespawnKin ==
    ASSUME KinInv, NEW c, Encounter!OnCreatureRespawn(c) PROVE KinInv'
<1>1. /\ c \notin Spawned /\ there' = there /\ charmed' = charmed /\ kin' = kin
      /\ origin' = Encounter!CaptureSummonOrigin(c, Encounter!HasExcludedOrigin(c))
      /\ scaled' = IF on /\ ~Encounter!HasExcludedOrigin(c) /\ Encounter!CombatBody(c) THEN scaled \cup {c} ELSE scaled \ {c}
  BY DEF Encounter!OnCreatureRespawn, Encounter!OnCreatureAddWorld
<1>2. CASE c \in kin
  <2>1. Encounter!HasExcludedOrigin(c)  BY <1>2, ScalableIsNotKin
  <2>2. origin' = origin \cup {c} /\ scaled' = scaled \ {c}  BY <1>1, <2>1 DEF Encounter!CaptureSummonOrigin
  <2> QED  BY <1>1, <2>2 DEF KinInv
<1>3. CASE c \notin kin
  <2>1. origin \ {c} \subseteq origin' /\ scaled' \subseteq scaled \cup {c}  BY <1>1 DEF Encounter!CaptureSummonOrigin
  <2> QED  BY <1>1, <1>3, <2>1 DEF KinInv
<1> QED  BY <1>2, <1>3

LEMMA CommandKin ==
    ASSUME KinInv, Encounter!HandleRaidScale \/ Encounter!HandleRaidInstance PROVE KinInv'
<1>1. kin \cap Encounter!Scalable = {}  BY ScalableIsNotKin
<1>2. ASSUME Encounter!EnableForMap PROVE KinInv'
  <2>1. scaled' \subseteq scaled \cup Encounter!Scalable  BY <1>2 DEF Encounter!EnableForMap
  <2> QED  BY <1>1, <1>2, <2>1 DEF KinInv, Encounter!EnableForMap
<1>3. ASSUME Encounter!DisableForMap PROVE KinInv'  BY <1>3 DEF KinInv, Encounter!DisableForMap
<1>4. ASSUME NEW e, Encounter!ResetBoss(e) PROVE KinInv'
  <2>1. scaled' \subseteq scaled \cup Encounter!Scalable  BY <1>4 DEF Encounter!ResetBoss
  <2>2. there' = there /\ charmed' = charmed /\ origin' = origin /\ kin' = kin  BY <1>4 DEF Encounter!ResetBoss
  <2> QED  BY <1>1, <2>1, <2>2 DEF KinInv
<1> QED  BY <1>2, <1>3, <1>4 DEF Encounter!HandleRaidScale, Encounter!HandleRaidInstance, Encounter!ResetGroupBinds

LEMMA KinStep ==
    KinInv /\ [Encounter!EncounterNext]_Encounter!encounterVars => KinInv'
<1> SUFFICES ASSUME KinInv, [Encounter!EncounterNext]_Encounter!encounterVars PROVE KinInv'
  OBVIOUS
<1>1. ASSUME NEW o, NEW from, Encounter!Enters(o, from) PROVE KinInv'  BY <1>1, EntersKin
<1>2. ASSUME NEW o, Encounter!Leaves(o) PROVE KinInv'  BY <1>2, LeavesKin
<1>3. ASSUME NEW o, Encounter!Falls(o) PROVE KinInv'  BY <1>3 DEF KinInv, Encounter!Falls
<1>4. ASSUME NEW o, Encounter!RespawnTimeOver(o) PROVE KinInv'  BY <1>4 DEF KinInv, Encounter!RespawnTimeOver
<1>5. ASSUME NEW c, Encounter!Charm(c) PROVE KinInv'  BY <1>5 DEF KinInv, Encounter!Charm
<1>6. ASSUME NEW c, NEW m, Encounter!MoodChanges(c, m) PROVE KinInv'  BY <1>6 DEF KinInv, Encounter!MoodChanges
<1>7. ASSUME NEW c, Encounter!OnCreatureRespawn(c) PROVE KinInv'  BY <1>7, RespawnKin
<1>8. CASE UNCHANGED Encounter!encounterVars  BY <1>8 DEF KinInv, Encounter!encounterVars
<1> QED  BY <1>1, <1>2, <1>3, <1>4, <1>5, <1>6, <1>7, <1>8, CommandKin DEF Encounter!EncounterNext

LEMMA KinAreNative == ASSUME KinInv PROVE Encounter!KinUntouched
<1> SUFFICES ASSUME NEW c \in kin
             PROVE  /\ c \notin scaled
                    /\ \A n \in 0 .. 2 * Whole : Encounter!DealDamage(c, TRUE, n) = n
                    /\ \A x \in there \cap Npcs :
                         /\ Encounter!ModifyHealReceived(c, x, 1, {"heal"}) = 1
                         /\ Encounter!ModifyHealReceived(x, c, Whole, {"heal"}) = Whole
                         /\ Encounter!OnAuraEffectCalculateAmount(x, c, Whole, FALSE) = Whole
  BY DEF Encounter!KinUntouched
<1>1. Encounter!HasExcludedOrigin(c)  BY ScalableIsNotKin
<1>2. \A n : Encounter!DealDamage(c, TRUE, n) = n  BY <1>1 DEF Encounter!DealDamage, Encounter!GetDamageScale
<1>3. \A x : Encounter!GetSupportScale(x, c) = Whole /\ Encounter!GetSupportScale(c, x) = Whole
  BY <1>1 DEF Encounter!GetSupportScale, Encounter!IsScalableCreature
<1>4. \A n : Encounter!ScaleAmount(n, Whole) = n  BY DEF Encounter!ScaleAmount
<1>5. c \notin scaled  BY DEF KinInv
<1> QED
  BY <1>2, <1>3, <1>4, <1>5 DEF Encounter!ModifyHealReceived, Encounter!OnAuraEffectCalculateAmount

\* What descends from a player is never scaled, and neither is what it deals,
\* heals or receives, over any number of summons and any order of deaths,
\* departures, respawns, resets and commands: whatever links two creatures have,
\* a marked one among the sources outweighs the budget of the walk.
THEOREM KinStaysNative == Encounter!EncounterSpec => []KinUntouched
<1>1. KinInv /\ [Encounter!EncounterNext]_Encounter!encounterVars => KinInv'  BY KinStep
<1>2. KinInv => KinUntouched  BY KinAreNative DEF KinUntouched
<1> QED  BY KinInit, <1>1, <1>2, PTL DEF Encounter!EncounterSpec

=============================================================================
