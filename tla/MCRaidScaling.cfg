\* One instance over loads, respawns, manual tuning, off and config reloads.
SPECIFICATION MCSpec
CONSTANTS
    boss1 = boss1
    lord = lord
    door = door
    minion = minion
    totem = totem
    trap = trap
    p = p
    advisor = advisor
    Creatures = {boss1, advisor}
    Bosses = {boss1}
    AuraAware = {advisor}
    Natives <- MCNatives
    Auras = {1, 2}
    Original = 4
    Targets = {0, 2}
    Multipliers = {6}
    MinHealth = 1
    MaxHealth = 5
    Npcs = {lord, minion, totem}
    Things = {door, trap}
    Players = {p}
    Spawned = {lord, door}
    Elites = {lord}
    Critters = {}
    Pooled = {}
    Recipes <- MCRecipes
    Depth = 4
    Budget = 6
    Whole = 4
    Half = 2
    MaxAmount = 20
INVARIANTS ScaledOnce CurrentScale OffIsNative KinUntouched
PROPERTIES FractionKept
