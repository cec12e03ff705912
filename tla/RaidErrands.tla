----------------------------- MODULE RaidErrands -----------------------------
(***************************************************************************)
(* What .raidroster does for the bots beside fielding them: stockup fills  *)
(* their bags at a vendor, and reset drops their instance locks.           *)
(***************************************************************************)
EXTENDS Rosters, FiniteSetsExt

CONSTANTS
  Locks,         \* the instances a character can be saved to: map and difficulty
  Goods,         \* kind, rank and stack of a good; sale: usage "vendor" and a price
  RandomPotion,  \* kind -> the potion the random item manager names, if any
  Casters,       \* the bots that have mana
  Room           \* units a bag holds

ASSUME GoodsAssumption ==
  /\ IsFiniteSet(Goods) /\ Room \in Nat
  /\ \A g \in Goods : g.stack \in Nat /\ g.rank \in Int
  /\ \A kind \in {"heal", "mana"} : RandomPotion[kind] \in Goods => RandomPotion[kind].kind = kind

VARIABLES
  locks,   \* character -> the instances it is saved to
  place,   \* player -> the map it is on
  vendor,  \* the characters that can interact with a vendor
  bags     \* bot -> good -> units
errandVars == << locks, place, vendor, bags >>

NoGoods == [g \in Goods |-> 0]
ErrandInit ==
  /\ locks = [c \in Owners \cup Bots |-> {}] /\ place = [o \in Owners |-> "outside"]
  /\ vendor = {} /\ bags = [b \in Bots |-> NoGoods]

-----------------------------------------------------------------------------
\* stockup

CountRaidStockItems(bag) == MapThenSumSet(LAMBDA g : bag[g], Goods)
OfKind(kind) == {g \in Goods : g.kind = kind}
ForSale == {g \in Goods : g.sale}

\* All or nothing: the bag takes the whole difference or the good stays short.
StoreMissingItemCount(bag, g, wanted) ==
  IF bag[g] >= wanted \/ CountRaidStockItems(bag) + wanted - bag[g] > Room THEN bag
  ELSE [bag EXCEPT ![g] = wanted]
\* The core may refuse a sale; what it takes is gone as a whole stack.
SellVendorItems(bag, taken) == [g \in Goods |-> IF g \in taken THEN 0 ELSE bag[g]]
\* The factory's InitAmmo, InitReagents, InitConsumables and InitPotions: one of
\* the goods given, or nothing.
Refilled(bag, kind, given) ==
  LET new == OfKind(kind) \cap given
  IN IF new = {} THEN bag ELSE LET g == CHOOSE g \in new : TRUE IN StoreMissingItemCount(bag, g, g.stack)

\* The best potion carried; without one, whatever the manager names.
SelectPotionItem(bag, kind) ==
  LET carried == {g \in OfKind(kind) : bag[g] > 0}
  IN IF carried = {} THEN RandomPotion[kind]
     ELSE CHOOSE g \in carried : \A h \in carried : h.rank <= g.rank
ToppedUp(bag, kind) ==
  LET g == SelectPotionItem(bag, kind)
  IN IF g \in Goods THEN StoreMissingItemCount(bag, g, g.stack) ELSE bag
TopOffPotions(b, bag) ==
  IF b \in Casters THEN ToppedUp(ToppedUp(bag, "heal"), "mana") ELSE ToppedUp(bag, "heal")

\* At a vendor of its own: sell, then everything.
StockedHere(b, taken, given) ==
  LET sold == SellVendorItems(bags[b], taken)
      reagents == Refilled(Refilled(sold, "ammo", given), "reagent", given)
  IN TopOffPotions(b, Refilled(Refilled(reagents, "food", given), "heal", given))
\* Mutant of Stocked: the player's vendor buys the bot's things as well.
StockedAnywhere(o, b, taken, given) ==
  IF b \in vendor \/ o \in vendor THEN StockedHere(b, taken, given) ELSE bags[b]
\* The player's vendor authorizes reagents only.
Stocked(o, b, taken, given) ==
  IF b \in vendor THEN StockedHere(b, taken, given)
  ELSE IF o \in vendor THEN Refilled(bags[b], "reagent", given) ELSE bags[b]

\* Bound: what is taken and given is alike for the bots of one command.
StockUp(o) ==
  /\ Online(o) # {} /\ UNCHANGED << locks, place, vendor >>
  /\ \E taken \in SUBSET ForSale, given \in SUBSET (Goods \ ForSale) :
       bags' = [b \in Bots |-> IF b \in Online(o) THEN Stocked(o, b, taken, given) ELSE bags[b]]

-----------------------------------------------------------------------------
\* reset

\* Every difficulty and every map but the one the player stands on.
UnbindAll(c, skip) == {k \in locks[c] : k.map = skip}
HandleReset(o) ==
  /\ raid[o] # {}
  /\ locks' = [c \in DOMAIN locks |->
                 IF c \in {o} \cup Guids(raid[o]) THEN UnbindAll(c, place[o]) ELSE locks[c]]
  /\ UNCHANGED << place, vendor, bags >>

\* The world: raids are entered and left, vendors come and go, goods are looted
\* and used up.
Enters(o, k) ==
  /\ place' = [place EXCEPT ![o] = k.map]
  /\ locks' = [c \in DOMAIN locks |-> IF c \in {o} \cup Online(o) THEN locks[c] \cup {k} ELSE locks[c]]
  /\ UNCHANGED << vendor, bags >>
Leaves(o) == place' = [place EXCEPT ![o] = "outside"] /\ UNCHANGED << locks, vendor, bags >>
VendorNear(c) == vendor' = (vendor \ {c}) \cup ({c} \ vendor) /\ UNCHANGED << locks, place, bags >>
BagChanges(b, g, n) ==
  /\ CountRaidStockItems([bags[b] EXCEPT ![g] = n]) <= Room
  /\ bags' = [bags EXCEPT ![b][g] = n] /\ UNCHANGED << locks, place, vendor >>

ErrandNext ==
  \/ \E o \in Owners : StockUp(o) \/ HandleReset(o) \/ Leaves(o) \/ \E k \in Locks : Enters(o, k)
  \/ \E c \in Owners \cup Bots : VendorNear(c)
  \/ \E b \in Bots, g \in Goods, n \in 0..Room : BagChanges(b, g, n)
\* Beside whatever the players do with the rosters.
ErrandSpec ==
  /\ RosterInit /\ ErrandInit
  /\ [][(ErrandNext /\ UNCHANGED rosterVars) \/ (RosterNext /\ UNCHANGED errandVars)]_<< rosterVars, errandVars >>

-----------------------------------------------------------------------------
\* "It does NOT authorize remote inventory sales": without a vendor of its own a
\* bot loses nothing and gets reagents at most; with one it loses only what is for
\* sale, and if the bag has the room it leaves with a full stack of the best
\* healing potion it carries or is named (HandleStockUp, SellVendorItems, TopOffPotions).
StockKept ==
  [][\A o \in Owners : StockUp(o) => \A b \in Online(o) :
       LET less == {g \in Goods : bags'[b][g] < bags[b][g]}
           more == {g \in Goods : bags'[b][g] > bags[b][g]}
           best == SelectPotionItem(bags'[b], "heal")
       IN /\ less \subseteq ForSale
          /\ b \notin vendor => less = {} /\ more \subseteq OfKind("reagent")
          /\ b \in vendor /\ best \in Goods =>
               \/ bags'[b][best] >= best.stack
               \/ CountRaidStockItems(bags'[b]) + best.stack - bags'[b][best] > Room
     ]_errandVars
=============================================================================
