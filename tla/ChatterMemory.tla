---------------------------- MODULE ChatterMemory ----------------------------
(***************************************************************************)
(* PBChatterMemory: what each bot and player said to each other last, in a *)
(* cache that is flushed to mod_playerbot_chatter_history and loaded from  *)
(* it at startup. A row is unique by pair, message and reply; its ts is    *)
(* the second it was first flushed in, here the number of that flush.      *)
(***************************************************************************)
EXTENDS Integers, Sequences, FiniteSets, SequencesExt

CONSTANTS Pairs, Exchanges,
          HistoryLen,   \* g_PBChatHistoryLen
          MaxFlushes    \* bound on the flushes of a behaviour

ASSUME MemoryAssumption == HistoryLen \in Nat

VARIABLES
    cache,     \* g_cache: the last exchanges of each pair, oldest first
    rows,      \* the table: exchanges with their ts, in the order of their ids
    flushes,   \* flushes so far
    novel      \* the pairs whose newest exchange had no row when it was said

memory == <<cache, rows, flushes, novel>>

MemoryInit ==
    /\ cache = [p \in Pairs |-> <<>>] /\ rows = [p \in Pairs |-> <<>>]
    /\ flushes = 0 /\ novel = {}

Kept(s) == IF Len(s) > HistoryLen THEN SubSeq(s, Len(s) - HistoryLen + 1, Len(s)) ELSE s
Stored(p) == {r.ex : r \in ToSet(rows[p])}

Remember(p, e) ==
    /\ cache' = [cache EXCEPT ![p] = Kept(Append(@, e))]
    /\ novel' = IF e \in Stored(p) \cup ToSet(cache[p]) THEN novel \ {p} ELSE novel \cup {p}
    /\ UNCHANGED <<rows, flushes>>

\* INSERT IGNORE: a row that exists stays as it is, ts and all.
Insert(q, e) ==
    IF \E i \in DOMAIN q : q[i].ex = e THEN q ELSE Append(q, [ex |-> e, ts |-> flushes])
Inserted(p, n) == FoldLeft(Insert, rows[p], SubSeq(cache[p], 1, n))

\* Mutant of Pruned: the ranking starts from the oldest row.
PrunedNewest(q) == IF Len(q) > HistoryLen THEN SubSeq(q, 1, HistoryLen) ELSE q
\* DELETE keeps the HistoryLen newest rows of a pair, by ts and then by id.
Pruned(q) == Kept(q)

\* FlushToDB. The statements are asynchronous: the DELETE may run before some
\* INSERT, and then that pair is pruned by the next flush.
FlushToDB ==
    /\ flushes < MaxFlushes /\ flushes' = flushes + 1
    /\ rows' \in {[p \in Pairs |-> Pruned(Inserted(p, Len(cache[p])))],
                  [p \in Pairs |-> Inserted(p, Len(cache[p]))]}

\* The server dies: of a flush that may have been under way a part is stored.
CutShort ==
    /\ flushes < MaxFlushes /\ flushes' = flushes + 1
    /\ \E n \in [Pairs -> 0..HistoryLen] :
        /\ \A p \in Pairs : n[p] <= Len(cache[p])
        /\ rows' = [p \in Pairs |-> Inserted(p, n[p])]

\* LoadAllFromDB reads ORDER BY ts: rows of one flush come in any order.
ByTs(q) == {o \in [DOMAIN q -> ToSet(q)] :
              /\ ToSet(o) = ToSet(q)
              /\ \A i, j \in DOMAIN q : i < j => o[i].ts <= o[j].ts}
Loaded(q) == {Kept([i \in DOMAIN o |-> o[i].ex]) : o \in ByTs(q)}

\* A start with the module disabled loads nothing; the first prompts after a
\* later reload then know no history.
LoadAllFromDB(on) ==
    IF on THEN cache' \in {f \in [Pairs -> UNION {Loaded(rows'[p]) : p \in Pairs}] :
                              \A p \in Pairs : f[p] \in Loaded(rows'[p])}
    ELSE cache' = [p \in Pairs |-> <<>>]
=============================================================================
