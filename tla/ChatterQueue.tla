---------------------------- MODULE ChatterQueue ----------------------------
(* PBChatterQueue: the world thread submits chat jobs, detached worker        *)
(* threads ask the lore sidecar or Ollama, append to the bot's memory and     *)
(* push a result, and OnUpdate drains the results. Each mutex section of the  *)
(* code is one action; between two of them every interleaving is possible.    *)
EXTENDS Integers, Sequences, FiniteSets, Functions

CONSTANTS
    Jobs,        \* chat jobs
    Ambient,     \* jobs with job.ambient: lines nobody asked for
    Lore,        \* jobs with job.lore: the sidecar is asked first
    Pairs,       \* (bot, player) pairs that talk
    PairOf,      \* [Jobs -> Pairs]
    Maxima,      \* values g_PBChatMaxConcurrent takes over config reloads; 0 = unlimited
    HistoryLen   \* g_PBChatHistoryLen

ASSUME QueueAssumption ==
    /\ IsFiniteSet(Jobs)
    /\ Ambient \subseteq Jobs /\ Lore \subseteq Jobs
    /\ PairOf \in [Jobs -> Pairs]
    /\ Maxima \subseteq Nat
    /\ HistoryLen \in Nat

VARIABLES
    st,         \* where each job is
    pending,    \* g_pending
    running,    \* g_running
    results,    \* g_results
    heard,      \* how often each job's result was handed to the world thread
    memory,     \* PBChatterMemory's cache: the last exchanges of each pair
    maxc,       \* g_PBChatMaxConcurrent
    enabled     \* g_PBChatEnable

vars == <<st, pending, running, results, heard, memory, maxc, enabled>>

\* States in which a job has a worker thread of its own.
Working == {"lore", "ollama", "append", "push", "finish"}
States  == {"new", "refused", "pending", "done"} \cup Working
Threads == {j \in Jobs : st[j] \in Working}

Init ==
    /\ st = [j \in Jobs |-> "new"]
    /\ pending = <<>> /\ running = 0
    /\ results = <<>> /\ heard = [j \in Jobs |-> 0]
    /\ memory = [p \in Pairs |-> <<>>]
    /\ maxc \in Maxima
    /\ enabled = TRUE

-----------------------------------------------------------------------------
HasSlot(r) == maxc = 0 \/ r < maxc

\* RunJob begins at the sidecar for a lore job, at Ollama for any other.
Begin(j) == IF j \in Lore THEN "lore" ELSE "ollama"

\* StartNext with g_mutex held: q, r and s are the queue, the count and the job
\* states at the call; at most one job is started.
StartNext(q, r, s) ==
    IF q # <<>> /\ HasSlot(r)
    THEN /\ pending' = Tail(q)
         /\ running' = r + 1
         /\ st' = [s EXCEPT ![Head(q)] = Begin(Head(q))]
    ELSE /\ pending' = q /\ running' = r /\ st' = s

Enter(j) == StartNext(Append(pending, j), running, [st EXCEPT ![j] = "pending"])

\* Replies, and the lines with which bots react to events.
Submit(j) ==
    /\ enabled /\ st[j] = "new"
    /\ Enter(j)
    /\ UNCHANGED <<results, heard, memory, maxc, enabled>>

\* Reactive-first: an empty backlog and a free worker slot.
Headroom == pending = <<>> /\ HasSlot(running)

TrySubmitAmbient(j) ==
    /\ enabled /\ st[j] = "new" /\ j \in Ambient
    /\ \/ Headroom /\ Enter(j)
       \/ /\ ~Headroom
          /\ st' = [st EXCEPT ![j] = "refused"]
          /\ UNCHANGED <<pending, running>>
    /\ UNCHANGED <<results, heard, memory, maxc, enabled>>

-----------------------------------------------------------------------------
\* Mutant of Replied: no reply reaches the memory.
RepliedForgotten(j) == "push"
\* A reply that is not empty goes on to memory (not for ambient lines), an empty
\* one goes straight to the end.
Replied(j) == IF j \in Ambient THEN "push" ELSE "append"

Advance(j, to) ==
    /\ st' = [st EXCEPT ![j] = to]
    /\ UNCHANGED <<pending, running, results, heard, memory, maxc, enabled>>

AskLore(j) ==
    /\ st[j] = "lore"
    /\ \E to \in {Replied(j), "ollama"} : Advance(j, to)

AskOllama(j) ==
    /\ st[j] = "ollama"
    /\ \E to \in {Replied(j), "finish"} : Advance(j, to)

\* PBChatterMemory::Append keeps the newest HistoryLen exchanges of the pair.
Trimmed(q) == IF Len(q) > HistoryLen THEN SubSeq(q, Len(q) - HistoryLen + 1, Len(q)) ELSE q

AppendMemory(j) ==
    /\ st[j] = "append"
    /\ memory' = [memory EXCEPT ![PairOf[j]] = Trimmed(Append(@, j))]
    /\ st' = [st EXCEPT ![j] = "push"]
    /\ UNCHANGED <<pending, running, results, heard, maxc, enabled>>

PushResult(j) ==
    /\ st[j] = "push"
    /\ results' = Append(results, j)
    /\ st' = [st EXCEPT ![j] = "finish"]
    /\ UNCHANGED <<pending, running, heard, memory, maxc, enabled>>

\* Mutant of Finish: the slot is given back without looking at the backlog.
FinishOnly(j) ==
    /\ st[j] = "finish"
    /\ running' = running - 1
    /\ st' = [st EXCEPT ![j] = "done"]
    /\ UNCHANGED <<pending, results, heard, memory, maxc, enabled>>

\* The thread ends: it gives its slot back and starts the next job under one lock.
Finish(j) ==
    /\ st[j] = "finish"
    /\ StartNext(pending, running - 1, [st EXCEPT ![j] = "done"])
    /\ UNCHANGED <<results, heard, memory, maxc, enabled>>

RunJob(j) ==
    AskLore(j) \/ AskOllama(j) \/ AppendMemory(j) \/ PushResult(j) \/ Finish(j)

-----------------------------------------------------------------------------
Count(j, q) == Cardinality({i \in DOMAIN q : q[i] = j})
Deliver == heard' = [j \in Jobs |-> heard[j] + Count(j, results)]

\* Mutant of DrainResults: copies the list and leaves it in place.
DrainCopies ==
    /\ enabled /\ results # <<>>
    /\ Deliver
    /\ UNCHANGED <<st, pending, running, results, memory, maxc, enabled>>

\* OnUpdate takes the whole list at once; a disabled module does not drain.
DrainResults ==
    /\ enabled /\ results # <<>>
    /\ Deliver
    /\ results' = <<>>
    /\ UNCHANGED <<st, pending, running, memory, maxc, enabled>>

\* A config reload may change the limit and the enable flag under running jobs.
ReloadConfig ==
    /\ maxc' \in Maxima /\ enabled' \in BOOLEAN
    /\ UNCHANGED <<st, pending, running, results, heard, memory>>

Next ==
    \/ \E j \in Jobs : Submit(j) \/ TrySubmitAmbient(j) \/ RunJob(j)
    \/ DrainResults
    \/ ReloadConfig

\* Every HTTP call has a timeout, so a worker thread always gets on; the world
\* thread drains whenever the module stays enabled.
Fairness == WF_vars(DrainResults) /\ \A j \in Jobs : WF_vars(RunJob(j))

Spec == Init /\ [][Next]_vars /\ Fairness

-----------------------------------------------------------------------------
TypeOK ==
    /\ st \in [Jobs -> States]
    /\ pending \in Seq(Jobs) /\ running \in Nat
    /\ results \in Seq(Jobs) /\ heard \in [Jobs -> Nat]
    /\ memory \in [Pairs -> Seq(Jobs)]
    /\ \A p \in Pairs : Len(memory[p]) <= HistoryLen
    /\ maxc \in Maxima /\ enabled \in BOOLEAN

\* g_running is the number of worker threads there are: no path out of RunJob
\* and no reload loses or doubles a slot.
RunningIsThreads == running = Cardinality(Threads)

\* A backlog is never left without a worker that will pick it up: the wake-up is
\* StartNext in the thread that ends, whatever a reload did to the limit.
NoStall == pending # <<>> => running > 0

\* A slot is taken only below the limit in force at that moment.
WithinCapacity == [][running' > running => maxc = 0 \/ running' <= maxc]_vars

\* The reply a player gets is in the bot's memory by then, so that the next
\* prompt contains it, unless enough newer exchanges have pushed it out.
HeardIsRemembered ==
    \A j \in Jobs \ Ambient :
        j \in Range(results) \/ heard[j] > 0 =>
            \/ j \in Range(memory[PairOf[j]])
            \/ Len(memory[PairOf[j]]) = HistoryLen

\* A submitted reply is worked on and its thread ends.
EveryJobEnds == \A j \in Jobs : (st[j] = "pending" \/ j \in Threads) ~> st[j] = "done"

-----------------------------------------------------------------------------
Replies(j) == Count(j, results)
Phase(j) ==
    IF heard[j] + Replies(j) > 1 THEN "doubled"
    ELSE IF st[j] \in {"new", "refused"} THEN st[j]
    ELSE IF heard[j] = 1 THEN "heard"
    ELSE IF Replies(j) = 1 THEN "replied"
    ELSE IF st[j] \in {"finish", "done"} THEN "silent"
    ELSE "taken"

Service == INSTANCE ChatterService WITH phase <- [j \in Jobs |-> Phase(j)]

\* The pool implements the service: whatever threads and drains interleave, a job
\* is answered at most once and heard at most once, and only after being taken.
ImplementsService == Service!Spec
=============================================================================
