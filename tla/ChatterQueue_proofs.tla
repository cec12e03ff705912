------------------------- MODULE ChatterQueue_proofs -------------------------
(* The worker pool of the chatter queue, for any number of jobs, any limit    *)
(* and any sequence of reloads: slots are counted right, and a backlog always *)
(* has a worker that will wake it up.                                         *)
EXTENDS ChatterQueue, FiniteSetTheorems, SequenceTheorems, TLAPS

ThreadsOf(s)    == {j \in Jobs : s[j] \in Working}
Waits(q, s)     == \A i \in DOMAIN q : s[q[i]] = "pending"
NoDuplicates(q) == \A i, k \in DOMAIN q : q[i] = q[k] => i = k
Wakes(q, r)     == q # <<>> => r > 0

\* The inductive invariant: next to the two properties, the backlog holds each
\* waiting job once, so that a started job is one more thread.
Inv ==
    /\ TypeOK
    /\ RunningIsThreads
    /\ NoStall
    /\ Waits(pending, st)
    /\ NoDuplicates(pending)

-----------------------------------------------------------------------------
(* Lemmas about the operators the actions are built from. *)

\* Any set of jobs can be counted.
LEMMA ThreadsFinite ==
    ASSUME NEW s
    PROVE  IsFiniteSet(ThreadsOf(s)) /\ Cardinality(ThreadsOf(s)) \in Nat
<1>1. ThreadsOf(s) \in SUBSET Jobs
  BY DEF ThreadsOf
<1> QED
  BY <1>1, QueueAssumption, FS_Subset, FS_CardinalityType DEF QueueAssumption

\* A full pool has a thread that will end: the limit is not 0, so it is below
\* the number of threads.
LEMMA FullMeansRunning ==
    ASSUME TypeOK, NEW r \in Nat, ~HasSlot(r)
    PROVE  r > 0
BY QueueAssumption DEF TypeOK, HasSlot, QueueAssumption

\* Starting a job that is not running makes one thread more.
LEMMA OneMoreThread ==
    ASSUME NEW s \in [Jobs -> States], NEW j \in Jobs, s[j] = "pending",
           NEW w \in Working
    PROVE  Cardinality(ThreadsOf([s EXCEPT ![j] = w])) = Cardinality(ThreadsOf(s)) + 1
<1>1. ThreadsOf([s EXCEPT ![j] = w]) = ThreadsOf(s) \cup {j} /\ j \notin ThreadsOf(s)
  BY DEF ThreadsOf, Working
<1> QED
  BY <1>1, ThreadsFinite, FS_AddElement

\* StartNext on any well-formed backlog q with r threads leaves a well-formed
\* backlog, counts its thread, and leaves jobs waiting only behind a thread.
LEMMA StartNextKeeps ==
    ASSUME TypeOK,
           NEW q \in Seq(Jobs), NEW r \in Nat, NEW s \in [Jobs -> States],
           Waits(q, s), NoDuplicates(q), r = Cardinality(ThreadsOf(s)),
           StartNext(q, r, s)
    PROVE  /\ pending' \in Seq(Jobs) /\ running' \in Nat /\ st' \in [Jobs -> States]
           /\ running' = Cardinality(ThreadsOf(st'))
           /\ NoStall'
           /\ Waits(pending', st') /\ NoDuplicates(pending')
<1>1. CASE q # <<>> /\ HasSlot(r)
  <2>1. /\ Head(q) = q[1] /\ Head(q) \in Jobs /\ Tail(q) \in Seq(Jobs)
        /\ 1 \in DOMAIN q
        /\ \A i \in DOMAIN Tail(q) : i + 1 \in DOMAIN q /\ Tail(q)[i] = q[i + 1] /\ i + 1 # 1
    BY <1>1, HeadTailProperties
  <2>2. pending' = Tail(q) /\ running' = r + 1 /\ st' = [s EXCEPT ![Head(q)] = Begin(Head(q))]
    BY <1>1 DEF StartNext
  <2>3. s[Head(q)] = "pending" /\ Begin(Head(q)) \in Working /\ Working \subseteq States
    BY <2>1 DEF Waits, Begin, Working, States
  <2>4. running' = Cardinality(ThreadsOf(st'))
    BY <2>1, <2>2, <2>3, OneMoreThread
  <2>5. Waits(pending', st')
    BY <2>1, <2>2 DEF Waits, NoDuplicates
  <2>6. NoDuplicates(pending')
    <3> SUFFICES ASSUME NEW i \in DOMAIN Tail(q), NEW k \in DOMAIN Tail(q), Tail(q)[i] = Tail(q)[k]
                 PROVE  i = k
      BY <2>2 DEF NoDuplicates
    <3>1. i + 1 = k + 1
      BY <2>1 DEF NoDuplicates
    <3>2. i \in Nat /\ k \in Nat
      BY <2>1
    <3> QED
      BY <3>1, <3>2
  <2>7. running' \in Nat /\ running' > 0
    BY <2>2
  <2>8. st' \in [Jobs -> States]
    BY <2>1, <2>2, <2>3
  <2> QED
    BY <2>1, <2>2, <2>4, <2>5, <2>6, <2>7, <2>8 DEF NoStall
<1>2. CASE ~(q # <<>> /\ HasSlot(r))
  <2>1. pending' = q /\ running' = r /\ st' = s
    BY <1>2 DEF StartNext
  <2>2. NoStall'
    BY <1>2, <2>1, FullMeansRunning DEF NoStall
  <2> QED
    BY <1>2, <2>1, <2>2
<1> QED
  BY <1>1, <1>2

\* A step of a worker thread that stays alive changes neither the threads nor
\* the backlog.
LEMMA WorkerKeeps ==
    ASSUME Inv, NEW j \in Jobs, st[j] \in Working, NEW to \in Working,
           st' = [st EXCEPT ![j] = to], UNCHANGED <<pending, running>>
    PROVE  /\ st' \in [Jobs -> States]
           /\ RunningIsThreads' /\ NoStall'
           /\ Waits(pending, st)' /\ NoDuplicates(pending)'
<1>1. st' \in [Jobs -> States]
  BY DEF Inv, TypeOK, States
<1>2. Threads' = Threads
  BY DEF Inv, TypeOK, Threads
<1>3. Waits(pending, st)'
  BY DEF Inv, TypeOK, Waits, Working
<1> QED
  BY <1>1, <1>2, <1>3 DEF Inv, RunningIsThreads, NoStall, NoDuplicates

\* Trimming keeps a sequence of exchanges within the history length.
LEMMA TrimmedKeeps ==
    ASSUME NEW q \in Seq(Jobs)
    PROVE  Trimmed(q) \in Seq(Jobs) /\ Len(Trimmed(q)) <= HistoryLen
<1>1. HistoryLen \in Nat /\ Len(q) \in Nat
  BY QueueAssumption DEF QueueAssumption
<1>2. CASE Len(q) > HistoryLen
  <2> DEFINE m == Len(q) - HistoryLen + 1
  <2>1. m \in Int /\ \A i \in m .. Len(q) : q[i] \in Jobs
    BY <1>1, <1>2
  <2>2. /\ SubSeq(q, m, Len(q)) \in Seq(Jobs)
        /\ Len(SubSeq(q, m, Len(q))) = IF m <= Len(q) THEN Len(q) - m + 1 ELSE 0
    BY <1>1, <2>1, SubSeqProperties
  <2> QED
    BY <1>1, <1>2, <2>2 DEF Trimmed
<1>3. CASE Len(q) <= HistoryLen
  BY <1>1, <1>3 DEF Trimmed
<1> QED
  BY <1>1, <1>2, <1>3

\* How often a job occurs in a list is a number.
LEMMA CountType == ASSUME NEW q \in Seq(Jobs), NEW j PROVE Count(j, q) \in Nat
<1>1. IsFiniteSet(1 .. Len(q))
  BY FS_Interval
<1>2. {i \in DOMAIN q : q[i] = j} \in SUBSET (1 .. Len(q))
  OBVIOUS
<1> QED
  BY <1>1, <1>2, FS_Subset, FS_CardinalityType DEF Count

-----------------------------------------------------------------------------
(* The invariant. *)

LEMMA InitInv == Init => Inv
<1> SUFFICES ASSUME Init PROVE Inv
  OBVIOUS
<1>1. Threads = {}
  BY DEF Init, Threads, Working
<1>2. TypeOK
  BY QueueAssumption DEF Init, TypeOK, States, QueueAssumption
<1>3. RunningIsThreads
  BY <1>1, FS_EmptySet DEF Init, RunningIsThreads
<1> QED
  BY <1>2, <1>3 DEF Inv, Init, NoStall, Waits, NoDuplicates

\* What a call of Submit or TrySubmitAmbient hands to StartNext.
LEMMA EnterKeeps ==
    ASSUME Inv, NEW j \in Jobs, st[j] = "new", Enter(j)
    PROVE  /\ pending' \in Seq(Jobs) /\ running' \in Nat /\ st' \in [Jobs -> States]
           /\ RunningIsThreads' /\ NoStall'
           /\ Waits(pending, st)' /\ NoDuplicates(pending)'
<1> DEFINE q == Append(pending, j)
           s == [st EXCEPT ![j] = "pending"]
<1>1. /\ pending \in Seq(Jobs) /\ st \in [Jobs -> States] /\ running \in Nat
      /\ running = Cardinality(ThreadsOf(st))
  BY ThreadsFinite DEF Inv, TypeOK, RunningIsThreads, Threads, ThreadsOf
<1>2. /\ q \in Seq(Jobs) /\ Len(q) = Len(pending) + 1 /\ DOMAIN q = 1 .. Len(pending) + 1
      /\ \A i \in DOMAIN pending : q[i] = pending[i]
      /\ q[Len(pending) + 1] = j
  BY <1>1, AppendProperties
<1>3. s \in [Jobs -> States]
  BY <1>1 DEF States
<1>4. \A i \in DOMAIN pending : pending[i] # j
  BY DEF Inv, Waits
<1>5. Waits(q, s)
  BY <1>1, <1>2, <1>4 DEF Inv, Waits
<1>6. NoDuplicates(q)
  BY <1>1, <1>2, <1>4 DEF Inv, NoDuplicates
<1>7. ThreadsOf(s) = ThreadsOf(st)
  BY <1>1 DEF ThreadsOf, Working
<1>8. StartNext(q, running, s)
  BY DEF Enter
<1>9. TypeOK
  BY DEF Inv
<1>10. /\ pending' \in Seq(Jobs) /\ running' \in Nat /\ st' \in [Jobs -> States]
       /\ running' = Cardinality(ThreadsOf(st'))
       /\ NoStall'
       /\ Waits(pending', st') /\ NoDuplicates(pending')
  BY <1>1, <1>2, <1>3, <1>5, <1>6, <1>7, <1>8, <1>9, StartNextKeeps
<1> QED
  BY <1>10 DEF RunningIsThreads, Threads, ThreadsOf

LEMMA FinishKeeps ==
    ASSUME Inv, NEW j \in Jobs, Finish(j)
    PROVE  /\ pending' \in Seq(Jobs) /\ running' \in Nat /\ st' \in [Jobs -> States]
           /\ RunningIsThreads' /\ NoStall'
           /\ Waits(pending, st)' /\ NoDuplicates(pending)'
<1> DEFINE s == [st EXCEPT ![j] = "done"]
<1>1. /\ pending \in Seq(Jobs) /\ st \in [Jobs -> States] /\ running \in Nat
      /\ running = Cardinality(ThreadsOf(st))
  BY ThreadsFinite DEF Inv, TypeOK, RunningIsThreads, Threads, ThreadsOf
<1>2. s \in [Jobs -> States] /\ Waits(pending, s) /\ NoDuplicates(pending)
  BY <1>1 DEF Inv, Finish, Waits, States
<1>3. ThreadsOf(s) = ThreadsOf(st) \ {j} /\ j \in ThreadsOf(st)
  BY <1>1 DEF Finish, ThreadsOf, Working
<1>4. Cardinality(ThreadsOf(s)) = running - 1 /\ running - 1 \in Nat
  <2>1. IsFiniteSet(ThreadsOf(st)) /\ Cardinality(ThreadsOf(s)) \in Nat
    BY ThreadsFinite
  <2>2. Cardinality(ThreadsOf(s)) = Cardinality(ThreadsOf(st)) - 1
    BY <1>3, <2>1, FS_RemoveElement
  <2> QED
    BY <1>1, <2>1, <2>2
<1>5. StartNext(pending, running - 1, s) /\ TypeOK
  BY DEF Finish, Inv
<1>6. /\ pending' \in Seq(Jobs) /\ running' \in Nat /\ st' \in [Jobs -> States]
      /\ running' = Cardinality(ThreadsOf(st'))
      /\ NoStall'
      /\ Waits(pending', st') /\ NoDuplicates(pending')
  BY <1>1, <1>2, <1>4, <1>5, StartNextKeeps
<1> QED
  BY <1>6 DEF Inv, RunningIsThreads, Threads, ThreadsOf

LEMMA NextInv == Inv /\ [Next]_vars => Inv'
<1> SUFFICES ASSUME Inv, [Next]_vars PROVE Inv'
  OBVIOUS
<1>0. TypeOK
  BY DEF Inv
<1>1. ASSUME NEW j \in Jobs, Submit(j) PROVE Inv'
  BY <1>1, <1>0, EnterKeeps DEF Submit, Inv, TypeOK
<1>2. ASSUME NEW j \in Jobs, TrySubmitAmbient(j) PROVE Inv'
  <2>1. CASE Headroom /\ Enter(j)
    BY <1>2, <1>0, <2>1, EnterKeeps DEF TrySubmitAmbient, Inv, TypeOK
  <2>2. CASE st' = [st EXCEPT ![j] = "refused"] /\ UNCHANGED <<pending, running>>
    <3>1. TypeOK'
      BY <1>2, <1>0, <2>2 DEF TrySubmitAmbient, TypeOK, States
    <3>2. Threads' = Threads /\ Waits(pending, st)'
      BY <1>2, <1>0, <2>2 DEF TrySubmitAmbient, TypeOK, Inv, Threads, Working, Waits
    <3> QED
      BY <2>2, <3>1, <3>2 DEF Inv, RunningIsThreads, NoStall, NoDuplicates
  <2> QED
    BY <1>2, <2>1, <2>2 DEF TrySubmitAmbient
<1>3. ASSUME NEW j \in Jobs, AskLore(j) \/ AskOllama(j) PROVE Inv'
  <2>1. PICK to \in Working : Advance(j, to) /\ st[j] \in Working
    BY <1>3 DEF AskLore, AskOllama, Replied, Working
  <2> QED
    BY <1>0, <2>1, WorkerKeeps DEF Advance, Inv, TypeOK
<1>4. ASSUME NEW j \in Jobs, AppendMemory(j) PROVE Inv'
  <2>1. /\ st[j] \in Working /\ "push" \in Working
        /\ st' = [st EXCEPT ![j] = "push"] /\ UNCHANGED <<pending, running>>
    BY <1>4 DEF AppendMemory, Working
  <2>2. PairOf[j] \in Pairs
    BY QueueAssumption DEF QueueAssumption
  <2>3. Append(memory[PairOf[j]], j) \in Seq(Jobs)
    BY <1>0, <2>2 DEF TypeOK
  <2>4. memory' \in [Pairs -> Seq(Jobs)] /\ \A p \in Pairs : Len(memory'[p]) <= HistoryLen
    BY <1>4, <1>0, <2>2, <2>3, TrimmedKeeps DEF AppendMemory, TypeOK
  <2>5. TypeOK'
    BY <1>4, <1>0, <2>1, <2>4, WorkerKeeps DEF AppendMemory, TypeOK
  <2> QED
    BY <2>1, <2>5, WorkerKeeps DEF Inv
<1>5. ASSUME NEW j \in Jobs, PushResult(j) PROVE Inv'
  <2>1. /\ st[j] \in Working /\ "finish" \in Working
        /\ st' = [st EXCEPT ![j] = "finish"] /\ UNCHANGED <<pending, running>>
    BY <1>5 DEF PushResult, Working
  <2>2. results' \in Seq(Jobs)
    BY <1>5, <1>0 DEF PushResult, TypeOK
  <2>3. st' \in [Jobs -> States]
    BY <2>1, WorkerKeeps
  <2>4. TypeOK'
    BY <1>5, <1>0, <2>2, <2>3 DEF PushResult, TypeOK
  <2> QED
    BY <2>1, <2>4, WorkerKeeps DEF Inv
<1>6. ASSUME NEW j \in Jobs, Finish(j) PROVE Inv'
  <2>1. /\ pending' \in Seq(Jobs) /\ running' \in Nat /\ st' \in [Jobs -> States]
        /\ RunningIsThreads' /\ NoStall'
        /\ Waits(pending, st)' /\ NoDuplicates(pending)'
    BY <1>6, FinishKeeps
  <2>2. UNCHANGED <<results, heard, memory, maxc, enabled>>
    BY <1>6 DEF Finish
  <2>3. TypeOK'
    BY <1>0, <2>1, <2>2 DEF TypeOK
  <2> QED
    BY <2>1, <2>3 DEF Inv
<1>7. CASE DrainResults
  <2>1. \A j \in Jobs : heard[j] + Count(j, results) \in Nat
    BY <1>0, CountType DEF TypeOK
  <2>2. TypeOK' /\ Threads' = Threads
    BY <1>7, <1>0, <2>1 DEF DrainResults, Deliver, TypeOK, Threads
  <2> QED
    BY <1>7, <2>2 DEF DrainResults, Inv, RunningIsThreads, NoStall,
                      Waits, NoDuplicates
<1>8. CASE ReloadConfig \/ UNCHANGED vars
  <2>1. UNCHANGED <<st, pending, running, results, heard, memory>> /\ TypeOK'
    BY <1>8, <1>0 DEF ReloadConfig, vars, TypeOK
  <2>2. Threads' = Threads
    BY <2>1 DEF Threads
  <2> QED
    BY <2>1, <2>2 DEF Inv, RunningIsThreads, NoStall, Waits, NoDuplicates
<1> QED
  BY <1>1, <1>2, <1>3, <1>4, <1>5, <1>6, <1>7, <1>8 DEF Next, RunJob

LEMMA InvHolds == Spec => []Inv
BY InitInv, NextInv, PTL DEF Spec

-----------------------------------------------------------------------------
\* Every variable keeps its type; a pair's memory never outgrows the history length.
THEOREM TypeCorrect == Spec => []TypeOK
BY InvHolds, PTL DEF Inv

\* g_running is the number of worker threads there are.
THEOREM SlotsAreCounted == Spec => []RunningIsThreads
BY InvHolds, PTL DEF Inv

\* A backlog always has a worker that will wake it up when it ends.
THEOREM BacklogHasWorker == Spec => []NoStall
BY InvHolds, PTL DEF Inv

\* A slot is taken only below the limit in force.
THEOREM SlotsAreCapped == Spec => WithinCapacity
<1>1. ASSUME Inv, [Next]_vars
      PROVE  [running' > running => maxc = 0 \/ running' <= maxc]_vars
  <2>1. running \in Nat /\ maxc \in Nat
    BY <1>1, QueueAssumption, ThreadsFinite
       DEF Inv, TypeOK, RunningIsThreads, Threads, ThreadsOf, QueueAssumption
  <2>2. ASSUME NEW q, NEW s, NEW r \in {running, running - 1}, StartNext(q, r, s)
        PROVE  running' > running => maxc = 0 \/ running' <= maxc
    BY <2>1, <2>2 DEF StartNext, HasSlot
  <2>3. (\E j \in Jobs : Submit(j) \/ TrySubmitAmbient(j) \/ Finish(j)) =>
            (running' > running => maxc = 0 \/ running' <= maxc)
    BY <2>1, <2>2 DEF Submit, TrySubmitAmbient, Enter, Finish
  <2>4. ASSUME ~(\E j \in Jobs : Submit(j) \/ TrySubmitAmbient(j) \/ Finish(j))
        PROVE  running' = running
    BY <1>1, <2>4 DEF Next, RunJob, AskLore, AskOllama, Advance, AppendMemory, PushResult,
                      DrainResults, ReloadConfig, vars
  <2> QED
    BY <2>1, <2>3, <2>4
<1> QED
  BY <1>1, InvHolds, PTL DEF Spec, WithinCapacity

-----------------------------------------------------------------------------
(* The bot's memory. *)

Covers(q, j) == j \in Range(q) \/ Len(q) = HistoryLen

\* Inductive: already a reply that is about to be pushed is in the memory.
Remembered ==
    \A j \in Jobs \ Ambient :
        st[j] = "push" \/ j \in Range(results) \/ heard[j] > 0 => Covers(memory[PairOf[j]], j)

\* An exchange that is appended is there, and the others are until the pair's
\* memory is full.
LEMMA TrimmedCovers ==
    ASSUME NEW q \in Seq(Jobs), Len(q) <= HistoryLen, NEW k \in Jobs, NEW j \in Jobs,
           j = k \/ Covers(q, j)
    PROVE  Covers(Trimmed(Append(q, k)), j)
<1>1. /\ Append(q, k) \in Seq(Jobs) /\ Len(Append(q, k)) = Len(q) + 1
      /\ DOMAIN Append(q, k) = 1 .. Len(q) + 1 /\ DOMAIN q = 1 .. Len(q)
      /\ \A i \in 1 .. Len(q) : Append(q, k)[i] = q[i]
      /\ Append(q, k)[Len(q) + 1] = k
      /\ HistoryLen \in Nat /\ Len(q) \in Nat
  BY QueueAssumption, AppendProperties DEF QueueAssumption
<1>2. CASE Len(q) < HistoryLen
  <2>1. Trimmed(Append(q, k)) = Append(q, k)
    BY <1>1, <1>2 DEF Trimmed
  <2>2. Len(q) + 1 \in DOMAIN Append(q, k) /\ 1 .. Len(q) \subseteq DOMAIN Append(q, k)
    BY <1>1
  <2>3. k \in Range(Append(q, k)) /\ (j \in Range(q) => j \in Range(Append(q, k)))
    BY <1>1, <2>2 DEF Range
  <2>4. Len(q) # HistoryLen
    <3>1. HistoryLen \in Int /\ Len(q) \in Int
      BY <1>1
    <3> QED
      BY <1>2, <3>1
  <2>5. j \in Range(Append(q, k))
    BY <2>3, <2>4 DEF Covers
  <2> QED
    BY <2>1, <2>5 DEF Covers
<1>3. CASE Len(q) = HistoryLen
  <2> DEFINE p == Append(q, k)
             m == Len(p) - HistoryLen + 1
  <2>1. m = 2 /\ Trimmed(p) = SubSeq(p, 2, Len(p))
    BY <1>1, <1>3 DEF Trimmed
  <2>2. \A i \in 2 .. Len(p) : p[i] \in Jobs
    BY <1>1
  <2>3. Len(SubSeq(p, 2, Len(p))) = IF 2 <= Len(p) THEN Len(p) - 2 + 1 ELSE 0
    BY <1>1, <2>2, SubSeqProperties
  <2> QED
    BY <1>1, <1>3, <2>1, <2>3 DEF Covers
<1>4. Len(q) < HistoryLen \/ Len(q) = HistoryLen
  <2>1. HistoryLen \in Int /\ Len(q) \in Int
    BY <1>1
  <2> QED
    BY <2>1
<1> QED
  BY <1>2, <1>3, <1>4

LEMMA NextRemembered == Inv /\ Remembered /\ [Next]_vars => Remembered'
<1> SUFFICES ASSUME Inv, Remembered, [Next]_vars PROVE Remembered'
  OBVIOUS
<1>0. /\ TypeOK /\ \A p \in Pairs : memory[p] \in Seq(Jobs) /\ Len(memory[p]) <= HistoryLen
      /\ \A j \in Jobs : PairOf[j] \in Pairs
  BY QueueAssumption DEF Inv, TypeOK, QueueAssumption
<1>1. ASSUME UNCHANGED <<results, heard, memory>>,
             \A j \in Jobs \ Ambient : st'[j] = "push" => st[j] = "push"
      PROVE  Remembered'
  BY <1>1 DEF Remembered, Covers
<1>2. ASSUME NEW q, NEW r, NEW s \in [Jobs -> States], StartNext(q, r, s),
             q # <<>> => s[Head(q)] = "pending" /\ Head(q) \in Jobs,
             \A j \in Jobs : s[j] = "push" => st[j] = "push"
      PROVE  \A j \in Jobs : st'[j] = "push" => st[j] = "push"
  BY <1>2 DEF StartNext, Begin
<1>3. ASSUME NEW j \in Jobs, Submit(j) \/ TrySubmitAmbient(j) PROVE Remembered'
  <2>1. CASE Enter(j)
    <3> DEFINE q == Append(pending, j)
               s == [st EXCEPT ![j] = "pending"]
    <3>1. s \in [Jobs -> States] /\ \A k \in Jobs : s[k] = "push" => st[k] = "push"
      BY <1>0 DEF TypeOK, States
    <3>2. Head(q) = (IF pending = <<>> THEN j ELSE Head(pending)) /\ Head(q) \in Jobs
      BY <1>0 DEF TypeOK
    <3>3. pending # <<>> => st[Head(pending)] = "pending"
      <4>1. pending # <<>> => Head(pending) = pending[1] /\ 1 \in DOMAIN pending
        BY <1>0 DEF TypeOK
      <4> QED
        BY <4>1 DEF Inv, Waits
    <3>4. s[Head(q)] = "pending"
      BY <1>0, <3>2, <3>3 DEF TypeOK
    <3>5. StartNext(q, running, s)
      BY <2>1 DEF Enter
    <3>6. \A k \in Jobs : st'[k] = "push" => st[k] = "push"
      BY <1>2, <3>1, <3>2, <3>4, <3>5
    <3> QED
      BY <1>1, <1>3, <3>6 DEF Submit, TrySubmitAmbient
  <2>2. CASE st' = [st EXCEPT ![j] = "refused"]
    BY <1>1, <1>3, <1>0, <2>2 DEF Submit, TrySubmitAmbient, TypeOK
  <2> QED
    BY <1>3, <2>1, <2>2 DEF Submit, TrySubmitAmbient
<1>4. ASSUME NEW j \in Jobs, AskLore(j) \/ AskOllama(j) PROVE Remembered'
  <2>1. /\ UNCHANGED <<results, heard, memory>>
        /\ \A k \in Jobs \ Ambient : st'[k] = "push" => st[k] = "push"
    BY <1>4, <1>0 DEF AskLore, AskOllama, Advance, Replied, TypeOK
  <2> QED
    BY <1>1, <2>1
<1>5. ASSUME NEW j \in Jobs, AppendMemory(j) PROVE Remembered'
  <2>1. memory' = [memory EXCEPT ![PairOf[j]] = Trimmed(Append(memory[PairOf[j]], j))]
    BY <1>5 DEF AppendMemory
  <2> SUFFICES ASSUME NEW k \in Jobs \ Ambient,
                      st'[k] = "push" \/ k \in Range(results') \/ heard'[k] > 0
               PROVE  Covers(memory'[PairOf[k]], k)
    BY DEF Remembered, Covers
  <2>2. k = j \/ Covers(memory[PairOf[k]], k)
    BY <1>5, <1>0 DEF AppendMemory, Remembered, TypeOK
  <2>3. CASE PairOf[k] = PairOf[j]
    <3>1. Covers(Trimmed(Append(memory[PairOf[j]], j)), k)
      BY <1>0, <2>2, <2>3, TrimmedCovers
    <3>2. memory'[PairOf[k]] = Trimmed(Append(memory[PairOf[j]], j))
      BY <1>0, <2>1, <2>3 DEF TypeOK
    <3> QED
      BY <3>1, <3>2
  <2>4. CASE PairOf[k] # PairOf[j]
    BY <1>0, <2>1, <2>2, <2>4 DEF TypeOK
  <2> QED
    BY <2>3, <2>4
<1>6. ASSUME NEW j \in Jobs, PushResult(j) PROVE Remembered'
  <2>1. /\ results \in Seq(Jobs) /\ results' = Append(results, j)
        /\ st[j] = "push" /\ UNCHANGED <<heard, memory>>
        /\ \A k \in Jobs : st'[k] = "push" => st[k] = "push"
    BY <1>6, <1>0 DEF PushResult, TypeOK
  <2>2. \A k \in Range(results') : k = j \/ k \in Range(results)
    BY <2>1, AppendProperties DEF Range
  <2> QED
    BY <2>1, <2>2 DEF Remembered, Covers
<1>7. ASSUME NEW j \in Jobs, Finish(j) PROVE Remembered'
  <2> DEFINE s == [st EXCEPT ![j] = "done"]
  <2>1. s \in [Jobs -> States] /\ \A k \in Jobs : s[k] = "push" => st[k] = "push"
    BY <1>0 DEF TypeOK, States
  <2>2. pending # <<>> => s[Head(pending)] = "pending" /\ Head(pending) \in Jobs
    <3>1. pending # <<>> => /\ Head(pending) = pending[1] /\ 1 \in DOMAIN pending
                            /\ Head(pending) \in Jobs
      BY <1>0 DEF TypeOK
    <3>2. st[j] = "finish"
      BY <1>7 DEF Finish
    <3> QED
      BY <1>0, <3>1, <3>2 DEF Inv, Waits, TypeOK
  <2>3. StartNext(pending, running - 1, s) /\ UNCHANGED <<results, heard, memory>>
    BY <1>7 DEF Finish
  <2>4. \A k \in Jobs : st'[k] = "push" => st[k] = "push"
    BY <1>2, <2>1, <2>2, <2>3
  <2> QED
    BY <1>1, <2>3, <2>4
<1>8. CASE DrainResults
  <2>1. \A k \in Jobs : heard'[k] > 0 => heard[k] > 0 \/ k \in Range(results)
    <3> SUFFICES ASSUME NEW k \in Jobs, k \notin Range(results) PROVE heard'[k] = heard[k]
      BY <1>0 DEF TypeOK
    <3>1. {i \in DOMAIN results : results[i] = k} = {}
      BY DEF Range
    <3>2. Count(k, results) = 0
      BY <3>1, FS_EmptySet DEF Count
    <3> QED
      BY <1>8, <1>0, <3>2 DEF DrainResults, Deliver, TypeOK
  <2>2. UNCHANGED <<st, memory>> /\ results' = <<>>
    BY <1>8 DEF DrainResults
  <2>3. Range(results') = {}
    BY <2>2 DEF Range
  <2> QED
    BY <2>1, <2>2, <2>3 DEF Remembered, Covers
<1>9. CASE ReloadConfig \/ UNCHANGED vars
  BY <1>1, <1>9 DEF ReloadConfig, vars
<1> QED
  BY <1>3, <1>4, <1>5, <1>6, <1>7, <1>8, <1>9 DEF Next, RunJob

\* The reply a player gets is in the bot's memory by then, unless enough newer
\* exchanges have pushed it out.
THEOREM RepliesAreRemembered == Spec => []HeardIsRemembered
<1>1. Init => Remembered
  BY DEF Init, Remembered, Range
<1>2. Remembered => HeardIsRemembered
  BY DEF Remembered, HeardIsRemembered, Covers
<1> QED
  BY <1>1, <1>2, NextRemembered, InvHolds, PTL DEF Spec

-----------------------------------------------------------------------------
(* The service: a job's counts, and the phase they and its state make. *)

\* A job in one of these states has produced nothing yet.
Taken     == {"pending", "lore", "ollama", "append", "push"}
Unstarted == {"new", "refused"}
Tally(j)  == heard[j] + Replies(j)

\* Inductive: no job has two results, none has one before its thread pushed it.
AtMostOnce ==
    \A j \in Jobs : Tally(j) \in {0, 1} /\ (st[j] \in Taken \cup Unstarted => Tally(j) = 0)

\* Handing a result over adds one to its job's count and to no other.
LEMMA AppendCounts ==
    ASSUME NEW q \in Seq(Jobs), NEW k \in Jobs, NEW j
    PROVE  Count(j, Append(q, k)) = Count(j, q) + (IF j = k THEN 1 ELSE 0)
<1> DEFINE p == Append(q, k)
           S == {i \in DOMAIN q : q[i] = j}
<1>1. /\ Len(q) \in Nat /\ DOMAIN q = 1 .. Len(q) /\ DOMAIN p = 1 .. Len(q) + 1
      /\ \A i \in 1 .. Len(q) : p[i] = q[i]
      /\ p[Len(q) + 1] = k
  BY AppendProperties
<1>2. IsFiniteSet(S) /\ Cardinality(S) \in Nat /\ Len(q) + 1 \notin S
  <2>1. IsFiniteSet(1 .. Len(q))
    BY <1>1, FS_Interval
  <2> QED
    BY <1>1, <2>1, FS_Subset, FS_CardinalityType
<1>3. {i \in DOMAIN p : p[i] = j} = IF j = k THEN S \cup {Len(q) + 1} ELSE S
  <2>1. DOMAIN p = DOMAIN q \cup {Len(q) + 1} /\ Len(q) + 1 \notin DOMAIN q
    BY <1>1
  <2>2. \A i \in DOMAIN q : p[i] = q[i]
    BY <1>1
  <2>3. p[Len(q) + 1] = k
    BY <1>1
  <2> HIDE DEF p
  <2>4. \A i : i \in {h \in DOMAIN p : p[h] = j}
                 <=> i \in S \/ (j = k /\ i = Len(q) + 1)
    BY <2>1, <2>2, <2>3
  <2> QED
    BY <2>4
<1>4. j = k => Cardinality(S \cup {Len(q) + 1}) = Cardinality(S) + 1
  BY <1>2, FS_AddElement
<1> HIDE DEF p, S
<1>5. Count(j, q) = Cardinality(S) /\ Count(j, p) = Cardinality({i \in DOMAIN p : p[i] = j})
  BY DEF Count, S
<1>6. CASE j = k
  BY <1>3, <1>4, <1>5, <1>6 DEF p
<1>7. CASE j # k
  <2>1. Count(j, p) = Cardinality(S) /\ Cardinality(S) \in Nat
    BY <1>2, <1>3, <1>5, <1>7
  <2>2. Count(j, p) = Count(j, q) + 0
    BY <1>5, <2>1
  <2> QED
    BY <1>7, <2>2 DEF p
<1> QED
  BY <1>6, <1>7

LEMMA NoneCounted == \A j : Count(j, <<>>) = 0
<1>1. \A j : {i \in DOMAIN <<>> : <<>>[i] = j} = {}
  OBVIOUS
<1> QED
  BY <1>1, FS_EmptySet DEF Count

\* What StartNext may do to the states s it is called with.
Begun(s) == \A k \in Jobs : st'[k] = s[k] \/ (s[k] = "pending" /\ st'[k] \in {"lore", "ollama"})

LEMMA StartNextBegins ==
    ASSUME NEW q \in Seq(Jobs), NEW r, NEW s \in [Jobs -> States], Waits(q, s),
           StartNext(q, r, s)
    PROVE  Begun(s)
<1>1. q # <<>> => 1 \in DOMAIN q /\ Head(q) = q[1] /\ Head(q) \in Jobs
  OBVIOUS
<1>2. q # <<>> => s[Head(q)] = "pending"
  BY <1>1 DEF Waits
<1> QED
  BY <1>1, <1>2 DEF StartNext, Begun, Begin

LEMMA EnterBegins ==
    ASSUME Inv, NEW j \in Jobs, st[j] = "new", Enter(j)
    PROVE  Begun([st EXCEPT ![j] = "pending"])
<1> DEFINE q == Append(pending, j)
           s == [st EXCEPT ![j] = "pending"]
<1>1. /\ pending \in Seq(Jobs) /\ st \in [Jobs -> States] /\ s \in [Jobs -> States]
  BY DEF Inv, TypeOK, States
<1>2. /\ q \in Seq(Jobs) /\ DOMAIN q = 1 .. Len(pending) + 1
      /\ \A i \in DOMAIN pending : q[i] = pending[i]
      /\ q[Len(pending) + 1] = j
  BY <1>1, AppendProperties
<1>3. Waits(q, s)
  BY <1>1, <1>2 DEF Inv, Waits
<1>4. StartNext(q, running, s)
  BY DEF Enter
<1> HIDE DEF q, s
<1>5. Begun(s)
  BY <1>1, <1>2, <1>3, <1>4, StartNextBegins
<1> QED
  BY <1>5 DEF s

LEMMA FinishBegins ==
    ASSUME Inv, NEW j \in Jobs, Finish(j)
    PROVE  Begun([st EXCEPT ![j] = "done"])
<1> DEFINE s == [st EXCEPT ![j] = "done"]
<1>1. pending \in Seq(Jobs) /\ s \in [Jobs -> States] /\ Waits(pending, s)
  BY DEF Inv, TypeOK, Finish, Waits, States
<1>2. StartNext(pending, running - 1, s)
  BY DEF Finish
<1> HIDE DEF s
<1>3. Begun(s)
  BY <1>1, <1>2, StartNextBegins
<1> QED
  BY <1>3 DEF s

\* The steps as a job sees them: its state moves along, or its counts do.
StateMove(j, from, to) ==
    /\ st[j] \in from /\ st'[j] \in to
    /\ \A k \in Jobs : k # j =>
          st'[k] = st[k] \/ (st[k] = "pending" /\ st'[k] \in {"lore", "ollama"})
    /\ UNCHANGED <<heard, results>>
Pushes(j) ==
    /\ st[j] = "push" /\ st' = [st EXCEPT ![j] = "finish"]
    /\ results' = Append(results, j) /\ UNCHANGED heard

LEMMA JobStepKinds ==
    ASSUME Inv, [Next]_vars
    PROVE  \/ \E j \in Jobs : \/ StateMove(j, {"new"}, Taken)
                              \/ j \in Ambient /\ StateMove(j, {"new"}, {"refused"})
                              \/ StateMove(j, Taken, Taken \cup {"finish"})
                              \/ StateMove(j, {"finish"}, {"done"})
                              \/ Pushes(j)
           \/ DrainResults
           \/ UNCHANGED <<st, heard, results>>
<1>0. st \in [Jobs -> States]
  BY DEF Inv, TypeOK
<1>1. ASSUME NEW j \in Jobs, st[j] = "new", Enter(j), UNCHANGED <<heard, results>>
      PROVE  StateMove(j, {"new"}, Taken)
  BY <1>0, <1>1, EnterBegins DEF Begun, StateMove, Taken
<1>2. ASSUME NEW j \in Jobs, Submit(j) PROVE StateMove(j, {"new"}, Taken)
  BY <1>1, <1>2 DEF Submit
<1>3. ASSUME NEW j \in Jobs, TrySubmitAmbient(j)
      PROVE  \/ StateMove(j, {"new"}, Taken)
             \/ j \in Ambient /\ StateMove(j, {"new"}, {"refused"})
  <2>1. CASE Enter(j)
    BY <1>1, <1>3, <2>1 DEF TrySubmitAmbient
  <2>2. CASE st' = [st EXCEPT ![j] = "refused"]
    BY <1>0, <1>3, <2>2 DEF TrySubmitAmbient, StateMove
  <2> QED
    BY <1>3, <2>1, <2>2 DEF TrySubmitAmbient
<1>4. ASSUME NEW j \in Jobs, AskLore(j) \/ AskOllama(j) \/ AppendMemory(j)
      PROVE  StateMove(j, Taken, Taken \cup {"finish"})
  BY <1>0, <1>4 DEF AskLore, AskOllama, AppendMemory, Advance, Replied, StateMove, Taken
<1>5. ASSUME NEW j \in Jobs, PushResult(j) PROVE Pushes(j)
  BY <1>5 DEF PushResult, Pushes
<1>6. ASSUME NEW j \in Jobs, Finish(j) PROVE StateMove(j, {"finish"}, {"done"})
  <2>1. st[j] = "finish" /\ UNCHANGED <<heard, results>>
    BY <1>6 DEF Finish
  <2> QED
    BY <1>0, <1>6, <2>1, FinishBegins DEF Begun, StateMove
<1>7. CASE ReloadConfig \/ UNCHANGED vars
  BY <1>7 DEF ReloadConfig, vars
<1> QED
  BY <1>2, <1>3, <1>4, <1>5, <1>6, <1>7 DEF Next, RunJob

LEMMA CountsTyped ==
    ASSUME TypeOK, NEW j \in Jobs
    PROVE  heard[j] \in Nat /\ Replies(j) \in Nat
BY CountType DEF TypeOK, Replies

LEMMA OnceStep == Inv /\ AtMostOnce /\ [Next]_vars => AtMostOnce'
<1> SUFFICES ASSUME Inv, AtMostOnce, [Next]_vars, NEW k \in Jobs
             PROVE  (Tally(k) \in {0, 1} /\ (st[k] \in Taken \cup Unstarted => Tally(k) = 0))'
  BY DEF AtMostOnce
<1>1. Tally(k) \in {0, 1} /\ (st[k] \in Taken \cup Unstarted => Tally(k) = 0)
  BY DEF AtMostOnce
<1>2. st \in [Jobs -> States] /\ heard[k] \in Nat /\ Replies(k) \in Nat /\ results \in Seq(Jobs)
  BY CountsTyped DEF Inv, TypeOK
<1>3. ASSUME NEW j \in Jobs, NEW from, NEW to, StateMove(j, from, to),
             from \subseteq Taken \cup Unstarted \/ to \cap (Taken \cup Unstarted) = {}
      PROVE  (Tally(k) \in {0, 1} /\ (st[k] \in Taken \cup Unstarted => Tally(k) = 0))'
  BY <1>1, <1>2, <1>3 DEF StateMove, Tally, Replies, Taken, Unstarted
<1>4. ASSUME NEW j \in Jobs, Pushes(j)
      PROVE  (Tally(k) \in {0, 1} /\ (st[k] \in Taken \cup Unstarted => Tally(k) = 0))'
  <2>1. Replies(k)' = Replies(k) + IF k = j THEN 1 ELSE 0
    BY <1>2, <1>4, AppendCounts DEF Pushes, Replies
  <2>2. st[j] = "push" /\ st'[j] = "finish" /\ (k # j => st'[k] = st[k]) /\ heard' = heard
    BY <1>2, <1>4 DEF Pushes
  <2> QED
    BY <1>1, <1>2, <2>1, <2>2 DEF Tally, Taken, Unstarted
<1>5. CASE DrainResults
  <2>1. heard'[k] = heard[k] + Replies(k) /\ Replies(k)' = 0 /\ st' = st
    BY <1>5, NoneCounted DEF DrainResults, Deliver, Replies
  <2> QED
    BY <1>1, <1>2, <2>1 DEF Tally
<1>6. CASE UNCHANGED <<st, heard, results>>
  BY <1>1, <1>6 DEF Tally, Replies
<1> QED
  BY <1>3, <1>4, <1>5, <1>6, JobStepKinds DEF Taken, Unstarted

LEMMA OnceHolds == Spec => []AtMostOnce
<1>1. Init => AtMostOnce
  BY NoneCounted DEF Init, AtMostOnce, Tally, Replies
<1> QED
  BY <1>1, OnceStep, InvHolds, PTL DEF Spec

\* With one result at most, a job's phase follows from its state and its counts.
LEMMA PhaseOnce ==
    ASSUME Inv, AtMostOnce, NEW j \in Jobs
    PROVE  /\ Phase(j) = IF st[j] \in Unstarted THEN st[j]
                         ELSE IF st[j] \in Taken THEN "taken"
                         ELSE IF heard[j] = 1 THEN "heard"
                         ELSE IF Replies(j) = 1 THEN "replied"
                         ELSE "silent"
           /\ heard[j] \in {0, 1} /\ Replies(j) \in {0, 1} /\ heard[j] + Replies(j) <= 1
           /\ st[j] \in Unstarted \cup Taken => heard[j] = 0 /\ Replies(j) = 0
           /\ st[j] \in Unstarted \cup Taken \cup {"finish", "done"}
<1>1. heard[j] \in Nat /\ Replies(j) \in Nat
  BY CountsTyped DEF Inv
<1>2. st[j] \in Unstarted \cup Taken \cup {"finish", "done"}
  BY DEF Inv, TypeOK, States, Working, Unstarted, Taken
<1> QED
  BY <1>1, <1>2 DEF AtMostOnce, Tally, Phase, Unstarted, Taken

ServiceNext == [Service!Next]_([j \in Jobs |-> Phase(j)])

\* One job changes its phase and no other does.
LEMMA OneMoves ==
    ASSUME NEW j \in Jobs, NEW from, NEW to, Phase(j) = from, Phase(j)' = to,
           \A k \in Jobs \ {j} : Phase(k)' = Phase(k)
    PROVE  Service!Move({j}, from, to)
BY DEF Service!Move

LEMMA StateMaps ==
    ASSUME Inv, AtMostOnce, Inv', AtMostOnce', NEW j \in Jobs,
           \/ StateMove(j, {"new"}, Taken)
           \/ j \in Ambient /\ StateMove(j, {"new"}, {"refused"})
           \/ StateMove(j, Taken, Taken \cup {"finish"})
           \/ StateMove(j, {"finish"}, {"done"})
    PROVE  ServiceNext
<1> USE DEF Taken, Unstarted
<1>1. \A k \in Jobs : Replies(k)' = Replies(k) /\ heard'[k] = heard[k]
  BY DEF StateMove, Replies
<1>2. \A k \in Jobs \ {j} : Phase(k)' = Phase(k)
  <2> SUFFICES ASSUME NEW k \in Jobs \ {j} PROVE Phase(k)' = Phase(k)
    OBVIOUS
  <2>1. st'[k] = st[k] \/ (st[k] \in Taken /\ st'[k] \in Taken)
    BY DEF StateMove
  <2> QED
    BY <1>1, <2>1 DEF Phase
<1>3. CASE StateMove(j, {"new"}, Taken)
  <2>1. Phase(j) = "new" /\ Phase(j)' = "taken"
    BY <1>1, <1>3, PhaseOnce DEF StateMove, Phase
  <2> QED
    BY <1>2, <2>1, OneMoves DEF ServiceNext, Service!Next, Service!Take
<1>4. CASE j \in Ambient /\ StateMove(j, {"new"}, {"refused"})
  <2>1. Phase(j) = "new" /\ Phase(j)' = "refused"
    BY <1>1, <1>4, PhaseOnce DEF StateMove, Phase
  <2> QED
    BY <1>2, <1>4, <2>1, OneMoves DEF ServiceNext, Service!Next, Service!Refuse
<1>5. CASE StateMove(j, Taken, Taken \cup {"finish"})
  <2>1. Phase(j) = "taken" /\ Phase(j)' \in {"taken", "silent"}
    BY <1>1, <1>5, PhaseOnce DEF StateMove, Phase
  <2>2. CASE Phase(j)' = "silent"
    BY <1>2, <2>1, <2>2, OneMoves DEF ServiceNext, Service!Next, Service!Hush
  <2>3. CASE Phase(j)' = "taken"
    BY <1>2, <2>1, <2>3 DEF ServiceNext
  <2> QED
    BY <2>1, <2>2, <2>3
<1>6. CASE StateMove(j, {"finish"}, {"done"})
  <2>1. Phase(j)' = Phase(j)
    BY <1>1, <1>6 DEF StateMove, Phase
  <2> QED
    BY <1>2, <2>1 DEF ServiceNext
<1> QED
  BY <1>3, <1>4, <1>5, <1>6

LEMMA PushMaps ==
    ASSUME Inv, AtMostOnce, NEW j \in Jobs, Pushes(j)
    PROVE  ServiceNext
<1>1. /\ st \in [Jobs -> States] /\ results \in Seq(Jobs)
      /\ \A k \in Jobs : Replies(k) \in Nat /\ heard[k] \in Nat
  BY CountsTyped DEF Inv, TypeOK
<1>2. \A k \in Jobs : /\ Replies(k)' = Replies(k) + IF k = j THEN 1 ELSE 0
                      /\ heard'[k] = heard[k]
  BY <1>1, AppendCounts DEF Pushes, Replies
<1>3. st[j] = "push" /\ st'[j] = "finish" /\ \A k \in Jobs \ {j} : st'[k] = st[k]
  BY <1>1 DEF Pushes
<1>4. \A k \in Jobs \ {j} : Phase(k)' = Phase(k)
  BY <1>1, <1>2, <1>3 DEF Phase
<1>5. heard[j] = 0 /\ Replies(j) = 0 /\ Phase(j) = "taken"
  BY <1>3, PhaseOnce DEF Taken, Unstarted
<1>6. Phase(j)' = "replied"
  BY <1>2, <1>3, <1>5 DEF Phase
<1> QED
  BY <1>4, <1>5, <1>6, OneMoves DEF ServiceNext, Service!Next, Service!Reply

\* A drain is one step of the service: every job with a result is heard at once.
LEMMA DrainMaps ==
    ASSUME Inv, AtMostOnce, DrainResults
    PROVE  ServiceNext
<1> DEFINE S == {k \in Jobs : Replies(k) = 1}
<1>1. results \in Seq(Jobs) /\ results # <<>> /\ st' = st
  BY DEF DrainResults, Inv, TypeOK
<1>2. \A k \in Jobs : heard'[k] = heard[k] + Replies(k) /\ Replies(k)' = 0
  BY NoneCounted DEF DrainResults, Deliver, Replies
<1>3. S # {}
  <2>1. results[1] \in Jobs /\ 1 \in {i \in DOMAIN results : results[i] = results[1]}
    BY <1>1
  <2>2. IsFiniteSet({i \in DOMAIN results : results[i] = results[1]})
    <3>1. IsFiniteSet(1 .. Len(results))
      BY <1>1, FS_Interval
    <3> QED
      BY <1>1, <3>1, FS_Subset
  <2>3. Count(results[1], results) # 0
    BY <2>1, <2>2, FS_EmptySet DEF Count
  <2> QED
    BY <2>1, <2>3, PhaseOnce DEF Replies
<1>4. ASSUME NEW k \in S
      PROVE  Phase(k) = "replied" /\ Phase(k)' = "heard"
  <2>1. heard[k] = 0 /\ st[k] \notin Unstarted \cup Taken /\ st[k] \in {"finish", "done"}
    BY <1>4, PhaseOnce
  <2>2. Phase(k) = "replied"
    BY <1>4, <2>1, PhaseOnce
  <2>3. heard'[k] = 1 /\ Replies(k)' = 0
    BY <1>2, <1>4, <2>1
  <2> QED
    BY <1>1, <2>1, <2>2, <2>3 DEF Phase, Unstarted
<1>5. ASSUME NEW k \in Jobs \ S
      PROVE  Phase(k)' = Phase(k)
  <2>1. Replies(k) = 0 /\ heard[k] \in {0, 1}
    BY <1>5, PhaseOnce
  <2>2. heard'[k] = heard[k] /\ Replies(k)' = 0 /\ st'[k] = st[k]
    BY <1>1, <1>2, <1>5, <2>1
  <2> QED
    BY <2>1, <2>2 DEF Phase
<1> HIDE DEF S
<1>6. Service!Move(S, "replied", "heard")
  <2>1. S \subseteq Jobs
    BY DEF S
  <2>2. [j \in Jobs |-> Phase(j)]' =
        [j \in Jobs |-> IF j \in S THEN "heard" ELSE [i \in Jobs |-> Phase(i)][j]]
    BY <1>4, <1>5, <2>1
  <2>3. \A j \in S : [i \in Jobs |-> Phase(i)][j] = "replied"
    BY <1>4, <2>1
  <2> QED
    BY <2>2, <2>3 DEF Service!Move
<1>7. S \in SUBSET Jobs
  BY DEF S
<1> QED
  BY <1>3, <1>6, <1>7 DEF ServiceNext, Service!Next, Service!Hear

LEMMA ServiceStep ==
    Inv /\ AtMostOnce /\ [Next]_vars => ServiceNext
<1> SUFFICES ASSUME Inv, AtMostOnce, [Next]_vars PROVE ServiceNext
  OBVIOUS
<1>1. Inv' /\ AtMostOnce'
  BY NextInv, OnceStep
<1>2. CASE UNCHANGED <<st, heard, results>>
  <2>1. \A k \in Jobs : Phase(k)' = Phase(k)
    BY <1>2 DEF Phase, Replies
  <2> QED
    BY <2>1 DEF ServiceNext
<1> QED
  BY <1>1, <1>2, JobStepKinds, StateMaps, PushMaps, DrainMaps

\* The pool implements the service it promises: whatever threads, reloads and
\* drains interleave, a job is taken or turned down once, answered at most once,
\* and its answer heard once, after it was made.
THEOREM QueueImplementsService == Spec => ImplementsService
<1>1. Init => Service!Init
  <2> SUFFICES ASSUME Init, NEW j \in Jobs PROVE Phase(j) = "new"
    BY DEF Service!Init
  <2>1. heard[j] = 0 /\ Replies(j) = 0 /\ st[j] = "new"
    BY NoneCounted DEF Init, Replies
  <2> QED
    BY <2>1 DEF Phase
<1> QED
  BY <1>1, ServiceStep, InvHolds, OnceHolds, PTL
     DEF Spec, ImplementsService, Service!Spec, ServiceNext
=============================================================================
