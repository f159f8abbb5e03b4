-------------------------- MODULE ReputationCache ---------------------------
(***************************************************************************)
(* cached_check of reputation.py: one load in flight per key, a cache of   *)
(* the successful results that forgets the least recently used one at its  *)
(* limit and every one a fixed time after its load.                        *)
(*                                                                         *)
(* A key stands for (provider, address, API key).  cached_check runs up to *)
(* its first await in one step of the event loop (Hit, Join, Start); the   *)
(* load is a task of its own that a cancelled caller does not cancel.      *)
(* Between the end of a task and its done callback other code may run, and *)
(* PENDING still names the finished task.                                  *)
(***************************************************************************)
EXTENDS Integers, Sequences, FiniteSets

CONSTANTS
    Callers,        \* concurrent calls of cached_check
    Keys,
    Tasks,          \* asyncio tasks, named again once they are over
    NoTask, NoKey,
    MaxSize,        \* CACHE_MAX_SIZE
    TTL,            \* CACHE_TTL_SECONDS
    MaxTime         \* bound: the clock stops here

ASSUME SizeAssumption == MaxSize \in Nat \ {0}
ASSUME TimeAssumption == TTL \in Nat \ {0} /\ MaxTime \in Nat
ASSUME NameAssumption == NoTask \notin Tasks /\ NoKey \notin Keys

VARIABLES
    cache,      \* CACHE: entries in order of use, the next to go first
    pending,    \* PENDING: the task of each key, or NoTask
    task,       \* what each task loads and how far it is
    waits,      \* the task each caller awaits, or NoTask
    answer,     \* what each caller was last given
    now,        \* monotonic()
    loaded,     \* history: when each key was last loaded successfully
    used        \* history: <<a, b>> when b was used after a was last used

vars == <<cache, pending, task, waits, answer, now, loaded, used>>

Entries == [key : Keys, at : Nat]
NoAnswer == [status |-> "none", cached |-> FALSE, age |-> 0]
Answers == [status : {"none", "ok", "error"}, cached : BOOLEAN, age : Int]

\* A task is "running", then "ok" or "error" until its callback has run, and
\* then "over": its name is free.
Over == [key |-> NoKey, state |-> "over"]

TypeOK ==
    /\ cache \in Seq(Entries)
    /\ pending \in [Keys -> Tasks \cup {NoTask}]
    /\ task \in [Tasks -> [key : Keys, state : {"running", "ok", "error"}] \cup {Over}]
    /\ waits \in [Callers -> Tasks \cup {NoTask}]
    /\ answer \in [Callers -> Answers]
    /\ now \in Nat
    /\ loaded \in [Keys -> Nat]
    /\ used \subseteq Keys \X Keys
-----------------------------------------------------------------------------
Cached == {cache[i].key : i \in DOMAIN cache}
Fresh(entry) == now - entry.at < TTL
Remove(s, i) == SubSeq(s, 1, i - 1) \o SubSeq(s, i + 1, Len(s))

\* CACHE.pop(key, None)
Without(k) ==
    IF k \in Cached
    THEN Remove(cache, CHOOSE i \in DOMAIN cache : cache[i].key = k)
    ELSE cache

\* while len(CACHE) > CACHE_MAX_SIZE: CACHE.popitem(last=False)
Evicted(s) == IF Len(s) > MaxSize THEN SubSeq(s, Len(s) - MaxSize + 1, Len(s)) ELSE s

Use(k) == used' = {p \in used : p[1] # k /\ p[2] # k} \cup (Keys \ {k}) \X {k}

Miss(k) == \A i \in DOMAIN cache : cache[i].key = k => ~Fresh(cache[i])
Running(k) == {t \in Tasks : task[t].state = "running" /\ task[t].key = k}

Init ==
    /\ cache = <<>>
    /\ pending = [k \in Keys |-> NoTask]
    /\ task = [t \in Tasks |-> Over]
    /\ waits = [c \in Callers |-> NoTask]
    /\ answer = [c \in Callers |-> NoAnswer]
    /\ now = 0
    /\ loaded = [k \in Keys |-> 0]
    /\ used = {}
-----------------------------------------------------------------------------
\* Mutants of Hit: the entry is dated anew; it is not moved to the end.
HitRenewing(c, k) ==
    /\ waits[c] = NoTask
    /\ \E i \in DOMAIN cache :
          /\ cache[i].key = k /\ Fresh(cache[i])
          /\ cache' = Append(Remove(cache, i), [key |-> k, at |-> now])
    /\ answer' = [answer EXCEPT ![c] =
                     [status |-> "ok", cached |-> TRUE, age |-> now - loaded[k]]]
    /\ Use(k)
    /\ UNCHANGED <<pending, task, waits, now, loaded>>

HitInPlace(c, k) ==
    /\ waits[c] = NoTask
    /\ \E i \in DOMAIN cache : cache[i].key = k /\ Fresh(cache[i])
    /\ answer' = [answer EXCEPT ![c] =
                     [status |-> "ok", cached |-> TRUE, age |-> now - loaded[k]]]
    /\ Use(k)
    /\ UNCHANGED <<cache, pending, task, waits, now, loaded>>

\* A fresh entry is served at once and becomes the most recently used.
Hit(c, k) ==
    /\ waits[c] = NoTask
    /\ \E i \in DOMAIN cache :
          /\ cache[i].key = k /\ Fresh(cache[i])
          /\ cache' = Append(Remove(cache, i), cache[i])
    /\ answer' = [answer EXCEPT ![c] =
                     [status |-> "ok", cached |-> TRUE, age |-> now - loaded[k]]]
    /\ Use(k)
    /\ UNCHANGED <<pending, task, waits, now, loaded>>

\* Otherwise an expired entry is dropped, and the caller shares the load that
\* PENDING names, ...
Join(c, k) ==
    /\ waits[c] = NoTask /\ Miss(k)
    /\ pending[k] # NoTask /\ task[pending[k]].state = "running"
    /\ cache' = Without(k)
    /\ waits' = [waits EXCEPT ![c] = pending[k]]
    /\ answer' = [answer EXCEPT ![c] = NoAnswer]
    /\ UNCHANGED <<pending, task, now, loaded, used>>

\* ... even a finished one, whose result it has at once, ...
JoinFinished(c, k) ==
    /\ waits[c] = NoTask /\ Miss(k)
    /\ pending[k] # NoTask /\ task[pending[k]].state # "running"
    /\ cache' = Without(k)
    /\ answer' = [answer EXCEPT ![c] =
                     [status |-> task[pending[k]].state, cached |-> FALSE, age |-> 0]]
    /\ UNCHANGED <<pending, task, waits, now, loaded, used>>

\* ... or starts one.
Start(c, k) ==
    /\ waits[c] = NoTask /\ Miss(k)
    /\ pending[k] = NoTask
    /\ cache' = Without(k)
    /\ \E t \in Tasks : task[t] = Over
    /\ LET t == CHOOSE t \in Tasks : task[t] = Over
       IN  /\ task' = [task EXCEPT ![t] = [key |-> k, state |-> "running"]]
           /\ pending' = [pending EXCEPT ![k] = t]
           /\ waits' = [waits EXCEPT ![c] = t]
    /\ answer' = [answer EXCEPT ![c] = NoAnswer]
    /\ UNCHANGED <<now, loaded, used>>

\* load() ends with status "ok": the result is dated and cached.
LoadOk(t) ==
    LET k == task[t].key
    IN  /\ task[t].state = "running"
        /\ task' = [task EXCEPT ![t].state = "ok"]
        /\ cache' = Evicted(Append(Without(k), [key |-> k, at |-> now]))
        /\ loaded' = [loaded EXCEPT ![k] = now]
        /\ Use(k)
        /\ UNCHANGED <<pending, waits, answer, now>>

\* load() ends with any other status, an exception or a timeout included.
LoadError(t) ==
    /\ task[t].state = "running"
    /\ task' = [task EXCEPT ![t].state = "error"]
    /\ UNCHANGED <<cache, pending, waits, answer, now, loaded, used>>

\* Mutant: only a successful load wakes its callers.
CallbackOfSuccess(t) ==
    LET woken == {c \in Callers : waits[c] = t /\ task[t].state = "ok"}
    IN  /\ task[t].state \in {"ok", "error"}
        /\ task' = [task EXCEPT ![t] = Over]
        /\ pending' = [pending EXCEPT ![task[t].key] = NoTask]
        /\ waits' = [c \in Callers |-> IF c \in woken THEN NoTask ELSE waits[c]]
        /\ answer' = [c \in Callers |->
              IF c \in woken
              THEN [status |-> task[t].state, cached |-> FALSE, age |-> 0]
              ELSE answer[c]]
        /\ UNCHANGED <<cache, now, loaded, used>>

\* The callbacks of a task run in the order they were added: first its own,
\* PENDING.pop(cache_key, None) whatever task is there, then those that wake
\* the callers up with its result.
Callback(t) ==
    LET woken == {c \in Callers : waits[c] = t}
    IN  /\ task[t].state \in {"ok", "error"}
        /\ task' = [task EXCEPT ![t] = Over]
        /\ pending' = [pending EXCEPT ![task[t].key] = NoTask]
        /\ waits' = [c \in Callers |-> IF c \in woken THEN NoTask ELSE waits[c]]
        /\ answer' = [c \in Callers |->
              IF c \in woken
              THEN [status |-> task[t].state, cached |-> FALSE, age |-> 0]
              ELSE answer[c]]
        /\ UNCHANGED <<cache, now, loaded, used>>

\* Mutant: a cancelled caller takes the entry of PENDING with it.
CancelPending(c) ==
    /\ waits[c] # NoTask
    /\ pending' = [pending EXCEPT ![task[waits[c]].key] = NoTask]
    /\ waits' = [waits EXCEPT ![c] = NoTask]
    /\ UNCHANGED <<cache, task, answer, now, loaded, used>>

\* asyncio.shield: a cancelled caller goes, the load goes on.
Cancel(c) ==
    /\ waits[c] # NoTask
    /\ waits' = [waits EXCEPT ![c] = NoTask]
    /\ UNCHANGED <<cache, pending, task, answer, now, loaded, used>>

Tick ==
    /\ now < MaxTime
    /\ now' = now + 1
    /\ UNCHANGED <<cache, pending, task, waits, answer, loaded, used>>

LoadEnds(t) == LoadOk(t) \/ LoadError(t)

Next ==
    \/ \E c \in Callers, k \in Keys : 
          Hit(c, k) \/ Join(c, k) \/ JoinFinished(c, k) \/ Start(c, k)
    \/ \E t \in Tasks : LoadEnds(t) \/ Callback(t)
    \/ \E c \in Callers : Cancel(c)
    \/ Tick

Spec == Init /\ [][Next]_vars

\* Every provider request has a timeout, and the event loop runs what is ready.
Fairness == \A t \in Tasks : WF_vars(LoadEnds(t)) /\ WF_vars(Callback(t))
FairSpec == Spec /\ Fairness
-----------------------------------------------------------------------------
(***************************************************************************)
(* Correctness.                                                            *)
(***************************************************************************)
\* Concurrent checks of a key share one request: cancelling callers, ending
\* tasks and late callbacks never let a second one start beside it.
SingleFlight == \A k \in Keys : Cardinality(Running(k)) <= 1

\* No request is spent on a key whose cached result is still fresh.
NoNeedlessLoad ==
    \A k \in Keys : Running(k) # {} => Miss(k)

\* Both: a load runs only when it is needed, and alone.
LoadsShared == SingleFlight /\ NoNeedlessLoad

\* A cached answer is successful and younger than TTL since its load: using
\* an entry does not prolong it, and errors are not served from the cache.
AnswersFresh ==
    \A c \in Callers : answer[c].cached => answer[c].status = "ok" /\ answer[c].age < TTL

\* The cache keeps to its limit, with one entry per key.
CacheBounded ==
    /\ Len(cache) <= MaxSize
    /\ \A i, j \in DOMAIN cache : cache[i].key = cache[j].key => i = j

\* Both: what the cache holds is young, bounded and without duplicates.
CacheRight == AnswersFresh /\ CacheBounded

\* A fresh result leaves the cache only for as many results as the cache holds,
\* all used after it.
LeastRecentlyUsed ==
    [][\A i \in DOMAIN cache :
          (Fresh(cache[i]) /\ cache[i].key \notin Cached')
             => /\ Cardinality(Cached') = MaxSize
                /\ \A k \in Cached' : <<cache[i].key, k>> \in used']_vars

\* Whoever asks is answered, or goes: no end of a task, whatever its status and
\* whoever was cancelled meanwhile, leaves a caller waiting.
EveryoneAnswered == \A c \in Callers : waits[c] # NoTask ~> waits[c] = NoTask
=============================================================================
