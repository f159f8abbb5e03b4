----------------------- MODULE ReputationCacheProofs ------------------------
(***************************************************************************)
(* The safety of cached_check for any callers, keys, limits and times.     *)
(***************************************************************************)
EXTENDS ReputationCache, FiniteSetTheorems, SequenceTheorems, TLAPS

\* PENDING and the live tasks name each other: this is why a task may pop its
\* key without looking who is there.
TaskInv ==
    /\ \A t \in Tasks : task[t] # Over => pending[task[t].key] = t
    /\ \A k \in Keys : pending[k] # NoTask =>
          task[pending[k]] # Over /\ task[pending[k]].key = k

\* Entries carry the date of their load.
EntryInv ==
    \A i \in DOMAIN cache : /\ cache[i].at = loaded[cache[i].key]
                            /\ cache[i].at <= now

IInv == TypeOK /\ TaskInv /\ EntryInv /\ CacheBounded /\ NoNeedlessLoad /\ AnswersFresh

Distinct(s) == \A i, j \in DOMAIN s : s[i].key = s[j].key => i = j
-----------------------------------------------------------------------------
(***************************************************************************)
(* The operations of the ordered dictionary.                               *)
(***************************************************************************)
LEMMA RemoveFacts ==
  ASSUME NEW s \in Seq(Entries), NEW i \in DOMAIN s
  PROVE  /\ Remove(s, i) \in Seq(Entries)
         /\ Len(Remove(s, i)) = Len(s) - 1
         /\ \A j \in DOMAIN Remove(s, i) : Remove(s, i)[j] = IF j < i THEN s[j] ELSE s[j + 1]
  <1> DEFINE a == SubSeq(s, 1, i - 1)
             b == SubSeq(s, i + 1, Len(s))
  <1>1. /\ a \in Seq(Entries) /\ Len(a) = i - 1
        /\ \A j \in 1..(i - 1) : a[j] = s[j]
    OBVIOUS
  <1>2. /\ b \in Seq(Entries) /\ Len(b) = Len(s) - i
        /\ \A j \in 1..(Len(s) - i) : b[j] = s[j + i]
    OBVIOUS
  <1> HIDE DEF a, b
  <1>3. /\ a \o b \in Seq(Entries) /\ Len(a \o b) = Len(a) + Len(b)
        /\ \A j \in 1..(Len(a) + Len(b)) :
              (a \o b)[j] = IF j <= Len(a) THEN a[j] ELSE b[j - Len(a)]
    BY <1>1, <1>2, ConcatProperties
  <1>4. Remove(s, i) = a \o b
    BY DEF Remove, a, b
  <1>5. i \in 1..Len(s) /\ Len(s) \in Nat
    OBVIOUS
  <1>6. Len(a \o b) = Len(s) - 1
    BY <1>1, <1>2, <1>3, <1>5
  <1>7. DOMAIN (a \o b) = 1..(Len(s) - 1)
    BY <1>3, <1>6
  <1>8. \A j \in 1..(Len(s) - 1) : (a \o b)[j] = IF j < i THEN s[j] ELSE s[j + 1]
    <2> SUFFICES ASSUME NEW j \in 1..(Len(s) - 1)
                 PROVE  (a \o b)[j] = IF j < i THEN s[j] ELSE s[j + 1]
      OBVIOUS
    <2>1. CASE j < i
      <3>1. j \in 1..(i - 1) /\ j \in 1..(Len(a) + Len(b)) /\ j <= Len(a)
        BY <1>1, <1>2, <1>5, <2>1
      <3>2. (a \o b)[j] = a[j]
        BY <1>3, <3>1
      <3>3. a[j] = s[j]
        BY <1>1, <3>1
      <3>4. QED
        BY <2>1, <3>2, <3>3
    <2>2. CASE ~ (j < i)
      <3>1. j - Len(a) \in 1..(Len(s) - i) /\ j - Len(a) + i = j + 1
        BY <1>1, <1>5, <2>2
      <3>2. (a \o b)[j] = b[j - Len(a)]
        <4>1. j \in 1..(Len(a) + Len(b)) /\ ~ (j <= Len(a))
          BY <1>1, <1>2, <1>5, <2>2
        <4>2. QED
          BY <1>3, <4>1
      <3>3. b[j - Len(a)] = s[j + 1]
        BY <1>2, <3>1
      <3>4. QED
        BY <2>2, <3>2, <3>3
    <2>3. QED
      BY <2>1, <2>2
  <1>9. QED
    BY <1>3, <1>4, <1>6, <1>7, <1>8

\* The result holds entries of s other than the i-th, each once.
LEMMA RemoveKeeps ==
  ASSUME NEW s \in Seq(Entries), Distinct(s), NEW i \in DOMAIN s
  PROVE  /\ \A j \in DOMAIN Remove(s, i) :
               \E m \in DOMAIN s : m # i /\ Remove(s, i)[j] = s[m]
         /\ \A j \in DOMAIN Remove(s, i) : Remove(s, i)[j].key # s[i].key
         /\ Distinct(Remove(s, i))
  <1> DEFINE r == Remove(s, i)
             at(j) == IF j < i THEN j ELSE j + 1
  <1>1. /\ r \in Seq(Entries) /\ Len(r) = Len(s) - 1
        /\ \A j \in DOMAIN r : r[j] = s[at(j)]
    BY RemoveFacts
  <1> HIDE DEF r
  <1>2. \A j \in DOMAIN r : at(j) \in DOMAIN s /\ at(j) # i
    BY <1>1
  <1>3. \A j, m \in DOMAIN r : at(j) = at(m) => j = m
    BY <1>1
  <1>4. \A j \in DOMAIN r : r[j].key # s[i].key
    BY <1>1, <1>2 DEF Distinct
  <1>5. Distinct(r)
    BY <1>1, <1>2, <1>3 DEF Distinct
  <1>6. QED
    BY <1>1, <1>2, <1>4, <1>5 DEF r

LEMMA WithoutFacts ==
  ASSUME cache \in Seq(Entries), Distinct(cache), NEW k \in Keys
  PROVE  /\ Without(k) \in Seq(Entries)
         /\ Len(Without(k)) <= Len(cache)
         /\ \A j \in DOMAIN Without(k) : \E m \in DOMAIN cache : Without(k)[j] = cache[m]
         /\ \A j \in DOMAIN Without(k) : Without(k)[j].key # k
         /\ Distinct(Without(k))
  <1>1. CASE k \in Cached
    <2> DEFINE i == CHOOSE i \in DOMAIN cache : cache[i].key = k
    <2>1. i \in DOMAIN cache /\ cache[i].key = k
      BY <1>1 DEF Cached
    <2>2. Without(k) = Remove(cache, i)
      BY <1>1 DEF Without
    <2> HIDE DEF i
    <2>3. QED
      BY <2>1, <2>2, RemoveFacts, RemoveKeeps
  <1>2. CASE k \notin Cached
    BY <1>2 DEF Without, Cached
  <1>3. QED
    BY <1>1, <1>2

LEMMA AppendKeeps ==
  ASSUME NEW s \in Seq(Entries), Distinct(s), NEW e \in Entries,
         \A j \in DOMAIN s : s[j].key # e.key
  PROVE  /\ Append(s, e) \in Seq(Entries)
         /\ Len(Append(s, e)) = Len(s) + 1
         /\ \A j \in DOMAIN Append(s, e) :
               Append(s, e)[j] = e \/ \E m \in DOMAIN s : Append(s, e)[j] = s[m]
         /\ Distinct(Append(s, e))
  BY DEF Distinct

LEMMA EvictedKeeps ==
  ASSUME NEW s \in Seq(Entries), Distinct(s)
  PROVE  /\ Evicted(s) \in Seq(Entries)
         /\ Len(Evicted(s)) <= MaxSize
         /\ \A j \in DOMAIN Evicted(s) : \E m \in DOMAIN s : Evicted(s)[j] = s[m]
         /\ Distinct(Evicted(s))
  <1>1. CASE Len(s) > MaxSize
    <2> DEFINE d == Len(s) - MaxSize
    <2>1. Evicted(s) = SubSeq(s, d + 1, Len(s))
      BY <1>1 DEF Evicted
    <2>2. /\ d \in Nat /\ Len(Evicted(s)) = MaxSize
          /\ Evicted(s) \in Seq(Entries)
          /\ \A j \in DOMAIN Evicted(s) : j + d \in DOMAIN s /\ Evicted(s)[j] = s[j + d]
      BY <1>1, <2>1, SizeAssumption
    <2> HIDE DEF d
    <2>3. Distinct(Evicted(s))
      BY <2>2 DEF Distinct
    <2>4. QED
      BY <2>2, <2>3, SizeAssumption
  <1>2. CASE ~ (Len(s) > MaxSize)
    BY <1>2, SizeAssumption DEF Evicted
  <1>3. QED
    BY <1>1, <1>2
-----------------------------------------------------------------------------
LEMMA InitInv == Init => IInv
  <1> SUFFICES ASSUME Init PROVE IInv
    OBVIOUS
  <1>1. TypeOK
    BY TimeAssumption DEF Init, TypeOK, Entries, Answers, NoAnswer
  <1>2. EntryInv /\ CacheBounded
    BY SizeAssumption DEF Init, EntryInv, CacheBounded
  <1>3. TaskInv /\ NoNeedlessLoad /\ AnswersFresh
    BY DEF Init, TaskInv, NoNeedlessLoad, AnswersFresh, Running, Over, NoAnswer
  <1>4. QED
    BY <1>1, <1>2, <1>3 DEF IInv

\* A cache made of old entries, or empty of a key, is judged like the old one.
LEMMA SubCache ==
  ASSUME IInv, cache' \in Seq(Entries), Len(cache') <= MaxSize, Distinct(cache'),
         \A j \in DOMAIN cache' : \E m \in DOMAIN cache : cache'[j] = cache[m],
         UNCHANGED <<loaded, now>>
  PROVE  /\ EntryInv' /\ CacheBounded'
         /\ \A k \in Keys : Miss(k) => Miss(k)'
  BY DEF IInv, EntryInv, CacheBounded, Distinct, Miss, Fresh

LEMMA StepInv == IInv /\ [Next]_vars => IInv'
  <1> SUFFICES ASSUME IInv, [Next]_vars PROVE IInv'
    OBVIOUS
  <1> USE DEF IInv
  <1>a. /\ cache \in Seq(Entries) /\ Distinct(cache) /\ Len(cache) <= MaxSize
        /\ Len(cache) \in Nat /\ MaxSize \in Nat
    BY SizeAssumption DEF TypeOK, CacheBounded, Distinct
  <1>b. \A i \in DOMAIN cache : cache[i].key \in Keys /\ cache[i].at \in Nat
    <2>1. \A i \in DOMAIN cache : cache[i] \in Entries
      BY <1>a
    <2>2. QED
      BY <2>1 DEF Entries
  <1>1. ASSUME NEW c \in Callers, NEW k \in Keys, Hit(c, k) PROVE IInv'
    <2>1. PICK i \in DOMAIN cache : /\ cache[i].key = k /\ Fresh(cache[i])
                                    /\ cache' = Append(Remove(cache, i), cache[i])
      BY <1>1 DEF Hit
    <2>2. cache[i] \in Entries
      BY <1>a
    <2>3. /\ cache' \in Seq(Entries) /\ Distinct(cache') /\ Len(cache') = Len(cache)
          /\ \A j \in DOMAIN cache' : \E m \in DOMAIN cache : cache'[j] = cache[m]
      <3> DEFINE r == Remove(cache, i)
      <3>1. /\ r \in Seq(Entries) /\ Len(r) = Len(cache) - 1 /\ Distinct(r)
            /\ \A j \in DOMAIN r : \E m \in DOMAIN cache : r[j] = cache[m]
            /\ \A j \in DOMAIN r : r[j].key # cache[i].key
        BY <1>a, RemoveFacts, RemoveKeeps
      <3> HIDE DEF r
      <3>2. /\ Append(r, cache[i]) \in Seq(Entries) /\ Distinct(Append(r, cache[i]))
            /\ Len(Append(r, cache[i])) = Len(r) + 1
            /\ \A j \in DOMAIN Append(r, cache[i]) :
                  Append(r, cache[i])[j] = cache[i]
                  \/ \E m \in DOMAIN r : Append(r, cache[i])[j] = r[m]
        BY <2>2, <3>1, AppendKeeps
      <3>3. cache' = Append(r, cache[i])
        BY <2>1 DEF r
      <3>4. QED
        BY <1>a, <3>1, <3>2, <3>3
    <2>4. EntryInv' /\ CacheBounded' /\ \A key \in Keys : Miss(key) => Miss(key)'
      <3>1. UNCHANGED <<loaded, now>>
        BY <1>1 DEF Hit
      <3>2. Len(cache') <= MaxSize
        BY <1>a, <2>3
      <3>3. QED
        BY <2>3, <3>1, <3>2, SubCache
    <2>5. NoNeedlessLoad'
      BY <1>1, <2>4 DEF Hit, NoNeedlessLoad, Running
    <2>6. TaskInv'
      BY <1>1 DEF Hit, TaskInv
    <2>7. now - loaded[k] \in Int /\ now - loaded[k] < TTL
      BY <2>1 DEF EntryInv, Fresh, TypeOK
    <2>8. TypeOK'
      BY <1>1, <2>3, <2>7 DEF Hit, TypeOK, Answers, Use
    <2>9. AnswersFresh'
      BY <1>1, <2>7 DEF Hit, AnswersFresh, TypeOK
    <2>10. QED
      BY <2>4, <2>5, <2>6, <2>8, <2>9
  <1>c. ASSUME NEW k \in Keys, cache' = Without(k), UNCHANGED <<loaded, now>>
        PROVE  /\ EntryInv' /\ CacheBounded' /\ cache' \in Seq(Entries)
               /\ Miss(k)' /\ \A key \in Keys : Miss(key) => Miss(key)'
    <2>1. /\ cache' \in Seq(Entries) /\ Distinct(cache') /\ Len(cache') <= Len(cache)
          /\ \A j \in DOMAIN cache' : \E m \in DOMAIN cache : cache'[j] = cache[m]
          /\ \A j \in DOMAIN cache' : cache'[j].key # k
      BY <1>a, <1>c, WithoutFacts
    <2>2. Len(cache') \in Nat
      BY <2>1
    <2>3. QED
      BY <1>a, <1>c, <2>1, <2>2, SubCache DEF Miss
  <1>2. ASSUME NEW c \in Callers, NEW k \in Keys, Join(c, k) PROVE IInv'
    <2>1. /\ EntryInv' /\ CacheBounded' /\ cache' \in Seq(Entries)
          /\ \A key \in Keys : Miss(key) => Miss(key)'
      BY <1>2, <1>c DEF Join
    <2>2. TypeOK'
      BY <1>2, <2>1 DEF Join, TypeOK, Answers, NoAnswer
    <2>3. NoNeedlessLoad' /\ TaskInv'
      BY <1>2, <2>1 DEF Join, NoNeedlessLoad, TaskInv, Running
    <2>4. AnswersFresh'
      BY <1>2 DEF Join, AnswersFresh, NoAnswer, TypeOK
    <2>5. QED
      BY <2>1, <2>2, <2>3, <2>4
  <1>3. ASSUME NEW c \in Callers, NEW k \in Keys, Start(c, k) PROVE IInv'
    <2>1. /\ EntryInv' /\ CacheBounded' /\ cache' \in Seq(Entries)
          /\ Miss(k)' /\ \A key \in Keys : Miss(key) => Miss(key)'
      BY <1>3, <1>c DEF Start
    <2>2. PICK t \in Tasks : /\ task[t] = Over
                             /\ task' = [task EXCEPT ![t] = [key |-> k, state |-> "running"]]
                             /\ pending' = [pending EXCEPT ![k] = t]
                             /\ waits' = [waits EXCEPT ![c] = t]
      BY <1>3 DEF Start
    <2>3. TypeOK'
      BY <1>3, <2>1, <2>2 DEF Start, TypeOK, Answers, NoAnswer
    <2>4. TaskInv'
      BY <1>3, <2>2, NameAssumption DEF Start, TaskInv, TypeOK, Over
    <2>5. NoNeedlessLoad'
      BY <2>1, <2>2 DEF NoNeedlessLoad, Running, TypeOK
    <2>6. AnswersFresh'
      BY <1>3 DEF Start, AnswersFresh, NoAnswer, TypeOK
    <2>7. QED
      BY <2>1, <2>3, <2>4, <2>5, <2>6
  <1>4. ASSUME NEW t \in Tasks, LoadOk(t) PROVE IInv'
    <2> DEFINE k == task[t].key
               entry == [key |-> k, at |-> now]
               w == Without(k)
               a == Append(w, entry)
    <2>1. k \in Keys /\ entry \in Entries /\ task[t] # Over
      BY <1>4 DEF LoadOk, TypeOK, Over, Entries
    <2>2. /\ w \in Seq(Entries) /\ Distinct(w) /\ \A j \in DOMAIN w : w[j].key # k
          /\ \A j \in DOMAIN w : \E m \in DOMAIN cache : w[j] = cache[m]
      BY <1>a, <2>1, WithoutFacts
    <2> HIDE DEF w
    <2>3. /\ a \in Seq(Entries) /\ Distinct(a)
          /\ \A j \in DOMAIN a : a[j] = entry \/ \E m \in DOMAIN w : a[j] = w[m]
      BY <2>1, <2>2, AppendKeeps
    <2> HIDE DEF a
    <2>4. cache' = Evicted(a)
      BY <1>4 DEF LoadOk, w, a
    <2>5. /\ cache' \in Seq(Entries) /\ Distinct(cache') /\ Len(cache') <= MaxSize
          /\ \A j \in DOMAIN cache' : \E m \in DOMAIN a : cache'[j] = a[m]
      BY <2>3, <2>4, EvictedKeeps
    <2>6. \A j \in DOMAIN cache' :
             \/ cache'[j] = entry
             \/ cache'[j].key # k /\ \E m \in DOMAIN cache : cache'[j] = cache[m]
      BY <2>2, <2>3, <2>5
    <2>7. now' = now /\ loaded' = [loaded EXCEPT ![k] = now]
      BY <1>4 DEF LoadOk
    <2>8. EntryInv'
      <3> SUFFICES ASSUME NEW j \in DOMAIN cache'
                   PROVE  /\ cache'[j].at = loaded'[cache'[j].key]
                          /\ cache'[j].at <= now'
        BY DEF EntryInv
      <3>1. CASE cache'[j] = entry
        BY <2>1, <2>7, <3>1 DEF TypeOK
      <3>2. CASE cache'[j].key # k /\ \E m \in DOMAIN cache : cache'[j] = cache[m]
        BY <1>b, <2>7, <3>2 DEF EntryInv, TypeOK
      <3>3. QED
        BY <2>6, <3>1, <3>2
    <2>9. CacheBounded'
      BY <2>5 DEF CacheBounded, Distinct
    <2>10. TypeOK'
      BY <1>4, <2>1, <2>5 DEF LoadOk, TypeOK, Use, Over
    <2>11. TaskInv'
      BY <1>4, <2>1 DEF LoadOk, TaskInv, TypeOK, Over
    <2>12. \A key \in Keys : Running(key)' \subseteq Running(key) \ {t}
      BY <1>4 DEF LoadOk, Running, TypeOK
    <2>13. Running(k) \subseteq {t}
      BY <1>4, <2>1 DEF LoadOk, Running, TaskInv, Over
    <2>14. \A key \in Keys \ {k} : Miss(key) => Miss(key)'
      BY <2>6, <2>7 DEF Miss, Fresh
    <2>15. NoNeedlessLoad'
      BY <2>12, <2>13, <2>14 DEF NoNeedlessLoad
    <2>16. AnswersFresh'
      BY <1>4 DEF LoadOk, AnswersFresh
    <2>17. QED
      BY <2>8, <2>9, <2>10, <2>11, <2>15, <2>16
  <1>5. ASSUME NEW t \in Tasks, LoadError(t) PROVE IInv'
    <2>1. TypeOK' /\ TaskInv'
      BY <1>5 DEF LoadError, TypeOK, TaskInv, Over
    <2>2. NoNeedlessLoad'
      BY <1>5 DEF LoadError, NoNeedlessLoad, Running, Miss, Fresh, TypeOK
    <2>3. EntryInv' /\ CacheBounded' /\ AnswersFresh'
      BY <1>5 DEF LoadError, EntryInv, CacheBounded, AnswersFresh
    <2>4. QED
      BY <2>1, <2>2, <2>3
  <1>6. ASSUME NEW t \in Tasks, Callback(t) PROVE IInv'
    <2>1. task[t] # Over /\ task[t].key \in Keys /\ task[t].state \in {"ok", "error"}
      BY <1>6 DEF Callback, TypeOK, Over
    <2>2. TypeOK'
      BY <1>6, <2>1 DEF Callback, TypeOK, Answers
    <2>3. TaskInv'
      BY <1>6, <2>1 DEF Callback, TaskInv, TypeOK
    <2>4. NoNeedlessLoad'
      BY <1>6 DEF Callback, NoNeedlessLoad, Running, Miss, Fresh, TypeOK, Over
    <2>5. AnswersFresh'
      BY <1>6 DEF Callback, AnswersFresh
    <2>6. EntryInv' /\ CacheBounded'
      BY <1>6 DEF Callback, EntryInv, CacheBounded
    <2>7. QED
      BY <2>2, <2>3, <2>4, <2>5, <2>6
  <1>7. ASSUME NEW c \in Callers, Cancel(c) PROVE IInv'
    BY <1>7 DEF Cancel, TypeOK, TaskInv, EntryInv, CacheBounded, NoNeedlessLoad,
       AnswersFresh, Running, Miss, Fresh
  <1>8. CASE Tick
    <2>1. TypeOK' /\ TaskInv' /\ CacheBounded' /\ AnswersFresh'
      BY <1>8 DEF Tick, TypeOK, TaskInv, CacheBounded, AnswersFresh
    <2>2. /\ now' = now + 1 /\ now \in Nat
          /\ \A i \in DOMAIN cache : cache[i].at \in Nat
      BY <1>8, <1>b DEF Tick, TypeOK
    <2>3. EntryInv'
      BY <1>8, <2>2 DEF Tick, EntryInv
    <2>4. NoNeedlessLoad'
      BY <1>8, <2>2, TimeAssumption DEF Tick, NoNeedlessLoad, Running, Miss, Fresh
    <2>5. QED
      BY <2>1, <2>3, <2>4
  <1>9. ASSUME NEW c \in Callers, NEW k \in Keys, JoinFinished(c, k) PROVE IInv'
    <2>1. /\ EntryInv' /\ CacheBounded' /\ cache' \in Seq(Entries)
          /\ \A key \in Keys : Miss(key) => Miss(key)'
      BY <1>9, <1>c DEF JoinFinished
    <2>2. task[pending[k]].state \in {"ok", "error"}
      BY <1>9 DEF JoinFinished, TypeOK, TaskInv
    <2>3. TypeOK'
      BY <1>9, <2>1, <2>2 DEF JoinFinished, TypeOK, Answers
    <2>4. NoNeedlessLoad' /\ TaskInv'
      BY <1>9, <2>1 DEF JoinFinished, NoNeedlessLoad, TaskInv, Running
    <2>5. AnswersFresh'
      BY <1>9 DEF JoinFinished, AnswersFresh, TypeOK
    <2>6. QED
      BY <2>1, <2>3, <2>4, <2>5
  <1>10. CASE UNCHANGED vars
    <2>1. TypeOK'
      BY <1>10 DEF vars, TypeOK
    <2>2. TaskInv' /\ EntryInv' /\ CacheBounded'
      BY <1>10 DEF vars, TaskInv, EntryInv, CacheBounded
    <2>3. NoNeedlessLoad' /\ AnswersFresh'
      BY <1>10 DEF vars, NoNeedlessLoad, AnswersFresh, Running, Miss, Fresh
    <2>4. QED
      BY <2>1, <2>2, <2>3
  <1>11. QED
    BY <1>1, <1>2, <1>3, <1>4, <1>5, <1>6, <1>7, <1>8, <1>9, <1>10 DEF Next, LoadEnds
-----------------------------------------------------------------------------
THEOREM Invariance == Spec => []IInv
  BY InitInv, StepInv, PTL DEF Spec

\* cached_check never lets two requests of one key run at once, nor one beside a
\* fresh entry, however callers come, are cancelled and meet finished tasks.
THEOREM OneLoadPerKey == Spec => []LoadsShared
  <1>1. IInv => SingleFlight
    <2> SUFFICES ASSUME IInv, NEW k \in Keys PROVE Cardinality(Running(k)) <= 1
      BY DEF SingleFlight
    <2>1. Running(k) \subseteq {pending[k]}
      BY DEF IInv, TaskInv, Running, Over
    <2>2. IsFiniteSet({pending[k]}) /\ Cardinality({pending[k]}) = 1
      BY FS_Singleton
    <2>3. QED
      BY <2>1, <2>2, FS_Subset
  <1>2. IInv => LoadsShared
    BY <1>1 DEF IInv, LoadsShared
  <1>3. QED
    BY <1>2, Invariance, PTL

\* What the cache serves was loaded successfully less than TTL ago, and the
\* cache holds at most MaxSize entries, one per key.
THEOREM CacheSound == Spec => []CacheRight
  <1>1. IInv => CacheRight
    BY DEF IInv, CacheRight
  <1>2. QED
    BY <1>1, Invariance, PTL

\* The types of CACHE, PENDING, the tasks and their callers.
THEOREM TypeCorrect == Spec => []TypeOK
  <1>1. IInv => TypeOK
    BY DEF IInv
  <1>2. QED
    BY <1>1, Invariance, PTL
-----------------------------------------------------------------------------
(***************************************************************************)
(* Least recently used first.                                              *)
(***************************************************************************)
\* The entries of s stand in the order in which u says they were used.
Ordered(s, u) == \A i, j \in DOMAIN s : i < j => <<s[i].key, s[j].key>> \in u

\* r holds entries of s, in the order they have there.
Subsequence(r, s) ==
    \A i, j \in DOMAIN r : i < j =>
        \E m, n \in DOMAIN s : m < n /\ r[i] = s[m] /\ r[j] = s[n]

UseInv == Ordered(cache, used)

LEMMA SubsequenceOrdered ==
  ASSUME NEW r, NEW s, NEW u, Subsequence(r, s), Ordered(s, u)
  PROVE  Ordered(r, u)
  BY DEF Subsequence, Ordered

LEMMA RemoveOrder ==
  ASSUME NEW s \in Seq(Entries), NEW i \in DOMAIN s
  PROVE  Subsequence(Remove(s, i), s)
  <1> DEFINE r == Remove(s, i)
             at(j) == IF j < i THEN j ELSE j + 1
  <1>1. /\ r \in Seq(Entries) /\ Len(r) = Len(s) - 1
        /\ \A j \in DOMAIN r : r[j] = IF j < i THEN s[j] ELSE s[j + 1]
    BY RemoveFacts
  <1>2. i \in 1..Len(s) /\ Len(s) \in Nat /\ DOMAIN s = 1..Len(s)
    OBVIOUS
  <1>3. DOMAIN r = 1..(Len(s) - 1)
    BY <1>1, <1>2
  <1> HIDE DEF r
  <1>4. \A j \in DOMAIN r : at(j) \in DOMAIN s /\ r[j] = s[at(j)]
    BY <1>1, <1>2, <1>3
  <1>5. \A j, m \in DOMAIN r : j < m => at(j) < at(m)
    BY <1>2, <1>3
  <1> HIDE DEF at
  <1>6. QED
    BY <1>4, <1>5 DEF Subsequence, r

\* Nothing but the i-th entry is lost.
LEMMA RemoveLeaves ==
  ASSUME NEW s \in Seq(Entries), NEW n \in DOMAIN s, NEW i \in DOMAIN s, i # n
  PROVE  \E m \in DOMAIN Remove(s, n) : Remove(s, n)[m] = s[i]
  <1> DEFINE r == Remove(s, n)
             to == IF i < n THEN i ELSE i - 1
  <1>1. /\ r \in Seq(Entries) /\ Len(r) = Len(s) - 1
        /\ \A j \in DOMAIN r : r[j] = IF j < n THEN s[j] ELSE s[j + 1]
    BY RemoveFacts
  <1>2. n \in 1..Len(s) /\ i \in 1..Len(s) /\ Len(s) \in Nat
    OBVIOUS
  <1>3. DOMAIN r = 1..(Len(s) - 1)
    BY <1>1, <1>2
  <1> HIDE DEF r
  <1>4. to \in DOMAIN r /\ (IF to < n THEN s[to] ELSE s[to + 1]) = s[i]
    BY <1>2, <1>3
  <1>5. QED
    BY <1>1, <1>4 DEF r

LEMMA WithoutLeaves ==
  ASSUME cache \in Seq(Entries), NEW k \in Keys, NEW i \in DOMAIN cache, cache[i].key # k
  PROVE  \E m \in DOMAIN Without(k) : Without(k)[m] = cache[i]
  <1>1. CASE k \in Cached
    <2> DEFINE n == CHOOSE n \in DOMAIN cache : cache[n].key = k
    <2>1. n \in DOMAIN cache /\ cache[n].key = k
      BY <1>1 DEF Cached
    <2>2. Without(k) = Remove(cache, n)
      BY <1>1 DEF Without
    <2> HIDE DEF n
    <2>3. QED
      BY <2>1, <2>2, RemoveLeaves
  <1>2. CASE k \notin Cached
    BY <1>2 DEF Without
  <1>3. QED
    BY <1>1, <1>2

LEMMA AppendLeaves ==
  ASSUME NEW s \in Seq(Entries), NEW e \in Entries
  PROVE  /\ \A j \in DOMAIN s : j \in DOMAIN Append(s, e) /\ Append(s, e)[j] = s[j]
         /\ Len(s) + 1 \in DOMAIN Append(s, e) /\ Append(s, e)[Len(s) + 1] = e
         /\ Len(Append(s, e)) = Len(s) + 1
  OBVIOUS

LEMMA WithoutOrder ==
  ASSUME cache \in Seq(Entries), NEW k \in Keys
  PROVE  Subsequence(Without(k), cache)
  <1>1. CASE k \in Cached
    <2> DEFINE i == CHOOSE i \in DOMAIN cache : cache[i].key = k
    <2>1. i \in DOMAIN cache
      BY <1>1 DEF Cached
    <2>2. Without(k) = Remove(cache, i)
      BY <1>1 DEF Without
    <2> HIDE DEF i
    <2>3. QED
      BY <2>1, <2>2, RemoveOrder
  <1>2. CASE k \notin Cached
    BY <1>2 DEF Without, Subsequence
  <1>3. QED
    BY <1>1, <1>2

LEMMA EvictedOrder ==
  ASSUME NEW s \in Seq(Entries)
  PROVE  Subsequence(Evicted(s), s)
  <1>1. CASE Len(s) > MaxSize
    <2> DEFINE d == Len(s) - MaxSize
    <2>1. Evicted(s) = SubSeq(s, d + 1, Len(s))
      BY <1>1 DEF Evicted
    <2>2. /\ d \in Nat /\ DOMAIN Evicted(s) = 1..MaxSize
          /\ \A j \in DOMAIN Evicted(s) : j + d \in DOMAIN s /\ Evicted(s)[j] = s[j + d]
      BY <1>1, <2>1, SizeAssumption
    <2> HIDE DEF d
    <2>3. ASSUME NEW i \in DOMAIN Evicted(s), NEW j \in DOMAIN Evicted(s), i < j
          PROVE  i + d < j + d
      BY <2>2, <2>3, SizeAssumption
    <2>4. QED
      BY <2>2, <2>3 DEF Subsequence
  <1>2. CASE ~ (Len(s) > MaxSize)
    BY <1>2 DEF Evicted, Subsequence
  <1>3. QED
    BY <1>1, <1>2

\* What is used last comes last.
LEMMA UsedLast ==
  ASSUME NEW s \in Seq(Entries), NEW e \in Entries, Ordered(s, used),
         \A j \in DOMAIN s : s[j].key # e.key, Use(e.key)
  PROVE  Ordered(Append(s, e), used')
  <1> DEFINE a == Append(s, e)
  <1>1. /\ Len(s) \in Nat /\ DOMAIN s = 1..Len(s) /\ DOMAIN a = 1..(Len(s) + 1)
        /\ a[Len(s) + 1] = e /\ \A j \in DOMAIN s : a[j] = s[j]
    OBVIOUS
  <1>2. \A j \in DOMAIN s : s[j].key \in Keys
    <2>1. \A j \in DOMAIN s : s[j] \in Entries
      OBVIOUS
    <2>2. QED
      BY <2>1 DEF Entries
  <1> HIDE DEF a
  <1>3. SUFFICES ASSUME NEW i \in DOMAIN a, NEW j \in DOMAIN a, i < j
                 PROVE  <<a[i].key, a[j].key>> \in used'
    BY DEF Ordered, a
  <1>4. i \in DOMAIN s /\ a[i] = s[i]
    BY <1>1, <1>3
  <1>5. CASE j = Len(s) + 1
    <2>1. a[i].key \in Keys \ {e.key} /\ a[j].key = e.key
      BY <1>1, <1>2, <1>4, <1>5
    <2>2. QED
      BY <2>1 DEF Use
  <1>6. CASE j # Len(s) + 1
    <2>1. j \in DOMAIN s /\ a[j] = s[j]
      BY <1>1, <1>6
    <2>2. <<s[i].key, s[j].key>> \in used
      BY <1>3, <1>4, <2>1 DEF Ordered
    <2>3. s[i].key # e.key /\ s[j].key # e.key
      BY <1>4, <2>1
    <2>4. <<s[i].key, s[j].key>> \in used'
      BY <2>2, <2>3 DEF Use
    <2>5. QED
      BY <1>4, <2>1, <2>4
  <1>7. QED
    BY <1>5, <1>6

\* The cache with the entry that LoadOk adds, before anything is evicted.
Loaded(k) == Append(Without(k), [key |-> k, at |-> now])

LEMMA LoadedFacts ==
  ASSUME IInv, UseInv, NEW t \in Tasks, LoadOk(t)
  PROVE  LET k == task[t].key
             a == Loaded(k)
         IN  /\ k \in Keys /\ a \in Seq(Entries) /\ Distinct(a) /\ Ordered(a, used')
             /\ cache' = Evicted(a)
             /\ \A i \in DOMAIN cache : cache[i].key # k =>
                   \E m \in DOMAIN a : a[m] = cache[i]
             /\ a[Len(a)].key = k /\ Len(a) \in Nat \ {0}
  <1> DEFINE k == task[t].key
             e == [key |-> k, at |-> now]
             w == Without(k)
             a == Append(w, e)
  <1>1. k \in Keys /\ e \in Entries
    BY DEF LoadOk, IInv, TypeOK, Over, Entries
  <1>2. cache \in Seq(Entries) /\ Distinct(cache)
    BY DEF IInv, TypeOK, CacheBounded, Distinct
  <1>3. /\ w \in Seq(Entries) /\ Distinct(w) /\ \A j \in DOMAIN w : w[j].key # k
        /\ Subsequence(w, cache)
    BY <1>1, <1>2, WithoutFacts, WithoutOrder
  <1>4. Ordered(w, used)
    BY <1>3, SubsequenceOrdered DEF UseInv
  <1>5. \A i \in DOMAIN cache : cache[i].key # k => \E m \in DOMAIN w : w[m] = cache[i]
    BY <1>1, <1>2, WithoutLeaves
  <1>6. Use(k) /\ cache' = Evicted(a)
    BY DEF LoadOk
  <1> HIDE DEF w
  <1>7. /\ a \in Seq(Entries) /\ Distinct(a) /\ DOMAIN w \subseteq DOMAIN a
        /\ Len(a) = Len(w) + 1 /\ a[Len(a)] = e
        /\ \A m \in DOMAIN w : a[m] = w[m]
    <2>1. a \in Seq(Entries) /\ Distinct(a)
      BY <1>1, <1>3, AppendKeeps
    <2>2. /\ DOMAIN w \subseteq DOMAIN a /\ Len(a) = Len(w) + 1 /\ a[Len(a)] = e
          /\ \A m \in DOMAIN w : a[m] = w[m]
      BY <1>1, <1>3
    <2>3. QED
      BY <2>1, <2>2
  <1>8. Ordered(a, used')
    <2>1. e.key = k
      OBVIOUS
    <2>2. QED
      BY <1>1, <1>3, <1>4, <1>6, <2>1, UsedLast
  <1>9. a = Loaded(k) /\ Len(w) \in Nat
    BY <1>3 DEF Loaded, w
  <1> HIDE DEF a
  <1>10. \A i \in DOMAIN cache : cache[i].key # k => \E m \in DOMAIN a : a[m] = cache[i]
    BY <1>5, <1>7
  <1>11. a[Len(a)].key = k /\ Len(a) \in Nat \ {0}
    BY <1>7, <1>9
  <1>12. QED
    BY <1>1, <1>6, <1>7, <1>8, <1>9, <1>10, <1>11

LEMMA UseStep == IInv /\ UseInv /\ [Next]_vars => UseInv'
  <1> SUFFICES ASSUME IInv, UseInv, [Next]_vars PROVE UseInv'
    OBVIOUS
  <1>0. cache \in Seq(Entries) /\ Distinct(cache)
    BY DEF IInv, TypeOK, CacheBounded, Distinct
  <1>1. ASSUME NEW c \in Callers, NEW k \in Keys, Hit(c, k) PROVE UseInv'
    <2>1. PICK i \in DOMAIN cache : /\ cache[i].key = k
                                    /\ cache' = Append(Remove(cache, i), cache[i])
      BY <1>1 DEF Hit
    <2> DEFINE r == Remove(cache, i)
    <2>2. /\ r \in Seq(Entries) /\ \A j \in DOMAIN r : r[j].key # cache[i].key
          /\ Subsequence(r, cache)
      BY <1>0, RemoveFacts, RemoveKeeps, RemoveOrder
    <2>3. Ordered(r, used)
      BY <2>2, SubsequenceOrdered DEF UseInv
    <2>4. cache[i] \in Entries /\ Use(cache[i].key) /\ cache' = Append(r, cache[i])
      BY <1>0, <1>1, <2>1 DEF Hit
    <2> HIDE DEF r
    <2>5. QED
      BY <2>2, <2>3, <2>4, UsedLast DEF UseInv
  <1>2. ASSUME NEW k \in Keys, cache' = Without(k), used' = used PROVE UseInv'
    <2>1. Subsequence(cache', cache)
      BY <1>0, <1>2, WithoutOrder
    <2>2. QED
      BY <1>2, <2>1, SubsequenceOrdered DEF UseInv
  <1>3. ASSUME NEW t \in Tasks, LoadOk(t) PROVE UseInv'
    <2> DEFINE a == Loaded(task[t].key)
    <2>1. a \in Seq(Entries) /\ Ordered(a, used') /\ cache' = Evicted(a)
      BY <1>3, LoadedFacts
    <2> HIDE DEF a
    <2>2. Subsequence(cache', a)
      BY <2>1, EvictedOrder
    <2>3. QED
      BY <2>1, <2>2, SubsequenceOrdered DEF UseInv
  <1>4. ASSUME UNCHANGED <<cache, used>> PROVE UseInv'
    BY <1>4 DEF UseInv
  <1>5. QED
    BY <1>1, <1>2, <1>3, <1>4 DEF Next, LoadEnds, Join, JoinFinished, Start, LoadError,
       Callback, Cancel, Tick, vars

LEMMA UseInvariance == Spec => []UseInv
  <1>1. Init => UseInv
    BY DEF Init, UseInv, Ordered
  <1>2. QED
    BY <1>1, UseStep, Invariance, PTL DEF Spec

\* A cache without duplicates has as many keys as entries.
LEMMA KeysCounted ==
  ASSUME NEW s \in Seq(Entries), Distinct(s)
  PROVE  Cardinality({s[i].key : i \in DOMAIN s}) = Len(s)
  <1> DEFINE T == {s[i].key : i \in DOMAIN s}
             f == [i \in 1..Len(s) |-> s[i].key]
  <1>1. Len(s) \in Nat /\ DOMAIN s = 1..Len(s)
    OBVIOUS
  <1>2. f \in Bijection(1..Len(s), T)
    BY <1>1 DEF Distinct, Bijection, Injection, Surjection, IsInjective
  <1>3. ExistsBijection(1..Len(s), T)
    BY <1>2 DEF ExistsBijection
  <1>4. QED
    BY <1>1, <1>3, FS_CountingElements

\* cached_check drops an entry that is still fresh only by popitem(last=False),
\* when the cache is full of entries that were all used after it: neither a hit
\* nor another key's miss or load takes it away.
THEOREM EvictsOldest == Spec => LeastRecentlyUsed
  <1> DEFINE Right(i) ==
        (Fresh(cache[i]) /\ cache[i].key \notin Cached')
           => /\ Cardinality(Cached') = MaxSize
              /\ \A k \in Cached' : <<cache[i].key, k>> \in used'
  <1>1. ASSUME IInv, UseInv, [Next]_vars PROVE \A i \in DOMAIN cache : Right(i)
    <2> SUFFICES ASSUME NEW i \in DOMAIN cache, Fresh(cache[i]), cache[i].key \notin Cached'
                 PROVE  /\ Cardinality(Cached') = MaxSize
                        /\ \A k \in Cached' : <<cache[i].key, k>> \in used'
      OBVIOUS
    <2>0. cache \in Seq(Entries) /\ Distinct(cache)
      BY <1>1 DEF IInv, TypeOK, CacheBounded, Distinct
    <2>1. ASSUME NEW c \in Callers, NEW k \in Keys, Hit(c, k) PROVE FALSE
      <3>1. PICK n \in DOMAIN cache : cache' = Append(Remove(cache, n), cache[n])
        BY <2>1 DEF Hit
      <3> DEFINE r == Remove(cache, n)
      <3>2. r \in Seq(Entries) /\ cache[n] \in Entries
        BY <2>0, RemoveFacts
      <3>3. cache[i] = cache[n] \/ \E m \in DOMAIN r : r[m] = cache[i]
        BY <2>0, RemoveLeaves
      <3>4. cache' = Append(r, cache[n])
        BY <3>1
      <3> HIDE DEF r
      <3>5. \E m \in DOMAIN cache' : cache'[m] = cache[i]
        BY <3>2, <3>3, <3>4, AppendLeaves
      <3>6. QED
        BY <3>5 DEF Cached
    <2>2. ASSUME NEW k \in Keys, Miss(k), cache' = Without(k) PROVE FALSE
      <3>1. cache[i].key # k
        BY <2>2 DEF Miss
      <3>2. \E m \in DOMAIN cache' : cache'[m] = cache[i]
        BY <2>0, <2>2, <3>1, WithoutLeaves
      <3>3. QED
        BY <3>2 DEF Cached
    <2>3. ASSUME NEW t \in Tasks, LoadOk(t)
          PROVE  /\ Cardinality(Cached') = MaxSize
                 /\ \A k \in Cached' : <<cache[i].key, k>> \in used'
      <3> DEFINE k == task[t].key
                 a == Loaded(k)
      <3>1. /\ k \in Keys /\ a \in Seq(Entries) /\ Distinct(a) /\ Ordered(a, used')
            /\ cache' = Evicted(a) /\ a[Len(a)].key = k /\ Len(a) \in Nat \ {0}
            /\ cache[i].key # k => \E m \in DOMAIN a : a[m] = cache[i]
        BY <1>1, <2>3, LoadedFacts
      <3> HIDE DEF a, k
      <3>2. CASE Len(a) > MaxSize
        <4> DEFINE d == Len(a) - MaxSize
        <4>1. /\ d \in Nat /\ Len(cache') = MaxSize /\ DOMAIN cache' = 1..MaxSize
              /\ \A j \in 1..MaxSize : j + d \in DOMAIN a /\ cache'[j] = a[j + d]
          BY <3>1, <3>2, SizeAssumption DEF Evicted
        <4> HIDE DEF d
        <4>2. cache' \in Seq(Entries) /\ Distinct(cache')
          BY <3>1, EvictedKeeps
        <4>3. Cardinality(Cached') = MaxSize
          BY <4>1, <4>2, KeysCounted DEF Cached
        <4>4. cache[i].key # k
          <5>1. cache'[MaxSize].key = k
            BY <3>1, <4>1, SizeAssumption DEF d
          <5>2. MaxSize \in DOMAIN cache'
            BY <4>1, SizeAssumption
          <5>3. QED
            BY <5>1, <5>2 DEF Cached
        <4>5. PICK m \in DOMAIN a : a[m] = cache[i]
          BY <3>1, <4>4
        <4>6. m \in Nat /\ m <= d
          <5>1. m \in 1..Len(a) /\ Len(a) = d + MaxSize
            BY <3>1, <4>1, SizeAssumption DEF d
          <5>2. ASSUME m > d PROVE FALSE
            <6>1. m - d \in 1..MaxSize /\ (m - d) + d = m
              BY <4>1, <5>1, <5>2, SizeAssumption
            <6>2. cache'[m - d] = cache[i] /\ m - d \in DOMAIN cache'
              BY <4>1, <4>5, <6>1
            <6>3. QED
              BY <6>2 DEF Cached
          <5>3. QED
            BY <4>1, <5>1, <5>2
        <4>7. ASSUME NEW key \in Cached' PROVE <<cache[i].key, key>> \in used'
          <5>1. PICK j \in 1..MaxSize : cache'[j].key = key
            BY <4>1 DEF Cached
          <5>2. m < j + d
            BY <4>1, <4>6, SizeAssumption
          <5>3. <<a[m].key, a[j + d].key>> \in used'
            BY <3>1, <4>1, <5>2 DEF Ordered
          <5>4. QED
            BY <4>1, <4>5, <5>1, <5>3
        <4>8. QED
          BY <4>3, <4>7
      <3>3. CASE ~ (Len(a) > MaxSize)
        <4>1. cache' = a
          BY <3>1, <3>3 DEF Evicted
        <4>2. Len(a) \in DOMAIN a
          BY <3>1
        <4>3. \E m \in DOMAIN cache' : cache'[m].key = cache[i].key
          BY <3>1, <4>1, <4>2
        <4>4. QED
          BY <4>3 DEF Cached
      <3>4. QED
        BY <3>2, <3>3
    <2>4. CASE UNCHANGED cache
      BY <2>4 DEF Cached
    <2>5. QED
      BY <1>1, <2>1, <2>2, <2>3, <2>4 DEF Next, LoadEnds, Join, JoinFinished, Start,
         LoadError, Callback, Cancel, Tick, vars
  <1>2. QED
    BY <1>1, Invariance, UseInvariance, PTL DEF Spec, LeastRecentlyUsed
-----------------------------------------------------------------------------
\* Who waits, waits for a task whose callback, which wakes it, is still to run.
Awaited == \A c \in Callers : waits[c] # NoTask => task[waits[c]] # Over

\* No caller of cached_check waits for a task that is over, though the task that
\* PENDING named when it came may have finished: what an answer still takes are
\* the end of that task, which every request's timeout brings, and its callback.
THEOREM NobodyForgotten == Spec => []Awaited
  <1>1. Init => Awaited
    BY DEF Init, Awaited
  <1>2. ASSUME IInv, Awaited, [Next]_vars PROVE Awaited'
    <2>t. TypeOK /\ TypeOK'
      BY <1>2, StepInv DEF IInv
    <2>n. NoTask \notin Tasks /\ NoKey \notin Keys
      BY NameAssumption
    <2>1. ASSUME NEW c \in Callers, NEW k \in Keys,
                 Hit(c, k) \/ Join(c, k) \/ JoinFinished(c, k)
          PROVE  Awaited'
      <3>1. task' = task /\ (waits' = waits \/ waits' = [waits EXCEPT ![c] = pending[k]])
        BY <2>1 DEF Hit, Join, JoinFinished
      <3>2. pending[k] # NoTask => task[pending[k]] # Over
        BY <1>2 DEF IInv, TaskInv
      <3>3. QED
        BY <1>2, <2>t, <3>1, <3>2 DEF Awaited, TypeOK
    <2>2. ASSUME NEW c \in Callers, NEW k \in Keys, Start(c, k) PROVE Awaited'
      <3>1. PICK t \in Tasks : /\ task' = [task EXCEPT ![t] = [key |-> k, state |-> "running"]]
                               /\ waits' = [waits EXCEPT ![c] = t]
        BY <2>2 DEF Start
      <3>2. [key |-> k, state |-> "running"] # Over
        BY DEF Over
      <3>3. QED
        BY <1>2, <2>t, <3>1, <3>2 DEF Awaited, TypeOK
    <2>3. ASSUME NEW t \in Tasks, LoadOk(t) \/ LoadError(t) PROVE Awaited'
      <3>1. PICK s \in {"ok", "error"} : task' = [task EXCEPT ![t].state = s] /\ waits' = waits
        BY <2>3 DEF LoadOk, LoadError
      <3>2. task'[t].state # "over"
        BY <2>t, <3>1 DEF TypeOK
      <3>3. QED
        BY <1>2, <2>t, <3>1, <3>2 DEF Awaited, TypeOK, Over
    <2>4. ASSUME NEW t \in Tasks, Callback(t) PROVE Awaited'
      <3>1. /\ task' = [task EXCEPT ![t] = Over]
            /\ waits' = [c \in Callers |-> IF waits[c] = t THEN NoTask ELSE waits[c]]
        BY <2>4 DEF Callback
      <3>2. QED
        BY <1>2, <2>t, <2>n, <3>1 DEF Awaited, TypeOK
    <2>5. ASSUME NEW c \in Callers, Cancel(c) PROVE Awaited'
      BY <1>2, <2>5, <2>t DEF Cancel, Awaited, TypeOK
    <2>6. CASE Tick \/ UNCHANGED vars
      BY <1>2, <2>6 DEF Tick, vars, Awaited
    <2>7. QED
      BY <1>2, <2>1, <2>2, <2>3, <2>4, <2>5, <2>6 DEF Next, LoadEnds
  <1>3. QED
    BY <1>1, <1>2, Invariance, PTL DEF Spec
=============================================================================
