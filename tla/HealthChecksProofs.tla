------------------------- MODULE HealthChecksProofs -------------------------
(***************************************************************************)
(* The safety of the health checks' caches and of the list they read, for  *)
(* any hosts, names, times to live, limits and number of checks; and that  *)
(* of the check of a Telegram proxy, a task of its own that shares no      *)
(* state with the others, for any centres, transports and answers.         *)
(***************************************************************************)
EXTENDS HealthChecks, TelegramProbe, SequenceTheorems, TLAPS

HealthEntries == [host : Hosts, asked : Times, at : Times]
DnsEntries == [name : Names, asked : Times, until : Nat]
HealthJobs == [what : {"health"}, host : Hosts, asked : Times]
DnsJobs == [what : {"dns"}, name : Names, asked : Times]

\* TypeOK without the files, and with names for its sets.
CacheTypes ==
    /\ now \in Times
    /\ health \subseteq HealthEntries
    /\ dns \in Seq(DnsEntries)
    /\ job \in [Checks -> {Idle} \cup HealthJobs \cup DnsJobs]

\* A check under way began no longer ago than it may last.  Nothing else ties
\* the time a result is stored to the time it was asked for.
JobInv == \A c \in Checks : job[c] # Idle => /\ job[c].asked <= now
                                             /\ now <= job[c].asked + CheckTime

\* So what a check leaves behind lives from its end, and its end is near.
StampInv ==
    /\ \A e \in health : e.at <= e.asked + CheckTime
    /\ \A e \in ToSet(dns) : e.until <= e.asked + CheckTime + DnsTTL

Distinct(s) == \A i, j \in DOMAIN s : s[i].name = s[j].name => i = j

IInv == CacheTypes /\ JobInv /\ StampInv /\ DnsCacheSound
-----------------------------------------------------------------------------
(***************************************************************************)
(* The operations of the ordered dictionary.                               *)
(***************************************************************************)
LEMMA RemoveAtFacts ==
  ASSUME NEW S, NEW s \in Seq(S), NEW i \in DOMAIN s
  PROVE  /\ RemoveAt(s, i) \in Seq(S)
         /\ Len(RemoveAt(s, i)) = Len(s) - 1
         /\ \A j \in 1 .. Len(s) - 1 :
               RemoveAt(s, i)[j] = IF j < i THEN s[j] ELSE s[j + 1]
  <1> DEFINE a == SubSeq(s, 1, i - 1)
             b == SubSeq(s, i + 1, Len(s))
  <1>1. /\ a \in Seq(S) /\ Len(a) = i - 1
        /\ \A j \in 1 .. i - 1 : a[j] = s[j]
    OBVIOUS
  <1>2. /\ b \in Seq(S) /\ Len(b) = Len(s) - i
        /\ \A j \in 1 .. Len(s) - i : b[j] = s[j + i]
    OBVIOUS
  <1>3. RemoveAt(s, i) = a \o b
    BY DEF RemoveAt
  <1>4. i \in 1 .. Len(s) /\ Len(s) \in Nat
    OBVIOUS
  <1> HIDE DEF a, b
  <1>5. /\ a \o b \in Seq(S) /\ Len(a \o b) = Len(a) + Len(b)
        /\ \A j \in 1 .. Len(a) + Len(b) :
              (a \o b)[j] = IF j <= Len(a) THEN a[j] ELSE b[j - Len(a)]
    BY <1>1, <1>2, ConcatProperties
  <1>6. Len(a) + Len(b) = Len(s) - 1
    BY <1>1, <1>2, <1>4
  <1>7. ASSUME NEW j \in 1 .. Len(s) - 1
        PROVE  (a \o b)[j] = IF j < i THEN s[j] ELSE s[j + 1]
    <2>1. CASE j < i
      <3>1. j \in 1 .. i - 1 /\ j <= Len(a) /\ j \in 1 .. Len(a) + Len(b)
        BY <1>1, <1>4, <1>6, <2>1
      <3>2. (a \o b)[j] = a[j]
        BY <1>5, <3>1
      <3>3. QED
        BY <1>1, <2>1, <3>1, <3>2
    <2>2. CASE ~ (j < i)
      <3>1. /\ j - Len(a) \in 1 .. Len(s) - i /\ j - Len(a) + i = j + 1
            /\ ~ (j <= Len(a)) /\ j \in 1 .. Len(a) + Len(b)
        BY <1>1, <1>4, <1>6, <2>2
      <3>2. (a \o b)[j] = b[j - Len(a)]
        BY <1>5, <3>1
      <3>3. b[j - Len(a)] = s[j + 1]
        BY <1>2, <3>1
      <3>4. QED
        BY <2>2, <3>2, <3>3
    <2>3. QED
      BY <2>1, <2>2
  <1>8. QED
    BY <1>3, <1>5, <1>6, <1>7

\* pop takes the entry of the name and nothing else.
LEMMA WithoutFacts ==
  ASSUME dns \in Seq(DnsEntries), Distinct(dns), NEW name
  PROVE  /\ Without(name) \in Seq(DnsEntries) /\ Distinct(Without(name))
         /\ Len(Without(name)) <= Len(dns)
         /\ Entries(name) # {} => Len(Without(name)) = Len(dns) - 1
         /\ ToSet(Without(name)) = {e \in ToSet(dns) : e.name # name}
  <1>1. CASE \E i \in DOMAIN dns : dns[i].name = name
    <2> DEFINE n == CHOOSE i \in DOMAIN dns : dns[i].name = name
               w == RemoveAt(dns, n)
               at(j) == IF j < n THEN j ELSE j + 1
               to(i) == IF i < n THEN i ELSE i - 1
    <2>1. n \in DOMAIN dns /\ dns[n].name = name
      BY <1>1
    <2>2. Without(name) = w
      BY <1>1 DEF Without
    <2> HIDE DEF n
    <2>3. /\ w \in Seq(DnsEntries) /\ Len(w) = Len(dns) - 1
          /\ \A j \in 1 .. Len(dns) - 1 : w[j] = IF j < n THEN dns[j] ELSE dns[j + 1]
      BY <2>1, RemoveAtFacts
    <2>4. n \in 1 .. Len(dns) /\ Len(dns) \in Nat /\ DOMAIN dns = 1 .. Len(dns)
      BY <2>1
    <2> HIDE DEF w
    <2>5. DOMAIN w = 1 .. Len(dns) - 1
      BY <2>3, <2>4
    <2>6. \A j \in DOMAIN w : at(j) \in DOMAIN dns /\ at(j) # n /\ w[j] = dns[at(j)]
      BY <2>3, <2>4, <2>5
    <2>7. \A j, m \in DOMAIN w : at(j) = at(m) => j = m
      BY <2>4, <2>5
    <2>8. \A i \in DOMAIN dns : i # n => to(i) \in DOMAIN w /\ at(to(i)) = i
      BY <2>4, <2>5
    <2> HIDE DEF at, to
    <2>9. Distinct(w)
      BY <2>6, <2>7 DEF Distinct
    <2>10. ToSet(w) = {e \in ToSet(dns) : e.name # name}
      <3>1. ASSUME NEW j \in DOMAIN w
            PROVE  w[j] \in ToSet(dns) /\ w[j].name # name
        BY <2>1, <2>6 DEF ToSet, Distinct
      <3>2. ASSUME NEW i \in DOMAIN dns, dns[i].name # name
            PROVE  \E j \in DOMAIN w : w[j] = dns[i]
        BY <2>1, <2>6, <2>8, <3>2
      <3>3. QED
        BY <3>1, <3>2 DEF ToSet
    <2>11. QED
      BY <2>2, <2>3, <2>4, <2>9, <2>10
  <1>2. CASE ~ \E i \in DOMAIN dns : dns[i].name = name
    BY <1>2 DEF Without, Entries, ToSet
  <1>3. QED
    BY <1>1, <1>2

LEMMA AppendFacts ==
  ASSUME NEW s \in Seq(DnsEntries), Distinct(s), NEW e \in DnsEntries,
         \A f \in ToSet(s) : f.name # e.name
  PROVE  /\ Append(s, e) \in Seq(DnsEntries) /\ Distinct(Append(s, e))
         /\ Len(Append(s, e)) = Len(s) + 1
         /\ ToSet(Append(s, e)) = ToSet(s) \cup {e}
  <1> DEFINE a == Append(s, e)
  <1>1. /\ a \in Seq(DnsEntries) /\ Len(a) = Len(s) + 1 /\ Len(s) \in Nat
        /\ DOMAIN s = 1 .. Len(s) /\ DOMAIN a = 1 .. Len(s) + 1
        /\ a[Len(s) + 1] = e /\ \A j \in DOMAIN s : a[j] = s[j]
    OBVIOUS
  <1> HIDE DEF a
  <1>2. \A j \in DOMAIN a : j \in DOMAIN s \/ j = Len(s) + 1
    BY <1>1
  <1>3. DOMAIN s \subseteq DOMAIN a /\ Len(s) + 1 \in DOMAIN a
    BY <1>1
  <1>4. ToSet(a) = ToSet(s) \cup {e}
    BY <1>1, <1>2, <1>3 DEF ToSet
  <1>5. \A j \in DOMAIN s : s[j].name # e.name
    BY DEF ToSet
  <1>6. Distinct(a)
    BY <1>1, <1>2, <1>5 DEF Distinct
  <1>7. QED
    BY <1>1, <1>4, <1>6 DEF a

LEMMA KeptFacts ==
  ASSUME NEW s \in Seq(DnsEntries), Distinct(s)
  PROVE  /\ Kept(s) \in Seq(DnsEntries) /\ Distinct(Kept(s))
         /\ Len(Kept(s)) <= DnsMax
         /\ ToSet(Kept(s)) \subseteq ToSet(s)
         /\ Kept(s) = s \/ Len(Kept(s)) = DnsMax
  <1>1. DnsMax \in Nat \ {0}
    BY HealthAssumption
  <1>2. CASE Len(s) > DnsMax
    <2> DEFINE d == Len(s) - DnsMax
    <2>1. Kept(s) = SubSeq(s, d + 1, Len(s))
      BY <1>2 DEF Kept
    <2>2. /\ d \in Nat /\ Len(Kept(s)) = DnsMax /\ Kept(s) \in Seq(DnsEntries)
          /\ \A j \in DOMAIN Kept(s) : j + d \in DOMAIN s /\ Kept(s)[j] = s[j + d]
      <3>1. /\ d \in Nat /\ d + 1 \in Int /\ Len(s) \in Int
            /\ d + 1 <= Len(s) /\ Len(s) - (d + 1) + 1 = DnsMax
            /\ DOMAIN s = 1 .. Len(s)
            /\ \A j \in d + 1 .. Len(s) : s[j] \in DnsEntries
        BY <1>1, <1>2
      <3>2. \A j \in 1 .. DnsMax : d + 1 + j - 1 = j + d /\ j + d \in DOMAIN s
        BY <1>1, <1>2, <3>1
      <3> HIDE DEF d
      <3>3. /\ Kept(s) \in Seq(DnsEntries)
            /\ Len(Kept(s)) = DnsMax
            /\ \A j \in 1 .. DnsMax : Kept(s)[j] = s[d + 1 + j - 1]
        BY <2>1, <3>1, SubSeqProperties
      <3>4. DOMAIN Kept(s) = 1 .. DnsMax
        BY <3>3
      <3>5. QED
        BY <3>1, <3>2, <3>3, <3>4
    <2> HIDE DEF d
    <2>3. Distinct(Kept(s))
      BY <2>2 DEF Distinct
    <2>4. ToSet(Kept(s)) \subseteq ToSet(s)
      BY <2>2 DEF ToSet
    <2>5. QED
      BY <1>1, <2>2, <2>3, <2>4
  <1>3. CASE ~ (Len(s) > DnsMax)
    BY <1>1, <1>3 DEF Kept
  <1>4. QED
    BY <1>2, <1>3
-----------------------------------------------------------------------------
LEMMA DnsTypes ==
  ASSUME IInv
  PROVE  /\ dns \in Seq(DnsEntries) /\ Distinct(dns) /\ Len(dns) \in Nat
         /\ Len(dns) <= DnsMax /\ DnsMax \in Nat
         /\ ToSet(dns) \subseteq DnsEntries
  BY HealthAssumption DEF IInv, CacheTypes, DnsCacheSound, Distinct, ToSet

\* A check that is over makes its caller idle; the others go on.
LEMMA JobEnds ==
  ASSUME IInv, NEW c \in Checks, job' = [job EXCEPT ![c] = Idle], now' = now
  PROVE  /\ JobInv'
         /\ job' \in [Checks -> {Idle} \cup HealthJobs \cup DnsJobs]
  BY DEF IInv, CacheTypes, JobInv

LEMMA JobBegins ==
  ASSUME IInv, NEW c \in Checks, NEW j \in HealthJobs \cup DnsJobs, j.asked = now,
         job' = [job EXCEPT ![c] = j], now' = now
  PROVE  /\ JobInv'
         /\ job' \in [Checks -> {Idle} \cup HealthJobs \cup DnsJobs]
  <1>1. job' \in [Checks -> {Idle} \cup HealthJobs \cup DnsJobs]
    BY DEF IInv, CacheTypes
  <1>2. ASSUME NEW i \in Checks, job'[i] # Idle
        PROVE  job'[i].asked <= now /\ now <= job'[i].asked + CheckTime
    <2>1. now \in Nat /\ CheckTime \in Nat
      BY HealthAssumption DEF IInv, CacheTypes, Times
    <2>2. CASE i = c
      BY <2>1, <2>2 DEF IInv, CacheTypes
    <2>3. CASE i # c
      BY <1>2, <2>3 DEF IInv, CacheTypes, JobInv
    <2>4. QED
      BY <2>2, <2>3
  <1>3. QED
    BY <1>1, <1>2 DEF JobInv

\* What a step leaves in the DNS cache when it takes entries away and adds none,
\* or adds what a lookup found.
LEMMA DnsShrinks ==
  ASSUME IInv, now' = now, health' \subseteq health,
         dns' \in Seq(DnsEntries), Distinct(dns'), Len(dns') <= DnsMax,
         ToSet(dns') \subseteq ToSet(dns)
  PROVE  /\ StampInv' /\ DnsCacheSound'
         /\ now' \in Times /\ health' \subseteq HealthEntries
  BY DEF IInv, CacheTypes, StampInv, DnsCacheSound, Distinct

LEMMA FoundFacts ==
  ASSUME IInv, NEW c \in Checks, job[c].what = "dns"
  PROVE  /\ Found(c) \in Seq(DnsEntries) /\ Distinct(Found(c))
         /\ \A e \in ToSet(Found(c)) : e.until <= e.asked + CheckTime + DnsTTL
         /\ \A e \in ToSet(dns) : \E f \in ToSet(Found(c)) : f.name = e.name
  <1> DEFINE entry == [name |-> job[c].name, asked |-> job[c].asked, until |-> now + DnsTTL]
             w == Without(job[c].name)
  <1>1. job[c] \in DnsJobs /\ job[c] # Idle
    <2>1. job[c] \in {Idle} \cup HealthJobs \cup DnsJobs
      BY DEF IInv, CacheTypes
    <2>2. job[c] # Idle
      BY DEF Idle
    <2>3. job[c] \notin HealthJobs
      BY DEF HealthJobs
    <2>4. QED
      BY <2>1, <2>2, <2>3
  <1>2. now \in Nat /\ DnsTTL \in Nat /\ CheckTime \in Nat
    BY HealthAssumption DEF IInv, CacheTypes, Times
  <1>3. job[c].name \in Names /\ job[c].asked \in Times /\ job[c].asked \in Nat
    BY <1>1 DEF DnsJobs, Times
  <1>4. entry \in DnsEntries
    BY <1>2, <1>3 DEF DnsEntries
  <1>5. /\ w \in Seq(DnsEntries) /\ Distinct(w)
        /\ ToSet(w) = {e \in ToSet(dns) : e.name # job[c].name}
    BY DnsTypes, WithoutFacts
  <1>6. entry.until <= entry.asked + CheckTime + DnsTTL /\ entry.name = job[c].name
    <2>1. now <= job[c].asked + CheckTime
      BY <1>1 DEF IInv, JobInv
    <2>2. QED
      BY <1>2, <1>3, <2>1
  <1>7. Found(c) = Append(w, entry)
    BY DEF Found
  <1> HIDE DEF w, entry
  <1>8. /\ Append(w, entry) \in Seq(DnsEntries) /\ Distinct(Append(w, entry))
        /\ ToSet(Append(w, entry)) = ToSet(w) \cup {entry}
    BY <1>4, <1>5, <1>6, AppendFacts
  <1>9. QED
    BY <1>5, <1>6, <1>7, <1>8 DEF IInv, StampInv

\* A hit moves its entry to the end.
LEMMA HitFacts ==
  ASSUME IInv, NEW name \in Names, DnsHit(name)
  PROVE  /\ dns' \in Seq(DnsEntries) /\ Distinct(dns') /\ Len(dns') <= DnsMax
         /\ ToSet(dns') = ToSet(dns)
  <1>1. PICK e \in Entries(name) : dns' = Append(Without(name), e)
    BY DEF DnsHit
  <1> DEFINE w == Without(name)
  <1>2. e \in ToSet(dns) /\ e \in DnsEntries /\ e.name = name
    BY DnsTypes DEF Entries
  <1>3. /\ w \in Seq(DnsEntries) /\ Distinct(w) /\ Len(w) = Len(dns) - 1
        /\ ToSet(w) = {f \in ToSet(dns) : f.name # name}
    BY <1>1, DnsTypes, WithoutFacts
  <1> HIDE DEF w
  <1>4. /\ Append(w, e) \in Seq(DnsEntries) /\ Distinct(Append(w, e))
        /\ Len(Append(w, e)) = Len(w) + 1 /\ ToSet(Append(w, e)) = ToSet(w) \cup {e}
    BY <1>2, <1>3, AppendFacts
  <1>5. ASSUME NEW f \in ToSet(dns), f.name = name PROVE f = e
    BY <1>2, <1>5, DnsTypes DEF ToSet, Distinct
  <1>6. dns' = Append(w, e)
    BY <1>1 DEF w
  <1>7. QED
    BY <1>2, <1>3, <1>4, <1>5, <1>6, DnsTypes

LEMMA InitInv == Init => IInv
  <1> SUFFICES ASSUME Init PROVE IInv
    OBVIOUS
  <1>1. CacheTypes
    BY HealthAssumption DEF Init, CacheTypes, Times
  <1>2. JobInv
    BY DEF Init, JobInv
  <1>3. StampInv /\ DnsCacheSound
    BY HealthAssumption DEF Init, StampInv, DnsCacheSound, ToSet
  <1>4. QED
    BY <1>1, <1>2, <1>3 DEF IInv

LEMMA StepInv == IInv /\ [Next]_vars => IInv'
  <1> SUFFICES ASSUME IInv, [Next]_vars PROVE IInv'
    OBVIOUS
  <1>0. now \in Nat /\ now \in Times /\ {HealthTTL, DnsTTL, DnsMax, CheckTime} \subseteq Nat
    BY HealthAssumption DEF IInv, CacheTypes, Times
  <1>1. ASSUME NEW c \in Checks, NEW host \in Hosts, Check(c, host) PROVE IInv'
    <2> DEFINE j == [what |-> "health", host |-> host, asked |-> now]
    <2>1. j \in HealthJobs /\ j.asked = now /\ job' = [job EXCEPT ![c] = j] /\ now' = now
      BY <1>0, <1>1 DEF Check, HealthJobs
    <2> HIDE DEF j
    <2>2. JobInv' /\ job' \in [Checks -> {Idle} \cup HealthJobs \cup DnsJobs]
      BY <2>1, JobBegins
    <2>3. dns' = dns /\ health' \subseteq health
      BY <1>1 DEF Check
    <2>4. /\ StampInv' /\ DnsCacheSound'
          /\ now' \in Times /\ health' \subseteq HealthEntries /\ dns' \in Seq(DnsEntries)
      BY <2>1, <2>3, DnsShrinks, DnsTypes
    <2>5. QED
      BY <2>2, <2>4 DEF IInv, CacheTypes
  <1>2. ASSUME NEW c \in Checks, Store(c) PROVE IInv'
    <2> DEFINE entry == [host |-> job[c].host, asked |-> job[c].asked, at |-> now]
    <2>1. job[c] \in HealthJobs /\ job[c] # Idle
      <3>1. job[c] \in {Idle} \cup HealthJobs \cup DnsJobs
        BY DEF IInv, CacheTypes
      <3>2. job[c].what = "health"
        BY <1>2 DEF Store
      <3>3. job[c] # Idle /\ job[c] \notin DnsJobs
        BY <3>2 DEF Idle, DnsJobs
      <3>4. QED
        BY <3>1, <3>3
    <2>2. entry \in HealthEntries
      BY <1>0, <2>1 DEF HealthJobs, HealthEntries
    <2>3. entry.at <= entry.asked + CheckTime
      BY <2>1 DEF IInv, JobInv
    <2>4. /\ health' \subseteq health \cup {entry}
          /\ dns' = dns /\ now' = now /\ job' = [job EXCEPT ![c] = Idle]
      BY <1>2 DEF Store
    <2> HIDE DEF entry
    <2>5. JobInv' /\ job' \in [Checks -> {Idle} \cup HealthJobs \cup DnsJobs]
      BY <2>4, JobEnds
    <2>6. CacheTypes'
      BY <2>2, <2>4, <2>5 DEF IInv, CacheTypes
    <2>7. StampInv' /\ DnsCacheSound'
      BY <2>3, <2>4 DEF IInv, StampInv, DnsCacheSound
    <2>8. QED
      BY <2>5, <2>6, <2>7 DEF IInv
  <1>3. ASSUME NEW name \in Names, DnsHit(name) PROVE IInv'
    <2>1. now' = now /\ health' = health /\ job' = job
      BY <1>3 DEF DnsHit
    <2>2. /\ dns' \in Seq(DnsEntries) /\ Distinct(dns') /\ Len(dns') <= DnsMax
          /\ ToSet(dns') = ToSet(dns)
      BY <1>3, HitFacts
    <2>3. /\ StampInv' /\ DnsCacheSound'
          /\ now' \in Times /\ health' \subseteq HealthEntries
      BY <2>1, <2>2, DnsShrinks
    <2>4. QED
      BY <2>1, <2>2, <2>3 DEF IInv, CacheTypes, JobInv
  <1>4. ASSUME NEW c \in Checks, NEW name \in Names, DnsMiss(c, name) PROVE IInv'
    <2> DEFINE j == [what |-> "dns", name |-> name, asked |-> now]
    <2>1. j \in DnsJobs /\ j.asked = now /\ job' = [job EXCEPT ![c] = j] /\ now' = now
      BY <1>0, <1>4 DEF DnsMiss, DnsJobs
    <2> HIDE DEF j
    <2>2. JobInv' /\ job' \in [Checks -> {Idle} \cup HealthJobs \cup DnsJobs]
      BY <2>1, JobBegins
    <2>3. dns' = Without(name) /\ health' = health
      BY <1>4 DEF DnsMiss
    <2>4. /\ dns' \in Seq(DnsEntries) /\ Distinct(dns') /\ Len(dns') <= Len(dns)
          /\ ToSet(dns') \subseteq ToSet(dns)
      BY <2>3, DnsTypes, WithoutFacts
    <2>5. Len(dns') <= DnsMax
      <3>1. Len(dns') \in Nat
        BY <2>4
      <3>2. QED
        BY <2>4, <3>1, DnsTypes
    <2>6. /\ StampInv' /\ DnsCacheSound'
          /\ now' \in Times /\ health' \subseteq HealthEntries
      BY <2>1, <2>3, <2>4, <2>5, DnsShrinks
    <2>7. QED
      BY <2>2, <2>4, <2>6 DEF IInv, CacheTypes
  <1>5. ASSUME NEW c \in Checks, NEW a, NEW aaaa, Resolved(c, a, aaaa) PROVE IInv'
    <2>1. JobInv' /\ job' \in [Checks -> {Idle} \cup HealthJobs \cup DnsJobs]
      BY <1>5, JobEnds DEF Resolved
    <2>2. now' = now /\ health' = health
      BY <1>5 DEF Resolved
    <2>3. CASE dns' = Kept(Found(c))
      <3>1. job[c].what = "dns"
        BY <1>5 DEF Resolved
      <3>2. /\ Found(c) \in Seq(DnsEntries) /\ Distinct(Found(c))
            /\ \A e \in ToSet(Found(c)) : e.until <= e.asked + CheckTime + DnsTTL
        BY <3>1, FoundFacts
      <3>3. /\ dns' \in Seq(DnsEntries) /\ Distinct(dns') /\ Len(dns') <= DnsMax
            /\ ToSet(dns') \subseteq ToSet(Found(c))
        BY <2>3, <3>2, KeptFacts
      <3>4. StampInv' /\ DnsCacheSound'
        BY <2>2, <3>2, <3>3 DEF IInv, StampInv, DnsCacheSound, Distinct
      <3>5. QED
        BY <2>1, <2>2, <3>3, <3>4 DEF IInv, CacheTypes
    <2>4. CASE dns' = dns
      BY <2>1, <2>2, <2>4 DEF IInv, CacheTypes, StampInv, DnsCacheSound
    <2>5. QED
      BY <1>5, <2>3, <2>4 DEF Resolved
  <1>6. CASE Tick
    <2>1. now' = now + 1 /\ now < MaxTime /\ UNCHANGED <<health, dns, job>>
      BY <1>6 DEF Tick
    <2>2. now' \in Times
      BY <1>0, <2>1, HealthAssumption DEF Times
    <2>3. CacheTypes' /\ StampInv' /\ DnsCacheSound'
      BY <2>1, <2>2 DEF IInv, CacheTypes, StampInv, DnsCacheSound
    <2>4. ASSUME NEW c \in Checks, job[c] # Idle
          PROVE  job[c].asked <= now + 1 /\ now + 1 <= job[c].asked + CheckTime
      <3>1. now < job[c].asked + CheckTime
        BY <1>6, <2>4 DEF Tick
      <3>2. job[c].asked <= now
        BY <2>4 DEF IInv, JobInv
      <3>3. job[c].asked \in Nat
        BY <2>4 DEF IInv, CacheTypes, HealthJobs, DnsJobs, Times
      <3>4. QED
        BY <1>0, <3>1, <3>2, <3>3
    <2>5. JobInv'
      BY <2>1, <2>4 DEF JobInv
    <2>6. QED
      BY <2>3, <2>5 DEF IInv
  <1>7. CASE Restart
    <2>1. health' = {} /\ dns' = <<>> /\ job' = [c \in Checks |-> Idle] /\ now' = now
      BY <1>7 DEF Restart, Emptied
    <2>2. CacheTypes' /\ JobInv'
      BY <1>0, <2>1 DEF CacheTypes, JobInv
    <2>3. StampInv' /\ DnsCacheSound'
      BY <1>0, <2>1 DEF StampInv, DnsCacheSound, ToSet
    <2>4. QED
      BY <2>2, <2>3 DEF IInv
  <1>8. CASE Post \/ Saving \/ UNCHANGED vars
    <2>1. UNCHANGED <<now, health, dns, job>>
      BY <1>8 DEF Post, Saving, vars
    <2>2. QED
      BY <2>1 DEF IInv, CacheTypes, JobInv, StampInv, DnsCacheSound
  <1>9. QED
    BY <1>1, <1>2, <1>3, <1>4, <1>5, <1>6, <1>7, <1>8 DEF Next

LEMMA Invariance == Spec => []IInv
  BY InitInv, StepInv, PTL DEF Spec

\* get_cached_health_result and the DNS cache answer with nothing that was asked
\* longer ago than a result lives and a check lasts, whatever overlaps: what is
\* stored late lives from then, but a check cannot last long.
THEOREM AnswersAreRecent == Spec => []AnswersRecent
  <1> SUFFICES ASSUME IInv PROVE AnswersRecent
    BY Invariance, PTL
  <1>1. {HealthTTL, DnsTTL, CheckTime} \subseteq Nat /\ now \in Nat
    BY HealthAssumption DEF IInv, CacheTypes, Times
  <1>2. ASSUME NEW e \in health, Fresh(e) PROVE now < e.asked + HealthTTL + CheckTime
    <2>1. e.at \in Nat /\ e.asked \in Nat
      BY DEF IInv, CacheTypes, HealthEntries, Times
    <2>2. e.at <= e.asked + CheckTime /\ now - e.at < HealthTTL
      BY <1>2 DEF IInv, StampInv, Fresh
    <2>3. QED
      BY <1>1, <2>1, <2>2
  <1>3. ASSUME NEW e \in ToSet(dns), now < e.until PROVE now < e.asked + DnsTTL + CheckTime
    <2>1. e.until \in Nat /\ e.asked \in Nat
      BY DnsTypes DEF DnsEntries, Times
    <2>2. e.until <= e.asked + CheckTime + DnsTTL
      BY DEF IInv, StampInv
    <2>3. QED
      BY <1>1, <1>3, <2>1, <2>2
  <1>4. QED
    BY <1>2, <1>3 DEF AnswersRecent

\* resolve_host_with_dns keeps one entry per name and resolver, and no more of
\* them than the limit, though lookups overlap.
THEOREM DnsCacheCorrect == Spec => []DnsCacheSound
  <1>1. IInv => DnsCacheSound
    BY DEF IInv
  <1>2. QED
    BY <1>1, Invariance, PTL

\* What one lookup found is not taken away by another that fails: only a full
\* cache, its time or a restart ends it.
THEOREM AddressesAreKept == Spec => AddressesStay
  <1> DEFINE Stays(e) == now < e.until => \/ \E f \in ToSet(dns') : f.name = e.name
                                          \/ Len(dns') = DnsMax
                                          \/ Emptied
  <1>1. ASSUME IInv, [Next]_vars PROVE \A e \in ToSet(dns) : Stays(e)
    <2> SUFFICES ASSUME NEW e \in ToSet(dns), now < e.until
                 PROVE  \/ \E f \in ToSet(dns') : f.name = e.name
                        \/ Len(dns') = DnsMax
                        \/ Emptied
      OBVIOUS
    <2>1. ASSUME NEW name \in Names, DnsHit(name) PROVE e \in ToSet(dns')
      BY <1>1, <2>1, HitFacts
    <2>2. ASSUME NEW c \in Checks, NEW name \in Names, DnsMiss(c, name)
          PROVE  e \in ToSet(dns')
      <3>1. e.name # name
        <4>1. ~ (now >= e.until)
          BY <1>1, DnsTypes DEF IInv, CacheTypes, DnsEntries, Times
        <4>2. QED
          BY <2>2, <4>1 DEF DnsMiss, Entries
      <3>2. QED
        BY <1>1, <2>2, <3>1, DnsTypes, WithoutFacts DEF DnsMiss
    <2>3. ASSUME NEW c \in Checks, NEW a, NEW aaaa, Resolved(c, a, aaaa)
          PROVE  Len(dns') = DnsMax \/ \E f \in ToSet(dns') : f.name = e.name
      <3>1. CASE dns' = dns
        BY <3>1
      <3>2. CASE dns' = Kept(Found(c))
        <4>1. job[c].what = "dns"
          BY <2>3 DEF Resolved
        <4>2. /\ Found(c) \in Seq(DnsEntries) /\ Distinct(Found(c))
              /\ \E f \in ToSet(Found(c)) : f.name = e.name
          BY <1>1, <4>1, FoundFacts
        <4>3. dns' = Found(c) \/ Len(dns') = DnsMax
          BY <3>2, <4>2, KeptFacts
        <4>4. QED
          BY <4>2, <4>3
      <3>3. QED
        BY <2>3, <3>1, <3>2 DEF Resolved
    <2>4. CASE Restart
      BY <2>4 DEF Restart
    <2>5. ASSUME UNCHANGED dns PROVE e \in ToSet(dns')
      BY <2>5
    <2>6. QED
      BY <1>1, <2>1, <2>2, <2>3, <2>4, <2>5 DEF Next, Check, Store, Tick, Post, Saving, vars
  <1>2. QED
    BY <1>1, Invariance, PTL DEF Spec, AddressesStay
-----------------------------------------------------------------------------
(***************************************************************************)
(* The administrator's files.                                              *)
(***************************************************************************)
\* Every step leaves the files alone or is one of the save's.
LEMMA FilesStep ==
  ASSUME [Next]_vars
  PROVE  \/ UNCHANGED files
         \/ \E m \in Messages, list \in List!Lists \cup {Unreadable} : List!Post(m, list)
         \/ List!MessageWritten \/ List!ListWritten \/ List!CutShort
  <1>1. CASE Post \/ Saving \/ Restart
    BY <1>1 DEF Post, Saving, Restart, files
  <1>2. CASE \/ \E c \in Checks :
                   \/ \E host \in Hosts : Check(c, host)
                   \/ Store(c)
                   \/ \E name \in Names : DnsMiss(c, name)
                   \/ \E a, aaaa \in {"addresses", "none", "error"} : Resolved(c, a, aaaa)
             \/ \E name \in Names : DnsHit(name)
             \/ Tick \/ UNCHANGED vars
    BY <1>2 DEF Check, Store, DnsMiss, Resolved, DnsHit, Tick, vars
  <1>3. QED
    BY <1>1, <1>2 DEF Next

\* How far a save has come: the list still is that of the last accepted form
\* until it is its turn, and the message is whole by then.
SaveInv ==
    /\ saving # Nothing /\ saving.file = "list" => message = saving.form[1]
    /\ saving = Nothing \/ saving.file = "message" =>
          /\ cut # "list" => proxies = accepted[2]
          /\ proxies = Unreadable => cut = "list"
    /\ saving = Nothing /\ cut = "none" => message = accepted[1]

LEMMA FilesInvariance == Spec => [](List!TypeOK /\ SaveInv)
  <1> DEFINE FilesInv == List!TypeOK /\ SaveInv
             Running == [form : List!Forms, file : {"message", "list"}]
  <1> USE ListAssumption DEF List!TypeOK, SaveInv, List!Forms
  <1>1. Init => FilesInv
    <2>1. {} \in List!Lists
      BY DEF List!Lists
    <2>2. SUFFICES ASSUME Init PROVE FilesInv
      OBVIOUS
    <2>3. /\ message \in Messages /\ proxies = {} /\ saving = Nothing
          /\ accepted = <<message, proxies>> /\ cut = "none"
      BY <2>2 DEF Init, List!Init
    <2>4. accepted[1] = message /\ accepted[2] = proxies /\ accepted \in List!Forms
      BY <2>1, <2>3
    <2>5. List!TypeOK
      BY <2>1, <2>3, <2>4
    <2>6. SaveInv
      BY <2>1, <2>3, <2>4
    <2>7. QED
      BY <2>5, <2>6
  <1>2. ASSUME FilesInv, [Next]_vars PROVE FilesInv'
    <2>0. saving # Nothing => saving \in Running
      BY <1>2
    <2>1. CASE UNCHANGED files
      BY <1>2, <2>1 DEF files
    <2>2. ASSUME NEW m \in Messages, NEW list \in List!Lists \cup {Unreadable},
                 List!Post(m, list)
          PROVE  FilesInv'
      <3>1. /\ saving = Nothing /\ list \in List!Lists
            /\ saving' = [form |-> <<m, list>>, file |-> "message"]
            /\ message' = Torn /\ UNCHANGED <<proxies, accepted, cut>>
        BY <2>2 DEF List!Post
      <3>2. saving' \in Running /\ saving'.file = "message"
        BY <3>1
      <3>3. QED
        BY <1>2, <3>1, <3>2
    <2>3. CASE List!MessageWritten
      <3>1. /\ saving \in Running /\ message' = saving.form[1] /\ proxies' = {}
            /\ saving' = [saving EXCEPT !.file = "list"] /\ UNCHANGED <<accepted, cut>>
        BY <2>0, <2>3 DEF List!MessageWritten
      <3>2. /\ saving' \in Running /\ saving'.file = "list"
            /\ saving'.form = saving.form /\ saving.form[1] \in Messages
        BY <3>1
      <3>3. {} \in List!Lists
        BY DEF List!Lists
      <3>4. QED
        BY <1>2, <3>1, <3>2, <3>3
    <2>4. CASE List!ListWritten
      <3>1. /\ saving \in Running /\ message = saving.form[1]
            /\ proxies' = saving.form[2] /\ saving' = Nothing
            /\ accepted' = saving.form /\ cut' = "none" /\ message' = message
        BY <1>2, <2>0, <2>4 DEF List!ListWritten
      <3>2. saving.form \in List!Forms /\ saving.form[2] \in List!Lists
        BY <3>1
      <3>3. QED
        BY <1>2, <3>1, <3>2
    <2>5. CASE List!CutShort
      <3>1. saving \in Running /\ saving' = Nothing /\ accepted' = accepted
        BY <2>0, <2>5 DEF List!CutShort
      <3>2. saving.form[1] \in Messages /\ saving.form[2] \in List!Lists
        BY <3>1
      <3>3. CASE saving.file = "message"
        <4>1. /\ message' \in {message, saving.form[1]} /\ proxies' = proxies
              /\ cut' = IF cut = "list" THEN "list" ELSE "message"
          BY <2>5, <3>3 DEF List!CutShort
        <4>2. QED
          BY <1>2, <3>1, <3>2, <3>3, <4>1
      <3>4. CASE saving.file = "list"
        <4>1. /\ proxies' \in List!Shortened(saving.form[2])
              /\ message' = message /\ cut' = "list"
          BY <2>5, <3>4 DEF List!CutShort
        <4>2. proxies' \in List!Lists \cup {Unreadable}
          BY <3>2, <4>1 DEF List!Shortened, List!Lists
        <4>3. QED
          BY <1>2, <3>1, <4>1, <4>2
      <3>5. QED
        BY <3>1, <3>3, <3>4
    <2>6. QED
      BY <1>2, <2>1, <2>2, <2>3, <2>4, <2>5, FilesStep
  <1>3. QED
    BY <1>1, <1>2, PTL DEF Spec

\* AdminHandler.post: whatever saves raise in either write, and wherever the
\* process dies, the files hold the last accepted form unless a save was cut short
\* since, and the hosts checked are those of its list unless one was cut short in
\* the list; a refused form changes nothing.
THEOREM FilesAgree == Spec => []FilesAsAccepted
  <1>1. List!TypeOK /\ SaveInv => FilesAsAccepted
    <2> SUFFICES ASSUME List!TypeOK, SaveInv, saving = Nothing
                 PROVE  /\ cut = "none" => <<message, proxies>> = accepted
                        /\ cut # "list" =>
                              \A host \in Hosts : List!Listed(host) <=>
                                                  host \in Configured \cup accepted[2]
                        /\ proxies = Unreadable => cut = "list"
      BY DEF FilesAsAccepted, List!FilesAsAccepted
    <2>1. accepted \in Messages \X List!Lists
      BY DEF List!TypeOK, List!Forms
    <2>2. cut = "none" => <<message, proxies>> = accepted
      BY <2>1 DEF SaveInv
    <2>3. cut # "list" => proxies # Unreadable /\ proxies = accepted[2]
      BY DEF SaveInv
    <2>4. proxies = Unreadable => cut = "list"
      BY DEF SaveInv
    <2>5. QED
      BY <2>2, <2>3, <2>4 DEF List!Listed
  <1>2. QED
    BY <1>1, FilesInvariance, PTL

\* The types of the files, the caches and the checks under way: what is stored
\* carries instants of the clock, not the ends of lives.
THEOREM TypeCorrect == Spec => []TypeOK
  <1>1. IInv /\ List!TypeOK => TypeOK
    BY DEF IInv, CacheTypes, TypeOK, HealthEntries, DnsEntries, HealthJobs, DnsJobs
  <1>2. QED
    BY <1>1, Invariance, FilesInvariance, PTL
-----------------------------------------------------------------------------
(***************************************************************************)
(* The check of a Telegram proxy.                                          *)
(***************************************************************************)
\* Plain MTProxy has the most attempts.
LEMMA MostAttempts ==
  ASSUME kind \in Kinds
  PROVE  Attempts \in 1 .. Centres * Transports
  <1>1. Centres \in Nat \ {0} /\ Transports \in Nat \ {0}
    BY ProbeAssumption
  <1>2. Centres * Transports \in Nat /\ Centres <= Centres * Transports
    BY <1>1
  <1>3. QED
    BY <1>1, <1>2 DEF Attempts, Kinds

\* Until an attempt is left its own connection is not abandoned, nothing has been heard and no verdict given; what is
\* spoken after Telegram was reached is spoken to Telegram; and a verdict says
\* whether the request was answered.
ProbeTypes ==
    /\ kind \in Kinds /\ step \in Awaiting \cup {"idle", "closing"}
    /\ attempt \in Nat /\ attempt <= Attempts
    /\ stage \in Stages /\ socket \in {"none", "open", "closed", "abandoned"}
    /\ abandoned \in 0 .. attempt
    /\ read \in 0 .. Pieces + 3 /\ heard \in 0 .. attempt
    /\ result \in {"none", "ok", "failed", "cancelled"}
ProbeInv ==
    /\ ProbeTypes
    /\ ClosedUnlessConnecting
    /\ step \in Awaiting => attempt > 0 /\ heard = 0 /\ result = "none"
    /\ step = "exchange" => kind = "plain" \/ stage = "Telegram"
    /\ result = "ok" => /\ heard = attempt \/ (kind = "socks5" /\ heard > 0)
                        /\ kind = "plain" \/ stage = "Telegram"
    /\ heard = attempt /\ attempt > 0 => result = "ok"
    /\ step = "idle" /\ result = "failed" =>
          attempt = Attempts \/ (kind = "fake_tls" /\ stage # "Telegram")

LEMMA WantedFacts ==
  ASSUME kind \in Kinds
  PROVE  Wanted \in 0 .. Pieces + 3
  <1>1. Pieces \in Nat
    BY ProbeAssumption
  <1>2. CASE step = "handshake"
    BY <1>1, <1>2 DEF Wanted
  <1>3. CASE step = "exchange"
    BY <1>1, <1>3 DEF Wanted
  <1>4. CASE step # "handshake" /\ step # "exchange"
    BY <1>1, <1>4 DEF Wanted
  <1>5. QED
    BY <1>2, <1>3, <1>4

\* An attempt that begins has nothing behind it.
LEMMA AttemptKeeps ==
  ASSUME NEW n \in Nat \ {0}, Attempt(n),
         kind' \in Kinds, n <= Attempts', result' = "none",
         abandoned' \in 0 .. n - 1, kind' # "plain" => abandoned' = 0
  PROVE  ProbeInv'
  BY ProbeAssumption DEF ProbeInv, ProbeTypes, Attempt, Awaiting, Stages, ClosedUnlessConnecting

\* One that is left has its verdict.
LEMMA LeaveKeeps ==
  ASSUME ProbeInv, NEW verdict \in {"ok", "failed", "cancelled"}, Leave(verdict),
         step \in Awaiting, heard' \in 0 .. attempt,
         verdict = "ok" => step = "exchange",
         verdict = "ok" => /\ heard' = attempt \/ (kind = "socks5" /\ heard' > 0)
                           /\ kind = "plain" \/ stage = "Telegram",
         heard' = attempt /\ attempt > 0 => verdict = "ok"
  PROVE  ProbeInv'
  <1>1. Attempts' = Attempts
    BY DEF Leave, Attempts
  <1>2. QED
    <2>1. CASE socket = "open" /\ step = "connect"
      BY <1>1, <2>1 DEF ProbeInv, ProbeTypes, Leave, Awaiting, ClosedUnlessConnecting
    <2>2. CASE ~ (socket = "open" /\ step = "connect")
      <3>1. socket' \in {"none", "closed", "abandoned"} /\ abandoned' = abandoned
        BY <2>2 DEF ProbeInv, ProbeTypes, Leave
      <3>2. QED
        BY <1>1, <3>1 DEF ProbeInv, ProbeTypes, Leave, Awaiting, ClosedUnlessConnecting
    <2>3. QED
      BY <2>1, <2>2

LEMMA ProbeStep ==
  ASSUME ProbeInv, [ProbeNext]_probe
  PROVE  ProbeInv'
  <1>1. ASSUME kind' = kind PROVE Attempts' = Attempts
    BY <1>1 DEF Attempts
  <1>2. kind \in Kinds /\ attempt \in Nat
    BY DEF ProbeInv, ProbeTypes
  <1>3. CASE Begin
    <2>1. kind' \in Kinds /\ Attempt(1) /\ result' = "none" /\ abandoned' = 0
      BY <1>3 DEF Begin
    <2>2. Centres \in Nat \ {0} /\ Transports \in Nat \ {0}
      BY ProbeAssumption
    <2>3. Centres * Transports \in Nat /\ 1 <= Centres * Transports
      BY <2>2
    <2>4. 1 <= Attempts'
      BY <2>1, <2>2, <2>3 DEF Attempts, Kinds
    <2>5. QED
      BY <2>1, <2>4, AttemptKeeps
  <1>4. CASE Connected \/ Opened
    BY <1>1, <1>4 DEF Connected, Opened, ProbeInv, ProbeTypes, Awaiting, Stages,
                      ClosedUnlessConnecting
  <1>5. CASE ReadPiece
    <2>1. read' \in 0 .. Pieces + 3
      BY <1>2, <1>5, WantedFacts, ProbeAssumption DEF ReadPiece, ProbeInv, ProbeTypes
    <2>2. QED
      BY <1>1, <1>5, <2>1 DEF ReadPiece, ProbeInv, ProbeTypes, ClosedUnlessConnecting
  <1>6. CASE Handshaken
    <2>1. /\ step = "handshake" /\ step' = "exchange" /\ stage' = "Telegram" /\ read' = 0
          /\ UNCHANGED <<kind, attempt, socket, heard, result, abandoned>>
      BY <1>6 DEF Handshaken
    <2>2. 0 \in 0 .. Pieces + 3
      BY ProbeAssumption
    <2>3. attempt > 0 /\ heard = 0 /\ result = "none"
      BY <2>1 DEF ProbeInv, Awaiting
    <2>4. ProbeTypes'
      BY <1>1, <2>1, <2>2 DEF ProbeInv, ProbeTypes, Awaiting, Stages
    <2>5. ClosedUnlessConnecting'
      BY <2>1 DEF ProbeInv, ClosedUnlessConnecting, Awaiting
    <2>6. QED
      BY <1>2, <2>1, <2>3, <2>4, <2>5 DEF ProbeInv
  <1>7. CASE Answered
    <2>1. heard' \in 1 .. attempt /\ step = "exchange"
      BY <1>7 DEF Answered
    <2>2. PICK verdict \in {"ok", "failed"} :
             /\ Leave(verdict)
             /\ verdict = "ok" <=> (heard' = attempt \/ kind = "socks5")
      BY <1>7 DEF Answered
    <2>3. kind = "plain" \/ stage = "Telegram"
      BY <2>1 DEF ProbeInv
    <2>4. QED
      BY <1>2, <2>1, <2>2, <2>3, LeaveKeeps DEF Awaiting
  <1>8. CASE Fails \/ Cancel
    <2>1. PICK verdict \in {"failed", "cancelled"} : Leave(verdict)
      BY <1>8 DEF Fails, Cancel
    <2>2. heard' = 0 /\ attempt > 0 /\ step \in Awaiting
      BY <1>8 DEF Fails, Cancel, ProbeInv
    <2>3. QED
      BY <1>2, <2>1, <2>2, LeaveKeeps
  <1>9. CASE Closed
    <2>1. CASE Another
      <3>1. /\ Attempt(attempt + 1) /\ result' = "none" /\ kind' = kind
            /\ attempt < Attempts /\ abandoned' = abandoned
        BY <1>9, <2>1 DEF Closed, Another
      <3>2. Attempts \in Nat
        BY <1>2, MostAttempts
      <3>3. attempt + 1 \in Nat \ {0} /\ attempt + 1 <= Attempts'
        BY <1>1, <1>2, <3>1, <3>2
      <3>4. /\ abandoned' \in 0 .. (attempt + 1) - 1
            /\ kind' # "plain" => abandoned' = 0
        BY <1>2, <3>1 DEF ProbeInv, ProbeTypes, ClosedUnlessConnecting
      <3>5. QED
        BY <1>2, <3>1, <3>3, <3>4, AttemptKeeps
    <2>2. CASE ~ Another
      <3>1. /\ step = "closing" /\ step' = "idle"
            /\ UNCHANGED <<kind, attempt, stage, socket, read, heard, result, abandoned>>
        BY <1>9, <2>2 DEF Closed
      <3>2. Attempts \in Nat
        BY <1>2, MostAttempts
      <3>3. result = "failed" => attempt = Attempts
                                 \/ (kind = "fake_tls" /\ stage # "Telegram")
        BY <1>2, <2>2, <3>2 DEF Another, ProbeInv, ProbeTypes
      <3>4. QED
        BY <1>1, <3>1, <3>3 DEF ProbeInv, ProbeTypes, Awaiting, ClosedUnlessConnecting
    <2>3. QED
      BY <2>1, <2>2
  <1>10. CASE UNCHANGED probe
    BY <1>1, <1>10 DEF probe, ProbeInv, ProbeTypes, ClosedUnlessConnecting, Awaiting
  <1>11. QED
    BY <1>3, <1>4, <1>5, <1>6, <1>7, <1>8, <1>9, <1>10 DEF ProbeNext

LEMMA ProbeInvariance == ProbeSpec => []ProbeInv
  <1>1. ProbeInit => ProbeInv
    <2> SUFFICES ASSUME ProbeInit PROVE ProbeInv
      OBVIOUS
    <2>1. Attempts \in 1 .. Centres * Transports
      BY MostAttempts DEF ProbeInit
    <2>2. QED
      BY <2>1, ProbeAssumption DEF ProbeInit, ProbeInv, ProbeTypes, Awaiting, Stages,
                                   ClosedUnlessConnecting
  <1>2. ProbeInv /\ [ProbeNext]_probe => ProbeInv'
    BY ProbeStep
  <1>3. QED
    BY <1>1, <1>2, PTL DEF ProbeSpec

\* MTGConnection, the SOCKS5 exchange and Telethon close the connection of every
\* attempt, wherever it fails or is cancelled, but for those that Telethon's
\* connect() has opened and not returned.
THEOREM ProbeCloses == ProbeSpec => []ClosedUnlessConnecting
  <1>1. ProbeInv => ClosedUnlessConnecting
    BY DEF ProbeInv
  <1>2. QED
    BY <1>1, ProbeInvariance, PTL

\* The verdict on a proxy is right whatever it sends and wherever an attempt
\* fails: good if and only if the last attempt heard its own answer, bad only
\* after every attempt or one that did not get as far as Telegram.
THEOREM ProbeJudges == ProbeSpec => []VerdictJustified
  <1>1. ProbeInv => VerdictJustified
    BY DEF ProbeInv, VerdictJustified
  <1>2. QED
    BY <1>1, ProbeInvariance, PTL

\* No check makes more attempts than there are data centres and transports, or
\* reads more than the answer it awaits.
THEOREM ProbeTypeCorrect == ProbeSpec => []ProbeTypeOK
  <1>1. ASSUME ProbeInv PROVE ProbeTypeOK
    <2>1. Attempts \in 1 .. Centres * Transports
      BY <1>1, MostAttempts DEF ProbeInv, ProbeTypes
    <2>2. Centres * Transports \in Nat
      BY ProbeAssumption
    <2>3. attempt \in 0 .. Centres * Transports
      BY <1>1, <2>1, <2>2 DEF ProbeInv, ProbeTypes
    <2>4. QED
      BY <1>1, <2>3 DEF ProbeInv, ProbeTypes, ProbeTypeOK
  <1>2. QED
    BY <1>1, ProbeInvariance, PTL

\* How far an attempt has come.
Way == [connect |-> 1, handshake |-> 2, exchange |-> 3, closing |-> 4, idle |-> 5]

\* Nearer to the end of the check: in a later attempt, in a later step of this one,
\* with its connection, or with more of what the step awaits.  Each is bounded.
Nearer == /\ kind' = kind
          /\ \/ attempt < attempt' /\ attempt' <= Attempts
             \/ attempt' = attempt /\ Way[step] < Way[step']
             \/ attempt' = attempt /\ step' = step /\ socket = "none" /\ socket' # "none"
             \/ attempt' = attempt /\ step' = step /\ socket' = socket /\ read < read' /\ read' <= Wanted

\* No step of a check goes back or goes round, whatever the proxy sends: a check
\* that did not end would have to wait for ever, which its time limits exclude.
THEOREM ProbeAdvances == ProbeSpec => [][step # "idle" => Nearer]_probe
  <1>1. ASSUME ProbeInv, ProbeNext, step # "idle" PROVE Nearer
    <2>1. attempt \in Nat /\ read \in Nat /\ Wanted \in 0 .. Pieces + 3
      BY <1>1, WantedFacts, ProbeAssumption DEF ProbeInv, ProbeTypes
    <2>2. CASE Connected
      <3>1. /\ step = "connect" /\ step' \in {"handshake", "exchange"}
            /\ UNCHANGED <<kind, attempt>>
        BY <2>2 DEF Connected
      <3>2. QED
        BY <3>1 DEF Nearer, Way
    <2>3. CASE ReadPiece
      <3>1. /\ read' = read + 1 /\ read < Wanted /\ socket' = socket
            /\ kind' = kind /\ attempt' = attempt /\ step' = step
        BY <2>3 DEF ReadPiece
      <3>2. read < read' /\ read' <= Wanted
        BY <2>1, <3>1, ProbeAssumption
      <3>3. QED
        BY <3>1, <3>2 DEF Nearer
    <2>4. CASE Handshaken
      <3>1. step = "handshake" /\ step' = "exchange" /\ UNCHANGED <<kind, attempt>>
        BY <2>4 DEF Handshaken
      <3>2. QED
        BY <3>1 DEF Nearer, Way
    <2>5. CASE Answered \/ Fails \/ Cancel
      <3>1. step \in Awaiting /\ step' = "closing" /\ UNCHANGED <<kind, attempt>>
        BY <2>5 DEF Answered, Fails, Cancel, Leave, Awaiting
      <3>2. QED
        BY <3>1 DEF Nearer, Way, Awaiting
    <2>6. CASE Closed
      <3>1. kind' = kind /\ step = "closing"
        BY <2>6 DEF Closed
      <3>2. CASE Another /\ Attempt(attempt + 1)
        <4>1. attempt' = attempt + 1 /\ attempt < Attempts
          BY <3>2 DEF Another, Attempt
        <4>2. Attempts \in Nat
          <5>1. Attempts \in 1 .. Centres * Transports /\ Centres * Transports \in Nat
            BY <1>1, MostAttempts, ProbeAssumption DEF ProbeInv, ProbeTypes
          <5>2. QED
            BY <5>1
        <4>3. QED
          BY <2>1, <3>1, <4>1, <4>2 DEF Nearer
      <3>3. CASE step' = "idle" /\ attempt' = attempt
        BY <3>1, <3>3 DEF Nearer, Way
      <3>4. QED
        BY <2>6, <3>2, <3>3 DEF Closed
    <2>7. CASE Opened
      BY <2>7 DEF Opened, Nearer
    <2>8. QED
      BY <1>1, <2>2, <2>3, <2>4, <2>5, <2>6, <2>7 DEF ProbeNext, Begin
  <1>2. ProbeInv /\ [ProbeNext]_probe => [step # "idle" => Nearer]_probe
    BY <1>1
  <1>3. QED
    BY <1>2, ProbeInvariance, PTL DEF ProbeSpec
=============================================================================
