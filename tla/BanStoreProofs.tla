--------------------------- MODULE BanStoreProofs ---------------------------
(***************************************************************************)
(* The safety of BanStore for every set of addresses, limits from two up,  *)
(* windows, ban times and clocks.                                          *)
(***************************************************************************)
EXTENDS BanStore, FiniteSetTheorems, TLAPS

\* A call under way agrees with memory: when it is to record a failure after
\* deleting a ban, its address has neither ban nor failures; a process that
\* is down holds nothing.
CallInv ==
    /\ pc \in {"idle", "down"} => call = NoCall
    /\ pc \in {"append", "sweep"} => call.next = pc
    /\ call.next = "append" =>
          \A ip \in call.due : /\ bans[ip] = NoBan
                               /\ ip \in call.before
                               /\ \A kind \in Kinds : failures[kind][ip] = {}
    /\ pc = "down" => bans = NoBans /\ failures = NoFailures

MemoryInv == NoFailuresWhileBanned /\ BelowLimit

FileInv ==
    /\ FileNeverTorn
    /\ FileMatchesMemory
    /\ pc = "replace" => tmp = bans

\* A sweep deletes only bans, and only expired ones as long as the clock does
\* not go back between its reading and its use.
SweepInv ==
    /\ call.next = "sweep" => \A ip \in call.due : bans[ip] # NoBan
    /\ MaxSlip = 0 => call.at <= now /\ \A ip \in call.due : bans[ip] <= now

IInv == TypeOK /\ CallInv /\ MemoryInv /\ FileInv /\ SweepInv /\ FileBansNoMore
-----------------------------------------------------------------------------
LEMMA KindFacts == /\ \A kind \in Kinds : Limit(kind) \in Nat /\ Limit(kind) >= 2
  BY LimitAssumption DEF Kinds, Limit

LEMMA NoCallType == NoCall \in Calls
  BY DEF NoCall, Calls, Kinds

\* Pruning keeps a list finite and never lengthens it.
LEMMA RecentFacts ==
  ASSUME NEW list \in SUBSET (Nat \X Nat), IsFiniteSet(list), NEW t \in Nat
  PROVE  /\ Recent(list, t) \in SUBSET (Nat \X Nat)
         /\ IsFiniteSet(Recent(list, t))
         /\ Cardinality(Recent(list, t)) <= Cardinality(list)
  <1>1. Recent(list, t) \subseteq list
    BY DEF Recent
  <1>2. QED
    BY <1>1, FS_Subset

\* A list with one failure more is finite; an empty one becomes a singleton.
LEMMA AppendedFacts ==
  ASSUME NEW list \in SUBSET (Nat \X Nat), IsFiniteSet(list), now \in Nat
  PROVE  /\ Appended(list) \in SUBSET (Nat \X Nat)
         /\ IsFiniteSet(Appended(list))
         /\ list = {} => Cardinality(Appended(list)) = 1
  <1> DEFINE same == {f \in list : f[1] = now}
             fresh == <<now, Cardinality(same) + 1>>
  <1>1. same \subseteq list
    OBVIOUS
  <1>2. Cardinality(same) \in Nat
    BY <1>1, FS_Subset, FS_CardinalityType
  <1>3. fresh \in Nat \X Nat
    BY <1>2
  <1>4. Appended(list) = list \cup {fresh}
    BY DEF Appended
  <1>5. /\ IsFiniteSet(list \cup {fresh})
    BY FS_AddElement
  <1>6. list = {} => Cardinality(list \cup {fresh}) = 1
    <2>1. Cardinality({fresh}) = 1
      BY FS_Singleton
    <2>2. list = {} => list \cup {fresh} = {fresh}
      OBVIOUS
    <2>3. QED
      BY <2>1, <2>2
  <1>7. list \cup {fresh} \in SUBSET (Nat \X Nat)
    BY <1>3
  <1> HIDE DEF fresh
  <1>8. QED
    BY <1>4, <1>5, <1>6, <1>7
-----------------------------------------------------------------------------
(***************************************************************************)
(* What the two memory operators do, whichever action calls them.          *)
(***************************************************************************)
LEMMA DeleteFacts ==
  ASSUME TypeOK, MemoryInv, NEW ip \in IPs, Delete(ip)
  PROVE  /\ bans' \in Contents
         /\ bans'[ip] = NoBan
         /\ \A other \in IPs \ {ip} : bans'[other] = bans[other]
         /\ failures' \in [Kinds -> [IPs -> SUBSET (Nat \X Nat)]]
         /\ \A kind \in Kinds, i \in IPs : IsFiniteSet(failures'[kind][i])
         /\ \A kind \in Kinds : failures'[kind][ip] = {}
         /\ MemoryInv'
  <1>1. /\ bans' \in Contents
        /\ bans'[ip] = NoBan
        /\ \A other \in IPs \ {ip} : bans'[other] = bans[other]
    BY DEF TypeOK, Delete, Contents, NoBan
  <1>2. \A kind \in Kinds, i \in IPs :
           failures'[kind][i] = IF i = ip THEN {} ELSE failures[kind][i]
    BY DEF TypeOK, Delete
  <1>3. failures' \in [Kinds -> [IPs -> SUBSET (Nat \X Nat)]]
    BY DEF TypeOK, Delete
  <1>4. \A kind \in Kinds, i \in IPs : IsFiniteSet(failures'[kind][i])
    BY <1>2, FS_EmptySet DEF TypeOK
  <1>5. NoFailuresWhileBanned'
    BY <1>1, <1>2 DEF MemoryInv, NoFailuresWhileBanned, Banned
  <1>6. BelowLimit'
    BY <1>2, FS_EmptySet, KindFacts DEF MemoryInv, BelowLimit
  <1>7. QED
    BY <1>1, <1>2, <1>3, <1>4, <1>5, <1>6 DEF MemoryInv

LEMMA CountFacts ==
  ASSUME TypeOK, MemoryInv, NEW kind \in Kinds, NEW ip \in IPs,
         bans[ip] = NoBan, Count(kind, ip)
  PROVE  /\ bans' \in Contents
         /\ \A other \in IPs \ {ip} : bans'[other] = bans[other]
         /\ failures' \in [Kinds -> [IPs -> SUBSET (Nat \X Nat)]]
         /\ \A k \in Kinds, i \in IPs : IsFiniteSet(failures'[k][i])
         /\ MemoryInv'
         /\ bans' # bans => bans'[ip] # NoBan
         /\ failures[kind][ip] = {} => bans' = bans
  <1> DEFINE pruned == Recent(failures[kind][ip], now)
             counted == Appended(pruned)
  <1>1. /\ pruned \in SUBSET (Nat \X Nat) /\ IsFiniteSet(pruned)
        /\ failures[kind][ip] = {} => pruned = {}
    BY RecentFacts DEF TypeOK, Recent
  <1>2. /\ counted \in SUBSET (Nat \X Nat) /\ IsFiniteSet(counted)
        /\ pruned = {} => Cardinality(counted) = 1
    BY <1>1, AppendedFacts DEF TypeOK
  <1>3. Cardinality(counted) \in Nat
    BY <1>2, FS_CardinalityType
  <1>4. Limit(kind) \in Nat /\ Limit(kind) >= 2
    BY KindFacts
  <1>5. CASE Cardinality(counted) >= Limit(kind)
    <2>1. /\ bans' = [bans EXCEPT ![ip] = now + BanTTL]
          /\ failures' = [k \in Kinds |-> [failures[k] EXCEPT ![ip] = {}]]
      BY <1>5 DEF Count
    <2>2. now + BanTTL \in Nat /\ now + BanTTL # NoBan
      BY TimeAssumption DEF TypeOK, NoBan
    <2>3. \A k \in Kinds, i \in IPs :
             failures'[k][i] = IF i = ip THEN {} ELSE failures[k][i]
      BY <2>1 DEF TypeOK
    <2>4. \A k \in Kinds, i \in IPs : IsFiniteSet(failures'[k][i])
      BY <2>3, FS_EmptySet DEF TypeOK
    <2>5. NoFailuresWhileBanned'
      BY <2>1, <2>3 DEF MemoryInv, NoFailuresWhileBanned, Banned, TypeOK, Contents
    <2>6. BelowLimit'
      BY <2>3, FS_EmptySet, KindFacts DEF MemoryInv, BelowLimit
    <2>7. failures[kind][ip] # {}
      BY <1>1, <1>2, <1>3, <1>4, <1>5
    <2>8. /\ bans' \in Contents /\ bans'[ip] # NoBan
          /\ \A other \in IPs \ {ip} : bans'[other] = bans[other]
      BY <2>1, <2>2 DEF TypeOK, Contents
    <2>9. failures' \in [Kinds -> [IPs -> SUBSET (Nat \X Nat)]]
      BY <2>1 DEF TypeOK
    <2>10. QED
      BY <2>4, <2>5, <2>6, <2>7, <2>8, <2>9 DEF MemoryInv
  <1>6. CASE ~ (Cardinality(counted) >= Limit(kind))
    <2>1. /\ bans' = bans
          /\ failures' = [failures EXCEPT ![kind][ip] = counted]
      BY <1>6 DEF Count
    <2> HIDE DEF counted
    <2>2. \A k \in Kinds, i \in IPs :
             failures'[k][i] = IF k = kind /\ i = ip THEN counted ELSE failures[k][i]
      BY <2>1 DEF TypeOK
    <2>3. failures' \in [Kinds -> [IPs -> SUBSET (Nat \X Nat)]]
      BY <2>1, <1>2 DEF TypeOK
    <2>4. \A k \in Kinds, i \in IPs : IsFiniteSet(failures'[k][i])
      BY <2>2, <1>2 DEF TypeOK
    <2>5. NoFailuresWhileBanned'
      BY <2>1, <2>2 DEF MemoryInv, NoFailuresWhileBanned, Banned
    <2>6. BelowLimit'
      BY <2>2, <1>3, <1>4, <1>6 DEF MemoryInv, BelowLimit
    <2>7. QED
      BY <2>1, <2>3, <2>4, <2>5, <2>6 DEF MemoryInv, TypeOK
  <1>7. QED
    BY <1>5, <1>6
-----------------------------------------------------------------------------
\* One step of the store keeps its invariant.
LEMMA InitInv == Init => IInv
  <1> SUFFICES ASSUME Init PROVE IInv
    OBVIOUS
  <1>1. TypeOK
    BY NoCallType, TimeAssumption, FS_EmptySet DEF Init, TypeOK, Contents, NoBans, NoBan, NoFailures
  <1>2. CallInv /\ FileInv /\ SweepInv /\ FileBansNoMore
    BY TornAssumption DEF Init, CallInv, FileInv, SweepInv, FileBansNoMore, FileNeverTorn,
       FileMatchesMemory, NoCall, NoBans, NoBan, Contents
  <1>3. MemoryInv
    BY FS_EmptySet, KindFacts DEF Init, MemoryInv, NoFailuresWhileBanned, BelowLimit,
       NoFailures, NoBans, NoBan, Banned
  <1>4. QED
    BY <1>1, <1>2, <1>3 DEF IInv

LEMMA StepInv == IInv /\ [Next]_vars => IInv'
  <1> SUFFICES ASSUME IInv, [Next]_vars PROVE IInv'
    OBVIOUS
  <1> USE DEF IInv
  <1>1. ASSUME NEW ip \in IPs, IsBanned(ip) PROVE IInv'
    <2>1. TypeOK'
      BY <1>1, DeleteFacts, TornAssumption DEF TypeOK, CallInv, Disk, memory, IsBanned, Expired, Save, NoCall, Calls, Kinds
    <2>2. CallInv'
      BY <1>1, DeleteFacts DEF TypeOK, CallInv, Disk, memory, IsBanned, Expired, Save, NoCall, Calls, Kinds
    <2>3. MemoryInv'
      BY <1>1, DeleteFacts DEF TypeOK, CallInv, Disk, memory, MemoryInv, NoFailuresWhileBanned, BelowLimit, Banned, IsBanned, Expired, Save, NoCall, Calls, Kinds
    <2>4. FileInv'
      BY <1>1, DeleteFacts, TornAssumption DEF TypeOK, CallInv, Disk, memory, FileInv, FileNeverTorn, FileMatchesMemory, Banned, Contents, NoBan, IsBanned, Expired, Save, NoCall, Calls, Kinds
    <2>5. SweepInv'
      BY <1>1, DeleteFacts DEF TypeOK, CallInv, Disk, memory, SweepInv, Banned, Expired, Contents, NoBan, Calls, NoCall, IsBanned, Save, Kinds
    <2>6. FileBansNoMore'
      BY <1>1, DeleteFacts, TornAssumption DEF TypeOK, CallInv, Disk, memory, FileBansNoMore, FileInv, FileNeverTorn, SweepInv, Contents, NoBan, IsBanned, Expired, Save, NoCall, Calls, Kinds
    <2>7. QED
      BY <2>1, <2>2, <2>3, <2>4, <2>5, <2>6
  <1>2. ASSUME NEW ip \in IPs, RecordSuccess(ip) PROVE IInv'
    <2>1. TypeOK'
      BY <1>2, FS_EmptySet, KindFacts, TornAssumption DEF TypeOK, CallInv, Disk, memory, RecordSuccess, Kinds, NoCall
    <2>2. CallInv'
      BY <1>2, FS_EmptySet, KindFacts DEF TypeOK, CallInv, Disk, memory, RecordSuccess, Kinds, NoCall
    <2>3. MemoryInv'
      BY <1>2, FS_EmptySet, KindFacts DEF TypeOK, CallInv, Disk, memory, MemoryInv, NoFailuresWhileBanned, BelowLimit, Banned, RecordSuccess, Kinds, NoCall
    <2>4. FileInv'
      BY <1>2, FS_EmptySet, KindFacts, TornAssumption DEF TypeOK, CallInv, Disk, memory, FileInv, FileNeverTorn, FileMatchesMemory, Banned, Contents, NoBan, RecordSuccess, Kinds, NoCall
    <2>5. SweepInv'
      BY <1>2, FS_EmptySet, KindFacts DEF TypeOK, CallInv, Disk, memory, SweepInv, Banned, Expired, Contents, NoBan, Calls, NoCall, RecordSuccess, Kinds
    <2>6. FileBansNoMore'
      BY <1>2, FS_EmptySet, KindFacts, TornAssumption DEF TypeOK, CallInv, Disk, memory, FileBansNoMore, FileInv, FileNeverTorn, SweepInv, Contents, NoBan, RecordSuccess, Kinds, NoCall
    <2>7. QED
      BY <2>1, <2>2, <2>3, <2>4, <2>5, <2>6
  <1>3. ASSUME NEW kind \in Kinds, NEW ip \in IPs, RecordFailure(kind, ip) PROVE IInv'
    <2>1. TypeOK'
      BY <1>3, CountFacts, NoCallType, TornAssumption DEF TypeOK, CallInv, Disk, memory, RecordFailure, SaveIfChanged, Save, Return, NoCall
    <2>2. CallInv'
      BY <1>3, CountFacts, NoCallType DEF TypeOK, CallInv, Disk, memory, RecordFailure, SaveIfChanged, Save, Return, NoCall
    <2>3. MemoryInv'
      BY <1>3, CountFacts, NoCallType DEF TypeOK, CallInv, Disk, memory, MemoryInv, NoFailuresWhileBanned, BelowLimit, Banned, RecordFailure, SaveIfChanged, Save, Return, NoCall
    <2>4. FileInv'
      BY <1>3, CountFacts, NoCallType, TornAssumption DEF TypeOK, CallInv, Disk, memory, FileInv, FileNeverTorn, FileMatchesMemory, Banned, Contents, NoBan, RecordFailure, SaveIfChanged, Save, Return, NoCall
    <2>5. SweepInv'
      BY <1>3, CountFacts, NoCallType DEF TypeOK, CallInv, Disk, memory, SweepInv, Banned, Expired, Contents, NoBan, Calls, NoCall, RecordFailure, SaveIfChanged, Save, Return
    <2>6. FileBansNoMore'
      BY <1>3, CountFacts, NoCallType, TornAssumption DEF TypeOK, CallInv, Disk, memory, FileBansNoMore, FileInv, FileNeverTorn, SweepInv, Contents, NoBan, RecordFailure, SaveIfChanged, Save, Return, NoCall
    <2>7. QED
      BY <2>1, <2>2, <2>3, <2>4, <2>5, <2>6
  <1>4. ASSUME NEW kind \in Kinds, NEW ip \in IPs, RecordFailureAfterBan(kind, ip) PROVE IInv'
    <2>1. TypeOK'
      BY <1>4, DeleteFacts, TornAssumption DEF TypeOK, CallInv, Disk, memory, RecordFailureAfterBan, Banned, Expired, Save, NoCall, Calls
    <2>2. CallInv'
      BY <1>4, DeleteFacts DEF TypeOK, CallInv, Disk, memory, RecordFailureAfterBan, Banned, Expired, Save, NoCall, Calls
    <2>3. MemoryInv'
      BY <1>4, DeleteFacts DEF TypeOK, CallInv, Disk, memory, MemoryInv, NoFailuresWhileBanned, BelowLimit, Banned, RecordFailureAfterBan, Expired, Save, NoCall, Calls
    <2>4. FileInv'
      BY <1>4, DeleteFacts, TornAssumption DEF TypeOK, CallInv, Disk, memory, FileInv, FileNeverTorn, FileMatchesMemory, Banned, Contents, NoBan, RecordFailureAfterBan, Expired, Save, NoCall, Calls
    <2>5. SweepInv'
      BY <1>4, DeleteFacts DEF TypeOK, CallInv, Disk, memory, SweepInv, Banned, Expired, Contents, NoBan, Calls, NoCall, RecordFailureAfterBan, Save
    <2>6. FileBansNoMore'
      BY <1>4, DeleteFacts, TornAssumption DEF TypeOK, CallInv, Disk, memory, FileBansNoMore, FileInv, FileNeverTorn, SweepInv, Contents, NoBan, RecordFailureAfterBan, Banned, Expired, Save, NoCall, Calls
    <2>7. QED
      BY <2>1, <2>2, <2>3, <2>4, <2>5, <2>6
  <1>5. CASE AppendAfterBan
    <2>1. TypeOK'
      BY <1>5, CountFacts, NoCallType, TornAssumption DEF TypeOK, CallInv, Disk, memory, AppendAfterBan, SaveIfChanged, Save, Return, NoCall, Calls
    <2>2. CallInv'
      BY <1>5, CountFacts, NoCallType DEF TypeOK, CallInv, Disk, memory, AppendAfterBan, SaveIfChanged, Save, Return, NoCall, Calls
    <2>3. MemoryInv'
      BY <1>5, CountFacts, NoCallType DEF TypeOK, CallInv, Disk, memory, MemoryInv, NoFailuresWhileBanned, BelowLimit, Banned, AppendAfterBan, SaveIfChanged, Save, Return, NoCall, Calls
    <2>4. FileInv'
      BY <1>5, CountFacts, NoCallType, TornAssumption DEF TypeOK, CallInv, Disk, memory, FileInv, FileNeverTorn, FileMatchesMemory, Banned, Contents, NoBan, AppendAfterBan, SaveIfChanged, Save, Return, NoCall, Calls
    <2>5. SweepInv'
      BY <1>5, CountFacts, NoCallType DEF TypeOK, CallInv, Disk, memory, SweepInv, Banned, Expired, Contents, NoBan, Calls, NoCall, AppendAfterBan, SaveIfChanged, Save, Return
    <2>6. FileBansNoMore'
      BY <1>5, CountFacts, NoCallType, TornAssumption DEF TypeOK, CallInv, Disk, memory, FileBansNoMore, FileInv, FileNeverTorn, SweepInv, Contents, NoBan, AppendAfterBan, SaveIfChanged, Save, Return, NoCall, Calls
    <2>7. QED
      BY <2>1, <2>2, <2>3, <2>4, <2>5, <2>6
  <1>6. CASE Cleanup
    <2>1. TypeOK'
      BY <1>6, TornAssumption DEF TypeOK, CallInv, Disk, memory, Cleanup, Banned, Expired, NoCall, Calls, Kinds
    <2>2. CallInv'
      BY <1>6 DEF TypeOK, CallInv, Disk, memory, Cleanup, Banned, Expired, NoCall, Calls, Kinds
    <2>3. MemoryInv'
      BY <1>6 DEF TypeOK, CallInv, Disk, memory, MemoryInv, NoFailuresWhileBanned, BelowLimit, Banned, Cleanup, Expired, NoCall, Calls, Kinds
    <2>4. FileInv'
      BY <1>6, TornAssumption DEF TypeOK, CallInv, Disk, memory, FileInv, FileNeverTorn, FileMatchesMemory, Banned, Contents, NoBan, Cleanup, Expired, NoCall, Calls, Kinds
    <2>5. SweepInv'
      BY <1>6 DEF TypeOK, CallInv, Disk, memory, SweepInv, Banned, Expired, Contents, NoBan, Calls, NoCall, Cleanup, Kinds
    <2>6. FileBansNoMore'
      BY <1>6, TornAssumption DEF TypeOK, CallInv, Disk, memory, FileBansNoMore, FileInv, FileNeverTorn, SweepInv, Contents, NoBan, Cleanup, Banned, Expired, NoCall, Calls, Kinds
    <2>7. QED
      BY <2>1, <2>2, <2>3, <2>4, <2>5, <2>6
  <1>7. ASSUME NEW ip \in IPs, Sweep(ip) PROVE IInv'
    <2>1. TypeOK'
      BY <1>7, DeleteFacts, TornAssumption DEF TypeOK, CallInv, Disk, memory, Sweep, Save, Calls
    <2>2. CallInv'
      BY <1>7, DeleteFacts DEF TypeOK, CallInv, Disk, memory, Sweep, Save, Calls
    <2>3. MemoryInv'
      BY <1>7, DeleteFacts DEF TypeOK, CallInv, Disk, memory, MemoryInv, NoFailuresWhileBanned, BelowLimit, Banned, Sweep, Save, Calls
    <2>4. FileInv'
      BY <1>7, DeleteFacts, TornAssumption DEF TypeOK, CallInv, Disk, memory, FileInv, FileNeverTorn, FileMatchesMemory, Banned, Contents, NoBan, Sweep, Save, Calls
    <2>5. SweepInv'
      BY <1>7, DeleteFacts DEF TypeOK, CallInv, Disk, memory, SweepInv, Banned, Expired, Contents, NoBan, Calls, NoCall, Sweep, Save
    <2>6. FileBansNoMore'
      BY <1>7, DeleteFacts, TornAssumption DEF TypeOK, CallInv, Disk, memory, FileBansNoMore, FileInv, FileNeverTorn, SweepInv, Contents, NoBan, Sweep, Save, Calls
    <2>7. QED
      BY <2>1, <2>2, <2>3, <2>4, <2>5, <2>6
  <1>8. CASE Prune
    <2> DEFINE pruned(k, ip) == Recent(failures[k][ip], call.at)
    <2>0. \A k \in Kinds, ip \in IPs :
             /\ failures'[k][ip] = pruned(k, ip)
             /\ failures[k][ip] = {} => pruned(k, ip) = {}
             /\ pruned(k, ip) \in SUBSET (Nat \X Nat)
             /\ IsFiniteSet(pruned(k, ip))
             /\ Cardinality(pruned(k, ip)) <= Cardinality(failures[k][ip])
             /\ Cardinality(pruned(k, ip)) \in Nat
             /\ Cardinality(failures[k][ip]) \in Nat
      <3>1. call.at \in Nat
        BY DEF TypeOK, Calls
      <3>2. QED
        BY <1>8, <3>1, RecentFacts, FS_CardinalityType DEF Prune, TypeOK, Recent
    <2> HIDE DEF pruned
    <2>1. TypeOK'
      BY <1>8, <2>0, NoCallType DEF Prune, TypeOK, Disk, SaveIfChanged, Save, Return
    <2>2. CallInv'
      BY <1>8, RecentFacts, NoCallType, KindFacts DEF TypeOK, CallInv, Disk, memory, Prune, SaveIfChanged, Save, Return, NoCall, Calls
    <2>3. MemoryInv'
      BY <1>8, <2>0, KindFacts DEF Prune, MemoryInv, NoFailuresWhileBanned, BelowLimit, Banned
    <2>4. FileInv'
      BY <1>8, RecentFacts, NoCallType, KindFacts, TornAssumption DEF TypeOK, CallInv, Disk, memory, FileInv, FileNeverTorn, FileMatchesMemory, Banned, Contents, NoBan, Prune, SaveIfChanged, Save, Return, NoCall, Calls
    <2>5. SweepInv'
      BY <1>8, RecentFacts, NoCallType, KindFacts DEF TypeOK, CallInv, Disk, memory, SweepInv, Banned, Expired, Contents, NoBan, Calls, NoCall, Prune, SaveIfChanged, Save, Return
    <2>6. FileBansNoMore'
      BY <1>8, RecentFacts, NoCallType, KindFacts, TornAssumption DEF TypeOK, CallInv, Disk, memory, FileBansNoMore, FileInv, FileNeverTorn, SweepInv, Contents, NoBan, Prune, SaveIfChanged, Save, Return, NoCall, Calls
    <2>7. QED
      BY <2>1, <2>2, <2>3, <2>4, <2>5, <2>6
  <1>9. CASE WriteTmp
    <2>1. TypeOK'
      BY <1>9, TornAssumption DEF TypeOK, CallInv, Disk, memory, WriteTmp
    <2>2. CallInv'
      BY <1>9 DEF TypeOK, CallInv, Disk, memory, WriteTmp
    <2>3. MemoryInv'
      BY <1>9 DEF TypeOK, CallInv, Disk, memory, MemoryInv, NoFailuresWhileBanned, BelowLimit, Banned, WriteTmp
    <2>4. FileInv'
      BY <1>9, TornAssumption DEF TypeOK, CallInv, Disk, memory, FileInv, FileNeverTorn, FileMatchesMemory, Banned, Contents, NoBan, WriteTmp
    <2>5. SweepInv'
      BY <1>9 DEF TypeOK, CallInv, Disk, memory, SweepInv, Banned, Expired, Contents, NoBan, Calls, NoCall, WriteTmp
    <2>6. FileBansNoMore'
      BY <1>9, TornAssumption DEF TypeOK, CallInv, Disk, memory, FileBansNoMore, FileInv, FileNeverTorn, SweepInv, Contents, NoBan, WriteTmp
    <2>7. QED
      BY <2>1, <2>2, <2>3, <2>4, <2>5, <2>6
  <1>10. CASE Replace
    <2>1. TypeOK'
      BY <1>10, NoCallType, TornAssumption DEF TypeOK, CallInv, Disk, memory, Replace, NoCall, Calls
    <2>2. CallInv'
      BY <1>10, NoCallType DEF TypeOK, CallInv, Disk, memory, Replace, NoCall, Calls
    <2>3. MemoryInv'
      BY <1>10, NoCallType DEF TypeOK, CallInv, Disk, memory, MemoryInv, NoFailuresWhileBanned, BelowLimit, Banned, Replace, NoCall, Calls
    <2>4. FileInv'
      BY <1>10, NoCallType, TornAssumption DEF TypeOK, CallInv, Disk, memory, FileInv, FileNeverTorn, FileMatchesMemory, Banned, Contents, NoBan, Replace, NoCall, Calls
    <2>5. SweepInv'
      BY <1>10, NoCallType DEF TypeOK, CallInv, Disk, memory, SweepInv, Banned, Expired, Contents, NoBan, Calls, NoCall, Replace
    <2>6. FileBansNoMore'
      BY <1>10, NoCallType, TornAssumption DEF TypeOK, CallInv, Disk, memory, FileBansNoMore, FileInv, FileNeverTorn, SweepInv, Contents, NoBan, Replace, NoCall, Calls
    <2>7. QED
      BY <2>1, <2>2, <2>3, <2>4, <2>5, <2>6
  <1>11. CASE SaveFails
    <2>1. TypeOK'
      BY <1>11, NoCallType, TornAssumption DEF TypeOK, CallInv, Disk, memory, SaveFails, Return, NoCall
    <2>2. CallInv'
      BY <1>11, NoCallType DEF TypeOK, CallInv, Disk, memory, SaveFails, Return, NoCall
    <2>3. MemoryInv'
      BY <1>11, NoCallType DEF TypeOK, CallInv, Disk, memory, MemoryInv, NoFailuresWhileBanned, BelowLimit, Banned, SaveFails, Return, NoCall
    <2>4. FileInv'
      BY <1>11, NoCallType, TornAssumption DEF TypeOK, CallInv, Disk, memory, FileInv, FileNeverTorn, FileMatchesMemory, Banned, Contents, NoBan, SaveFails, Return, NoCall
    <2>5. SweepInv'
      BY <1>11, NoCallType DEF TypeOK, CallInv, Disk, memory, SweepInv, Banned, Expired, Contents, NoBan, Calls, NoCall, SaveFails, Return
    <2>6. FileBansNoMore'
      BY <1>11, NoCallType, TornAssumption DEF TypeOK, CallInv, Disk, memory, FileBansNoMore, FileInv, FileNeverTorn, SweepInv, Contents, NoBan, SaveFails, Return, NoCall
    <2>7. QED
      BY <2>1, <2>2, <2>3, <2>4, <2>5, <2>6
  <1>12. CASE Crash
    <2>1. TypeOK'
      BY <1>12, NoCallType, FS_EmptySet, KindFacts, TornAssumption DEF TypeOK, CallInv, Disk, memory, Crash, NoCall, NoBans, NoFailures, NoBan, Contents
    <2>2. CallInv'
      BY <1>12, NoCallType, FS_EmptySet, KindFacts DEF TypeOK, CallInv, Disk, memory, Crash, NoCall, NoBans, NoFailures, NoBan, Contents
    <2>3. MemoryInv'
      BY <1>12, NoCallType, FS_EmptySet, KindFacts DEF TypeOK, CallInv, Disk, memory, MemoryInv, NoFailuresWhileBanned, BelowLimit, Banned, Crash, NoCall, NoBans, NoFailures, NoBan, Contents
    <2>4. FileInv'
      BY <1>12, NoCallType, FS_EmptySet, KindFacts, TornAssumption DEF TypeOK, CallInv, Disk, memory, FileInv, FileNeverTorn, FileMatchesMemory, Banned, Contents, NoBan, Crash, NoCall, NoBans, NoFailures
    <2>5. SweepInv'
      BY <1>12, NoCallType, FS_EmptySet, KindFacts DEF TypeOK, CallInv, Disk, memory, SweepInv, Banned, Expired, Contents, NoBan, Calls, NoCall, Crash, NoBans, NoFailures
    <2>6. FileBansNoMore'
      BY <1>12, NoCallType, FS_EmptySet, KindFacts, TornAssumption DEF TypeOK, CallInv, Disk, memory, FileBansNoMore, FileInv, FileNeverTorn, SweepInv, Contents, NoBan, Crash, NoCall, NoBans, NoFailures
    <2>7. QED
      BY <2>1, <2>2, <2>3, <2>4, <2>5, <2>6
  <1>13. CASE Restart
    <2>1. TypeOK'
      BY <1>13, NoCallType, TornAssumption DEF TypeOK, CallInv, Disk, memory, Restart, Load, NoBans, NoBan, Contents, NoCall, NoFailures, FileInv, FileNeverTorn
    <2>2. CallInv'
      BY <1>13, NoCallType DEF TypeOK, CallInv, Disk, memory, Restart, Load, NoBans, NoBan, Contents, NoCall, NoFailures, FileInv, FileNeverTorn
    <2>3. MemoryInv'
      BY <1>13, NoCallType DEF TypeOK, CallInv, Disk, memory, MemoryInv, NoFailuresWhileBanned, BelowLimit, Banned, Restart, Load, NoBans, NoBan, Contents, NoCall, NoFailures, FileInv, FileNeverTorn
    <2>4. FileInv'
      BY <1>13, NoCallType, TornAssumption DEF TypeOK, CallInv, Disk, memory, FileInv, FileNeverTorn, FileMatchesMemory, Banned, Contents, NoBan, Restart, Load, NoBans, NoCall, NoFailures
    <2>5. SweepInv'
      BY <1>13, NoCallType DEF TypeOK, CallInv, Disk, memory, SweepInv, Banned, Expired, Contents, NoBan, Calls, NoCall, Restart, Load, NoBans, NoFailures, FileInv, FileNeverTorn
    <2>6. FileBansNoMore'
      BY <1>13, NoCallType, TornAssumption DEF TypeOK, CallInv, Disk, memory, FileBansNoMore, FileInv, FileNeverTorn, SweepInv, Contents, NoBan, Restart, Load, NoBans, NoCall, NoFailures
    <2>7. QED
      BY <2>1, <2>2, <2>3, <2>4, <2>5, <2>6
  <1>14. CASE Tick
    <2>1. TypeOK'
      BY <1>14, TornAssumption DEF TypeOK, CallInv, Disk, memory, Tick
    <2>2. CallInv'
      BY <1>14 DEF TypeOK, CallInv, Disk, memory, Tick
    <2>3. MemoryInv'
      BY <1>14 DEF TypeOK, CallInv, Disk, memory, MemoryInv, NoFailuresWhileBanned, BelowLimit, Banned, Tick
    <2>4. FileInv'
      BY <1>14, TornAssumption DEF TypeOK, CallInv, Disk, memory, FileInv, FileNeverTorn, FileMatchesMemory, Banned, Contents, NoBan, Tick
    <2>5. SweepInv'
      BY <1>14 DEF TypeOK, CallInv, Disk, memory, SweepInv, Banned, Expired, Contents, NoBan, Calls, NoCall, Tick
    <2>6. FileBansNoMore'
      BY <1>14, TornAssumption DEF TypeOK, CallInv, Disk, memory, FileBansNoMore, FileInv, FileNeverTorn, SweepInv, Contents, NoBan, Tick
    <2>7. QED
      BY <2>1, <2>2, <2>3, <2>4, <2>5, <2>6
  <1>15. CASE ClockSlip
    <2>1. TypeOK'
      BY <1>15, TimeAssumption, TornAssumption DEF TypeOK, CallInv, Disk, memory, ClockSlip
    <2>2. CallInv'
      BY <1>15, TimeAssumption DEF TypeOK, CallInv, Disk, memory, ClockSlip
    <2>3. MemoryInv'
      BY <1>15, TimeAssumption DEF TypeOK, CallInv, Disk, memory, MemoryInv, NoFailuresWhileBanned, BelowLimit, Banned, ClockSlip
    <2>4. FileInv'
      BY <1>15, TimeAssumption, TornAssumption DEF TypeOK, CallInv, Disk, memory, FileInv, FileNeverTorn, FileMatchesMemory, Banned, Contents, NoBan, ClockSlip
    <2>5. SweepInv'
      BY <1>15, TimeAssumption DEF TypeOK, CallInv, Disk, memory, SweepInv, Banned, Expired, Contents, NoBan, Calls, NoCall, ClockSlip
    <2>6. FileBansNoMore'
      BY <1>15, TimeAssumption, TornAssumption DEF TypeOK, CallInv, Disk, memory, FileBansNoMore, FileInv, FileNeverTorn, SweepInv, Contents, NoBan, ClockSlip
    <2>7. QED
      BY <2>1, <2>2, <2>3, <2>4, <2>5, <2>6
  <1>16. CASE UNCHANGED vars
    BY <1>16 DEF vars, TypeOK, CallInv, MemoryInv, NoFailuresWhileBanned, BelowLimit, FileInv,
       FileNeverTorn, FileMatchesMemory, SweepInv, FileBansNoMore, Banned
  <1>17. QED
    BY <1>1, <1>2, <1>3, <1>4, <1>5, <1>6, <1>7, <1>8, <1>9, <1>10, <1>11, <1>12, <1>13, <1>14, <1>15, <1>16 DEF Next, Continue
-----------------------------------------------------------------------------
THEOREM Invariance == Spec => []IInv
  BY InitInv, StepInv, PTL DEF Spec

\* Every variable keeps its type: in particular no save, crash or restart
\* leaves memory or the file with anything but expiry times.
THEOREM TypeCorrect == Spec => []TypeOK
  <1>1. IInv => TypeOK
    BY DEF IInv
  <1>2. QED
    BY <1>1, Invariance, PTL

\* record_login_failure and record_auth_failure turn the limit-th failure into
\* a ban in the call that counts it, and delete and the ban empty both lists.
THEOREM CountersCorrect == Spec => []CountersRight
  <1>1. IInv => CountersRight
    BY DEF IInv, MemoryInv, CountersRight
  <1>2. QED
    BY <1>1, Invariance, PTL

\* Saving only when the keys of _bans changed, through a sibling file, keeps
\* the file whole and equal to memory except after a save that raised, even if
\* the clock is set back.  Needs limits of two and more: with a limit of one
\* _record_failure could delete an expired ban and create the next in one call.
THEOREM FileCorrect == Spec => []FileRight
  <1>1. IInv => FileRight
    BY DEF IInv, FileInv, FileRight
  <1>2. QED
    BY <1>1, Invariance, PTL

\* With a clock that only goes forward, _load never restores a ban that the
\* process before it did not enforce, whatever saves had raised.
THEOREM FileHarmless == Spec => []FileBansNoMore
  <1>1. IInv => FileBansNoMore
    BY DEF IInv
  <1>2. QED
    BY <1>1, Invariance, PTL

\* With such a clock no call of a running process touches a ban in force.
THEOREM BansStand == Spec => BanStands
  <1> DEFINE Stands == (MaxSlip = 0 /\ pc' # "down") =>
                          \A ip \in IPs : bans[ip] > now => bans'[ip] = bans[ip]
  <1>1. ASSUME IInv, [Next]_vars PROVE [Stands]_vars
    <2> SUFFICES ASSUME MaxSlip = 0, pc' # "down", NEW ip \in IPs, bans[ip] > now
                 PROVE  bans'[ip] = bans[ip]
      OBVIOUS
    <2>1. TypeOK /\ CallInv /\ MemoryInv
      BY <1>1 DEF IInv
    <2>2. bans[ip] # NoBan /\ ~ (bans[ip] <= now)
      BY <2>1 DEF TypeOK, Contents, NoBan
    <2>3. ASSUME NEW other \in IPs, Delete(other), other # ip PROVE bans'[ip] = bans[ip]
      BY <2>1, <2>3, DeleteFacts
    <2>4. ASSUME NEW kind \in Kinds, NEW other \in IPs, bans[other] = NoBan,
                 Count(kind, other)
          PROVE  bans'[ip] = bans[ip]
      BY <2>1, <2>2, <2>4, CountFacts
    <2>5. ASSUME NEW other \in IPs, IsBanned(other) PROVE bans'[ip] = bans[ip]
      BY <2>2, <2>3, <2>5 DEF IsBanned, Expired
    <2>6. ASSUME NEW kind \in Kinds, NEW other \in IPs,
                 RecordFailureAfterBan(kind, other)
          PROVE  bans'[ip] = bans[ip]
      BY <2>2, <2>3, <2>6 DEF RecordFailureAfterBan, Expired
    <2>7. ASSUME NEW kind \in Kinds, NEW other \in IPs, RecordFailure(kind, other)
          PROVE  bans'[ip] = bans[ip]
      BY <2>4, <2>7 DEF RecordFailure
    <2>8. CASE AppendAfterBan
      BY <2>1, <2>4, <2>8 DEF AppendAfterBan, CallInv, TypeOK, Calls
    <2>9. ASSUME NEW other \in IPs, Sweep(other) PROVE bans'[ip] = bans[ip]
      <3>1. bans[other] <= now
        BY <1>1, <2>9 DEF IInv, SweepInv, Sweep
      <3>2. QED
        BY <2>2, <2>3, <2>9, <3>1 DEF Sweep
    <2>10. CASE Restart
      BY <1>1, <2>2, <2>10 DEF IInv, CallInv, Restart, NoBans
    <2>11. CASE Crash
      BY <2>11 DEF Crash
    <2>12. ASSUME NEW other \in IPs, RecordSuccess(other) PROVE bans'[ip] = bans[ip]
      BY <2>12 DEF RecordSuccess
    <2>13. CASE Cleanup \/ Prune \/ WriteTmp \/ Replace \/ SaveFails \/ Tick
                \/ ClockSlip \/ UNCHANGED vars
      BY <2>13 DEF Cleanup, Prune, WriteTmp, Replace, SaveFails, Tick, ClockSlip,
         memory, vars
    <2>14. QED
      BY <1>1, <2>5, <2>6, <2>7, <2>8, <2>9, <2>10, <2>11, <2>12, <2>13
         DEF Next, Continue
  <1>2. QED
    BY <1>1, Invariance, PTL DEF Spec, BanStands
-----------------------------------------------------------------------------
(***************************************************************************)
(* BanStore implements BanPolicy when the wall clock is never set back: a  *)
(* step of the store is a step of the policy or is invisible to it.        *)
(***************************************************************************)
\* What the policy sees of the store, address by address.
LEMMA Seen ==
  ASSUME TypeOK, FileNeverTorn
  PROVE  /\ UntilBar = [ip \in IPs |-> IF pc = "down"
                                       THEN IF disk[ip] > now THEN disk[ip] ELSE 0
                                       ELSE IF bans[ip] > now THEN bans[ip] ELSE 0]
         /\ DurableBar = {ip \in IPs : disk[ip] > now}
         /\ disk \in [IPs -> Nat] /\ bans \in [IPs -> Nat] /\ now \in Nat
  BY DEF UntilBar, DurableBar, Load, InForce, NoBan, TypeOK, FileNeverTorn, Contents

\* A list holds the same failures of the window before and after a pruning at
\* an earlier time, and appending is done inside the window.
LEMMA WindowFacts ==
  ASSUME NEW list \in SUBSET (Nat \X Nat), now \in Nat
  PROVE  /\ \A t \in Nat : t <= now => Recent(Recent(list, t), now) = Recent(list, now)
         /\ Recent(Appended(Recent(list, now)), now) = Appended(Recent(list, now))
         /\ Recent({}, now) = {}
  BY TimeAssumption DEF Recent, Appended

\* The instance has its own copy of the operator of FiniteSets.
LEMMA SameCardinality == \A S : Policy!Cardinality(S) = Cardinality(S)
  BY DEF Policy!Cardinality, Cardinality, Policy!IsFiniteSet, IsFiniteSet

\* Deleting an expired ban is invisible.
LEMMA DeleteInvisible ==
  ASSUME IInv, IInv', NEW ip \in IPs, Delete(ip), Expired(ip),
         UNCHANGED <<disk, now>>, pc # "down", pc' # "down"
  PROVE  UNCHANGED Policy!vars
  <1> USE DEF IInv
  <1>1. UntilBar' = UntilBar
    <2>1. \A i \in IPs : bans'[i] = IF i = ip THEN 0 ELSE bans[i]
      BY DeleteFacts DEF NoBan
    <2>2. bans[ip] <= now
      BY DEF Expired
    <2>3. UntilBar = [i \in IPs |-> IF bans[i] > now THEN bans[i] ELSE 0]
      BY Seen DEF FileInv
    <2>4. UntilBar' = [i \in IPs |-> IF bans'[i] > now THEN bans'[i] ELSE 0]
      BY DEF UntilBar, InForce, NoBan
    <2>5. QED
      BY <2>1, <2>2, <2>3, <2>4 DEF TypeOK, Contents
  <1>2. RecentBar' = RecentBar
    <2>1. failures' = failures
      <3>1. \A kind \in Kinds : failures[kind][ip] = {}
        BY DEF Expired, MemoryInv, NoFailuresWhileBanned, Banned
      <3>2. QED
        BY <3>1 DEF Delete, TypeOK
    <2>2. QED
      BY <2>1 DEF RecentBar, Recent
  <1>3. DurableBar' = DurableBar
    BY DEF DurableBar
  <1>4. QED
    BY <1>1, <1>2, <1>3 DEF Policy!vars

\* Counting a failure of an admitted address is the policy's Failure.
LEMMA CountIsFailure ==
  ASSUME IInv, IInv', NEW kind \in Kinds, NEW ip \in IPs, bans[ip] = NoBan,
         Count(kind, ip), UNCHANGED <<disk, now>>, pc # "down", pc' # "down"
  PROVE  Policy!Failure(kind, ip)
  <1> USE DEF IInv
  <1> DEFINE list == Recent(failures[kind][ip], now)
             more == Appended(list)
  <1>1. /\ \A k \in Kinds, i \in IPs : RecentBar[k][i] = Recent(failures[k][i], now)
        /\ RecentBar \in [Kinds -> [IPs -> SUBSET (Nat \X Nat)]]
    BY DEF RecentBar, Recent, TypeOK
  <1>2. UntilBar = [i \in IPs |-> IF bans[i] > now THEN bans[i] ELSE 0]
    BY Seen DEF FileInv
  <1>3. UntilBar' = [i \in IPs |-> IF bans'[i] > now THEN bans'[i] ELSE 0]
    BY DEF UntilBar, InForce, NoBan
  <1>4. ip \notin Policy!Barred
    BY <1>2 DEF Policy!Barred, NoBan, TypeOK
  <1>5. DurableBar' = DurableBar
    BY DEF DurableBar
  <1>6. /\ list \in SUBSET (Nat \X Nat) /\ IsFiniteSet(list)
        /\ Recent(more, now) = more
    BY RecentFacts, WindowFacts DEF TypeOK
  <1>7. /\ Cardinality(more) \in Nat
        /\ Limit(kind) \in Nat
        /\ Policy!Limit(kind) = Limit(kind)
    BY <1>6, AppendedFacts, FS_CardinalityType, KindFacts DEF TypeOK, Policy!Limit, Limit
  <1>8. RecentBar[kind][ip] \cup
           {<<now, Cardinality({f \in RecentBar[kind][ip] : f[1] = now}) + 1>>} = more
    BY <1>1 DEF Appended
  <1>9. CASE Cardinality(more) >= Limit(kind)
    <2>1. /\ bans' = [bans EXCEPT ![ip] = now + BanTTL]
          /\ failures' = [k \in Kinds |-> [failures[k] EXCEPT ![ip] = {}]]
      BY <1>9 DEF Count
    <2>2. now + BanTTL \in Nat /\ now + BanTTL > now
      BY TimeAssumption DEF TypeOK
    <2>3. UntilBar' = [UntilBar EXCEPT ![ip] = now + BanTTL]
      BY <1>2, <1>3, <2>1, <2>2 DEF TypeOK, Contents
    <2>4. RecentBar' = [k \in Kinds |-> [RecentBar[k] EXCEPT ![ip] = {}]]
      <3>1. \A k \in Kinds, i \in IPs :
               failures'[k][i] = IF i = ip THEN {} ELSE failures[k][i]
        BY <2>1 DEF TypeOK
      <3>2. RecentBar' = [k \in Kinds |-> [i \in IPs |-> Recent(failures'[k][i], now)]]
        BY DEF RecentBar, Recent
      <3>3. Recent({}, now) = {}
        BY DEF Recent
      <3>4. \A k \in Kinds :
               [i \in IPs |-> Recent(failures'[k][i], now)]
                  = [RecentBar[k] EXCEPT ![ip] = {}]
        <4> SUFFICES ASSUME NEW k \in Kinds
                     PROVE  [i \in IPs |-> Recent(failures'[k][i], now)]
                               = [RecentBar[k] EXCEPT ![ip] = {}]
          OBVIOUS
        <4>1. \A i \in IPs : Recent(failures'[k][i], now)
                                = IF i = ip THEN {} ELSE RecentBar[k][i]
          BY <1>1, <3>1, <3>3
        <4>2. [RecentBar[k] EXCEPT ![ip] = {}]
                = [i \in IPs |-> IF i = ip THEN {} ELSE RecentBar[k][i]]
          BY <1>1
        <4>3. QED
          BY <4>1, <4>2
      <3>5. QED
        BY <3>2, <3>4
    <2>5. Cardinality(more) >= Policy!Limit(kind)
      BY <1>7, <1>9
    <2> HIDE DEF more
    <2>6. QED
      BY <1>4, <1>5, <1>8, <2>3, <2>4, <2>5, SameCardinality DEF Policy!Failure, Policy!Kinds, Kinds
  <1>10. CASE ~ (Cardinality(more) >= Limit(kind))
    <2>1. /\ bans' = bans
          /\ failures' = [failures EXCEPT ![kind][ip] = more]
      BY <1>10 DEF Count
    <2>2. UntilBar' = UntilBar
      BY <1>2, <1>3, <2>1
    <2>3. RecentBar' = [RecentBar EXCEPT ![kind][ip] = more]
      <3> HIDE DEF more
      <3>1. \A k \in Kinds, i \in IPs :
               failures'[k][i] = IF k = kind /\ i = ip THEN more ELSE failures[k][i]
        BY <2>1 DEF TypeOK
      <3>2. RecentBar' = [k \in Kinds |-> [i \in IPs |-> Recent(failures'[k][i], now)]]
        BY DEF RecentBar, Recent
      <3>3. \A k \in Kinds, i \in IPs :
               Recent(failures'[k][i], now)
                  = IF k = kind /\ i = ip THEN more ELSE RecentBar[k][i]
        BY <1>1, <1>6, <3>1
      <3>4. [RecentBar EXCEPT ![kind][ip] = more]
              = [k \in Kinds |-> [i \in IPs |->
                    IF k = kind /\ i = ip THEN more ELSE RecentBar[k][i]]]
        BY <1>1
      <3>5. QED
        BY <3>2, <3>3, <3>4
    <2>4. Cardinality(more) < Policy!Limit(kind)
      BY <1>7, <1>10
    <2> HIDE DEF more
    <2>5. QED
      BY <1>4, <1>5, <1>8, <2>2, <2>3, <2>4, SameCardinality DEF Policy!Failure
  <1>11. QED
    BY <1>9, <1>10
-----------------------------------------------------------------------------
LEMMA InitSimulates == Init => Policy!Init
  BY TornAssumption DEF Init, Policy!Init, UntilBar, RecentBar, DurableBar, InForce,
     Recent, NoBans, NoBan, NoFailures, Policy!Kinds, Kinds, Contents

\* Steps that leave memory, the file, the clock and the process up or down
\* are invisible.
LEMMA Invisible ==
  ASSUME UNCHANGED <<bans, failures, disk, now>>, pc = "down" <=> pc' = "down"
  PROVE  UNCHANGED Policy!vars
  <1>1. UntilBar' = UntilBar
    BY DEF UntilBar, Load, InForce
  <1>2. RecentBar' = RecentBar /\ DurableBar' = DurableBar
    BY DEF RecentBar, DurableBar, Recent
  <1>3. QED
    BY <1>1, <1>2 DEF Policy!vars

LEMMA StepSimulates ==
  ASSUME MaxSlip = 0, IInv, IInv', [Next]_vars
  PROVE  [Policy!Next]_(Policy!vars)
  <1> USE DEF IInv
  <1>1. ASSUME NEW ip \in IPs, IsBanned(ip) PROVE UNCHANGED Policy!vars
    BY <1>1, DeleteInvisible DEF IsBanned, Save, Disk
  <1>2. ASSUME NEW ip \in IPs, RecordSuccess(ip) PROVE Policy!Success(ip)
    <2>1. UntilBar' = UntilBar /\ DurableBar' = DurableBar
      BY <1>2 DEF RecordSuccess, UntilBar, DurableBar, Disk, InForce
    <2>2. RecentBar' = [RecentBar EXCEPT !["login"][ip] = {}]
      <3>1. \A k \in Kinds, i \in IPs :
               failures'[k][i] = IF k = "login" /\ i = ip THEN {} ELSE failures[k][i]
        BY <1>2 DEF RecordSuccess, TypeOK, Kinds
      <3>2. RecentBar' = [k \in Kinds |-> [i \in IPs |-> Recent(failures'[k][i], now)]]
        BY <1>2 DEF RecentBar, Recent, RecordSuccess
      <3>3. \A k \in Kinds, i \in IPs :
               Recent(failures'[k][i], now)
                  = IF k = "login" /\ i = ip THEN {} ELSE RecentBar[k][i]
        BY <3>1 DEF RecentBar, Recent
      <3>4. [RecentBar EXCEPT !["login"][ip] = {}]
              = [k \in Kinds |-> [i \in IPs |->
                    IF k = "login" /\ i = ip THEN {} ELSE RecentBar[k][i]]]
        BY DEF RecentBar, Kinds
      <3>5. \A k \in Kinds :
               [i \in IPs |-> Recent(failures'[k][i], now)]
                  = [i \in IPs |-> IF k = "login" /\ i = ip THEN {} ELSE RecentBar[k][i]]
        BY <3>3
      <3>6. QED
        BY <3>2, <3>4, <3>5
    <2>3. QED
      BY <1>2, <2>1, <2>2 DEF Policy!Success, RecordSuccess
  <1>3. ASSUME NEW kind \in Kinds, NEW ip \in IPs, RecordFailure(kind, ip)
        PROVE  Policy!Failure(kind, ip)
    BY <1>3, CountIsFailure DEF RecordFailure, SaveIfChanged, Save, Return, Disk
  <1>4. ASSUME NEW kind \in Kinds, NEW ip \in IPs, RecordFailureAfterBan(kind, ip)
        PROVE  UNCHANGED Policy!vars
    BY <1>4, DeleteInvisible DEF RecordFailureAfterBan, Save, Disk
  <1>5. CASE AppendAfterBan
    <2>1. PICK ip \in call.due : Count(call.kind, ip)
      BY <1>5 DEF AppendAfterBan
    <2>2. call.kind \in Kinds /\ ip \in IPs /\ bans[ip] = NoBan
      BY <1>5 DEF AppendAfterBan, CallInv, TypeOK, Calls
    <2>3. Policy!Failure(call.kind, ip)
      BY <1>5, <2>1, <2>2, CountIsFailure
         DEF AppendAfterBan, SaveIfChanged, Save, Return, Disk
    <2>4. QED
      BY <2>2, <2>3 DEF Policy!Next, Policy!Kinds, Kinds
  <1>6. CASE Cleanup
    BY <1>6, Invisible DEF Cleanup, memory, Disk
  <1>7. ASSUME NEW ip \in IPs, Sweep(ip) PROVE UNCHANGED Policy!vars
    <2>1. Expired(ip)
      BY <1>7 DEF Sweep, SweepInv, CallInv, Expired
    <2>2. QED
      BY <1>7, <2>1, DeleteInvisible DEF Sweep, Save, Disk
  <1>8. CASE Prune
    <2>1. UntilBar' = UntilBar /\ DurableBar' = DurableBar
      BY <1>8 DEF Prune, UntilBar, DurableBar, Disk, InForce, SaveIfChanged, Save, Return
    <2>2. call.at \in Nat /\ call.at <= now /\ now \in Nat
      BY DEF TypeOK, Calls, SweepInv
    <2>3. \A k \in Kinds, i \in IPs :
             Recent(failures'[k][i], now) = Recent(failures[k][i], now)
      BY <1>8, <2>2, WindowFacts DEF Prune, TypeOK
    <2>4. RecentBar' = RecentBar
      BY <1>8, <2>3 DEF RecentBar, Recent, Prune
    <2>5. QED
      BY <1>8, <2>1, <2>4 DEF Policy!vars, Prune
  <1>9. CASE WriteTmp
    BY <1>9, Invisible DEF WriteTmp, memory
  <1>10. CASE Replace
    <2>1. UntilBar' = UntilBar /\ RecentBar' = RecentBar
      BY <1>10 DEF Replace, UntilBar, RecentBar, Recent, memory, InForce, TypeOK, Calls
    <2>2. DurableBar' = {ip \in IPs : bans[ip] > now}
      BY <1>10 DEF Replace, DurableBar, FileInv, FileNeverTorn
    <2>3. Policy!Barred = {ip \in IPs : bans[ip] > now}
      BY <1>10, Seen DEF Replace, Policy!Barred, FileInv
    <2>4. QED
      BY <1>10, <2>1, <2>2, <2>3 DEF Policy!Next, Policy!Persist, Replace
  <1>11. CASE SaveFails
    BY <1>11, Invisible DEF SaveFails, memory, Return
  <1>12. CASE Crash
    <2>1. UntilBar = [ip \in IPs |-> IF bans[ip] > now THEN bans[ip] ELSE 0]
      BY <1>12, Seen DEF Crash, FileInv
    <2>2. UntilBar' = [ip \in IPs |-> IF disk[ip] > now THEN disk[ip] ELSE 0]
      BY <1>12 DEF Crash, UntilBar, Load, FileInv, FileNeverTorn, NoBan
    <2>3. DurableBar = {ip \in IPs : disk[ip] > now} /\ DurableBar' = DurableBar
      BY <1>12, Seen DEF Crash, DurableBar, FileInv
    <2>4. \A ip \in IPs : disk[ip] > now => bans[ip] = disk[ip]
      BY <1>12 DEF Crash, FileBansNoMore
    <2>5. UntilBar' = [ip \in IPs |-> IF ip \in DurableBar THEN UntilBar[ip] ELSE 0]
      BY <2>1, <2>2, <2>3, <2>4
    <2>6. RecentBar' = [k \in Kinds |-> [ip \in IPs |-> {}]]
      BY <1>12 DEF Crash, RecentBar, Recent, NoFailures
    <2>7. QED
      BY <1>12, <2>3, <2>5, <2>6 DEF Policy!Next, Policy!Crash, Policy!Kinds, Kinds, Crash
  <1>13. CASE Restart
    <2>1. UntilBar' = UntilBar
      BY <1>13, Seen DEF Restart, UntilBar, InForce, Load, FileInv, FileNeverTorn, NoBan
    <2>2. RecentBar' = RecentBar /\ DurableBar' = DurableBar
      BY <1>13 DEF Restart, RecentBar, DurableBar, Recent
    <2>3. QED
      BY <1>13, <2>1, <2>2 DEF Policy!vars, Restart
  <1>14. CASE Tick
    <2>1. now' = now + 1 /\ now \in Nat
      BY <1>14 DEF Tick, TypeOK
    <2>2. UntilBar' = [ip \in IPs |-> IF UntilBar[ip] > now' THEN UntilBar[ip] ELSE 0]
      <3>1. UntilBar' = [ip \in IPs |-> IF pc = "down"
                                        THEN IF disk[ip] > now' THEN disk[ip] ELSE 0
                                        ELSE IF bans[ip] > now' THEN bans[ip] ELSE 0]
        BY <1>14 DEF Tick, UntilBar, Load, InForce, NoBan, memory, Disk, FileInv,
           FileNeverTorn
      <3>2. QED
        BY <2>1, <3>1, Seen DEF FileInv
    <2>3. RecentBar' = [k \in Kinds |-> [ip \in IPs |->
                           {f \in RecentBar[k][ip] : f[1] > now' - Window}]]
      <3>1. RecentBar' = [k \in Kinds |-> [ip \in IPs |->
                           {f \in failures[k][ip] : f[1] > now' - Window}]]
        BY <1>14 DEF Tick, RecentBar, Recent, memory
      <3>2. \A k \in Kinds, ip \in IPs :
               {f \in failures[k][ip] : f[1] > now' - Window}
                  = {f \in RecentBar[k][ip] : f[1] > now' - Window}
        BY <2>1, TimeAssumption DEF RecentBar, Recent, TypeOK
      <3>3. QED
        BY <3>1, <3>2
    <2>4. DurableBar' = {ip \in DurableBar : UntilBar[ip] > now'}
      <3>1. DurableBar' = {ip \in IPs : disk[ip] > now'}
        BY <1>14 DEF Tick, DurableBar, Disk, FileInv, FileNeverTorn
      <3>2. \A ip \in IPs : pc # "down" /\ disk[ip] > now => bans[ip] = disk[ip]
        BY DEF FileBansNoMore
      <3>3. QED
        BY <2>1, <3>1, <3>2, Seen DEF FileInv
    <2>5. Policy!Tick
      BY <2>1, <2>2, <2>3, <2>4 DEF Policy!Tick, Policy!Kinds, Kinds
    <2>6. QED
      BY <2>5 DEF Policy!Next
  <1>15. CASE ClockSlip
    <2>1. \A t \in 0..(now - 1) : ~ (now - t <= MaxSlip)
      BY DEF TypeOK
    <2>2. QED
      BY <1>15, <2>1 DEF ClockSlip
  <1>16. CASE UNCHANGED vars
    BY <1>16, Invisible DEF vars
  <1>17. QED
    BY <1>1, <1>2, <1>3, <1>4, <1>5, <1>6, <1>7, <1>8, <1>9, <1>10, <1>11, <1>12,
       <1>13, <1>14, <1>15, <1>16 DEF Next, Continue, Policy!Next, Policy!Kinds, Kinds

\* The persistent store keeps the promise of BanPolicy for any addresses, limits
\* and times: lazy deletion, cleanup, pruning, failing saves and restarts change
\* neither who is admitted nor how far a client is from its ban.
THEOREM Refinement ==
  ASSUME MaxSlip = 0
  PROVE  Spec => ImplementsPolicy
  <1>1. IInv /\ IInv' /\ [Next]_vars => [Policy!Next]_(Policy!vars)
    BY StepSimulates
  <1>2. QED
    BY <1>1, InitSimulates, Invariance, PTL DEF Spec, ImplementsPolicy, Policy!Spec
-----------------------------------------------------------------------------
(***************************************************************************)
(* A call ends.                                                            *)
(***************************************************************************)
Phase == [write |-> 1, replace |-> 2, append |-> 3, sweep |-> 3]

\* Nearer to the end of the call: it is over, has only its last save to do, has
\* an address less to treat, or its save is further.
Nearer ==
    \/ pc' \in {"idle", "down"}
    \/ call'.next = "idle" /\ call.next # "idle"
    \/ call'.next = call.next /\ call'.due \subseteq call.due /\ call'.due # call.due
    \/ call' = call /\ Phase[pc] < Phase[pc']

\* No step of a call goes back, whatever raises and however the clock is set
\* meanwhile: cleanup_expired and _record_failure take a step and a save for each
\* address they delete and one more of each, and then the event loop is free.
THEOREM CallsAdvance ==
  Spec => [][pc \notin {"idle", "down"} => UNCHANGED <<pc, call>> \/ Nearer]_vars
  <1> DEFINE Advances == pc \notin {"idle", "down"} => UNCHANGED <<pc, call>> \/ Nearer
  <1>1. ASSUME IInv, Next, pc \notin {"idle", "down"}
        PROVE  UNCHANGED <<pc, call>> \/ Nearer
    <2>1. pc \in {"append", "sweep"} => call.next = pc
      BY <1>1 DEF IInv, CallInv
    <2>2. call \in Calls /\ pc \in {"append", "sweep", "write", "replace"}
      BY <1>1 DEF IInv, TypeOK
    <2>3. ASSUME NEW before, SaveIfChanged(before), call.next # "idle" PROVE Nearer
      <3>1. CASE Return
        BY <3>1 DEF Return, Nearer
      <3>2. CASE Save(NoCall)
        BY <2>3, <3>2 DEF Save, NoCall, Nearer
      <3>3. QED
        BY <2>3, <3>1, <3>2 DEF SaveIfChanged
    <2>4. CASE AppendAfterBan \/ Prune
      <3>1. call.next # "idle" /\ SaveIfChanged(call.before)
        BY <2>1, <2>4 DEF AppendAfterBan, Prune
      <3>2. QED
        BY <2>3, <3>1
    <2>5. ASSUME NEW ip \in IPs, Sweep(ip) PROVE Nearer
      <3>1. /\ ip \in call.due /\ call.next = "sweep"
            /\ call'.next = "sweep" /\ call'.due = call.due \ {ip}
        BY <2>1, <2>5 DEF Sweep, Save
      <3>2. QED
        BY <3>1 DEF Nearer
    <2>6. CASE WriteTmp
      <3>1. pc = "write" /\ pc' = "replace" /\ call' = call
        BY <2>6 DEF WriteTmp
      <3>2. QED
        BY <3>1 DEF Nearer, Phase
    <2>7. CASE Replace
      <3>1. CASE call.next = "idle"
        BY <2>7, <3>1 DEF Replace, Nearer
      <3>2. CASE call.next # "idle"
        <4>1. pc = "replace" /\ pc' \in {"append", "sweep"} /\ call' = call
          BY <2>2, <2>7, <3>2 DEF Replace, Calls
        <4>2. QED
          BY <4>1 DEF Nearer, Phase
      <3>3. QED
        BY <3>1, <3>2
    <2>8. CASE SaveFails \/ Crash
      BY <2>8 DEF SaveFails, Return, Crash, Nearer
    <2>9. CASE Tick \/ ClockSlip
      BY <2>9 DEF Tick, ClockSlip
    <2>10. CASE \/ Cleanup \/ Restart
      BY <1>1, <2>10 DEF Cleanup, Restart
    <2>11. CASE \E ip \in IPs : IsBanned(ip) \/ RecordSuccess(ip)
      BY <1>1, <2>11 DEF IsBanned, RecordSuccess
    <2>12. CASE \E kind \in Kinds, ip \in IPs :
                   RecordFailure(kind, ip) \/ RecordFailureAfterBan(kind, ip)
      BY <1>1, <2>12 DEF RecordFailure, RecordFailureAfterBan
    <2>13. QED
      BY <1>1, <2>4, <2>5, <2>6, <2>7, <2>8, <2>9, <2>10, <2>11, <2>12 DEF Next, Continue
  <1>2. IInv /\ [Next]_vars => [Advances]_vars
    BY <1>1
  <1>3. QED
    BY <1>2, Invariance, PTL DEF Spec
=============================================================================
