------------------------------ MODULE BanStore ------------------------------
(***************************************************************************)
(* The ban list of PX Manager (BanStore and PersistentBanStore, main.py):  *)
(* failed logins and failed API authentications are counted per client     *)
(* address inside a sliding window, a count that reaches its limit bans    *)
(* the address for a fixed time, and every change of the set of banned     *)
(* addresses is saved to a JSON file that survives a restart.              *)
(*                                                                         *)
(* The methods are synchronous and run on one event loop, so two calls     *)
(* never interleave: `pc' says where the running call is.  A call can      *)
(* still be cut in the middle, by a save that raises (the exception        *)
(* unwinds the call and keeps what memory already holds) or by a crash, so *)
(* each access to the disk is a step of its own.                           *)
(***************************************************************************)
EXTENDS Integers, FiniteSets

CONSTANTS
    IPs,            \* client addresses
    LoginLimit,     \* LOGIN_FAILURE_LIMIT
    AuthLimit,      \* AUTH_FAILURE_LIMIT
    Window,         \* FAILURE_WINDOW_SECONDS
    BanTTL,         \* BAN_TTL_SECONDS
    Torn,           \* a file that _load cannot parse
    MaxTime,        \* bound: the clock stops here
    MaxSlip         \* bound: how far the wall clock may be set back at once

NoBan == 0
Contents == [IPs -> Nat]

ASSUME LimitAssumption == /\ LoginLimit \in Nat /\ LoginLimit >= 2
                          /\ AuthLimit \in Nat /\ AuthLimit >= 2
ASSUME TimeAssumption == /\ Window \in Nat \ {0}
                         /\ BanTTL \in Nat \ {0}
                         /\ MaxTime \in Nat
                         /\ MaxSlip \in Nat
ASSUME TornAssumption == Torn \notin Contents

VARIABLES
    bans,       \* _bans: expiry of each address's ban, NoBan for no entry
    failures,   \* _login_failures and _auth_failures: a multiset of times
                \* <<t, k>> = the k-th failure at time t
    disk,       \* the state file
    tmp,        \* its .tmp sibling, Torn also when there is none
    now,        \* time.time()
    pc,         \* where the running call is
    call,       \* what it still needs
    dirty,      \* history: the last save attempted did not succeed
    loadedAt    \* history: the clock when the process last read the file

vars == <<bans, failures, disk, tmp, now, pc, call, dirty, loadedAt>>
memory == <<bans, failures>>

Kinds == {"login", "auth"}
Limit(kind) == IF kind = "login" THEN LoginLimit ELSE AuthLimit

NoBans == [ip \in IPs |-> NoBan]
NoFailures == [kind \in Kinds |-> [ip \in IPs |-> {}]]
Banned(b) == {ip \in IPs : b[ip] # NoBan}

\* Where a call goes on after its save, the kind of failure it records, the
\* addresses it has still to treat, the time it read and the keys of _bans
\* when it began.
Calls == [next : {"idle", "append", "sweep"}, kind : Kinds,
          due : SUBSET IPs, at : Nat, before : SUBSET IPs]
NoCall == [next |-> "idle", kind |-> "login", due |-> {}, at |-> 0, before |-> {}]

TypeOK ==
    /\ bans \in Contents
    /\ failures \in [Kinds -> [IPs -> SUBSET (Nat \X Nat)]]
    /\ \A kind \in Kinds, ip \in IPs : IsFiniteSet(failures[kind][ip])
    /\ disk \in Contents \cup {Torn}
    /\ tmp \in Contents \cup {Torn}
    /\ now \in Nat
    /\ pc \in {"idle", "append", "sweep", "write", "replace", "down"}
    /\ call \in Calls
    /\ dirty \in BOOLEAN
    /\ loadedAt \in Nat

-----------------------------------------------------------------------------
(***************************************************************************)
(* What the methods do to memory.                                          *)
(***************************************************************************)
\* Mutant: any ban counts as expired.
ExpiredAtOnce(ip) == bans[ip] # NoBan

Expired(ip) == bans[ip] # NoBan /\ bans[ip] <= now

\* The failures a list comprehension `failure_time > t - window' keeps.
Recent(list, t) == {f \in list : f[1] > t - Window}

\* failures.append(now), as the next occurrence of this time.
Appended(list) ==
    list \cup {<<now, Cardinality({f \in list : f[1] = now}) + 1>>}

\* delete: the ban goes, and both failure lists of its address.
Delete(ip) ==
    /\ bans' = [bans EXCEPT ![ip] = NoBan]
    /\ failures' = [kind \in Kinds |-> [failures[kind] EXCEPT ![ip] = {}]]

\* Mutant: a ban clears the failures of its own kind only.
CountClearingOneKind(kind, ip) ==
    LET counted == Appended(Recent(failures[kind][ip], now))
    IN  IF Cardinality(counted) >= Limit(kind)
        THEN /\ bans' = [bans EXCEPT ![ip] = now + BanTTL]
             /\ failures' = [failures EXCEPT ![kind][ip] = {}]
        ELSE /\ failures' = [failures EXCEPT ![kind][ip] = counted]
             /\ UNCHANGED bans

\* _record_failure behind its is_banned test: count, and ban at the limit.
Count(kind, ip) ==
    LET counted == Appended(Recent(failures[kind][ip], now))
    IN  IF Cardinality(counted) >= Limit(kind)
        THEN /\ bans' = [bans EXCEPT ![ip] = now + BanTTL]
             /\ failures' = [k \in Kinds |-> [failures[k] EXCEPT ![ip] = {}]]
        ELSE /\ failures' = [failures EXCEPT ![kind][ip] = counted]
             /\ UNCHANGED bans

\* Mutant: the bans start anew when they are loaded.
LoadProlonged(file) ==
    IF file = Torn THEN NoBans
    ELSE [ip \in IPs |-> IF file[ip] > now THEN now + BanTTL ELSE NoBan]

Load(file) ==
    IF file = Torn THEN NoBans
    ELSE [ip \in IPs |-> IF file[ip] > now THEN file[ip] ELSE NoBan]

Init ==
    /\ bans = NoBans /\ failures = NoFailures
    /\ disk = NoBans /\ tmp = Torn
    /\ now = 0
    /\ pc = "idle" /\ call = NoCall
    /\ dirty = FALSE /\ loadedAt = 0
-----------------------------------------------------------------------------
(***************************************************************************)
(* The calls.  One that finds nothing to do (is_banned of an address with  *)
(* a ban in force or with none, a failure of a banned address) changes     *)
(* nothing and has no action.                                              *)
(***************************************************************************)
Return == pc' = "idle" /\ call' = NoCall

\* _save, after which the call goes on as `rest' says.
Save(rest) == pc' = "write" /\ call' = rest

\* The tail of the persistent methods: save only if the keys have changed.
SaveIfChanged(before) ==
    IF Banned(bans') # before THEN Save(NoCall) ELSE Return

Disk == <<disk, tmp, dirty, loadedAt>>

\* is_banned meets an expired ban and deletes it.
IsBanned(ip) ==
    /\ pc = "idle" /\ Expired(ip)
    /\ Delete(ip) /\ Save(NoCall)
    /\ UNCHANGED <<Disk, now>>

\* record_login_failure, record_auth_failure.
RecordFailure(kind, ip) ==
    /\ pc = "idle" /\ bans[ip] = NoBan
    /\ Count(kind, ip) /\ SaveIfChanged(Banned(bans))
    /\ UNCHANGED <<Disk, now>>

\* The same when is_banned deletes, and saves, first.
RecordFailureAfterBan(kind, ip) ==
    /\ pc = "idle" /\ Expired(ip)
    /\ Delete(ip)
    /\ Save([next |-> "append", kind |-> kind, due |-> {ip}, at |-> 0,
             before |-> Banned(bans)])
    /\ UNCHANGED <<Disk, now>>

AppendAfterBan ==
    /\ pc = "append"
    /\ \E ip \in call.due : Count(call.kind, ip)
    /\ SaveIfChanged(call.before)
    /\ UNCHANGED <<Disk, now>>

\* Mutant: a successful login forgets the failures of both kinds.
RecordSuccessOfBoth(ip) ==
    /\ pc = "idle"
    /\ failures' = [kind \in Kinds |-> [failures[kind] EXCEPT ![ip] = {}]]
    /\ UNCHANGED <<bans, Disk, now, pc, call>>

RecordSuccess(ip) ==
    /\ pc = "idle"
    /\ failures' = [failures EXCEPT !["login"][ip] = {}]
    /\ UNCHANGED <<bans, Disk, now, pc, call>>

\* cleanup_expired, from the periodic callback or from active_bans.
Cleanup ==
    /\ pc = "idle"
    /\ pc' = "sweep"
    /\ call' = [next |-> "sweep", kind |-> "login", due |-> {ip \in IPs : Expired(ip)},
                at |-> now, before |-> Banned(bans)]
    /\ UNCHANGED <<memory, Disk, now>>

Sweep(ip) ==
    /\ pc = "sweep" /\ ip \in call.due
    /\ Delete(ip)
    /\ Save([next |-> "sweep", kind |-> call.kind, due |-> call.due \ {ip},
             at |-> call.at, before |-> call.before])
    /\ UNCHANGED <<Disk, now>>

\* Mutant: only the failed logins are pruned.
PruneLogins ==
    /\ pc = "sweep" /\ call.due = {}
    /\ failures' = [failures EXCEPT !["login"] =
                       [ip \in IPs |-> Recent(failures["login"][ip], call.at)]]
    /\ bans' = bans
    /\ SaveIfChanged(call.before)
    /\ UNCHANGED <<Disk, now>>

Prune ==
    /\ pc = "sweep" /\ call.due = {}
    /\ failures' = [kind \in Kinds |-> [ip \in IPs |->
                       Recent(failures[kind][ip], call.at)]]
    /\ bans' = bans
    /\ SaveIfChanged(call.before)
    /\ UNCHANGED <<Disk, now>>
-----------------------------------------------------------------------------
(***************************************************************************)
(* The disk, the process and the clock.                                    *)
(***************************************************************************)
WriteTmp ==
    /\ pc = "write"
    /\ tmp' = bans /\ pc' = "replace"
    /\ UNCHANGED <<memory, disk, now, call, dirty, loadedAt>>

Replace ==
    /\ pc = "replace"
    /\ disk' = tmp /\ tmp' = Torn
    /\ dirty' = FALSE
    /\ pc' = call.next
    /\ call' = IF call.next = "idle" THEN NoCall ELSE call
    /\ UNCHANGED <<memory, now, loadedAt>>

\* write_text or replace raises: the exception ends the request or the callback.
SaveFails ==
    /\ pc \in {"write", "replace"}
    /\ tmp' = IF pc = "write" THEN Torn ELSE tmp
    /\ dirty' = TRUE
    /\ Return
    /\ UNCHANGED <<memory, disk, now, loadedAt>>

\* Mutant: write_text goes to the state file itself.
CrashInPlace ==
    /\ pc # "down"
    /\ bans' = NoBans /\ failures' = NoFailures
    /\ disk' = IF pc = "write" THEN Torn ELSE disk
    /\ pc' = "down" /\ call' = NoCall
    /\ dirty' = FALSE
    /\ UNCHANGED <<tmp, now, loadedAt>>

\* The process dies, perhaps in the middle of write_text.
Crash ==
    /\ pc # "down"
    /\ bans' = NoBans /\ failures' = NoFailures
    /\ tmp' = IF pc = "write" THEN Torn ELSE tmp
    /\ pc' = "down" /\ call' = NoCall
    /\ dirty' = FALSE
    /\ UNCHANGED <<disk, now, loadedAt>>

\* A new process builds its store from the file; nothing it loads has expired.
Restart ==
    /\ pc = "down"
    /\ bans' = Load(disk)
    /\ loadedAt' = now
    /\ pc' = "idle"
    /\ UNCHANGED <<failures, disk, tmp, now, call, dirty>>

Tick ==
    /\ now < MaxTime
    /\ now' = now + 1
    /\ UNCHANGED <<memory, Disk, pc, call>>

\* time.time() is the wall clock: it may be set back.
ClockSlip ==
    /\ \E t \in 0..(now - 1) : now - t <= MaxSlip /\ now' = t
    /\ UNCHANGED <<memory, Disk, pc, call>>

\* A call that has begun goes on.
Continue == AppendAfterBan \/ (\E ip \in IPs : Sweep(ip)) \/ Prune
            \/ WriteTmp \/ Replace \/ SaveFails

Next ==
    \/ \E ip \in IPs : IsBanned(ip) \/ RecordSuccess(ip)
    \/ \E kind \in Kinds, ip \in IPs :
          RecordFailure(kind, ip) \/ RecordFailureAfterBan(kind, ip)
    \/ Cleanup \/ Continue \/ Crash \/ Restart \/ Tick \/ ClockSlip

Spec == Init /\ [][Next]_vars

\* The event loop runs a call to its end and comes back to the periodic
\* callback however many requests arrive; the service manager restarts the
\* process.
FairSpec == Spec /\ WF_vars(Continue) /\ SF_vars(Cleanup) /\ WF_vars(Restart)
-----------------------------------------------------------------------------
(***************************************************************************)
(* Correctness.                                                            *)
(***************************************************************************)
\* A banned address has no failures on record: _record_failure and delete
\* empty both lists, so an address starts from nothing when its ban ends.
NoFailuresWhileBanned ==
    \A ip \in Banned(bans), kind \in Kinds : failures[kind][ip] = {}

\* A list that reaches its limit becomes a ban in the same call: no sequence
\* of calls, pruning and clock settings stores one as long as the limit.
BelowLimit ==
    \A ip \in IPs, kind \in Kinds : Cardinality(failures[kind][ip]) < Limit(kind)

\* Both hold of the counters together, whatever the wall clock is set to.
CountersRight == NoFailuresWhileBanned /\ BelowLimit

\* A crash in the middle of a save leaves the old file or the new one: _save
\* writes a sibling and renames it, so _load never meets half a file.
FileNeverTorn == disk # Torn

\* Between calls the file holds exactly the bans of memory, but for entries
\* that were out of date when the process read them, unless the last save
\* raised: comparing the keys of _bans before and after misses no change.
FileMatchesMemory ==
    (pc \in {"idle", "append", "sweep"} /\ ~dirty) =>
        \A ip \in IPs : \/ disk[ip] = bans[ip]
                        \/ bans[ip] = NoBan /\ disk[ip] <= loadedAt

\* The file is whole, and right between calls, whatever fails or crashes.
FileRight == FileNeverTorn /\ FileMatchesMemory

\* A restart never bans an address the running process would admit, whatever
\* saves failed: while the clock only goes forward, a ban in force in the
\* file is the one in memory.
FileBansNoMore ==
    (MaxSlip = 0 /\ pc # "down") =>
        \A ip \in IPs : disk[ip] > now => bans[ip] = disk[ip]

\* While the process runs, a ban in force is neither lifted, shortened nor
\* prolonged, by a success, by more failures or by a cleanup under way.
BanStands ==
    [][(MaxSlip = 0 /\ pc' # "down") =>
          \A ip \in IPs : bans[ip] > now => bans'[ip] = bans[ip]]_vars

\* Memory does not grow with the addresses once seen: an expired ban or a
\* failure out of the window is eventually dropped by the periodic cleanup,
\* even of an address that never comes back, provided that saves do not raise
\* for ever.  One that raises ends cleanup_expired before the failures are
\* pruned: with a ban to delete in every cleanup and a disk that stays full,
\* they are never pruned.
Outdated(ip) ==
    \/ Expired(ip)
    \/ \E kind \in Kinds : failures[kind][ip] # Recent(failures[kind][ip], now)
OutdatedGoes ==
    (<>[][~SaveFails]_vars) => \A ip \in IPs : Outdated(ip) ~> ~Outdated(ip)
-----------------------------------------------------------------------------
(***************************************************************************)
(* The store implements the policy when the clock only goes forward.       *)
(* Deleting lazily, sweeping and pruning are invisible; a process that is  *)
(* down stands for the bans the next one will load.                        *)
(***************************************************************************)
InForce(file) == [ip \in IPs |-> IF file[ip] > now THEN file[ip] ELSE NoBan]
UntilBar == IF pc = "down" THEN Load(disk) ELSE InForce(bans)
RecentBar == [kind \in Kinds |-> [ip \in IPs |-> Recent(failures[kind][ip], now)]]
DurableBar == {ip \in IPs : disk # Torn /\ disk[ip] > now}

Policy == INSTANCE BanPolicy
          WITH until <- UntilBar, recent <- RecentBar, durable <- DurableBar

\* An address is admitted exactly when the policy admits it: LIMIT failures of
\* one kind inside a window bar it for BanTTL, and once a save has succeeded
\* neither a crash nor a later failing save frees it.
ImplementsPolicy == Policy!Spec
=============================================================================
