# PX Manager: TLA+ models, model checking and proofs

PX Manager (`src/`) is a Tornado service that gives its users the configuration of a
fleet of HTTPS, SOCKS5 and MTProto proxies, checks the health of those proxies from the
server, asks reputation services about their exit addresses and measures their speed. It
is one process with one asyncio event loop; its state is in memory but for a few files.
That loop makes each stretch of code between two `await`s atomic. What is hard is
everything that happens *at* the awaits, at the disk, at the clock and in the browser
at the other end of a connection.

## Inventory

| Component | State | Operations | What makes it correct |
|---|---|---|---|
| Ban list, `BanStore` and `PersistentBanStore` (main.py 210–456) | `_bans`, two failure lists per address, the state file and its `.tmp` | `is_banned`, `record_login_failure`, `record_auth_failure`, `record_success`, `delete`, `cleanup_expired`, `_load`, `_save` | the limit bans and nothing below it does; a ban lasts its time whatever happens; file and memory agree; a crash tears nothing |
| Sessions, login and authenticated requests (main.py 150–207, 510–942) | `SessionStore._sessions`, the browsers' cookies | login, logout, `get_session`, the `prepare` of pages, admin pages and API, periodic cleanup | let in exactly those logged in; admin pages for the administrator; only strangers' API requests count as failures; passwords leave memory |
| Reputation cache, `cached_check` (reputation.py 18–78) | `CACHE` (LRU), `PENDING` (task per key) | hit, join, start, end of a load, done callback, cancellation | one load per key; no stale or failed answer; bounded, LRU; every caller answered |
| Reputation providers, address lookup (reputation.py 25–50, 81–234; main.py `LookupHandler`) | none | HTTP requests, reading of answers | an answer is never a false negative |
| Speed test (main.py `HealthSpeedHandler`, proxy_speed.py, health.js) | `settings["speed_test_running"]`, the handler's task, the dialog's `active`, `host` and values | start, stop, close, leave; arrive, publish, fail, cancel | one measurement per process; the flag tells the truth; nothing runs that cannot be stopped; values shown for their own host |
| MASQUE and HTTP/3 clients (proxy_speed.py 45–310) | outer and inner QUIC connection, `accepted`, `inner`, `response` | connection events, tunnel, requests, timeouts | both connections closed whatever happens; the end of either is noticed; a refused answer is no success |
| Health checks (main.py 948–1300, 1576–1800) | `HEALTH_RESULT_CACHE` | ping, connect, DNS, head, protocol, reputation | a result shown belongs to the exit it is shown for, and is recent |
| DNS cache (main.py 2097–2172) | `DNS_RESULT_CACHE` (LRU) | resolve | addresses found stay their time, one entry per name, bounded |
| Proxy transport (proxy_transport.py) | a connection, a tunnel over HTTP/1.1, HTTP/2 or HTTP/3 and its unread data | open, fall back, send, receive, close | falls back on a timeout only; closed whatever happens; bytes in order |
| Telegram proxy checks (mtg_health.py, main.py 1823–2055, Telethon) | the attempt's connection and stage | connect, shake hands, exchange, close, try the next data centre | every connection closed; the verdict justified; a silent proxy ends it |
| Configuration downloads (main.py) | none; reads the data files | text, JSON, subscriptions | formats accepted by clients |
| Administrator's message and proxy list (main.py 770–820, 2631–2710, 2813–2818) | two text files, `MESSAGE_HTML_CACHE` | save, parse, render | a refused form changes neither file, a whole one both |
| Logs, error pages, templates | rotating log files | | formatting |
| Deployment (ansible/, tools/) | | | outside the running program |

Interactions: every handler looks the session up in `SessionStore`; an API request
without one goes to the ban list (`record_auth_failure`), the login form asks the ban
list before it looks at the password and tells it the outcome. A reputation request goes
through the health checks (to learn the exit address) to `cached_check`, which shares
loads among requests. The speed test's handler runs the measurement in its own task,
which Tornado's `on_connection_close` cancels when the browser is gone; the page and the
handler share nothing but the streamed lines and that closing. An HTTP/3 measurement is
`MasqueClient`, one over HTTP/1.1 or HTTP/2 is httpx; `proxy_tunnel` is used by the
checks of the HTTPS proxies. Every health check first looks its host up in the list that
the administrator's file and hosts.json make up. Two periodic callbacks sweep the ban
list and the sessions.

The behaviours that are hard to test are listed, each with its line and with the
properties that cover it, under `hazards` in PROJECT.json: saves that fail or are cut
short by a crash, cookies and requests that outlive sessions, shared loads whose callers
are cancelled, a connection that closes at any await of a measurement, lines of an
aborted request read under a reopened dialog, the end of a tunnel at the moment nobody
listens, lookups of one name that overlap.

## Modules

| Module | Models | Extended by |
|---|---|---|
| `BanPolicy` | what the ban list promises, with no store | instance in `BanStore` (as the abstract specification) and in `AccessControl` (as the ban list) |
| `BanStore` | `BanStore` and `PersistentBanStore` | `MCBanStore`, `BanStoreProofs` |
| `AccessControl` | sessions, login, logout and requests, composed with `BanPolicy` | `MCAccessControl`, `AccessControlProofs` |
| `ReputationCache` | `cached_check` | `MCReputationCache`, `ReputationCacheProofs` |
| `SpeedTest` | dialog, handler and measurement | `MCSpeedTest`, `SpeedTestProofs` |
| `ExitIdentity` | a proxy's exit: its checks, their cache, the reputation dialog | `MCExitIdentity`, `ExitIdentityProofs` |
| `ProxyTunnel` | one connection of a health check to a proxy | `MCProxyTunnel`, `ProxyTunnelProofs` |
| `MasqueClient` | the two QUIC connections of an HTTP/3 measurement | `MCMasqueClient`, `MasqueClientProofs` |
| `ProxyList` | the administrator's two files | instance in `HealthChecks` |
| `HealthChecks` | ping, connection and DNS with their caches, composed with `ProxyList` | `MCHealthChecks`, `HealthChecksProofs` |
| `TelegramProbe` | the request check of a Telegram proxy | `MCTelegramProbe`, `HealthChecksProofs` |

### BanStore and BanPolicy

The methods are synchronous, so two calls never interleave; but a save that raises
unwinds a call in the middle and keeps what memory already holds, and a crash can come
at any access to the disk. `pc` says where the running call is and `call` what it still
has to do; `WriteTmp`, `Replace`, `SaveFails` and `Crash` are steps of their own. The
read of the banned addresses before a call and the comparison after it
(`set(self._bans) != banned_ips_before`, which decides whether to save) are modelled as
they are (`call.before`, `SaveIfChanged`). `RecordFailureAfterBan` and `AppendAfterBan`
are the path of `_record_failure` through `is_banned`, whose lazy deletion saves in the
middle of it. A failure list is a multiset of times: `<<t, k>>` is the k-th failure at
time t. The clock is the wall clock; `ClockSlip` sets it back by at most `MaxSlip`.

`BanPolicy` is what a client sees: an address is barred until a time, failures vanish
when they leave the window, a crash frees whoever was not yet durable. `BanStore`
implements it under the mapping at the end of the module when the clock only goes
forward; lazy deletion, sweeps and pruning are invisible.

### AccessControl

A request takes with it the cookie its browser had when it was sent (`Send`) and arrives
later, so a logout in another tab, the end of the session's time, another login or a
restart come in between. The handlers read the session before their first `await`: an
arrival is one step. `granted` is a history variable, written at login, logout and
restart only; it is what the properties compare the store with. A login is one step (the
handler awaits nothing between the ban status, the password check, which is synchronous,
and the session). Responses reach the browser at once. An exception raised by the ban
list's save (the client then gets 500 in place of 401) is in `BanStore`, not here. Not
modelled: hashing, XSRF, CORS, the retpath, the user agent kept with a ban.

### ReputationCache

`Hit`, `Join`, `JoinFinished` and `Start` are the four ways through `cached_check` up
to its first await; `LoadOk` and `LoadError` the two ends of `load`; `Callback` the done
callbacks in the order they were added: `PENDING.pop`, then the waking of the callers.
Between the end of a task and its callback other callers may come. `Cancel` is the end of
a caller whose connection closed, with the load shielded. A key stands for provider,
address and API key. `loaded` and `used` are history variables for the age of an answer
and for the order of use.

### SpeedTest

Both ends: `Open`, `Submit`, `Stop`, `CloseDialog`, `Leave` are the user; `ReadLine`,
`Rejected`, `ReadEnd` the submit handler's loop; `Arrive` to `CancelReport` the handler.
The page aborts a request at once and the server learns of it later, in the measurement,
while its connections close, or in the error report. The error line may follow the last
stage, when the connections fail to close: the page then reports a failure (`failed`).
`about` is what a request carries; it is forgotten when both ends are through, and the
request's name is used again.

### ExitIdentity

The page checks each of its rows once (`SendCheck`), the row then takes the exit found,
and its button opens the dialog for that address (`OpenReputation`). On the server a
request is answered from `HEALTH_RESULT_CACHE` (`identity`) or by
`run_https_proxy_request_check`, whose requests through the proxy are steps of their own:
`Echo` learns the exit, `Country` asks on when the country of that exit is not cached.
`Identified` is what the three callers do with the result: the page's check caches it,
failures included; the reputation handler compares it with the address asked for and
goes to the cache of reports; the load of Yandex's report asks Yandex (`Classify`) if the
exit is still the address it is for. A report (`Filed`) carries the address it is filed
under, the one it is about, and whether the exit moved between the verification and the
classification; the page keeps the report it was sent (`results`), not the address it
asked for. So `ResultsForNamedAddress` says both that the report belongs to the dialog and
that it is about the address the dialog names, with the one exception of Findings. `Rotate` changes an exit at any time. `Reload` loses
the page's state while the handlers go on. An entry expires at any time, because no
property depends on how long it lives. Not modelled: services that are asked about an
explicit address, the cache of countries (whether it has an entry is a choice), several
users, a restart. That a cache load is shared is taken from `ReputationCache`: a check
named by the address is the task `PENDING` holds.

### ProxyTunnel

`proxy_tunnel` as its one task sees it: `step` names the await the task is in, from the
handshake (`quic`, `open`; `tcp`, `head`) through the use of the tunnel to the end
(`drain` for a QUIC connection, `closing` for a TCP one). `QuicTimeout` is the timer of
3 s over the opening, `Cancel` the one of 10 s that health checks set around the call
(main.py 1116, 1694). `TcpTunnel.frames` reads the HTTP/2 connection from within
a send that waits for the proxy's window as well as from within a receive
(`AwaitWindow`, `AwaitData`); events of a QUIC stream and bytes of an HTTP/1.1
connection are handled while the task is elsewhere (`QuicHeaders`, `Data`, `End`, `Lost`).
Data are numbered chunks. The proxy sends data only after the client has, because the
tunnel carries a TLS client; `Outage` takes the proxy out of reach at any moment. How the
event loop's StreamReader, h2 and aioquic keep their own state is not modelled, nor that
aioquic releases its UDP socket at the end of the wait for draining.

### MasqueClient

One task runs `run_speed_test`: it opens the connection to the proxy (`Dial`,
`Dialled`), asks for the tunnel (`AskTunnel`), attaches the inner client (`Attach`),
waits for its handshake (`Ready`), publishes and requests by turns (`Request`, `Queue`,
`Answered`) and closes both connections (`Leave`, `InnerClosed`, `Drained`). `step` is the
await it is in. Event handlers only resolve futures, so a task sees what it awaited later
than it happened, and other events come between. `Leave` is every way out: an exception,
the end of a context, or a cancellation by one of three timers and the user
(`Interrupt`, each at most once: `spent`), which may also hit the closing.
`missed` is a history variable. It records the four cases in which the end of a
connection reaches nobody, because the code keeps nothing of it: the CONNECT stream ends
before its answer (`unanswered`); the proxy is lost, or ends the stream, between the answer
and the task's resumption, when `proxy.inner` is still None (`unattached`); the stream is
ended by HEADERS without a status of at least 200, trailers for instance, which
`quic_event_received` skips before it looks at `stream_ended` (`skipped`, at any moment);
the inner connection ends between two requests, when `response` is None (`between`). In
each the task waits for what can no longer come until a timer ends it. `EndNoticed` says
which of them can be behind each wait, that there is no fifth, and that the loss of the
whole proxy never passes by an attached inner connection. aioquic and httpx are external: the
inner handshake completes, and packets arrive, only while the outer connection carries
them (`Reachable`); a connection that is closed or silent is terminated at any time. An
answer that comes after the last block was queued counts as the success of the upload,
though blocks may still wait in aioquic: so the code says (proxy_speed.py 149, 158).
Bytes, and the arithmetic of the results, are left out; `received` counts chunks
against `limit`.

### HealthChecks and ProxyList

`Check` and `Store` are the two halves of a ping, connection or protocol check around its
await, `DnsMiss` and `Resolved` those of a lookup, whose two record types fail
independently; `DnsHit` is a lookup answered at once. Nothing is shared: two checks of
one host run beside each other, and the one that began first may end last. A name is a
domain with its resolver, which is the key of `DNS_RESULT_CACHE`; the address lookup page
resolves any domain, so a name need not be listed. `asked` is history. `ProxyList` is
the form: `Post` opens, and so empties, the message; `MessageWritten` completes it and opens
the list; `ListWritten` completes that and the form is answered. `CutShort` is the write
that raises or the death of the process in between: it leaves a torn message or the new one
with the old list, or the new message with some lines of the new list, or a text that does
not parse. Such a text makes `get_health_hosts_data` raise in every check (`Listed`).
`FilesAsAccepted` says what remains true through any sequence of saves, of which some are
cut short. The two writes have no await between them, so no other request goes on until a
save is over (`Next`); a restart may come in the middle.

### TelegramProbe

One task, and attempts one after another: five data centres with Fake TLS, each of them
with three transports otherwise, one attempt with SOCKS5. `stage` is
`MTGConnection.stage`, which decides whether another data centre is tried. `Fails` is an
error, something malformed, the end of the connection or a timeout, in any await;
`Cancel` a cancellation. For MTProxy without Fake TLS the connection is Telethon's:
`connect()` opens it, sends a header and waits whether the proxy closes (`Opened`,
`Connected`: one await of 7 s in main.py 1886). Telethon is not under src/; as PX Manager
uses it, its `disconnect()` in the finally clause does nothing before `connect()` has
returned. An attempt that is given up in between leaves its connection to the garbage
collector (`abandoned`), and `ClosedUnlessConnecting` says that nothing else does. An
attempt's number stands for its nonce. What Telethon and the
proxy do is not modelled: an answer carries any nonce that was sent. The check is one of
the health checks and shares no state with the others; its definitions carry `Probe` in
their names where `HealthChecks` has one of the same name, because `HealthChecksProofs`
extends both modules.

## Runs

| Run | Instance | Shows |
|---|---|---|
| `ban_store` | 2 addresses, limits of 2, window 1, ban 1, clock to 2 and set back by 1 any number of times, under fairness, no symmetry | `CountersRight`: no failures on record while banned, no list as long as its limit; `FileRight`: the file is whole and holds the bans of memory; `OutdatedGoes`: outdated entries go, unless saves fail for ever |
| `ban_policy` | the same with limits 2 and 3, a ban of 2, clock to 3, never set back | `CountersRight` where one list reaches its limit before the other; bans stand, a restart bans nobody else, the policy is implemented |
| `access` | 2 browsers, 2 users, 2 sessions, 2 requests, session time 2, clock to 2 | who is let in, who counts |
| `reputation_cache` | 2 callers, 3 keys, 2 tasks, cache of 2, time to live 2, no symmetry | `LoadsShared`, `CacheRight` (freshness and bound), order of eviction, every caller is answered |
| `speed_test` | 2 tabs, 2 hosts, 2 requests, 2 stages | `FlagRight`: one measurement, and a flag that says whether there is one; the dialogs |
| `speed_test_live` | 2 tabs, 1 host, 1 stage, no symmetry | a measurement and its dialog end |
| `exit_identity` | 2 proxies, 2 exits, 2 requests | the report the dialog shows belongs to the address it names; a report filed under another address than it is about needs an exit that changed after its own verification |
| `exit_verdict` | the same | **violated**: see Findings |
| `proxy_tunnel` | a buffer of 2 chunks, reads of 1, a window of 1, 3 chunks sent and 4 received | connections closed, fallback on a timeout only, bytes kept in order, every call ends |
| `masque_client` | 3 requests, an upload of 4 blocks, answers of up to 2 chunks | both connections closed, ends noticed but in four cases, answers checked, every test ends |
| `health_checks` | 2 hosts, 2 names, 2 checks at once, a DNS cache of 1, times to live 1 and 2, clock to 3 | cached answers recent, found addresses stay, the cache sound, the files as last accepted but for what a cut-short save spoilt |
| `telegram_probe` | the program's 5 data centres and 3 transports, an answer in 2 pieces | connections closed but those Telethon is still opening, the verdict justified, every check ends |

Why these bounds are enough. Addresses are independent but for the sweep and the file,
which treat all at once: two are the first instance where one address changes while the
other must not. The limits 2 and 3 of `ban_policy` differ, so that a list can be below one limit and at
the other; window and ban both end within the clock's range. In `ban_store` a clock that may
be set back makes bans and lets them expire without end: so a cleanup whose save fails may
have a ban to delete every time, which a clock that only goes forward to its bound would
hide. Two browsers and two
sessions let one end while the other lives; two requests let one end a session that the
other carries. One more key than the cache holds gives evictions; two callers give a joiner
and a canceller; two tasks are a running load beside one whose callback is pending, or the
load of a caller that went beside a new one; a third would be of a third key, and loads
of different keys meet in the cache only. Two stages tell a
measurement that ends from one cut short. Two exits and two proxies let one proxy change to
an exit the other has been asked about; two requests let a check run beside a
reputation request, or the requests of two dialogs cross. A window of one chunk runs
out within one send of three; a buffer of two overflows while a send reads four. Three
requests of a measurement have a first, a middle and the last one, which uploads; four
blocks let an answer come before the first, between two and after the last. Two checks
are the fewest that overlap, and two names the fewest that a cache of one evicts.
A second message and one host
that is not configured tell an old file, a new one and one cut short apart, and saves
follow one another without bound. `MaxTime` only stops the clock: what remains possible is checked at the last instant too.
Symmetry is used for safety only.

Fairness. The event loop runs what is ready, so a call of the ban list that has begun
goes on (`WF(Continue)`), a done callback runs, a promise is settled (`WF` of
`Callback`, `Script`). The periodic cleanup is enabled whenever no call runs and comes
back every minute however many requests arrive: `SF(Cleanup)` for the ban list, whose
calls disable it again and again. `OutdatedGoes` has a premise besides: saves do not fail
for ever. `cleanup_expired` saves once per expired ban and then prunes; a save that raises
ends it there. With a disk that stays full and a ban that expires before every cleanup the
failures are never pruned; TLC finds that behaviour when the premise is left out. The service manager restarts the process
(`WF(Restart)`). A load ends because every request to a provider has a timeout; a step
of a measurement ends because its awaits have timeouts of 120 and 300 s and a QUIC close
one of 3 s. In `ProxyTunnel`, `WF(Cancel)` is the timer of 10 s, `WF(Drained)` aioquic's
closing period (three probe timeouts, no answer needed) and `WF(Closed)` the `wait_for`
of 1 s in `TcpTunnel.aclose`; nothing is assumed of the proxy. In `MasqueClient`,
`WF(Interrupt("total"))` is the timer of 300 s, `WF(InnerClosed)` the `wait_for` of 3 s
and `WF(Drained)` aioquic again; nothing is assumed of proxy, server and user, nor of the
timers of 15 and 120 s. In `TelegramProbe`, `WF(Fails)` is the time limit that every
await of an attempt has and `WF(Closed)` the 1 s of `disconnect`, or the close of a
socket with nothing left to send. `AccessControl`, `ExitIdentity` and `HealthChecks` have
no liveness property and no fairness. No fairness is assumed of users, of the clock, of
failures or of crashes.

## Proofs

TLAPS proves, for every value of the constants that their assumptions admit, every
invariant and action property of the passing runs, and the refinement:

- `BanStoreProofs` — `TypeCorrect`, `CountersCorrect` (`CountersRight`), `FileCorrect`
  (`FileRight`), `FileHarmless` and `BansStand`. The invariant `IInv` adds to the
  properties what a call in the middle relies on: what `call.before` says of the file, that
  a pending save was caused by a change, and where each address stands during a sweep. The
  counters rest on a lemma about the cardinality of a list with one failure appended.
  `Refinement`: `BanStore` implements `BanPolicy` when `MaxSlip = 0`. Each action maps to
  a policy action or a stutter; the invariant supplies that a failure list holds no time
  in the future.
- `AccessControlProofs` — `LetIn`, `AdminOnly`, `TypeCorrect`, from an invariant that ties
  every entry of the store to the login that made it (`StoreInv`): same user, same expiry,
  still valid. `StrangersOnly` (`OnlyStrangersCount`) goes through the policy's actions:
  those that record a failure are called for a stranger's request or a failed login, all
  others add nothing to `recent`, whose shape is `RecentInv`.
- `ReputationCacheProofs` — `OneLoadPerKey` (`LoadsShared`), `CacheSound` (`CacheRight`),
  `TypeCorrect`, from `TaskInv` (a task that is not over is the one `PENDING` names for its
  key: the reason the callback's blind pop is right) and `EntryInv` (an entry is as old as
  its load). `EvictsOldest` (`LeastRecentlyUsed`) from `UseInv`: the order of the cache is
  the order of use. It rests on lemmas about moving an entry to the end of an ordered
  sequence and about subsequences.
- `SpeedTestProofs` — `FlagCorrect`: at most one request is in the test and the flag says
  whether one is; `StopReaches`, `ShowsItsHost`, `ValuesStay`, `BusyReads`, `TypeCorrect`:
  the dialog. `DialogInv` ties a tab to its `active` request: the loop of that request
  still reads, the request is the tab's own, and it carries the host the dialog is open
  for. So no line that is shown can be of another host's test.
- `ExitIdentityProofs` — `DialogCorrect`, `ClassificationCorrect`, `TypeCorrect`. The
  invariant says of the request that `reputationRequest` stands for that it asks about the
  address the dialog names, of a load past its verification that the exit was the
  address it is for unless it has `moved` since, and of every report, cached or on its way,
  that it is about the address it is filed under or has moved.
- `ProxyTunnelProofs` — `ConnectionsClosed`, `FallbackCorrect`, `BytesCorrect`,
  `TypeCorrect`. `StepInv` ties the await the task is in to the connection it holds;
  `BytesInv` says that the buffer is the run of chunks from the last one read to the last
  one received, which rests on lemmas about appending to such a run and cutting its front
  off. The types come in parts that are invariant by themselves (`FlagTypes`, `CallTypes`,
  `SendTypes`); those of the chunks received are a consequence of `BytesInv`.
- `MasqueClientProofs` — `BothClosed`, `EndsHeard`, `AnswersChecked`, `TypeCorrect`.
  `SetupInv` says what the await the task is in implies of the connection to the proxy,
  the answer to CONNECT and the requests made; `InnerInv` that the inner connection exists
  behind an accepted CONNECT only, is open only while its tunnel is, and that a future is
  awaited only in a request. Without them an event that ends the tunnel could meet an open
  inner connection that nobody closes, or a future nobody awaits. That there is no fifth
  case in which an end goes unnoticed is `EndsHeard`.
- `HealthChecksProofs` — `AnswersAreRecent`, `DnsCacheCorrect`, `AddressesAreKept`
  (`AddressesStay`), `FilesAgree` (`FilesAsAccepted`), `TypeCorrect`. `SaveInv` says
  what the files hold while a save is under way, in either of its writes, after any
  history of saves that were cut short. `JobInv` bounds how
  long a running check has been asked for, `StampInv` says that an entry was stored no
  later than its check may last: together they bound the age of an answer however two
  checks of one host overlap. The DNS cache rests on lemmas about what leaving out a name,
  appending, and keeping the last `DnsMax` entries do to a sequence with one entry per
  name. Of the Telegram check `ProbeCloses` (`ClosedUnlessConnecting`), `ProbeJudges`
  (`VerdictJustified`) and `ProbeTypeCorrect`, from `ProbeInv`: until an
  attempt is left nothing has been heard and no verdict given, and a verdict says which
  attempt, at which stage, it came from.

Liveness under fairness, and ENABLED, are out of the prover's reach, so `OutdatedGoes`,
`EveryoneAnswered`, `CallEnds`, the two `TestEnds`, `DialogFreed` and `ProbeEnds` are
model-checked only. What each of them needs besides fairness is proved: no step goes back
or goes round, and a busy dialog has a handler that still reads (`BusyReads`).
`CallsAdvance` (a call of the ban list has an address less to treat or its
save is further), `CallAdvances` (a tunnel opens each kind of connection once),
`SpeedTestProofs` and `MasqueClientProofs` `TestAdvances` (a handler publishes
finitely many lines; a measurement retries nothing) and `ProbeAdvances` (a later attempt,
a later step or a piece more) each give an order in which every step stays or moves on;
`NobodyForgotten` says that whoever waits for a load waits for a task whose callback is
still to run. So each of these can only last for ever by an await that never ends, and
that is what the timers named under Fairness exclude; `OutdatedGoes` needs besides that a
cleanup comes round whose saves do not raise. `ClassifiedItsAddress` is violated.

## Findings

`exit_verdict`: main.py 1173 says "The endpoint classifies its caller, so verify the
current proxy exit", and the handler verifies it (1174) before it asks Yandex (1180). The
two are separate requests through the proxy: when the exit changes between them, Yandex
classifies the new exit and the answer is cached for a day as that of the address the
page shows. `ClassifiedItsAddress` is violated in nine states;
`ClassifiedUnlessRotated`, which holds, says that this is the only way.

## Not modelled

Provider requests and the reading of their answers, configuration downloads, the
bytes of the MTProxy messages, logs, error pages, templates and deployment: sequential code
over data, with no state that another step could see. A measurement over HTTP/1.1 or
HTTP/2 (`http_request`) keeps no state either; it is a step of `SpeedTest`. That expired
sessions, and the passwords in them, leave memory is modelled (`Cleanup`) but not
stated as a property: the sweep is one loop that cannot fail. PROJECT.json gives
the reason for each part.

## Plan

Done: `BanPolicy`, `BanStore`, `AccessControl`, `ReputationCache`, `SpeedTest`,
`ExitIdentity`, `ProxyTunnel`, `MasqueClient`, `ProxyList`, `HealthChecks`,
`TelegramProbe` and the theorems above: every safety property and action property of the
passing runs is proved. Next, in this order:

1. `ExitIdentity`: that each check, report and classification only goes forward, as the
   other components' calls do.
2. `ReputationCache`: the done callbacks of a task run once each, in the order they were
   added.
3. `MasqueClient` as what the stages of `SpeedTest` are, and `ProxyTunnel` as what the
   requests of `ExitIdentity` through a proxy are: each ends.
