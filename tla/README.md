# VerificationStation in TLA+

VerificationStation is one Node.js process (Fastify) that verifies e-mail
addresses: syntax, lists, DNS/MX, and a real SMTP `RCPT TO` against the mail
host of the domain.  This directory holds TLA+ models of it, the TLC runs that
check them, and theorems about them proved with TLAPS.

Everything runs on one event loop: a function runs to its next `await` without
interruption, and other requests run at every `await`.  The models follow that
rule: an action is one run of the event loop between two awaits.

Paths are relative to the repository (`src/services/x.ts` is the repository's
own `src/` directory).

## 1. Inventory

| component | state | operations | interacts with | what is hard | what makes it correct |
|---|---|---|---|---|---|
| Verification pipeline (`verification.service.ts`) | none of its own; caches | `verifyOne`, `safeVerify` | every service below | reads before an await, uses after it | one result per request; no probe past a closed gate |
| Cache layers (`cache.service.ts`, `repositories/*-cache`) | ten maps with TTLs, in memory or SQLite | get, set, clear | pipeline, MX, catch-all, SMTP | entries that outlive what they say; different expiry per backend | a recovery is seen; soft failures are not kept as hard ones |
| Provider cooldown (`provider-cooldown.service.ts`, `cooldown-persist.repository.ts`) | per provider: until, blockCount, lastSmtpAt, three windows; a table | record replies, failures and uses; query; reset; load at start | pipeline, SMTP, admin route | restarts, failing writes, concurrent late outcomes | escalation survives, no block is cut short or unbounded |
| Per-provider concurrency (`provider-smtp-concurrency.service.ts`) | a p-limit queue per provider | run one probe | SMTP | slots lost on failures | FIFO, bounded, nobody starves |
| RCPT probe (`smtp.service.ts: probeRcpt`) | host, attempt, hops of one probe | sessions over the MX list | cooldown, health cache | retry, hop and early-return rules | answers returned at once, every host tried, recorded once |
| SMTP session (`runSmtpSession`, `LineReader`) | socket, timers, line queue | banner, EHLO/HELO, MAIL, RCPT, QUIT | mail host, process safety | chunks, close, reset, timers | replies belong to their commands; connection released |
| MX lookup (`mx.service.ts`), failure tracker (`mx-failure-tracker.service.ts`), catch-all (`catchall.service.ts`) | DNS cache, failure window per domain, catch-all cache | lookup, address check, count, clear | pipeline, caches | transient and permanent failures, retries | a transient failure is never a verdict |
| Async jobs (`async-verify-jobs.service.ts`) | a Map, a queue, a flag | enqueue, pump, poll, webhook | pipeline | lost wakeups, eviction, restarts | bounded, one at a time, FIFO, answered, told at most once |
| Batch (`batch-verify.service.ts`, `concurrency.service.ts`) | three nested limiters | `runBatchVerify` | pipeline | nesting, partial failure | one result per row, no deadlock |
| Idempotency, replay window (`idempotency.service.ts`, `hmac-replay.service.ts`, middleware) | LRU or Redis | look up, store | routes | overlapping requests, Redis failing between two calls | a stored answer is the answer of that request |
| Disposable list (`disposable.service.ts`, `jobs/`) | a set, a file, a cron task | load, reload, merge sources | pipeline | a reload while others read, a source that fails | a listed domain stays listed |
| Role, syntax, classifier, risk, scoring, explain | tables | pure functions | pipeline | mapping of many codes | documented meaning of each code |
| Rate limiter (`rate-limit.middleware.ts`) | counts of a library, in memory or Redis | one look per request | Redis | a Redis that does not answer | a request is let through or refused |
| Metrics, server, shutdown, process safety, routes, configuration | counters; one flag | start, stop, exit | all | what a stop cuts off | graceful stop |

`PROJECT.json` lists the same components with their status, and under `hazards`
each behaviour that a test would hardly reach, with the property that covers it
or the reason why none does.

## 2. Modules

| module | models | runs |
|---|---|---|
| `ProviderCooldown` | the cooldown of the big providers and its table | `cooldown`, `cooldown_faults` through `MCProviderCooldown` |
| `CooledProbes` (extends `ProviderCooldown`) | concurrent verifications of throttled providers: gate, spacing, p-limit queue, recording | `cooled_probes` through `MCCooledProbes` |
| `SmtpReply` | classification of replies and failures and their mapping to verification codes, as operators | through `MxPath` |
| `SmtpProbe` (extends `SmtpReply`) | one probe over the MX hosts | through `MxPath` |
| `Scoring` | the score of a code, as operators | through `MxPath` |
| `MxPath` (extends `SmtpProbe`, `Scoring`) | one verification from the MX query to its score | `mx_path`, `smtp_probe_timeouts` through `MCMxPath` |
| `SmtpSession` | one session, its line reader, and the host | `smtp_session`, `smtp_session_verdict`, `smtp_session_quit` |
| `DomainVerdicts` | overlapping verifications of one domain over the caches and the failure count | `verdicts` through `MCDomainVerdicts` |
| `JobStore` | what the async job API promises | abstract specification |
| `AsyncJobs` | the in-process queue that implements it | `async_jobs` |
| `BatchVerify` | the rows of a batch through three nested limiters | through `Requests` |
| `Requests` (extends `BatchVerify`) | the requests around it: idempotency, a Redis that fails or falls silent, shutdown, crashes | `requests` through `MCRequests` |
| `DisposableList` | the list file, its daily job, the CLI, and the set in memory | `disposable` through `MCDisposableList` |
| `ProviderCooldownProofs`, `CooledProbesProofs`, `DomainVerdictsProofs`, `MxPathProofs`, `SmtpSessionProofs`, `AsyncJobsProofs`, `RequestsProofs`, `DisposableListProofs` | theorems | TLAPS |

How they fit: `MxPath` looks into what `DomainVerdicts` takes as one answer of DNS or
SMTP; `SmtpSession` looks into what `SmtpProbe` takes as one session; `CooledProbes` adds
the gate in front of a probe; `BatchVerify` and `AsyncJobs` take a whole verification
as one step.

### ProviderCooldown

`cool[p]` and `stamps[p]` are the entry of `p` in `state`, `row[p]` its row in
`provider_cooldown`, `greyAt` says whether `lastIndex` of the shared
`/greylist/gi` pattern is set.  A provider without an entry answers every query
like `Fresh`, so the two are one.  Each exported function is one action; the
environment calls them in any order and time passes with `Tick`.  `Crash` drops
what only the memory holds, `Boot` is `initializeProviderCooldownModule`.

Abstractions: a reply is the sort of its code and class with what its text
matches (`Sort`, `Text`); a duration of a tier is any value between `TierMin` and
`TierMax`, whose ranges do not overlap, as the jittered ranges of the code do not
(12.75-17.25 min, 51-69 min, 3.4-4.6 h, 12-24 h); the cache snapshot that nothing
reads is left out (with `CACHE_BACKEND=sqlite` a failing write there would throw
out of `bumpCooldown`: see `hazards`); `PROVIDER_COOLDOWN_ENABLED` is on.

### CooledProbes

`phase[v]` is where `verifyOne` is for request `v`.  `Verify` is everything
between the last await before the gate and the next one: gate, spacing, and the
enqueueing.  `Wake` ends the sleep; `Open` is p-limit starting the head of its
queue; `ProbeAnswered`, `ProbeRefused` and `ProbeTimedOut` are the three ways a
probe returns, of which only the second has recorded something; `Settle` is
`recordProviderSmtpUse` followed by `mapSmtpToResult`, one uninterrupted run.  A
request slot is used again after it is idle, so three slots stand for any
sequence of requests of which three overlap.

### DomainVerdicts

`cache` holds the entries of one recipient domain: of each address in the result
cache and of the domain in the `mx`, `dead`, `mx_persistent` and `catchall` layers; `events`
is the domain's list in `eventsByDomain`.  A request is at one of the awaits of
`verifyOne`: the lists (after the result cache), `lookupMx`, the address check, the
catch-all probe, the probe.  Each action takes one answer and runs to the next
await.  `out` is the answer given in the last step; `fails` and `refuted` are
histories, read by the properties and the bound only.  An entry also says when its
verdict was found out (`at`).

Abstractions: DNS and SMTP may answer anything at any time; a reply is one of accepted, rejected, put off or unreachable; a
jittered lifetime is one value; expired entries vanish when the clock moves; the
size limits of the LRU maps are left out.  `Recent` is the filter over the failure times
written as what it leaves of a list in clock order (the lemma `RecentIsFilter`).  `Backend` chooses between an absolute
expiry (SQLite, kept by a restart) and one that every hit renews (memory, lost).

### SmtpReply, SmtpProbe, Scoring and MxPath

A reply is the command it answers (`at`: only a refusal of MAIL is looked at, so the code
is no 2xx there), its code, 0 to 999, and the families of texts it belongs to (`Hint`): the block
patterns, routing, an unknown user, storage, and one that asks to try again (`"later"`), for
which the code has no pattern.  `Class` is `classifySmtp`,
`Semantic` is `categorizeSmtpReply`, and `MapReply` and `MapFailure` are the two halves of
`mapSmtpToResult`.  A verification code is `{code, reason, counts}`, where `counts` is what
`recordMxPathFailure` is called with.

`SmtpProbe` is the loop of `probeRcptUnscoped`, with one session per step; `log` is the
history of sessions that the properties read.  Delays between retries are left out.

`MxPath` is a verification whose domain no cache but that of `lookupMx` answers for.
`stage` is what it awaits: the MX query and its retries, the A and AAAA queries of each
host in turn, the sessions.  An address query gives addresses, a definite no, a timeout or
another failure.  Each action takes one outcome and runs to the next
await, the last one to the answer.  Hosts are numbers in the order of
`normalizeMxRecords`.  An escalation to `undeliverable` by the failure count is
`DomainVerdicts`' matter: here a failure that counts stays `retry_later`.
`ScoreOf` is `scoreVerificationResult` for the fields that a verification of this path
can have; role addresses do not come here.

### SmtpSession

The client is `runSmtpSession` with `LineReader` (`q`, `ended`, and a waiting reader
when `pc = "wait"`).  A line handed to the waiting reader resumes the session
before any other event reaches the client, so nothing else of the client happens
while `pc` is `"line"` or `"null"`.  The host answers commands in order with one
to `MaxLines` lines, which arrive in any chunks; it may close or reset the
connection at any time.  Reply codes are four classes: 220, other 2xx, 4xx/5xx,
and those `classifySmtp` calls a protocol error.  External, as Node defines it: a
write on a closed socket is rejected; an `error` event without a listener and a
rejection without a handler reach `process-safety.ts`, which exits.

### AsyncJobs and JobStore

`status` and `born` are the Map and its insertion order, `queue` and `running`
the variables of the same name, `pumps` the pumps `setImmediate` will run, `task`
and `at` what the running task awaits.  `Victims` is the result of the eviction loop
in closed form.  `queue_full` changes nothing and is no step.  `Restart` loses
everything, because nothing of it is on disk.  `JobStore` states the promise:
bounded, one at a time, first come first served, only answers are evicted, the
oldest first, and a callback told at most once and only after there is an
answer.  The refinement mapping is the identity on `status`, `born`, `told`.

### BatchVerify and Requests

`item[r][e]` is what became of the verification of address `e` in request `r`, `line` the
queue of the limiter of the process.  The two limiters of a batch need no queue of
their own: p-limit starts tasks in the order they were given, so what may start is
determined by what has ended (`MayStart`), and `Advance` moves all that may into the line,
in one run of the event loop, in the order that has the `Sooner` of any two first.  `POST /v1/verify` is a batch of one row.

`Requests` puts the pre-handler in front and the store behind.  `phase[r]` is what the
handler awaits: the lookup, its verifications, the store.  Redis is `"out"`, `"up"` or
`"flaky"` for a whole behaviour, in the last case each call works or falls back to the
memory by itself; or it is up until it falls silent (`Stall`), accepting commands and never
answering them.  Then the lookup and the store do not resume, since neither the client
(`redis.client.ts:14-18`) nor they have a timer, and a new request does not get past the
rate limiter, which asks the same Redis (`Held`).  Of the rate limiter nothing else is modelled.  A retry is another request with the same header, path and body.
`Forget` is expiry or eviction.  `Signal`, `Drained` and `GraceOver` are `shutdown` of
`server.ts`; `Crash` may come at any time.  After each of them (`Exit`) a new process
serves, with empty memory and what Redis kept; requests in flight are cut off.

### DisposableList

A list is a set of domains; of the header of the file only the date matters, which is
what makes a file of yesterday differ from the same list of today.  `merge[p]` is the
merge under way in the server or the CLI, at one of its awaits; `queued` the merges
chained behind that of the server.  A file that is being written is `Torn`, and two
writers may leave it so (`FileAfter`).  `load[i]`
is a call of `readDisposableFiles` at one of its awaits; it clears the set at once and
fills it as it reads.  `current` is the call behind `loadFilePromise`, for which
verifications wait.  `spoiled`, `tainted` and `clobbered` are histories.  The two upstream
lists are taken as one, and the operator's own list does not change.

## 3. Runs

| run | bounds | what it shows |
|---|---|---|
| `cooldown` | 1 provider, clock to 5, 5 blocks, windows of 1 and 2 ticks | `DurableView`, `BoundedBlock`, `WindowsBelowLimit`, `EscalationKept`, `NeverCutShort` with working persistence |
| `cooldown_faults` | 2 providers, clock to 2, 2 blocks, failing writes | `HeldInMemory`: memory alone keeps cooldowns in force, providers are independent |
| `cooled_probes` | 3 requests, 2 slots, spacing 2, clock to 5, 3 blocks | nobody lost in the queue (`LineHoldsTheWaiting`), escalation charged to admitted probes only, spacing from every use that was known, every verification ends |
| `mx_path` | 3 hosts, 2 retries, 1 extra hop, 2 DNS retries, 19 replies | order, completeness and bounds of the search; the causes for which an address is condemned and what makes it valid; the two reasons for which a failure counts; scores that agree with codes |
| `smtp_session` | replies of up to 3 lines, reply limit 2 | no line lost, no acceptance without RCPT, connection released |
| `verdicts` | 2 requests, 1 address, 4 option sets, SQLite, threshold 2, window 2, clock to 5, 3 failures | answers are no staler than configured, a domain is condemned for cause, and the persistent layer yields to an accepted RCPT |
| `async_jobs` | 4 jobs, store of 2 | queue invariants, liveness, refinement of `JobStore` |
| `requests` | a batch of 5 rows over 2 domains, its retry, a batch of 1 row, all under one header; limits of 1 domain, 2 rows of a domain, 2 in the process; Redis out, up, flaky, and falling silent | nothing lost between the limiters, answers whole and the request's own, retries replayed, every request ends or waits for a silent Redis and holds up no other |
| `disposable` | 2 upstream lists, 2 loads, 1 merge waiting, and one change upstream, CLI run and restart | verifications do not notice a reload, and the server comes to serve what upstream publishes |

The clock bound of `cooldown` lets a block of each of the tiers run out and be
followed by the next, and the block bound reaches the open-ended tier, the only
one where a new deadline may lie before the old one.  The two-provider run keeps
only what independence needs.  In `cooled_probes` every soft failure applies a
cooldown at once (the windows are the matter of `cooldown`), so that the late
outcomes of three overlapping probes can raise one block three times.  In `mx_path` three
hosts give a first, a middle and a last one, of which any may be without an address, two
retries a first and a last retry, and the replies one of each class and semantic with and
without the texts that change what it means, a 554 that asks to try again and refusals of
MAIL; the theorems are about every reply.  In
`verdicts` the threshold is reached twice over, entries of each layer expire and are made
again, the dead entry outlives the persistent one, and two requests overlap in
every order of their answers; one address is enough, since addresses meet only in the
layers, and a forced request passes the result cache as another address would.  Four jobs
in a store of two reach: full of unfinished jobs, full with an answer to evict,
the eviction of the job whose webhook is under way, and a restart in each.  In
`SmtpSession` the limit on the lines of a reply is below the longest reply, so
its error path is taken.  In `requests` the batch has an address twice, a group that
waits for another, and a group larger than its limit, while the row of another
request stands in the line between them.  In `disposable` one of each
event is enough for the CLI and the job to overlap, for the file to be left half
written by either, and for a restart to read it.

Runs that expect a violation, each a statement of the repository the code does not
keep:

| run | property | statement |
|---|---|---|
| `smtp_probe_timeouts` | `TimeoutsAreRecorded` | repeated timeouts apply a cooldown (`provider-cooldown.service.ts:14`, `README.md` section 11) |
| `smtp_session_verdict` | `VerdictIsOwnReply` | `valid` means RCPT was accepted (`README.md:365`) |
| `smtp_session_quit` | `QuitFailureIgnored` | a failed QUIT is ignored (`smtp.service.ts:106`) |

Some consequences worth knowing.  An accepted RCPT clears the failure count and the
persistent layer, but not the dead one, which goes on answering `undeliverable` until
it expires (`CondemnationStands` holds of the persistent layer only).  Because
timeouts are never recorded and a protocol error is never passed on as a reply, two
of the three windows (`timeout`, `unknown`) are fed by nothing but tests.  Because
the gate is read once, probes that were past it when a cooldown began may each
raise it: `EscalationCharged` shows that nothing else does.

More places where the code does otherwise than a comment or a document says, or than one
would expect.  They are in the models or next to them, and have no run of their own:

- Two overlapping requests with one idempotency key are both executed
  (`docs/API.md:142` promises the same body); `AnswersAreOwn` and `RetriesAreReplayed` say
  what holds instead.  `/v1/verify/jobs` is on the list of idempotent paths but its
  route has no pre-handler.
- A 5xx whose text asks to try again makes an address undeliverable like any other that no
  block pattern matches, although `smtp-code-parser.service.ts:98-100` says that it must not be
  a permanent reject; and so does a 5xx to MAIL FROM, although `verification.service.ts:97-98`
  speaks of stable mailbox rejects only.  `UndeliverableForCause` names both (`AsksAgain`,
  `RejectsSender`).
- When no host has an address, timeouts of the A and AAAA queries count against the domain,
  although `env.ts:201` and `mx-failure-tracker.service.ts:12` say that timeouts do not;
  `CountedFailures` leaves room for that.
- A host that greets with 421 or 554, or refuses HELO, is handled as one that closed the
  connection (`smtp.service.ts:150-161`): the failure counts, and one that is repeated makes
  the domain undeliverable for a while, where `verification.service.ts:94-97` says of 421
  that it does not.  `CountedFailures` is stated accordingly.
- The Redis client has no command timeout.  Every request waits at the rate limiter, and one
  with a key at its lookup or store, for as long as Redis is silent; `EveryRequestEnds`
  excuses just these.
- The minimum spacing of probes (`env.ts:129`) is looked at before the queue and recorded
  after the probe, so probes that overlap start back to back; `SpacedFromKnownUse` says what
  holds.
- With `CACHE_BACKEND=memory` every read renews an entry (`updateAgeOnGet`), so that an
  address asked for often enough is never checked again; `AnswersAreFresh` holds of SQLite.
- A DNS error code that is not on the list of transient ones makes an address
  undeliverable (`mx.service.ts:88`); `UndeliverableForCause` names the exception.
- A merge of the CLI may overlap one of the server, which a comment excludes
  (`mergeDisposableDomainSources.ts:34`); the list read from such a file is made good by the
  next day's job.  A CLI run every day before the job would keep the server from ever
  reloading; the run bounds the CLI.
- A role account is scored so low that its class is `undeliverable`, where
  `env.ts:215` calls it risky.
- Results are cached whatever the options of the request, `not_catch_all` is cached without
  a verdict, `CACHE_ENABLED` is read by the result cache only, and the shared
  `/greylist/gi` pattern carries its position from one reply to the next.

## 4. Fairness

`ProviderCooldown`, `DomainVerdicts` and `MxPath` are checked for safety only.  `CooledProbes`
assumes that time passes, that timers fire and resolved promises are resumed,
that p-limit starts the head of a queue when a slot is free, and that a probe
returns, which the connect, read and session timers guarantee (`SmtpSession`).
`SmtpSession` assumes that connecting ends (`SMTP_CONNECT_TIMEOUT_MS`), that writes
are called back and that the read timer fires; nothing is assumed of the host.
`AsyncJobs` assumes that `setImmediate` callbacks run, that a verification ends, and
that `fetch` ends (`AbortSignal.timeout`).  `Requests` assumes that the event loop runs what
is ready, in no particular order, that verifications end, and that calls to Redis end with an
answer or an error unless Redis fell silent; nothing is assumed of calls to a silent one.
`DisposableList` assumes that file operations and a fetch end, that days pass and the job
is started on each, and, the only strong fairness of the project, that a fetch which
is tried for ever works sometimes.  It also takes work on local files not to
last over midnight.  No request, operator, signal, crash or restart is ever assumed.

## 5. Proofs

`ProviderCooldownProofs`, for every set of providers, every durations, windows and
limits that satisfy the `ASSUME`s, and with unbounded behaviours up to the named
bounds `MaxNow` and `MaxBlocks`, which are themselves arbitrary:

| theorem | states | needs |
|---|---|---|
| `TypesHold` | `[]TypeOK` | |
| `TypeCorrect` | `[](TypeOK /\ WindowsBelowLimit)` | |
| `BlocksAreBounded` | `[]BoundedBlock` | |
| `RestartLosesNothing` | `[]DurableView` | persistence on, no SQLite fault |
| `EscalationIsKept` | `EscalationKept` | the same |
| `CooldownsRunTheirTime` | `NeverCutShort` | the same |
| `MemoryHoldsCooldowns` | `HeldInMemory` | |

The inductive invariant of the first two is `TypeOK /\ WindowsBelowLimit` together:
that a window never reaches its limit needs the stamps to be in clock order,
because pruning takes a prefix, and the order needs the types.  `BoundedBlock` is
inductive relative to it: a bump draws from the tier of the count it writes
(`BumpRaises`), a load can only trim a deadline (`LoadedEffect`), and the clock only
makes the rest shorter.  `DurableView` compares the effect of memory and row, not
the records themselves, because a load trims the deadline in memory and leaves the
row alone; it is inductive since every handler that writes memory writes the
row.  The two action properties follow from `DurableView`: a crash hands over from
memory to row and a boot back, and both have the same effect (`GoverningStep`).
`MemoryHoldsCooldowns` is the promise of memory alone, while the process runs: it
needs neither persistence nor a table that works, since a step leaves the deadline of a
provider alone, raises it, or is a reset (`MemoryStep`).

`CooledProbesProofs`, for any number of verifications, any limit and spacing and any
parameters of the cooldown:

| theorem | states |
|---|---|
| `LinesAreRight` | `[]LineHoldsTheWaiting` |
| `EscalationIsCharged` | `EscalationCharged` |
| `ProbesAreSpaced` | `SpacedFromKnownUse` |

The invariant `QueuesOK` adds two things to the first.  The verifications that are
past the gate are finitely many (`LineOK`), which has to be said because `Verification`
may be infinite and the queue and the slots are counted; with that, a queue that
holds all that wait and is as long as they are many holds each once.  And nothing is
under way while the process is down (`DownIdle`).  For `EscalationCharged` the count and
the pending probes are followed step by step: a probe that records a block stops being
pending as the count rises, and the gate admits nobody while the provider is blocked.

`DomainVerdictsProofs`, for every number of requests and addresses and all parameters:

| theorem | states | needs |
|---|---|---|
| `TypesHold` | `[]TypeOK` | |
| `AnswersStayFresh` | `[]AnswersAreFresh` | `Backend = "sqlite"` |
| `CondemnationHasCause` | `CondemnedForCause` | |
| `CondemnationIsCurrent` | `[]CondemnationStands` | |

The first three share `TInv`.  Freshness is about answers, but what must be kept is about
entries: `EntryOK` says of each layer which verdicts it can hold and how long after it
was found out a verdict can still be there (`Span`, the lifetime of the layer, or twice
that of the dead layer for a domain that does not exist, as that verdict passes through
two layers).  For the cause of a condemnation, `FailuresOK` says that what the code counts
is the end of the history of failures, in clock order, so that the `Threshold` it
finds lie within the window.  As for the last, the property itself is not inductive: an expired entry would satisfy it, and what matters is that
nothing brings such an entry back.  The invariant says instead that once an RCPT was
accepted the entry is gone (`RefutedIsCleared`), and that a request under way is about an
address (`RequestsNameAddresses`), so that storing its result cannot write a layer.

`AsyncJobsProofs`, for every set of jobs and every size of the store:

| theorem | states |
|---|---|
| `JobsTypeCorrect` | `[]TypeOK` |
| `QueueIsThePending` | `[]QueueHoldsPending` |
| `NoWakeupIsLost` | `[]PumpScheduled` |
| `QueueImplementsStore` | `ImplementsStore`: every behaviour is one of `JobStore` |

The inductive invariant `IInv` adds three things to these.  Places in the order of
acceptance are handed out once each, to finitely many jobs (`PlacesAreDistinct`):
`Id` may be infinite, and both the new place and the eviction count a finite set.
The store never holds more than `Max` jobs (`StoreIsBounded`), so an enqueue into a full
store evicts exactly one answer, the oldest, as `JobStore!Accept` wants.  And the job in
process is that of the task, and a callback was told of answers only
(`TaskIsInProcess`), so that `Start` finds no other job in process and `Tell` is not
repeated.  Each step then maps to one of `JobStore` or, when it moves only the queue, the
flag or the scheduled pumps, to a stutter.

`MxPathProofs`, for any number of hosts, retries, hops and DNS retries, and any set of
replies, with every code from 0 to 999 and every combination of the text families:

| theorem | states |
|---|---|
| `AnswersAreReturned` | `[]AnswerIsReturned` |
| `HostsAreTriedInOrder` | `[]HostsInOrder` |
| `FailureTriedAll` | `[]AllHostsTried` |
| `SessionsAreBounded` | `[]SessionsBounded` |
| `LookupsConclude` | `[]LookupConcludes` |
| `CondemnedWithReason` | `[]UndeliverableForCause` |
| `ValidWasAccepted` | `[]ValidIsAccepted` |
| `OnlyPathFailuresCount` | `[]CountedFailures` |
| `ScoresFollowCodes` | `[]ScoreAgrees` |

The search of the probe comes first.  Every step of it either stops, moves to the next
host or repeats the same one, and the invariant says where it is: sessions before
the retries of the host in turn were with earlier hosts (`SearchIsOrdered`, from which
the bound on sessions follows), and another session is opened only for the reasons
`HostsInOrder` allows (`SearchGoesOn`).  Around it, `StageIsTrue` says what has been done at
each stage and that the probe was given as many hosts as have an address, and
`LookupIsOpen` that while DNS is asked its layer is empty and every query so far
failed.  What replies and failures are mapped to are lemmas over all of them
(`RepliesAreRead`, `ScoresAgree` and others), so that the steps need no case
analysis of codes.

Two of these say less than one may read into them.  `CondemnedWithReason` lists, next to what the
documents call a cause, three more: a last DNS error that is not on the list, a refusal of MAIL,
and a 5xx that asks to try again.  `OnlyPathFailuresCount` excludes timeouts of sessions and
probes with a definite answer to MAIL or RCPT; it does not exclude timeouts of address
queries or refused greetings, which count.

`SmtpSessionProofs`, for any host, any limit of lines and any length of replies:

| theorem | states |
|---|---|
| `VerdictsAreEarned` | `[]AcceptedAfterRcpt` |
| `LinesInOrder` | `NothingSkipped` |

The first says how far a session must have got to accept an address and that a verdict is read
from the last line of a reply, not whose reply that is; the second that the reader skips
nothing and keeps the order, not that it hands out a line once.  Both stronger claims are
false (`smtp_session_verdict`).

A verdict is given only by the step that ends the session (`VerdictInv`).  For the order of
lines, `LinesInv` says that the lines between the host and the session, in the queue of the
reader and on the wire, are the last ones the host sent, numbered without a gap, and that the
session was last given the one before them (or has just been given the head of the queue).

`RequestsProofs`, for any requests and rows, any limits, and Redis out, up, flaky or falling silent:

| theorem | states |
|---|---|
| `TypesHold` | `[]TypeOK` |
| `NoneIsLost` | `[]LineHoldsTheQueued` |
| `AnswersAreTheirs` | `[]AnswersAreOwn` |
| `RetriesAreNotExecuted` | `[]RetriesAreReplayed` |

`WorkInv` holds the limiters together: the line holds the queued items once each
(`LineOK`), finitely many run (`RunningOK`; there may be infinitely many requests), and
the items of a request are unfinished just while its handler executes (`RequestOK`).
`OwnInv` follows a result from where it is made into the store and out of it: what is
stored under the key of a request may be given to it (`StoredOwn`), as the key holds
everything that decides the response.  `RetryInv` says of a key that was answered and
not forgotten that every store a lookup may reach has the answer, so that a retry
finds it; with a flaky Redis a lookup may go elsewhere, and a silent one answers none.

`DisposableListProofs`, for any lists upstream may publish and any number of reloads:

| theorem | states |
|---|---|
| `TypesHold` | `[]TypeOK` |
| `WholeListsAreRead` | `[]VerdictsFromWholeLists` |

`WholeInv` says that a whole file holds a published list and is not being written, also
while a reload that nothing spoiled reads it (`FilesWhole`), and how far the call behind
`loadFilePromise` has filled the set as long as it is the only one (`SetWhole`).  A
verification waits for that call, so it finds the set filled.

Assumptions.  The theorems use the `ASSUME`s of the modules and the hypotheses named in
the tables, nothing else.  Of a request they ask what validation gives: it has
rows, each with an address and options (`BatchAssumption`), and it is posted with a
tenant, a header and a path (`RequestsAssumption`).

Only model-checked: liveness under fairness, which the prover does not reach
(`EveryVerificationEnds`, `ConnectionReleased`, `EveryJobAnswered`, `EveryRequestEnds`,
`ServerCatchesUp`), and the runs that expect a violation.  Every invariant and every action
property of a passing run is also the statement of a theorem.  To make that possible no
module uses an operator that is defined by recursion: `Recent` is a subsequence, and
`Advance` states the order of the line instead of sorting.

## 6. Not modelled

- Authentication, the allow-list of addresses and the replay window of signed requests:
  one check per request, with state of their own that no other part reads.  The rate limiter, but
  for its waiting for Redis.
- Metrics and usage: counters that are incremented and read.  (The document on usage
  counts replays as requests, `docs/USAGE_BILLING.md:17`; no model says anything of it.)
- Role addresses, syntax, classification of providers, risk signals, and explanations:
  pure functions of strings and tables.  Of scoring, what `MxPath` can produce.
- The disposable and role layers of the cache, whose entries say what the lists say, the
  layers that are written and never read, and eviction at the size limits of the maps.
- The signature of webhooks, the two upstream lists as two, routes, plugins, validation,
  configuration, formatting, logging and the web pages.

What could still be added: a composition of `CooledProbes` with `SmtpProbe`, so that a
verification of a throttled provider goes over its MX list, and an abstract
specification that `Requests` implements, as `JobStore` is for the jobs.
