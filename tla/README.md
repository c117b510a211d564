# A verification of NyaProxy

NyaProxy is a gateway between clients and the APIs it proxies. It owns a pool of
keys for each API, decides which request may use which key and when, queues the
requests that have to wait, retries the ones that fail, and streams responses
back. Everything runs in one asyncio event loop: there are no threads, but every
`await` that suspends is a point where another task may change the shared state.

This directory holds TLA+ models of the part of the program that makes those
decisions, the TLC configurations that check them, and proofs of their main
properties for the TLA+ proof system. Paths are relative to the repository.

## The system's parts

| Part | State | Operations | Talks to |
|---|---|---|---|
| `RateLimiter` (`nya/services/limit.py`) | deque of timestamps, lock deadline, cool-down deadline | `is_limited`, `time_until_reset`, `record`, `release`, `lock`, `unlock`, `block_for`, `export_state`, `restore_state` | read and changed by `TrafficManager` only |
| `LoadBalancer` (`nya/services/lb.py`) | round-robin index, request counts, response times, weights | `next`, `update_request_count`, `record_response_time` | called by `TrafficManager` and by the queue |
| `TrafficManager` (`nya/core/control.py`) | a limiter per key, endpoint, IP address and user; a lock and a wait condition per API; staged state of a previous run | `try_acquire_key`, `time_to_*_ready`, `record_*`, `release_*`, `block_key`, `unlock_key`, `notify_key_released`, `export_state`, `import_state` | queue, server lifecycle |
| `RequestQueue` (`nya/core/queue.py`) | a priority heap, worker tasks and waiting count per API; retry tasks | `enqueue_request`, worker loop, `_wait_for_key`, retries, `clear_queue`, `close` | clients (futures), `TrafficManager`, processor |
| `NyaProxyCore` (`nya/core/proxy.py`) | none of its own | `handle_request`: prepare, check policy, enqueue, wait with a timeout | handler, queue, executor |
| `RequestExecutor`, streaming (`nya/core/request.py`, `nya/core/streaming.py`) | an open upstream response, its finalizers | execute, stream, finalize once | queue (finalizers), metrics, gateway log |
| `RequestHandler` (`nya/core/handler.py`) | none | routing, path and method policy, priority, exemption from rate limits, headers and body | configuration, substitution |
| runtime state (`nya/services/state.py`) | a JSON file | atomic save, tolerant load | `TrafficManager`, lifecycle |
| metrics, gateway logs (`nya/services/`) | counters; log entries on disk | record, reset; begin, write, finish, prune | executor, dashboard |
| server, authentication, dashboard (`nya/server/`, `nya/dashboard/`) | the running application, reload timer | start, restore, reload, shut down, log in, clear queue | everything |
| configuration (`nya/config/manager.py`) | parsed file, fixed after start | getters, validation | everything |

A request's life: `handle_request` puts it on the heap of its API and waits for
its future. One of `max_workers` workers claims it and waits on the API's
condition until client quota, endpoint quota and a key are available; the check
and the grant happen without an `await`, under the traffic lock. The worker then
awaits the upstream exchange. A failure refunds what the grant recorded and
unlocks the key; a retryable status also cools the key down and hands the request
to a delay task, which puts it on the heap again with priority; a success unlocks
the key at once, or from a finalizer when a streamed body has been delivered.
Meanwhile the client may leave, the dashboard may clear the queue, and the server
may shut down.

### What is hard here

- A limiter is unavailable for three independent reasons (window, lock,
  cool-down), each with its own deadline, and refunds remove entries that may be
  someone else's.
- A request has many exits. Each one must give back exactly what was taken, and a
  future that six places may resolve must be resolved once.
- Locks carry a TTL and no owner; a response object may be dropped before its
  finalizer can run; closing it may fail.
- A wake-up is delivered by a task created after the release.
- Shutdown and queue control run between any two steps of the above.
- An upstream attempt has three kinds of answer and as many ends, and each owes
  the metrics one outcome, the log one verdict and the pool one connection; the
  store prunes bundles of attempts that are still being written.
- A retry sends a request object that the last attempt has changed.
- A configuration is accepted by one piece of code and read by others.

`PROJECT.json` lists these as hazards, each at its line with the properties that
speak about it.

### What makes each part correct

Limiter: the deque stays ordered and bounded, a window admits no more than its
limit plus the refunds, a cool-down is never cut short, a computed wait is long
enough. Traffic: the same for every level at once. A key that is
not shared has one holder, and further ones only for locks that ran out or that a
failing close took away. Queue: every accepted request is answered
exactly once, is sent upstream at most `retry.attempts` times, leaves no lock and
no charge behind, and cannot be forgotten or sleep through a release. Executor and
logs: the gauge, the connections and the bundles on disk agree with what happened,
whatever order attempts end in. Admission: what the validation accepts means one
thing to every reader, only key holders get through beside what is public, quotas are charged to an
address, the caller's credential never goes upstream, and a substitution rule
changes what it names and nothing else.

## Modules

| Module | Models |
|---|---|
| `Limiter` | the methods of `RateLimiter` and the two functions of `TrafficManager` that read a key's limiter, as operators on a record; used by every module with a clock |
| `RateLimiter` | one key's limiter, driven by the calls the traffic manager makes for the requests that use the key: what `Traffic` implements for each of its keys |
| `Traffic` | `TrafficManager` and `LoadBalancer` of one API: key, endpoint and client limiters, five strategies, grants and releases |
| `RequestQueue` | one API's queue with its clients, workers, retry tasks, streams, queue control and shutdown |
| `RequestLifecycle` | what the queue promises a client, without any queue: the abstract specification `RequestQueue` implements |
| `Persistence` | the registry of limiters, lazily filled and pruned when idle, and its state file across stops, crashes and edited configurations |
| `Exchange` | upstream attempts that run together: the executor, streamed responses, the active gauge and the store of evidence bundles, with resets and crashes |
| `Admission` | a call from its arrival to its upstream requests: accepted configurations, settings, authentication, routing, policy, priority, client address, headers and body of every attempt |
| `Substitution` | the rules that rewrite a JSON body, as operators; used by `Admission` |
| `LimiterProofs` | lemmas on the limiter's operators |
| `SubstitutionProofs` | lemmas on what a set and a remove do to a document, for any path and document |
| `RateLimiterProofs`, `TrafficProofs`, `RequestQueueProofs`, `PersistenceProofs`, `ExchangeProofs`, `AdmissionProofs` | the inductive invariant and the theorems of the module they name |
| `MCRateLimiter`, `MCTraffic`, `MCRequestQueue`, `MCPersistence`, `MCExchange`, `MCAdmission` | instances for TLC |

### Limiter and RateLimiter

A limiter is `[ts, lockedUntil, blockedUntil]`. The deadlines `None` and `0.0` are
both 0: the clock is never negative, and every reader of either compares it with
the clock. Timestamps are integers. Methods are operators that take `now`;
`is_limited` has a side effect (it cleans the deque), so it is two operators,
`IsLimited` for its answer and `AfterIsLimited` for what it leaves behind.
The lazy reset of an expired lock changes nothing any reader can see, and is left
out. `_parse_rate_limit` is represented by its result, a limit and a window,
either of which may be zero.

`RateLimiter` has one action per call of the traffic manager. Its requests are upstream
attempts: a retry is an attempt of its own. `Fail` and `FailAndBlock` are the release of a
failed attempt, without and with a cool-down; `Keep` is the cool-down alone, of a
status below 400 that is retried. `CloseFails` is the second release: closing the
response of an attempt that was given up raises, and `except Exception` runs
`_free_resources_on_failure` again (`nya/core/queue.py:289-302`, `320-321`) on the key that
the request has by then. That may be a key of a later attempt, so an attempt
that failed at another key may release this one (`"elsewhere"`).
`refundedAt`, `coolUntil`, `expiries` and `stolen` are history: properties read them, no
guard does. `stolen` counts the running locks that a second release took, `expiries` the
locks that ran out. Attempts in `Exempt` neither look at the window nor count in it, but
take and respect the lock and wait for the cool-down.

### Traffic

One action is one whole pass: `Acquire` is the pass of `_wait_for_key` that ends
with a key (client check, endpoint check, key waits, the draws from the load
balancer, and everything recorded), `Refuse` the pass that ends without one,
including the deques it cleaned. `Outcomes` collects what the draws can produce:
round robin finds the first usable key of a full turn, the other strategies draw
`len(keys)` times from the same set, so they return any usable member of it, or
none if it holds an unusable one. The mean response time is a value from
`Speeds`. A call is a client's request; `CallOf` says which attempts are its tries, one
after the other (`Waiting`), and `apiKey` is the key its request object has by now, the one a
failing close releases. IP addresses and users are limited the same way and always together;
one kind of client stands for both.

`Traffic` implements `RateLimiter` for every key at once (`KeysAsSpecified`).
`KeyLimiter(k)` is the instance: `limiter <- keyLimiter[k]`, the configuration is the
key's part of `setup`, and an attempt is `"new"`, with no times, to every key but its
own, until its failing close releases another one (`StatusAt`, `TimesAt`). `Acquire(r, k)` maps to the grant for `k` and to a check
or a stutter for the other keys, `Refuse` to a check or a stutter for all of them, the
ends to the same end for the holder's key and to a stutter elsewhere, `CloseFails(r)` to
`CloseFails(r)` for the key that is released, `Tick` to `Tick`.
The cool-down deadline maps to itself because `block_for` keeps the latest.

### RequestQueue

`place[r]` says where the program's references to a request are: the heap, a
worker that waits (`parked`), was woken (`awake`) or is in the upstream call
(`upstream`), the delay task (`retry`), a streamed response (`delivered`,
`streaming`, or `orphan` once dropped), nowhere (`gone`), or a worker that
`close()` cancelled (`lost`). A streamed response of 400 or above that is not retried has its
key given back at once (`nya/core/queue.py:294-297`) and is delivered with its exchange open:
its place is `delivered` or `streaming`, its future `"error"`, and it no longer holds a key
(`Holds`). `future[r]` is the request's future. Workers are
identical, so they are counted (`Busy`), not named. `closing[r]` counts workers
inside `_close_response`, which may overlap with the request's own retry.

An action is the code between two awaits that suspend. `queue.get()` on a
non-empty queue, and `async with cond` on a free lock, do not suspend, and no
section under the lock suspends, so a claim with its first pass is one step.
The notification is not: `notify` is the task that will call `notify_all`.

Clock values are abstracted: a deadline may pass at any moment, and a window may
refuse at any moment (`Park` is always possible). `Traffic` and `RateLimiter`
have the clocks. Fresh requests are claimed in any order among themselves, which
covers both of their priorities and any arrival times; retries come first.
With `RetriesBelow400` the retry statuses may include ones below 400, which the
schema allows: such a retry frees nothing. `kept` and `left` remember the tries and the
keys it left so. What becomes of requests that arrive after `close()` is left out,
since the server has stopped accepting them.

### RequestLifecycle

A request is refused on submission or gets at most one answer; upstream is tried
at most `MaxTries` times, never twice at a time and never after the answer; only
a running try produces a response. The mapping is
`answer <- future, tries <- attempts, running <- place = "upstream"`, with
`MaxTries` = max(1, `retry.attempts`): the first attempt is always made.

### Persistence

Names of limiters stand for the strings of the code; `Prunable` are the ones that
contain `_ip_` or `_user_`, `Blockable` the ones of keys. Every call of the traffic
manager starts with `get_or_create_limiter`, which first prunes what is idle, so
`Access` does both and the three actions `Query`, `Use` and `Block` are built on it.
`Stop` is a shutdown whose save succeeds. A save writes a temporary file and renames
it, so a crash before, in or instead of it has one effect, the old file stays:
`Die`. `Start` may choose another configuration; what was saved is only staged, and
`Obtained` applies it when its limiter is first wanted. Concurrency locks are not
saved by the code and refunds are left to `RateLimiter`.

`uses`, `narrowest`, `coolUntil` and `unsaved` are history. `narrowest` is there
because an edit that narrows a window and a later one that widens it rightly lose
what was dropped in between; `unsaved` marks the names whose state a process took
with it, as `two_restarts` and every crash do.

### Exchange

An attempt is `free`, `sent` (waiting for a head), `reading` a buffered body,
`returned` (a streamed response that nobody has iterated yet) or `streaming`.
A head is reduced to what `detect_streaming_content`, the readable copy and the
latin-1 encoding of headers ask of it, and the environment chooses one of `Heads`.
Bodies are counts of chunks. A bundle is the raw file (its chunks, or `NoFile`),
whether the readable copy exists, and the meta file's verdict: `open` until the
attempt finishes, then `ok` or `error`.

The code between two awaits is one action. `Settle` is what every end outside a
stream does: `finish`, then `record_response`. The order matters, because `finish`
reads the raw file back and raises when that was pruned, which skips the record;
`lost` remembers those attempts, the streams whose setup raised, and the
streams dropped before their generator started. A stream runs its finalizers one
by one, so there the record is made whatever the log does (`Finalize`). A failing
`record_response_head` (a full disk) is not modelled.

`Crash` may come inside `begin` or inside a prune, whose files go in any order
(`CutShort`); writes of the meta file and the index are atomic renames. `Restart`
is the store's constructor. `begun`, `got`, `fate`, `lost` and `resetLate` are
history.

### Admission and Substitution

`Start` accepts a drafted configuration or leaves the process down; `Arrive` makes
the decision on one call, from the middleware to `enqueue_request`; `Send` prepares
and sends one attempt, starting from the headers and the body the last attempt
left in the request object, as the program does. Queueing between attempts
is `RequestQueue`'s. A configuration is a record of what the modelled code reads of
it; settings are looked up by name in the API, the defaults and `Builtin`. A secret
is a stripped text and whether blanks surrounded it, since some readers strip and
one compares as it is. A template is the set of variables it names, and the value
of a variable is any configured one. An API's `nominated` is what the text of its own
`connection` header names, if it configures one; the client's is never looked at,
because that header has been removed by then (a disagreement listed below).

A deque is cut by date with `SubSeq` (`Recent`, `Past`), which on the ordered deques
of `Persistence` is what the code's comprehension keeps (`RecentExact`, a lemma), and
the first well-formed address is found by its index. The library's `SelectSeq` says
the same, but is recursive and so cannot be reasoned about. For the same reason
the walks along a path and down a list of rules are recursive functions in
`Substitution` (`Nodes`, `Way`, `Raised`, `Results`), each the sequence of what the
code's loop variable holds.

`Substitution` keeps JSON's types, since the rules' code branches on them, and
characters where patterns look at them. JMESPath is external: `Search` is modelled
for the expressions the documentation uses, dotted names, indexes and one
projection. Rules follow the schema; what it refuses is never drafted.

The `Authorization` header is two texts, because it has two readers: the middleware takes
off a leading `Bearer ` and the handler takes what follows the last one (`auth.whole`,
`auth.tail`). The three assets of the login page are public at the end of any path
(`nya/server/auth.py:211-221`, "so they stay reachable behind any reverse-proxy path
prefix"); what comes before them may be an API's route as well as a mount, and
`OnlyKeyholders` excepts both (`EndsInAsset`).

## Runs

| Run | Instance | Shows |
|---|---|---|
| `rate_limiter` | 4 attempts (one exempt), clock to 4, TTL 2, cool-downs 1 and 3, window 2 with limit 2, exclusive and concurrent, and with limit 1, concurrent, an unlimited exclusive key; at most one close fails | `TypeOK`, `DequeBounded`, `NetWindow`, `ExclusiveHolder`, `SleptEnough`, `CoolDownKept` |
| `queue` | 3 requests, 1 exclusive key, 2 workers, `MaxSize` 1, `MaxRetries` 2, retries of any status, streamed and buffered answers, at most one fault | `TypeOK`, `HoldersBounded`, `LockHasUser`, `NotLost`, `Accounting`, `FreshBounded`, `ReleaseWakes`, `KeepsPromise` |
| `queue_live` | 2 requests (one exempt), 1 key, 1 worker, any number of lock expiries that can happen | `Answered`, `WakeOnClientExit` |
| `traffic` | 4 attempts of 3 calls (one exempt), 2 clients, 2 keys, clock to 6 in steps of 2, TTL 3, cool-down 3, all strategies; the key, the endpoint and the client are each the scarce resource in some setup; at most one attempt keeps its key or fails to close | `TypeOK`, `EndpointWindow`, `ClientWindow`, `KeyWindow`, `WaitSuffices`, `KeysAsSpecified` |
| `persistence` | a client's and a key's limiter, 2 configurations that narrow and widen a window and a limit, 2 uses, cool-down 3, clock from 2 to 6, prune interval and minimal idle time 2 | `TypeOK`, `QuotaKept`, `NothingInvented`, `IdleBounded` |
| `exchange` | 2 attempts at a time and 3 in all, 5 heads, bodies of at most 1 chunk, 1 bundle kept, 1 reset, 1 crash | `TypeOK`, `GaugeBalanced`, `ConnectionsReturned`, `RetentionKept`, `EvidenceTrue` |
| `admission` | 7 families of configurations and 6 of calls, each varying one aspect, every pair of them; 2 attempts | `TypeOK`, `RoutesUnambiguous`, `OnlyKeyholders`, `PriorityIsMaster`, `WeightsHonoured`, `ClientBelievable`, `CredentialsKeptApart`, `RuleExact` |

The bounds are the smallest at which every hazard can occur. Three requests are
a holder, its successor and a third party that a wrong release lets in, or two
grants and a refund that picks the wrong one. In `rate_limiter` a clock from 1 to 4
outlives a window and a TTL of 2 and a cool-down of 3 of an attempt granted early. One key makes every grant contended. `MaxSize` 1 fills the queue
while a retry is out. `MaxRetries` 2 lets a retry succeed, and be refused a second
time. `MaxFaults` (expired locks, failed closes and open exchanges of streamed errors)
bounds the state space with a constraint, `MaxCloses` and `MaxTroubled` do in
`rate_limiter` and `traffic`; the proofs have no such bound. Deadlock is not checked:
clients stop sending, clocks stop at their bound, and a closed queue does nothing.

In `persistence` a use at 2 is idle for longer than its TTL at 5, so limiters are
pruned and created again; a cool-down of 3 asked for at 2 or 3 spans two restarts.

In `traffic` every window is odd and the clock's step is 2, so that no window ends
exactly at the instant of a call: that instant is a disagreement listed below. Two attempts
of one call and an attempt of another are the least at which a failing close releases
the key of its own call's next attempt, or of somebody else; such attempts are taken
from that call only, under round robin and with the exempt attempt left out
(`FewTroubled`).

In `exchange` one bundle kept and two attempts are the least at which a bundle is
pruned under an attempt that still writes it, and a third attempt takes the next id
after a restart. In `admission` two attempts are the least at which a request
object is reused; a configuration has at most two APIs, two keys and two rules, which
is what a clash of routes, a key left out and a rule reading another's result take.

### Where the code and its documentation disagree

These runs end in a counterexample, and each is a finding in `PROJECT.json`.

| Run | Violated | What happens |
|---|---|---|
| `two_restarts` | `QuotaKeptAcrossRestarts` | two clean restarts in a row forget the window or the cool-down of a limiter that was not used in between |
| `double_free` | `ExclusiveKey` | an exception while closing a discarded response frees the key again, which by then belongs to another request: a second one is let in |
| `orphan` | `LockHasReleaser` | a streamed response dropped before its first chunk is never finalized, and its key waits for the TTL |
| `pruned_open` | `GaugeCountsInFlight` | an attempt whose bundle was pruned under it cannot finish its log: its good answer is denied and the gauge counts it for good |
| `retried_body` | `ReferencesOriginal` | a retry applies the rules to the body they already rewrote, so a reference no longer reads the client's |

Further disagreements were met while modelling; they have no run of their own.

| Where | What happens | What is said |
|---|---|---|
| `nya/services/limit.py:137` | on a key shared by concurrent requests, the refund of a failed request drops the timestamp of a later one that succeeds; so does the second refund of a failing close (`nya/core/queue.py:321`), on every level | `tests/e2e/test_load_scenario.py:101-102`: a success consumes the key's window |
| `nya/core/queue.py:388` | a status below 400 that is retried neither unlocks the key nor refunds what the try recorded, so the key waits for its TTL | `nya/services/limit.py:144-145`: every exit from a request releases it explicitly |
| `nya/core/queue.py:572` | a request held by a worker keeps a pending future after `close()`, until its client's timeout | `nya/core/queue.py:573`: fail every pending request |
| `nya/core/control.py:331` | `least_requests` keeps offering the least used key while it is held, although another one is free | `nya/core/control.py:295`: acquire if endpoint and key are available |
| `nya/utils/header.py:155` | `connection` is removed before `nya/core/request.py:310` reads what it nominates, so nominated headers are forwarded | `nya/common/constants.py:18-20`: `connection` may nominate additional headers |
| `nya/core/queue.py:296` | a streamed response of 400 or above has its key released before it is delivered, so the next request gets the key while that exchange is open | `configs/novelai.yaml:28`: otherwise the key will be locked until the request completes; `tests/e2e/test_load_scenario.py:120-121`: the upstream must never see two in-flight holds on one key |
| `nya/utils/substitution.py:236-254` | `isnull` holds of an absent field, and `exists` fails for a field whose value is null | `docs/request_body_substitution.md:57,59`: the field is present; the field exists but has null value |
| `nya/server/app.py:428` | state is saved at a clean shutdown only, so what was used since the last one is forgotten by a crash | `nya/services/state.py:6-8`: without this, every crash would hand out a fresh burst allowance |
| `nya/server/app.py:396` | windows and cool-downs are restored at start | `README.md:351-352`: rate-limit windows reset, and all rate limiting state is in-memory |
| `nya/core/control.py:322` | at the instant the oldest timestamp is exactly one window old, the reported wait is 0 and every request is admitted | `README.md:234`: one request per 15 seconds |

The passing runs state what remains true next to each of them: `NetWindow` for
refunds, `HoldersBounded` and `ExclusiveHolder` for locks, `FreshBounded` for the queue's size,
`WaitSuffices` for waits, `LockHasUser` for releases, `QuotaKept` for
restarts, `GaugeBalanced` for the gauge, `RuleExact` for each rule. `FreshBounded`
speaks of first attempts only, because a retry is put back without a size check
(`nya/core/queue.py:469`) and may exceed `queue.max_size`.

### Fairness

`queue_live` uses `FairSpec`. Weak fairness of the notification task, of a worker's
step, of the end of a close and of a delay task: the event loop runs every task
that is ready, and delays are finite. Weak fairness of the upstream outcome and of
the end of a stream: every upstream call carries a timeout
(`nya/core/request.py:212-226`), which bounds each read. Weak fairness of a timed
wake-up while the client waits: `asyncio.wait_for` has a timeout of at most the
heartbeat (`nya/core/queue.py:257-267`). Strong fairness of `Expire`: the deadline is
`added_at` plus a constant, so a request that is looked at forever is found expired.
Clients are not assumed to do anything, locks need not expire, and a parked request
whose client has left gets no timed wake-up, so `WakeOnClientExit` rests on the
done-callback alone.

## Proofs

Each proof module has an inductive invariant `IInv`, a lemma per action that the
action preserves it, and theorems that draw the properties from it. They hold for
every value of the constants that satisfies the named assumption of the module
proved about: parameters have their types, sizes, TTLs and retentions are positive
where `nya/schema.json` or the code demands it, and where a property counts requests
or attempts, there are finitely many (`IsFiniteSet`). Bounds on clocks, faults,
chunks and crashes are arbitrary there.

- `RateLimiterProofs`, first part: `TypeOK`, `DequeBounded`, `ExclusiveHolder`,
  `CoolDownKept`, and `DequeSorted`, which no run lists because the others rest on it.
  A timestamp is never in the future and the deque is in order, so cleaning removes a
  prefix; the limiter's cool-down deadline is at least the latest one asked for.
  `ExclusiveHolder` is inductive by counting: a grant takes the free lock, a lock that
  runs out or is taken by a failing close is counted, and whoever else unlocks the
  key leaves it. With no such event an exclusive key has one holder.
- `RateLimiterProofs`, second part: `NetWindow` and `SleptEnough`. A refund pops the
  youngest timestamp, whoever recorded it, so there is no map from grants to
  timestamps. `GrantsExplained` counts instead: for every start within the window, the
  grants since are at most the timestamps the deque keeps since plus the refunds since,
  second refunds of failing closes included.
  A grant adds one on both sides; a pop takes one from the deque and adds a refund;
  cleaning drops nothing the count can see. With the deque's bound this is `NetWindow`.
  `SleptEnough` follows from lemmas on `KeyWait`.
- `LimiterProofs`: what cleaning, recording and refunding do to the length, the
  order and the count of a deque (`Popped...`, `Kept...`), and that one tick after
  `KeyWait` no reason for refusing the key is left.
- `TrafficProofs`, first part: `TypeOK`. `HasKey` says that an attempt that was granted a
  key has one, and so has its call; `CallKey` that the key of a call was granted to an
  attempt of it, which is why a failing close releases a key of the pool.
- `TrafficProofs`, second part: `KeyWindow`, `EndpointWindow`, `ClientWindow` and
  `WaitSuffices`. The counting of `RateLimiterProofs` on all levels at once (`Sums`):
  each level has its users, the enforced requests that were granted this key, that
  belong to this client, or all of them, and a grant or a refund counts for one key,
  one client and the endpoint. The refund of a failing close counts for the key its call has
  then, which need not be the key of the attempt. A key is checked with `is_limited`, so its deque stays
  within the limit (`KeysBounded`) and `KeyWindow` needs no more. The endpoint and the
  clients are checked with `time_until_reset`, which is 0 at the very instant a window
  ends (a disagreement listed above); `OuterInvariant`, `EndpointWindowKept`,
  `ClientWindowKept` and `WaitsSuffice` assume `WindowsApart`, that no window of theirs
  is a whole number of clock steps, and show that there is no other gap. `Outer` says that these limiters are never locked or blocked and that
  their timestamps are instants of the clock. `WaitSuffices` needs the order of the
  deques (`Ordered`) as well, and that a limiter nobody uses stays free.
- `TrafficProofs`, third part: the refinement. `Implementation` is
  `Spec => KeyLimiter(k)!Spec` for each key, `AllImplemented` the property of the run.
  A lemma per action says which step of `RateLimiter` it is for a key. They need of the
  invariant that a key the balancer draws was found usable, whatever the strategy
  (`OutcomeUsable`), so that a grant's guard holds; that an attempt without a key has
  released nothing (`Fresh`), so that it is as new to the key it gets as to all others; and
  that the key a failing close releases was granted to an attempt of the same call
  (`CallKey`), which is exempt from rate limits or not as all its attempts are
  (`CallAssumption`).
  What `RateLimiterProofs` shows of a key's limiter (a sorted and bounded deque,
  cool-downs kept, bounded holders, a net window) thereby says something of every key under
  the traffic manager, whose own proofs add what spans keys.
- `RequestQueueProofs`: `TypeOK`, `NotLost`, `LockHasUser`, `HoldersBounded`,
  `Accounting`, `FreshBounded`, `ReleaseWakes` and the refinement `KeepsPromise`.
  `PerRequest` relates a request's place to its future, key and attempts (a request
  that is out has a future and, once granted, a key; one in `retry` has attempts
  left). It is inductive alone and gives types, `NotLost` and the refinement. All
  steps fall into a few shapes with respect to the locks (`LockStep`): a key is
  granted to one request, released or left behind by one request, expires, or nothing happens;
  the other invariants are shown for the shapes, not for every action again.
  `HoldersBounded` counts who holds a key (`Holds`), not open exchanges: a streamed error's
  exchange outlives its hold, and its end changes no lock.
- `PersistenceProofs`: all four invariants, over three inductive ones. `IInv` is about
  clocks alone: the last prune left nothing idle beyond its TTL (`PruneLeftRecent`), and
  nothing was accessed a whole interval later without pruning (`PrunedInTime`);
  together they bound how far two limiters' accesses can be apart (`IdleBounded`).
  `HInv` says of each of the three places a deque may be in, a limiter, the saved
  file and the staged one, that it is in order, holds nothing from the future and no
  use that was not made, and that its cool-down was asked for (`NothingAdded`): this
  is types and `NothingInvented`. `LInv` adds the other direction (`NothingLost`):
  whatever of a name still counts under the narrowest window since it was saved is in
  the place it will be looked for next. A prune is the hard step. What it drops counts
  for nobody, because the idle TTL is twice the window (`AccessedLast`); a cool-down
  has no such relation to the TTL, so `QuotaRemembered` assumes `CoolDownsOutlived`: a
  name that is both prunable and blockable has no cool-down longer than the least idle
  time. In the documented formats no name is both, and then it holds for any cool-down. The
  hypothesis is needed: with `Prunable = {ip, key}` and `CoolDowns = {4}` in
  `Persistence.cfg`, TLC finds `QuotaKept` violated by a prune
  (`nya/core/control.py:141` looks for `_ip_` and `_user_` anywhere in a name).
- `ExchangeProofs`: all five invariants. `FlightInv` says that an attempt under way has
  an id of its own whose fate is undecided; `FreshInv` what is known of ids not yet
  given; `StoreInv` that the newest bundles exist, what exists was begun, and whatever
  is on disk beyond the newest is unfinished; `EvidenceInv` relates verdict and chunks
  to what came. `RetentionKept` needs the last two at once: a prune keeps the newest
  ids, not the newest writes.
- `AdmissionProofs`: all invariants, for every set of drafts and of calls (`SchemaAssumption`: lists have their types, an authorization that was given is
  not empty, the peer of a socket has an address). The process only ever runs with a
  draft that passed `Valid`, and the verdict is the decision on the call, or its failed
  preparation (`IInv`); `RoutesUnambiguous`, `WeightsHonoured`, `OnlyKeyholders`,
  `PriorityIsMaster` and `ClientBelievable` follow from lemmas about `Valid` and
  `Decision`. For the attempts, `SInv` adds that something was sent only for a queued
  call whose body can be prepared (`Underway`), so that neither a start, an arrival
  nor a failed preparation can change the decision under what was sent; and that every
  attempt used a key of its API (`OwnKeys`). `CredentialsKeptApart` and `TypeOK` follow;
  whether the headers start from the client's or from the last attempt's makes no
  difference to `HeadersApart`, which is why it holds for any number of attempts.
  `RulesExact` and `SentJson` are about the bodies. Their hypothesis, `JsonInputs`, says
  that bodies and the values of rules are JSON documents, whose objects have keys of one
  set, and that a rule's path has no projection; conditions and references may have
  one. (The code cuts a rule's path at dots and brackets and steps through the pieces, so
  a projection there would not be one. The run's drafts satisfy the hypothesis.)
  `SentBodies` carries it over the attempts: what is sent is again a
  document, and the next attempt starts from it.
- `SubstitutionProofs`: what `SetField` and `RemoveField` do to a document, for paths of any
  length. The library's induction theorems cannot be used here, so a claim about every
  position of a path is shown by its least counterexample (`Upward`, `Downward`), and the
  recursive functions are unfolded by showing that a function with their equation exists
  (`NodesStep`, `WayStep`, `RaisedStep`, `ResultsStep`). A set and a remove rebuild one
  branch, from the changed container up to the root (`Raised`). `Beside` says what a walk
  along the branch sees in the old document and in the new: the node on the way and the
  rebuilt one, a node that was created, or nothing, once an index has met an
  object, which JMESPath does not index. A path that is not a prefix of the rule's, nor
  the rule's of it, leaves the branch somewhere (`Parting`) and from there on walks
  over the same nodes, or over one that filled up a list (`Kept`). So `SetRead` and
  `RemoveRead` say what is read at the rule's own path, `SetOthers` and `RemoveOthers` that
  nothing else moved, for every such path and not only for the `Probes` of the
  run. The documents are any set that is closed under what makes documents of others
  (`Documents`); `JsonDocuments` shows that the JSON documents of all finite depths
  (`Json`) are one, and `ApplyType` that rules do not lead out of it.

Three properties changed because of their proofs. `ClientBelievable` used to say that a
client takes its trusted peer's own address only if nothing else was forwarded; a proxy
that forwards its own address first and another one second is charged itself, and the
run has that call now. The property says which address is taken instead. And
`CredentialsKeptApart` excepts the headers that a configured `connection` nominates,
a case the drafts had left out.
`RemoveExact` looked for the item that moves up at the next index, of which a path
has three, and so said that nothing is left at the third; it reads that
item from the list itself now, whatever the list's length.

Model-checked only:

- `Answered` and `WakeOnClientExit`: liveness under fairness and ENABLED are beyond
  the proof system.

No RECURSIVE operators are declared.

## Not modelled, and why

- Logging, formatting and redaction decide nothing.
- Metrics other than the active gauge (counters, histories, their rendering) only grow
  until a reset; what they are incremented with is shown by `Exchange`'s order of calls.
- The dashboard's pages and JSON, the login page and the browser user interface present
  state. The one call that changes the pipeline, clearing a queue, is `ClearQueue`.
- The target URL and the Host header, the random delay before a request, and the texts
  of errors.
- The debounced reload touches a file; what follows is done by the supervisor of the
  web server. The remote configuration backend is a library's.
- `process_response`, `select_any_key` and `RateLimiter.clear` have no caller.
- `scripts/burst.py` is a client for manual load tests.

## Plan

1. `Persistence`: a configuration without a limit (window 0), and a run with a key whose
   name is prunable as well, which theorem `QuotaRemembered` already covers.
2. `Lifecycle`: start, restore and shutdown in the order of the server, composed with
   the queue's `close()`.
