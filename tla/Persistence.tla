---------------------------- MODULE Persistence ----------------------------
(***************************************************************************)
(* The registry of rate limiters kept by TrafficManager and what becomes   *)
(* of it across restarts (nya/core/control.py, nya/services/limit.py,      *)
(* nya/services/state.py, nya/server/app.py).  Limiters are created on     *)
(* first use and pruned when idle.  A clean stop writes the limiters'      *)
(* windows and cool-downs to a file; the next start stages them, and each  *)
(* is applied when its limiter is created.  The configuration may have     *)
(* been edited in between.                                                 *)
(*                                                                         *)
(* The file is replaced by a rename, so whatever interrupts a save leaves  *)
(* the old file: Die.  Concurrency locks are not saved, their requests die *)
(* with the process; they and the refunds are left to RateLimiter.         *)
(***************************************************************************)
EXTENDS Limiter, FiniteSetsExt

CONSTANTS
    Names,          \* names of limiters
    Prunable,       \* names that contain "_ip_" or "_user_"
    Blockable,      \* names of key limiters, the only ones block_key is given
    Configs,        \* configurations to consider: the rate limit of each name
    CoolDowns,      \* durations block_key is called with
    PruneInterval,  \* _limiter_prune_interval_seconds
    MinIdle,        \* the 60 seconds of _prune_idle_limiters
    MayDie,         \* may a process end without saving?
    Absent,         \* no limiter, no entry
    MaxUses,        \* bound on the uses of all names together
    MaxTime         \* bound on the clock

ASSUME PersistenceAssumption ==
    /\ Prunable \subseteq Names
    /\ Blockable \subseteq Names
    /\ Configs \subseteq [Names -> LimiterConfig]
    /\ CoolDowns \subseteq Nat
    /\ PruneInterval \in Nat \ {0}
    /\ MinIdle \in Nat
    /\ MayDie \in BOOLEAN

VARIABLES
    now,          \* the clock
    running,      \* is there a process?
    rate,         \* the configured rate limit of each name
    limiter,      \* TrafficManager.rate_limiters
    accessed,     \* RateLimiter.last_accessed, 0 without a limiter
    lastPrune,    \* _last_limiter_prune
    staged,       \* _restorable_state
    file,         \* the entries of the state file
    \* History, read by properties only.
    uses,         \* when each name was used, by all processes
    narrowest,    \* smallest window each name has had
    coolUntil,    \* latest end of all cool-downs asked for
    unsaved       \* names whose state a process took with it when it ended

process == <<limiter, accessed, lastPrune, staged>>

history == <<uses, narrowest, coolUntil, unsaved>>

vars == <<now, running, rate, process, file, history>>

Entry == [ts : Seq(Time), blockedUntil : Time]

ASSUME AbsentAssumption == Absent \notin LimiterState \cup Entry

None == [n \in Names |-> Absent]

Init ==
    /\ now = PruneInterval
    /\ running = TRUE
    /\ rate \in Configs
    /\ limiter = None
    /\ accessed = [n \in Names |-> 0]
    /\ lastPrune = 0
    /\ staged = None
    /\ file = None
    /\ uses = [n \in Names |-> <<>>]
    /\ narrowest = [n \in Names |-> rate[n].window]
    /\ coolUntil = [n \in Names |-> 0]
    /\ unsaved = {}

---------------------------------------------------------------------------
(* Saving and restoring one limiter.                                       *)

\* The timestamps t with now - t < window.  The deque is in order, so the filter
\* of export_state and restore_state is a cut from the left.
Recent(ts, window) == Cleaned(ts, now - window + 1)

\* The timestamps that are not in the future, for the same reason the first ones.
Past(ts) == SubSeq(ts, 1, Popped(ts, now + 1))

\* Mutant of Exported: the limiter is saved whole, its lock included.
ExportedWhole(l, c) == IF l = NewLimiter THEN Absent ELSE l

\* RateLimiter.export_state.
Exported(l, c) ==
    LET ts      == IF c.window = 0 THEN <<>> ELSE Recent(l.ts, c.window)
        blocked == IF Blocked(l, now) THEN l.blockedUntil ELSE 0
    IN  IF ts = <<>> /\ blocked = 0 THEN Absent
        ELSE [ts |-> ts, blockedUntil |-> blocked]

\* Mutant of Restored: the saved deadline is taken for a duration.
RestoredAsDuration(entry, c) ==
    [NewLimiter EXCEPT
        !.ts = Recent(entry.ts, c.window),
        !.blockedUntil = IF entry.blockedUntil > now THEN now + entry.blockedUntil ELSE 0]

\* RateLimiter.restore_state on a new limiter.  A window of 0 keeps every
\* timestamp.  The sort is left out: entries are saved in order.
Restored(entry, c) ==
    [NewLimiter EXCEPT
        !.ts = IF c.window = 0 THEN Past(entry.ts) ELSE Recent(Past(entry.ts), c.window),
        !.blockedUntil = IF entry.blockedUntil > now THEN entry.blockedUntil ELSE 0]

---------------------------------------------------------------------------
(* The registry.                                                           *)

\* How long a limiter may be idle, from its window.
IdleTTL(n) == Larger(2 * rate[n].window, MinIdle)

PruneDue == now - lastPrune >= PruneInterval

\* Mutant of Stale: a limiter is stale as soon as a prune is due.
StaleAtOnce(n) == n \in Prunable /\ limiter[n] # Absent

Stale(n) ==
    /\ n \in Prunable
    /\ limiter[n] # Absent
    /\ now - accessed[n] > IdleTTL(n)

\* _prune_idle_limiters.
Pruned ==
    [n \in Names |-> IF PruneDue /\ Stale(n) THEN Absent ELSE limiter[n]]

\* The limiter get_or_create_limiter returns.
Obtained(n) ==
    IF Pruned[n] # Absent THEN Pruned[n]
    ELSE IF staged[n] # Absent THEN Restored(staged[n], rate[n])
    ELSE NewLimiter

\* Mutant of Access: every access puts the next prune off.
AccessDebounced(n, l) ==
    /\ running
    /\ limiter' = [Pruned EXCEPT ![n] = l]
    /\ accessed' = [m \in Names |-> IF m = n THEN now
                                   ELSE IF Pruned[m] = Absent THEN 0 ELSE accessed[m]]
    /\ lastPrune' = now
    /\ staged' = IF Pruned[n] = Absent THEN [staged EXCEPT ![n] = Absent] ELSE staged
    /\ UNCHANGED <<now, running, rate, file, narrowest, unsaved>>

\* get_or_create_limiter, after which the caller leaves the limiter as l.
Access(n, l) ==
    /\ running
    /\ limiter' = [Pruned EXCEPT ![n] = l]
    /\ accessed' = [m \in Names |-> IF m = n THEN now
                                   ELSE IF Pruned[m] = Absent THEN 0 ELSE accessed[m]]
    /\ lastPrune' = IF PruneDue THEN now ELSE lastPrune
    /\ staged' = IF Pruned[n] = Absent THEN [staged EXCEPT ![n] = Absent] ELSE staged
    /\ UNCHANGED <<now, running, rate, file, narrowest, unsaved>>

\* A time_to_..._ready query that does not lead to a use.
Query(n) ==
    /\ Access(n, AfterIsLimited(Obtained(n), rate[n], now))
    /\ UNCHANGED <<uses, coolUntil>>

\* The check found quota, and the use is recorded.
Use(n) ==
    /\ MapThenSumSet(LAMBDA m : Len(uses[m]), Names) < MaxUses
    /\ ~IsLimited(Obtained(n), rate[n], now)
    /\ Access(n, Record(AfterIsLimited(Obtained(n), rate[n], now), now))
    /\ uses' = [uses EXCEPT ![n] = Append(@, now)]
    /\ UNCHANGED coolUntil

\* block_key.
Block(n, d) ==
    /\ n \in Blockable
    /\ Access(n, BlockFor(Obtained(n), now, d))
    /\ coolUntil' = [coolUntil EXCEPT ![n] = Larger(@, now + d)]
    /\ UNCHANGED uses

---------------------------------------------------------------------------
(* The process.                                                            *)

\* TrafficManager.export_state: the live limiters, not the staged entries.
ExportedState ==
    [n \in Names |->
        IF limiter[n] = Absent THEN Absent ELSE Exported(limiter[n], rate[n])]

ProcessEnds ==
    /\ running
    /\ running' = FALSE
    /\ limiter' = None
    /\ accessed' = [n \in Names |-> 0]
    /\ lastPrune' = 0
    /\ staged' = None

\* shutdown: persist_runtime_state succeeds.
Stop ==
    /\ ProcessEnds
    /\ file' = ExportedState
    /\ unsaved' = unsaved \cup {n \in Names : staged[n] # Absent}
    /\ UNCHANGED <<now, rate, uses, narrowest, coolUntil>>

\* The process dies, or its save fails: the old file stays.
Die ==
    /\ MayDie
    /\ ProcessEnds
    /\ unsaved' = Names
    /\ UNCHANGED <<now, rate, file, uses, narrowest, coolUntil>>

\* A start, perhaps with an edited configuration: restore_runtime_state.
Start ==
    /\ ~running
    /\ running' = TRUE
    /\ rate' \in Configs
    /\ staged' = file
    /\ narrowest' = [n \in Names |-> IF rate'[n].window < narrowest[n]
                                     THEN rate'[n].window ELSE narrowest[n]]
    /\ UNCHANGED <<now, limiter, accessed, lastPrune, file, uses, coolUntil,
                   unsaved>>

Tick ==
    /\ now < MaxTime
    /\ now' = now + 1
    /\ UNCHANGED <<running, rate, process, file, history>>

Next ==
    \/ \E n \in Names : Query(n) \/ Use(n)
    \/ \E n \in Names, d \in CoolDowns : Block(n, d)
    \/ Stop
    \/ Die
    \/ Start
    \/ Tick

Spec == Init /\ [][Next]_vars

---------------------------------------------------------------------------
(* Properties.                                                             *)

\* Every variable has its type.
TypeOK ==
    /\ now \in Time
    /\ running \in BOOLEAN
    /\ rate \in [Names -> LimiterConfig]
    /\ limiter \in [Names -> LimiterState \cup {Absent}]
    /\ accessed \in [Names -> Time]
    /\ lastPrune \in Time
    /\ staged \in [Names -> Entry \cup {Absent}]
    /\ file \in [Names -> Entry \cup {Absent}]
    /\ uses \in [Names -> Seq(Time)]
    /\ narrowest \in [Names -> Nat]
    /\ coolUntil \in [Names -> Time]
    /\ unsaved \subseteq Names

\* What a caller would be given for n now, or after a start.
View(n) ==
    IF running THEN Obtained(n)
    ELSE IF file[n] # Absent THEN Restored(file[n], rate[n])
    ELSE NewLimiter

\* Every use inside every window the name has had since is still counted, and
\* a cool-down is still running.
Remembered(n) ==
    /\ Len(Recent(uses[n], narrowest[n])) <= Len(Recent(View(n).ts, rate[n].window))
    /\ coolUntil[n] > now => View(n).blockedUntil = coolUntil[n]

\* Creating, pruning, saving, editing and restoring limiters in any order
\* forgets no consumed quota and no cool-down, except those of a name that was
\* still staged when its process stopped, or whose process died.
QuotaKept == \A n \in Names \ unsaved : Remembered(n)

\* The state file "carries rate-limit windows and key cool-downs across
\* restarts" (README.md:105): no restart forgets any.
QuotaKeptAcrossRestarts == \A n \in Names : Remembered(n)

\* Nothing is made up, after a crash either: a limiter counts no use twice and
\* no cool-down outlasts the one that was asked for.
NothingInvented ==
    \A n \in Names :
        /\ Len(Recent(View(n).ts, rate[n].window)) <= Len(Recent(uses[n], rate[n].window))
        /\ View(n).blockedUntil <= coolUntil[n]

\* The registry is bounded by recent clients: whenever a limiter is accessed,
\* no prunable limiter has been idle for its TTL plus one interval.
IdleBounded ==
    \A m, n \in Names :
        limiter[m] # Absent /\ limiter[n] # Absent /\ n \in Prunable =>
            accessed[m] - accessed[n] < IdleTTL(n) + PruneInterval
============================================================================
