------------------------------ MODULE Exchange ------------------------------
(***************************************************************************)
(* Upstream attempts, several at a time: what the executor does between    *)
(* sending a request and handing over its response (nya/core/request.py,   *)
(* nya/core/streaming.py), what it tells the active gauge                  *)
(* (nya/services/metrics.py), and the evidence bundle each attempt leaves  *)
(* on disk (nya/services/gateway_logs.py).  The dashboard may reset the    *)
(* metrics, the store prunes old bundles, and the process may die at any   *)
(* point, inside a write or a prune too.                                   *)
(*                                                                         *)
(* Bodies are counts of chunks; one API; counters that only grow are left  *)
(* out.  A section of the code without an await is one action.             *)
(***************************************************************************)
EXTENDS Integers, FiniteSetsExt

CONSTANTS
    Attempts,    \* attempts that may be under way together
    Heads,       \* response heads an upstream may send
    Retention,   \* bundles the store keeps
    MaxChunks,   \* bound on the chunks of a body
    MaxId,       \* bound on the ids of attempts
    MaxResets,   \* bound on the resets of the metrics
    MaxCrashes   \* bound on the crashes

Head == [type : {"json", "text", "media", "other"}, chunked : BOOLEAN, length : BOOLEAN,
         ranges : BOOLEAN, encoded : BOOLEAN, latin1 : BOOLEAN]

ASSUME ExchangeAssumption ==
    /\ IsFiniteSet(Attempts)
    /\ Heads \subseteq Head
    /\ Retention \in Nat \ {0}
    /\ {MaxChunks, MaxId, MaxResets, MaxCrashes} \subseteq Nat

VARIABLES
    up,        \* is the process running?
    attempt,   \* the attempts under way
    active,    \* the active gauge
    conns,     \* attempts whose upstream connection is open
    nextId,    \* GatewayLogStore._next_id
    bundle,    \* the files of each attempt
    index,     \* the completed attempts the index file lists
    \* History, read by properties only.
    begun,     \* attempts whose bundle was written
    got,       \* chunks that came from upstream
    fate,      \* what became of the response
    lost,      \* attempts that ended without being accounted for, and why
    resetLate, \* was a reset made while the gauge counted something?
    resets,
    crashes

store == <<nextId, bundle, index, begun>>

history == <<got, fate, lost, resetLate, resets, crashes>>

vars == <<up, attempt, active, conns, store, history>>

Ids == 1 .. MaxId

\* raw is the number of chunks in the raw response file, NoFile without one;
\* it stands for the request files too.  text is the readable copy.
NoFile == -1

Bundle == [raw : NoFile .. MaxChunks, text : BOOLEAN,
           meta : {"none", "open", "ok", "error"}]

Nothing == [raw |-> NoFile, text |-> FALSE, meta |-> "none"]

NoHead == [type |-> "none", encoded |-> FALSE]

Free == [stage |-> "free", id |-> 0, head |-> NoHead, left |-> 0]

Init ==
    /\ up = TRUE
    /\ attempt = [a \in Attempts |-> Free]
    /\ active = 0
    /\ conns = {}
    /\ nextId = 1
    /\ bundle = [i \in Ids |-> Nothing]
    /\ index = {}
    /\ begun = {}
    /\ got = [i \in Ids |-> 0]
    /\ fate = [i \in Ids |-> "none"]
    /\ lost = [i \in Ids |-> "no"]
    /\ resetLate = FALSE
    /\ resets = 0
    /\ crashes = 0

---------------------------------------------------------------------------
(* The response head.                                                      *)

\* detect_streaming_content.
Streams(h) ==
    /\ h.type # "json"
    /\ ~h.length \/ h.chunked \/ (h.type = "media" /\ h.ranges)

\* Is a readable copy of the body made?
Readable(h) == h.type \in {"json", "text"} /\ ~h.encoded

---------------------------------------------------------------------------
(* The store.                                                              *)

\* _existing_ids: a bundle exists when its meta file does.
Existing(b) == {i \in Ids : b[i].meta # "none"}

\* The bundles _prune_locked removes.
Excess(b) ==
    {i \in Existing(b) : Cardinality({j \in Existing(b) : j >= i}) > Retention}

\* _prune_locked.
Pruned(b) == [i \in Ids |-> IF i \in Excess(b) THEN Nothing ELSE b[i]]

\* Mutant of NextFree: ids are counted, not compared.
CountedNextFree == Cardinality(Existing(bundle)) + 1

\* _discover_next_id.
NextFree == Max(Existing(bundle) \cup {0}) + 1

\* GatewayLogEntry.__init__ writes every file but the readable copy.
Written == [bundle EXCEPT ![nextId].raw = 0, ![nextId].meta = "open"]

\* finish raises: the raw response to be read back has been pruned.
FinishRaises(t) == Readable(t.head) /\ bundle[t.id].raw = NoFile

\* finish: the readable copy and the meta file are written, then
\* _entry_finished prunes and writes the index.
Finish(t, verdict) ==
    IF FinishRaises(t) THEN UNCHANGED <<bundle, index>>
    ELSE /\ bundle' = Pruned([bundle EXCEPT ![t.id].text = Readable(t.head),
                                            ![t.id].meta = verdict])
         /\ index' = {i \in Existing(bundle') : bundle'[i].meta # "open"}

---------------------------------------------------------------------------
(* The start of an attempt.                                                *)

InFlight == {a \in Attempts : attempt[a].stage # "free"}

Idle(a) == up /\ attempt[a].stage = "free" /\ nextId <= MaxId

\* begin and record_request.
Begin(a) ==
    /\ Idle(a)
    /\ bundle' = Pruned(Written)
    /\ begun' = begun \cup {nextId}
    /\ nextId' = nextId + 1
    /\ attempt' = [attempt EXCEPT ![a] = [Free EXCEPT !.stage = "sent", !.id = nextId]]
    /\ active' = active + 1
    /\ UNCHANGED <<up, conns, index, history>>

\* begin raises, on a full disk for instance: the id is spent and its files
\* are removed; nothing was counted.
BeginFails(a) ==
    /\ Idle(a)
    /\ bundle' = [bundle EXCEPT ![nextId] = Nothing]
    /\ nextId' = nextId + 1
    /\ UNCHANGED <<up, attempt, active, conns, index, begun, history>>

---------------------------------------------------------------------------
(* The end of an attempt.                                                  *)

\* Mutant of Over: the upstream stream is left to the garbage collector.
OverUnclosed(a, f) ==
    /\ attempt' = [attempt EXCEPT ![a] = Free]
    /\ fate' = [fate EXCEPT ![attempt[a].id] = f]
    /\ UNCHANGED <<up, conns, nextId, begun, got, resetLate, resets, crashes>>

\* a is over, and f became of its response; its upstream stream is closed.
Over(a, f) ==
    /\ attempt' = [attempt EXCEPT ![a] = Free]
    /\ fate' = [fate EXCEPT ![attempt[a].id] = f]
    /\ conns' = conns \ {attempt[a].id}
    /\ UNCHANGED <<up, nextId, begun, got, resetLate, resets, crashes>>

\* Mutant of Settle: only a success is recorded.
SettleSuccess(t, verdict) ==
    /\ Finish(t, verdict)
    /\ active' = IF verdict = "ok" THEN active - 1 ELSE active
    /\ lost' = IF FinishRaises(t) THEN [lost EXCEPT ![t.id] = "finish"] ELSE lost

\* finish, then record_response, which is skipped when finish raises.
Settle(t, verdict) ==
    /\ Finish(t, verdict)
    /\ active' = IF FinishRaises(t) THEN active ELSE active - 1
    /\ lost' = IF FinishRaises(t) THEN [lost EXCEPT ![t.id] = "finish"] ELSE lost

\* The request fails before a response head arrives, or is cancelled.
FailToSend(a) ==
    /\ attempt[a].stage = "sent"
    /\ Settle(attempt[a], "error")
    /\ Over(a, "failed")

---------------------------------------------------------------------------
(* The response.                                                           *)

\* The head arrives: record_response_head, and the branch on
\* detect_streaming_content.
ReceiveHead(a, h, n) ==
    /\ attempt[a].stage = "sent"
    /\ Streams(h) => h.latin1
    /\ bundle' = [bundle EXCEPT ![attempt[a].id].meta = "open"]
    /\ conns' = conns \cup {attempt[a].id}
    /\ attempt' = [attempt EXCEPT ![a] =
                     [stage |-> IF Streams(h) THEN "returned" ELSE "reading",
                      id |-> @.id, head |-> h, left |-> n]]
    /\ UNCHANGED <<up, active, nextId, index, begun, history>>

\* The head of a stream has a value latin-1 cannot encode: the call of
\* handle_streaming_response raises, and no try covers it.
FailToStream(a, h) ==
    /\ attempt[a].stage = "sent"
    /\ Streams(h) /\ ~h.latin1
    /\ bundle' = [bundle EXCEPT ![attempt[a].id].meta = "open"]
    /\ conns' = conns \cup {attempt[a].id}
    /\ attempt' = [attempt EXCEPT ![a] = Free]
    /\ fate' = [fate EXCEPT ![attempt[a].id] = "failed"]
    /\ lost' = [lost EXCEPT ![attempt[a].id] = "setup"]
    /\ UNCHANGED <<up, active, nextId, index, begun, got, resetLate, resets, crashes>>

\* Mutant of Receive: the end of the body is not noticed.
ReceiveOn(a) ==
    LET t == attempt[a]
    IN  /\ t.stage \in {"reading", "streaming"}
        /\ attempt' = [attempt EXCEPT ![a].left = @ - 1]
        /\ got' = [got EXCEPT ![t.id] = @ + 1]
        /\ bundle' = IF bundle[t.id].raw = NoFile THEN bundle
                     ELSE [bundle EXCEPT ![t.id].raw = @ + 1]
        /\ UNCHANGED <<up, active, conns, nextId, index, begun, fate, lost,
                       resetLate, resets, crashes>>

\* A chunk: write_response_chunk, then it is kept or yielded.  What is written
\* to a file that was removed is gone with it.
Receive(a) ==
    LET t == attempt[a]
    IN  /\ t.stage \in {"reading", "streaming"} /\ t.left > 0
        /\ attempt' = [attempt EXCEPT ![a].left = @ - 1]
        /\ got' = [got EXCEPT ![t.id] = @ + 1]
        /\ bundle' = IF bundle[t.id].raw = NoFile THEN bundle
                     ELSE [bundle EXCEPT ![t.id].raw = @ + 1]
        /\ UNCHANGED <<up, active, conns, nextId, index, begun, fate, lost,
                       resetLate, resets, crashes>>

\* A buffered body is complete and its headers can be passed on.  An answer
\* whose finish raises is denied to the caller.
AnswerBuffered(a) ==
    LET t == attempt[a]
    IN  /\ t.stage = "reading" /\ t.left = 0 /\ t.head.latin1
        /\ Settle(t, "ok")
        /\ Over(a, IF FinishRaises(t) THEN "denied" ELSE "whole")

\* Reading breaks off or is cancelled, the headers cannot be passed on, or
\* closing the upstream stream raises.
FailBuffered(a) ==
    LET t == attempt[a]
    IN  /\ t.stage = "reading"
        /\ Settle(t, "error")
        /\ Over(a, "failed")

\* The server iterates the response.
StartStream(a) ==
    /\ attempt[a].stage = "returned"
    /\ attempt' = [attempt EXCEPT ![a].stage = "streaming"]
    /\ UNCHANGED <<up, active, conns, store, history>>

\* finalize: the finalizers run one by one, whatever the others raise.
Finalize(t, verdict) ==
    /\ Finish(t, verdict)
    /\ active' = active - 1
    /\ UNCHANGED lost

\* Mutant of EndStream: only an Exception marks the log, a cancellation is none.
EndStreamUnmarked(a) ==
    LET t == attempt[a]
    IN  /\ t.stage = "streaming"
        /\ \/ t.left = 0 /\ Finalize(t, "ok") /\ Over(a, "whole")
           \/ Finalize(t, "ok") /\ Over(a, "failed")

\* The stream is complete, or it breaks off or its client goes away: on_error.
EndStream(a) ==
    LET t == attempt[a]
    IN  /\ t.stage = "streaming"
        /\ \/ t.left = 0 /\ Finalize(t, "ok") /\ Over(a, "whole")
           \/ Finalize(t, "error") /\ Over(a, "failed")

\* The queue closes a response nobody will read: _nya_close.
Discard(a) ==
    /\ attempt[a].stage = "returned"
    /\ Finalize(attempt[a], "ok")
    /\ Over(a, "discarded")

\* The client went away before the response was iterated: a generator that
\* never ran runs no finally clause.
Orphan(a) ==
    /\ attempt[a].stage = "returned"
    /\ attempt' = [attempt EXCEPT ![a] = Free]
    /\ fate' = [fate EXCEPT ![attempt[a].id] = "failed"]
    /\ lost' = [lost EXCEPT ![attempt[a].id] = "orphan"]
    /\ UNCHANGED <<up, active, conns, store, got, resetLate, resets, crashes>>

---------------------------------------------------------------------------
(* The dashboard and the process.                                          *)

Unaccounted == {i \in Ids : lost[i] # "no"}

\* MetricsCollector.reset.
Reset ==
    /\ up /\ resets < MaxResets
    /\ active' = 0
    /\ resetLate' = (InFlight \cup Unaccounted # {})
    /\ resets' = resets + 1
    /\ UNCHANGED <<up, attempt, conns, store, got, fate, lost, crashes>>

\* What may be left of a bundle whose removal was cut short.
Remains(b) == {[raw |-> r, text |-> x, meta |-> m] :
                  r \in {b.raw, NoFile}, x \in {b.text, FALSE}, m \in {b.meta, "none"}}

\* The files after an interrupted begin: before the meta file, or while the
\* oldest bundle is removed.
CutShort ==
    IF nextId > MaxId THEN {}
    ELSE {[bundle EXCEPT ![nextId].raw = 0]}
           \cup UNION {{[Written EXCEPT ![i] = r] : r \in Remains(bundle[i])} :
                          i \in Excess(Written)}

\* The process dies.
Crash ==
    /\ up /\ crashes < MaxCrashes
    /\ up' = FALSE
    /\ crashes' = crashes + 1
    /\ bundle' \in {bundle} \cup CutShort
    /\ begun' = begun \cup Existing(bundle')
    /\ attempt' = [a \in Attempts |-> Free]
    /\ active' = 0
    /\ conns' = {}
    /\ lost' = [i \in Ids |-> "no"]
    /\ resetLate' = FALSE
    /\ UNCHANGED <<nextId, index, got, fate, resets>>

\* GatewayLogStore.__init__ in the next process.
Restart ==
    /\ ~up
    /\ up' = TRUE
    /\ nextId' = NextFree
    /\ bundle' = Pruned(bundle)
    /\ index' = {i \in Existing(bundle') : bundle'[i].meta # "open"}
    /\ UNCHANGED <<attempt, active, conns, begun, history>>

Next ==
    \/ \E a \in Attempts :
         \/ Begin(a) \/ BeginFails(a) \/ FailToSend(a)
         \/ \E h \in Heads :
              FailToStream(a, h) \/ \E n \in 0 .. MaxChunks : ReceiveHead(a, h, n)
         \/ Receive(a)
         \/ AnswerBuffered(a) \/ FailBuffered(a)
         \/ StartStream(a) \/ EndStream(a) \/ Discard(a) \/ Orphan(a)
    \/ Reset
    \/ Crash
    \/ Restart

Spec == Init /\ [][Next]_vars

---------------------------------------------------------------------------
(* Properties.                                                             *)

Underway == {attempt[a].id : a \in InFlight}

\* Every variable has its type.
TypeOK ==
    /\ up \in BOOLEAN
    /\ attempt \in [Attempts ->
         [stage : {"free", "sent", "reading", "returned", "streaming"},
          id : 0 .. MaxId, head : Heads \cup {NoHead}, left : 0 .. MaxChunks]]
    /\ active \in Int
    /\ conns \subseteq Ids
    /\ nextId \in 1 .. MaxId + 1
    /\ bundle \in [Ids -> Bundle]
    /\ index \subseteq Ids
    /\ begun \subseteq Ids
    /\ got \in [Ids -> 0 .. MaxChunks]
    /\ fate \in [Ids -> {"none", "whole", "denied", "discarded", "failed"}]
    /\ lost \in [Ids -> {"no", "finish", "setup", "orphan"}]
    /\ resetLate \in BOOLEAN
    /\ resets \in 0 .. MaxResets
    /\ crashes \in 0 .. MaxCrashes

\* record_request and record_response pair up: until a reset catches an
\* attempt, the gauge is the attempts under way plus the three kinds of
\* attempt that end unaccounted for.
GaugeBalanced ==
    ~resetLate => active = Cardinality(InFlight) + Cardinality(Unaccounted)

\* The gauge is of "Requests currently in flight, by API." (metrics.py:100).
GaugeCountsInFlight == active = Cardinality(InFlight)

\* No upstream connection stays open behind an attempt that is over, except
\* behind a stream that was never started or could not be set up.
ConnectionsReturned ==
    conns = {i \in Underway : \E a \in InFlight :
                attempt[a].id = i /\ attempt[a].stage # "sent"}
              \cup {i \in Ids : lost[i] \in {"setup", "orphan"}}

\* The newest attempts of which a bundle was written.
Newest == {i \in begun : Cardinality({j \in begun : j >= i}) <= Retention}

\* "Only the newest `retention` attempts are kept" (README.md:350), and each of
\* those is: failed begins, attempts that outlive their bundle and restarts
\* remove no newer one and reuse no id.  A meta file beyond them is unfinished:
\* its attempt wrote it again after the bundle was removed.
RetentionKept ==
    /\ \A i \in Newest : bundle[i].meta # "none"
    /\ up => \A i \in begun : i < nextId
    /\ up => \A i \in Existing(bundle) \ Newest : bundle[i].meta = "open"

\* What a finished bundle on disk says is what happened: "ok" only for a body
\* read to its end or closed unread by the proxy itself, and the raw file holds
\* the chunks that came.  The index lists every finished bundle.
EvidenceTrue ==
    up => \A i \in Existing(bundle) :
             /\ bundle[i].meta = "ok" => fate[i] \in {"whole", "discarded"}
             /\ bundle[i].meta = "error" => fate[i] = "failed"
             /\ bundle[i].meta # "open" => bundle[i].raw = got[i] /\ i \in index
=============================================================================
