----------------------------- MODULE DomainVerdicts -----------------------------
(***************************************************************************)
(* What the service remembers about one recipient domain, and the          *)
(* verifications that read and write it: verifyOne and safeVerify          *)
(* (services/verification.service.ts) with the layers of cache.service.ts  *)
(* and the failure count of mx-failure-tracker.service.ts.                 *)
(*                                                                         *)
(* The domain is at no throttled provider (CooledProbes is about those), is*)
(* not on the disposable list, its addresses are not role accounts, and    *)
(* CACHE_ENABLED is on.                                                    *)
(* Requests interleave at every await: each action is one run of the event *)
(* loop, from the answer to one await to the next.  DNS and SMTP answer    *)
(* anything at any time; MxPath looks into the lookup and the probe.       *)
(***************************************************************************)
EXTENDS Integers, Sequences, FiniteSets

CONSTANTS
    Slot,          \* the requests in flight at one time
    Address,       \* addresses at the domain
    Options,       \* the option sets that requests are made with
    Backend,       \* CACHE_BACKEND: "sqlite" or "memory"
    Threshold,     \* MX_PERSISTENT_FAILURE_THRESHOLD
    Window,        \* MX_PERSISTENT_FAILURE_WINDOW_MS
    Ttl,           \* kind of entry -> its lifetime
    MaxNow,        \* bound: the clock stops here
    MaxFails       \* bound: no request starts that might exceed this many failures

Layer == {"mx", "dead", "mx_persistent", "catchall"}
ResultTtl == {"valid", "negative", "soft"}

ASSUME VerdictsAssumption ==
    /\ Address \cap Layer = {}
    /\ Options \subseteq SUBSET {"forceRefresh", "skipSmtp", "skipCatchAll"}
    /\ Backend \in {"sqlite", "memory"}
    /\ Threshold \in Nat /\ Threshold >= 2
    /\ Window \in Nat \ {0}
    /\ Ttl \in [Layer \cup ResultTtl -> Nat \ {0}]
    /\ MaxNow \in Nat \ {0}
    /\ MaxFails \in Nat

VARIABLES
    now,      \* Date.now()
    pc,       \* slot -> what its request awaits
    req,      \* slot -> {address, opts}
    cache,    \* address (the result cache) or layer -> its entry
    events,   \* times of the recent path failures (eventsByDomain)
    fails,    \* history: all path failures since the last accepted RCPT or restart
    refuted,  \* history: an RCPT was accepted after the domain was condemned
    out       \* the answer given in the last step, if it gave one

vars == <<now, pc, req, cache, events, fails, refuted, out>>

\* "persistent": undeliverable by repeated path failures; "rejected": any other
\* undeliverable; "soft": retry_later, greylisted or unknown.
Verdict == {"valid", "soft", "rejected", "persistent", "catch_all", "no_domain"}

\* An entry holds its value, when that was found out, and when it expires.
Key == Address \cup Layer
Value == Verdict \cup {"not_catch_all", "routes"}
NoEntry == [v |-> "none", at |-> 0, until |-> 0]
Entry == {NoEntry} \cup [v : Value, at : Nat, until : Nat]

NoRequest == [address |-> "none", opts |-> {}]
Await == {"lists", "mx", "addr", "catchall", "main"}
Silent == [v |-> "none", age |-> 0, cached |-> FALSE]

-----------------------------------------------------------------------------
(* The caches *)

\* resultCacheTtlMs
ResultClass(v) ==
    CASE v = "valid" -> "valid"
      [] v \in {"rejected", "persistent", "catch_all", "no_domain"} -> "negative"
      [] v = "soft" -> "soft"

\* ttlForMxValue: the layer of lookupMx keeps an empty answer as long as the
\* dead layer does.
Lifetime(k, v) ==
    CASE k \in Address -> Ttl[ResultClass(v)]
      [] k = "mx" /\ v = "no_domain" -> Ttl["dead"]
      [] OTHER -> Ttl[k]

Live(k) == cache[k].v # "none" /\ cache[k].until >= now

\* Mutant: a new lifetime is added to what is left of the last one.
PutExtending(c, k, v) ==
    LET from == IF c[k].until > now THEN c[k].until ELSE now
    IN  [c EXCEPT ![k] = [v |-> v, at |-> now, until |-> from + Lifetime(k, v)]]

\* set* of the layer: an entry made now.
Put(c, k, v) == [c EXCEPT ![k] = [v |-> v, at |-> now, until |-> now + Lifetime(k, v)]]

\* get* of the layer that hits: with updateAgeOnGet the lifetime starts again.
Touch(c, k) ==
    IF Backend = "memory"
    THEN [c EXCEPT ![k].until = now + Lifetime(k, c[k].v)]
    ELSE c

Drop(c, K) == [k \in Key |-> IF k \in K THEN NoEntry ELSE c[k]]

\* setCachedResult, which a request with forceRefresh does not call.
Remember(c, s, v) ==
    IF "forceRefresh" \notin req[s].opts
    THEN Put(c, req[s].address, v)
    ELSE c

-----------------------------------------------------------------------------
(* Steps of a request *)

Forced(s) == "forceRefresh" \in req[s].opts

Goto(s, where) ==
    /\ pc' = [pc EXCEPT ![s] = where]
    /\ out' = Silent
    /\ UNCHANGED req

\* The request ends with verdict v, found out at the time t.
Finish(s, v, t, cached) ==
    /\ pc' = [pc EXCEPT ![s] = "idle"]
    /\ req' = [req EXCEPT ![s] = NoRequest]
    /\ out' = [v |-> v, age |-> now - t, cached |-> cached]

History == <<fails, refuted>>

\* verifyOne up to its first await: the result cache.  The bound: every request
\* under way may still record one path failure.
Begin(s) ==
    /\ pc[s] = "idle"
    /\ Len(fails) + Cardinality({t \in Slot : pc[t] # "idle"}) < MaxFails
    /\ \E a \in Address, o \in Options :
          LET hit == "forceRefresh" \notin o /\ Live(a)
          IN  \/ /\ hit
                 /\ cache' = Touch(cache, a)
                 /\ out' = [v |-> cache[a].v, age |-> now - cache[a].at, cached |-> TRUE]
                 /\ UNCHANGED <<pc, req>>
              \/ /\ ~hit
                 /\ pc' = [pc EXCEPT ![s] = "lists"]
                 /\ req' = [req EXCEPT ![s] = [address |-> a, opts |-> o]]
                 /\ out' = Silent
                 /\ UNCHANGED cache
    /\ UNCHANGED <<now, events, History>>

\* Mutant: what a layer answers is kept as a result of its own.
ServeLayerCopying(s, k, v) ==
    /\ cache' = [cache EXCEPT ![req[s].address] =
                    [v |-> v, at |-> cache[k].at, until |-> now + Lifetime(req[s].address, v)]]
    /\ Finish(s, v, cache[k].at, TRUE)

ServeLayer(s, k, v) ==
    /\ cache' = Touch(cache, k)
    /\ Finish(s, v, cache[k].at, TRUE)

\* lookupMx up to its first await: a forced request deletes the entry of the
\* domain; the others are answered by it without asking DNS, and an empty answer
\* is remembered as dead once more, from now on.
LookupMx(s) ==
    \/ /\ Forced(s)
       /\ Goto(s, "mx")
       /\ cache' = Drop(cache, {"mx"})
    \/ /\ ~Forced(s) /\ ~Live("mx")
       /\ Goto(s, "mx")
       /\ UNCHANGED cache
    \/ /\ ~Forced(s) /\ Live("mx") /\ cache["mx"].v = "routes"
       /\ Goto(s, "addr")
       /\ cache' = Touch(cache, "mx")
    \/ /\ ~Forced(s) /\ Live("mx") /\ cache["mx"].v = "no_domain"
       /\ cache' = [Touch(cache, "mx") EXCEPT !["dead"] =
                       [v |-> "no_domain", at |-> cache["mx"].at,
                        until |-> now + Lifetime("dead", "no_domain")]]
       /\ Finish(s, "no_domain", cache["mx"].at, TRUE)

\* The lists are loaded: the layers, persistent before dead, then lookupMx.
Layers(s) ==
    /\ pc[s] = "lists"
    /\ \/ /\ ~Forced(s) /\ Live("mx_persistent")
          /\ ServeLayer(s, "mx_persistent", "persistent")
       \/ /\ ~Forced(s) /\ ~Live("mx_persistent") /\ Live("dead")
          /\ ServeLayer(s, "dead", cache["dead"].v)
       \/ /\ Forced(s) \/ ~(Live("mx_persistent") \/ Live("dead"))
          /\ LookupMx(s)
    /\ UNCHANGED <<now, events, History>>

\* DNS answered lookupMx: records; no such domain or no MX, which is also
\* remembered as dead; an error, transient or not, which is not remembered.  The
\* layer of lookupMx is written for forced requests too.
MxAnswered(s) ==
    /\ pc[s] = "mx"
    /\ \/ Goto(s, "addr") /\ cache' = Put(cache, "mx", "routes")
       \/ /\ LET known == Put(cache, "mx", "no_domain")
             IN  cache' = IF Forced(s) THEN known ELSE Put(known, "dead", "no_domain")
          /\ Finish(s, "no_domain", now, FALSE)
       \/ /\ \E v \in {"soft", "rejected"} : Finish(s, v, now, FALSE)
          /\ UNCHANGED cache
    /\ UNCHANGED <<now, events, History>>

\* Failures are appended in clock order: what the filter "t > now - windowMs"
\* keeps is what is left after the expired prefix.
Recent(times) ==
    LET expired == {i \in DOMAIN times : times[i] <= now - Window}
    IN  SubSeq(times, 1 + Cardinality(expired), Len(times))

\* Mutant: the failures of the past are never pruned.
PathFailureForever(s, keep) ==
    LET next == Append(events, now)
        v == IF Len(next) >= Threshold THEN "persistent" ELSE "soft"
        marked == IF v = "persistent"
                  THEN Put(Put(cache, "dead", v), "mx_persistent", v)
                  ELSE cache
    IN  /\ events' = next
        /\ fails' = Append(fails, now)
        /\ refuted' = (refuted /\ v # "persistent")
        /\ cache' = IF keep THEN Remember(marked, s, v) ELSE marked
        /\ Finish(s, v, now, FALSE)

\* withMxPersistent and recordMxPathFailure: the failure that reaches the
\* threshold within the window condemns the domain, for forced requests too.
\* keep: the caller stores the result.
PathFailure(s, keep) ==
    LET next == Append(Recent(events), now)
        v == IF Len(next) >= Threshold THEN "persistent" ELSE "soft"
        marked == IF v = "persistent"
                  THEN Put(Put(cache, "dead", v), "mx_persistent", v)
                  ELSE cache
    IN  /\ events' = next
        /\ fails' = Append(fails, now)
        /\ refuted' = (refuted /\ v # "persistent")
        /\ cache' = IF keep THEN Remember(marked, s, v) ELSE marked
        /\ Finish(s, v, now, FALSE)

\* Some MX host has an address: skipSmtp ends here with an unknown, stored like
\* any other result; otherwise the catch-all probe comes first, unless it is
\* skipped or the layer says not_catch_all.
Routable(s) ==
    LET skipped == "skipCatchAll" \in req[s].opts
        known == ~Forced(s) /\ Live("catchall")
    IN  \/ /\ "skipSmtp" \in req[s].opts
           /\ cache' = Remember(cache, s, "soft")
           /\ Finish(s, "soft", now, FALSE)
        \/ /\ "skipSmtp" \notin req[s].opts
           /\ \/ skipped /\ Goto(s, "main") /\ UNCHANGED cache
              \/ ~skipped /\ known /\ Goto(s, "main") /\ cache' = Touch(cache, "catchall")
              \/ ~skipped /\ ~known /\ Goto(s, "catchall") /\ UNCHANGED cache

\* checkMxExchangesAddressable: all hosts failed for good, all failed and some
\* only for now, or some are routable.
AddrAnswered(s) ==
    /\ pc[s] = "addr"
    /\ \/ Finish(s, "rejected", now, FALSE) /\ UNCHANGED <<cache, events, History>>
       \/ PathFailure(s, FALSE)
       \/ Routable(s) /\ UNCHANGED <<events, History>>
    /\ UNCHANGED now

\* probeCatchAll: an accepted random address is a result; whatever else came
\* back, a refusal or no verdict at all, is stored as not_catch_all.
CatchAllAnswered(s) ==
    /\ pc[s] = "catchall"
    /\ \/ /\ cache' = Remember(cache, s, "catch_all")
          /\ Finish(s, "catch_all", now, FALSE)
       \/ /\ cache' = IF Forced(s) THEN cache ELSE Put(cache, "catchall", "not_catch_all")
          /\ Goto(s, "main")
    /\ UNCHANGED <<now, events, History>>

\* Mutant: an accepted RCPT only empties the failure count.
AcceptedKeeping(s) ==
    /\ events' = <<>>
    /\ fails' = <<>>
    /\ refuted' = TRUE
    /\ cache' = Remember(cache, s, "valid")
    /\ Finish(s, "valid", now, FALSE)

\* Mutant: the count of failures survives an accepted RCPT.
AcceptedCounting(s) ==
    /\ UNCHANGED events
    /\ fails' = <<>>
    /\ refuted' = TRUE
    /\ cache' = Remember(Drop(cache, {"mx_persistent"}), s, "valid")
    /\ Finish(s, "valid", now, FALSE)

\* RCPT accepted: clearMxPathFailures empties the count and the persistent
\* layer; the dead layer and the other results stay.
Accepted(s) ==
    /\ events' = <<>>
    /\ fails' = <<>>
    /\ refuted' = TRUE
    /\ cache' = Remember(Drop(cache, {"mx_persistent"}), s, "valid")
    /\ Finish(s, "valid", now, FALSE)

\* mapSmtpToResult and the write of the result: accepted; rejected; put off
\* (4xx, policy, 252, and timeouts, which do not count); or no session at all.
MainAnswered(s) ==
    /\ pc[s] = "main"
    /\ \/ Accepted(s)
       \/ /\ \E v \in {"rejected", "soft"} :
                cache' = Remember(cache, s, v) /\ Finish(s, v, now, FALSE)
          /\ UNCHANGED <<events, History>>
       \/ PathFailure(s, TRUE)
    /\ UNCHANGED now

-----------------------------------------------------------------------------
(* The rest of the system *)

\* POST /v1/cache/clear, by type.
ClearCaches ==
    /\ \E K \in {Key, Address} \cup {{l} : l \in Layer} : cache' = Drop(cache, K)
    /\ out' = Silent
    /\ UNCHANGED <<now, pc, req, events, History>>

\* The process restarts: the requests and the failure count are gone, and so
\* are the caches unless they are in SQLite.
Restart ==
    /\ pc' = [s \in Slot |-> "idle"]
    /\ req' = [s \in Slot |-> NoRequest]
    /\ cache' = IF Backend = "memory" THEN Drop(cache, Key) ELSE cache
    /\ events' = <<>>
    /\ fails' = <<>>
    /\ out' = Silent
    /\ UNCHANGED <<now, refuted>>

\* Expired entries are dropped here: none is ever read again.
Tick ==
    /\ now < MaxNow
    /\ now' = now + 1
    /\ cache' = Drop(cache, {k \in Key : cache[k].until < now + 1})
    /\ out' = Silent
    /\ UNCHANGED <<pc, req, events, History>>

Init ==
    /\ now = 1
    /\ pc = [s \in Slot |-> "idle"]
    /\ req = [s \in Slot |-> NoRequest]
    /\ cache = [k \in Key |-> NoEntry]
    /\ events = <<>>
    /\ fails = <<>>
    /\ refuted = FALSE
    /\ out = Silent

Next ==
    \/ \E s \in Slot :
          \/ Begin(s)
          \/ Layers(s)
          \/ MxAnswered(s)
          \/ AddrAnswered(s)
          \/ CatchAllAnswered(s)
          \/ MainAnswered(s)
    \/ ClearCaches
    \/ Restart
    \/ Tick

Spec == Init /\ [][Next]_vars

-----------------------------------------------------------------------------
(* Properties *)

\* The types of the variables; entries were made in the past and last no longer
\* than their layer allows.
TypeOK ==
    /\ now \in Nat \ {0}
    /\ pc \in [Slot -> {"idle"} \cup Await]
    /\ \A s \in Slot : IF pc[s] = "idle"
                       THEN req[s] = NoRequest
                       ELSE req[s] \in [address : Address, opts : Options]
    /\ cache \in [Key -> Entry]
    /\ \A k \in Key :
          /\ cache[k].at <= now
          /\ \E t \in IF k \in Address THEN ResultTtl ELSE {k, "dead"} :
                cache[k].until <= now + Ttl[t]
    /\ events \in Seq(1 .. now)
    /\ fails \in Seq(1 .. now)
    /\ refuted \in BOOLEAN
    /\ out.v \in Verdict \cup {"none"} /\ out.age \in 0 .. now

\* How long a verdict may be repeated: as long as its kind is kept by any layer
\* that stores it.  An empty DNS answer is repeated by two layers in turn: the one
\* of lookupMx, filled by a forced request, can fill the dead layer just before it
\* expires itself.
MaxAge(v) ==
    CASE v = "valid" -> Ttl["valid"]
      [] v = "soft" -> Ttl["soft"]
      [] v \in {"rejected", "catch_all"} -> Ttl["negative"]
      [] v = "no_domain" -> 2 * Ttl["dead"]
      [] v = "persistent" ->
            CHOOSE t \in {Ttl["negative"], Ttl["dead"], Ttl["mx_persistent"]} :
                \A u \in {Ttl["negative"], Ttl["dead"], Ttl["mx_persistent"]} : u <= t

\* No answer is staler than the lifetime configured for its kind: the layers are
\* filled in several places and at different times, and a verdict that one of
\* them repeats must not be kept anew by another (env.ts, the TTLs: a short one
\* for valid, so that a re-check sees changes, and a soft failure is not held as
\* if it were permanent).  Holds with SQLite, not with the memory backend, where
\* every read restarts the lifetime (memory-cache.repository.ts:39).
AnswersAreFresh == out.v # "none" => out.age <= MaxAge(out.v)

Within(s, t) == Cardinality({i \in DOMAIN s : s[i] > t})

\* A domain is condemned for cause: when a request finds it persistently
\* unreachable, at least Threshold path failures were recorded within one
\* Window, with no accepted RCPT in between, by whichever requests.
CondemnedForCause ==
    [][out'.v = "persistent" /\ ~out'.cached =>
          Within(fails', now - Window) >= Threshold]_vars

\* The persistent layer never contradicts the last evidence: while it condemns
\* the domain, no RCPT was accepted after that, in whatever order requests that
\* overlapped came back.
CondemnationStands == Live("mx_persistent") => ~refuted

=============================================================================
